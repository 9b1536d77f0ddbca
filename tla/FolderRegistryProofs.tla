------------------------ MODULE FolderRegistryProofs ------------------------
(* Proofs about FolderRegistry: saves that overlap leave the configuration  *)
(* in memory in the file, for any number of folders and goroutines, because *)
(* a save holds cfg.mu for reading until it has written; and no entry or    *)
(* SyncDelete comes from nowhere.                                           *)
EXTENDS FolderRegistry, TLAPS, FiniteSetTheorems

\* What the file holds when no save is due: the configuration in memory, or,
\* after a restart, the one Load made it of.
Current(d) == file[d] # Torn /\ Snapshot(d) \in {file[d], Loaded(file[d])}

\* What saves rely on: while one is writing, memory is what it has encoded,
\* and the file is torn or holds just that; when none is due, the file is
\* current.  Devices where a field was changed without the lock are left out.
Saved(d) ==
  /\ \A t \in Task : task[d][t].pc = "write" => task[d][t].data = Snapshot(d)
  /\ Saving(d) # {} => file[d] \in {Torn, Snapshot(d)}
  /\ ~Unsaved(d) => Current(d)

SaveInv == \A d \in Device \ (down \cup raced) : Saved(d)

Inv == TypeOK /\ SaveInv

-----------------------------------------------------------------------------
(* Types. *)

LEMMA JobTypes ==
  /\ Idle \in Job /\ Pending \subseteq Job /\ Writing \subseteq Job
  /\ \A j \in Job : (j.pc = "write" => j \in Writing)
                    /\ (j.pc \notin {"write", "idle"} => j \in Pending)
  /\ \A j \in Pending : j.pc # "write" /\ j.pc # "idle"
BY DEF Job, Idle, Pending, Writing

\* Load keeps the form and the folders of a configuration.
LEMMA LoadedType ==
  ASSUME NEW c \in Config
  PROVE  Loaded(c) \in Config /\ Loaded(c).folders = c.folders
BY LimitAssumption DEF Loaded, Config, Settings

\* A file that can be read is loaded with its folders.
LEMMA RestartFolders ==
  ASSUME TypeOK, NEW d \in Device, file[d] # Torn
  PROVE  Loaded(file[d]).folders = file[d].folders
BY LoadedType DEF TypeOK

\* What is written is never torn.
LEMMA ConfigIsWhole == Torn \notin Config
BY TornAssumption DEF Config, Entry, Settings

LEMMA InitType == Init => TypeOK
<1> SUFFICES ASSUME Init PROVE TypeOK
  OBVIOUS
<1>1. folders \in [Device -> Seq(Entry)]
  BY StartAssumption DEF Init, Entry
<1>3. other \in [Device -> Settings]
  BY LimitAssumption DEF Init, Settings
<1>2. file \in [Device -> Config \cup {Torn}]
  BY <1>1, <1>3 DEF Init, Snapshot, Config
<1> QED BY <1>1, <1>2, <1>3, JobTypes DEF Init, TypeOK, EnabledIds, WatchedTwice

LEMMA JobSteps ==
  ASSUME NEW j \in Job
  PROVE  /\ j.pc = "add" => [j EXCEPT !.pc = "save"] \in Job
         /\ j.pc = "save" => j \in Pending
         /\ j.pc = "refresh" /\ j.kind # "remove" => [j EXCEPT !.pc = "send"] \in Job
         /\ j.pc = "send" => [j EXCEPT !.pc = "trigger"] \in Job
         /\ j.pc = "send" => j.entry \in Entry
         /\ j.pc = "add" => j.entry \in Entry
<1>1. CASE j \in [pc : {"add", "save", "refresh", "send", "trigger"},
                  kind : {"user", "announce", "index"}, entry : Entry]
  BY <1>1 DEF Job, Pending
<1>2. CASE j \in [pc : {"save", "refresh"}, kind : {"remove"}]
  BY <1>2 DEF Job, Pending
<1>3. CASE j \in [pc : {"save"}, kind : {"change"}]
  BY <1>3 DEF Job, Pending
<1>4. CASE j = Idle
  BY <1>4 DEF Idle
<1>5. CASE j \in Writing
  BY <1>5 DEF Writing
<1> QED BY <1>1, <1>2, <1>3, <1>4, <1>5 DEF Job, Pending

LEMMA WriteSteps ==
  ASSUME NEW j \in Job, j.pc = "write"
  PROVE  /\ j.data \in Config /\ j.then \in Pending
         /\ j.then.kind # "change" => [j.then EXCEPT !.pc = "refresh"] \in Job
<1>1. j \in Writing
  BY JobTypes
<1>2. j.data \in Config /\ j.then \in Pending
  BY <1>1 DEF Writing
<1>3. j.then.kind # "change" => [j.then EXCEPT !.pc = "refresh"] \in Pending
  BY <1>2 DEF Pending
<1> QED BY <1>2, <1>3 DEF Job

\* The other one of two devices is a device.
LEMMA PeerType == \A d \in Device : Peer(d) \in Device
<1> TAKE d \in Device
<1>1. \E e \in Device : e # d
  <2> SUFFICES ASSUME Device = {d} PROVE FALSE
    OBVIOUS
  <2>1. Cardinality({d}) = 1
    BY FS_Singleton
  <2> QED BY <2>1, DeviceAssumption
<1> QED BY <1>1 DEF Peer

\* A step that gives one goroutine a new job keeps the type of task.
LEMMA TaskType ==
  ASSUME task \in [Device -> [Task -> Job]], NEW d \in Device, NEW t \in Task,
         NEW j \in Job
  PROVE  [task EXCEPT ![d][t] = j] \in [Device -> [Task -> Job]]
OBVIOUS

LEMMA TaskStepType ==
  ASSUME task \in [Device -> [Task -> Job]], NEW d \in Device, NEW t \in Task,
         NEW j \in Job, task' = task \/ task' = [task EXCEPT ![d][t] = j]
  PROVE  task' \in [Device -> [Task -> Job]]
<1>1. CASE task' = task
  BY <1>1
<1>2. CASE task' = [task EXCEPT ![d][t] = j]
  BY <1>2, TaskType
<1> QED BY <1>1, <1>2

LEMMA MessageTypes ==
  ASSUME TypeOK, NEW d \in Device
  PROVE  /\ Indexes(d) \subseteq Message
         /\ Announcements(d) \subseteq Message
         /\ \A e \in Entry : Announcement(e) \in Message
<1>1. \A e \in Entry : Announcement(e) \in Message
  BY DEF Announcement, Entry, Message
<1>2. Indexes(d) \subseteq Message
  BY DEF Indexes, TypeOK, Message
<1>3. Range(folders[d]) \subseteq Entry
  BY DEF TypeOK, Range
<1> QED BY <1>1, <1>2, <1>3 DEF Announcements

LEMMA NetType ==
  ASSUME net \in [Device -> SUBSET Message], NEW ms \in SUBSET Message,
         NEW d \in Device, Send(d, ms)
  PROVE  net' \in [Device -> SUBSET Message]
BY DEF Send

LEMMA TypeInvariant == TypeOK /\ [Next]_vars => TypeOK'
<1> SUFFICES ASSUME TypeOK, [Next]_vars PROVE TypeOK'
  OBVIOUS
<1>a. task \in [Device -> [Task -> Job]] /\ net \in [Device -> SUBSET Message]
  BY DEF TypeOK
<1>b. folders \in [Device -> Seq(Entry)] /\ file \in [Device -> Config \cup {Torn}]
  BY DEF TypeOK
<1>1. ASSUME NEW d \in Device, NEW t \in Task, NEW e \in Entry, UserAdds(d, t, e)
      PROVE  TypeOK'
  <2>1. [pc |-> "add", kind |-> "user", entry |-> e] \in Job
    BY DEF Job, Pending
  <2>2. task' \in [Device -> [Task -> Job]]
    BY <1>a, <1>1, <2>1, TaskType DEF UserAdds
  <2>3. e.id \in Folder
    BY DEF Entry
  <2> QED BY <1>1, <2>2, <2>3 DEF TypeOK, UserAdds, Requested, memory
<1>2. ASSUME NEW d \in Device, NEW t \in Task, NEW msg \in net[d],
             ReceiveAnnounce(d, t, msg)
      PROVE  TypeOK'
  <2>1. msg \in [kind : {"announce"}, id : Folder, syncDelete : BOOLEAN]
    BY <1>a, <1>2 DEF ReceiveAnnounce, Message
  <2> DEFINE j == [pc |-> "add", kind |-> "announce",
                   entry |-> [id |-> msg.id, syncDelete |-> msg.syncDelete,
                              enabled |-> TRUE]]
  <2>2. j \in Job
    BY <2>1 DEF Job, Pending, Entry
  <2>3. task' \in [Device -> [Task -> Job]]
    <3> HIDE DEF j
    <3>1. task' = task \/ task' = [task EXCEPT ![d][t] = j]
      BY <1>2 DEF ReceiveAnnounce, j
    <3> QED BY <1>a, <2>2, <3>1, TaskStepType
  <2>4. net' \in [Device -> SUBSET Message]
    <3>1. Indexes(d) \subseteq Message
      BY MessageTypes
    <3> QED BY <1>a, <1>2, <3>1 DEF ReceiveAnnounce
  <2>5. doubled' \subseteq Device \X Folder
    BY <1>2, <2>1 DEF ReceiveAnnounce, TypeOK
  <2> QED BY <1>2, <2>3, <2>4, <2>5 DEF TypeOK, ReceiveAnnounce, memory, count
<1>3. ASSUME NEW d \in Device, NEW t \in Task, NEW msg \in net[d],
             ReceiveIndex(d, t, msg)
      PROVE  TypeOK'
  <2>1. msg \in [kind : {"index"}, id : Folder]
    BY <1>a, <1>3 DEF ReceiveIndex, Message
  <2> DEFINE j == [pc |-> "add", kind |-> "index", entry |-> CreatedByIndex(msg.id)]
  <2>2. j \in Job
    BY <2>1 DEF Job, Pending, Entry, CreatedByIndex
  <2>3. task' \in [Device -> [Task -> Job]]
    <3> HIDE DEF j
    <3>1. task' = task \/ task' = [task EXCEPT ![d][t] = j]
      BY <1>3 DEF ReceiveIndex, j
    <3> QED BY <1>a, <2>2, <3>1, TaskStepType
  <2>4. net' \in [Device -> SUBSET Message] /\ doubled' \subseteq Device \X Folder
    BY <1>a, <1>3, <2>1 DEF ReceiveIndex, TypeOK
  <2> QED BY <1>3, <2>3, <2>4 DEF TypeOK, ReceiveIndex, memory, count
<1>4. ASSUME NEW d \in Device, NEW t \in Task, NEW g \in Folder, UserRemoves(d, t, g)
      PROVE  TypeOK'
  <2>1. [pc |-> "save", kind |-> "remove"] \in Job
    BY DEF Job, Pending
  <2>2. task' \in [Device -> [Task -> Job]]
    BY <1>a, <1>4, <2>1, TaskType DEF UserRemoves
  <2>3. CASE folders' = folders
    BY <1>4, <2>2, <2>3 DEF TypeOK, UserRemoves, Requested
  <2>4. CASE folders' # folders
    <3>1. PICK i \in DOMAIN folders[d] :
            folders' = [folders EXCEPT ![d] = RemoveAt(@, i)]
      BY <1>4, <2>4 DEF UserRemoves
    <3>2. RemoveAt(folders[d], i) \in Seq(Entry)
      BY <1>b DEF RemoveAt
    <3>3. folders' \in [Device -> Seq(Entry)]
      BY <1>b, <3>1, <3>2
    <3> QED BY <1>4, <2>2, <3>3 DEF TypeOK, UserRemoves, Requested
  <2> QED BY <2>3, <2>4
<1>5. ASSUME NEW d \in Device, NEW t \in Task,
             GuardedChange(d, t) \/ UnguardedChange(d, t)
      PROVE  TypeOK'
  <2>1. [pc |-> "save", kind |-> "change"] \in Job
    BY DEF Job, Pending
  <2>2. task' = [task EXCEPT ![d][t] = [pc |-> "save", kind |-> "change"]]
    BY <1>5 DEF GuardedChange, UnguardedChange
  <2>3. task' \in [Device -> [Task -> Job]]
    BY <1>a, <2>1, <2>2, TaskType
  <2>a. other \in [Device -> Settings]
    BY DEF TypeOK
  <2>4. CASE GuardedChange(d, t)
    <3>1. other' \in [Device -> Settings]
      BY <2>a, <2>4 DEF GuardedChange, Settings
    <3> QED BY <2>3, <2>4, <3>1 DEF TypeOK, GuardedChange, Requested, history
  <2>5. CASE UnguardedChange(d, t)
    <3>1. raced' \subseteq Device
      BY <2>5 DEF TypeOK, UnguardedChange
    <3>2. PICK n \in Limit : other' = [other EXCEPT ![d].limit = n]
      BY <2>5 DEF UnguardedChange
    <3>3. other' \in [Device -> Settings]
      BY <2>a, <3>2, LimitAssumption DEF Settings
    <3> QED BY <2>3, <2>5, <3>1, <3>3 DEF TypeOK, UnguardedChange, Requested
  <2> QED BY <1>5, <2>4, <2>5
<1>6. ASSUME NEW d \in Device, NEW t \in Task, Add(d, t) PROVE TypeOK'
  <2>1. task[d][t] \in Job
    BY <1>a
  <2>2. task[d][t].entry \in Entry /\ [task[d][t] EXCEPT !.pc = "save"] \in Job
    BY <1>6, <2>1, JobSteps DEF Add
  <2>3. task' = [task EXCEPT ![d][t] = [task[d][t] EXCEPT !.pc = "save"]]
    BY <1>6 DEF Add, Goto, AfterAdd
  <2>4. task' \in [Device -> [Task -> Job]]
    BY <1>a, <2>2, <2>3, TaskType
  <2>5. folders' \in [Device -> Seq(Entry)]
    BY <1>b, <1>6, <2>2 DEF Add
  <2> QED BY <1>6, <2>4, <2>5 DEF TypeOK, Add, history, count
<1>7. ASSUME NEW d \in Device, NEW t \in Task, StartSave(d, t) PROVE TypeOK'
  <2>1. task[d][t] \in Pending
    BY <1>a, <1>7, JobSteps DEF StartSave
  <2>2. [pc |-> "write", data |-> Snapshot(d), then |-> task[d][t]] \in Job
    BY <2>1 DEF Job, Writing, Snapshot, Config, TypeOK
  <2>3. task' = [task EXCEPT ![d][t] =
          [pc |-> "write", data |-> Snapshot(d), then |-> task[d][t]]]
    BY <1>7 DEF StartSave
  <2>4. task' \in [Device -> [Task -> Job]]
    BY <1>a, <2>2, <2>3, TaskType
  <2> QED BY <1>7, <2>4 DEF TypeOK, StartSave, memory, history, count
<1>8. ASSUME NEW d \in Device, NEW t \in Task, EndSave(d, t) PROVE TypeOK'
  <2> DEFINE j == IF AfterSave(task[d][t].then.kind) = "idle" THEN Idle
                  ELSE [task[d][t].then EXCEPT !.pc = AfterSave(task[d][t].then.kind)]
  <2>0. task[d][t] \in Job /\ task[d][t].pc = "write"
    BY <1>a, <1>8 DEF EndSave
  <2>1. task[d][t].data \in Config /\ j \in Job
    <3>1. task[d][t].data \in Config
      BY <2>0, WriteSteps
    <3>0. Idle \in Job
      BY JobTypes
    <3>2. CASE task[d][t].then.kind = "change"
      <4>1. AfterSave(task[d][t].then.kind) = "idle"
        BY <3>2 DEF AfterSave
      <4>2. j = Idle
        BY <4>1
      <4> QED BY <3>0, <3>1, <4>2
    <3>3. CASE task[d][t].then.kind # "change"
      <4>1. AfterSave(task[d][t].then.kind) = "refresh"
        BY <3>3 DEF AfterSave
      <4>2. j = [task[d][t].then EXCEPT !.pc = "refresh"]
        BY <4>1
      <4>3. [task[d][t].then EXCEPT !.pc = "refresh"] \in Job
        BY <2>0, <3>3, WriteSteps
      <4> HIDE DEF j
      <4> QED BY <3>1, <4>2, <4>3
    <3> QED BY <3>2, <3>3
  <2>2. task' = [task EXCEPT ![d][t] = j]
    BY <1>8 DEF EndSave
  <2>3. task' \in [Device -> [Task -> Job]]
    <3> HIDE DEF j
    <3> QED BY <1>a, <2>1, <2>2, TaskType
  <2> QED BY <1>8, <2>1, <2>3 DEF TypeOK, EndSave, memory, history, count
<1>9. ASSUME NEW d \in Device, NEW t \in Task, Refresh(d, t) PROVE TypeOK'
  <2>1. task[d][t] \in Job /\ Idle \in Job
    BY <1>a, JobTypes
  <2>2. task' \in [Device -> [Task -> Job]]
    <3>1. CASE task' = [task EXCEPT ![d][t] = Idle]
      BY <1>a, <2>1, <3>1, TaskType
    <3>2. CASE task' # [task EXCEPT ![d][t] = Idle]
      <4>1. [task[d][t] EXCEPT !.pc = "send"] \in Job
        BY <1>9, <2>1, <3>2, JobSteps DEF Refresh, Finish
      <4>2. task' = [task EXCEPT ![d][t] = [task[d][t] EXCEPT !.pc = "send"]]
        BY <1>9, <3>2 DEF Refresh, Finish, Goto
      <4> QED BY <1>a, <4>1, <4>2, TaskType
    <3> QED BY <3>1, <3>2
  <2> QED BY <1>9, <2>2 DEF TypeOK, Refresh, EnabledIds, WatchedTwice, memory, history,
         count
<1>10. ASSUME NEW d \in Device, NEW t \in Task, SendFolder(d, t) PROVE TypeOK'
  <2>1. task[d][t] \in Job /\ Idle \in Job
    BY <1>a, JobTypes
  <2>2. task' \in [Device -> [Task -> Job]]
    <3>1. CASE task' = [task EXCEPT ![d][t] = Idle]
      BY <1>a, <2>1, <3>1, TaskType
    <3>2. CASE task' # [task EXCEPT ![d][t] = Idle]
      <4>1. [task[d][t] EXCEPT !.pc = "trigger"] \in Job
        BY <1>10, <2>1, <3>2, JobSteps DEF SendFolder, Finish
      <4>2. task' = [task EXCEPT ![d][t] = [task[d][t] EXCEPT !.pc = "trigger"]]
        BY <1>10, <3>2 DEF SendFolder, Finish, Goto
      <4> QED BY <1>a, <4>1, <4>2, TaskType
    <3> QED BY <3>1, <3>2
  <2>3. task[d][t].entry \in Entry
    BY <1>10, <2>1, JobSteps DEF SendFolder
  <2>4. PICK ms \in SUBSET Message : Send(d, ms)
    BY <1>10, <2>3, MessageTypes DEF SendFolder
  <2>5. net' \in [Device -> SUBSET Message]
    BY <1>a, <2>4, NetType
  <2> QED BY <1>10, <2>2, <2>5 DEF TypeOK, SendFolder, memory, history, count
<1>11. ASSUME NEW d \in Device, NEW t \in Task, TriggerSync(d, t) PROVE TypeOK'
  <2>1. task' \in [Device -> [Task -> Job]]
    BY <1>a, <1>11, JobTypes, TaskType DEF TriggerSync, Finish
  <2>2. net' \in [Device -> SUBSET Message]
    BY <1>a, <1>11, MessageTypes, NetType DEF TriggerSync
  <2> QED BY <1>11, <2>1, <2>2 DEF TypeOK, TriggerSync, memory, history, count
<1>12. CASE Connect
  <2>1. \A d \in Device : Peer(d) \in Device
    BY PeerType
  <2>2. \A d \in Device : Greeting(Peer(d)) \in SUBSET Message
    BY <2>1, MessageTypes DEF Greeting
  <2> QED BY <1>12, <2>2 DEF TypeOK, Connect, memory, history, count
<1>13. CASE Drop
  <2>1. net' \in [Device -> SUBSET Message] /\ connected' \in BOOLEAN
    BY <1>13 DEF Drop
  <2>2. faults' \in Nat
    BY <1>13 DEF Drop, Fault, TypeOK
  <2> QED BY <1>13, <2>1, <2>2 DEF TypeOK, Drop, memory, history
<1>14. ASSUME NEW d \in Device, Restart(d) PROVE TypeOK'
  <2>1. task' \in [Device -> [Task -> Job]]
    BY <1>a, <1>14, JobTypes DEF Restart
  <2>2. net' \in [Device -> SUBSET Message] /\ connected' \in BOOLEAN
    BY <1>14 DEF Restart
  <2>3. faults' \in Nat
    BY <1>14 DEF Restart, Fault, TypeOK
  <2>4. UNCHANGED <<file, raced, doubled, optedIn, removed, requests>>
    BY <1>14 DEF Restart, history
  <2>5. /\ folders' \in [Device -> Seq(Entry)] /\ other' \in [Device -> Settings]
        /\ watchers' \in [Device -> SUBSET Folder] /\ down' \subseteq Device
        /\ orphans' \in [Device -> SUBSET Folder]
    <3>1. CASE file[d] = Torn
      BY <1>14, <3>1 DEF TypeOK, Restart, memory
    <3>2. CASE file[d] # Torn
      <4>1. /\ Loaded(file[d]).folders \in Seq(Entry)
            /\ Loaded(file[d]).other \in Settings
        BY <1>b, <3>2, LoadedType DEF Config
      <4>2. /\ folders' = [folders EXCEPT ![d] = Loaded(file[d]).folders]
            /\ other' = [other EXCEPT ![d] = Loaded(file[d]).other]
            /\ watchers' = [watchers EXCEPT ![d] = EnabledIds(file[d].folders)]
            /\ UNCHANGED down
        BY <1>14, <3>2 DEF Restart
      <4>3. orphans' \in [Device -> SUBSET Folder]
        <5>1. PICK S \in SUBSET Folder : orphans' = [orphans EXCEPT ![d] = S]
          BY <1>14, <3>2 DEF Restart, WatchedTwice
        <5> QED BY <5>1 DEF TypeOK
      <4> QED BY <4>1, <4>2, <4>3 DEF TypeOK, EnabledIds
    <3> QED BY <3>1, <3>2
  <2> QED BY <2>1, <2>2, <2>3, <2>4, <2>5 DEF TypeOK
<1>15. CASE UNCHANGED vars
  BY <1>15 DEF TypeOK, vars, memory, history, count
<1> QED
  BY <1>1, <1>2, <1>3, <1>4, <1>5, <1>6, <1>7, <1>8, <1>9, <1>10, <1>11, <1>12,
     <1>13, <1>14, <1>15 DEF Next, Step, Receive, User

-----------------------------------------------------------------------------
(* Saves. *)

\* A device none of whose fields changes stays as it is.
LEMMA SavedFrame ==
  ASSUME NEW e \in Device, Saved(e),
         UNCHANGED <<folders[e], other[e], file[e], task[e]>>
  PROVE  Saved(e)'
BY DEF Saved, Saving, Unsaved, Snapshot, Current

\* Steps of a goroutine that neither save nor wait to save.
LEMMA QuietStep ==
  ASSUME TypeOK, NEW d \in Device, NEW t \in Task, NEW j \in Job,
         task' = [task EXCEPT ![d][t] = j],
         task[d][t].pc \notin {"save", "write"}, j.pc \notin {"save", "write"},
         UNCHANGED <<folders, other, file>>,
         NEW e \in Device, Saved(e)
  PROVE  Saved(e)'
<1>1. CASE e # d
  <2>1. task'[e] = task[e]
    BY <1>1 DEF TypeOK
  <2> QED BY <2>1, SavedFrame
<1>2. CASE e = d
  <2>1. \A x \in Task : /\ task'[d][x].pc = "write" <=> task[d][x].pc = "write"
                        /\ task'[d][x].pc = "save" <=> task[d][x].pc = "save"
                        /\ task[d][x].pc = "write" => task'[d][x] = task[d][x]
    BY DEF TypeOK
  <2>2. Saving(d)' = Saving(d) /\ (Unsaved(d)' <=> Unsaved(d))
    BY <2>1 DEF Saving, Unsaved
  <2>3. Snapshot(d)' = Snapshot(d) /\ file'[d] = file[d]
    BY DEF Snapshot
  <2> QED BY <1>2, <2>1, <2>2, <2>3 DEF Saved, Current
<1> QED BY <1>1, <1>2

\* A change of the configuration waits until no save is writing, and saves.
LEMMA ChangeStep ==
  ASSUME TypeOK, NEW d \in Device, NEW t \in Task, NEW j \in Job,
         task' = [task EXCEPT ![d][t] = j], j.pc = "save", Saving(d) = {},
         UNCHANGED file,
         \A x \in Device \ {d} : UNCHANGED <<folders[x], other[x]>>,
         NEW e \in Device, Saved(e)
  PROVE  Saved(e)'
<1>1. CASE e # d
  <2>1. task'[e] = task[e] /\ file'[e] = file[e]
    BY <1>1 DEF TypeOK
  <2>2. UNCHANGED <<folders[e], other[e]>>
    BY <1>1
  <2> QED BY <2>1, <2>2, SavedFrame
<1>2. CASE e = d
  <2>1. \A x \in Task : task'[d][x].pc # "write"
    BY DEF Saving, TypeOK
  <2>2. task'[d][t].pc = "save"
    BY DEF TypeOK
  <2>3. Saving(d)' = {} /\ Unsaved(d)'
    BY <2>1, <2>2 DEF Saving, Unsaved
  <2> QED BY <1>2, <2>1, <2>3 DEF Saved
<1> QED BY <1>1, <1>2

LEMMA StartSaveStep ==
  ASSUME TypeOK, NEW d \in Device, NEW t \in Task, StartSave(d, t),
         NEW e \in Device, Saved(e)
  PROVE  Saved(e)'
<1> DEFINE j == [pc |-> "write", data |-> Snapshot(d), then |-> task[d][t]]
<1>1. task' = [task EXCEPT ![d][t] = j] /\ file' = [file EXCEPT ![d] = Torn]
  BY DEF StartSave
<1>2. UNCHANGED <<folders, other>>
  BY DEF StartSave, memory
<1>3. CASE e # d
  <2>1. task'[e] = task[e] /\ file'[e] = file[e]
    BY <1>1, <1>3 DEF TypeOK
  <2> QED BY <1>2, <2>1, SavedFrame
<1>4. CASE e = d
  <2>1. \A x \in Task : task'[d][x] = IF x = t THEN j ELSE task[d][x]
    BY <1>1 DEF TypeOK
  <2>2. Snapshot(d)' = Snapshot(d)
    BY <1>2 DEF Snapshot
  <2>3. \A x \in Task : task'[d][x].pc = "write" => task'[d][x].data = Snapshot(d)
    BY <1>4, <2>1 DEF Saved
  <2>4. file'[d] = Torn
    BY <1>1 DEF TypeOK
  <2>5. Unsaved(d)'
    <3>1. task'[d][t].pc = "write"
      BY <2>1
    <3> QED BY <3>1 DEF Unsaved
  <2> QED BY <1>4, <2>2, <2>3, <2>4, <2>5 DEF Saved
<1> QED BY <1>3, <1>4

\* Saves that overlap have encoded the same configuration, so the one that ends
\* finds the file torn or finished, and leaves it finished.
LEMMA EndSaveStep ==
  ASSUME TypeOK, NEW d \in Device, NEW t \in Task, EndSave(d, t),
         NEW e \in Device, Saved(e)
  PROVE  Saved(e)'
<1> DEFINE w == task[d][t]
           j == IF AfterSave(w.then.kind) = "idle" THEN Idle
                ELSE [w.then EXCEPT !.pc = AfterSave(w.then.kind)]
<1>1. task' = [task EXCEPT ![d][t] = j] /\ w.pc = "write"
  BY DEF EndSave
<1>2. UNCHANGED <<folders, other>>
  BY DEF EndSave, memory
<1>3. \/ file' = [file EXCEPT ![d] = w.data]
      \/ file[d] \notin {Torn, w.data} /\ file' = [file EXCEPT ![d] = Torn]
  BY DEF EndSave
<1>4. CASE e # d
  <2>1. task'[e] = task[e] /\ file'[e] = file[e]
    BY <1>1, <1>3, <1>4 DEF TypeOK
  <2> QED BY <1>2, <2>1, SavedFrame
<1>5. CASE e = d
  <2>1. Snapshot(d)' = Snapshot(d)
    BY <1>2 DEF Snapshot
  <2>2. w.data = Snapshot(d) /\ file[d] \in {Torn, Snapshot(d)}
    <3>1. t \in Saving(d)
      BY <1>1 DEF Saving
    <3> QED BY <1>1, <1>5, <3>1 DEF Saved
  <2>3. file'[d] = Snapshot(d)
    BY <1>3, <2>2 DEF TypeOK
  <2>4. j.pc # "write"
    <3>1. AfterSave(w.then.kind) \in {"idle", "refresh"}
      BY DEF AfterSave
    <3>2. CASE AfterSave(w.then.kind) = "idle"
      BY <3>2 DEF Idle
    <3>3. CASE AfterSave(w.then.kind) = "refresh"
      <4>1. w.then \in Pending
        <5>1. w \in Job
          BY DEF TypeOK
        <5> QED BY <1>1, <5>1, WriteSteps
      <4>2. [w.then EXCEPT !.pc = "refresh"].pc = "refresh"
        BY <4>1 DEF Pending
      <4> QED BY <3>3, <4>2
    <3> QED BY <3>1, <3>2, <3>3
  <2>5. \A x \in Task : task'[d][x] = IF x = t THEN j ELSE task[d][x]
    BY <1>1 DEF TypeOK
  <2>6. \A x \in Task : task'[d][x].pc = "write" => task'[d][x].data = Snapshot(d)
    <3> HIDE DEF j
    <3> QED BY <1>5, <2>4, <2>5 DEF Saved
  <2>7. Snapshot(d) \in Config
    BY DEF TypeOK, Snapshot, Config
  <2>8. Current(d)'
    BY <2>1, <2>3, <2>7, ConfigIsWhole DEF Current
  <2> QED BY <1>5, <2>1, <2>3, <2>6, <2>8 DEF Saved
<1> QED BY <1>4, <1>5

\* A device that can read its file starts with what it holds, and no save.
LEMMA RestartStep ==
  ASSUME TypeOK, NEW d \in Device, Restart(d),
         NEW e \in Device, e \notin down', Saved(e)
  PROVE  Saved(e)'
<1>1. UNCHANGED file
  BY DEF Restart
<1>2. CASE e # d
  <2>1. UNCHANGED <<folders[e], other[e], task[e]>>
    BY <1>2 DEF Restart, TypeOK, memory
  <2> QED BY <1>1, <2>1, SavedFrame
<1>3. CASE e = d
  <2>1. file[d] # Torn /\ file[d] \in Config
    BY <1>3 DEF Restart, TypeOK
  <2>2. folders'[d] = Loaded(file[d]).folders /\ other'[d] = Loaded(file[d]).other
    BY <2>1 DEF Restart, TypeOK
  <2>6. Loaded(file[d]) \in Config
    BY <2>1, LoadedType
  <2>3. Snapshot(d)' = Loaded(file[d])
    BY <2>2, <2>6 DEF Snapshot, Config
  <2>7. Current(d)'
    BY <1>1, <2>1, <2>3 DEF Current
  <2>4. \A x \in Task : task'[d][x] = Idle
    BY DEF Restart, TypeOK
  <2>5. \A x \in Task : task'[d][x].pc \notin {"save", "write"}
    BY <2>4 DEF Idle
  <2> QED BY <1>1, <1>3, <2>7, <2>5 DEF Saved, Saving
<1> QED BY <1>2, <1>3

LEMMA Monotone == [Next]_vars => down \subseteq down' /\ raced \subseteq raced'
<1> SUFFICES ASSUME [Next]_vars PROVE down \subseteq down' /\ raced \subseteq raced'
  OBVIOUS
<1>1. ASSUME NEW d \in Device, NEW t \in Task, Step(d, t)
      PROVE  UNCHANGED <<down, raced>>
  BY <1>1 DEF Step, Add, StartSave, EndSave, Refresh, SendFolder, TriggerSync, history
<1>2. ASSUME NEW d \in Device, NEW t \in Task, Receive(d, t)
      PROVE  UNCHANGED <<down, raced>>
  BY <1>2 DEF Receive, ReceiveAnnounce, ReceiveIndex
<1>3. ASSUME NEW d \in Device, NEW t \in Task, User(d, t)
      PROVE  down' = down /\ raced \subseteq raced'
  <2>1. ASSUME NEW c \in Entry, UserAdds(d, t, c) PROVE UNCHANGED <<down, raced>>
    BY <2>1 DEF UserAdds
  <2>2. ASSUME NEW g \in Folder, UserRemoves(d, t, g) PROVE UNCHANGED <<down, raced>>
    BY <2>2 DEF UserRemoves
  <2>3. ASSUME GuardedChange(d, t) PROVE UNCHANGED <<down, raced>>
    BY <2>3 DEF GuardedChange, history
  <2>4. ASSUME UnguardedChange(d, t) PROVE down' = down /\ raced \subseteq raced'
    BY <2>4 DEF UnguardedChange
  <2> QED BY <1>3, <2>1, <2>2, <2>3, <2>4 DEF User
<1>4. ASSUME Connect \/ Drop \/ UNCHANGED vars PROVE UNCHANGED <<down, raced>>
  BY <1>4 DEF Connect, Drop, history, vars
<1>5. ASSUME NEW d \in Device, Restart(d)
      PROVE  down \subseteq down' /\ raced' = raced
  <2>1. raced' = raced
    BY <1>5 DEF Restart, history
  <2>2. down' = down \/ down' = down \cup {d}
    BY <1>5 DEF Restart
  <2> QED BY <2>1, <2>2
<1> QED BY <1>1, <1>2, <1>3, <1>4, <1>5 DEF Next

LEMMA SaveInvariant == Inv /\ [Next]_vars => SaveInv'
<1> SUFFICES ASSUME TypeOK, SaveInv, [Next]_vars,
                    NEW e \in Device, e \notin down', e \notin raced'
             PROVE  Saved(e)'
  BY DEF Inv, SaveInv
<1>a. e \notin down /\ e \notin raced
  BY Monotone
<1>b. Saved(e)
  BY <1>a DEF SaveInv
<1>1. ASSUME NEW d \in Device, NEW t \in Task, NEW c \in Entry, UserAdds(d, t, c)
      PROVE  Saved(e)'
  <2> DEFINE j == [pc |-> "add", kind |-> "user", entry |-> c]
  <2>1. j \in Job /\ j.pc = "add"
    BY DEF Job, Pending
  <2>2. /\ task' = [task EXCEPT ![d][t] = j] /\ task[d][t].pc = "idle"
        /\ UNCHANGED <<folders, other, file>>
    BY <1>1 DEF UserAdds, Free, Idle, memory
  <2> QED BY <1>b, <2>1, <2>2, QuietStep
<1>2. ASSUME NEW d \in Device, NEW t \in Task, NEW msg \in net[d],
             ReceiveAnnounce(d, t, msg)
      PROVE  Saved(e)'
  <2> DEFINE j == [pc |-> "add", kind |-> "announce",
                   entry |-> [id |-> msg.id, syncDelete |-> msg.syncDelete,
                              enabled |-> TRUE]]
  <2>1. j \in Job /\ j.pc = "add"
    <3>1. msg \in [kind : {"announce"}, id : Folder, syncDelete : BOOLEAN]
      BY <1>2 DEF ReceiveAnnounce, TypeOK, Message
    <3> QED BY <3>1 DEF Job, Pending, Entry
  <2>2. task[d][t].pc = "idle" /\ UNCHANGED <<folders, other, file>>
    BY <1>2 DEF ReceiveAnnounce, Free, Idle, memory
  <2>3. CASE task' = task
    <3>1. UNCHANGED <<folders[e], other[e], file[e], task[e]>>
      BY <2>2, <2>3
    <3> QED BY <1>b, <3>1, SavedFrame
  <2>4. CASE task' = [task EXCEPT ![d][t] = j]
    BY <1>b, <2>1, <2>2, <2>4, QuietStep
  <2> QED BY <1>2, <2>3, <2>4 DEF ReceiveAnnounce
<1>3. ASSUME NEW d \in Device, NEW t \in Task, NEW msg \in net[d],
             ReceiveIndex(d, t, msg)
      PROVE  Saved(e)'
  <2> DEFINE j == [pc |-> "add", kind |-> "index", entry |-> CreatedByIndex(msg.id)]
  <2>1. j \in Job /\ j.pc = "add"
    <3>1. msg \in [kind : {"index"}, id : Folder]
      BY <1>3 DEF ReceiveIndex, TypeOK, Message
    <3> QED BY <3>1 DEF Job, Pending, Entry, CreatedByIndex
  <2>2. task[d][t].pc = "idle" /\ UNCHANGED <<folders, other, file>>
    BY <1>3 DEF ReceiveIndex, Free, Idle, memory
  <2>3. CASE task' = task
    <3>1. UNCHANGED <<folders[e], other[e], file[e], task[e]>>
      BY <2>2, <2>3
    <3> QED BY <1>b, <3>1, SavedFrame
  <2>4. CASE task' = [task EXCEPT ![d][t] = j]
    BY <1>b, <2>1, <2>2, <2>4, QuietStep
  <2> QED BY <1>3, <2>3, <2>4 DEF ReceiveIndex
<1>4. ASSUME NEW d \in Device, NEW t \in Task, NEW g \in Folder, UserRemoves(d, t, g)
      PROVE  Saved(e)'
  <2> DEFINE j == [pc |-> "save", kind |-> "remove"]
  <2>1. j \in Job /\ j.pc = "save"
    BY DEF Job, Pending
  <2>2. /\ task' = [task EXCEPT ![d][t] = j] /\ Saving(d) = {}
        /\ UNCHANGED <<other, file>>
        /\ \A x \in Device \ {d} : UNCHANGED folders[x]
    BY <1>4 DEF UserRemoves, TypeOK
  <2> QED BY <1>b, <2>1, <2>2, ChangeStep
<1>5. ASSUME NEW d \in Device, NEW t \in Task,
             GuardedChange(d, t) \/ UnguardedChange(d, t)
      PROVE  Saved(e)'
  <2> DEFINE j == [pc |-> "save", kind |-> "change"]
  <2>1. j \in Job /\ j.pc = "save"
    BY DEF Job, Pending
  <2>2. /\ task' = [task EXCEPT ![d][t] = j] /\ UNCHANGED <<folders, file>>
        /\ \A x \in Device \ {d} : UNCHANGED other[x]
    BY <1>5 DEF GuardedChange, UnguardedChange, TypeOK
  <2>3. CASE Saving(d) = {}
    BY <1>b, <2>1, <2>2, <2>3, ChangeStep
  <2>4. CASE Saving(d) # {}
    <3>1. d \in raced'
      BY <1>5, <2>4 DEF GuardedChange, UnguardedChange
    <3>2. e # d
      BY <3>1
    <3>3. UNCHANGED <<folders[e], other[e], file[e], task[e]>>
      BY <2>2, <3>2 DEF TypeOK
    <3> QED BY <1>b, <3>3, SavedFrame
  <2> QED BY <2>3, <2>4
<1>6. ASSUME NEW d \in Device, NEW t \in Task, Add(d, t) PROVE Saved(e)'
  <2> DEFINE j == [task[d][t] EXCEPT !.pc = "save"]
  <2>0. task[d][t] \in Job /\ task[d][t].pc = "add"
    BY <1>6 DEF Add, TypeOK
  <2>1. j \in Job
    BY <2>0, JobSteps
  <2>2. j.pc = "save"
    <3>1. task[d][t] \in Pending
      BY <2>0, JobTypes
    <3> QED BY <3>1 DEF Pending
  <2>3. /\ task' = [task EXCEPT ![d][t] = j] /\ Saving(d) = {}
        /\ UNCHANGED <<other, file>>
        /\ \A x \in Device \ {d} : UNCHANGED folders[x]
    BY <1>6 DEF Add, Goto, AfterAdd, TypeOK
  <2> HIDE DEF j
  <2> QED BY <1>b, <2>1, <2>2, <2>3, ChangeStep
<1>7. ASSUME NEW d \in Device, NEW t \in Task, StartSave(d, t) PROVE Saved(e)'
  BY <1>b, <1>7, StartSaveStep
<1>8. ASSUME NEW d \in Device, NEW t \in Task, EndSave(d, t) PROVE Saved(e)'
  BY <1>b, <1>8, EndSaveStep
<1>9. ASSUME NEW d \in Device, NEW t \in Task,
             Refresh(d, t) \/ SendFolder(d, t) \/ TriggerSync(d, t)
      PROVE  Saved(e)'
  <2>0. task[d][t] \in Job /\ task[d][t].pc \in {"refresh", "send", "trigger"}
    BY <1>9 DEF Refresh, SendFolder, TriggerSync, TypeOK
  <2>1. task[d][t] \in Pending
    BY <2>0, JobTypes
  <2>2. UNCHANGED <<folders, other, file>>
    BY <1>9 DEF Refresh, SendFolder, TriggerSync, memory
  <2>3. PICK j \in Job : /\ task' = [task EXCEPT ![d][t] = j]
                        /\ j.pc \notin {"save", "write"}
    <3>1. CASE task' = [task EXCEPT ![d][t] = Idle]
      BY <3>1, JobTypes DEF Idle
    <3>2. CASE task' # [task EXCEPT ![d][t] = Idle]
      <4>1. CASE Refresh(d, t)
        <5> DEFINE r == [task[d][t] EXCEPT !.pc = "send"]
        <5>1. task' = [task EXCEPT ![d][t] = r]
          BY <3>2, <4>1 DEF Refresh, Finish, Goto
        <5>2. r \in Job
          BY <2>0, <3>2, <4>1, JobSteps DEF Refresh, Finish
        <5>3. r.pc = "send"
          BY <2>1 DEF Pending
        <5> HIDE DEF r
        <5> QED BY <5>1, <5>2, <5>3
      <4>2. CASE SendFolder(d, t)
        <5> DEFINE r == [task[d][t] EXCEPT !.pc = "trigger"]
        <5>1. task' = [task EXCEPT ![d][t] = r]
          BY <3>2, <4>2 DEF SendFolder, Finish, Goto
        <5>2. r \in Job
          BY <2>0, <4>2, JobSteps DEF SendFolder
        <5>3. r.pc = "trigger"
          BY <2>1 DEF Pending
        <5> HIDE DEF r
        <5> QED BY <5>1, <5>2, <5>3
      <4>3. ~TriggerSync(d, t)
        BY <3>2 DEF TriggerSync, Finish
      <4>4. Refresh(d, t) \/ SendFolder(d, t)
        BY <1>9, <4>3
      <4> QED BY <4>1, <4>2, <4>4
    <3> QED BY <3>1, <3>2
  <2> QED BY <1>b, <2>0, <2>2, <2>3, QuietStep
<1>10. CASE Connect \/ Drop \/ UNCHANGED vars
  <2>1. UNCHANGED <<folders[e], other[e], file[e], task[e]>>
    BY <1>10 DEF Connect, Drop, vars, memory
  <2> QED BY <1>b, <2>1, SavedFrame
<1>11. ASSUME NEW d \in Device, Restart(d) PROVE Saved(e)'
  BY <1>b, <1>11, RestartStep
<1> QED
  BY <1>1, <1>2, <1>3, <1>4, <1>5, <1>6, <1>7, <1>8, <1>9, <1>10, <1>11
  DEF Next, Step, Receive, User

LEMMA InitSaved == Init => SaveInv
<1> SUFFICES ASSUME Init, NEW d \in Device PROVE Saved(d)
  BY DEF SaveInv
<1>1. \A t \in Task : task[d][t].pc = "idle"
  BY DEF Init, Idle
<1>2. file[d] = Snapshot(d) /\ file[d] \in Config
  BY StartAssumption, LimitAssumption
  DEF Init, Snapshot, Config, Settings, Entry
<1> QED BY <1>1, <1>2, ConfigIsWhole DEF Saved, Saving, Unsaved, Current

-----------------------------------------------------------------------------
(* Watchers. *)

\* The map of watchers holds the enabled folders when no refresh is due.
MapIsCurrent == \A d \in Device \ down :
  ~Unrefreshed(d) => watchers[d] = EnabledIds(folders[d])

WatchersFollow(d) == ~Unrefreshed(d) => watchers[d] = EnabledIds(folders[d])

\* A step that leaves watchers and folders alone, and after which the goroutine
\* still goes to RefreshWatchers if it did before.
LEMMA WatchStep ==
  ASSUME TypeOK, NEW d \in Device, NEW t \in Task, NEW j \in Job,
         task' = [task EXCEPT ![d][t] = j], Refreshes(task[d][t]) => Refreshes(j),
         UNCHANGED <<folders, watchers>>,
         NEW e \in Device, WatchersFollow(e)
  PROVE  WatchersFollow(e)'
<1>1. Unrefreshed(e) => Unrefreshed(e)'
  <2>1. ASSUME NEW x \in Task, Refreshes(task[e][x]) PROVE Refreshes(task'[e][x])
    <3>1. CASE e = d /\ x = t
      <4>1. task'[e][x] = j
        BY <3>1 DEF TypeOK
      <4> QED BY <2>1, <3>1, <4>1
    <3>2. CASE ~(e = d /\ x = t)
      <4>1. task'[e][x] = task[e][x]
        BY <3>2 DEF TypeOK
      <4> QED BY <2>1, <4>1
    <3> QED BY <3>1, <3>2
  <2> QED BY <2>1 DEF Unrefreshed, Refreshes
<1>2. EnabledIds(folders[e])' = EnabledIds(folders[e]) /\ watchers'[e] = watchers[e]
  OBVIOUS
<1> QED BY <1>1, <1>2 DEF WatchersFollow

\* A step of another device.
LEMMA WatchFrame ==
  ASSUME NEW e \in Device, WatchersFollow(e),
         UNCHANGED <<folders[e], watchers[e], task[e]>>
  PROVE  WatchersFollow(e)'
BY DEF WatchersFollow, Unrefreshed, Refreshes, EnabledIds, EnabledIn

\* After a step by which a goroutine of d is to refresh, nothing is claimed of d.
LEMMA WatchDue ==
  ASSUME TypeOK, NEW d \in Device, NEW t \in Task, NEW j \in Job,
         task' = [task EXCEPT ![d][t] = j], Refreshes(j), UNCHANGED watchers,
         \A x \in Device \ {d} : UNCHANGED folders[x],
         NEW e \in Device, WatchersFollow(e)
  PROVE  WatchersFollow(e)'
<1>1. CASE e = d
  <2>1. task'[d][t] = j
    BY DEF TypeOK
  <2> QED BY <1>1, <2>1 DEF WatchersFollow, Unrefreshed, Refreshes
<1>2. CASE e # d
  <2>1. UNCHANGED <<folders[e], watchers[e], task[e]>>
    BY <1>2 DEF TypeOK
  <2> QED BY <2>1, WatchFrame
<1> QED BY <1>1, <1>2

LEMMA WatchersInvariant ==
  TypeOK /\ MapIsCurrent /\ [Next]_vars => MapIsCurrent'
<1> SUFFICES ASSUME TypeOK, MapIsCurrent, [Next]_vars,
                    NEW e \in Device, e \notin down'
             PROVE  WatchersFollow(e)'
  BY DEF MapIsCurrent, WatchersFollow
<1>a. WatchersFollow(e)
  BY Monotone DEF MapIsCurrent, WatchersFollow
<1>b. ~Refreshes(Idle)
  BY DEF Refreshes, Idle
<1>1. ASSUME NEW d \in Device, NEW t \in Task, NEW j \in Job,
             task[d][t] = Idle, task' = [task EXCEPT ![d][t] = j],
             UNCHANGED <<folders, watchers>>
      PROVE  WatchersFollow(e)'
  BY <1>a, <1>b, <1>1, WatchStep
<1>2. ASSUME NEW d \in Device, NEW t \in Task, NEW c \in Entry, UserAdds(d, t, c)
      PROVE  WatchersFollow(e)'
  <2>1. [pc |-> "add", kind |-> "user", entry |-> c] \in Job
    BY DEF Job, Pending
  <2>2. /\ task[d][t] = Idle /\ UNCHANGED <<folders, watchers>>
        /\ task' = [task EXCEPT ![d][t] =
                      [pc |-> "add", kind |-> "user", entry |-> c]]
    BY <1>2 DEF UserAdds, Free, memory
  <2> QED BY <1>1, <2>1, <2>2
<1>3. ASSUME NEW d \in Device, NEW t \in Task, NEW msg \in net[d],
             ReceiveAnnounce(d, t, msg)
      PROVE  WatchersFollow(e)'
  <2> DEFINE j == [pc |-> "add", kind |-> "announce",
                   entry |-> [id |-> msg.id, syncDelete |-> msg.syncDelete,
                              enabled |-> TRUE]]
  <2>1. j \in Job
    <3>1. msg \in [kind : {"announce"}, id : Folder, syncDelete : BOOLEAN]
      BY <1>3 DEF ReceiveAnnounce, TypeOK, Message
    <3> QED BY <3>1 DEF Job, Pending, Entry
  <2>2. task[d][t] = Idle /\ UNCHANGED <<folders, watchers>>
    BY <1>3 DEF ReceiveAnnounce, Free, memory
  <2>3. CASE task' = task
    BY <1>a, <2>2, <2>3, WatchFrame
  <2>4. CASE task' = [task EXCEPT ![d][t] = j]
    BY <1>1, <2>1, <2>2, <2>4
  <2> QED BY <1>3, <2>3, <2>4 DEF ReceiveAnnounce
<1>4. ASSUME NEW d \in Device, NEW t \in Task, NEW msg \in net[d],
             ReceiveIndex(d, t, msg)
      PROVE  WatchersFollow(e)'
  <2> DEFINE j == [pc |-> "add", kind |-> "index", entry |-> CreatedByIndex(msg.id)]
  <2>1. j \in Job
    <3>1. msg \in [kind : {"index"}, id : Folder]
      BY <1>4 DEF ReceiveIndex, TypeOK, Message
    <3> QED BY <3>1 DEF Job, Pending, Entry, CreatedByIndex
  <2>2. task[d][t] = Idle /\ UNCHANGED <<folders, watchers>>
    BY <1>4 DEF ReceiveIndex, Free, memory
  <2>3. CASE task' = task
    BY <1>a, <2>2, <2>3, WatchFrame
  <2>4. CASE task' = [task EXCEPT ![d][t] = j]
    BY <1>1, <2>1, <2>2, <2>4
  <2> QED BY <1>4, <2>3, <2>4 DEF ReceiveIndex
<1>5. ASSUME NEW d \in Device, NEW t \in Task, NEW g \in Folder, UserRemoves(d, t, g)
      PROVE  WatchersFollow(e)'
  <2> DEFINE j == [pc |-> "save", kind |-> "remove"]
  <2>1. j \in Job /\ Refreshes(j)
    BY DEF Job, Pending, Refreshes
  <2>2. /\ task' = [task EXCEPT ![d][t] = j] /\ UNCHANGED watchers
        /\ \A x \in Device \ {d} : UNCHANGED folders[x]
    BY <1>5 DEF UserRemoves, TypeOK
  <2> HIDE DEF j
  <2> QED BY <1>a, <2>1, <2>2, WatchDue
<1>6. ASSUME NEW d \in Device, NEW t \in Task,
             GuardedChange(d, t) \/ UnguardedChange(d, t)
      PROVE  WatchersFollow(e)'
  <2>1. [pc |-> "save", kind |-> "change"] \in Job
    BY DEF Job, Pending
  <2>2. /\ task[d][t] = Idle /\ UNCHANGED <<folders, watchers>>
        /\ task' = [task EXCEPT ![d][t] = [pc |-> "save", kind |-> "change"]]
    BY <1>6 DEF GuardedChange, UnguardedChange, Free
  <2> QED BY <1>1, <2>1, <2>2
<1>7. ASSUME NEW d \in Device, NEW t \in Task, Add(d, t)
      PROVE  WatchersFollow(e)'
  <2> DEFINE j == [task[d][t] EXCEPT !.pc = "save"]
  <2>1. task[d][t] \in Job /\ task[d][t].pc = "add"
    BY <1>7 DEF Add, TypeOK
  <2>2. j \in Job
    BY <2>1, JobSteps
  <2>3. Refreshes(j)
    <3>1. task[d][t] \in Pending
      BY <2>1, JobTypes
    <3>2. j.pc = "save" /\ j.kind # "change"
      BY <2>1, <3>1 DEF Pending
    <3> HIDE DEF j
    <3> QED BY <3>2 DEF Refreshes
  <2>4. /\ task' = [task EXCEPT ![d][t] = j] /\ UNCHANGED watchers
        /\ \A x \in Device \ {d} : UNCHANGED folders[x]
    BY <1>7 DEF Add, Goto, AfterAdd, TypeOK
  <2> HIDE DEF j
  <2> QED BY <1>a, <2>2, <2>3, <2>4, WatchDue
<1>8. ASSUME NEW d \in Device, NEW t \in Task, StartSave(d, t)
      PROVE  WatchersFollow(e)'
  <2> DEFINE j == [pc |-> "write", data |-> Snapshot(d), then |-> task[d][t]]
  <2>1. j \in Job
    <3>1. task[d][t] \in Pending
      <4>1. task[d][t] \in Job /\ task[d][t].pc = "save"
        BY <1>8 DEF StartSave, TypeOK
      <4> QED BY <4>1, JobTypes
    <3> QED BY <3>1 DEF Job, Writing, Snapshot, Config, TypeOK
  <2>2. Refreshes(task[d][t]) => Refreshes(j)
    BY <1>8 DEF StartSave, Refreshes
  <2>3. task' = [task EXCEPT ![d][t] = j] /\ UNCHANGED <<folders, watchers>>
    BY <1>8 DEF StartSave, memory
  <2> HIDE DEF j
  <2> QED BY <1>a, <2>1, <2>2, <2>3, WatchStep
<1>9. ASSUME NEW d \in Device, NEW t \in Task, EndSave(d, t)
      PROVE  WatchersFollow(e)'
  <2> DEFINE w == task[d][t]
             j == IF AfterSave(w.then.kind) = "idle" THEN Idle
                  ELSE [w.then EXCEPT !.pc = AfterSave(w.then.kind)]
  <2>1. w \in Job /\ w.pc = "write"
    BY <1>9 DEF EndSave, TypeOK
  <2>2. task' = [task EXCEPT ![d][t] = j] /\ UNCHANGED <<folders, watchers>>
    BY <1>9 DEF EndSave, memory
  <2>3. CASE w.then.kind = "change"
    <3>1. j = Idle
      BY <2>3 DEF AfterSave
    <3>2. ~Refreshes(w)
      BY <2>1, <2>3 DEF Refreshes
    <3> QED BY <1>a, <2>2, <3>1, <3>2, WatchStep, JobTypes
  <2>4. CASE w.then.kind # "change"
    <3> DEFINE r == [w.then EXCEPT !.pc = "refresh"]
    <3>1. j = r
      BY <2>4 DEF AfterSave
    <3>2. r \in Job
      BY <2>1, <2>4, WriteSteps
    <3>3. Refreshes(r)
      <4>1. w.then \in Pending
        BY <2>1, WriteSteps
      <4>2. r.pc = "refresh" /\ r.kind # "change"
        BY <2>4, <4>1 DEF Pending
      <4> HIDE DEF r
      <4> QED BY <4>2 DEF Refreshes
    <3>4. task' = [task EXCEPT ![d][t] = r]
      BY <2>2, <3>1
    <3> HIDE DEF r
    <3> QED BY <1>a, <2>2, <3>2, <3>3, <3>4, WatchStep
  <2> QED BY <2>3, <2>4
<1>10. ASSUME NEW d \in Device, NEW t \in Task, Refresh(d, t)
      PROVE  WatchersFollow(e)'
  <2>1. UNCHANGED folders
    BY <1>10 DEF Refresh, memory
  <2>2. CASE e = d
    <3>1. watchers'[d] = EnabledIds(folders[d])
      BY <1>10 DEF Refresh, TypeOK
    <3> QED BY <2>1, <2>2, <3>1 DEF WatchersFollow
  <2>3. CASE e # d
    <3>1. UNCHANGED <<watchers[e], task[e]>>
      BY <1>10, <2>3 DEF Refresh, Finish, Goto, TypeOK
    <3> QED BY <1>a, <2>1, <3>1, WatchFrame
  <2> QED BY <2>2, <2>3
<1>11. ASSUME NEW d \in Device, NEW t \in Task, SendFolder(d, t)
      PROVE  WatchersFollow(e)'
  <2>1. task[d][t] \in Job /\ task[d][t].pc = "send" /\ ~Refreshes(task[d][t])
    BY <1>11 DEF SendFolder, Refreshes, TypeOK
  <2>2. UNCHANGED <<folders, watchers>>
    BY <1>11 DEF SendFolder, memory
  <2>3. CASE task' = [task EXCEPT ![d][t] = Idle]
    BY <1>a, <2>1, <2>2, <2>3, WatchStep, JobTypes
  <2>4. CASE task' = [task EXCEPT ![d][t] = [task[d][t] EXCEPT !.pc = "trigger"]]
    <3>1. [task[d][t] EXCEPT !.pc = "trigger"] \in Job
      BY <2>1, JobSteps
    <3> QED BY <1>a, <2>1, <2>2, <2>4, <3>1, WatchStep
  <2> QED BY <1>11, <2>3, <2>4 DEF SendFolder, Finish, Goto
<1>12. ASSUME NEW d \in Device, NEW t \in Task, TriggerSync(d, t)
      PROVE  WatchersFollow(e)'
  <2>1. ~Refreshes(task[d][t])
    BY <1>12 DEF TriggerSync, Refreshes
  <2>2. task' = [task EXCEPT ![d][t] = Idle] /\ UNCHANGED <<folders, watchers>>
    BY <1>12 DEF TriggerSync, Finish, memory
  <2> QED BY <1>a, <2>1, <2>2, WatchStep, JobTypes
<1>13. CASE Connect \/ Drop \/ UNCHANGED vars
  <2>1. UNCHANGED <<folders, watchers, task>>
    BY <1>13 DEF Connect, Drop, vars, memory
  <2> QED BY <1>a, <2>1, WatchFrame
<1>14. ASSUME NEW d \in Device, Restart(d) PROVE WatchersFollow(e)'
  <2>1. CASE e = d
    <3>1. file[d] # Torn
      BY <1>14, <2>1 DEF Restart, TypeOK
    <3>2. folders'[d] = file[d].folders /\ watchers'[d] = EnabledIds(file[d].folders)
      BY <1>14, <3>1, RestartFolders DEF Restart, TypeOK
    <3> QED BY <2>1, <3>2 DEF WatchersFollow
  <2>2. CASE e # d
    <3>1. UNCHANGED <<folders[e], watchers[e], task[e]>>
      BY <1>14, <2>2 DEF Restart, TypeOK, memory
    <3> QED BY <1>a, <3>1, WatchFrame
  <2> QED BY <2>1, <2>2
<1> QED
  BY <1>2, <1>3, <1>4, <1>5, <1>6, <1>7, <1>8, <1>9, <1>10, <1>11, <1>12, <1>13,
     <1>14 DEF Next, Step, Receive, User

-----------------------------------------------------------------------------
(* SyncDelete. *)

\* An entry, or an announcement, that deletes is of a folder some user shared so.
OptedIn(o, x) == x.syncDelete => x.id \in o
AllOptedIn(o, s) == \A i \in DOMAIN s : OptedIn(o, s[i])
HasEntry(j) == j.kind \in {"user", "announce", "index"}

\* What a goroutine is going to add, has added, or is writing to the file.
JobOptedIn(o, j) ==
  /\ j.pc \notin {"idle", "write"} /\ HasEntry(j) => OptedIn(o, j.entry)
  /\ j.pc = "write" => /\ AllOptedIn(o, j.data.folders)
                       /\ HasEntry(j.then) => OptedIn(o, j.then.entry)
MessageOptedIn(o, m) == m.kind = "announce" => OptedIn(o, m)

\* SyncDelete reaches memory from tasks, tasks from messages and the file from
\* memory, so each of them is part of the invariant.
FoldersOptedIn == \A d \in Device : AllOptedIn(optedIn, folders[d])
FileOptedIn ==
  \A d \in Device : file[d] # Torn => AllOptedIn(optedIn, file[d].folders)
TaskOptedIn == \A d \in Device, t \in Task : JobOptedIn(optedIn, task[d][t])
NetOptedIn == \A d \in Device : \A m \in net[d] : MessageOptedIn(optedIn, m)
OptInv == FoldersOptedIn /\ FileOptedIn /\ TaskOptedIn /\ NetOptedIn

\* What users shared with SyncDelete only grows.
LEMMA OptMonotone ==
  ASSUME NEW o, NEW p, o \subseteq p
  PROVE  /\ \A s : AllOptedIn(o, s) => AllOptedIn(p, s)
         /\ \A j : JobOptedIn(o, j) => JobOptedIn(p, j)
         /\ \A m : MessageOptedIn(o, m) => MessageOptedIn(p, m)
BY DEF AllOptedIn, JobOptedIn, MessageOptedIn, OptedIn

\* A step that gives one goroutine a new job.
LEMMA OptTask ==
  ASSUME TypeOK, TaskOptedIn, optedIn \subseteq optedIn', NEW d \in Device,
         NEW t \in Task, NEW j, JobOptedIn(optedIn', j),
         task' = task \/ task' = [task EXCEPT ![d][t] = j]
  PROVE  TaskOptedIn'
<1> SUFFICES ASSUME NEW x \in Device, NEW y \in Task
             PROVE  JobOptedIn(optedIn', task'[x][y])
  BY DEF TaskOptedIn
<1>1. JobOptedIn(optedIn', task[x][y])
  BY OptMonotone DEF TaskOptedIn
<1>2. task'[x][y] = task[x][y] \/ task'[x][y] = j
  <2>1. task \in [Device -> [Task -> Job]]
    BY DEF TypeOK
  <2>2. CASE task' = task
    BY <2>2
  <2>3. CASE task' = [task EXCEPT ![d][t] = j]
    BY <2>1, <2>3
  <2> QED BY <2>2, <2>3
<1> QED BY <1>1, <1>2

\* Pending jobs differ in where they are, not in their entry.
LEMMA OptJobs ==
  ASSUME NEW o, NEW j \in Job, JobOptedIn(o, j)
  PROVE  /\ JobOptedIn(o, Idle)
         /\ j.pc = "add" => JobOptedIn(o, [j EXCEPT !.pc = "save"])
         /\ j.pc = "refresh" /\ j.kind # "remove" =>
              JobOptedIn(o, [j EXCEPT !.pc = "send"])
         /\ j.pc = "send" => JobOptedIn(o, [j EXCEPT !.pc = "trigger"])
         /\ j.pc = "write" /\ j.then.kind # "change" =>
              JobOptedIn(o, [j.then EXCEPT !.pc = "refresh"])
<1>1. JobOptedIn(o, Idle)
  BY DEF JobOptedIn, Idle
<1>2. ASSUME NEW k \in Pending, NEW q \in {"save", "send", "trigger", "refresh"},
             HasEntry(k) => OptedIn(o, k.entry)
      PROVE  JobOptedIn(o, [k EXCEPT !.pc = q])
  <2>1. /\ [k EXCEPT !.pc = q].pc = q /\ [k EXCEPT !.pc = q].kind = k.kind
        /\ HasEntry(k) => [k EXCEPT !.pc = q].entry = k.entry
    BY <1>2 DEF Pending, HasEntry
  <2> QED BY <1>2, <2>1 DEF JobOptedIn, HasEntry
<1>3. j.pc \notin {"write", "idle"} => j \in Pending
  BY JobTypes
<1>4. j.pc \in {"add", "refresh", "send"} => (HasEntry(j) => OptedIn(o, j.entry))
  BY DEF JobOptedIn
<1>5. j.pc = "write" => /\ j.then \in Pending
                        /\ HasEntry(j.then) => OptedIn(o, j.then.entry)
  BY WriteSteps DEF JobOptedIn
<1> QED BY <1>1, <1>2, <1>3, <1>4, <1>5

LEMMA OptMessages ==
  ASSUME TypeOK, FoldersOptedIn, NEW d \in Device
  PROVE  /\ \A m \in Indexes(d) : MessageOptedIn(optedIn, m)
         /\ \A m \in Announcements(d) : MessageOptedIn(optedIn, m)
<1>1. \A m \in Indexes(d) : MessageOptedIn(optedIn, m)
  BY DEF Indexes, MessageOptedIn
<1>2. ASSUME NEW m \in Announcements(d) PROVE MessageOptedIn(optedIn, m)
  <2>1. PICK i \in DOMAIN folders[d] : m = Announcement(folders[d][i])
    BY DEF Announcements, Range
  <2>2. OptedIn(optedIn, folders[d][i])
    BY DEF FoldersOptedIn, AllOptedIn
  <2> QED BY <2>1, <2>2 DEF Announcement, MessageOptedIn, OptedIn
<1> QED BY <1>1, <1>2

\* A step that sends, with the configuration and optedIn as they are.
LEMMA OptSend ==
  ASSUME TypeOK, NetOptedIn, UNCHANGED optedIn, NEW d \in Device, NEW ms,
         \A m \in ms : MessageOptedIn(optedIn, m), Send(d, ms)
  PROVE  NetOptedIn'
BY DEF Send, NetOptedIn, TypeOK

\* What RemoveAt keeps, and where.
LEMMA RemoveAtElements ==
  ASSUME NEW s \in Seq(Entry), NEW i \in DOMAIN s, NEW k \in DOMAIN RemoveAt(s, i)
  PROVE  /\ k \in 1..(Len(s) - 1) /\ DOMAIN s = 1..Len(s)
         /\ RemoveAt(s, i)[k] = s[IF k < i THEN k ELSE k + 1]
         /\ \E x \in DOMAIN s : RemoveAt(s, i)[k] = s[x]
<1> DEFINE l == SubSeq(s, 1, i - 1)
           r == SubSeq(s, i + 1, Len(s))
<1>1. i \in 1..Len(s) /\ DOMAIN s = 1..Len(s)
  OBVIOUS
<1>2. /\ l \in Seq(Entry) /\ Len(l) = i - 1
      /\ \A x \in 1..(i - 1) : l[x] = s[x]
  BY <1>1
<1>3. /\ r \in Seq(Entry) /\ Len(r) = Len(s) - i
      /\ \A x \in 1..(Len(s) - i) : r[x] = s[x + i]
  BY <1>1
<1>4. RemoveAt(s, i) = l \o r
  BY DEF RemoveAt
<1> HIDE DEF l, r
<1>5. k \in 1..(Len(s) - 1) /\ (l \o r)[k] = IF k <= i - 1 THEN l[k] ELSE r[k - (i - 1)]
  BY <1>1, <1>2, <1>3, <1>4
<1>6. (l \o r)[k] = s[IF k < i THEN k ELSE k + 1]
  <2>1. CASE k < i
    BY <1>1, <1>2, <1>5, <2>1
  <2>2. CASE k >= i
    <3>1. k - (i - 1) \in 1..(Len(s) - i) /\ (k - (i - 1)) + i = k + 1
      BY <1>1, <1>5, <2>2
    <3>2. r[k - (i - 1)] = s[k + 1]
      BY <1>3, <3>1
    <3> QED BY <1>1, <1>5, <2>2, <3>2
  <2> QED BY <1>5, <2>1, <2>2
<1>7. (IF k < i THEN k ELSE k + 1) \in DOMAIN s
  BY <1>1, <1>5
<1> QED BY <1>1, <1>4, <1>5, <1>6, <1>7

\* A step of one goroutine that leaves the configuration alone.
LEMMA OptQuiet ==
  ASSUME TypeOK, OptInv, optedIn \subseteq optedIn', NEW d \in Device,
         NEW t \in Task, NEW j, JobOptedIn(optedIn', j),
         task' = task \/ task' = [task EXCEPT ![d][t] = j],
         UNCHANGED folders,
         \A x \in Device : file'[x] \in {file[x], Torn},
         NetOptedIn'
  PROVE  OptInv'
<1>1. TaskOptedIn'
  BY OptTask DEF OptInv
<1>2. FoldersOptedIn'
  BY OptMonotone DEF OptInv, FoldersOptedIn
<1>3. FileOptedIn'
  BY OptMonotone DEF OptInv, FileOptedIn
<1> QED BY <1>1, <1>2, <1>3 DEF OptInv

\* Messages that are there stay opted in; some may be handled.
LEMMA OptNet ==
  ASSUME NetOptedIn, optedIn \subseteq optedIn',
         \A x \in Device : net'[x] \subseteq net[x]
  PROVE  NetOptedIn'
BY OptMonotone DEF NetOptedIn

LEMMA OptUser ==
  ASSUME TypeOK, OptInv, NEW d \in Device, NEW t \in Task,
         \/ \E c \in Entry : UserAdds(d, t, c)
         \/ \E g \in Folder : UserRemoves(d, t, g)
         \/ GuardedChange(d, t) \/ UnguardedChange(d, t)
  PROVE  OptInv'
<1>0. TaskOptedIn /\ NetOptedIn /\ FileOptedIn /\ FoldersOptedIn
  BY DEF OptInv
<1>a. ASSUME UNCHANGED net, optedIn \subseteq optedIn' PROVE NetOptedIn'
  BY <1>0, <1>a, OptNet
<1>1. ASSUME NEW c \in Entry, UserAdds(d, t, c) PROVE OptInv'
  <2> DEFINE j == [pc |-> "add", kind |-> "user", entry |-> c]
  <2>1. JobOptedIn(optedIn', j)
    BY <1>1 DEF UserAdds, JobOptedIn, OptedIn
  <2>2. /\ task' = [task EXCEPT ![d][t] = j] /\ optedIn \subseteq optedIn'
        /\ UNCHANGED <<folders, file, net>>
    BY <1>1 DEF UserAdds, memory
  <2> HIDE DEF j
  <2> QED BY <1>a, <2>1, <2>2, OptQuiet
<1>2. ASSUME NEW g \in Folder, UserRemoves(d, t, g) PROVE OptInv'
  <2> DEFINE j == [pc |-> "save", kind |-> "remove"]
  <2>1. JobOptedIn(optedIn', j)
    BY DEF JobOptedIn, HasEntry
  <2>2. /\ task' = [task EXCEPT ![d][t] = j]
        /\ UNCHANGED <<file, net, optedIn>>
    BY <1>2 DEF UserRemoves
  <2> HIDE DEF j
  <2>3. TaskOptedIn' /\ NetOptedIn'
    BY <1>a, <1>0, <2>1, <2>2, OptTask
  <2>4. FoldersOptedIn'
    <3>1. CASE folders' = folders
      BY <1>0, <2>2, <3>1 DEF FoldersOptedIn
    <3>2. CASE folders' # folders
      <4>1. PICK i \in DOMAIN folders[d] :
              folders' = [folders EXCEPT ![d] = RemoveAt(@, i)]
        BY <1>2, <3>2 DEF UserRemoves
      <4>2. AllOptedIn(optedIn, RemoveAt(folders[d], i))
        <5>1. folders[d] \in Seq(Entry) /\ AllOptedIn(optedIn, folders[d])
          BY <1>0 DEF FoldersOptedIn, TypeOK
        <5>2. \A k \in DOMAIN RemoveAt(folders[d], i) :
                \E x \in DOMAIN folders[d] : RemoveAt(folders[d], i)[k] = folders[d][x]
          BY <5>1, RemoveAtElements
        <5> QED BY <5>1, <5>2 DEF AllOptedIn
      <4>3. \A x \in Device : AllOptedIn(optedIn, folders'[x])
        BY <1>0, <4>1, <4>2 DEF FoldersOptedIn, TypeOK
      <4> QED BY <2>2, <4>3 DEF FoldersOptedIn
    <3> QED BY <3>1, <3>2
  <2>5. FileOptedIn'
    BY <1>0, <2>2 DEF FileOptedIn
  <2> QED BY <2>3, <2>4, <2>5 DEF OptInv
<1>3. CASE GuardedChange(d, t) \/ UnguardedChange(d, t)
  <2> DEFINE j == [pc |-> "save", kind |-> "change"]
  <2>1. JobOptedIn(optedIn', j)
    BY DEF JobOptedIn, HasEntry
  <2>2. /\ task' = [task EXCEPT ![d][t] = j]
        /\ UNCHANGED <<folders, file, net, optedIn>>
    BY <1>3 DEF GuardedChange, UnguardedChange, history
  <2> HIDE DEF j
  <2> QED BY <1>a, <2>1, <2>2, OptQuiet
<1> QED BY <1>1, <1>2, <1>3

LEMMA OptReceive ==
  ASSUME TypeOK, OptInv, NEW d \in Device, NEW t \in Task, Receive(d, t)
  PROVE  OptInv'
<1> PICK msg \in net[d] : ReceiveAnnounce(d, t, msg) \/ ReceiveIndex(d, t, msg)
  BY DEF Receive
<1>0. NetOptedIn /\ FoldersOptedIn /\ MessageOptedIn(optedIn, msg)
  BY DEF OptInv, NetOptedIn
<1>a. UNCHANGED <<folders, file, optedIn>>
  BY DEF ReceiveAnnounce, ReceiveIndex, memory
<1>1. CASE ReceiveAnnounce(d, t, msg)
  <2> DEFINE j == [pc |-> "add", kind |-> "announce",
                   entry |-> [id |-> msg.id, syncDelete |-> msg.syncDelete,
                              enabled |-> TRUE]]
  <2>1. JobOptedIn(optedIn', j)
    BY <1>0, <1>a, <1>1 DEF ReceiveAnnounce, MessageOptedIn, JobOptedIn, OptedIn
  <2>2. task' = task \/ task' = [task EXCEPT ![d][t] = j]
    BY <1>1 DEF ReceiveAnnounce
  <2>3. NetOptedIn'
    <3>1. \A m \in Indexes(d) : MessageOptedIn(optedIn, m)
      BY <1>0, OptMessages
    <3>2. \A x \in Device : net'[x] \subseteq net[x] \cup Indexes(d)
      BY <1>1 DEF ReceiveAnnounce, TypeOK
    <3> QED BY <1>0, <1>a, <3>1, <3>2 DEF NetOptedIn
  <2> HIDE DEF j
  <2> QED BY <1>a, <2>1, <2>2, <2>3, OptQuiet
<1>2. CASE ReceiveIndex(d, t, msg)
  <2> DEFINE j == [pc |-> "add", kind |-> "index", entry |-> CreatedByIndex(msg.id)]
  <2>1. JobOptedIn(optedIn', j)
    BY DEF JobOptedIn, OptedIn, CreatedByIndex
  <2>2. task' = task \/ task' = [task EXCEPT ![d][t] = j]
    BY <1>2 DEF ReceiveIndex
  <2>3. NetOptedIn'
    <3>1. \A x \in Device : net'[x] \subseteq net[x]
      BY <1>2 DEF ReceiveIndex, TypeOK
    <3> QED BY <1>0, <1>a, <3>1, OptNet
  <2> HIDE DEF j
  <2> QED BY <1>a, <2>1, <2>2, <2>3, OptQuiet
<1> QED BY <1>1, <1>2

LEMMA OptStep ==
  ASSUME TypeOK, OptInv, NEW d \in Device, NEW t \in Task, Step(d, t)
  PROVE  OptInv'
<1> DEFINE j == task[d][t]
<1>0. TaskOptedIn /\ NetOptedIn /\ FileOptedIn /\ FoldersOptedIn
  BY DEF OptInv
<1>a. j \in Job /\ JobOptedIn(optedIn, j)
  BY <1>0 DEF TypeOK, TaskOptedIn
<1>b. UNCHANGED optedIn
  BY DEF Step, Add, StartSave, EndSave, Refresh, SendFolder, TriggerSync, history
<1>c. ASSUME UNCHANGED net PROVE NetOptedIn'
  BY <1>0, <1>b, <1>c, OptNet
<1>1. CASE Add(d, t)
  <2>1. /\ j.pc = "add" /\ task' = [task EXCEPT ![d][t] = [j EXCEPT !.pc = "save"]]
        /\ folders' = [folders EXCEPT ![d] = Append(@, j.entry)]
        /\ UNCHANGED <<file, net>>
    BY <1>1 DEF Add, Goto, AfterAdd
  <2>2. OptedIn(optedIn, j.entry)
    <3>1. j \in Pending
      BY <1>a, <2>1, JobTypes
    <3>2. HasEntry(j)
      BY <2>1, <3>1 DEF Pending, HasEntry
    <3> QED BY <1>a, <2>1, <3>2 DEF JobOptedIn
  <2>3. JobOptedIn(optedIn', [j EXCEPT !.pc = "save"])
    BY <1>a, <1>b, <2>1, OptJobs
  <2>4. TaskOptedIn'
    <3> DEFINE k == [j EXCEPT !.pc = "save"]
    <3>1. JobOptedIn(optedIn', k) /\ task' = [task EXCEPT ![d][t] = k]
      BY <2>1, <2>3
    <3> HIDE DEF k
    <3> QED BY <1>0, <1>b, <3>1, OptTask
  <2>5. FoldersOptedIn'
    <3>1. AllOptedIn(optedIn, Append(folders[d], j.entry))
      <4>1. folders[d] \in Seq(Entry) /\ AllOptedIn(optedIn, folders[d])
        BY <1>0 DEF FoldersOptedIn, TypeOK
      <4> HIDE DEF j
      <4> QED BY <2>2, <4>1 DEF AllOptedIn
    <3>2. \A x \in Device : AllOptedIn(optedIn, folders'[x])
      BY <1>0, <2>1, <3>1 DEF FoldersOptedIn, TypeOK
    <3> QED BY <1>b, <3>2 DEF FoldersOptedIn
  <2>6. FileOptedIn'
    BY <1>0, <1>b, <2>1 DEF FileOptedIn
  <2> QED BY <1>c, <2>1, <2>4, <2>5, <2>6 DEF OptInv
<1>2. CASE StartSave(d, t)
  <2> DEFINE k == [pc |-> "write", data |-> Snapshot(d), then |-> j]
  <2>1. /\ j.pc = "save" /\ task' = [task EXCEPT ![d][t] = k]
        /\ file' = [file EXCEPT ![d] = Torn] /\ UNCHANGED <<folders, net>>
    BY <1>2 DEF StartSave, memory
  <2>2. JobOptedIn(optedIn', k)
    BY <1>0, <1>a, <1>b, <2>1 DEF JobOptedIn, Snapshot, FoldersOptedIn
  <2>3. \A x \in Device : file'[x] \in {file[x], Torn}
    BY <2>1 DEF TypeOK
  <2> HIDE DEF k
  <2> QED BY <1>b, <1>c, <2>1, <2>2, <2>3, OptQuiet
<1>3. CASE EndSave(d, t)
  <2> DEFINE k == IF AfterSave(j.then.kind) = "idle" THEN Idle
                  ELSE [j.then EXCEPT !.pc = AfterSave(j.then.kind)]
  <2>1. /\ j.pc = "write" /\ task' = [task EXCEPT ![d][t] = k]
        /\ UNCHANGED <<folders, net>>
        /\ \A x \in Device : file'[x] \in {file[x], Torn, j.data}
    BY <1>3 DEF EndSave, memory, TypeOK
  <2>2. JobOptedIn(optedIn', k)
    <3>1. CASE j.then.kind = "change"
      BY <1>a, <1>b, <3>1, OptJobs DEF AfterSave
    <3>2. CASE j.then.kind # "change"
      <4>1. k = [j.then EXCEPT !.pc = "refresh"]
        BY <3>2 DEF AfterSave
      <4>2. JobOptedIn(optedIn, [j.then EXCEPT !.pc = "refresh"])
        BY <1>a, <2>1, <3>2, OptJobs
      <4> HIDE DEF k
      <4> QED BY <1>b, <4>1, <4>2
    <3> QED BY <3>1, <3>2
  <2>3. AllOptedIn(optedIn, j.data.folders)
    BY <1>a, <2>1 DEF JobOptedIn
  <2>4. FileOptedIn' /\ FoldersOptedIn'
    BY <1>0, <1>b, <2>1, <2>3 DEF FileOptedIn, FoldersOptedIn
  <2>5. TaskOptedIn'
    <3> HIDE DEF k
    <3> QED BY <1>0, <1>b, <2>1, <2>2, OptTask
  <2> QED BY <1>c, <2>1, <2>4, <2>5 DEF OptInv
<1>4. ASSUME NEW k \in {Idle, [j EXCEPT !.pc = "send"], [j EXCEPT !.pc = "trigger"]},
             JobOptedIn(optedIn, k), task' = [task EXCEPT ![d][t] = k],
             UNCHANGED <<folders, file>>, NetOptedIn'
      PROVE  OptInv'
  <2>1. \A x \in Device : file'[x] \in {file[x], Torn}
    BY <1>4
  <2>2. JobOptedIn(optedIn', k) /\ optedIn \subseteq optedIn'
    BY <1>b, <1>4
  <2> QED BY <1>4, <2>1, <2>2, OptQuiet
<1>5. CASE Refresh(d, t)
  <2>1. j.pc = "refresh" /\ UNCHANGED <<folders, file, net>>
    BY <1>5 DEF Refresh, memory
  <2>2. \/ task' = [task EXCEPT ![d][t] = Idle]
        \/ /\ j.kind # "remove"
           /\ task' = [task EXCEPT ![d][t] = [j EXCEPT !.pc = "send"]]
    BY <1>5 DEF Refresh, Finish, Goto
  <2> QED BY <1>a, <1>c, <1>4, <2>1, <2>2, OptJobs
<1>6. CASE SendFolder(d, t)
  <2>1. j.pc = "send" /\ UNCHANGED <<folders, file>>
    BY <1>6 DEF SendFolder, memory
  <2>2. \/ task' = [task EXCEPT ![d][t] = Idle]
        \/ task' = [task EXCEPT ![d][t] = [j EXCEPT !.pc = "trigger"]]
    BY <1>6 DEF SendFolder, Finish, Goto
  <2>3. NetOptedIn'
    <3>1. MessageOptedIn(optedIn, Announcement(j.entry))
      <4>1. j \in Pending
        BY <1>a, <2>1, JobTypes
      <4>2. HasEntry(j)
        BY <2>1, <4>1 DEF Pending, HasEntry
      <4>3. OptedIn(optedIn, j.entry)
        BY <1>a, <2>1, <4>2 DEF JobOptedIn
      <4> QED BY <4>3 DEF MessageOptedIn, Announcement, OptedIn
    <3>2. \A m \in Indexes(d) : MessageOptedIn(optedIn, m)
      BY <1>0, OptMessages
    <3>3. PICK ms \in {{Announcement(j.entry)}, Indexes(d), {}} : Send(d, ms)
      BY <1>6 DEF SendFolder
    <3>4. \A m \in ms : MessageOptedIn(optedIn, m)
      BY <3>1, <3>2, <3>3
    <3> QED BY <1>0, <1>b, <3>3, <3>4, OptSend
  <2> QED BY <1>a, <1>4, <2>1, <2>2, <2>3, OptJobs
<1>7. CASE TriggerSync(d, t)
  <2>1. task' = [task EXCEPT ![d][t] = Idle] /\ UNCHANGED <<folders, file>>
    BY <1>7 DEF TriggerSync, Finish, memory
  <2>2. NetOptedIn'
    BY <1>0, <1>b, <1>7, OptMessages, OptSend DEF TriggerSync
  <2> QED BY <1>a, <1>4, <2>1, <2>2, OptJobs
<1> QED BY <1>1, <1>2, <1>3, <1>5, <1>6, <1>7 DEF Step

LEMMA OptInvariant == TypeOK /\ OptInv /\ [Next]_vars => OptInv'
<1> SUFFICES ASSUME TypeOK, OptInv, [Next]_vars PROVE OptInv'
  OBVIOUS
<1>0. TaskOptedIn /\ NetOptedIn /\ FileOptedIn /\ FoldersOptedIn
  BY DEF OptInv
<1>1. CASE Connect
  <2>1. UNCHANGED <<folders, file, task, optedIn>>
    BY <1>1 DEF Connect, memory, history
  <2>2. NetOptedIn'
    <3>1. \A x \in Device : net'[x] = Greeting(Peer(x)) /\ Peer(x) \in Device
      BY <1>1, PeerType DEF Connect
    <3>2. \A x \in Device : \A m \in Greeting(x) : MessageOptedIn(optedIn, m)
      BY <1>0, OptMessages DEF Greeting
    <3> QED BY <2>1, <3>1, <3>2 DEF NetOptedIn
  <2> QED BY <1>0, <2>1, <2>2 DEF OptInv, TaskOptedIn, FileOptedIn, FoldersOptedIn
<1>2. CASE Drop \/ UNCHANGED vars
  <2>1. UNCHANGED <<folders, file, task, optedIn>>
    BY <1>2 DEF Drop, vars, memory, history
  <2>2. \A x \in Device : net'[x] \subseteq net[x]
    BY <1>2 DEF Drop, vars
  <2>3. NetOptedIn'
    BY <1>0, <2>1, <2>2, OptNet
  <2> QED BY <1>0, <2>1, <2>3 DEF OptInv, TaskOptedIn, FileOptedIn, FoldersOptedIn
<1>3. ASSUME NEW d \in Device, Restart(d) PROVE OptInv'
  <2>1. UNCHANGED <<file, optedIn>>
    BY <1>3 DEF Restart, history
  <2>2. TaskOptedIn'
    <3>1. \A x \in Device, y \in Task : task'[x][y] \in {Idle, task[x][y]}
      BY <1>3 DEF Restart, TypeOK
    <3>2. JobOptedIn(optedIn, Idle)
      BY DEF JobOptedIn, Idle
    <3> QED BY <1>0, <2>1, <3>1, <3>2 DEF TaskOptedIn
  <2>3. NetOptedIn'
    <3>1. \A x \in Device : net'[x] = {}
      BY <1>3 DEF Restart
    <3> QED BY <3>1 DEF NetOptedIn
  <2>4. FoldersOptedIn'
    <3>1. CASE file[d] = Torn
      BY <1>0, <1>3, <2>1, <3>1 DEF Restart, FoldersOptedIn, memory
    <3>2. CASE file[d] # Torn
      <4>1. AllOptedIn(optedIn, file[d].folders)
        BY <1>0, <3>2 DEF FileOptedIn
      <4>2. folders' = [folders EXCEPT ![d] = file[d].folders]
        BY <1>3, <3>2, RestartFolders DEF Restart
      <4>3. \A x \in Device : AllOptedIn(optedIn, folders'[x])
        BY <1>0, <4>1, <4>2 DEF FoldersOptedIn, TypeOK
      <4> QED BY <2>1, <4>3 DEF FoldersOptedIn
    <3> QED BY <3>1, <3>2
  <2>5. FileOptedIn'
    BY <1>0, <2>1 DEF FileOptedIn
  <2> QED BY <2>2, <2>3, <2>4, <2>5 DEF OptInv
<1> QED BY <1>1, <1>2, <1>3, OptUser, OptReceive, OptStep DEF Next, User

LEMMA InitOptedIn == Init => OptInv
<1> SUFFICES ASSUME Init PROVE OptInv
  OBVIOUS
<1>1. \A d \in Device : folders[d] \in Seq(Entry)
  BY InitType DEF TypeOK
<1>2. FoldersOptedIn
  <2> SUFFICES ASSUME NEW d \in Device, NEW i \in DOMAIN folders[d],
                      folders[d][i].syncDelete
               PROVE  folders[d][i].id \in optedIn
    BY DEF FoldersOptedIn, AllOptedIn, OptedIn
  <2>1. folders[d][i] \in Entry
    BY <1>1
  <2>2. folders[d][i].id \in Folder
    BY <2>1 DEF Entry
  <2> QED BY <2>2 DEF Init
<1>3. FileOptedIn
  BY <1>2 DEF Init, FileOptedIn, FoldersOptedIn, Snapshot
<1>4. TaskOptedIn /\ NetOptedIn
  BY DEF Init, TaskOptedIn, NetOptedIn, JobOptedIn, Idle
<1> QED BY <1>2, <1>3, <1>4 DEF OptInv

-----------------------------------------------------------------------------
(* One entry for a folder. *)

Once(s, f) == \A i, j \in DOMAIN s : s[i].id = f /\ s[j].id = f => i = j

\* As long as no creation of f met another or an entry of it, there is at most
\* one goroutine that creates it, and only while there is no entry; and what a
\* restart may load has it once.
OnceFor(d, f) ==
  /\ Once(folders[d], f)
  /\ file[d] # Torn => Once(file[d].folders, f)
  /\ \A t \in Task : task[d][t].pc = "write" => Once(task[d][t].data.folders, f)
  /\ \A t, x \in Creating(d, f) : ~Known(d, f) /\ x = t
  /\ f \notin orphans[d]

OnceInv == \A d \in Device, f \in Folder : <<d, f>> \notin doubled => OnceFor(d, f)

\* At most one entry: no other watcher is left running.
LEMMA OnceWatched ==
  ASSUME NEW s, NEW g \in Folder, Once(s, g)
  PROVE  /\ Cardinality(EntriesOf(s, g)) <= 1
         /\ g \notin WatchedTwice(s)
<1>1. ASSUME NEW S, S \subseteq EntriesOf(s, g) PROVE Cardinality(S) \in {0, 1}
  <2>1. CASE S = {}
    BY <2>1, FS_EmptySet
  <2>2. CASE S # {}
    <3>1. PICK x : x \in S
      BY <2>2
    <3>2. ASSUME NEW y \in S PROVE y = x
      <4>1. /\ x \in DOMAIN s /\ s[x].id = g
            /\ y \in DOMAIN s /\ s[y].id = g
        BY <1>1, <3>1 DEF EntriesOf
      <4> QED BY <4>1 DEF Once
    <3>3. S = {x}
      BY <3>1, <3>2
    <3> QED BY <3>3, FS_Singleton
  <2> QED BY <2>1, <2>2
<1>2. EnabledIn(s, g) \subseteq EntriesOf(s, g)
  BY DEF EnabledIn, EntriesOf
<1>3. Cardinality(EnabledIn(s, g)) \in {0, 1} /\ Cardinality(EntriesOf(s, g)) \in {0, 1}
  BY <1>1, <1>2
<1> QED BY <1>3 DEF WatchedTwice

LEMMA OnceCounted ==
  ASSUME NEW s \in Seq(Entry), NEW g \in Folder, ~(Cardinality(EntriesOf(s, g)) > 1)
  PROVE  Once(s, g)
<1> SUFFICES ASSUME NEW i \in DOMAIN s, NEW k \in DOMAIN s,
                    s[i].id = g, s[k].id = g, i # k
             PROVE  FALSE
  BY DEF Once
<1>1. i \in EntriesOf(s, g) /\ k \in EntriesOf(s, g)
  BY DEF EntriesOf
<1>2. IsFiniteSet(1..Len(s))
  BY FS_Interval
<1>3. EntriesOf(s, g) \in SUBSET (1..Len(s))
  BY DEF EntriesOf
<1>4. IsFiniteSet(EntriesOf(s, g))
  BY <1>2, <1>3, FS_Subset
<1>5. Cardinality(EntriesOf(s, g)) \in {0, 1}
  <2>1. Cardinality(EntriesOf(s, g)) \in Nat
    BY <1>4, FS_CardinalityType
  <2> HIDE DEF EntriesOf
  <2> QED BY <2>1
<1>6. CASE Cardinality(EntriesOf(s, g)) = 0
  BY <1>1, <1>4, <1>6, FS_EmptySet
<1>7. CASE Cardinality(EntriesOf(s, g)) = 1
  <2>1. PICK x : EntriesOf(s, g) = {x}
    BY <1>4, <1>7, FS_Singleton
  <2> QED BY <1>1, <2>1
<1> QED BY <1>5, <1>6, <1>7

\* A step of one goroutine that leaves cfg.Folders alone and creates g on e only
\* where nothing else has or creates it.
LEMMA OnceQuiet ==
  ASSUME TypeOK, NEW e \in Device, NEW g \in Folder, OnceFor(e, g),
         NEW d \in Device, NEW t \in Task, NEW j,
         task' = task \/ task' = [task EXCEPT ![d][t] = j],
         UNCHANGED folders, g \notin orphans'[e],
         file'[e] # Torn => Once(file'[e].folders, g),
         task' # task /\ d = e =>
           /\ j.pc = "write" => Once(j.data.folders, g)
           /\ j.pc = "add" /\ j.entry.id = g => ~Known(e, g) /\ Creating(e, g) = {}
  PROVE  OnceFor(e, g)'
<1>0. task \in [Device -> [Task -> Job]]
  BY DEF TypeOK
<1>1. Once(folders[e], g)' /\ (Known(e, g)' <=> Known(e, g))
  BY DEF OnceFor, Once, Known
<1>2. ASSUME NEW x \in Task
      PROVE  \/ task'[e][x] = task[e][x]
             \/ task' # task /\ d = e /\ x = t /\ task'[e][x] = j
  BY <1>0
<1>3. \A x \in Task : task'[e][x].pc = "write" => Once(task'[e][x].data.folders, g)
  BY <1>2 DEF OnceFor
<1>4. ASSUME NEW x \in Creating(e, g)', NEW y \in Creating(e, g)'
      PROVE  ~Known(e, g) /\ y = x
  <2>1. /\ x \in Task /\ task'[e][x].pc = "add" /\ task'[e][x].entry.id = g
        /\ y \in Task /\ task'[e][y].pc = "add" /\ task'[e][y].entry.id = g
    BY <1>4 DEF Creating
  <2>2. CASE x \in Creating(e, g) /\ y \in Creating(e, g)
    BY <2>2 DEF OnceFor
  <2>3. CASE x \notin Creating(e, g) \/ y \notin Creating(e, g)
    <3>1. PICK z \in {x, y} : z \notin Creating(e, g)
      BY <2>3
    <3>2. task'[e][z] # task[e][z]
      BY <2>1, <3>1 DEF Creating
    <3>3. task' # task /\ d = e /\ z = t /\ task'[e][z] = j
      BY <1>2, <2>1, <3>2
    <3>4. ~Known(e, g) /\ Creating(e, g) = {}
      BY <2>1, <3>3
    <3>5. \A w \in Task : w # t => w \notin Creating(e, g)'
      <4>1. \A w \in Task : w # t => task'[e][w] = task[e][w]
        BY <1>2
      <4> QED BY <3>4, <4>1 DEF Creating
    <3> QED BY <1>4, <2>1, <3>4, <3>5
  <2> QED BY <2>2, <2>3
<1> QED BY <1>1, <1>3, <1>4 DEF OnceFor

\* A step of another device, or of none.
LEMMA OnceFrame ==
  ASSUME NEW e \in Device, NEW g \in Folder, OnceFor(e, g),
         UNCHANGED <<folders[e], file[e], task[e], orphans[e]>>
  PROVE  OnceFor(e, g)'
BY DEF OnceFor, Once, Known, Creating

LEMMA OnceStep ==
  ASSUME TypeOK, NEW e \in Device, NEW g \in Folder, OnceFor(e, g),
         NEW d \in Device, NEW t \in Task, Step(d, t)
  PROVE  OnceFor(e, g)'
<1> DEFINE j == task[d][t]
<1>a. j \in Job
  BY DEF TypeOK
<1>b. g \notin orphans[e] /\ Once(folders[e], g)
      /\ (file[e] # Torn => Once(file[e].folders, g))
  BY DEF OnceFor
<1>c. ASSUME NEW k, k.pc \notin {"add", "write"}, task' = [task EXCEPT ![d][t] = k],
             UNCHANGED folders, g \notin orphans'[e],
             file'[e] # Torn => Once(file'[e].folders, g)
      PROVE  OnceFor(e, g)'
  BY <1>c, OnceQuiet
<1>1. CASE Add(d, t)
  <2> DEFINE k == [j EXCEPT !.pc = "save"]
  <2>1. /\ j.pc = "add" /\ task' = [task EXCEPT ![d][t] = k]
        /\ folders' = [folders EXCEPT ![d] = Append(@, j.entry)]
        /\ UNCHANGED <<file, orphans>>
    BY <1>1 DEF Add, Goto, AfterAdd
  <2>2. CASE e # d
    BY <2>1, <2>2, OnceFrame DEF TypeOK
  <2>3. CASE e = d
    <3>0. k.pc = "save"
      <4>1. j \in Pending
        BY <1>a, <2>1, JobTypes
      <4> QED BY <4>1 DEF Pending
    <3>1. /\ task'[e][t].pc = "save" /\ \A x \in Task \ {t} : task'[e][x] = task[e][x]
      <4> HIDE DEF k
      <4> QED BY <2>1, <2>3, <3>0 DEF TypeOK
    <3>2. /\ folders[e] \in Seq(Entry) /\ folders'[e] = Append(folders[e], j.entry)
      BY <2>1, <2>3 DEF TypeOK
    <3>3. \A x \in Task : task'[e][x].pc = "write" => Once(task'[e][x].data.folders, g)
      BY <3>1 DEF OnceFor
    <3>4. Creating(e, g)' = Creating(e, g) \ {t}
      BY <3>1 DEF Creating
    <3>5. CASE j.entry.id = g
      <4>1. t \in Creating(e, g)
        BY <2>1, <2>3, <3>5 DEF Creating
      <4>2. ~Known(e, g) /\ Creating(e, g)' = {}
        BY <3>4, <4>1 DEF OnceFor
      <4>3. Once(folders'[e], g)
        <5> HIDE DEF j
        <5> QED BY <3>2, <4>2 DEF Once, Known
      <4> QED BY <1>b, <2>1, <3>3, <4>2, <4>3 DEF OnceFor
    <3>6. CASE j.entry.id # g
      <4>1. Once(folders'[e], g) /\ (Known(e, g)' => Known(e, g))
        <5> HIDE DEF j
        <5>1. \A i \in DOMAIN folders'[e] : folders'[e][i].id = g =>
                i \in DOMAIN folders[e] /\ folders'[e][i] = folders[e][i]
          BY <3>2, <3>6
        <5> QED BY <1>b, <5>1 DEF Once, Known
      <4> QED BY <1>b, <2>1, <3>3, <3>4, <4>1 DEF OnceFor
    <3> QED BY <3>5, <3>6
  <2> QED BY <2>2, <2>3
<1>2. CASE StartSave(d, t)
  <2> DEFINE k == [pc |-> "write", data |-> Snapshot(d), then |-> j]
  <2>1. /\ task' = [task EXCEPT ![d][t] = k] /\ UNCHANGED <<folders, orphans>>
        /\ file'[e] \in {file[e], Torn}
    BY <1>2 DEF StartSave, memory, TypeOK
  <2>2. k.pc = "write" /\ k.data.folders = folders[d]
    BY DEF Snapshot
  <2> HIDE DEF k
  <2> QED BY <1>b, <2>1, <2>2, OnceQuiet
<1>3. CASE EndSave(d, t)
  <2> DEFINE k == IF AfterSave(j.then.kind) = "idle" THEN Idle
                  ELSE [j.then EXCEPT !.pc = AfterSave(j.then.kind)]
  <2>1. /\ j.pc = "write" /\ task' = [task EXCEPT ![d][t] = k]
        /\ UNCHANGED <<folders, orphans>>
    BY <1>3 DEF EndSave, memory
  <2>2. k.pc \in {"idle", "refresh"}
    <3>1. CASE j.then.kind = "change"
      BY <3>1 DEF AfterSave, Idle
    <3>2. CASE j.then.kind # "change"
      <4>1. k = [j.then EXCEPT !.pc = "refresh"] /\ j.then \in Pending
        BY <1>a, <2>1, <3>2, WriteSteps DEF AfterSave
      <4> QED BY <4>1 DEF Pending
    <3> QED BY <3>1, <3>2
  <2>3. file'[e] # Torn => Once(file'[e].folders, g)
    <3>1. CASE e = d
      <4>1. Once(j.data.folders, g)
        BY <2>1, <3>1 DEF OnceFor
      <4>2. file'[e] \in {Torn, j.data}
        BY <1>3, <3>1 DEF EndSave, TypeOK
      <4> QED BY <4>1, <4>2
    <3>2. CASE e # d
      <4>1. file'[e] = file[e]
        BY <1>3, <3>2 DEF EndSave, TypeOK
      <4> QED BY <1>b, <4>1
    <3> QED BY <3>1, <3>2
  <2> HIDE DEF k
  <2> QED BY <1>b, <1>c, <2>1, <2>2, <2>3
<1>4. CASE Refresh(d, t)
  <2>1. j.pc = "refresh" /\ UNCHANGED <<folders, file>>
    BY <1>4 DEF Refresh, memory
  <2>2. g \notin orphans'[e]
    <3>1. g \notin WatchedTwice(folders[e])
      BY <1>b, OnceWatched
    <3>2. orphans'[e] \subseteq orphans[e] \cup WatchedTwice(folders[e])
      BY <1>4 DEF Refresh, TypeOK
    <3> QED BY <1>b, <3>1, <3>2
  <2>3. j \in Pending
    BY <1>a, <2>1, JobTypes
  <2>4. PICK k : k.pc \notin {"add", "write"} /\ task' = [task EXCEPT ![d][t] = k]
    <3>1. CASE task' = [task EXCEPT ![d][t] = Idle]
      BY <3>1 DEF Idle
    <3>2. CASE task' = [task EXCEPT ![d][t] = [j EXCEPT !.pc = "send"]]
      <4>1. [j EXCEPT !.pc = "send"].pc = "send"
        BY <2>3 DEF Pending
      <4> QED BY <3>2, <4>1
    <3> QED BY <1>4, <3>1, <3>2 DEF Refresh, Finish, Goto
  <2> QED BY <1>b, <1>c, <2>1, <2>2, <2>4
<1>5. CASE SendFolder(d, t) \/ TriggerSync(d, t)
  <2>1. j.pc \in {"send", "trigger"} /\ UNCHANGED <<folders, file, orphans>>
    BY <1>5 DEF SendFolder, TriggerSync, memory
  <2>2. j \in Pending
    BY <1>a, <2>1, JobTypes
  <2>3. PICK k : k.pc \notin {"add", "write"} /\ task' = [task EXCEPT ![d][t] = k]
    <3>1. CASE task' = [task EXCEPT ![d][t] = Idle]
      BY <3>1 DEF Idle
    <3>2. CASE task' = [task EXCEPT ![d][t] = [j EXCEPT !.pc = "trigger"]]
      <4>1. [j EXCEPT !.pc = "trigger"].pc = "trigger"
        BY <2>2 DEF Pending
      <4> QED BY <3>2, <4>1
    <3> QED BY <1>5, <3>1, <3>2 DEF SendFolder, TriggerSync, Finish, Goto
  <2> QED BY <1>b, <1>c, <2>1, <2>3
<1> QED BY <1>1, <1>2, <1>3, <1>4, <1>5 DEF Step

LEMMA OnceBegin ==
  ASSUME TypeOK, NEW e \in Device, NEW g \in Folder, OnceFor(e, g),
         <<e, g>> \notin doubled', NEW d \in Device, NEW t \in Task,
         Receive(d, t) \/ User(d, t)
  PROVE  OnceFor(e, g)'
<1>b. g \notin orphans[e] /\ Once(folders[e], g)
      /\ (file[e] # Torn => Once(file[e].folders, g))
  BY DEF OnceFor
<1>c. UNCHANGED <<file, orphans>>
  BY DEF Receive, User, ReceiveAnnounce, ReceiveIndex, UserAdds, UserRemoves,
         GuardedChange, UnguardedChange
<1>d. ASSUME NEW k, task' = task \/ task' = [task EXCEPT ![d][t] = k],
             UNCHANGED folders, k.pc # "write",
             task' # task /\ d = e /\ k.pc = "add" /\ k.entry.id = g =>
               ~Known(e, g) /\ Creating(e, g) = {}
      PROVE  OnceFor(e, g)'
  BY <1>b, <1>c, <1>d, OnceQuiet
<1>1. ASSUME NEW c \in Entry, UserAdds(d, t, c) PROVE OnceFor(e, g)'
  <2> DEFINE k == [pc |-> "add", kind |-> "user", entry |-> c]
  <2>1. task' = [task EXCEPT ![d][t] = k] /\ UNCHANGED folders
    BY <1>1 DEF UserAdds, memory
  <2>2. d = e /\ k.entry.id = g => ~Known(e, g) /\ Creating(e, g) = {}
    BY <1>1 DEF UserAdds
  <2>3. k.pc = "add"
    OBVIOUS
  <2> HIDE DEF k
  <2> QED BY <1>d, <2>1, <2>2, <2>3
<1>2. ASSUME NEW msg \in net[d], ReceiveAnnounce(d, t, msg) PROVE OnceFor(e, g)'
  <2> DEFINE k == [pc |-> "add", kind |-> "announce",
                   entry |-> [id |-> msg.id, syncDelete |-> msg.syncDelete,
                              enabled |-> TRUE]]
  <2>1. UNCHANGED folders
    BY <1>2 DEF ReceiveAnnounce, memory
  <2>2. CASE Announced(d, msg.id)
    BY <1>2, <1>c, <2>1, <2>2, OnceFrame DEF ReceiveAnnounce
  <2>3. CASE ~Announced(d, msg.id)
    <3>1. task' = [task EXCEPT ![d][t] = k]
      BY <1>2, <2>3 DEF ReceiveAnnounce
    <3>2. d = e /\ k.entry.id = g => ~Known(e, g) /\ Creating(e, g) = {}
      BY <1>2, <2>3 DEF ReceiveAnnounce, Announced
    <3>3. k.pc = "add"
      OBVIOUS
    <3> HIDE DEF k
    <3> QED BY <1>d, <2>1, <3>1, <3>2, <3>3
  <2> QED BY <2>2, <2>3
<1>3. ASSUME NEW msg \in net[d], ReceiveIndex(d, t, msg) PROVE OnceFor(e, g)'
  <2> DEFINE k == [pc |-> "add", kind |-> "index", entry |-> CreatedByIndex(msg.id)]
  <2>1. UNCHANGED folders
    BY <1>3 DEF ReceiveIndex, memory
  <2>2. CASE msg.id \in watchers[d]
    BY <1>3, <1>c, <2>1, <2>2, OnceFrame DEF ReceiveIndex
  <2>3. CASE msg.id \notin watchers[d]
    <3>1. task' = [task EXCEPT ![d][t] = k]
      BY <1>3, <2>3 DEF ReceiveIndex
    <3>2. d = e /\ k.entry.id = g => ~Known(e, g) /\ Creating(e, g) = {}
      BY <1>3, <2>3 DEF ReceiveIndex, CreatedByIndex
    <3>3. k.pc = "add"
      OBVIOUS
    <3> HIDE DEF k
    <3> QED BY <1>d, <2>1, <3>1, <3>2, <3>3
  <2> QED BY <2>2, <2>3
<1>4. ASSUME NEW h \in Folder, UserRemoves(d, t, h) PROVE OnceFor(e, g)'
  <2> DEFINE k == [pc |-> "save", kind |-> "remove"]
  <2>1. task' = [task EXCEPT ![d][t] = k] /\ k.pc = "save"
    BY <1>4 DEF UserRemoves
  <2> HIDE DEF k
  <2>2. CASE UNCHANGED folders
    BY <1>d, <2>1, <2>2
  <2>3. CASE folders' # folders
    <3>1. PICK i \in DOMAIN folders[d] :
            folders' = [folders EXCEPT ![d] = RemoveAt(@, i)]
      BY <1>4, <2>3 DEF UserRemoves
    <3>2. CASE e # d
      BY <1>c, <2>1, <3>1, <3>2, OnceFrame DEF TypeOK
    <3>3. CASE e = d
      <4>1. /\ folders[e] \in Seq(Entry) /\ folders'[e] = RemoveAt(folders[e], i)
            /\ i \in DOMAIN folders[e]
        BY <3>1, <3>3 DEF TypeOK
      <4>2. /\ i \in Nat
            /\ \A x \in DOMAIN folders'[e] :
                  /\ x \in Nat
                  /\ (IF x < i THEN x ELSE x + 1) \in DOMAIN folders[e]
                  /\ folders'[e][x] = folders[e][IF x < i THEN x ELSE x + 1]
        BY <4>1, RemoveAtElements
      <4>3. Once(folders'[e], g)
        <5> SUFFICES ASSUME NEW x \in DOMAIN folders'[e], NEW y \in DOMAIN folders'[e],
                            folders'[e][x].id = g, folders'[e][y].id = g
                     PROVE  x = y
          BY DEF Once
        <5>1. (IF x < i THEN x ELSE x + 1) = (IF y < i THEN y ELSE y + 1)
          BY <1>b, <4>2 DEF Once
        <5> QED BY <4>2, <5>1
      <4>4. Known(e, g)' => Known(e, g)
        BY <4>2 DEF Known
      <4>5. task'[e][t].pc = "save" /\ \A x \in Task \ {t} : task'[e][x] = task[e][x]
        BY <2>1, <3>3 DEF TypeOK
      <4>6. Creating(e, g)' \subseteq Creating(e, g)
        BY <4>5 DEF Creating
      <4>7. \A x \in Task : task'[e][x].pc = "write" => Once(task'[e][x].data.folders, g)
        BY <4>5 DEF OnceFor
      <4> QED BY <1>b, <1>c, <4>3, <4>4, <4>6, <4>7 DEF OnceFor
    <3> QED BY <3>2, <3>3
  <2> QED BY <2>2, <2>3
<1>5. CASE GuardedChange(d, t) \/ UnguardedChange(d, t)
  <2> DEFINE k == [pc |-> "save", kind |-> "change"]
  <2>1. task' = [task EXCEPT ![d][t] = k] /\ UNCHANGED folders /\ k.pc = "save"
    BY <1>5 DEF GuardedChange, UnguardedChange
  <2> HIDE DEF k
  <2> QED BY <1>d, <2>1
<1> QED BY <1>1, <1>2, <1>3, <1>4, <1>5 DEF Receive, User

LEMMA OnceInvariant == TypeOK /\ OnceInv /\ [Next]_vars => OnceInv'
<1> SUFFICES ASSUME TypeOK, OnceInv, [Next]_vars, NEW e \in Device, NEW g \in Folder,
                    <<e, g>> \notin doubled'
             PROVE  OnceFor(e, g)'
  BY DEF OnceInv
<1>1. doubled \subseteq doubled'
  <2>1. ASSUME NEW d \in Device, NEW t \in Task, Step(d, t) PROVE UNCHANGED doubled
    BY <2>1 DEF Step, Add, StartSave, EndSave, Refresh, SendFolder, TriggerSync,
                history
  <2>2. ASSUME NEW d \in Device, NEW t \in Task, Receive(d, t)
        PROVE  doubled \subseteq doubled'
    BY <2>2 DEF Receive, ReceiveAnnounce, ReceiveIndex
  <2>3. ASSUME NEW d \in Device, NEW t \in Task, User(d, t)
        PROVE  doubled \subseteq doubled'
    BY <2>3 DEF User, UserAdds, UserRemoves, GuardedChange, UnguardedChange, history
  <2>4. ASSUME NEW d \in Device, Restart(d) PROVE UNCHANGED doubled
    BY <2>4 DEF Restart, history
  <2>5. CASE Connect \/ Drop \/ UNCHANGED vars
    BY <2>5 DEF Connect, Drop, vars, history
  <2> QED BY <2>1, <2>2, <2>3, <2>4, <2>5 DEF Next
<1>2. OnceFor(e, g)
  BY <1>1 DEF OnceInv
<1>3. ASSUME NEW d \in Device, NEW t \in Task, Step(d, t) PROVE OnceFor(e, g)'
  BY <1>2, <1>3, OnceStep
<1>4. ASSUME NEW d \in Device, NEW t \in Task, Receive(d, t) \/ User(d, t)
      PROVE  OnceFor(e, g)'
  BY <1>2, <1>4, OnceBegin
<1>5. CASE Connect \/ Drop \/ UNCHANGED vars
  <2>1. UNCHANGED <<folders, file, task, orphans>>
    BY <1>5 DEF Connect, Drop, vars, memory
  <2> QED BY <1>2, <2>1, OnceFrame
<1>6. ASSUME NEW d \in Device, Restart(d) PROVE OnceFor(e, g)'
  <2>1. CASE e # d
    <3>1. UNCHANGED <<folders[e], file[e], task[e], orphans[e]>>
      BY <1>6, <2>1 DEF Restart, TypeOK, memory
    <3> QED BY <1>2, <3>1, OnceFrame
  <2>2. CASE e = d
    <3>1. UNCHANGED file /\ \A x \in Task : task'[e][x].pc = "idle"
      BY <1>6, <2>2 DEF Restart, TypeOK, Idle
    <3>2. Creating(e, g)' = {}
      BY <3>1 DEF Creating
    <3>3. CASE file[d] = Torn
      <4>1. folders'[e] = folders[e] /\ orphans'[e] = {}
        BY <1>6, <2>2, <3>3 DEF Restart, TypeOK, memory
      <4> QED BY <1>2, <3>1, <3>2, <4>1 DEF OnceFor, Once
    <3>4. CASE file[d] # Torn
      <4>1. /\ folders'[e] = file[e].folders
            /\ orphans'[e] = WatchedTwice(file[e].folders)
        BY <1>6, <2>2, <3>4, RestartFolders DEF Restart, TypeOK
      <4>2. Once(file[e].folders, g)
        BY <1>2, <2>2, <3>4 DEF OnceFor
      <4>3. g \notin WatchedTwice(file[e].folders)
        BY <4>2, OnceWatched
      <4> QED BY <3>1, <3>2, <4>1, <4>2, <4>3 DEF OnceFor
    <3> QED BY <3>3, <3>4
  <2> QED BY <2>1, <2>2
<1> QED BY <1>3, <1>4, <1>5, <1>6 DEF Next

LEMMA InitOnce == Init => OnceInv
<1> SUFFICES ASSUME Init, NEW d \in Device, NEW g \in Folder, <<d, g>> \notin doubled
             PROVE  OnceFor(d, g)
  BY DEF OnceInv
<1>1. folders[d] \in Seq(Entry)
  BY InitType DEF TypeOK
<1>2. ~(Cardinality(EntriesOf(folders[d], g)) > 1)
  <2>1. <<d, g>> \in Device \X Folder /\ <<d, g>>[1] = d /\ <<d, g>>[2] = g
    OBVIOUS
  <2> QED BY <2>1 DEF Init
<1>3. Once(folders[d], g)
  BY <1>1, <1>2, OnceCounted
<1>4. g \notin orphans[d]
  BY <1>3, OnceWatched DEF Init
<1>5. file[d].folders = folders[d] /\ \A t \in Task : task[d][t].pc = "idle"
  BY DEF Init, Snapshot, Idle
<1> QED BY <1>3, <1>4, <1>5 DEF OnceFor, Creating

-----------------------------------------------------------------------------
(* Theorems. *)

\* The invariant holds for every number of folders and goroutines.
THEOREM InvHolds == Spec => []Inv
<1>1. Init => Inv
  BY InitType, InitSaved DEF Inv
<1>2. Inv /\ [Next]_vars => Inv'
  BY TypeInvariant, SaveInvariant DEF Inv
<1> QED BY <1>1, <1>2, PTL DEF Spec

\* Every variable keeps its type: no handler builds an entry, a message or a
\* configuration of another form (config.go, handlers.go).
THEOREM TypeCorrect == Spec => []TypeOK
<1>1. Inv => TypeOK
  BY DEF Inv
<1> QED BY <1>1, InvHolds, PTL

\* However saves overlap, once they are over the file holds the configuration
\* in memory, or the one Load made the memory of (config.go Save: RLock is held
\* until os.WriteFile returns; Load replaces zeros and does not save).
THEOREM SavesAreKept == Spec => []FileIsCurrent
<1>1. Inv => FileIsCurrent
  BY DEF Inv, SaveInv, Saved, Current, FileIsCurrent
<1> QED BY <1>1, InvHolds, PTL

\* No message, restart or race sets SyncDelete: a device that deletes for a peer
\* has the folder from a user who asked for it (handlers.go handleFolderAnnounce
\* takes SyncDelete from the sender, handleIndexMessage leaves it out).
THEOREM DeletionIsOptIn == Spec => []DeleteIsOptIn
<1>1. Init => OptInv
  BY InitOptedIn
<1>2. TypeOK /\ OptInv /\ [Next]_vars => OptInv'
  BY OptInvariant
<1>3. OptInv => DeleteIsOptIn
  BY DEF OptInv, FoldersOptedIn, AllOptedIn, OptedIn, DeleteIsOptIn
<1> QED BY <1>1, <1>2, <1>3, TypeCorrect, PTL DEF Spec

\* A folder has one entry and one watcher on a device, through any removals,
\* saves and restarts, unless a creation of it met another or an entry of it
\* (config.go AddFolder and handlers.go do not look for one).
THEOREM FoldersAreSingle == Spec => []ConfiguredOnce
<1>1. Init => OnceInv
  BY InitOnce
<1>2. TypeOK /\ OnceInv /\ [Next]_vars => OnceInv'
  BY OnceInvariant
<1>3. OnceInv => ConfiguredOnce
  BY OnceWatched DEF OnceInv, OnceFor, ConfiguredOnce
<1> QED BY <1>1, <1>2, <1>3, TypeCorrect, PTL DEF Spec

\* However operations overlap, once they are over the map of watchers holds the
\* enabled folders, and no other folder is scanned but one of which two entries
\* met (watchers.go RefreshWatchers runs after every change of folders and
\* stops what its map holds).
THEOREM EnabledAreWatched == Spec => []WatchersAreCurrent
<1>1. Init => MapIsCurrent
  BY DEF Init, MapIsCurrent
<1>2. TypeOK /\ MapIsCurrent /\ [Next]_vars => MapIsCurrent'
  BY WatchersInvariant
<1>3. TypeOK /\ MapIsCurrent /\ ConfiguredOnce => WatchersAreCurrent
  BY DEF TypeOK, MapIsCurrent, ConfiguredOnce, WatchersAreCurrent, Running
<1> QED BY <1>1, <1>2, <1>3, TypeCorrect, FoldersAreSingle, PTL DEF Spec
=============================================================================
