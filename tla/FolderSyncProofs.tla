-------------------------- MODULE FolderSyncProofs --------------------------
(* Proofs about FolderSync: types, that a file nobody deleted is not lost,  *)
(* and that devices whose users take turns neither give up the latest       *)
(* version nor replace another one uncopied, for any number of devices,     *)
(* goroutines and messages under way.                                       *)
EXTENDS FolderSync, TLAPS, FiniteSetTheorems

\* Watchers and versions are numbered within their bounds.
CountInv ==
  /\ edits <= MaxEdits
  /\ \A d \in Device : watcher[d] <= refreshes + restarts
  /\ refreshes + restarts <= MaxFresh

\* What a scan has found agrees with the change it will announce: only a
\* deletion is announced without an entry.  A watcher yet to be made does
\* nothing.
ScanInv ==
  \A d \in Device, g \in Watcher :
    /\ wpc[d][g] \notin {"compared", "notifying"} => change[d][g] = "none"
    /\ change[d][g] \in {"created", "modified"} => found[d][g] # Absent
    /\ wpc[d][g] = "notifying" => change[d][g] # "none"
    /\ g > watcher[d] => wpc[d][g] = "none"

Renames(h) == job[h].pc \in {"removing", "renaming"}

\* A device that is not spoilt receives one file at a time, and the temporary
\* file is there until it is renamed.
AloneInv ==
  \A h \in Job : Renames(h) /\ job[h].at \notin spoiled =>
    /\ tmp[job[h].at] # Absent
    /\ \A k \in Job : Renames(k) /\ job[k].at = job[h].at => k = h

\* A device has the file, or is about to have it again.
HasFile(e) == disk[e] # Absent \/ (Receiving(e) /\ tmp[e] # Absent)

Elsewhere(d) == \E e \in Device : e # d /\ HasFile(e)

\* Until the first restart, a device that replaces the file, or one that was
\* spoilt and is the only one that was, is not the only one that has it.
SurviveInv ==
  deletes = 0 /\ restarts = 0 =>
    \A d \in Device :
      spoiled \subseteq {d} /\ (Receiving(d) \/ d \in spoiled) => Elsewhere(d)

TypeInv == TypeOK /\ CountInv /\ ScanInv

\* No session is lost, no watcher replaced and nothing synchronised by hand.
Undisturbed == MaxFresh = 0 /\ MaxResyncs = 0

\* Every write falls into the conflict window of every other one.
AllInWindow == MaxClock <= ConflictWindow

\* A device has the file, and not as the last edit left it.
Outdated(d) == disk[d] # Absent /\ disk[d].hash # edits

\* Its watchers have seen what it has, and so have nothing to announce.
ScanFits(d) ==
  \A g \in Watcher :
    /\ index[d][g] # Absent /\ index[d][g].hash = disk[d].hash
    /\ wpc[d][g] \in {"walked", "compared"} =>
         found[d][g] # Absent /\ found[d][g].hash = disk[d].hash
    /\ wpc[d][g] # "notifying" /\ change[d][g] = "none"

\* Whoever replaces the file there has compared the announcement with what it
\* has, and under the rename strategy has made a copy of it.
JobsFit(d) ==
  \A h \in Job :
    /\ job[h].pc = "renaming" => job[h].at # d
    /\ job[h].pc = "indexing" /\ job[h].at = d =>
         job[h].entry.hash = disk[d].hash
    /\ job[h].pc = "deciding" /\ job[h].at = d =>
         job[h].local # Absent /\ job[h].local.hash = disk[d].hash
    /\ /\ job[h].pc \in {"requested", "removing"} /\ job[h].at = d
       /\ Strategy = "rename" /\ AllInWindow
       => [at |-> d, hash |-> disk[d].hash] \in copies

\* Nobody asks it for the file.
NotSent(d) ==
  /\ \A m \in BagToSet(msgs) : m.kind = "index" => m.from # d
  /\ \A h \in Job : job[h].pc \in {"deciding", "requested"} => job[h].from # d

OutdatedInv ==
  \A d \in Device : Outdated(d) => ScanFits(d) /\ JobsFit(d) /\ NotSent(d)

\* So every file under way is the last edit's.
SentInv ==
  /\ \A h \in Job : Renames(h) => tmp[job[h].at] \in {edits, Absent}
  /\ latest \in {edits, Absent}
  /\ links = Pairs /\ greet = {}

TurnInv == OutdatedInv /\ SentInv

InTime(e) == e # Absent => e.time <= MaxClock

TimeInv ==
  /\ clock <= MaxClock
  /\ \A d \in Device : InTime(disk[d])
  /\ \A d \in Device, g \in Watcher : InTime(index[d][g]) /\ InTime(found[d][g])
  /\ \A m \in BagToSet(msgs) : InTime(m.entry)
  /\ \A h \in Job :
       /\ job[h].pc = "deciding" => InTime(job[h].local) /\ InTime(job[h].remote)
       /\ job[h].pc = "indexing" => InTime(job[h].entry)

USE DEF fileVars, Renames

-----------------------------------------------------------------------------
(* The operators. *)

\* Adding a message, or one for each peer, and taking one away.
LEMMA BagAddHolds ==
  ASSUME NEW B, IsABag(B), NEW x
  PROVE  IsABag(BagAdd(B, x)) /\ BagToSet(BagAdd(B, x)) = BagToSet(B) \cup {x}
BY DEF IsABag, BagToSet, BagAdd

LEMMA BagRemoveHolds ==
  ASSUME NEW B, IsABag(B), NEW x
  PROVE  IsABag(BagRemove(B, x)) /\ BagToSet(BagRemove(B, x)) \subseteq BagToSet(B)
BY DEF IsABag, BagToSet, BagRemove

LEMMA BagUnionHolds ==
  ASSUME NEW B, IsABag(B), NEW S
  PROVE  /\ IsABag(B (+) SetToBag(S))
         /\ BagToSet(B (+) SetToBag(S)) = BagToSet(B) \cup S
BY DEF IsABag, BagToSet, SetToBag, (+)

LEMMA BagPartHolds ==
  ASSUME NEW B, IsABag(B), NEW S, S \subseteq BagToSet(B)
  PROVE  IsABag([m \in S |-> B[m]]) /\ BagToSet([m \in S |-> B[m]]) = S
BY DEF IsABag, BagToSet

LEMMA NowIsTime == ASSUME clock \in Nat PROVE Now \in Nat
BY DEF Now

\* Connected devices are two.
LEMMA PairsDiffer ==
  ASSUME NEW d, NEW e, {d, e} \in Pairs
  PROVE  d \in Device /\ e \in Device /\ d # e
BY DEF Pairs

LEMMA ChangedHolds ==
  ASSUME NEW old \in Entry \cup {Absent}, NEW new \in Entry \cup {Absent}
  PROVE  /\ Changed(old, new) \in {"none", "created", "modified", "deleted"}
         /\ Changed(old, new) \in {"created", "modified"} => new # Absent
BY DEF Changed

\* What a lost session leaves.
LEMMA DropType ==
  ASSUME TypeOK, NEW lost, Drop(lost)
  PROVE  /\ links' \subseteq Pairs /\ greet' \subseteq Device \X Device
         /\ IsABag(msgs') /\ BagToSet(msgs') \subseteq Message
<1> DEFINE kept == {m \in BagToSet(msgs) : {m.from, m.to} \notin lost}
<1>1. msgs' = [m \in kept |-> msgs[m]] /\ kept \subseteq BagToSet(msgs)
  BY DEF Drop
<1>2. IsABag(msgs') /\ BagToSet(msgs') = kept
  <2> HIDE DEF kept
  <2> QED BY <1>1, BagPartHolds DEF TypeOK
<1>3. links' \subseteq links /\ greet' \subseteq greet
  BY DEF Drop
<1> QED BY <1>1, <1>2, <1>3 DEF TypeOK

-----------------------------------------------------------------------------
(* Types. *)

LEMMA InitType == Init => TypeInv
<1> SUFFICES ASSUME Init PROVE TypeInv
  OBVIOUS
<1>1. 0 \in Version /\ 0 \in Watcher
  BY BoundAssumption DEF Version, Watcher
<1>2. latest \in Version \cup {Absent}
  BY <1>1, VersionAssumption DEF Init
<1>3. disk \in [Device -> Entry \cup {Absent}]
  BY <1>2 DEF Init, Entry
<1>4. IsABag(msgs) /\ BagToSet(msgs) = {}
  BY DEF Init, EmptyBag, SetToBag, IsABag, BagToSet
<1>5. index \in [Device -> [Watcher -> Entry \cup {Absent}]]
  BY <1>3 DEF Init
<1>6. job \in [Job -> JobState]
  BY DEF Init, Idle, JobState
<1>7. TypeOK
  BY <1>1, <1>2, <1>3, <1>4, <1>5, <1>6 DEF Init, TypeOK
<1> QED
  BY <1>7, BoundAssumption DEF Init, TypeInv, CountInv, ScanInv

\* A step of a scan.
LEMMA ScanType ==
  ASSUME TypeInv, NEW d \in Device, NEW g \in Watcher,
         ScanStep(d, g) \/ StopWatcher(d, g)
  PROVE  TypeInv'
<1> USE DEF TypeInv
<1>1. CASE Walk(d, g)
  <2>1. TypeOK'
    BY <1>1 DEF Walk, TypeOK, netVars, historyVars, countVars
  <2>2. CountInv' /\ ScanInv'
    BY <1>1 DEF Walk, TypeOK, CountInv, ScanInv, historyVars, countVars
  <2> QED BY <2>1, <2>2
<1>2. CASE CompareIndex(d, g)
  <2>1. /\ Changed(index[d][g], found[d][g]) \in
             {"none", "created", "modified", "deleted"}
        /\ Changed(index[d][g], found[d][g]) \in {"created", "modified"}
             => found[d][g] # Absent
    <3>1. index[d][g] \in Entry \cup {Absent} /\ found[d][g] \in Entry \cup {Absent}
      BY DEF TypeOK
    <3> QED BY <3>1, ChangedHolds
  <2>2. TypeOK'
    BY <1>2, <2>1 DEF CompareIndex, TypeOK, netVars, historyVars, countVars
  <2>3. CountInv' /\ ScanInv'
    BY <1>2, <2>1 DEF CompareIndex, TypeOK, CountInv, ScanInv, historyVars,
       countVars
  <2> QED BY <2>2, <2>3
<1>3. CASE ReplaceIndex(d, g)
  <2>1. /\ index' \in [Device -> [Watcher -> Entry \cup {Absent}]]
        /\ wpc' = [wpc EXCEPT ![d][g] =
             IF change[d][g] = "none" THEN "idle" ELSE "notifying"]
        /\ found' = [found EXCEPT ![d][g] =
             IF change[d][g] = "none" THEN Absent ELSE found[d][g]]
    BY <1>3 DEF ReplaceIndex, TypeOK
  <2>2. TypeOK'
    BY <1>3, <2>1 DEF ReplaceIndex, TypeOK, netVars, historyVars, countVars
  <2>3. CountInv'
    BY <1>3 DEF ReplaceIndex, CountInv, historyVars, countVars
  <2>4. ScanInv'
    BY <1>3, <2>1 DEF ReplaceIndex, TypeOK, ScanInv
  <2> QED BY <2>2, <2>3, <2>4
<1>4. CASE Notify(d, g)
  <2> DEFINE S == {IF change[d][g] = "deleted" THEN DeleteMsg(d, e)
                   ELSE IndexMsg(d, e, found[d][g]) : e \in Peers(d)}
  <2>1. S \subseteq Message
    <3>1. change[d][g] # "deleted" => found[d][g] \in Entry
      BY <1>4 DEF Notify, ScanInv, TypeOK
    <3>2. Peers(d) \subseteq Device
      BY DEF Peers
    <3> QED BY <3>1, <3>2 DEF Message, DeleteMsg, IndexMsg
  <2>2. msgs' = msgs (+) SetToBag(S)
    BY <1>4 DEF Notify
  <2>3. IsABag(msgs') /\ BagToSet(msgs') \subseteq Message
    <3> HIDE DEF S
    <3>1. /\ IsABag(msgs (+) SetToBag(S))
          /\ BagToSet(msgs (+) SetToBag(S)) = BagToSet(msgs) \cup S
      BY BagUnionHolds DEF TypeOK
    <3> QED BY <2>1, <2>2, <3>1 DEF TypeOK
  <2>4. /\ wpc' = [wpc EXCEPT ![d][g] = "idle"]
        /\ found' = [found EXCEPT ![d][g] = Absent]
        /\ change' = [change EXCEPT ![d][g] = "none"]
        /\ UNCHANGED <<fileVars, watcher, index, links, greet, job, copies,
                       historyVars>>
    BY <1>4 DEF Notify
  <2>5. TypeOK'
    BY <2>3, <2>4 DEF TypeOK, historyVars, countVars
  <2>6. CountInv'
    BY <2>4 DEF CountInv, historyVars, countVars
  <2>7. ScanInv'
    <3>1. wpc[d][g] = "notifying" /\ watcher' = watcher
      BY <1>4, <2>4 DEF Notify
    <3>2. \A f \in Device, k \in Watcher :
            IF f = d /\ k = g
              THEN wpc'[f][k] = "idle" /\ change'[f][k] = "none"
              ELSE UNCHANGED <<wpc[f][k], change[f][k], found[f][k]>>
      BY <2>4 DEF TypeOK
    <3> QED BY <3>1, <3>2 DEF ScanInv
  <2> QED BY <2>5, <2>6, <2>7
<1>5. CASE StopWatcher(d, g)
  <2>1. TypeOK'
    BY <1>5 DEF StopWatcher, TypeOK, netVars, historyVars, countVars
  <2>2. CountInv' /\ ScanInv'
    BY <1>5 DEF StopWatcher, TypeOK, CountInv, ScanInv, historyVars, countVars
  <2> QED BY <2>1, <2>2
<1> QED
  BY <1>1, <1>2, <1>3, <1>4, <1>5 DEF ScanStep

\* Scans and counters are none of a step's concern.
LEMMA CountScanFrame ==
  ASSUME TypeInv, UNCHANGED <<watcher, wpc, found, change, edits, refreshes, restarts>>
  PROVE  CountInv' /\ ScanInv'
BY DEF TypeInv, CountInv, ScanInv

\* The places a goroutine may be in.
LEMMA JobPlace ==
  ASSUME TypeOK, NEW h \in Job
  PROVE  /\ job[h].pc = "deciding" =>
              /\ job[h].at \in Device /\ job[h].from \in Device
              /\ job[h].remote \in Entry /\ job[h].local \in Entry \cup {Absent}
              /\ job[h].watcher \in Watcher
         /\ job[h].pc = "requested" =>
              job[h].at \in Device /\ job[h].from \in Device
         /\ Renames(h) =>
              job[h] = [pc |-> job[h].pc, at |-> job[h].at, tries |-> job[h].tries]
              /\ job[h].at \in Device /\ job[h].tries \in Nat
         /\ job[h].pc = "hashing" => job[h].at \in Device
         /\ job[h].pc = "indexing" =>
              /\ job[h].at \in Device /\ job[h].entry \in Entry
              /\ job[h].watcher \in Watcher
BY DEF TypeOK, JobState

\* After a failed attempt.
LEMMA RetryType ==
  ASSUME TypeOK, NEW h \in Job, Renames(h), Retry(h)
  PROVE  /\ job' \in [Job -> JobState] /\ spoiled' \subseteq Device
         /\ \A k \in Job : k # h => job'[k] = job[k]
         /\ \/ job'[h].pc = "idle" /\ spoiled' = spoiled \cup {job[h].at}
            \/ /\ job'[h].pc = "hashing" /\ job'[h].at = job[h].at
               /\ spoiled' = spoiled \cup {job[h].at}
            \/ /\ job'[h].pc = "removing" /\ job'[h].at = job[h].at
               /\ spoiled' = spoiled
<1> DEFINE d == job[h].at  tried == job[h].tries + 1
<1>1. d \in Device /\ tried \in Nat /\ spoiled \subseteq Device
  BY JobPlace DEF TypeOK
<1>2. /\ Idle \in JobState /\ [pc |-> "hashing", at |-> d] \in JobState
      /\ [pc |-> "removing", at |-> d, tries |-> tried] \in JobState
  BY <1>1 DEF Idle, JobState
<1>3. \/ /\ job' = [job EXCEPT ![h] = [pc |-> "removing", at |-> d, tries |-> tried]]
         /\ spoiled' = spoiled
      \/ job' = [job EXCEPT ![h] = Idle] /\ spoiled' = spoiled \cup {d}
      \/ /\ job' = [job EXCEPT ![h] = [pc |-> "hashing", at |-> d]]
         /\ spoiled' = spoiled \cup {d}
  BY DEF Retry
<1> HIDE DEF d, tried
<1>4. job' \in [Job -> JobState] /\ spoiled' \subseteq Device
  <2> HIDE DEF Idle
  <2> QED BY <1>1, <1>2, <1>3 DEF TypeOK
<1>5. \A k \in Job : k # h => job'[k] = job[k]
  BY <1>3 DEF TypeOK
<1>6. CASE job' = [job EXCEPT ![h] = [pc |-> "removing", at |-> d, tries |-> tried]]
           /\ spoiled' = spoiled
  BY <1>4, <1>5, <1>6 DEF TypeOK, d
<1>7. CASE job' = [job EXCEPT ![h] = Idle] /\ spoiled' = spoiled \cup {d}
  BY <1>4, <1>5, <1>7 DEF TypeOK, Idle, d
<1>8. CASE job' = [job EXCEPT ![h] = [pc |-> "hashing", at |-> d]]
           /\ spoiled' = spoiled \cup {d}
  BY <1>4, <1>5, <1>8 DEF TypeOK, d
<1> QED BY <1>3, <1>6, <1>7, <1>8

\* What a failed attempt leaves as it was.
LEMMA FailFrame ==
  ASSUME NEW h, FileLocked(h) \/ TempGone(h)
  PROVE  /\ UNCHANGED <<disk, clock, tmp, watcher, index, wpc, found, change, links,
                         greet, msgs, copies, latest, blind, edits, deletes,
                         refreshes, restarts, disconnects, triggers>>
         /\ Retry(h) /\ Renames(h)
BY DEF FileLocked, TempGone, scanVars, netVars, countVars

\* A step of a goroutine, or a file that is locked.
LEMMA JobType ==
  ASSUME TypeInv, NEW h \in Job, JobStep(h) \/ FileLocked(h)
  PROVE  TypeInv'
<1> USE DEF TypeInv
<1>a. Idle \in JobState
  BY DEF Idle, JobState
<1>b. CountInv' /\ ScanInv'
  <2>1. UNCHANGED <<watcher, wpc, found, change, edits, refreshes, restarts>>
    BY FailFrame DEF JobStep, AlreadyHave, Decide, Fetch, RemoveDest, RenameTemp,
       HashDest, UpdateFile, scanVars, historyVars, countVars
  <2> QED BY <2>1, CountScanFrame
<1>1. CASE AlreadyHave(h)
  <2>1. job[h].at \in Device /\ job[h].watcher \in Watcher
    BY <1>1, JobPlace DEF AlreadyHave
  <2>2. index' \in [Device -> [Watcher -> Entry \cup {Absent}]]
    <3>1. \/ index' = index
          \/ index' = [index EXCEPT ![job[h].at][job[h].watcher] = disk[job[h].at]]
      BY <1>1 DEF AlreadyHave
    <3>2. disk[job[h].at] \in Entry \cup {Absent}
      BY <2>1 DEF TypeOK
    <3>3. CASE index' = index
      BY <3>3 DEF TypeOK
    <3>4. CASE index' = [index EXCEPT ![job[h].at][job[h].watcher] = disk[job[h].at]]
      <4> DEFINE a == job[h].at  w == job[h].watcher  e == disk[job[h].at]
      <4>1. a \in Device /\ w \in Watcher /\ e \in Entry \cup {Absent}
        BY <2>1, <3>2
      <4> HIDE DEF a, w, e
      <4>2. index' = [index EXCEPT ![a][w] = e]
        BY <3>4 DEF a, w, e
      <4> QED BY <4>1, <4>2 DEF TypeOK
    <3> QED BY <3>1, <3>3, <3>4
  <2>3. job' \in [Job -> JobState]
    BY <1>1, <1>a DEF AlreadyHave, TypeOK
  <2>4. TypeOK'
    BY <1>1, <2>2, <2>3 DEF AlreadyHave, TypeOK, netVars, historyVars, countVars
  <2> QED BY <1>b, <2>4
<1>2. CASE Decide(h)
  <2>1. job[h].at \in Device /\ job[h].from \in Device
    BY <1>2, JobPlace DEF Decide
  <2>2. copies' \subseteq [at : Device, hash : Version]
    <3>1. \/ copies' = copies
          \/ /\ disk[job[h].at] # Absent
             /\ copies' = copies \cup {[at |-> job[h].at, hash |-> disk[job[h].at].hash]}
      BY <1>2 DEF Decide, NeedsCopy
    <3>2. disk[job[h].at] # Absent => disk[job[h].at].hash \in Version
      BY <2>1 DEF TypeOK, Entry
    <3> QED BY <2>1, <3>1, <3>2 DEF TypeOK
  <2>3. job' \in [Job -> JobState]
    <3>1. [pc |-> "requested", at |-> job[h].at, from |-> job[h].from] \in JobState
      BY <2>1 DEF JobState
    <3>2. job' = [job EXCEPT ![h] =
             IF NeedSync(job[h].local, job[h].remote)
             THEN [pc |-> "requested", at |-> job[h].at, from |-> job[h].from]
             ELSE Idle]
      BY <1>2 DEF Decide
    <3> HIDE DEF Idle
    <3> QED BY <1>a, <3>1, <3>2 DEF TypeOK
  <2>4. /\ UNCHANGED <<fileVars, scanVars, netVars, latest, spoiled, countVars>>
        /\ blind' \in BOOLEAN
    BY <1>2 DEF Decide, TypeOK
  <2>5. TypeOK'
    BY <2>2, <2>3, <2>4 DEF TypeOK, scanVars, netVars, countVars
  <2> QED BY <1>b, <2>5
<1>3. CASE Fetch(h)
  <2>1. job[h].at \in Device /\ job[h].from \in Device
    BY <1>3, JobPlace DEF Fetch
  <2>2. job' \in [Job -> JobState]
    <3>1. [pc |-> "removing", at |-> job[h].at, tries |-> 0] \in JobState
      BY <2>1 DEF JobState
    <3>2. \/ job' = [job EXCEPT ![h] = Idle]
          \/ job' = [job EXCEPT ![h] =
                       [pc |-> "removing", at |-> job[h].at, tries |-> 0]]
      BY <1>3 DEF Fetch
    <3> HIDE DEF Idle
    <3> QED BY <1>a, <3>1, <3>2 DEF TypeOK
  <2>3. tmp' \in [Device -> Version \cup {Absent}] /\ spoiled' \subseteq Device
    <3>1. \/ UNCHANGED <<tmp, spoiled>>
          \/ /\ disk[job[h].from] # Absent
             /\ tmp' = [tmp EXCEPT ![job[h].at] = disk[job[h].from].hash]
             /\ spoiled' \in {spoiled, spoiled \cup {job[h].at}}
      BY <1>3 DEF Fetch
    <3>2. disk[job[h].from] # Absent => disk[job[h].from].hash \in Version
      BY <2>1 DEF TypeOK, Entry
    <3> QED BY <2>1, <3>1, <3>2 DEF TypeOK
  <2>4. UNCHANGED <<disk, clock, locks, scanVars, netVars, copies, latest, blind,
                    countVars>>
    BY <1>3 DEF Fetch
  <2>5. TypeOK'
    BY <2>2, <2>3, <2>4 DEF TypeOK, scanVars, netVars, countVars
  <2> QED BY <1>b, <2>5
<1>4. CASE RemoveDest(h)
  <2>1. /\ job[h] = [pc |-> "removing", at |-> job[h].at, tries |-> job[h].tries]
        /\ job[h].at \in Device /\ job[h].tries \in Nat
    BY <1>4, JobPlace DEF RemoveDest
  <2>2. job' = [job EXCEPT ![h] =
          [pc |-> "renaming", at |-> job[h].at, tries |-> job[h].tries]]
    <3>1. [job[h] EXCEPT !.pc = "renaming"] =
            [pc |-> "renaming", at |-> job[h].at, tries |-> job[h].tries]
      BY <2>1
    <3> QED BY <1>4, <3>1 DEF RemoveDest
  <2>3. job' \in [Job -> JobState] /\ disk' \in [Device -> Entry \cup {Absent}]
    <3>1. [pc |-> "renaming", at |-> job[h].at, tries |-> job[h].tries] \in JobState
      BY <2>1 DEF JobState
    <3>2. job' \in [Job -> JobState]
      BY <2>2, <3>1 DEF TypeOK
    <3>3. disk' \in [Device -> Entry \cup {Absent}]
      BY <1>4, <2>1 DEF RemoveDest, TypeOK
    <3> QED BY <3>2, <3>3
  <2>4. TypeOK'
    BY <1>4, <2>3 DEF RemoveDest, TypeOK, scanVars, netVars, historyVars, countVars
  <2> QED BY <1>b, <2>4
<1>5. CASE RenameTemp(h)
  <2>1. job[h].at \in Device /\ tmp[job[h].at] \in Version /\ Now \in Nat
    BY <1>5, JobPlace, NowIsTime DEF RenameTemp, TypeOK
  <2>2. /\ job' \in [Job -> JobState] /\ disk' \in [Device -> Entry \cup {Absent}]
        /\ tmp' \in [Device -> Version \cup {Absent}]
    BY <1>5, <2>1 DEF RenameTemp, TypeOK, JobState, Entry
  <2>3. TypeOK'
    BY <1>5, <2>1, <2>2 DEF RenameTemp, TypeOK, scanVars, netVars, historyVars, countVars
  <2> QED BY <1>b, <2>3
<1>6. CASE HashDest(h)
  <2>1. job[h].at \in Device
    BY <1>6, JobPlace DEF HashDest
  <2>2. job' \in [Job -> JobState]
    <3>1. disk[job[h].at] # Absent =>
            [pc |-> "indexing", at |-> job[h].at, entry |-> disk[job[h].at],
             watcher |-> watcher[job[h].at]] \in JobState
      BY <2>1 DEF JobState, TypeOK
    <3>2. job' = [job EXCEPT ![h] =
             IF disk[job[h].at] = Absent THEN Idle
             ELSE [pc |-> "indexing", at |-> job[h].at, entry |-> disk[job[h].at],
                   watcher |-> watcher[job[h].at]]]
      BY <1>6 DEF HashDest
    <3> QED BY <1>a, <3>1, <3>2 DEF TypeOK
  <2>3. TypeOK'
    BY <1>6, <2>2 DEF HashDest, TypeOK, scanVars, netVars, historyVars, countVars
  <2> QED BY <1>b, <2>3
<1>7. CASE UpdateFile(h)
  <2>1. /\ job[h].at \in Device /\ job[h].entry \in Entry
        /\ job[h].watcher \in Watcher
    BY <1>7, JobPlace DEF UpdateFile
  <2>2. index' \in [Device -> [Watcher -> Entry \cup {Absent}]]
    BY <1>7, <2>1 DEF UpdateFile, TypeOK
  <2>3. TypeOK'
    BY <1>7, <1>a, <2>2 DEF UpdateFile, TypeOK, netVars, historyVars, countVars
  <2> QED BY <1>b, <2>3
<1>8. CASE FileLocked(h) \/ TempGone(h)
  <2>1. job' \in [Job -> JobState] /\ spoiled' \subseteq Device
    BY <1>8, FailFrame, RetryType
  <2>2. locks' \in {locks, locks + 1}
    BY <1>8 DEF FileLocked, TempGone
  <2>3. UNCHANGED <<disk, clock, tmp, watcher, index, wpc, found, change, links,
                    greet, msgs, copies, latest, blind, edits, deletes,
                    refreshes, restarts, disconnects, triggers>>
    BY <1>8, FailFrame
  <2>4. TypeOK'
    BY <2>1, <2>2, <2>3 DEF TypeOK
  <2> QED BY <1>b, <2>4
<1> QED
  BY <1>1, <1>2, <1>3, <1>4, <1>5, <1>6, <1>7, <1>8 DEF JobStep

\* A message arrives.
LEMMA MessageType ==
  ASSUME TypeInv, TakeMessage
  PROVE  TypeInv'
<1> USE DEF TypeInv
<1>1. PICK m \in BagToSet(msgs) : HandleDelete(m) \/ \E h \in Job : TakeIndex(h, m)
  BY DEF TakeMessage
<1>2. m \in Message
  BY DEF TypeOK
<1>3. IsABag(BagRemove(msgs, m)) /\ BagToSet(BagRemove(msgs, m)) \subseteq Message
  <2>1. /\ IsABag(BagRemove(msgs, m))
        /\ BagToSet(BagRemove(msgs, m)) \subseteq BagToSet(msgs)
    BY BagRemoveHolds DEF TypeOK
  <2> QED BY <2>1 DEF TypeOK
<1>4. CASE HandleDelete(m)
  <2>1. disk' \in [Device -> Entry \cup {Absent}]
    BY <1>4 DEF HandleDelete, TypeOK
  <2>2. TypeOK'
    BY <1>3, <1>4, <2>1 DEF HandleDelete, TypeOK, scanVars, historyVars, countVars
  <2>3. CountInv' /\ ScanInv'
    BY <1>4, CountScanFrame DEF HandleDelete, scanVars, historyVars, countVars
  <2> QED BY <2>2, <2>3
<1>5. ASSUME NEW h \in Job, TakeIndex(h, m) PROVE TypeInv'
  <2>1. m.to \in Device /\ m.from \in Device /\ m.entry \in Entry
    BY <1>2, <1>5 DEF TakeIndex, Message
  <2>2. /\ CurrentIndex(m.to) \in Entry \cup {Absent}
        /\ watcher[m.to] \in Watcher
    BY <2>1 DEF TypeOK, CurrentIndex
  <2> DEFINE j == [pc |-> "deciding", at |-> m.to, from |-> m.from,
                   remote |-> m.entry, local |-> CurrentIndex(m.to),
                   watcher |-> watcher[m.to]]
  <2>3. j \in JobState
    BY <2>1, <2>2 DEF JobState
  <2>4. job' = [job EXCEPT ![h] = j]
    BY <1>5 DEF TakeIndex
  <2>5. job' \in [Job -> JobState]
    <3> HIDE DEF j
    <3> QED BY <2>3, <2>4 DEF TypeOK
  <2>6. TypeOK'
    BY <1>3, <1>5, <2>5 DEF TakeIndex, TypeOK, scanVars, historyVars, countVars
  <2>7. CountInv' /\ ScanInv'
    BY <1>5, CountScanFrame DEF TakeIndex, scanVars, historyVars, countVars
  <2> QED BY <2>6, <2>7
<1> QED BY <1>1, <1>4, <1>5

\* Sessions come and go, indexes are sent, folders are synchronised by hand.
LEMMA NetType ==
  ASSUME TypeInv, NEW d \in Device, NEW e \in Device,
         \/ Connect(d, e) \/ SendFullIndex(d, e) \/ Disconnect(d, e)
         \/ TriggerSync(d)
  PROVE  TypeInv'
<1> USE DEF TypeInv
<1>b. CountInv' /\ ScanInv'
  <2>1. UNCHANGED <<watcher, wpc, found, change, edits, refreshes, restarts>>
    BY DEF Connect, SendFullIndex, Disconnect, TriggerSync, scanVars,
       historyVars, countVars
  <2> QED BY <2>1, CountScanFrame
<1>1. CASE Connect(d, e)
  <2>1. links' \subseteq Pairs /\ greet' \subseteq Device \X Device
    <3>1. links' = links \cup {{d, e}} /\ {d, e} \in Pairs
      BY <1>1 DEF Connect
    <3>2. greet' = greet \cup {<<d, e>>, <<e, d>>}
      BY <1>1 DEF Connect
    <3>3. links \subseteq Pairs /\ greet \subseteq Device \X Device
      BY DEF TypeOK
    <3>4. links' \subseteq Pairs
      BY <3>1, <3>3
    <3>5. greet' \subseteq Device \X Device
      BY <3>2, <3>3
    <3> QED BY <3>4, <3>5
  <2>2. UNCHANGED <<fileVars, scanVars, msgs, job, copies, historyVars>>
    BY <1>1 DEF Connect
  <2>3. TypeOK'
    BY <2>1, <2>2 DEF TypeOK, scanVars, historyVars, countVars
  <2> QED BY <1>b, <2>3
<1>2. CASE SendFullIndex(d, e)
  <2> DEFINE m == IndexMsg(d, e, CurrentIndex(d))
  <2>1. CurrentIndex(d) \in Entry \cup {Absent}
    BY DEF TypeOK, CurrentIndex
  <2>2. CurrentIndex(d) # Absent => m \in Message
    BY <2>1 DEF IndexMsg, Message
  <2>3. msgs' = IF CurrentIndex(d) = Absent THEN msgs ELSE BagAdd(msgs, m)
    BY <1>2 DEF SendFullIndex
  <2> HIDE DEF m
  <2>4. IsABag(msgs') /\ BagToSet(msgs') \subseteq Message
    <3>1. IsABag(msgs) /\ BagToSet(msgs) \subseteq Message
      BY DEF TypeOK
    <3>2. /\ IsABag(BagAdd(msgs, m))
          /\ BagToSet(BagAdd(msgs, m)) = BagToSet(msgs) \cup {m}
      BY <3>1, BagAddHolds
    <3> QED BY <2>2, <2>3, <3>1, <3>2
  <2>5. TypeOK'
    BY <1>2, <2>4 DEF SendFullIndex, TypeOK, scanVars, historyVars, countVars
  <2> QED BY <1>b, <2>5
<1>3. CASE Disconnect(d, e)
  <2>1. /\ links' \subseteq Pairs /\ greet' \subseteq Device \X Device
        /\ IsABag(msgs') /\ BagToSet(msgs') \subseteq Message
    BY <1>3, DropType DEF Disconnect
  <2>2. job' \in [Job -> JobState]
    <3>1. \A h \in Job : job'[h] \in {Idle, job[h]}
      BY <1>3 DEF Disconnect
    <3>2. job' = [h \in Job |-> job'[h]]
      BY <1>3 DEF Disconnect
    <3>3. \A h \in Job : job'[h] \in JobState
      BY <3>1 DEF Idle, JobState, TypeOK
    <3> QED BY <3>2, <3>3
  <2>3. TypeOK'
    <3>1. /\ UNCHANGED <<fileVars, scanVars, copies, latest, spoiled, blind, edits,
                         deletes, refreshes, restarts, triggers>>
          /\ disconnects' = disconnects + 1
      BY <1>3 DEF Disconnect
    <3> QED BY <2>1, <2>2, <3>1 DEF TypeOK, scanVars
  <2> QED BY <1>b, <2>3
<1>4. CASE TriggerSync(d)
  <2>1. {d} \X Peers(d) \subseteq Device \X Device
    BY DEF Peers
  <2>2. TypeOK'
    BY <1>4, <2>1 DEF TriggerSync, TypeOK, scanVars
  <2> QED BY <1>b, <2>2
<1> QED BY <1>1, <1>2, <1>3, <1>4

\* Users write and delete.
LEMMA UserType ==
  ASSUME TypeInv, NEW d \in Device, Edit(d) \/ Delete(d)
  PROVE  TypeInv'
<1> USE DEF TypeInv
<1>1. CASE Edit(d)
  <2>1. edits + 1 \in Version /\ edits' \in Nat /\ edits' <= MaxEdits
    BY <1>1, BoundAssumption DEF Edit, TypeOK, Version
  <2>2. Now \in Nat
    BY NowIsTime DEF TypeOK
  <2>3. disk' \in [Device -> Entry \cup {Absent}]
    BY <1>1, <2>1, <2>2 DEF Edit, TypeOK, Entry
  <2>4. TypeOK'
    BY <1>1, <2>1, <2>2, <2>3 DEF Edit, TypeOK, scanVars, netVars
  <2>5. CountInv' /\ ScanInv'
    BY <1>1, <2>1 DEF Edit, CountInv, ScanInv, scanVars
  <2> QED BY <2>4, <2>5
<1>2. CASE Delete(d)
  <2>1. TypeOK'
    BY <1>2 DEF Delete, TypeOK, scanVars, netVars
  <2>2. CountInv' /\ ScanInv'
    BY <1>2, CountScanFrame DEF Delete, scanVars
  <2> QED BY <2>1, <2>2
<1> QED BY <1>1, <1>2

\* A new watcher, or a device that stops and starts again.
LEMMA FreshType ==
  ASSUME TypeInv, NEW d \in Device, RefreshWatchers(d) \/ Restart(d)
  PROVE  TypeInv'
<1> USE DEF TypeInv
<1>a. watcher[d] \in Nat /\ watcher[d] + 1 \in Watcher
  <2>1. watcher[d] \in Nat /\ refreshes \in Nat /\ restarts \in Nat
    BY BoundAssumption DEF TypeOK, Watcher
  <2>2. watcher[d] + 1 <= MaxFresh
    BY <2>1, BoundAssumption DEF RefreshWatchers, Restart, CountInv
  <2> QED BY <2>1, <2>2, BoundAssumption DEF Watcher
<1>b. CountInv'
  <2>1. /\ edits' = edits /\ refreshes' + restarts' = refreshes + restarts + 1
        /\ refreshes + restarts < MaxFresh
        /\ watcher' = [watcher EXCEPT ![d] = @ + 1]
    <3>1. refreshes \in Nat /\ restarts \in Nat
      BY DEF TypeOK
    <3>2. CASE RefreshWatchers(d)
      BY <3>1, <3>2 DEF RefreshWatchers
    <3>3. CASE Restart(d)
      BY <3>1, <3>3 DEF Restart
    <3> QED BY <3>2, <3>3
  <2>2. \A f \in Device : watcher[f] \in Nat
    BY BoundAssumption DEF TypeOK, Watcher
  <2>3. \A f \in Device : watcher'[f] <= refreshes' + restarts'
    <3> TAKE f \in Device
    <3>1. watcher'[f] \in {watcher[f], watcher[f] + 1} /\ watcher[f] <= refreshes + restarts
      BY <2>1 DEF TypeOK, CountInv
    <3> QED BY <2>1, <2>2, <3>1 DEF TypeOK
  <2>4. edits' <= MaxEdits /\ refreshes' + restarts' <= MaxFresh
    BY <2>1, BoundAssumption DEF TypeOK, CountInv
  <2> QED BY <2>3, <2>4 DEF CountInv
<1>1. CASE RefreshWatchers(d)
  <2>1. TypeOK'
    BY <1>1, <1>a DEF RefreshWatchers, TypeOK, netVars
  <2>2. ScanInv'
    <3>1. /\ wpc' = [wpc EXCEPT ![d][watcher[d] + 1] = "idle"]
          /\ UNCHANGED <<found, change>>
      BY <1>1 DEF RefreshWatchers
    <3>2. /\ \A f \in Device, g \in Watcher :
               wpc'[f][g] = IF f = d /\ g = watcher[d] + 1 THEN "idle" ELSE wpc[f][g]
          /\ \A f \in Device :
               watcher'[f] = IF f = d THEN watcher[d] + 1 ELSE watcher[f]
          /\ Watcher \subseteq Nat
      BY <1>1, <1>a, <3>1, BoundAssumption DEF RefreshWatchers, TypeOK, Watcher
    <3>3. wpc[d][watcher[d] + 1] = "none"
      BY <1>a DEF ScanInv
    <3>4. ASSUME NEW f \in Device, NEW g \in Watcher, g > watcher'[f]
          PROVE  wpc'[f][g] = "none"
      <4>1. g > watcher[f] /\ ~(f = d /\ g = watcher[d] + 1)
        BY <1>a, <3>2, <3>4
      <4> QED BY <3>2, <4>1 DEF ScanInv
    <3> QED BY <3>1, <3>2, <3>3, <3>4 DEF ScanInv
  <2> QED BY <1>b, <2>1, <2>2
<1>2. CASE Restart(d)
  <2> DEFINE lost == {p \in links : d \in p}
  <2>1. /\ links' \subseteq Pairs /\ greet' \subseteq Device \X Device
        /\ IsABag(msgs') /\ BagToSet(msgs') \subseteq Message
    BY <1>2, DropType DEF Restart
  <2>2. job' \in [Job -> JobState]
    <3>1. \A h \in Job : job'[h] \in {Idle, job[h]}
      BY <1>2 DEF Restart
    <3>2. job' = [h \in Job |-> job'[h]]
      BY <1>2 DEF Restart
    <3>3. \A h \in Job : job'[h] \in JobState
      BY <3>1 DEF Idle, JobState, TypeOK
    <3> QED BY <3>2, <3>3
  <2> DEFINE places == [g \in Watcher |->
               CASE g <= watcher[d]    -> "stopped"
                 [] g = watcher[d] + 1 -> "idle"
                 [] OTHER              -> "none"]
  <2>3. \A g \in Watcher : places[g] \in {"stopped", "idle", "none"}
    OBVIOUS
  <2>4. wpc' = [wpc EXCEPT ![d] = places]
    BY <1>2 DEF Restart
  <2>5. places \in [Watcher -> {"none", "stopped", "idle", "walked", "compared",
                               "notifying"}]
    BY <2>3
  <2> HIDE DEF places
  <2>6. /\ wpc' \in [Device -> [Watcher -> {"none", "stopped", "idle", "walked",
                                          "compared", "notifying"}]]
        /\ found' \in [Device -> [Watcher -> Entry \cup {Absent}]]
        /\ change' \in [Device -> [Watcher -> {"none", "created", "modified",
                                              "deleted"}]]
        /\ index' \in [Device -> [Watcher -> Entry \cup {Absent}]]
        /\ watcher' \in [Device -> Watcher]
    BY <1>2, <1>a, <2>4, <2>5 DEF Restart, TypeOK
  <2>7. TypeOK'
    <3>1. /\ UNCHANGED <<fileVars, copies, latest, spoiled, blind, edits, deletes,
                         refreshes, disconnects, triggers>>
          /\ restarts' = restarts + 1
      BY <1>2 DEF Restart
    <3> QED BY <2>1, <2>2, <2>6, <3>1 DEF TypeOK
  <2>8. ScanInv'
    <3>1. \A f \in Device, g \in Watcher :
            IF f = d
              THEN wpc'[f][g] = places[g] /\ change'[f][g] = "none"
              ELSE UNCHANGED <<wpc[f][g], change[f][g], found[f][g]>>
      BY <1>2, <2>4 DEF Restart, TypeOK
    <3>2. \A f \in Device :
            watcher'[f] = IF f = d THEN watcher[d] + 1 ELSE watcher[f]
      BY <1>2 DEF Restart, TypeOK
    <3>3. ASSUME NEW g \in Watcher, g > watcher[d] + 1 PROVE places[g] = "none"
      <4>1. g \in Nat /\ watcher[d] \in Nat
        BY <1>a, BoundAssumption DEF Watcher
      <4>2. ~(g <= watcher[d]) /\ g # watcher[d] + 1
        BY <3>3, <4>1
      <4> QED BY <4>2 DEF places
    <3> QED BY <2>3, <3>1, <3>2, <3>3 DEF ScanInv
  <2> QED BY <1>b, <2>7, <2>8
<1> QED BY <1>1, <1>2

\* No scan, message, transfer, lost session or user leaves the types.
LEMMA TypeStep == TypeInv /\ [Next]_vars => TypeInv'
<1> SUFFICES ASSUME TypeInv, [Next]_vars PROVE TypeInv'
  OBVIOUS
<1>1. ASSUME NEW d \in Device, NEW g \in Watcher, ScanStep(d, g) \/ StopWatcher(d, g)
      PROVE  TypeInv'
  BY <1>1, ScanType
<1>2. ASSUME NEW h \in Job, JobStep(h) \/ FileLocked(h) PROVE TypeInv'
  BY <1>2, JobType
<1>3. CASE TakeMessage
  BY <1>3, MessageType
<1>4. ASSUME NEW d \in Device, NEW e \in Device,
             \/ Connect(d, e) \/ SendFullIndex(d, e) \/ Disconnect(d, e)
             \/ TriggerSync(d)
      PROVE  TypeInv'
  BY <1>4, NetType
<1>5. ASSUME NEW d \in Device, Edit(d) \/ Delete(d) PROVE TypeInv'
  BY <1>5, UserType
<1>6. ASSUME NEW d \in Device, RefreshWatchers(d) \/ Restart(d) PROVE TypeInv'
  BY <1>6, FreshType
<1>7. CASE UNCHANGED vars
  <2>1. TypeOK'
    BY <1>7 DEF vars, TypeInv, TypeOK, scanVars, netVars, historyVars, countVars
  <2>2. CountInv' /\ ScanInv'
    BY <1>7, CountScanFrame DEF vars, scanVars, historyVars, countVars
  <2> QED BY <2>1, <2>2 DEF TypeInv
<1>8. Editors \subseteq Device
  BY DeviceAssumption
<1> QED
  BY <1>1, <1>2, <1>3, <1>4, <1>5, <1>6, <1>7, <1>8 DEF Next, Environment

-----------------------------------------------------------------------------
(* The file is never gone from everywhere. *)

\* Between them these steps are all but those of a transfer and a restart.
Aside(h) ==
  \/ AlreadyHave(h) \/ Decide(h) \/ HashDest(h) \/ UpdateFile(h)
  \/ \E m \in BagToSet(msgs) : TakeIndex(h, m)

\* A goroutine that is not about to rename a file does not begin to by these.
LEMMA AsideFrame ==
  ASSUME TypeOK, NEW h \in Job, Aside(h)
  PROVE  /\ UNCHANGED <<disk, tmp, spoiled, deletes, restarts>>
         /\ \A k \in Job : k # h => job'[k] = job[k]
         /\ ~Renames(h) /\ ~Renames(h)'
<1>1. CASE AlreadyHave(h) \/ Decide(h) \/ HashDest(h) \/ UpdateFile(h)
  <2>1. UNCHANGED <<disk, tmp, spoiled, deletes, restarts>>
    BY <1>1 DEF AlreadyHave, Decide, HashDest, UpdateFile, historyVars, countVars
  <2>2. /\ job[h].pc \in {"deciding", "hashing", "indexing"}
        /\ job'[h].pc \in {"idle", "requested", "indexing"}
        /\ \A k \in Job : k # h => job'[k] = job[k]
    BY <1>1 DEF AlreadyHave, Decide, HashDest, UpdateFile, TypeOK, Idle
  <2> QED BY <2>1, <2>2
<1>2. ASSUME NEW m \in BagToSet(msgs), TakeIndex(h, m)
      PROVE  /\ UNCHANGED <<disk, tmp, spoiled, deletes, restarts>>
             /\ \A k \in Job : k # h => job'[k] = job[k]
             /\ ~Renames(h) /\ ~Renames(h)'
  <2>1. UNCHANGED <<disk, tmp, spoiled, deletes, restarts>>
    BY <1>2 DEF TakeIndex, historyVars, countVars
  <2>2. /\ job[h].pc = "idle" /\ job'[h].pc = "deciding"
        /\ \A k \in Job : k # h => job'[k] = job[k]
    BY <1>2 DEF TakeIndex, TypeOK, Idle
  <2> QED BY <2>1, <2>2
<1> QED BY <1>1, <1>2 DEF Aside

\* What a lost session or a restart takes from a goroutine.
LEMMA CutFrame ==
  ASSUME TypeOK, NEW d \in Device, NEW e \in Device, Disconnect(d, e) \/ Restart(d)
  PROVE  /\ UNCHANGED <<disk, tmp, spoiled, deletes>>
         /\ \A h \in Job : job'[h] = job[h] \/ job'[h] = Idle
         /\ \A h \in Job : Renames(h) /\ (Restart(d) => job[h].at # d) =>
              job'[h] = job[h]
         /\ Disconnect(d, e) => UNCHANGED restarts
         /\ Restart(d) => restarts' = restarts + 1
<1>1. CASE Disconnect(d, e)
  <2>1. UNCHANGED <<disk, tmp, spoiled, deletes, restarts>>
    BY <1>1 DEF Disconnect
  <2>2. job' = [h \in Job |-> IF Cut(h, {{d, e}}) THEN Idle ELSE job[h]]
    BY <1>1 DEF Disconnect
  <2>3. restarts' # restarts + 1
    BY <2>1 DEF TypeOK
  <2>4. ~Restart(d)
    BY <2>3 DEF Restart
  <2>5. \A h \in Job : Cut(h, {{d, e}}) => ~Renames(h)
    BY DEF Cut
  <2> HIDE DEF Idle
  <2> QED BY <2>1, <2>2, <2>4, <2>5
<1>2. CASE Restart(d)
  <2> DEFINE lost == {p \in links : d \in p}
  <2>1. UNCHANGED <<disk, tmp, spoiled, deletes>> /\ restarts' = restarts + 1
    BY <1>2 DEF Restart
  <2>2. job' = [h \in Job |->
          IF Cut(h, lost) \/ (job[h] # Idle /\ job[h].at = d) THEN Idle ELSE job[h]]
    BY <1>2 DEF Restart
  <2>3. ~Disconnect(d, e)
    BY <2>1 DEF Disconnect, TypeOK
  <2>4. \A h \in Job : Cut(h, lost) => ~Renames(h)
    BY DEF Cut
  <2> HIDE DEF Idle, lost
  <2> QED BY <1>2, <2>1, <2>2, <2>3, <2>4
<1> QED BY <1>1, <1>2

\* Steps that leave the goroutines alone.
LEMMA OtherFrame ==
  ASSUME \/ \E d \in Device, g \in Watcher : ScanStep(d, g) \/ StopWatcher(d, g)
         \/ \E m \in BagToSet(msgs) : HandleDelete(m)
         \/ \E d, e \in Device : Connect(d, e) \/ SendFullIndex(d, e)
         \/ \E d \in Device : RefreshWatchers(d) \/ TriggerSync(d) \/ Edit(d) \/ Delete(d)
         \/ UNCHANGED vars
  PROVE  UNCHANGED <<job, tmp, spoiled, restarts>>
BY DEF ScanStep, Walk, CompareIndex, ReplaceIndex, Notify, StopWatcher, HandleDelete,
   Connect, SendFullIndex, RefreshWatchers, TriggerSync, Edit, Delete, vars,
   historyVars, countVars

\* A goroutine's step of a transfer.
Transfers(h) ==
  Fetch(h) \/ RemoveDest(h) \/ RenameTemp(h) \/ FileLocked(h) \/ TempGone(h)

\* What each of them does.
LEMMA TransferFrame ==
  ASSUME TypeOK, NEW h \in Job, Transfers(h)
  PROVE  /\ UNCHANGED <<deletes, restarts, links>> /\ job[h].at \in Device
         /\ \A k \in Job : k # h => job'[k] = job[k]
         /\ \A e \in Device : e # job[h].at => disk'[e] = disk[e] /\ tmp'[e] = tmp[e]
         /\ Fetch(h) =>
              /\ ~Renames(h) /\ disk' = disk
              /\ \/ job'[h].pc = "idle" /\ UNCHANGED <<tmp, spoiled>>
                 \/ /\ job'[h].pc = "removing" /\ job'[h].at = job[h].at
                    /\ disk[job[h].from] # Absent /\ job[h].from \in Device
                    /\ job[h].from # job[h].at
                    /\ tmp'[job[h].at] = disk[job[h].from].hash
                    /\ tmp'[job[h].at] # Absent
                    /\ spoiled' = IF Receiving(job[h].at)
                                  THEN spoiled \cup {job[h].at} ELSE spoiled
         /\ RemoveDest(h) =>
              /\ job[h].pc = "removing" /\ job'[h].pc = "renaming"
              /\ job'[h].at = job[h].at /\ disk'[job[h].at] = Absent
              /\ UNCHANGED <<tmp, spoiled>>
         /\ RenameTemp(h) =>
              /\ job[h].pc = "renaming" /\ job'[h].pc = "hashing"
              /\ job'[h].at = job[h].at /\ tmp[job[h].at] # Absent
              /\ disk'[job[h].at] = [hash |-> tmp[job[h].at], time |-> Now]
              /\ disk'[job[h].at] # Absent /\ tmp'[job[h].at] = Absent
              /\ UNCHANGED spoiled
         /\ FileLocked(h) \/ TempGone(h) =>
              /\ Renames(h) /\ UNCHANGED <<disk, tmp>>
              /\ \/ job'[h].pc = "idle" /\ spoiled' = spoiled \cup {job[h].at}
                 \/ /\ job'[h].pc = "hashing" /\ job'[h].at = job[h].at
                    /\ spoiled' = spoiled \cup {job[h].at}
                 \/ /\ job'[h].pc = "removing" /\ job'[h].at = job[h].at
                    /\ spoiled' = spoiled
<1> DEFINE d == job[h].at
<1>1. CASE Fetch(h)
  <2>1. /\ job[h].pc = "requested" /\ UNCHANGED <<disk, deletes, restarts, links>>
        /\ {d, job[h].from} \in Pairs
    BY <1>1 DEF Fetch, TypeOK, netVars, countVars
  <2>2. d \in Device /\ job[h].from \in Device /\ d # job[h].from
    BY <2>1, PairsDiffer
  <2>3. \/ /\ job' = [job EXCEPT ![h] = Idle]
           /\ UNCHANGED <<tmp, spoiled>>
        \/ /\ disk[job[h].from] # Absent
           /\ job' = [job EXCEPT ![h] = [pc |-> "removing", at |-> d, tries |-> 0]]
           /\ tmp' = [tmp EXCEPT ![d] = disk[job[h].from].hash]
           /\ spoiled' = IF Receiving(d) THEN spoiled \cup {d} ELSE spoiled
    BY <1>1 DEF Fetch
  <2>4. disk[job[h].from] # Absent => disk[job[h].from].hash # Absent
    BY <2>2, VersionAssumption, BoundAssumption DEF TypeOK, Entry, Version
  <2>5. ~RemoveDest(h) /\ ~RenameTemp(h) /\ ~FileLocked(h) /\ ~TempGone(h)
    BY <2>1 DEF RemoveDest, RenameTemp, FileLocked, TempGone
  <2>6. CASE job' = [job EXCEPT ![h] = Idle] /\ UNCHANGED <<tmp, spoiled>>
    BY <2>1, <2>2, <2>5, <2>6 DEF TypeOK, Idle
  <2>7. CASE /\ disk[job[h].from] # Absent
             /\ job' = [job EXCEPT ![h] = [pc |-> "removing", at |-> d, tries |-> 0]]
             /\ tmp' = [tmp EXCEPT ![d] = disk[job[h].from].hash]
             /\ spoiled' = IF Receiving(d) THEN spoiled \cup {d} ELSE spoiled
    <3>1. /\ job'[h] = [pc |-> "removing", at |-> d, tries |-> 0]
          /\ \A k \in Job : k # h => job'[k] = job[k]
          /\ tmp'[d] = disk[job[h].from].hash
          /\ \A e \in Device : e # d => tmp'[e] = tmp[e]
      BY <2>2, <2>7 DEF TypeOK
    <3> QED BY <2>1, <2>2, <2>4, <2>5, <2>7, <3>1
  <2> QED BY <2>3, <2>6, <2>7
<1>2. CASE RemoveDest(h)
  <2>1. /\ UNCHANGED <<tmp, spoiled, deletes, restarts, links>> /\ job[h].pc = "removing"
        /\ disk' = [disk EXCEPT ![d] = Absent]
        /\ job' = [job EXCEPT ![h] = [job[h] EXCEPT !.pc = "renaming"]]
    BY <1>2 DEF RemoveDest, netVars, historyVars, countVars
  <2>2. /\ d \in Device
        /\ job[h] = [pc |-> "removing", at |-> job[h].at, tries |-> job[h].tries]
    BY <2>1, JobPlace
  <2>3. /\ job'[h] = [job[h] EXCEPT !.pc = "renaming"]
        /\ \A k \in Job : k # h => job'[k] = job[k]
    BY <2>1 DEF TypeOK
  <2>4. job'[h].pc = "renaming" /\ job'[h].at = d
    BY <2>2, <2>3
  <2>5. ~Fetch(h) /\ ~RenameTemp(h)
    BY <2>1 DEF Fetch, RenameTemp
  <2>6. ~FileLocked(h) /\ ~TempGone(h)
    <3>1. ASSUME Retry(h) PROVE FALSE
      BY <2>2, <2>4, <3>1, RetryType
    <3> QED BY <3>1 DEF FileLocked, TempGone
  <2>7. disk'[d] = Absent /\ \A e \in Device : e # d => disk'[e] = disk[e]
    BY <2>1, <2>2 DEF TypeOK
  <2> QED BY <2>1, <2>2, <2>3, <2>4, <2>5, <2>6, <2>7
<1>3. CASE RenameTemp(h)
  <2>1. /\ UNCHANGED <<spoiled, deletes, restarts, links>> /\ job[h].pc = "renaming"
        /\ tmp[d] # Absent
        /\ disk' = [disk EXCEPT ![d] = [hash |-> tmp[d], time |-> Now]]
        /\ tmp' = [tmp EXCEPT ![d] = Absent]
        /\ job' = [job EXCEPT ![h] = [pc |-> "hashing", at |-> d]]
    BY <1>3 DEF RenameTemp, netVars, historyVars, countVars
  <2>2. d \in Device /\ tmp[d] \in Nat /\ Now \in Nat
    BY <2>1, JobPlace, NowIsTime, BoundAssumption DEF TypeOK, Version
  <2>3. [hash |-> tmp[d], time |-> Now] # Absent
    BY <2>2, VersionAssumption
  <2>4. /\ disk'[d] = [hash |-> tmp[d], time |-> Now] /\ tmp'[d] = Absent
        /\ \A e \in Device : e # d => disk'[e] = disk[e] /\ tmp'[e] = tmp[e]
    BY <2>1, <2>2 DEF TypeOK
  <2>5. /\ job'[h] = [pc |-> "hashing", at |-> d]
        /\ \A k \in Job : k # h => job'[k] = job[k]
    BY <2>1 DEF TypeOK
  <2>6. ~Fetch(h) /\ ~RemoveDest(h) /\ ~TempGone(h)
    BY <2>1 DEF Fetch, RemoveDest, TempGone
  <2>7. ~FileLocked(h)
    BY <2>1, <2>2, <2>4 DEF FileLocked
  <2> QED BY <2>1, <2>2, <2>3, <2>4, <2>5, <2>6, <2>7
<1>4. CASE FileLocked(h) \/ TempGone(h)
  <2>1. UNCHANGED <<disk, tmp, deletes, restarts, links>> /\ Retry(h) /\ Renames(h)
    BY <1>4, FailFrame
  <2>2. /\ \A k \in Job : k # h => job'[k] = job[k]
        /\ \/ job'[h].pc = "idle" /\ spoiled' = spoiled \cup {job[h].at}
           \/ /\ job'[h].pc = "hashing" /\ job'[h].at = job[h].at
              /\ spoiled' = spoiled \cup {job[h].at}
           \/ /\ job'[h].pc = "removing" /\ job'[h].at = job[h].at
              /\ spoiled' = spoiled
    BY <2>1, RetryType
  <2>3. ~Fetch(h)
    BY <2>1 DEF Fetch
  <2>4. ~RemoveDest(h)
    <3>1. ASSUME RemoveDest(h) PROVE FALSE
      <4>1. job'[h] = [job[h] EXCEPT !.pc = "renaming"]
        BY <3>1 DEF RemoveDest, TypeOK
      <4>2. job[h] = [pc |-> job[h].pc, at |-> job[h].at, tries |-> job[h].tries]
        BY <2>1, JobPlace
      <4>3. job'[h].pc = "renaming"
        BY <4>1, <4>2
      <4> QED BY <2>2, <4>3
    <3> QED BY <3>1
  <2>5. ~RenameTemp(h)
    <3>1. ASSUME RenameTemp(h) PROVE FALSE
      <4>1. tmp[d] # Absent /\ tmp' = [tmp EXCEPT ![d] = Absent] /\ d \in Device
        BY <2>1, <3>1, JobPlace DEF RenameTemp
      <4> QED BY <2>1, <4>1 DEF TypeOK
    <3> QED BY <3>1
  <2>6. d \in Device
    BY <2>1, JobPlace
  <2> QED BY <2>1, <2>2, <2>3, <2>4, <2>5, <2>6
<1> QED BY <1>1, <1>2, <1>3, <1>4 DEF Transfers

\* Where no transfer begins and no temporary file goes, transfers stay alone.
LEMMA AloneKept ==
  ASSUME AloneInv, UNCHANGED tmp, spoiled \subseteq spoiled',
         \A h \in Job : Renames(h)' => Renames(h) /\ job'[h].at = job[h].at
  PROVE  AloneInv'
BY DEF AloneInv

LEMMA AloneTransfer ==
  ASSUME TypeOK, AloneInv, NEW h \in Job, Transfers(h)
  PROVE  AloneInv'
<1> DEFINE d == job[h].at
<1>1. \A k \in Job : k # h => job'[k] = job[k]
  BY TransferFrame
<1>2. CASE Fetch(h)
  <2>1. CASE job'[h].pc = "idle" /\ UNCHANGED <<tmp, spoiled>>
    BY <1>1, <2>1, AloneKept
  <2>2. CASE job'[h].pc # "idle"
    <3>1. /\ ~Renames(h) /\ job'[h].at = d /\ tmp'[d] # Absent
          /\ spoiled' = IF Receiving(d) THEN spoiled \cup {d} ELSE spoiled
          /\ \A e \in Device : e # d => tmp'[e] = tmp[e]
      BY <1>2, <2>2, TransferFrame
    <3>2. ASSUME NEW k \in Job, Renames(k)', job'[k].at \notin spoiled', k # h
          PROVE  /\ job[k].at # d /\ tmp'[job'[k].at] # Absent
                 /\ \A i \in Job : Renames(i)' /\ job'[i].at = job'[k].at => i = k
      <4>1. Renames(k) /\ job'[k].at = job[k].at /\ job[k].at \in Device
        BY <1>1, <3>2, JobPlace
      <4>2. job[k].at # d
        BY <3>1, <3>2, <4>1 DEF Receiving
      <4> QED BY <1>1, <3>1, <3>2, <4>1, <4>2 DEF AloneInv
    <3>3. d \notin spoiled' =>
            \A i \in Job : Renames(i)' /\ job'[i].at = d => i = h
      BY <1>1, <3>1 DEF Receiving
    <3> QED BY <3>1, <3>2, <3>3 DEF AloneInv
  <2> QED BY <1>2, <2>1, <2>2, TransferFrame
<1>3. CASE RemoveDest(h)
  <2>1. /\ UNCHANGED <<tmp, spoiled>> /\ Renames(h) /\ job'[h].at = d
    BY <1>3, TransferFrame
  <2> QED BY <1>1, <2>1, AloneKept
<1>4. CASE RenameTemp(h)
  <2>1. /\ Renames(h) /\ ~Renames(h)' /\ UNCHANGED spoiled
        /\ \A e \in Device : e # d => tmp'[e] = tmp[e]
    BY <1>4, TransferFrame
  <2>2. ASSUME NEW k \in Job, Renames(k)', job'[k].at \notin spoiled'
        PROVE  /\ tmp'[job'[k].at] # Absent
               /\ \A i \in Job : Renames(i)' /\ job'[i].at = job'[k].at => i = k
    <3>1. k # h /\ job'[k] = job[k] /\ Renames(k) /\ job[k].at \in Device
      BY <1>1, <2>1, <2>2, JobPlace
    <3>2. job[k].at # d
      BY <2>1, <2>2, <3>1 DEF AloneInv
    <3> QED BY <1>1, <2>1, <2>2, <3>1, <3>2 DEF AloneInv
  <2> QED BY <2>2 DEF AloneInv
<1>5. CASE FileLocked(h) \/ TempGone(h)
  <2>1. /\ UNCHANGED tmp /\ Renames(h) /\ spoiled \subseteq spoiled'
        /\ Renames(h)' => job'[h].at = d
    BY <1>5, TransferFrame
  <2> QED BY <1>1, <2>1, AloneKept
<1> QED BY <1>2, <1>3, <1>4, <1>5 DEF Transfers

\* The kinds of steps there are.
LEMMA StepKinds ==
  ASSUME [Next]_vars
  PROVE  \/ \E h \in Job : Aside(h) \/ Transfers(h)
         \/ \E d, e \in Device : Disconnect(d, e)
         \/ \E d \in Device : Restart(d)
         \/ \E d \in Device, g \in Watcher : ScanStep(d, g) \/ StopWatcher(d, g)
         \/ \E m \in BagToSet(msgs) : HandleDelete(m)
         \/ \E d, e \in Device : Connect(d, e) \/ SendFullIndex(d, e)
         \/ \E d \in Device : RefreshWatchers(d) \/ TriggerSync(d) \/ Edit(d) \/ Delete(d)
         \/ UNCHANGED vars
<1>1. Editors \subseteq Device
  BY DeviceAssumption
<1> QED BY <1>1 DEF Next, Environment, TakeMessage, JobStep, Aside, Transfers

\* A transfer that is not alone has spoilt its device.
LEMMA AloneStep == TypeOK /\ AloneInv /\ [Next]_vars => AloneInv'
<1> SUFFICES ASSUME TypeOK, AloneInv, [Next]_vars PROVE AloneInv'
  OBVIOUS
<1>1. ASSUME NEW h \in Job, Aside(h) PROVE AloneInv'
  BY <1>1, AsideFrame, AloneKept
<1>2. ASSUME NEW h \in Job, Transfers(h) PROVE AloneInv'
  BY <1>2, AloneTransfer
<1>3. ASSUME NEW d \in Device, NEW e \in Device, Disconnect(d, e) \/ Restart(d)
      PROVE  AloneInv'
  <2>1. /\ UNCHANGED <<tmp, spoiled>>
        /\ \A h \in Job : job'[h] = job[h] \/ job'[h] = Idle
    BY <1>3, CutFrame
  <2> QED BY <2>1, AloneKept DEF Idle
<1>4. CASE UNCHANGED <<job, tmp, spoiled, restarts>>
  BY <1>4, AloneKept
<1> QED BY <1>1, <1>2, <1>3, <1>4, StepKinds, OtherFrame

LEMMA InitSurvive == Init => AloneInv /\ SurviveInv
BY DEF Init, AloneInv, SurviveInv, Receiving, Idle

\* Steps that take the file from a spoilt device only, where every transfer that
\* begins and every device that is spoilt knows another one that has it.
LEMMA SurviveFrom ==
  ASSUME SurviveInv, UNCHANGED <<deletes, restarts>>, deletes = 0,
         spoiled \subseteq spoiled',
         \A e \in Device \ spoiled' : HasFile(e) => HasFile(e)',
         \A d \in Device : (Receiving(d) \/ d \in spoiled)' =>
           Receiving(d) \/ d \in spoiled \/ Elsewhere(d)'
  PROVE  SurviveInv' /\ (OneMishap' /\ Present => Present')
<1>1. ASSUME restarts = 0, NEW d \in Device, spoiled' \subseteq {d},
             (Receiving(d) \/ d \in spoiled)'
      PROVE  Elsewhere(d)'
  <2>1. CASE Receiving(d) \/ d \in spoiled
    <3>1. Elsewhere(d)
      BY <1>1, <2>1 DEF SurviveInv
    <3> QED BY <1>1, <3>1 DEF Elsewhere
  <2> QED BY <1>1, <2>1
<1>2. SurviveInv'
  BY <1>1 DEF SurviveInv
<1>3. ASSUME OneMishap', Present PROVE Present'
  <2>1. PICK e \in Device : HasFile(e)
    BY <1>3 DEF Present, HasFile
  <2>2. CASE e \notin spoiled'
    BY <2>1, <2>2 DEF Present, HasFile
  <2>3. CASE e \in spoiled'
    <3>1. restarts = 0 /\ spoiled' \subseteq {e}
      BY <1>3, <2>3 DEF OneMishap
    <3>2. Elsewhere(e)'
      BY <1>1, <2>3, <3>1
    <3> QED BY <3>2 DEF Elsewhere, Present, HasFile
  <2> QED BY <2>2, <2>3
<1> QED BY <1>2, <1>3

\* The file's way through a transfer.
LEMMA TransferSurvive ==
  ASSUME TypeOK, AloneInv, SurviveInv, deletes = 0, NEW h \in Job, Transfers(h)
  PROVE  SurviveInv' /\ (OneMishap' /\ Present => Present')
<1>0. PICK d \in Device : d = job[h].at
  BY TransferFrame
<1>a. /\ UNCHANGED <<deletes, restarts>> /\ d \in Device
      /\ \A k \in Job : k # h => job'[k] = job[k]
      /\ \A e \in Device : e # d => disk'[e] = disk[e] /\ tmp'[e] = tmp[e]
  BY <1>0, TransferFrame
<1>b. spoiled \subseteq spoiled'
  BY TransferFrame DEF Transfers
<1>c. ASSUME NEW e \in Device, e # d PROVE HasFile(e)' <=> HasFile(e)
  <2>1. job'[h].pc = "idle" \/ job'[h].at = d
    BY <1>0, TransferFrame DEF Transfers
  <2>2. Receiving(e)' <=> Receiving(e)
    BY <1>0, <1>a, <1>c, <2>1 DEF Receiving
  <2> QED BY <1>a, <1>c, <2>2 DEF HasFile
<1>d. ASSUME NEW e \in Device, e # d
      PROVE  (Receiving(e) \/ e \in spoiled)' => Receiving(e) \/ e \in spoiled
  <2>1. job'[h].pc = "idle" \/ job'[h].at = d
    BY <1>0, TransferFrame DEF Transfers
  <2>2. Receiving(e)' <=> Receiving(e)
    BY <1>0, <1>a, <1>d, <2>1 DEF Receiving
  <2>3. spoiled' \subseteq spoiled \cup {d}
    BY <1>0, TransferFrame DEF Transfers
  <2> QED BY <1>d, <2>2, <2>3
<1>e. ASSUME Fetch(h)
      PROVE  /\ d \notin spoiled' /\ HasFile(d) => HasFile(d)'
             /\ (Receiving(d) \/ d \in spoiled)' =>
                  Receiving(d) \/ d \in spoiled \/ Elsewhere(d)'
  <2>1. /\ ~Renames(h) /\ disk' = disk
        /\ \/ job'[h].pc = "idle" /\ UNCHANGED <<tmp, spoiled>>
           \/ /\ job'[h].pc = "removing" /\ job'[h].at = d
              /\ disk[job[h].from] # Absent /\ job[h].from \in Device
              /\ job[h].from # d /\ tmp'[d] # Absent
    BY <1>0, <1>e, TransferFrame
  <2>2. Receiving(d) => Receiving(d)'
    BY <1>a, <2>1 DEF Receiving
  <2>3. HasFile(d) => HasFile(d)'
    BY <2>1, <2>2 DEF HasFile, Receiving
  <2>4. (Receiving(d) \/ d \in spoiled)' => Receiving(d) \/ d \in spoiled \/ Elsewhere(d)'
    <3>1. CASE job'[h].pc = "idle" /\ UNCHANGED <<tmp, spoiled>>
      BY <1>a, <2>1, <3>1 DEF Receiving
    <3>2. CASE ~(job'[h].pc = "idle" /\ UNCHANGED <<tmp, spoiled>>)
      BY <2>1, <3>2 DEF Elsewhere, HasFile
    <3> QED BY <3>1, <3>2
  <2> QED BY <2>3, <2>4
<1>f. ASSUME RemoveDest(h)
      PROVE  /\ d \notin spoiled' /\ HasFile(d) => HasFile(d)'
             /\ Receiving(d) \/ d \in spoiled
  <2>1. /\ Renames(h) /\ job'[h].pc = "renaming" /\ job'[h].at = d
        /\ UNCHANGED <<tmp, spoiled>>
    BY <1>0, <1>f, TransferFrame
  <2> QED BY <1>0, <2>1 DEF HasFile, Receiving, AloneInv
<1>g. ASSUME RenameTemp(h)
      PROVE  /\ d \notin spoiled' /\ HasFile(d) => HasFile(d)'
             /\ Receiving(d) \/ d \in spoiled
  <2>1. Renames(h) /\ disk'[d] # Absent
    BY <1>0, <1>g, TransferFrame
  <2> QED BY <1>0, <2>1 DEF HasFile, Receiving
<1>h. ASSUME FileLocked(h) \/ TempGone(h)
      PROVE  /\ d \notin spoiled' /\ HasFile(d) => HasFile(d)'
             /\ Receiving(d) \/ d \in spoiled
  <2>1. /\ Renames(h) /\ UNCHANGED <<disk, tmp>>
        /\ d \in spoiled' \/ (Renames(h)' /\ job'[h].at = d)
    BY <1>0, <1>h, TransferFrame
  <2> QED BY <1>0, <2>1 DEF HasFile, Receiving
<1>1. d \notin spoiled' /\ HasFile(d) => HasFile(d)'
  BY <1>e, <1>f, <1>g, <1>h DEF Transfers
<1>2. (Receiving(d) \/ d \in spoiled)' => Receiving(d) \/ d \in spoiled \/ Elsewhere(d)'
  BY <1>e, <1>f, <1>g, <1>h DEF Transfers
<1>3. \A e \in Device \ spoiled' : HasFile(e) => HasFile(e)'
  BY <1>c, <1>1
<1>4. \A e \in Device : (Receiving(e) \/ e \in spoiled)' =>
        Receiving(e) \/ e \in spoiled \/ Elsewhere(e)'
  BY <1>d, <1>2
<1> QED BY <1>a, <1>b, <1>3, <1>4, SurviveFrom

\* The first restart stops no more than one of the devices that replace the
\* file; another has it.
LEMMA RestartSurvive ==
  ASSUME TypeOK, SurviveInv, deletes = 0, NEW f \in Device, Restart(f)
  PROVE  SurviveInv' /\ (OneMishap' /\ Present => Present')
<1>1. /\ UNCHANGED <<disk, tmp, spoiled>> /\ restarts' = restarts + 1
      /\ restarts \in Nat
      /\ \A h \in Job : Renames(h) /\ job[h].at # f => job'[h] = job[h]
  BY CutFrame DEF TypeOK
<1>2. SurviveInv'
  BY <1>1 DEF SurviveInv
<1>3. ASSUME NEW e \in Device, HasFile(e), e # f \/ ~Receiving(e) \/ disk[e] # Absent
      PROVE  Present'
  BY <1>1, <1>3 DEF HasFile, Receiving, Present
<1>4. ASSUME OneMishap', Present PROVE Present'
  <2>1. restarts = 0 /\ spoiled = {}
    BY <1>1, <1>4 DEF OneMishap
  <2>2. PICK e \in Device : HasFile(e)
    BY <1>4 DEF Present, HasFile
  <2>3. CASE e = f /\ Receiving(e)
    <3>1. Elsewhere(f)
      BY <2>1, <2>3 DEF SurviveInv
    <3> QED BY <1>3, <3>1 DEF Elsewhere
  <2> QED BY <1>3, <2>2, <2>3
<1> QED BY <1>2, <1>4

\* Scans, messages and sessions are no deletions by users.
LEMMA DeletesFrame ==
  ASSUME \/ \E d \in Device, g \in Watcher : ScanStep(d, g) \/ StopWatcher(d, g)
         \/ \E m \in BagToSet(msgs) : HandleDelete(m)
         \/ \E d, e \in Device : Connect(d, e) \/ SendFullIndex(d, e)
         \/ UNCHANGED vars
  PROVE  UNCHANGED deletes
<1>1. UNCHANGED historyVars
  BY DEF ScanStep, Walk, CompareIndex, ReplaceIndex, Notify, StopWatcher, HandleDelete,
     Connect, SendFullIndex, vars
<1> QED BY <1>1 DEF historyVars, countVars

\* Without SyncDelete no step but a user's deletion, or a second mishap, makes
\* the last copy of the file disappear.
LEMMA SurviveStep ==
  ~SyncDelete /\ TypeInv /\ AloneInv /\ SurviveInv /\ [Next]_vars
  => SurviveInv' /\ (deletes' = 0 /\ OneMishap' /\ Present => Present')
<1> SUFFICES ASSUME ~SyncDelete, TypeOK, AloneInv, SurviveInv, [Next]_vars
             PROVE  SurviveInv' /\ (deletes' = 0 /\ OneMishap' /\ Present => Present')
  BY DEF TypeInv
<1>1. deletes' # 0 => SurviveInv' /\ (deletes' = 0 /\ OneMishap' /\ Present => Present')
  BY DEF SurviveInv
<1> SUFFICES ASSUME deletes' = 0 PROVE SurviveInv' /\ (OneMishap' /\ Present => Present')
  BY <1>1
<1>2. deletes = 0 /\ \A d \in Device : ~Delete(d)
  <2>1. deletes \in Nat
    BY DEF TypeOK
  <2>2. ASSUME NEW d \in Device, Delete(d) PROVE FALSE
    BY <2>1, <2>2 DEF Delete
  <2>3. \A d \in Device : ~Delete(d)
    BY <2>2
  <2>4. ASSUME NEW h \in Job, Aside(h) \/ Transfers(h) PROVE UNCHANGED deletes
    BY <2>4, AsideFrame, TransferFrame
  <2>5. ASSUME NEW d \in Device, NEW e \in Device, Disconnect(d, e) \/ Restart(d)
        PROVE  UNCHANGED deletes
    BY <2>5, CutFrame
  <2>6. ASSUME \/ \E d \in Device, g \in Watcher : ScanStep(d, g) \/ StopWatcher(d, g)
               \/ \E m \in BagToSet(msgs) : HandleDelete(m)
               \/ \E d, e \in Device : Connect(d, e) \/ SendFullIndex(d, e)
               \/ UNCHANGED vars
        PROVE  UNCHANGED deletes
    BY <2>6, DeletesFrame
  <2>7. ASSUME NEW d \in Device, RefreshWatchers(d) \/ TriggerSync(d) \/ Edit(d)
        PROVE  UNCHANGED deletes
    BY <2>7 DEF RefreshWatchers, TriggerSync, Edit
  <2>8. UNCHANGED deletes
    BY <2>3, <2>4, <2>5, <2>6, <2>7, StepKinds
  <2> QED BY <2>3, <2>8
<1>3. ASSUME UNCHANGED <<tmp, spoiled, deletes, restarts>>,
             \A e \in Device : disk[e] # Absent => disk'[e] # Absent,
             \A h \in Job : Renames(h) => job'[h] = job[h],
             \A h \in Job : Renames(h)' => job'[h] = job[h]
      PROVE  SurviveInv' /\ (OneMishap' /\ Present => Present')
  <2>1. \A e \in Device : (HasFile(e) => HasFile(e)') /\ (Receiving(e)' => Receiving(e))
    BY <1>3 DEF HasFile, Receiving
  <2> QED BY <1>2, <1>3, <2>1, SurviveFrom
<1>4. ASSUME NEW h \in Job, Aside(h)
      PROVE  SurviveInv' /\ (OneMishap' /\ Present => Present')
  <2>1. /\ UNCHANGED <<disk, tmp, spoiled, deletes, restarts>>
        /\ \A k \in Job : k # h => job'[k] = job[k]
        /\ ~Renames(h) /\ ~Renames(h)'
    BY <1>4, AsideFrame
  <2> QED BY <1>3, <2>1
<1>5. ASSUME NEW h \in Job, Transfers(h)
      PROVE  SurviveInv' /\ (OneMishap' /\ Present => Present')
  BY <1>2, <1>5, TransferSurvive
<1>6. ASSUME NEW d \in Device, NEW e \in Device, Disconnect(d, e)
      PROVE  SurviveInv' /\ (OneMishap' /\ Present => Present')
  <2>1. /\ UNCHANGED <<disk, tmp, spoiled, deletes, restarts>>
        /\ \A h \in Job : job'[h] = job[h] \/ job'[h] = Idle
    BY <1>6, CutFrame
  <2>2. ~Restart(d)
    BY <2>1 DEF Restart, TypeOK
  <2>3. \A h \in Job : Renames(h) => job'[h] = job[h]
    BY <1>6, <2>2, CutFrame
  <2>4. \A h \in Job : Renames(h)' => job'[h] = job[h]
    BY <2>1 DEF Idle
  <2> QED BY <1>3, <2>1, <2>3, <2>4
<1>7. ASSUME NEW d \in Device, Restart(d)
      PROVE  SurviveInv' /\ (OneMishap' /\ Present => Present')
  BY <1>2, <1>7, RestartSurvive
<1>8. ASSUME UNCHANGED <<job, tmp, spoiled, restarts>>,
             \A e \in Device : disk[e] # Absent => disk'[e] # Absent
      PROVE  SurviveInv' /\ (OneMishap' /\ Present => Present')
  <2>1. UNCHANGED deletes
    BY <1>2
  <2> QED BY <1>3, <1>8, <2>1
<1>9. ASSUME NEW d \in Device, Edit(d)
      PROVE  \A e \in Device : disk[e] # Absent => disk'[e] # Absent
  <2>1. disk' = [disk EXCEPT ![d] = [hash |-> edits + 1, time |-> Now]]
    BY <1>9 DEF Edit
  <2>2. edits + 1 \in Nat /\ Now \in Nat
    BY NowIsTime DEF TypeOK
  <2>3. [hash |-> edits + 1, time |-> Now] # Absent
    BY <2>2, VersionAssumption
  <2> QED BY <2>1, <2>3 DEF TypeOK
<1>10. CASE \/ \E d \in Device, g \in Watcher : ScanStep(d, g) \/ StopWatcher(d, g)
            \/ \E m \in BagToSet(msgs) : HandleDelete(m)
            \/ \E d, e \in Device : Connect(d, e) \/ SendFullIndex(d, e)
            \/ \E d \in Device : RefreshWatchers(d) \/ TriggerSync(d)
            \/ UNCHANGED vars
  <2>1. UNCHANGED disk
    BY <1>10 DEF ScanStep, Walk, CompareIndex, ReplaceIndex, Notify, StopWatcher,
       HandleDelete, Connect, SendFullIndex, RefreshWatchers, TriggerSync, vars
  <2> QED BY <1>8, <1>10, <2>1, OtherFrame
<1>11. ASSUME NEW d \in Device, Edit(d)
       PROVE  SurviveInv' /\ (OneMishap' /\ Present => Present')
  BY <1>8, <1>9, <1>11, OtherFrame
<1> QED
  BY <1>2, <1>4, <1>5, <1>6, <1>7, <1>10, <1>11, StepKinds

-----------------------------------------------------------------------------
(* Devices whose users take turns. *)

LEMMA InitTurn == Init => TurnInv /\ TimeInv
<1> SUFFICES ASSUME Init PROVE TurnInv /\ TimeInv
  OBVIOUS
<1>1. BagToSet(msgs) = {}
  BY DEF Init, EmptyBag, SetToBag, BagToSet
<1>2. \A h \in Job : job[h].pc = "idle"
  BY DEF Init, Idle
<1>3. edits = 0 /\ latest \in {0, Absent}
  BY VersionAssumption DEF Init
<1>4. \A d \in Device : disk[d] # Absent => disk[d] = [hash |-> 0, time |-> 0]
  BY <1>3 DEF Init
<1>5. \A d \in Device : ~Outdated(d)
  BY <1>3, <1>4 DEF Outdated
<1>6. TurnInv
  BY <1>2, <1>3, <1>5 DEF Init, TurnInv, OutdatedInv, SentInv
<1>7. \A d \in Device : InTime(disk[d])
  BY <1>4, BoundAssumption DEF InTime
<1>8. InTime(Absent)
  BY DEF InTime
<1>9. \A d \in Device, g \in Watcher : InTime(index[d][g]) /\ InTime(found[d][g])
  BY <1>7, <1>8 DEF Init
<1>10. TimeInv
  BY <1>1, <1>2, <1>7, <1>9, BoundAssumption DEF Init, TimeInv
<1> QED BY <1>6, <1>10

\* Each device has one watcher.
LEMMA OneWatcher ==
  ASSUME TypeInv, Undisturbed
  PROVE  Watcher = {0} /\ \A d \in Device : watcher[d] = 0
BY DEF TypeInv, TypeOK, Undisturbed, Watcher

\* What does not happen.
LEMMA NothingLost ==
  ASSUME TypeInv, TurnInv, Undisturbed, NEW d \in Device, NEW e \in Device
  PROVE  /\ ~Connect(d, e) /\ ~SendFullIndex(d, e) /\ ~Disconnect(d, e)
         /\ ~RefreshWatchers(d) /\ ~TriggerSync(d) /\ ~Restart(d)
         /\ \A g \in Watcher : ~StopWatcher(d, g)
<1>1. links = Pairs /\ greet = {}
  BY DEF TurnInv, SentInv
<1>2. ~Connect(d, e) /\ ~SendFullIndex(d, e)
  BY <1>1 DEF Connect, SendFullIndex
<1>3. /\ disconnects \in Nat /\ triggers \in Nat
      /\ refreshes \in Nat /\ restarts \in Nat
  BY DEF TypeInv, TypeOK
<1>4. ~Disconnect(d, e) /\ ~TriggerSync(d)
  BY <1>3 DEF Undisturbed, Disconnect, TriggerSync
<1>5. ~RefreshWatchers(d) /\ ~Restart(d)
  BY <1>3 DEF Undisturbed, RefreshWatchers, Restart
<1>6. \A g \in Watcher : ~StopWatcher(d, g)
  BY OneWatcher DEF StopWatcher
<1> QED BY <1>2, <1>4, <1>5, <1>6

\* A scan of an outdated file finds it as it was.
LEMMA ScanTurn ==
  ASSUME TypeInv, TurnInv, NEW d \in Device, NEW g \in Watcher, ScanStep(d, g)
  PROVE  TurnInv'
<1> USE DEF TypeInv
<1>1. UNCHANGED <<disk, tmp, links, greet, job, copies, latest, edits>>
  BY DEF ScanStep, Walk, CompareIndex, ReplaceIndex, Notify, netVars, historyVars,
     countVars
<1>2. SentInv'
  BY <1>1 DEF TurnInv, SentInv
<1>3. ASSUME NEW f \in Device, Outdated(f)'
      PROVE  /\ Outdated(f) /\ ScanFits(f) /\ JobsFit(f) /\ NotSent(f)
             /\ JobsFit(f)'
  <2>1. Outdated(f) /\ ScanFits(f) /\ JobsFit(f) /\ NotSent(f)
    BY <1>1, <1>3 DEF TurnInv, OutdatedInv, Outdated
  <2> QED BY <1>1, <2>1 DEF JobsFit
<1>4. ASSUME NEW f \in Device, Outdated(f)', f # d PROVE ScanFits(f)'
  <2>1. \A k \in Watcher : UNCHANGED <<index[f][k], wpc[f][k], found[f][k], change[f][k]>>
    BY <1>4 DEF ScanStep, Walk, CompareIndex, ReplaceIndex, Notify, TypeOK
  <2> QED BY <1>1, <1>3, <1>4, <2>1 DEF ScanFits
<1>5. ASSUME NEW f \in Device, Outdated(f)', UNCHANGED msgs PROVE NotSent(f)'
  BY <1>1, <1>3, <1>5 DEF NotSent
<1>6. CASE Walk(d, g)
  <2>1. \A k \in Watcher :
          /\ UNCHANGED <<index[d][k], change[d][k]>>
          /\ IF k = g THEN wpc'[d][k] = "walked" /\ found'[d][k] = disk[d]
             ELSE UNCHANGED <<wpc[d][k], found[d][k]>>
    BY <1>6 DEF Walk, TypeOK
  <2>2. Outdated(d)' => ScanFits(d)'
    BY <1>1, <1>3, <2>1 DEF ScanFits, Outdated
  <2>3. UNCHANGED msgs
    BY <1>6 DEF Walk, netVars
  <2> QED BY <1>2, <1>3, <1>4, <1>5, <2>2, <2>3 DEF TurnInv, OutdatedInv
<1>7. CASE CompareIndex(d, g)
  <2>1. \A k \in Watcher :
          /\ UNCHANGED <<index[d][k], found[d][k]>>
          /\ IF k = g THEN /\ wpc[d][k] = "walked" /\ wpc'[d][k] = "compared"
                           /\ change'[d][k] = Changed(index[d][k], found[d][k])
             ELSE UNCHANGED <<wpc[d][k], change[d][k]>>
    BY <1>7 DEF CompareIndex, TypeOK
  <2>2. Outdated(d)' => ScanFits(d)'
    BY <1>1, <1>3, <2>1 DEF ScanFits, Changed
  <2>3. UNCHANGED msgs
    BY <1>7 DEF CompareIndex, netVars
  <2> QED BY <1>2, <1>3, <1>4, <1>5, <2>2, <2>3 DEF TurnInv, OutdatedInv
<1>8. CASE ReplaceIndex(d, g)
  <2>1. \A k \in Watcher :
          /\ UNCHANGED change[d][k]
          /\ IF k = g
             THEN /\ wpc[d][k] = "compared" /\ index'[d][k] = found[d][k]
                  /\ change[d][k] = "none" => wpc'[d][k] = "idle"
             ELSE UNCHANGED <<wpc[d][k], index[d][k], found[d][k]>>
    BY <1>8 DEF ReplaceIndex, TypeOK
  <2>2. Outdated(d)' => ScanFits(d)'
    BY <1>1, <1>3, <2>1 DEF ScanFits
  <2>3. UNCHANGED msgs
    BY <1>8 DEF ReplaceIndex, netVars
  <2> QED BY <1>2, <1>3, <1>4, <1>5, <2>2, <2>3 DEF TurnInv, OutdatedInv
<1>9. CASE Notify(d, g)
  <2>1. ~Outdated(d)'
    BY <1>3, <1>9 DEF Notify, ScanFits
  <2> DEFINE S == {IF change[d][g] = "deleted" THEN DeleteMsg(d, e)
                   ELSE IndexMsg(d, e, found[d][g]) : e \in Peers(d)}
  <2>2. \A m \in S : m.from = d
    BY DEF DeleteMsg, IndexMsg
  <2>3. BagToSet(msgs') = BagToSet(msgs) \cup S
    <3>1. msgs' = msgs (+) SetToBag(S)
      BY <1>9 DEF Notify
    <3> HIDE DEF S
    <3> QED BY <3>1, BagUnionHolds DEF TypeOK
  <2>4. ASSUME NEW f \in Device, Outdated(f)' PROVE NotSent(f)'
    <3> HIDE DEF S
    <3>1. f # d /\ NotSent(f)
      BY <1>3, <2>1, <2>4
    <3> QED BY <1>1, <2>2, <2>3, <3>1 DEF NotSent
  <2> QED BY <1>2, <1>3, <1>4, <2>1, <2>4 DEF TurnInv, OutdatedInv
<1> QED BY <1>6, <1>7, <1>8, <1>9 DEF ScanStep

\* The devices that stay outdated, and what stays with them.
LEMMA StaysOutdated ==
  ASSUME OutdatedInv, UNCHANGED edits, NEW d \in Device, Outdated(d)',
         disk'[d] \in {disk[d], Absent}
  PROVE  /\ disk'[d] = disk[d] /\ Outdated(d)
         /\ ScanFits(d) /\ JobsFit(d) /\ NotSent(d)
BY DEF OutdatedInv, Outdated

\* Steps of a goroutine that read and write nothing but its own place.
LEMMA DecisionTurn ==
  ASSUME TypeInv, TurnInv, TimeInv, NEW h \in Job,
         AlreadyHave(h) \/ Decide(h) \/ Fetch(h) \/ HashDest(h) \/ UpdateFile(h)
  PROVE  TurnInv'
<1> USE DEF TypeInv
<1>1. /\ UNCHANGED <<disk, edits, latest, links, greet, msgs, wpc, found, change>>
      /\ copies \subseteq copies'
      /\ \A k \in Job : k # h => job'[k] = job[k]
      /\ ~Fetch(h) => UNCHANGED tmp
  <2>1. UNCHANGED <<disk, edits, latest, links, greet, msgs, wpc, found, change>>
    BY DEF AlreadyHave, Decide, Fetch, HashDest, UpdateFile, scanVars, netVars,
       historyVars, countVars
  <2>2. copies \subseteq copies'
    BY DEF AlreadyHave, Decide, Fetch, HashDest, UpdateFile
  <2>3. \A k \in Job : k # h => job'[k] = job[k]
    BY DEF AlreadyHave, Decide, Fetch, HashDest, UpdateFile, TypeOK
  <2>4. ~Fetch(h) => UNCHANGED tmp
    BY DEF AlreadyHave, Decide, HashDest, UpdateFile
  <2> QED BY <2>1, <2>2, <2>3, <2>4
<1>2. \A f \in Device : Outdated(f)' =>
        Outdated(f) /\ ScanFits(f) /\ JobsFit(f) /\ NotSent(f)
  BY <1>1, StaysOutdated DEF TurnInv
<1>3. \A f \in Device : Outdated(f) <=> disk[f] # Absent /\ disk[f].hash # edits
  BY DEF Outdated
<1>4. CASE UNCHANGED index
  <2>1. \A f \in Device : ScanFits(f) => ScanFits(f)'
    BY <1>1, <1>4 DEF ScanFits
  <2>2. CASE job'[h].pc = "idle"
    <3>1. \A f \in Device : Outdated(f)' => JobsFit(f)' /\ NotSent(f)'
      BY <1>1, <1>2, <2>2 DEF JobsFit, NotSent
    <3>2. UNCHANGED tmp
      BY <1>1, <2>2, TransferFrame DEF Transfers
    <3>3. SentInv'
      BY <1>1, <2>2, <3>2 DEF TurnInv, SentInv
    <3> QED BY <1>2, <2>1, <3>1, <3>3 DEF TurnInv, OutdatedInv
  <2>3. CASE Decide(h) /\ job'[h].pc # "idle"
    <3>1. /\ job[h].pc = "deciding" /\ job'[h].pc = "requested"
          /\ job'[h].at = job[h].at /\ job'[h].from = job[h].from
          /\ UNCHANGED tmp
      BY <2>3 DEF Decide, Idle, TypeOK
    <3>2. ASSUME NEW f \in Device, Outdated(f)', job[h].at = f, Strategy = "rename",
                 AllInWindow
          PROVE  [at |-> f, hash |-> disk[f].hash] \in copies'
      <4> DEFINE local == job[h].local  remote == job[h].remote
      <4>1. local # Absent /\ local.hash = disk[f].hash /\ disk[f] # Absent
        BY <1>1, <1>2, <3>1, <3>2 DEF JobsFit, Outdated
      <4>2. local \in Entry /\ remote \in Entry /\ remote # Absent
        <5>1. job[h].local \in Entry \cup {Absent} /\ job[h].remote \in Entry
          BY <3>1, JobPlace
        <5>2. Absent \notin Entry
          BY VersionAssumption, BoundAssumption DEF Entry, Version
        <5> QED BY <4>1, <5>1, <5>2
      <4>3. local.time <= MaxClock /\ remote.time <= MaxClock
        BY <3>1, <4>1, <4>2 DEF TimeInv, InTime
      <4>4. Conflict(local, remote)
        <5>1. local.time \in Nat /\ remote.time \in Nat
          BY <4>2 DEF Entry
        <5> HIDE DEF local, remote
        <5> QED BY <3>2, <4>3, <5>1, BoundAssumption, OptionAssumption
                DEF Conflict, Distance, AllInWindow
      <4>5. NeedsCopy(job[h].at, job[h].local, job[h].remote)
        BY <3>2, <4>1, <4>4 DEF NeedsCopy
      <4>6. copies' = copies \cup {[at |-> f, hash |-> disk[f].hash]}
        BY <2>3, <3>2, <4>5 DEF Decide
      <4> QED BY <4>6
    <3>3. ASSUME NEW f \in Device, Outdated(f)' PROVE JobsFit(f)' /\ NotSent(f)'
      <4>1. JobsFit(f) /\ NotSent(f)
        BY <1>2, <3>3
      <4>2. JobsFit(f)'
        BY <1>1, <3>1, <3>2, <3>3, <4>1 DEF JobsFit
      <4>3. NotSent(f)'
        BY <1>1, <3>1, <4>1 DEF NotSent
      <4> QED BY <4>2, <4>3
    <3>4. SentInv'
      BY <1>1, <3>1 DEF TurnInv, SentInv
    <3> QED BY <1>2, <2>1, <3>3, <3>4 DEF TurnInv, OutdatedInv
  <2>4. CASE Fetch(h) /\ job'[h].pc # "idle"
    <3>1. /\ job[h].pc = "requested" /\ job'[h].pc = "removing"
          /\ job'[h].at = job[h].at /\ job[h].from \in Device
          /\ tmp'[job[h].at] = disk[job[h].from].hash
          /\ disk[job[h].from] # Absent
          /\ \A e \in Device : e # job[h].at => tmp'[e] = tmp[e]
      <4>1. job[h].pc = "requested"
        BY <2>4 DEF Fetch
      <4> QED BY <2>4, <4>1, TransferFrame DEF Transfers
    <3>2. tmp'[job[h].at] = edits
      BY <3>1 DEF TurnInv, OutdatedInv, NotSent, Outdated
    <3>3. \A f \in Device : Outdated(f)' => JobsFit(f)' /\ NotSent(f)'
      BY <1>1, <1>2, <3>1 DEF JobsFit, NotSent
    <3>4. ASSUME NEW k \in Job, Renames(k)' PROVE tmp'[job'[k].at] \in {edits, Absent}
      <4>1. CASE job'[k].at = job[h].at
        BY <3>2, <4>1
      <4>2. CASE job'[k].at # job[h].at
        <5>1. k # h /\ job'[k] = job[k] /\ Renames(k)
          BY <1>1, <3>1, <3>4, <4>2
        <5>2. job[k].at \in Device
          BY <5>1, JobPlace
        <5> QED BY <3>1, <4>2, <5>1, <5>2 DEF TurnInv, SentInv
      <4> QED BY <4>1, <4>2
    <3>5. SentInv'
      BY <1>1, <3>4 DEF TurnInv, SentInv
    <3> QED BY <1>2, <2>1, <3>3, <3>5 DEF TurnInv, OutdatedInv
  <2>5. CASE HashDest(h) /\ job'[h].pc # "idle"
    <3>1. /\ job[h].pc = "hashing" /\ job'[h].pc = "indexing"
          /\ job'[h].at = job[h].at /\ job'[h].entry = disk[job[h].at]
          /\ UNCHANGED tmp
      BY <2>5 DEF HashDest, Idle, TypeOK
    <3>2. \A f \in Device : Outdated(f)' => JobsFit(f)' /\ NotSent(f)'
      BY <1>1, <1>2, <3>1 DEF JobsFit, NotSent
    <3>3. SentInv'
      BY <1>1, <3>1 DEF TurnInv, SentInv
    <3> QED BY <1>2, <2>1, <3>2, <3>3 DEF TurnInv, OutdatedInv
  <2>6. AlreadyHave(h) \/ UpdateFile(h) => job'[h].pc = "idle"
    BY DEF AlreadyHave, UpdateFile, Idle, TypeOK
  <2> QED BY <2>2, <2>3, <2>4, <2>5, <2>6
<1>5. CASE ~UNCHANGED index
  <2>1. job'[h].pc = "idle" /\ UNCHANGED tmp
    BY <1>5 DEF AlreadyHave, Decide, Fetch, HashDest, UpdateFile, Idle, TypeOK, scanVars
  <2>2. \A f \in Device : Outdated(f)' => JobsFit(f)' /\ NotSent(f)'
    BY <1>1, <1>2, <2>1 DEF JobsFit, NotSent
  <2>3. SentInv'
    BY <1>1, <2>1 DEF TurnInv, SentInv
  <2>4. ASSUME NEW f \in Device, Outdated(f)', NEW g \in Watcher
        PROVE  index'[f][g] # Absent /\ index'[f][g].hash = disk[f].hash
    <3>1. index[f][g] # Absent /\ index[f][g].hash = disk[f].hash
          /\ disk[f] # Absent /\ JobsFit(f)
      BY <1>2, <2>4 DEF ScanFits, Outdated
    <3>2. CASE AlreadyHave(h)
      <4>1. index' = [index EXCEPT ![job[h].at][job[h].watcher] = disk[job[h].at]]
        BY <1>5, <3>2 DEF AlreadyHave
      <4>2. index'[f][g] \in {index[f][g], disk[f]}
        BY <4>1 DEF TypeOK
      <4> QED BY <3>1, <4>2
    <3>3. CASE UpdateFile(h)
      <4>1. /\ job[h].entry \in Entry
            /\ job[h].at = f => job[h].entry.hash = disk[f].hash
        BY <3>1, <3>3, JobPlace DEF UpdateFile, JobsFit
      <4>2. index'[f][g] = index[f][g]
            \/ (job[h].at = f /\ index'[f][g] = job[h].entry)
        BY <3>3 DEF UpdateFile, TypeOK
      <4>3. Absent \notin Entry
        BY VersionAssumption, BoundAssumption DEF Entry, Version
      <4> QED BY <3>1, <4>1, <4>2, <4>3
    <3> QED BY <1>5, <3>2, <3>3 DEF Decide, Fetch, HashDest, scanVars
  <2>5. \A f \in Device : Outdated(f)' => ScanFits(f)'
    BY <1>1, <1>2, <2>4 DEF ScanFits
  <2> QED BY <2>2, <2>3, <2>5 DEF TurnInv, OutdatedInv
<1> QED BY <1>4, <1>5

\* What is renamed into place is the last edit's.
LEMMA RenameTurn ==
  ASSUME TypeInv, TurnInv, NEW h \in Job,
         RemoveDest(h) \/ RenameTemp(h) \/ FileLocked(h) \/ TempGone(h)
  PROVE  TurnInv'
<1> USE DEF TypeInv
<1>0. PICK d \in Device : d = job[h].at
  BY TransferFrame DEF Transfers
<1>1. /\ UNCHANGED <<edits, latest, links, greet, msgs, index, wpc, found, change, copies>>
      /\ \A k \in Job : k # h => job'[k] = job[k]
      /\ \A e \in Device : e # d => disk'[e] = disk[e] /\ tmp'[e] = tmp[e]
  <2>1. UNCHANGED <<edits, latest, links, greet, msgs, index, wpc, found, change, copies>>
    BY FailFrame DEF RemoveDest, RenameTemp, scanVars, netVars, historyVars, countVars
  <2> QED BY <1>0, <2>1, TransferFrame DEF Transfers
<1>2. /\ Renames(h) /\ tmp[d] \in {edits, Absent}
      /\ job'[h].pc \in {"idle", "hashing"} \/ (Renames(h)' /\ job'[h].at = d)
      /\ tmp'[d] \in {tmp[d], Absent}
      /\ job'[h].pc = "renaming" => disk'[d] = Absent
  <2>1. Renames(h)
    BY TransferFrame DEF Transfers
  <2> QED BY <1>0, <2>1, TransferFrame DEF Transfers, TurnInv, SentInv
<1>3. \/ disk'[d] = Absent \/ disk'[d].hash = edits
      \/ disk'[d] = disk[d] /\ (job[h].pc = "removing" \/ disk[d] = Absent \/ disk[d].hash = edits)
  <2>1. CASE RemoveDest(h)
    BY <1>0, <2>1, TransferFrame DEF Transfers
  <2>2. CASE RenameTemp(h)
    <3>1. tmp[d] # Absent /\ disk'[d] = [hash |-> tmp[d], time |-> Now]
      BY <1>0, <2>2, TransferFrame DEF Transfers
    <3> QED BY <1>2, <3>1
  <2>3. CASE FileLocked(h) \/ TempGone(h)
    <3>1. Renames(h) /\ disk' = disk
      BY <2>3, TransferFrame DEF Transfers
    <3>2. job[h].pc = "renaming" => ~Outdated(d)
      BY <1>0 DEF TurnInv, OutdatedInv, JobsFit
    <3> QED BY <3>1, <3>2 DEF Outdated
  <2> QED BY <2>1, <2>2, <2>3
<1>4. SentInv'
  <2>1. ASSUME NEW k \in Job, Renames(k)' PROVE tmp'[job'[k].at] \in {edits, Absent}
    <3>1. CASE job'[k].at = d
      BY <1>2, <3>1
    <3>2. CASE job'[k].at # d
      <4>1. k # h /\ job'[k] = job[k] /\ Renames(k)
        BY <1>1, <1>2, <2>1, <3>2
      <4>2. job[k].at \in Device
        BY <4>1, JobPlace
      <4> QED BY <1>1, <3>2, <4>1, <4>2 DEF TurnInv, SentInv
    <3> QED BY <3>1, <3>2
  <2> QED BY <1>1, <2>1 DEF TurnInv, SentInv
<1>5. ASSUME NEW f \in Device, Outdated(f)'
      PROVE  ScanFits(f)' /\ JobsFit(f)' /\ NotSent(f)'
  <2>1. disk'[f] = disk[f] /\ (f = d => job[h].pc = "removing")
    BY <1>1, <1>3, <1>5 DEF Outdated
  <2>2. ScanFits(f) /\ JobsFit(f) /\ NotSent(f)
    BY <1>1, <1>5, <2>1, StaysOutdated DEF TurnInv
  <2>3. ScanFits(f)'
    BY <1>1, <2>1, <2>2 DEF ScanFits
  <2>4. f = d => job'[h].pc # "renaming"
    BY <1>2, <1>5 DEF Outdated
  <2>5. job'[h].pc \in {"requested", "removing"} /\ job'[h].at = f =>
          job[h].pc = "removing" /\ job[h].at = f
    BY <1>0, <1>2, <2>1
  <2>6. JobsFit(f)'
    BY <1>1, <1>2, <2>1, <2>2, <2>4, <2>5 DEF JobsFit
  <2>7. NotSent(f)'
    BY <1>1, <1>2, <2>2 DEF NotSent
  <2> QED BY <2>3, <2>6, <2>7
<1> QED BY <1>4, <1>5 DEF TurnInv, OutdatedInv

\* An announcement is taken with the index of that moment; a deletion makes
\* nothing outdated.
LEMMA MessageTurn ==
  ASSUME TypeInv, TurnInv, Undisturbed, TakeMessage
  PROVE  TurnInv'
<1> USE DEF TypeInv
<1>1. PICK m \in BagToSet(msgs) : HandleDelete(m) \/ \E h \in Job : TakeIndex(h, m)
  BY DEF TakeMessage
<1>2. UNCHANGED <<edits, latest, tmp, links, greet, index, wpc, found, change, copies>>
  BY <1>1 DEF HandleDelete, TakeIndex, scanVars, historyVars, countVars
<1>3. m \in Message /\ m.to \in Device
  BY DEF TypeOK, Message
<1>4. BagToSet(msgs') \subseteq BagToSet(msgs)
  BY <1>1, BagRemoveHolds DEF HandleDelete, TakeIndex, TypeOK
<1>5. \A f \in Device : disk'[f] \in {disk[f], Absent}
  BY <1>1, <1>3 DEF HandleDelete, TakeIndex, TypeOK
<1>6. ASSUME NEW f \in Device, Outdated(f)'
      PROVE  /\ disk'[f] = disk[f] /\ ScanFits(f) /\ JobsFit(f) /\ NotSent(f)
             /\ ScanFits(f)'
  <2>1. disk'[f] = disk[f] /\ ScanFits(f) /\ JobsFit(f) /\ NotSent(f)
    BY <1>2, <1>5, <1>6, StaysOutdated DEF TurnInv
  <2> QED BY <1>2, <2>1 DEF ScanFits
<1>7. CASE HandleDelete(m)
  <2>1. job' = job
    BY <1>7 DEF HandleDelete
  <2>2. ASSUME NEW f \in Device, Outdated(f)' PROVE JobsFit(f)' /\ NotSent(f)'
    <3>1. disk'[f] = disk[f] /\ JobsFit(f) /\ NotSent(f)
      BY <1>6, <2>2
    <3>2. JobsFit(f)'
      BY <1>2, <2>1, <3>1 DEF JobsFit
    <3>3. NotSent(f)'
      BY <1>2, <1>4, <2>1, <3>1 DEF NotSent
    <3> QED BY <3>2, <3>3
  <2>3. SentInv'
    BY <1>2, <2>1 DEF TurnInv, SentInv
  <2> QED BY <1>6, <2>2, <2>3 DEF TurnInv, OutdatedInv
<1>8. ASSUME NEW h \in Job, TakeIndex(h, m) PROVE TurnInv'
  <2>1. /\ job'[h].pc = "deciding" /\ job'[h].at = m.to /\ job'[h].from = m.from
        /\ job'[h].local = index[m.to][watcher[m.to]] /\ m.kind = "index"
        /\ \A k \in Job : k # h => job'[k] = job[k]
    BY <1>8 DEF TakeIndex, TypeOK, CurrentIndex
  <2>2. watcher[m.to] \in Watcher
    BY <1>3 DEF TypeOK
  <2>3. ASSUME NEW f \in Device, Outdated(f)' PROVE JobsFit(f)' /\ NotSent(f)'
    <3>1. /\ disk'[f] = disk[f] /\ ScanFits(f) /\ JobsFit(f) /\ NotSent(f)
      BY <1>6, <2>3
    <3>2. m.to = f => /\ index[m.to][watcher[m.to]] # Absent
                      /\ index[m.to][watcher[m.to]].hash = disk[f].hash
      BY <2>2, <3>1 DEF ScanFits
    <3>3. JobsFit(f)'
      BY <1>2, <2>1, <3>1, <3>2 DEF JobsFit
    <3>4. NotSent(f)'
      BY <1>4, <2>1, <3>1 DEF NotSent
    <3> QED BY <3>3, <3>4
  <2>4. SentInv'
    BY <1>2, <2>1 DEF TurnInv, SentInv
  <2> QED BY <1>6, <2>3, <2>4 DEF TurnInv, OutdatedInv
<1> QED BY <1>1, <1>7, <1>8

\* An edit makes every other device outdated, at a moment when nothing is
\* under way.
LEMMA UserTurn ==
  ASSUME TypeInv, TurnInv, Undisturbed, PatientUsers, NEW d \in Device,
         Edit(d) \/ Delete(d)
  PROVE  TurnInv'
<1> USE DEF TypeInv
<1>1. Quiet /\ UNCHANGED <<links, greet, msgs, index, wpc, found, change, job, copies>>
  BY DEF Edit, Delete, MayTouch, scanVars, netVars
<1>2. BagToSet(msgs) = {}
  BY <1>1 DEF Quiet, EmptyBag, SetToBag, BagToSet
<1>3. \A h \in Job : job[h].pc = "idle"
  BY <1>1 DEF Quiet, Idle
<1>4. latest' \in {edits', Absent}
  BY DEF Edit, Delete
<1>5. SentInv'
  BY <1>1, <1>3, <1>4 DEF TurnInv, SentInv
<1>6. \A f \in Device : JobsFit(f)' /\ NotSent(f)'
  BY <1>1, <1>2, <1>3 DEF JobsFit, NotSent
<1>7. ASSUME NEW f \in Device, Outdated(f)' PROVE ScanFits(f)'
  <2>1. disk'[f] = disk[f] /\ disk[f] # Absent
    BY <1>7 DEF Edit, Delete, TypeOK, Outdated
  <2>2. ASSUME NEW g \in Watcher
        PROVE  /\ wpc[f][g] \in {"none", "stopped", "idle"}
               /\ change[f][g] = "none" /\ Hash(index[f][g]) = Hash(disk[f])
    <3>1. g = watcher[f]
      BY OneWatcher
    <3> QED BY <1>1, <3>1 DEF Quiet, CurrentIndex, ScanInv
  <2>3. ASSUME NEW g \in Watcher
        PROVE  index[f][g] # Absent /\ index[f][g].hash = disk[f].hash
    <3>1. disk[f].hash # Absent
      BY <2>1, VersionAssumption, BoundAssumption DEF TypeOK, Entry, Version
    <3> QED BY <2>1, <2>2, <3>1 DEF Hash
  <2> QED BY <1>1, <2>1, <2>2, <2>3 DEF ScanFits
<1> QED BY <1>5, <1>6, <1>7 DEF TurnInv, OutdatedInv

\* Every step that happens keeps the devices in turn.
LEMMA TurnStep ==
  ASSUME TypeInv, TurnInv, TimeInv, Undisturbed, PatientUsers, [Next]_vars
  PROVE  TurnInv'
<1>1. ASSUME NEW d \in Device, NEW g \in Watcher, ScanStep(d, g) \/ StopWatcher(d, g)
      PROVE  TurnInv'
  BY <1>1, ScanTurn, NothingLost
<1>2. ASSUME NEW h \in Job, JobStep(h) \/ FileLocked(h) PROVE TurnInv'
  BY <1>2, DecisionTurn, RenameTurn DEF JobStep
<1>3. CASE TakeMessage
  BY <1>3, MessageTurn
<1>4. \A d, e \in Device :
        /\ ~Connect(d, e) /\ ~SendFullIndex(d, e) /\ ~Disconnect(d, e)
        /\ ~RefreshWatchers(d) /\ ~TriggerSync(d) /\ ~Restart(d)
  BY NothingLost
<1>5. ASSUME NEW d \in Device, Edit(d) \/ Delete(d) PROVE TurnInv'
  BY <1>5, UserTurn
<1>6. CASE UNCHANGED vars
  <2>1. UNCHANGED <<disk, tmp, edits, latest, links, greet, msgs, index, wpc, found,
                    change, job, copies>>
    BY <1>6 DEF vars, scanVars, netVars, historyVars, countVars
  <2> QED BY <2>1 DEF TurnInv, OutdatedInv, SentInv, Outdated, ScanFits, JobsFit, NotSent
<1>7. Editors \subseteq Device
  BY DeviceAssumption
<1> QED
  BY <1>1, <1>2, <1>3, <1>4, <1>5, <1>6, <1>7 DEF Next, Environment

\* No time is later than the clock stops.
LEMMA TimeStep ==
  ASSUME TypeInv, TimeInv, [Next]_vars
  PROVE  TimeInv'
<1> USE DEF TypeInv
<1>0. InTime(Absent)
  BY DEF InTime
<1>1. Now <= MaxClock
  BY BoundAssumption DEF TimeInv, TypeOK, Now
<1>2. \A n : InTime([hash |-> n, time |-> Now])
  BY <1>1 DEF InTime
<1>3. clock' \in {clock, Now} /\ clock' <= MaxClock
  <2>1. clock' \in {clock, Now}
    BY FailFrame
    DEF Next, ScanStep, Walk, CompareIndex, ReplaceIndex, Notify, StopWatcher,
       JobStep, AlreadyHave, Decide, Fetch, RemoveDest, RenameTemp, HashDest,
       UpdateFile, TakeMessage, HandleDelete, TakeIndex, Connect, SendFullIndex,
       Environment, RefreshWatchers, TriggerSync, Restart, Edit, Delete, Disconnect, vars
  <2> QED BY <1>1, <2>1 DEF TimeInv
<1>4. ASSUME NEW d \in Device, NEW g \in Watcher, ScanStep(d, g) \/ StopWatcher(d, g)
      PROVE  TimeInv'
  <2>1. UNCHANGED <<disk, job>>
    BY <1>4 DEF ScanStep, Walk, CompareIndex, ReplaceIndex, Notify, StopWatcher
  <2>2. \A f \in Device, k \in Watcher :
          /\ index'[f][k] \in {index[f][k], found[f][k], Absent}
          /\ found'[f][k] \in {found[f][k], disk[f], Absent}
    BY <1>4 DEF ScanStep, Walk, CompareIndex, ReplaceIndex, Notify, StopWatcher, TypeOK
  <2>3. \A m \in BagToSet(msgs') : m \in BagToSet(msgs) \/ m.entry \in {Absent, found[d][g]}
    <3>1. CASE Notify(d, g)
      <4> DEFINE S == {IF change[d][g] = "deleted" THEN DeleteMsg(d, e)
                       ELSE IndexMsg(d, e, found[d][g]) : e \in Peers(d)}
      <4>1. \A m \in S : m.entry \in {Absent, found[d][g]}
        BY DEF DeleteMsg, IndexMsg
      <4>2. BagToSet(msgs') = BagToSet(msgs) \cup S
        <5>1. msgs' = msgs (+) SetToBag(S)
          BY <3>1 DEF Notify
        <5> HIDE DEF S
        <5> QED BY <5>1, BagUnionHolds DEF TypeOK
      <4> QED BY <4>1, <4>2
    <3>2. CASE ~Notify(d, g)
      BY <1>4, <3>2 DEF ScanStep, Walk, CompareIndex, ReplaceIndex, StopWatcher, netVars
    <3> QED BY <3>1, <3>2
  <2> QED BY <1>0, <1>3, <2>1, <2>2, <2>3 DEF TimeInv
<1>5. ASSUME NEW h \in Job, JobStep(h) \/ FileLocked(h) PROVE TimeInv'
  <2>1. msgs' = msgs /\ found' = found
    BY <1>5, FailFrame DEF JobStep, AlreadyHave, Decide, Fetch, RemoveDest, RenameTemp,
       HashDest, UpdateFile, netVars, scanVars
  <2>2. \A k \in Job : k # h => job'[k] = job[k]
    BY <1>5, TransferFrame DEF Transfers, JobStep, AlreadyHave, Decide, HashDest,
       UpdateFile, TypeOK
  <2>3. \A f \in Device :
          disk'[f] \in {disk[f], Absent} \/ \E n : disk'[f] = [hash |-> n, time |-> Now]
    <3>1. CASE UNCHANGED disk
      BY <3>1
    <3>2. CASE RemoveDest(h) \/ RenameTemp(h)
      <4>1. \A f \in Device : f # job[h].at => disk'[f] = disk[f]
        BY <3>2, TransferFrame DEF Transfers
      <4>2. \/ disk'[job[h].at] = Absent
            \/ disk'[job[h].at] = [hash |-> tmp[job[h].at], time |-> Now]
        BY <3>2, TransferFrame DEF Transfers
      <4> QED BY <4>1, <4>2
    <3> QED BY <1>5, <3>1, <3>2, FailFrame
            DEF JobStep, AlreadyHave, Decide, Fetch, HashDest, UpdateFile
  <2>4. \A f \in Device, g \in Watcher : InTime(index'[f][g])
    <3>1. CASE UNCHANGED index
      BY <3>1 DEF TimeInv
    <3>2. CASE AlreadyHave(h) /\ ~UNCHANGED index
      <4>1. index' = [index EXCEPT ![job[h].at][job[h].watcher] = disk[job[h].at]]
        BY <3>2 DEF AlreadyHave
      <4>2. \A f \in Device, g \in Watcher : index'[f][g] \in {index[f][g], disk[f]}
        BY <4>1 DEF TypeOK
      <4> QED BY <4>2 DEF TimeInv
    <3>3. CASE UpdateFile(h)
      <4>1. InTime(job[h].entry)
        BY <3>3 DEF UpdateFile, TimeInv
      <4>2. \A f \in Device, g \in Watcher : index'[f][g] \in {index[f][g], job[h].entry}
        BY <3>3 DEF UpdateFile, TypeOK
      <4> QED BY <4>1, <4>2 DEF TimeInv
    <3> QED BY <1>5, <3>1, <3>2, <3>3, FailFrame DEF JobStep, Decide, Fetch, RemoveDest,
            RenameTemp, HashDest, scanVars
  <2>5. job'[h].pc # "deciding" /\ (job'[h].pc = "indexing" => InTime(job'[h].entry))
    <3>1. CASE HashDest(h)
      BY <3>1, JobPlace DEF HashDest, TimeInv, TypeOK, Idle
    <3>2. CASE Transfers(h)
      BY <3>2, TransferFrame DEF Transfers
    <3>3. CASE AlreadyHave(h) \/ Decide(h) \/ UpdateFile(h)
      BY <3>3 DEF AlreadyHave, Decide, UpdateFile, TypeOK, Idle
    <3> QED BY <1>5, <3>1, <3>2, <3>3 DEF JobStep, Transfers
  <2>6. \A f \in Device : InTime(disk'[f])
    BY <1>0, <1>2, <2>3 DEF TimeInv
  <2> QED BY <1>3, <2>1, <2>2, <2>4, <2>5, <2>6 DEF TimeInv
<1>6. CASE TakeMessage
  <2>1. PICK m \in BagToSet(msgs) : HandleDelete(m) \/ \E h \in Job : TakeIndex(h, m)
    BY <1>6 DEF TakeMessage
  <2>2. BagToSet(msgs') \subseteq BagToSet(msgs) /\ m.to \in Device
    BY <2>1, BagRemoveHolds DEF HandleDelete, TakeIndex, TypeOK, Message
  <2>3. UNCHANGED <<index, found>>
    BY <2>1 DEF HandleDelete, TakeIndex, scanVars
  <2>4. \A f \in Device : disk'[f] \in {disk[f], Absent}
    BY <2>1, <2>2 DEF HandleDelete, TakeIndex, TypeOK
  <2>5. \A k \in Job :
          \/ job'[k] = job[k]
          \/ /\ job'[k].pc = "deciding" /\ job'[k].remote = m.entry
             /\ job'[k].local = index[m.to][watcher[m.to]]
    BY <2>1 DEF HandleDelete, TakeIndex, CurrentIndex, TypeOK
  <2>6. InTime(m.entry) /\ InTime(index[m.to][watcher[m.to]])
    BY <2>2 DEF TimeInv, TypeOK
  <2> QED BY <1>0, <1>3, <2>2, <2>3, <2>4, <2>5, <2>6 DEF TimeInv
<1>7. ASSUME NEW d \in Device, NEW e \in Device,
             \/ Connect(d, e) \/ SendFullIndex(d, e) \/ Disconnect(d, e)
             \/ TriggerSync(d) \/ RefreshWatchers(d) \/ Restart(d)
      PROVE  TimeInv'
  <2>1. UNCHANGED disk
    BY <1>7 DEF Connect, SendFullIndex, Disconnect, TriggerSync, RefreshWatchers, Restart
  <2>2. \A f \in Device, k \in Watcher :
          index'[f][k] \in {index[f][k], Absent} /\ found'[f][k] \in {found[f][k], Absent}
    <3>1. CASE Restart(d)
      BY <3>1 DEF Restart, TypeOK
    <3>2. CASE ~Restart(d)
      BY <1>7, <3>2 DEF Connect, SendFullIndex, Disconnect, TriggerSync,
         RefreshWatchers, scanVars
    <3> QED BY <3>1, <3>2
  <2>3. \A h \in Job : job'[h] = job[h] \/ job'[h].pc = "idle"
    <3>1. CASE job' = job
      BY <3>1
    <3>2. CASE Disconnect(d, e) \/ Restart(d)
      <4>1. \A h \in Job : job'[h] \in {Idle, job[h]}
        <5> HIDE DEF Idle
        <5> QED BY <3>2 DEF Disconnect, Restart
      <4> QED BY <4>1 DEF Idle
    <3> QED BY <1>7, <3>1, <3>2 DEF Connect, SendFullIndex, TriggerSync, RefreshWatchers
  <2>4. \A m \in BagToSet(msgs') : m \in BagToSet(msgs) \/ m.entry = CurrentIndex(d)
    <3>1. CASE SendFullIndex(d, e)
      BY <3>1, BagAddHolds DEF SendFullIndex, IndexMsg, TypeOK
    <3>2. ASSUME NEW lost, Drop(lost) PROVE BagToSet(msgs') \subseteq BagToSet(msgs)
      <4> DEFINE kept == {m \in BagToSet(msgs) : {m.from, m.to} \notin lost}
      <4>1. msgs' = [m \in kept |-> msgs[m]] /\ kept \subseteq BagToSet(msgs)
        BY <3>2 DEF Drop
      <4> HIDE DEF kept
      <4> QED BY <4>1, BagPartHolds DEF TypeOK
    <3>3. CASE Connect(d, e) \/ TriggerSync(d) \/ RefreshWatchers(d)
      BY <3>3 DEF Connect, TriggerSync, RefreshWatchers, netVars
    <3>4. CASE Disconnect(d, e) \/ Restart(d)
      BY <3>2, <3>4 DEF Disconnect, Restart
    <3> QED BY <1>7, <3>1, <3>3, <3>4
  <2>5. InTime(CurrentIndex(d))
    BY DEF TimeInv, TypeOK, CurrentIndex
  <2> QED BY <1>0, <1>3, <2>1, <2>2, <2>3, <2>4, <2>5 DEF TimeInv
<1>8. ASSUME NEW d \in Device, Edit(d) \/ Delete(d) PROVE TimeInv'
  <2>1. UNCHANGED <<index, found, msgs, job>>
    BY <1>8 DEF Edit, Delete, scanVars, netVars
  <2>2. \A f \in Device :
          disk'[f] \in {disk[f], Absent} \/ \E n : disk'[f] = [hash |-> n, time |-> Now]
    BY <1>8 DEF Edit, Delete, TypeOK
  <2> QED BY <1>0, <1>2, <1>3, <2>1, <2>2 DEF TimeInv
<1>9. CASE UNCHANGED vars
  BY <1>9 DEF vars, scanVars, netVars, TimeInv
<1>10. Editors \subseteq Device
  BY DeviceAssumption
<1> QED
  BY <1>4, <1>5, <1>6, <1>7, <1>8, <1>9, <1>10 DEF Next, Environment

-----------------------------------------------------------------------------
(* The theorems. *)

\* Every index entry, message, conflict copy and place of a goroutine keeps its
\* form, for any number of devices, watchers, goroutines and messages: in
\* particular no change is announced without an entry, except a deletion
\* (compareIndex, onChangesDetected).
THEOREM TypeCorrect == Spec => []TypeOK
<1>1. TypeInv => TypeOK
  BY DEF TypeInv
<1> QED BY <1>1, InitType, TypeStep, PTL DEF Spec

\* Unless deletions are synchronised, a file that no user deleted is never gone
\* from every device, however scans, announcements, transfers, lost sessions,
\* new watchers and edits interleave, if one device is stopped anywhere, say
\* between os.Remove and os.Rename of atomicRenameWithRetry, or if transfers
\* overlap and renames are given up, as often as they like, on one device only.
THEOREM FilesSurvive == ~SyncDelete => (Spec => FileSurvives)
<1> DEFINE IInv == TypeInv /\ AloneInv /\ SurviveInv
<1>1. ASSUME ~SyncDelete, IInv, [Next]_vars
      PROVE  IInv' /\ (deletes' = 0 /\ OneMishap' /\ Present => Present')
  BY <1>1, TypeStep, AloneStep, SurviveStep DEF TypeInv
<1>2. Init => IInv
  BY InitType, InitSurvive
<1>3. CASE ~SyncDelete
  <2>1. IInv /\ [Next]_vars =>
          IInv' /\ [deletes' = 0 /\ OneMishap' /\ Present => Present']_vars
    BY <1>1, <1>3
  <2> HIDE DEF IInv
  <2> QED BY <1>2, <2>1, PTL DEF Spec, FileSurvives
<1> QED BY <1>3

\* What users who take turns may rely on while no session is lost, no watcher
\* replaced and nothing synchronised by hand.
LEMMA TurnsHold ==
  PatientUsers /\ Undisturbed => (Spec => [](TypeInv /\ TurnInv /\ TimeInv))
<1>1. CASE PatientUsers /\ Undisturbed
  <2>1. Init => TypeInv /\ TurnInv /\ TimeInv
    BY InitType, InitTurn
  <2>2. TypeInv /\ TurnInv /\ TimeInv /\ [Next]_vars => (TypeInv /\ TurnInv /\ TimeInv)'
    BY <1>1, TypeStep, TurnStep, TimeStep
  <2> QED BY <2>1, <2>2, PTL DEF Spec
<1> QED BY <1>1

\* With edits inside the conflict window and sessions that last, a version that
\* a device replaces by another one was copied before, for any number of
\* devices, goroutines, overlapping transfers, locked files and deletions: no
\* announcement that arrives meanwhile is of an older version, and none is taken
\* by a device whose index lags behind what its users wrote (Resolve,
\* saveConflictCopy).
THEOREM ReplacedAreCopied ==
  Undisturbed /\ AllInWindow => (Spec => ReplacedIsCopied)
<1> DEFINE Copied(h, d) ==
      /\ PatientUsers /\ Strategy = "rename"
      /\ job[h].pc = "removing" /\ job'[h].pc = "renaming" /\ job[h].at = d
      /\ Absent \notin {disk[d], tmp[d]} /\ Hash(disk[d]) # tmp[d]
      => [at |-> d, hash |-> Hash(disk[d])] \in copies
<1>1. CASE PatientUsers /\ Undisturbed /\ AllInWindow
  <2>1. ASSUME TypeInv, TurnInv, NEW h \in Job, NEW d \in Device PROVE Copied(h, d)
    <3> SUFFICES ASSUME Strategy = "rename", job[h].pc = "removing", job[h].at = d,
                        Absent \notin {disk[d], tmp[d]}, Hash(disk[d]) # tmp[d]
                 PROVE  [at |-> d, hash |-> Hash(disk[d])] \in copies
      OBVIOUS
    <3>1. tmp[d] = edits
      BY <2>1 DEF TurnInv, SentInv
    <3>2. Outdated(d) /\ Hash(disk[d]) = disk[d].hash
      BY <3>1 DEF Outdated, Hash
    <3>3. JobsFit(d)
      BY <2>1, <3>2 DEF TurnInv, OutdatedInv
    <3> QED BY <1>1, <3>2, <3>3 DEF JobsFit
  <2>2. TypeInv /\ TurnInv /\ TimeInv /\ [Next]_vars =>
          [\A h \in Job : \A d \in Device : Copied(h, d)]_vars
    BY <2>1
  <2> QED BY <1>1, <2>2, TurnsHold, PTL DEF Spec, ReplacedIsCopied
<1>2. CASE ~PatientUsers
  <2>1. [Next]_vars => [\A h \in Job : \A d \in Device : Copied(h, d)]_vars
    BY <1>2
  <2> QED BY <2>1, PTL DEF Spec, ReplacedIsCopied
<1> QED BY <1>1, <1>2

\* With sessions that last, and without SyncDelete, a device gives up the
\* version written last only for the rename of another copy of it, which lies
\* in its temporary file, or once two of its transfers overlapped or a rename
\* was given up: whatever the strategy, and however scans, announcements and
\* transfers interleave (handleIndexMessage, atomicRenameWithRetry).
THEOREM LatestIsKept ==
  Undisturbed /\ ~SyncDelete => (Spec => LatestKept)
<1> DEFINE Keeps(d) ==
      /\ PatientUsers /\ latest' = latest
      /\ disk[d] # Absent /\ Hash(disk[d]) = latest /\ Hash(disk'[d]) # latest
      => \/ \E h \in Job : /\ job'[h].pc = "renaming" /\ job'[h].at = d
                           /\ tmp'[d] = latest
         \/ d \in spoiled'
<1>1. CASE PatientUsers /\ Undisturbed /\ ~SyncDelete
  <2>1. ASSUME TypeInv, AloneInv, TurnInv, Next, NEW d \in Device PROVE Keeps(d)
    <3> SUFFICES ASSUME latest' = latest, disk[d] # Absent, Hash(disk[d]) = latest,
                        Hash(disk'[d]) # latest, d \notin spoiled'
                 PROVE  \E h \in Job : /\ job'[h].pc = "renaming" /\ job'[h].at = d
                                       /\ tmp'[d] = latest
      OBVIOUS
    <3>1. latest = edits /\ disk'[d] # disk[d] /\ edits \in Nat /\ edits # Absent
      <4>1. disk[d].hash \in Nat /\ edits \in Nat
        BY <2>1, BoundAssumption DEF TypeInv, TypeOK, Entry, Version
      <4>2. Absent \notin Nat
        BY VersionAssumption
      <4>3. latest \in {edits, Absent}
        BY <2>1 DEF TurnInv, SentInv
      <4> QED BY <4>1, <4>2, <4>3 DEF Hash
    <3>2. PICK h \in Job : RemoveDest(h) \/ RenameTemp(h)
      <4>1. \A f \in Device : ~Edit(f) /\ ~Delete(f)
        BY <3>1 DEF Edit, Delete
      <4>2. Editors \subseteq Device
        BY DeviceAssumption
      <4>3. ~TakeMessage
        BY <1>1, <3>1 DEF TakeMessage, HandleDelete, TakeIndex
      <4>4. \A f \in Device, e \in Device :
              /\ ~Connect(f, e) /\ ~SendFullIndex(f, e) /\ ~Disconnect(f, e)
              /\ ~RefreshWatchers(f) /\ ~TriggerSync(f) /\ ~Restart(f)
        BY <1>1, <2>1, NothingLost
      <4>5. \A f \in Device, g \in Watcher : ~ScanStep(f, g) /\ ~StopWatcher(f, g)
        BY <3>1 DEF ScanStep, Walk, CompareIndex, ReplaceIndex, Notify, StopWatcher
      <4>6. \A h \in Job : ~AlreadyHave(h) /\ ~Decide(h) /\ ~Fetch(h) /\ ~HashDest(h)
                           /\ ~UpdateFile(h) /\ ~FileLocked(h) /\ ~TempGone(h)
        BY <3>1 DEF AlreadyHave, Decide, Fetch, HashDest, UpdateFile, FileLocked,
           TempGone
      <4> QED BY <2>1, <4>1, <4>2, <4>3, <4>4, <4>5, <4>6
              DEF Next, JobStep, Environment
    <3>3. job[h].at = d /\ Renames(h) /\ tmp[d] \in {edits, Absent}
      <4>1. \A f \in Device : f # job[h].at => disk'[f] = disk[f]
        BY <2>1, <3>2, TransferFrame DEF Transfers, TypeInv
      <4>2. job[h].at = d
        BY <3>1, <4>1
      <4>3. Renames(h)
        BY <3>2 DEF RemoveDest, RenameTemp
      <4> QED BY <2>1, <4>2, <4>3 DEF TurnInv, SentInv
    <3>4. CASE RemoveDest(h)
      <4>1. /\ job'[h].pc = "renaming" /\ job'[h].at = d /\ tmp' = tmp
            /\ spoiled' = spoiled
        BY <2>1, <3>3, <3>4, TransferFrame DEF Transfers, TypeInv
      <4>2. tmp[d] # Absent
        BY <2>1, <3>3, <4>1 DEF AloneInv
      <4> QED BY <3>1, <3>3, <4>1, <4>2
    <3>5. CASE RenameTemp(h)
      <4>1. /\ disk'[d] = [hash |-> tmp[d], time |-> Now] /\ disk'[d] # Absent
            /\ tmp[d] # Absent
        BY <2>1, <3>3, <3>5, TransferFrame DEF Transfers, TypeInv
      <4> QED BY <3>1, <3>3, <4>1 DEF Hash
    <3> QED BY <3>2, <3>4, <3>5
  <2>2. TypeInv /\ TurnInv /\ TimeInv /\ AloneInv /\ [Next]_vars =>
          AloneInv' /\ [\A d \in Device : Keeps(d)]_vars
    BY <2>1, AloneStep DEF TypeInv
  <2>3. Init => AloneInv
    BY InitSurvive
  <2> QED BY <1>1, <2>2, <2>3, TurnsHold, PTL DEF Spec, LatestKept
<1>2. CASE ~PatientUsers
  <2>1. [Next]_vars => [\A d \in Device : Keeps(d)]_vars
    BY <1>2
  <2> QED BY <2>1, PTL DEF Spec, LatestKept
<1> QED BY <1>1, <1>2
=============================================================================
