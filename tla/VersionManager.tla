--------------------------- MODULE VersionManager ---------------------------
(***************************************************************************)
(* The archive of replaced files, .stversions (sync/versioning.go).        *)
(*                                                                         *)
(* Transfers save the file they are about to replace and clean its old     *)
(* versions; RestoreVersion and CleanAllVersions are offered to callers    *)
(* and work on the same directory.  vm.mu guards the settings only, so     *)
(* every operation is a sequence of steps on the disk that interleaves     *)
(* with the others.                                                        *)
(*                                                                         *)
(* A version is named after its file and the second it was saved in.  The  *)
(* name is what cleaning has to go by: files whose names begin and end     *)
(* alike are listed together (README lists README.md~... as its own), and  *)
(* the second was written in local time but is read back as UTC.           *)
(***************************************************************************)
EXTENDS Integers, FiniteSets

CONSTANTS
  File,          \* files of one directory
  Content,       \* what they contain
  Absent,        \* what a missing file contains
  Worker,        \* goroutines that save or restore
  NoVersion,     \* a worker that restores nothing
  AlsoLists,     \* <<f, g>>: the versions of g carry the prefix and suffix of f
  MaxVersions,   \* vm.maxVersions, 0 for no limit
  MaxAge,        \* vm.maxAge, 0 for no limit
  Zone,          \* the local zone's distance from UTC
  MaxTime,       \* bound: seconds that pass
  MaxJobs,       \* bound: files replaced or restored
  MaxSweeps      \* bound: versions CleanAllVersions removes

\* No local zone is farther from UTC.
Day == 86400

ASSUME NameAssumption ==
  /\ AlsoLists \subseteq File \X File
  /\ \A f \in File : <<f, f>> \notin AlsoLists
  /\ Absent \notin Content
  /\ NoVersion \notin File \X Nat
ASSUME LimitAssumption ==
  /\ MaxVersions \in Nat /\ MaxAge \in Nat
  /\ Zone \in Int /\ -Day <= Zone /\ Zone <= Day
ASSUME BoundAssumption ==
  MaxTime \in Nat /\ MaxJobs \in Nat /\ MaxSweeps \in Nat

VARIABLES
  now,           \* the clock, in seconds
  disk,          \* the files
  archive,       \* contents of .stversions: name -> file
  job,           \* what each worker is doing
  log,           \* history: every version written, with its name
  swept,         \* history: versions CleanAllVersions removed
  jobs, sweeps   \* bounded actions so far

bounds == <<jobs, sweeps>>
vars == <<now, disk, archive, job, log, swept, bounds>>

-----------------------------------------------------------------------------
Stored == [data : Content, mod : Nat]
Name == File \X Nat

\* The name's timestamp; of the other files it lists, cleaning makes the zero
\* time, long before any.
Zero == -1000000
VersionTime(f, v) == IF v[1] = f THEN v[2] + Zone ELSE Zero

\* Mutant of Listed: only what was saved earlier.
ListedEarlier(f, v) == v[1] = f /\ v[2] < now

\* ListVersions takes every name with the file's prefix and suffix.
Listed(f, v) == v[1] = f \/ <<f, v[1]>> \in AlsoLists

Versions(f) == {v \in DOMAIN archive : Listed(f, v)}

\* The sets of versions behind the first MaxVersions; entries of equal time
\* are in any order.
Excess(f, l) ==
  IF MaxVersions = 0 \/ Cardinality(l) <= MaxVersions THEN {{}}
  ELSE {e \in SUBSET l :
          /\ Cardinality(l \ e) = MaxVersions
          /\ \A v \in l \ e, w \in e : VersionTime(f, v) >= VersionTime(f, w)}

Aged(f, l) ==
  IF MaxAge = 0 THEN {} ELSE {v \in l : now - VersionTime(f, v) > MaxAge}

Missing == [data |-> Absent, mod |-> 0]

\* Mutant of ReadFails: the error is ignored, and nothing is kept as a version.
ReadFailsIgnored(f) == FALSE

\* os.ReadFile of a file that is not there.
ReadFails(f) == disk[f] = Missing

Without(v) == [w \in DOMAIN archive \ {v} |-> archive[w]]

Idle == [pc |-> "idle"]
Busy(w) == job[w] # Idle

-----------------------------------------------------------------------------
Init ==
  /\ now = 2
  /\ disk \in [File -> [data : Content, mod : {0}]]
  /\ archive = [v \in {} |-> {}]
  /\ job = [w \in Worker |-> Idle]
  /\ log = {} /\ swept = {}
  /\ jobs = 0 /\ sweeps = 0

\* What follows a save, whatever became of it.
AfterSave(v) == IF v = NoVersion THEN "remove" ELSE "read"

\* SaveVersion of f up to its check: when the file is there, its version gets
\* the name of this second.  v is the version to restore afterwards, or c is
\* what a transfer will put in the file's place.
StartSave(w, f, v, c) ==
  /\ ~Busy(w) /\ jobs < MaxJobs
  /\ jobs' = jobs + 1
  /\ job' = [job EXCEPT ![w] =
       [pc |-> IF disk[f] = Missing THEN AfterSave(v) ELSE "copy",
        file |-> f, restore |-> v, put |-> c, begun |-> now,
        mod |-> disk[f].mod, old |-> {}]]
  /\ UNCHANGED <<now, disk, archive, log, swept, sweeps>>

\* A transfer saves the file before it replaces it.
Replace(w, f, c) == StartSave(w, f, NoVersion, c)

\* RestoreVersion: the version must be there, and the file is saved first.
\* put remembers what was asked for.
Restore(w, v) ==
  v \in DOMAIN archive /\ StartSave(w, v[1], v, archive[v].data)

\* It is read and written under that name, over what may be there, with the
\* modification time found before.
Copy(w) ==
  /\ Busy(w) /\ job[w].pc = "copy"
  /\ LET j == job[w]
         name == <<j.file, j.begun>>
         found == disk[j.file].data
     IN
       \/ /\ ReadFails(j.file)
          /\ job' = [job EXCEPT ![w].pc = AfterSave(j.restore)]
          /\ UNCHANGED <<archive, log>>
       \/ /\ ~ReadFails(j.file)
          /\ archive' = [v \in DOMAIN archive \cup {name} |->
               IF v = name THEN [data |-> found, mod |-> j.mod]
                           ELSE archive[v]]
          /\ log' = log \cup {[name |-> name, data |-> found]}
          /\ job' = [job EXCEPT ![w].pc = "list"]
  /\ UNCHANGED <<now, disk, swept, bounds>>

\* Mutant of Doomed: the listing is taken from its other end.
DoomedNewest(f, l) ==
  {Aged(f, l) \cup (l \ e) : e \in Excess(f, l)}

\* The versions cleaning may decide to remove.
Doomed(f, l) == {Aged(f, l) \cup e : e \in Excess(f, l)}

\* cleanVersions lists the file's versions and goes through them.
List(w) ==
  /\ Busy(w) /\ job[w].pc = "list"
  /\ LET f == job[w].file IN
     \E old \in Doomed(f, Versions(f)) :
       job' = [job EXCEPT
         ![w].pc = IF old = {} THEN AfterSave(job[w].restore) ELSE "clean",
         ![w].old = old]
  /\ UNCHANGED <<now, disk, archive, log, swept, bounds>>

\* One of them is removed, newest first; another goroutine may have been
\* faster.
Clean(w) ==
  /\ Busy(w) /\ job[w].pc = "clean"
  /\ \E v \in job[w].old :
       /\ \A x \in job[w].old :
            VersionTime(job[w].file, v) >= VersionTime(job[w].file, x)
       /\ archive' = Without(v)
       /\ job' = [job EXCEPT
            ![w].pc = IF job[w].old = {v} THEN AfterSave(job[w].restore)
                                          ELSE "clean",
            ![w].old = @ \ {v}]
  /\ UNCHANGED <<now, disk, log, swept, bounds>>

\* The transfer removes the file and renames the received one into place.
Remove(w) ==
  /\ Busy(w) /\ job[w].pc = "remove"
  /\ disk' = [disk EXCEPT ![job[w].file] = Missing]
  /\ job' = [job EXCEPT ![w].pc = "put"]
  /\ UNCHANGED <<now, archive, log, swept, bounds>>

Put(w) ==
  /\ Busy(w) /\ job[w].pc = "put"
  /\ disk' = [disk EXCEPT ![job[w].file] = [data |-> job[w].put, mod |-> now]]
  /\ job' = [job EXCEPT ![w] = Idle]
  /\ UNCHANGED <<now, archive, log, swept, bounds>>

\* Mutant of Found: any version of the file will do.
FoundAny(v) == {x \in DOMAIN archive : x[1] = v[1]}

\* RestoreVersion opens the version under the name it was given.
Found(v) == {v} \cap DOMAIN archive

\* It reads the version, which cleaning may have removed by now, and
\* overwrites the file.
ReadVersion(w) ==
  /\ Busy(w) /\ job[w].pc = "read"
  /\ LET j == job[w] IN
       \/ /\ Found(j.restore) = {}
          /\ UNCHANGED disk
       \/ \E v \in Found(j.restore) :
            disk' = [disk EXCEPT ![j.file] =
                       [data |-> archive[v].data, mod |-> now]]
  /\ job' = [job EXCEPT ![w] = Idle]
  /\ UNCHANGED <<now, archive, log, swept, bounds>>

\* CleanAllVersions walks the archive, and comes upon v: it goes by the
\* file's modification time, which is the original's.
Sweep(v) ==
  /\ sweeps < MaxSweeps
  /\ v \in DOMAIN archive
  /\ MaxAge > 0 /\ now - archive[v].mod > MaxAge
  /\ sweeps' = sweeps + 1
  /\ archive' = Without(v) /\ swept' = swept \cup {v}
  /\ UNCHANGED <<now, disk, job, log, jobs>>

Tick ==
  /\ now < MaxTime
  /\ now' = now + 1
  /\ UNCHANGED <<disk, archive, job, log, swept, bounds>>

Next ==
  \/ \E w \in Worker :
       \/ \E f \in File, c \in Content : Replace(w, f, c)
       \/ \E v \in DOMAIN archive : Restore(w, v)
       \/ Copy(w) \/ List(w) \/ Clean(w)
       \/ Remove(w) \/ Put(w) \/ ReadVersion(w)
  \/ \E v \in DOMAIN archive : Sweep(v)
  \/ Tick

Spec == Init /\ [][Next]_vars

-----------------------------------------------------------------------------
(* Properties. *)

Job ==
  [pc : {"copy", "list", "clean", "remove", "put", "read"}, file : File,
   restore : Name \cup {NoVersion}, put : Content, begun : Nat, mod : Nat,
   old : SUBSET Name]

TypeOK ==
  /\ now \in Nat
  /\ disk \in [File -> Stored \cup {Missing}]
  /\ DOMAIN archive \subseteq Name
  /\ \A v \in DOMAIN archive : archive[v] \in Stored
  /\ job \in [Worker -> Job \cup {Idle}]
  /\ swept \subseteq Name
  /\ log \subseteq [name : Name, data : Content]
  /\ jobs \in Nat /\ sweeps \in Nat

\* Versions of the same file saved in a later second.
Later(v) == {e.name : e \in {x \in log : x.name[1] = v[1] /\ x.name[2] > v[2]}}

\* A version the limits entitle to stay: among the newest MaxVersions and
\* young enough even for a clock read in the wrong zone.
Deserves(v) ==
  /\ MaxVersions = 0 \/ Cardinality(Later(v)) < MaxVersions
  /\ MaxAge = 0 \/ now - v[2] <= MaxAge + Zone
  /\ v \notin swept

\* Two saves of the file within one second: the later one took the name.
Shared(v) == \E x, y \in log : x.name = v /\ y.name = v /\ x.data # y.data

\* Another file's listing takes the versions of this one for its own.
Misread(v) == \E f \in File : <<f, v[1]>> \in AlsoLists

\* Whatever saves, cleanings and restores overlap, a version that was saved
\* and deserves to stay is in the archive with the content it was saved with,
\* unless its name is not its own.
DeservedIsKept ==
  \A e \in log :
    Deserves(e.name) /\ ~Misread(e.name) =>
      /\ e.name \in DOMAIN archive
      /\ Shared(e.name) \/ archive[e.name].data = e.data

\* Cleanings that overlap do not leave more than MaxVersions of a file behind.
ArchiveBounded ==
  MaxVersions > 0 /\ (\A w \in Worker : ~Busy(w) \/ job[w].pc = "copy") =>
    \A f \in File :
      Cardinality({v \in DOMAIN archive : v[1] = f}) <= MaxVersions

\* RestoreVersion brings back the content that was asked for, as long as the
\* save it makes first, and those of other goroutines, leave the version among
\* those that deserve to stay.
RestoreSucceeds ==
  [][\A w \in Worker :
       Busy(w) /\ job[w].pc = "read" /\ ~Busy(w)' =>
         LET v == job[w].restore IN
         Deserves(v) /\ ~Misread(v) /\ ~Shared(v)
           => disk'[v[1]].data = job[w].put]_vars
=============================================================================
