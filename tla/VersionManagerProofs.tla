------------------------ MODULE VersionManagerProofs ------------------------
(* Proofs about VersionManager: whatever saves, cleanings, restores and      *)
(* sweeps overlap, the archive keeps what its limits entitle to stay and not *)
(* more of a file than they allow.                                           *)
EXTENDS VersionManager, TLAPS, FiniteSetTheorems

\* A version of that name was written once.
Logged(v) == \E e \in log : e.name = v

\* What is in the archive was written there as it is.
ArchiveInv ==
  /\ IsFiniteSet(DOMAIN archive)
  /\ IsFiniteSet(log)
  /\ \A v \in DOMAIN archive : [name |-> v, data |-> archive[v].data] \in log

\* What a worker has decided to remove was written once, and is gone through
\* in the clean stage; what it is to restore was written as it remembers it.
JobInv ==
  \A w \in Worker : Busy(w) =>
    /\ \A v \in job[w].old : Logged(v)
    /\ job[w].old # {} => job[w].pc = "clean"
    /\ job[w].restore # NoVersion =>
         /\ job[w].file = job[w].restore[1]
         /\ [name |-> job[w].restore, data |-> job[w].put] \in log
    /\ job[w].pc = "read" => job[w].restore # NoVersion

\* No worker is about to remove it.
Spared(v) == \A w \in Worker : Busy(w) => v \notin job[w].old

\* A version that deserves to stay is there, and no worker is about to remove
\* it: the listing was older than the removal, but what it left out stays left
\* out, as a version deserves to stay less and less.
KeptInv ==
  \A e \in log :
    Deserves(e.name) /\ ~Misread(e.name)
      => e.name \in DOMAIN archive /\ Spared(e.name)

\* Somebody has yet to list the versions of f, or those nobody is about to
\* remove are no more than the limit.
Listing(f) ==
  \E w \in Worker : Busy(w) /\ job[w].pc = "list" /\ job[w].file = f

Spares(f) == {v \in DOMAIN archive : v[1] = f /\ Spared(v)}

BoundInv ==
  MaxVersions > 0 =>
    \A f \in File : Listing(f) \/ Cardinality(Spares(f)) <= MaxVersions

IInv == TypeOK /\ ArchiveInv /\ JobInv /\ KeptInv /\ BoundInv

-----------------------------------------------------------------------------
(* How an action changes the job of its worker. *)

Stage == {"copy", "list", "clean", "remove", "put", "read"}

\* The worker goes on at another stage, with other versions to remove.
Moves(w, q, o) ==
  /\ \A u \in Worker : u # w => job'[u] = job[u]
  /\ job' \in [Worker -> Job \cup {Idle}]
  /\ job'[w] \in Job
  /\ job'[w].pc = q /\ job'[w].old = o
  /\ job'[w].file = job[w].file /\ job'[w].restore = job[w].restore
  /\ job'[w].put = job[w].put

\* The worker is done.
Ends(w) ==
  /\ \A u \in Worker : u # w => job'[u] = job[u]
  /\ job' \in [Worker -> Job \cup {Idle}]
  /\ job'[w] = Idle

LEMMA JobForm ==
  ASSUME TypeOK, NEW w \in Worker, Busy(w)
  PROVE  /\ job[w] \in Job /\ job[w].file \in File
         /\ job[w].restore \in Name \cup {NoVersion}
         /\ job[w].put \in Content /\ job[w].begun \in Nat
         /\ job[w].mod \in Nat /\ job[w].old \subseteq Name
<1>1. job[w] \in Job
  BY DEF TypeOK, Busy
<1> QED BY <1>1 DEF Job

LEMMA JobIsBusy == \A j \in Job : j # Idle
BY DEF Job, Idle

LEMMA Goes ==
  ASSUME TypeOK, NEW w \in Worker, Busy(w), NEW q \in Stage,
         job' = [job EXCEPT ![w].pc = q]
  PROVE  Moves(w, q, job[w].old)
<1>1. job[w] \in Job /\ job \in [Worker -> Job \cup {Idle}]
  BY JobForm DEF TypeOK
<1>2. job'[w] = [job[w] EXCEPT !.pc = q]
  BY <1>1
<1>3. job'[w] \in Job /\ job'[w].pc = q /\ job'[w].old = job[w].old
      /\ job'[w].file = job[w].file /\ job'[w].restore = job[w].restore
      /\ job'[w].put = job[w].put
  BY <1>1, <1>2 DEF Job, Stage
<1> QED BY <1>1, <1>3 DEF Moves

LEMMA GoesWith ==
  ASSUME TypeOK, NEW w \in Worker, Busy(w), NEW q \in Stage,
         NEW o \in SUBSET Name,
         job' = [job EXCEPT ![w].pc = q, ![w].old = o]
  PROVE  Moves(w, q, o)
<1>1. job[w] \in Job /\ job \in [Worker -> Job \cup {Idle}]
  BY JobForm DEF TypeOK
<1>2. job'[w] = [job[w] EXCEPT !.pc = q, !.old = o]
  BY <1>1
<1>3. job'[w] \in Job /\ job'[w].pc = q /\ job'[w].old = o
      /\ job'[w].file = job[w].file /\ job'[w].restore = job[w].restore
      /\ job'[w].put = job[w].put
  BY <1>1, <1>2 DEF Job, Stage
<1> QED BY <1>1, <1>3 DEF Moves

LEMMA Stops ==
  ASSUME TypeOK, NEW w \in Worker, job' = [job EXCEPT ![w] = Idle]
  PROVE  Ends(w)
BY DEF TypeOK, Ends

LEMMA AfterSaveStage == \A v : AfterSave(v) \in {"remove", "read"}
BY DEF AfterSave

LEMMA CopyMoves ==
  ASSUME TypeOK, NEW w \in Worker, Copy(w)
  PROVE  \/ /\ UNCHANGED <<archive, log>>
            /\ Moves(w, AfterSave(job[w].restore), job[w].old)
         \/ /\ archive' = [v \in DOMAIN archive \cup {<<job[w].file, job[w].begun>>} |->
                 IF v = <<job[w].file, job[w].begun>>
                 THEN [data |-> disk[job[w].file].data, mod |-> job[w].mod]
                 ELSE archive[v]]
            /\ log' = log \cup {[name |-> <<job[w].file, job[w].begun>>,
                                 data |-> disk[job[w].file].data]}
            /\ disk[job[w].file].data \in Content
            /\ Moves(w, "list", job[w].old)
<1> USE DEF Copy
<1>1. CASE ReadFails(job[w].file)
  BY <1>1, Goes, AfterSaveStage DEF Stage
<1>2. CASE ~ReadFails(job[w].file)
  <2>1. disk[job[w].file] \in Stored
    BY <1>2, JobForm DEF ReadFails, TypeOK
  <2> QED BY <1>2, <2>1, Goes DEF Stage, Stored
<1> QED BY <1>1, <1>2

LEMMA ListMoves ==
  ASSUME TypeOK, NEW w \in Worker, List(w)
  PROVE  \E old \in Doomed(job[w].file, Versions(job[w].file)) :
           /\ old \subseteq Versions(job[w].file)
           /\ Moves(w, IF old = {} THEN AfterSave(job[w].restore) ELSE "clean",
                    old)
<1> USE DEF List
<1>1. PICK old \in Doomed(job[w].file, Versions(job[w].file)) :
        job' = [job EXCEPT
          ![w].pc = IF old = {} THEN AfterSave(job[w].restore) ELSE "clean",
          ![w].old = old]
  OBVIOUS
<1>2. old \subseteq Versions(job[w].file)
  BY DEF Doomed, Excess, Aged
<1>3. old \in SUBSET Name
  BY <1>2 DEF Versions, TypeOK
<1>4. (IF old = {} THEN AfterSave(job[w].restore) ELSE "clean") \in Stage
  BY AfterSaveStage DEF Stage
<1> QED BY <1>1, <1>2, <1>3, <1>4, GoesWith

LEMMA CleanMoves ==
  ASSUME TypeOK, NEW w \in Worker, Clean(w)
  PROVE  \E v \in job[w].old :
           /\ archive' = Without(v)
           /\ Moves(w, IF job[w].old = {v} THEN AfterSave(job[w].restore)
                                           ELSE "clean", job[w].old \ {v})
<1> USE DEF Clean
<1>1. PICK v \in job[w].old :
        /\ archive' = Without(v)
        /\ job' = [job EXCEPT
             ![w].pc = IF job[w].old = {v} THEN AfterSave(job[w].restore)
                                           ELSE "clean",
             ![w].old = @ \ {v}]
  OBVIOUS
<1>2. (IF job[w].old = {v} THEN AfterSave(job[w].restore) ELSE "clean") \in Stage
  BY AfterSaveStage DEF Stage
<1>3. job[w].old \ {v} \in SUBSET Name
  BY JobForm
<1>4. job' = [job EXCEPT
        ![w].pc = IF job[w].old = {v} THEN AfterSave(job[w].restore)
                                      ELSE "clean",
        ![w].old = job[w].old \ {v}]
  <2>1. job[w] \in Job /\ job \in [Worker -> Job \cup {Idle}]
    BY JobForm DEF TypeOK
  <2> QED BY <1>1, <2>1 DEF Job
<1> QED BY <1>1, <1>2, <1>3, <1>4, GoesWith

LEMMA StartMoves ==
  ASSUME TypeOK, NEW w \in Worker, NEW f \in File, NEW v \in Name \cup {NoVersion},
         NEW c \in Content, StartSave(w, f, v, c)
  PROVE  /\ \A u \in Worker : u # w => job'[u] = job[u]
         /\ job' \in [Worker -> Job \cup {Idle}]
         /\ job'[w] \in Job
         /\ job'[w].pc \in {"copy", AfterSave(v)} /\ job'[w].old = {}
         /\ job'[w].file = f /\ job'[w].restore = v /\ job'[w].put = c
<1> USE DEF StartSave
<1> DEFINE j == [pc |-> IF disk[f] = Missing THEN AfterSave(v) ELSE "copy",
                 file |-> f, restore |-> v, put |-> c, begun |-> now,
                 mod |-> disk[f].mod, old |-> {}]
<1>1. disk[f].mod \in Nat /\ now \in Nat
  BY DEF TypeOK, Stored, Missing
<1>2. j \in Job
  BY <1>1, AfterSaveStage DEF Job
<1>3. job' = [job EXCEPT ![w] = j]
  OBVIOUS
<1>4. job'[w] = j /\ \A u \in Worker : u # w => job'[u] = job[u]
  BY <1>3 DEF TypeOK
<1>5. job' \in [Worker -> Job \cup {Idle}]
  BY <1>2, <1>3 DEF TypeOK
<1> QED BY <1>2, <1>4, <1>5

-----------------------------------------------------------------------------
(* Types. *)

LEMMA InitType == Init => TypeOK
BY BoundAssumption DEF Init, TypeOK, Stored

LEMMA TypeStep == TypeOK /\ [Next]_vars => TypeOK'
<1> SUFFICES ASSUME TypeOK, [Next]_vars PROVE TypeOK'
  OBVIOUS
<1>1. ASSUME NEW w \in Worker, NEW f \in File, NEW v \in Name \cup {NoVersion},
             NEW c \in Content, StartSave(w, f, v, c)
      PROVE  TypeOK'
  <2>1. job' \in [Worker -> Job \cup {Idle}]
    BY <1>1, StartMoves
  <2>2. jobs' = jobs + 1 /\ UNCHANGED <<now, disk, archive, log, swept, sweeps>>
    BY <1>1 DEF StartSave
  <2> QED BY <2>1, <2>2 DEF TypeOK
<1>2. ASSUME NEW v \in DOMAIN archive
      PROVE  v \in Name /\ v[1] \in File /\ archive[v].data \in Content
  BY DEF TypeOK, Name, Stored
<1>3. ASSUME NEW w \in Worker, Copy(w) PROVE TypeOK'
  <2>1. /\ <<job[w].file, job[w].begun>> \in Name
        /\ job[w].mod \in Nat /\ job' \in [Worker -> Job \cup {Idle}]
    BY <1>3, CopyMoves, JobForm DEF Copy, Name, Moves
  <2>2. /\ DOMAIN archive' \subseteq Name
        /\ \A v \in DOMAIN archive' : archive'[v] \in Stored
        /\ log' \subseteq [name : Name, data : Content]
    <3>1. CASE UNCHANGED <<archive, log>>
      BY <3>1 DEF TypeOK
    <3>2. CASE ~UNCHANGED <<archive, log>>
      <4> DEFINE n == <<job[w].file, job[w].begun>>
                 r == [data |-> disk[job[w].file].data, mod |-> job[w].mod]
      <4>1. /\ archive' = [v \in DOMAIN archive \cup {n} |->
                             IF v = n THEN r ELSE archive[v]]
            /\ log' = log \cup {[name |-> n, data |-> disk[job[w].file].data]}
            /\ disk[job[w].file].data \in Content
        BY <1>3, <3>2, CopyMoves
      <4>2. r \in Stored /\ n \in Name
        BY <2>1, <4>1 DEF Stored
      <4> HIDE DEF n, r
      <4>3. \A v \in DOMAIN archive' : archive'[v] \in Stored
        BY <4>1, <4>2 DEF TypeOK
      <4> QED BY <4>1, <4>2, <4>3 DEF TypeOK
    <3> QED BY <3>1, <3>2
  <2> QED BY <1>3, <2>1, <2>2 DEF TypeOK, Copy, bounds
<1>4. ASSUME NEW w \in Worker, List(w) PROVE TypeOK'
  BY <1>4, ListMoves DEF List, Moves, TypeOK, bounds
<1>5. ASSUME NEW w \in Worker, Clean(w) PROVE TypeOK'
  BY <1>5, CleanMoves DEF Clean, Moves, Without, TypeOK, bounds
<1>6. ASSUME NEW w \in Worker, Remove(w) PROVE TypeOK'
  BY <1>6, JobForm, Goes DEF Remove, Stage, Moves, TypeOK, bounds
<1>7. ASSUME NEW w \in Worker, Put(w) PROVE TypeOK'
  BY <1>7, JobForm, Stops DEF Put, Ends, TypeOK, bounds, Stored
<1>8. ASSUME NEW w \in Worker, ReadVersion(w) PROVE TypeOK'
  <2>1. disk' \in [File -> Stored \cup {Missing}]
    <3>1. \A v \in Found(job[w].restore) :
            [data |-> archive[v].data, mod |-> now] \in Stored
      BY <1>2 DEF Found, TypeOK, Stored
    <3> QED BY <1>8, <3>1, JobForm DEF ReadVersion, TypeOK
  <2> QED BY <1>8, <2>1, Stops DEF ReadVersion, Ends, TypeOK, bounds
<1>9. ASSUME NEW v \in DOMAIN archive, Sweep(v) PROVE TypeOK'
  BY <1>2, <1>9 DEF Sweep, Without, TypeOK
<1>10. CASE Tick
  BY <1>10 DEF Tick, TypeOK, bounds
<1>11. CASE UNCHANGED vars
  BY <1>11 DEF vars, bounds, TypeOK
<1> QED
  BY <1>1, <1>2, <1>3, <1>4, <1>5, <1>6, <1>7, <1>8, <1>9, <1>10, <1>11
  DEF Next, Replace, Restore

-----------------------------------------------------------------------------
(* What is in the archive and what the jobs go by were written before.      *)

\* What each action does to the histories.
LEMMA OnlyMore ==
  ASSUME TypeOK, [Next]_vars
  PROVE  /\ log \subseteq log' /\ swept \subseteq swept' /\ now' >= now
         /\ now \in Nat /\ now' \in Nat
<1>1. now \in Nat /\ now' \in Nat
  BY TypeStep DEF TypeOK
<1>2. ASSUME NEW w \in Worker, Copy(w) PROVE log \subseteq log' /\ UNCHANGED <<now, swept>>
  BY <1>2 DEF Copy
<1>3. log \subseteq log' /\ swept \subseteq swept'
  BY <1>2 DEF Next, Replace, Restore, StartSave, List, Clean, Remove, Put,
              ReadVersion, Sweep, Tick, vars
<1>4. now' = now \/ now' = now + 1
  BY <1>2 DEF Next, Replace, Restore, StartSave, List, Clean, Remove, Put,
              ReadVersion, Sweep, Tick, vars
<1> QED BY <1>1, <1>3, <1>4

LEMMA ArchiveStep ==
  TypeOK /\ ArchiveInv /\ [Next]_vars => ArchiveInv'
<1> SUFFICES ASSUME TypeOK, ArchiveInv, [Next]_vars PROVE ArchiveInv'
  OBVIOUS
<1>1. ASSUME NEW w \in Worker, Copy(w) PROVE ArchiveInv'
  <2> DEFINE n == <<job[w].file, job[w].begun>>
             c == disk[job[w].file].data
  <2>1. CASE UNCHANGED <<archive, log>>
    BY <2>1 DEF ArchiveInv
  <2>2. CASE ~UNCHANGED <<archive, log>>
    <3>1. /\ archive' = [v \in DOMAIN archive \cup {n} |->
               IF v = n THEN [data |-> c, mod |-> job[w].mod] ELSE archive[v]]
          /\ log' = log \cup {[name |-> n, data |-> c]}
      BY <1>1, <2>2, CopyMoves
    <3> HIDE DEF n, c
    <3>2. IsFiniteSet(DOMAIN archive') /\ IsFiniteSet(log')
      <4>1. DOMAIN archive' = DOMAIN archive \cup {n}
        BY <3>1
      <4> QED BY <3>1, <4>1, FS_AddElement DEF ArchiveInv
    <3> QED BY <3>1, <3>2 DEF ArchiveInv
  <2> QED BY <2>1, <2>2
<1>2. ASSUME NEW v, archive' = Without(v), log' = log PROVE ArchiveInv'
  <2>1. DOMAIN archive' = DOMAIN archive \ {v}
    BY <1>2 DEF Without
  <2>2. IsFiniteSet(DOMAIN archive')
    BY <2>1, FS_RemoveElement DEF ArchiveInv
  <2> QED BY <1>2, <2>1, <2>2 DEF Without, ArchiveInv
<1>3. ASSUME NEW w \in Worker, Clean(w) PROVE ArchiveInv'
  BY <1>2, <1>3 DEF Clean
<1>4. ASSUME NEW v \in DOMAIN archive, Sweep(v) PROVE ArchiveInv'
  BY <1>2, <1>4 DEF Sweep
<1>5. CASE UNCHANGED <<archive, log>>
  BY <1>5 DEF ArchiveInv
<1> QED
  BY <1>1, <1>3, <1>4, <1>5
  DEF Next, Replace, Restore, StartSave, List, Remove, Put, ReadVersion, Tick,
      vars

\* The part of JobInv about one worker.
JobAt(w) ==
  Busy(w) =>
    /\ \A v \in job[w].old : Logged(v)
    /\ job[w].old # {} => job[w].pc = "clean"
    /\ job[w].restore # NoVersion =>
         /\ job[w].file = job[w].restore[1]
         /\ [name |-> job[w].restore, data |-> job[w].put] \in log
    /\ job[w].pc = "read" => job[w].restore # NoVersion

LEMMA JobMoved ==
  ASSUME TypeOK, JobInv, [Next]_vars, NEW w \in Worker,
         \A u \in Worker : u # w => job'[u] = job[u],
         JobAt(w)'
  PROVE  JobInv'
<1>1. log \subseteq log'
  BY OnlyMore
<1>2. ASSUME NEW u \in Worker, u # w PROVE JobAt(u)'
  <2>1. job'[u] = job[u] /\ JobAt(u)
    BY <1>2 DEF JobInv, JobAt
  <2> QED BY <1>1, <2>1 DEF JobAt, Busy, Logged
<1> QED BY <1>2 DEF JobInv, JobAt

LEMMA RestoreIsRead == NoVersion \notin Name /\ AfterSave(NoVersion) = "remove"
BY NameAssumption DEF Name, AfterSave

LEMMA JobGoesOn ==
  ASSUME TypeOK, JobInv, [Next]_vars, NEW w \in Worker, Busy(w),
         NEW q, NEW o, Moves(w, q, o),
         q = "read" => job[w].restore # NoVersion,
         o # {} => q = "clean",
         \A v \in o : Logged(v)
  PROVE  JobInv'
<1>1. log \subseteq log' /\ JobAt(w)
  BY OnlyMore DEF JobInv, JobAt
<1>2. JobAt(w)'
  BY <1>1 DEF JobAt, Moves, Logged
<1> QED BY <1>2, JobMoved DEF Moves

LEMMA JobStep ==
  TypeOK /\ ArchiveInv /\ JobInv /\ [Next]_vars => JobInv'
<1> SUFFICES ASSUME TypeOK, ArchiveInv, JobInv, [Next]_vars PROVE JobInv'
  OBVIOUS
<1>1. log \subseteq log'
  BY OnlyMore
<1>2. ASSUME NEW w \in Worker, Busy(w)
      PROVE  JobAt(w) /\ (AfterSave(job[w].restore) = "read"
                            => job[w].restore # NoVersion)
  BY <1>2, RestoreIsRead DEF JobInv, JobAt
<1>3. ASSUME NEW w \in Worker, NEW f \in File, NEW v \in Name \cup {NoVersion},
             NEW c \in Content, StartSave(w, f, v, c),
             v # NoVersion => f = v[1] /\ [name |-> v, data |-> c] \in log
      PROVE  JobInv'
  <2>1. AfterSave(v) = "read" => v # NoVersion
    BY RestoreIsRead
  <2>2. JobAt(w)'
    BY <1>1, <1>3, <2>1, StartMoves DEF JobAt, Logged
  <2> QED BY <1>3, <2>2, StartMoves, JobMoved
<1>4. ASSUME NEW w \in Worker, NEW f \in File, NEW c \in Content, Replace(w, f, c)
      PROVE  JobInv'
  BY <1>3, <1>4 DEF Replace
<1>5. ASSUME NEW w \in Worker, NEW v \in DOMAIN archive, Restore(w, v)
      PROVE  JobInv'
  <2>1. v \in Name /\ v[1] \in File /\ archive[v].data \in Content
    BY DEF TypeOK, Name, Stored
  <2> QED BY <1>3, <1>5, <2>1 DEF Restore, ArchiveInv
<1>6. ASSUME NEW w \in Worker, Copy(w) PROVE JobInv'
  <2>1. Busy(w) /\ job[w].pc = "copy"
    BY <1>6 DEF Copy
  <2>2. job[w].old = {}
    BY <1>2, <2>1 DEF JobAt
  <2>3. \E q : Moves(w, q, {}) /\ (q = "read" => job[w].restore # NoVersion)
    <3>1. \/ Moves(w, AfterSave(job[w].restore), job[w].old)
          \/ Moves(w, "list", job[w].old)
      BY <1>6, CopyMoves
    <3> QED BY <1>2, <2>1, <2>2, <3>1
  <2> QED BY <2>1, <2>3, JobGoesOn
<1>7. ASSUME NEW w \in Worker, List(w) PROVE JobInv'
  <2>1. Busy(w)
    BY <1>7 DEF List
  <2>2. PICK old \in Doomed(job[w].file, Versions(job[w].file)) :
           /\ old \subseteq Versions(job[w].file)
           /\ Moves(w, IF old = {} THEN AfterSave(job[w].restore) ELSE "clean",
                    old)
    BY <1>7, ListMoves
  <2>3. \A v \in old : Logged(v)
    BY <2>2 DEF Versions, ArchiveInv, Logged
  <2> QED BY <1>2, <2>1, <2>2, <2>3, JobGoesOn
<1>8. ASSUME NEW w \in Worker, Clean(w) PROVE JobInv'
  <2>1. Busy(w)
    BY <1>8 DEF Clean
  <2>2. PICK v \in job[w].old :
          Moves(w, IF job[w].old = {v} THEN AfterSave(job[w].restore)
                                       ELSE "clean", job[w].old \ {v})
    BY <1>8, CleanMoves
  <2>3. \A x \in job[w].old \ {v} : Logged(x)
    BY <1>2, <2>1 DEF JobAt
  <2> QED BY <1>2, <2>1, <2>2, <2>3, JobGoesOn
<1>9. ASSUME NEW w \in Worker, Remove(w) PROVE JobInv'
  <2>1. Busy(w) /\ job[w].pc = "remove"
    BY <1>9 DEF Remove
  <2>2. Moves(w, "put", job[w].old) /\ job[w].old = {}
    BY <1>2, <1>9, <2>1, Goes DEF Remove, Stage, JobAt
  <2> QED BY <2>1, <2>2, JobGoesOn
<1>10. ASSUME NEW w \in Worker, Put(w) \/ ReadVersion(w) PROVE JobInv'
  <2>1. Ends(w)
    BY <1>10, Stops DEF Put, ReadVersion
  <2>2. JobAt(w)'
    BY <2>1 DEF Ends, JobAt, Busy
  <2> QED BY <2>1, <2>2, JobMoved DEF Ends
<1>11. CASE UNCHANGED job
  BY <1>1, <1>11 DEF JobInv, Busy, Logged
<1> QED
  BY <1>4, <1>5, <1>6, <1>7, <1>8, <1>9, <1>10, <1>11
  DEF Next, Sweep, Tick, vars

-----------------------------------------------------------------------------
(* Versions that deserve to stay.                                           *)

LEMMA ZeroIsEarlier ==
  Zone \in Int /\ Zero \in Int /\ Zone > Zero
BY LimitAssumption, SMT DEF Day, Zero

LEMMA LaterIsFinite ==
  ASSUME NEW L, IsFiniteSet(L), NEW v
  PROVE  IsFiniteSet({e.name : e \in {x \in L : x.name[1] = v[1]
                                                /\ x.name[2] > v[2]}})
<1> DEFINE S == {x \in L : x.name[1] = v[1] /\ x.name[2] > v[2]}
           T == {e.name : e \in S}
           f == [e \in S |-> e.name]
<1>1. IsFiniteSet(S)
  BY FS_Subset
<1>2. f \in Surjection(S, T)
  BY DEF Surjection
<1> HIDE DEF S, T, f
<1>3. IsFiniteSet(T)
  BY <1>1, <1>2, FS_Surjection
<1> QED BY <1>3 DEF S, T

\* A version never deserves to stay that did not before.
LEMMA DeservesLess ==
  ASSUME TypeOK, ArchiveInv, [Next]_vars, NEW v \in Name, Deserves(v)'
  PROVE  Deserves(v)
<1>1. log \subseteq log' /\ swept \subseteq swept' /\ now' >= now
      /\ now \in Nat /\ now' \in Nat
  BY OnlyMore
<1>2. MaxVersions = 0 \/ Cardinality(Later(v)) < MaxVersions
  <2>1. IsFiniteSet(Later(v)')
    <3>1. IsFiniteSet(log')
      BY ArchiveStep DEF ArchiveInv
    <3> QED BY <3>1, LaterIsFinite DEF Later
  <2>2. Later(v) \in SUBSET (Later(v)')
    BY <1>1 DEF Later
  <2>3. /\ Cardinality(Later(v)) <= Cardinality(Later(v)')
        /\ Cardinality(Later(v)) \in Nat /\ Cardinality(Later(v)') \in Nat
    BY <2>1, <2>2, FS_Subset, FS_CardinalityType
  <2>4. MaxVersions = 0 \/ Cardinality(Later(v)') < MaxVersions
    BY DEF Deserves
  <2> QED BY <2>3, <2>4, LimitAssumption
<1>3. MaxAge = 0 \/ now - v[2] <= MaxAge + Zone
  <2>1. MaxAge = 0 \/ now' - v[2] <= MaxAge + Zone
    BY DEF Deserves
  <2>2. v[2] \in Nat /\ MaxAge + Zone \in Int
    BY LimitAssumption DEF Name
  <2> QED BY <1>1, <2>1, <2>2
<1>4. v \notin swept
  BY <1>1 DEF Deserves
<1> QED BY <1>2, <1>3, <1>4 DEF Deserves

\* What cleaning decides to remove does not deserve to stay: what it leaves of
\* the file are later versions, for no foreign name has a time that late.
LEMMA DoomedUndeserving ==
  ASSUME TypeOK, ArchiveInv, NEW f \in File,
         NEW old \in Doomed(f, Versions(f)), NEW v \in old
  PROVE  ~Deserves(v) \/ Misread(v)
<1> SUFFICES ASSUME Deserves(v), ~Misread(v) PROVE FALSE
  OBVIOUS
<1>1. PICK e \in Excess(f, Versions(f)) : old = Aged(f, Versions(f)) \cup e
  BY DEF Doomed
<1>2. v \in Versions(f) /\ e \subseteq Versions(f)
  BY <1>1 DEF Aged, Excess
<1>3. v \in Name /\ v[1] = f
  BY <1>2 DEF Versions, Listed, Misread, TypeOK
<1>4. v[2] \in Nat /\ v = <<f, v[2]>> /\ VersionTime(f, v) = v[2] + Zone
  BY <1>3 DEF Name, VersionTime
<1>5. Zone \in Int /\ Zone > Zero /\ Zero \in Int /\ MaxAge \in Nat
  BY LimitAssumption, ZeroIsEarlier
<1>6. v \notin Aged(f, Versions(f))
  BY <1>4, <1>5 DEF Aged, Deserves, TypeOK
<1>7. v \in e
  BY <1>1, <1>6
<1>8. /\ MaxVersions # 0
      /\ Cardinality(Versions(f) \ e) = MaxVersions
      /\ \A x \in Versions(f) \ e : VersionTime(f, x) >= VersionTime(f, v)
  BY <1>7 DEF Excess
<1>9. Versions(f) \ e \subseteq Later(v)
  <2> SUFFICES ASSUME NEW x \in Versions(f) \ e PROVE x \in Later(v)
    OBVIOUS
  <2>1. x \in DOMAIN archive /\ x \in Name /\ x # v
    BY <1>7 DEF Versions, TypeOK
  <2>2. x[2] \in Nat /\ x = <<x[1], x[2]>>
    BY <2>1 DEF Name
  <2>3. x[1] = f /\ x[2] >= v[2]
    BY <1>4, <1>5, <1>8, <2>2 DEF VersionTime
  <2>4. x[2] > v[2]
    BY <1>4, <2>1, <2>2, <2>3
  <2>5. [name |-> x, data |-> archive[x].data] \in log
    BY <2>1 DEF ArchiveInv
  <2> QED BY <1>3, <2>3, <2>4, <2>5 DEF Later
<1>10. MaxVersions <= Cardinality(Later(v))
  <2>1. IsFiniteSet(Later(v))
    BY LaterIsFinite DEF ArchiveInv, Later
  <2> QED BY <1>8, <1>9, <2>1, FS_Subset
<1>11. Cardinality(Later(v)) \in Nat
  BY LaterIsFinite, FS_CardinalityType DEF ArchiveInv, Later
<1> QED BY <1>8, <1>10, <1>11, LimitAssumption DEF Deserves

\* The part of KeptInv about one version.
Keeps(v) == v \in DOMAIN archive /\ Spared(v)

LEMMA KeptStep ==
  TypeOK /\ ArchiveInv /\ JobInv /\ KeptInv /\ [Next]_vars => KeptInv'
<1> SUFFICES ASSUME TypeOK, ArchiveInv, JobInv, KeptInv, [Next]_vars,
                    NEW e \in log', Deserves(e.name)', ~Misread(e.name)
             PROVE  Keeps(e.name)'
  BY DEF KeptInv, Keeps, Misread
<1> DEFINE v == e.name
<1>1. v \in Name
  BY TypeStep DEF TypeOK
<1>2. Deserves(v)
  BY <1>1, DeservesLess
<1>3. ASSUME Logged(v) PROVE Keeps(v)
  BY <1>2, <1>3 DEF KeptInv, Keeps, Logged
<1> HIDE DEF v
<1>4. ASSUME UNCHANGED log PROVE Logged(v)
  BY <1>4 DEF Logged, v
<1> SUFFICES Keeps(v)'
  BY DEF v
\* A job whose list of versions does not grow leaves what was spared spared.
<1>5. ASSUME Spared(v), NEW w \in Worker, \A u \in Worker : u # w => job'[u] = job[u],
             Busy(w)' => v \notin job'[w].old
      PROVE  Spared(v)'
  BY <1>5 DEF Spared, Busy
<1>6. ASSUME NEW w \in Worker, NEW f \in File, NEW x \in Name \cup {NoVersion},
             NEW c \in Content, StartSave(w, f, x, c)
      PROVE  Keeps(v)'
  <2>1. Keeps(v) /\ UNCHANGED archive
    BY <1>3, <1>4, <1>6 DEF StartSave
  <2>2. job'[w].old = {} /\ \A u \in Worker : u # w => job'[u] = job[u]
    BY <1>6, StartMoves
  <2> QED BY <1>5, <2>1, <2>2 DEF Keeps
<1>7. ASSUME NEW w \in Worker, Copy(w) PROVE Keeps(v)'
  <2> DEFINE n == <<job[w].file, job[w].begun>>
  <2>1. Busy(w) /\ job[w].pc = "copy"
    BY <1>7 DEF Copy
  <2>2. job[w].old = {}
    BY <2>1 DEF JobInv
  <2>3. job'[w].old = {} /\ \A u \in Worker : u # w => job'[u] = job[u]
    <3>1. \E q : Moves(w, q, job[w].old)
      BY <1>7, CopyMoves
    <3> QED BY <2>2, <3>1 DEF Moves
  <2>4. DOMAIN archive \subseteq DOMAIN archive'
    BY <1>7, CopyMoves
  <2>5. CASE Logged(v)
    BY <1>3, <1>5, <2>3, <2>4, <2>5 DEF Keeps
  <2>6. CASE ~Logged(v)
    <3>1. e \notin log
      BY <2>6 DEF Logged, v
    <3>2. /\ DOMAIN archive' = DOMAIN archive \cup {n}
          /\ log' = log \cup {[name |-> n, data |-> disk[job[w].file].data]}
      BY <1>7, <3>1, CopyMoves
    <3> HIDE DEF n
    <3>4. v = n
      BY <3>1, <3>2 DEF v
    <3>3. Spared(v)
      BY <2>6 DEF JobInv, Spared
    <3> QED BY <1>5, <2>3, <3>2, <3>3, <3>4 DEF Keeps
  <2> QED BY <2>5, <2>6
<1>8. ASSUME NEW w \in Worker, List(w) PROVE Keeps(v)'
  <2>1. Keeps(v) /\ UNCHANGED archive /\ Busy(w)
    BY <1>3, <1>4, <1>8 DEF List
  <2>2. PICK old \in Doomed(job[w].file, Versions(job[w].file)) :
           \E q : Moves(w, q, old)
    BY <1>8, ListMoves
  <2>3. v \notin old
    BY <1>2, <2>1, JobForm, DoomedUndeserving DEF v
  <2> QED BY <1>5, <2>1, <2>2, <2>3 DEF Keeps, Moves
<1>9. ASSUME NEW w \in Worker, Clean(w) PROVE Keeps(v)'
  <2>1. Keeps(v) /\ Busy(w)
    BY <1>3, <1>4, <1>9 DEF Clean
  <2>2. PICK x \in job[w].old :
           archive' = Without(x) /\ \E q : Moves(w, q, job[w].old \ {x})
    BY <1>9, CleanMoves
  <2>3. v # x /\ v \notin job[w].old
    BY <2>1 DEF Keeps, Spared
  <2>4. v \in DOMAIN archive'
    BY <2>1, <2>2, <2>3 DEF Keeps, Without
  <2> QED BY <1>5, <2>1, <2>2, <2>3, <2>4 DEF Keeps, Moves
<1>10. ASSUME NEW w \in Worker, Remove(w) PROVE Keeps(v)'
  <2>1. Keeps(v) /\ UNCHANGED archive /\ Busy(w)
    BY <1>3, <1>4, <1>10 DEF Remove
  <2>2. Moves(w, "put", job[w].old) /\ v \notin job[w].old
    BY <1>10, <2>1, Goes DEF Remove, Stage, Keeps, Spared
  <2> QED BY <1>5, <2>1, <2>2 DEF Keeps, Moves
<1>11. ASSUME NEW w \in Worker, Put(w) \/ ReadVersion(w) PROVE Keeps(v)'
  <2>1. Keeps(v) /\ UNCHANGED archive
    BY <1>3, <1>4, <1>11 DEF Put, ReadVersion
  <2>2. Ends(w)
    BY <1>11, Stops DEF Put, ReadVersion
  <2> QED BY <1>5, <2>1, <2>2 DEF Keeps, Ends, Busy
<1>12. ASSUME NEW x \in DOMAIN archive, Sweep(x) PROVE Keeps(v)'
  <2>1. Keeps(v) /\ UNCHANGED job
    BY <1>3, <1>4, <1>12 DEF Sweep
  <2>2. v # x
    BY <1>12 DEF Sweep, Deserves, v
  <2> QED BY <1>12, <2>1, <2>2 DEF Sweep, Keeps, Without, Spared, Busy
<1>13. CASE UNCHANGED <<archive, log, job>>
  BY <1>3, <1>4, <1>13 DEF Keeps, Spared, Busy
<1>14. ASSUME NEW x \in DOMAIN archive
       PROVE  x \in Name /\ x[1] \in File /\ archive[x].data \in Content
  BY DEF TypeOK, Name, Stored
<1> QED
  BY <1>6, <1>7, <1>8, <1>9, <1>10, <1>11, <1>12, <1>13, <1>14
  DEF Next, Replace, Restore, Tick, vars

-----------------------------------------------------------------------------
(* The number of versions of a file.                                        *)

\* Of what was listed, cleaning leaves no more than the limit.
LEMMA ExcessLeaves ==
  ASSUME NEW f \in File, NEW l, NEW e \in Excess(f, l), MaxVersions > 0,
         IsFiniteSet(l)
  PROVE  Cardinality(l \ e) <= MaxVersions
<1>1. CASE Cardinality(l) <= MaxVersions
  <2>1. e = {}
    BY <1>1, LimitAssumption DEF Excess
  <2> QED BY <1>1, <2>1
<1>2. CASE ~(Cardinality(l) <= MaxVersions)
  BY <1>2, LimitAssumption DEF Excess
<1> QED BY <1>1, <1>2

\* The part of BoundInv about one file.
Bounded(f) == Listing(f) \/ Cardinality(Spares(f)) <= MaxVersions

LEMMA FewerSpares ==
  ASSUME ArchiveInv, NEW f \in File, Bounded(f),
         Listing(f) => Listing(f)',
         Spares(f)' \subseteq Spares(f)
  PROVE  Bounded(f)'
<1>1. IsFiniteSet(Spares(f))
  BY FS_Subset DEF Spares, ArchiveInv
<1> DEFINE S == Spares(f)
           T == Spares(f)'
<1>2. T \in SUBSET S /\ IsFiniteSet(S)
  BY <1>1
<1> HIDE DEF S, T
<1>3. Cardinality(T) <= Cardinality(S) /\ IsFiniteSet(T)
  BY <1>2, FS_Subset
<1>4. Cardinality(T) \in Nat /\ Cardinality(S) \in Nat
  BY <1>2, <1>3, FS_CardinalityType
<1>5. Cardinality(Spares(f)) <= MaxVersions => Cardinality(Spares(f)') <= MaxVersions
  BY <1>3, <1>4, LimitAssumption DEF S, T
<1> QED BY <1>5 DEF Bounded

\* When a worker takes a step that keeps its stage from being "list" or leaves
\* it there, and does not forget a version it was to remove that is still there.
LEMMA SparedBefore ==
  ASSUME NEW v, NEW w \in Worker, \A u \in Worker : u # w => job'[u] = job[u],
         Spared(v)', Busy(w) => v \notin job[w].old
  PROVE  Spared(v)
BY DEF Spared, Busy

LEMMA ListingAfter ==
  ASSUME NEW f, NEW w \in Worker, \A u \in Worker : u # w => job'[u] = job[u],
         Listing(f), ~(Busy(w) /\ job[w].pc = "list" /\ job[w].file = f)
  PROVE  Listing(f)'
BY DEF Listing, Busy

LEMMA BoundStep ==
  ASSUME TypeOK, ArchiveInv, JobInv, BoundInv, [Next]_vars
  PROVE  BoundInv'
<1> SUFFICES ASSUME MaxVersions > 0, NEW f \in File PROVE Bounded(f)'
  BY DEF BoundInv, Bounded
<1>1. Bounded(f)
  BY DEF BoundInv, Bounded
<1>2. ASSUME NEW w \in Worker, NEW g \in File, NEW x \in Name \cup {NoVersion},
             NEW c \in Content, StartSave(w, g, x, c)
      PROVE  Bounded(f)'
  <2>1. ~Busy(w) /\ UNCHANGED archive
        /\ \A u \in Worker : u # w => job'[u] = job[u]
    BY <1>2, StartMoves DEF StartSave
  <2>2. Spares(f)' \subseteq Spares(f)
    BY <2>1, SparedBefore DEF Spares
  <2>3. Listing(f) => Listing(f)'
    BY <2>1, ListingAfter
  <2> QED BY <1>1, <2>2, <2>3, FewerSpares
<1>3. ASSUME NEW w \in Worker, Copy(w) PROVE Bounded(f)'
  <2>1. Busy(w) /\ job[w].pc = "copy"
    BY <1>3 DEF Copy
  <2>2. job[w].old = {}
    BY <2>1 DEF JobInv
  <2>3. \A u \in Worker : u # w => job'[u] = job[u]
    <3>1. \E q : Moves(w, q, job[w].old)
      BY <1>3, CopyMoves
    <3> QED BY <3>1 DEF Moves
  <2>4. CASE f # job[w].file \/ UNCHANGED <<archive, log>>
    <3>1. ASSUME NEW v \in DOMAIN archive', v[1] = f PROVE v \in DOMAIN archive
      <4>1. \/ UNCHANGED archive
            \/ DOMAIN archive' = DOMAIN archive \cup {<<job[w].file, job[w].begun>>}
        BY <1>3, CopyMoves
      <4>2. CASE UNCHANGED archive
        BY <3>1, <4>2
      <4>3. CASE ~UNCHANGED archive
        <5>1. v # <<job[w].file, job[w].begun>>
          BY <2>4, <3>1, <4>3
        <5> QED BY <3>1, <4>1, <4>3, <5>1
      <4> QED BY <4>2, <4>3
    <3>2. Spares(f)' \subseteq Spares(f)
      BY <2>2, <2>3, <3>1, SparedBefore DEF Spares
    <3>3. Listing(f) => Listing(f)'
      BY <2>1, <2>3, ListingAfter
    <3> QED BY <1>1, <3>2, <3>3, FewerSpares
  <2>5. CASE f = job[w].file /\ ~UNCHANGED <<archive, log>>
    <3>1. Moves(w, "list", job[w].old)
      BY <1>3, <2>5, CopyMoves
    <3>2. Listing(f)'
      BY <2>5, <3>1, JobIsBusy DEF Moves, Listing, Busy
    <3> QED BY <3>2 DEF Bounded
  <2> QED BY <2>4, <2>5
<1>4. ASSUME NEW w \in Worker, List(w) PROVE Bounded(f)'
  <2>1. Busy(w) /\ job[w].pc = "list" /\ UNCHANGED archive
    BY <1>4 DEF List
  <2>2. job[w].old = {}
    BY <2>1 DEF JobInv
  <2>3. PICK old \in Doomed(job[w].file, Versions(job[w].file)) :
          \E q : Moves(w, q, old)
    BY <1>4, ListMoves
  <2>4. /\ \A u \in Worker : u # w => job'[u] = job[u]
        /\ Busy(w)' /\ job'[w].old = old
    BY <2>3, JobIsBusy DEF Moves, Busy
  <2>5. CASE f # job[w].file
    <3>1. Spares(f)' \subseteq Spares(f)
      BY <2>1, <2>2, <2>4, SparedBefore DEF Spares
    <3>2. Listing(f) => Listing(f)'
      BY <2>4, <2>5, ListingAfter
    <3> QED BY <1>1, <3>1, <3>2, FewerSpares
  <2>6. CASE f = job[w].file
    <3>1. PICK e \in Excess(f, Versions(f)) :
            old = Aged(f, Versions(f)) \cup e
      BY <2>6 DEF Doomed
    <3> DEFINE S == Versions(f) \ e
               T == Spares(f)'
    <3>2. IsFiniteSet(Versions(f))
      BY FS_Subset DEF Versions, ArchiveInv
    <3>3. Cardinality(S) <= MaxVersions /\ IsFiniteSet(S)
      BY <3>2, ExcessLeaves, FS_Difference
    <3>4. T \in SUBSET S
      BY <2>1, <2>4, <3>1 DEF Spares, Spared, Versions, Listed
    <3> HIDE DEF S, T
    <3>5. Cardinality(T) <= Cardinality(S) /\ IsFiniteSet(T)
      BY <3>3, <3>4, FS_Subset
    <3>6. Cardinality(T) \in Nat /\ Cardinality(S) \in Nat
      BY <3>3, <3>5, FS_CardinalityType
    <3>7. Cardinality(T) <= MaxVersions
      BY <3>3, <3>5, <3>6, LimitAssumption
    <3> QED BY <3>7 DEF T, Bounded
  <2> QED BY <2>5, <2>6
<1>5. ASSUME NEW w \in Worker, Clean(w) PROVE Bounded(f)'
  <2>1. Busy(w) /\ job[w].pc = "clean"
    BY <1>5 DEF Clean
  <2>2. PICK x \in job[w].old :
           archive' = Without(x) /\ \E q : Moves(w, q, job[w].old \ {x})
    BY <1>5, CleanMoves
  <2>3. /\ \A u \in Worker : u # w => job'[u] = job[u]
        /\ Busy(w)' /\ job'[w].old = job[w].old \ {x}
    BY <2>2, JobIsBusy DEF Moves, Busy
  <2>4. DOMAIN archive' = DOMAIN archive \ {x}
    BY <2>2 DEF Without
  <2>5. ASSUME NEW v \in Spares(f)' PROVE v \in Spares(f)
    <3>1. v \in DOMAIN archive /\ v # x /\ Spared(v)' /\ v[1] = f
      BY <2>4 DEF Spares
    <3>2. v \notin job[w].old
      BY <2>3, <3>1 DEF Spared
    <3> QED BY <2>3, <3>1, <3>2, SparedBefore DEF Spares
  <2>6. Listing(f) => Listing(f)'
    BY <2>1, <2>3, ListingAfter
  <2> QED BY <1>1, <2>5, <2>6, FewerSpares
<1>6. ASSUME NEW w \in Worker, Remove(w) \/ Put(w) \/ ReadVersion(w)
      PROVE  Bounded(f)'
  <2>1. Busy(w) /\ job[w].pc \in {"remove", "put", "read"} /\ UNCHANGED archive
    BY <1>6 DEF Remove, Put, ReadVersion
  <2>2. job[w].old = {}
    BY <2>1 DEF JobInv
  <2>3. \A u \in Worker : u # w => job'[u] = job[u]
    BY <1>6, JobForm DEF Remove, Put, ReadVersion, TypeOK
  <2>4. Spares(f)' \subseteq Spares(f)
    BY <2>1, <2>2, <2>3, SparedBefore DEF Spares
  <2>5. Listing(f) => Listing(f)'
    BY <2>1, <2>3, ListingAfter
  <2> QED BY <1>1, <2>4, <2>5, FewerSpares
<1>7. CASE UNCHANGED job /\ DOMAIN archive' \subseteq DOMAIN archive
  <2>1. Spares(f)' \subseteq Spares(f)
    BY <1>7 DEF Spares, Spared, Busy
  <2>2. Listing(f) => Listing(f)'
    BY <1>7 DEF Listing, Busy
  <2> QED BY <1>1, <2>1, <2>2, FewerSpares
<1>8. ASSUME NEW x \in DOMAIN archive
      PROVE  x \in Name /\ x[1] \in File /\ archive[x].data \in Content
  BY DEF TypeOK, Name, Stored
<1> QED
  BY <1>2, <1>3, <1>4, <1>5, <1>6, <1>7, <1>8
  DEF Next, Replace, Restore, Sweep, Without, Tick, vars

-----------------------------------------------------------------------------
(* The theorems. *)

LEMMA InitIInv == Init => IInv
<1> SUFFICES ASSUME Init PROVE IInv
  OBVIOUS
<1>1. TypeOK
  BY InitType
<1>2. DOMAIN archive = {} /\ log = {} /\ \A w \in Worker : ~Busy(w)
  BY DEF Init, Busy
<1>3. ArchiveInv /\ JobInv /\ KeptInv
  BY <1>2, FS_EmptySet DEF ArchiveInv, JobInv, KeptInv
<1>4. \A f \in File : Spares(f) = {}
  BY <1>2 DEF Spares
<1>5. BoundInv
  BY <1>4, FS_EmptySet, LimitAssumption DEF BoundInv
<1> QED BY <1>1, <1>3, <1>5 DEF IInv

LEMMA NextIInv == IInv /\ [Next]_vars => IInv'
BY TypeStep, ArchiveStep, JobStep, KeptStep, BoundStep DEF IInv

LEMMA Invariance == Spec => []IInv
BY InitIInv, NextIInv, PTL DEF Spec

\* The types, for any files, limits and number of goroutines.
THEOREM TypeCorrect == Spec => []TypeOK
BY Invariance, PTL DEF IInv

\* A version within the limits stays in the archive, as it was saved, whatever
\* saves, cleanings, restores and sweeps overlap and wherever the zone is.
THEOREM VersionsAreKept == Spec => []DeservedIsKept
<1>1. IInv => DeservedIsKept
  <2> SUFFICES ASSUME IInv, NEW e \in log, Deserves(e.name), ~Misread(e.name)
               PROVE  /\ e.name \in DOMAIN archive
                      /\ Shared(e.name) \/ archive[e.name].data = e.data
    BY DEF DeservedIsKept
  <2>1. e.name \in DOMAIN archive
    BY DEF IInv, KeptInv
  <2>2. [name |-> e.name, data |-> archive[e.name].data] \in log
    BY <2>1 DEF IInv, ArchiveInv
  <2> QED BY <2>1, <2>2 DEF Shared
<1> QED BY <1>1, Invariance, PTL

\* Once every goroutine has cleaned up, no file has more than MaxVersions.
THEOREM ArchiveIsBounded == Spec => []ArchiveBounded
<1>1. IInv => ArchiveBounded
  <2> SUFFICES ASSUME IInv, MaxVersions > 0,
                      \A w \in Worker : ~Busy(w) \/ job[w].pc = "copy",
                      NEW f \in File
               PROVE  Cardinality({v \in DOMAIN archive : v[1] = f}) <= MaxVersions
    BY DEF ArchiveBounded
  <2>1. \A w \in Worker : Busy(w) => job[w].old = {}
    BY DEF IInv, JobInv
  <2>2. Spares(f) = {v \in DOMAIN archive : v[1] = f} /\ ~Listing(f)
    BY <2>1 DEF Spares, Spared, Listing
  <2> QED BY <2>2 DEF IInv, BoundInv
<1> QED BY <1>1, Invariance, PTL

\* A restore brings back what the version held when it was asked for, as long
\* as that version still deserves to stay.
THEOREM RestoresSucceed == Spec => RestoreSucceeds
<1>1. ASSUME IInv, [Next]_vars
      PROVE  [\A w \in Worker :
                Busy(w) /\ job[w].pc = "read" /\ ~Busy(w)' =>
                  LET v == job[w].restore IN
                  Deserves(v) /\ ~Misread(v) /\ ~Shared(v)
                    => disk'[v[1]].data = job[w].put]_vars
  <2> SUFFICES ASSUME NEW w \in Worker, Busy(w), job[w].pc = "read", ~Busy(w)',
                      Deserves(job[w].restore), ~Misread(job[w].restore),
                      ~Shared(job[w].restore)
               PROVE  disk'[job[w].restore[1]].data = job[w].put
    OBVIOUS
  <2>0. TypeOK /\ ArchiveInv /\ JobInv /\ KeptInv
    BY <1>1 DEF IInv
  <2> DEFINE v == job[w].restore
  <2>1. /\ v # NoVersion /\ job[w].file = v[1]
        /\ [name |-> v, data |-> job[w].put] \in log
    BY <2>0 DEF JobInv
  <2>2. v \in DOMAIN archive
    <3>1. [name |-> v, data |-> job[w].put].name = v
      OBVIOUS
    <3> QED BY <2>0, <2>1, <3>1 DEF KeptInv
  <2>3. archive[v].data = job[w].put
    <3> DEFINE x == [name |-> v, data |-> job[w].put]
               y == [name |-> v, data |-> archive[v].data]
    <3>1. x \in log /\ y \in log /\ x.name = v /\ y.name = v
      BY <2>0, <2>1, <2>2 DEF ArchiveInv
    <3>2. x.data = y.data
      BY <3>1 DEF Shared
    <3> QED BY <3>2
  <2>4. ReadVersion(w)
    <3>1. job'[w] # job[w]
      BY DEF Busy
    <3>2. ASSUME NEW u \in Worker, NEW f \in File, NEW z \in Name \cup {NoVersion},
                 NEW c \in Content, StartSave(u, f, z, c)
          PROVE  FALSE
      BY <2>0, <3>1, <3>2, StartMoves DEF StartSave
    <3>3. ASSUME NEW u \in Worker, NEW q, NEW o, Moves(u, q, o) PROVE FALSE
      BY <3>1, <3>3, JobIsBusy DEF Moves, Busy
    <3>4. ASSUME NEW u \in Worker, Copy(u) \/ List(u) \/ Clean(u) \/ Remove(u)
          PROVE  FALSE
      <4>1. \E q, o : Moves(u, q, o)
        BY <2>0, <3>4, CopyMoves, ListMoves, CleanMoves, Goes DEF Remove, Stage
      <4> QED BY <3>3, <4>1
    <3>5. ASSUME NEW u \in Worker, Put(u) PROVE FALSE
      BY <2>0, <3>1, <3>5, Stops DEF Put, Ends
    <3>6. ASSUME NEW u \in Worker, ReadVersion(u) PROVE u = w
      BY <2>0, <3>1, <3>6, Stops DEF ReadVersion, Ends
    <3>7. ASSUME NEW x \in DOMAIN archive
          PROVE  x \in Name /\ x[1] \in File /\ archive[x].data \in Content
      BY <2>0 DEF TypeOK, Name, Stored
    <3> QED
      BY <1>1, <3>1, <3>2, <3>4, <3>5, <3>6, <3>7
      DEF Next, Replace, Restore, Sweep, Tick, vars
  <2>5. disk' = [disk EXCEPT ![job[w].file] =
                   [data |-> archive[v].data, mod |-> now]]
    BY <2>2, <2>4 DEF ReadVersion, Found
  <2>6. v[1] \in File
    BY <2>0, <2>1, JobForm
  <2> QED BY <2>1, <2>3, <2>5, <2>6, <2>0 DEF TypeOK
<1> QED BY <1>1, Invariance, PTL DEF Spec, RestoreSucceeds

=============================================================================
