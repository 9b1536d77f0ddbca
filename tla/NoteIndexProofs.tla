-------------------------- MODULE NoteIndexProofs --------------------------
(***************************************************************************)
(* Proofs about NoteIndex, for any folder, any contents and any requests.  *)
(*                                                                         *)
(* The two maps mirror each other by themselves: only IndexNote and a      *)
(* restart write them, and IndexNote keeps the mirror because removing the *)
(* backlinks of the old targets and adding those of the new ones leaves    *)
(* each target with the note exactly when it is among the new ones.        *)
(*                                                                         *)
(* That a graph is current needs to know of every walk that a note it has  *)
(* passed was left as its content was read, and of every other request     *)
(* that what it is about to index is what is on disk, or is touched.       *)
(***************************************************************************)
EXTENDS NoteIndex, TLAPS

-----------------------------------------------------------------------------
(* The index.                                                              *)

\* The targets of a note of the folder are keys.
LEMMA TargetsType ==
    ASSUME NEW folder \in FolderNames, NEW note \in Files, NEW content \in Contents
    PROVE  Targets(folder, note, content) \subseteq Key
<1>1. \A link \in content : Resolve(note, link) \in Note
  <2> SUFFICES ASSUME NEW link \in content PROVE Resolve(note, link) \in Note
    OBVIOUS
  <2>1. link \in Link /\ note \in Note
    BY NotesAssumption
  <2>2. CASE link.dir = "same"
    BY <2>1, <2>2 DEF Resolve, Link, Note
  <2>3. CASE link.dir # "same"
    <3>1. link.dir \in Dirs /\ link.name \in Names
      BY <2>1, <2>3 DEF Link
    <3>2. link = [dir |-> link.dir, name |-> link.name]
      BY <2>1 DEF Link
    <3> QED
      BY <2>3, <3>1, <3>2 DEF Resolve, Note
  <2> QED
    BY <2>2, <2>3
<1> QED
  BY <1>1 DEF Targets, Key

\* Indexing a note keeps the types of the maps.
LEMMA IndexType ==
    ASSUME TypeOK, NEW source \in Key, NEW targets \in SUBSET Key, IndexNote(source, targets)
    PROVE  forward' \in [Key -> SUBSET Key] /\ known' \in SUBSET Key /\ back' \in [Key -> SUBSET Key]
<1>1. forward' \in [Key -> SUBSET Key] /\ known' \in SUBSET Key
  BY DEF TypeOK, IndexNote
<1>2. \A t \in Key : Unlinked(source)[t] \in SUBSET Key
  BY DEF TypeOK, Unlinked
<1>3. back' \in [Key -> SUBSET Key]
  BY <1>2 DEF IndexNote
<1> QED
  BY <1>1, <1>3

\* Indexing a note keeps the mirror, whatever the note linked to before.
LEMMA IndexMirror ==
    ASSUME TypeOK, LinksMirror, NEW source \in Key, NEW targets \in SUBSET Key,
           IndexNote(source, targets)
    PROVE  LinksMirror'
<1>1. /\ forward' = [forward EXCEPT ![source] = targets]
      /\ forward \in [Key -> SUBSET Key]
      /\ known' = known \cup {source}
  BY DEF IndexNote, TypeOK
<1>2. ASSUME NEW s \in Key, NEW t \in Key
      PROVE  t \in forward'[s] <=> s \in back'[t]
  <2>1. back'[t] = IF t \in targets THEN Unlinked(source)[t] \cup {source} ELSE Unlinked(source)[t]
    BY DEF IndexNote
  <2>2. Unlinked(source)[t] = IF t \in forward[source] THEN back[t] \ {source} ELSE back[t]
    BY DEF Unlinked
  <2>3. CASE s = source
    <3>1. forward'[s] = targets
      BY <1>1, <2>3
    <3>2. source \notin Unlinked(source)[t]
      BY <2>2 DEF LinksMirror
    <3> QED
      BY <2>1, <2>3, <3>1, <3>2
  <2>4. CASE s # source
    <3>1. forward'[s] = forward[s]
      BY <1>1, <2>4
    <3>2. s \in back'[t] <=> s \in back[t]
      BY <2>1, <2>2, <2>4
    <3> QED
      BY <3>1, <3>2 DEF LinksMirror
  <2> QED
    BY <2>3, <2>4
<1>3. \A s \in Key \ known' : forward'[s] = {}
  BY <1>1 DEF LinksMirror
<1> QED
  BY <1>2, <1>3 DEF LinksMirror

-----------------------------------------------------------------------------
(* The specification.                                                      *)

\* What a request that stands nowhere is given has its type.
LEMMA NoRequestType == NoRequest \in Request
<1>1. PICK f \in Files : TRUE
  BY NotesAssumption
<1>2. [folder |-> FolderId, note |-> f, to |-> f, content |-> {}] \in Request
  BY NotesAssumption DEF Request
<1> QED
  BY <1>2 DEF NoRequest

\* A change on disk keeps the types.
LEMMA DiskType ==
    ASSUME TypeOK, NEW new \in [Files -> Contents \cup {Absent}], WriteDisk(new)
    PROVE  /\ disk' \in [Files -> Contents \cup {Absent}]
           /\ touched' \in [Requests -> SUBSET Files]
BY DEF TypeOK, WriteDisk

\* The parts of a request that only moves and hands over its data.
LEMMA RequestType ==
    ASSUME TypeOK, NEW p \in Requests,
           NEW stage \in {"idle", "write", "index", "move", "walk", "walked", "answer"},
           Goto(p, stage), NEW r \in Request, req' = [req EXCEPT ![p] = r]
    PROVE  /\ pc' \in [Requests -> {"idle", "write", "index", "move", "walk", "walked", "answer"}]
           /\ req' \in [Requests -> Request]
BY DEF TypeOK, Goto

IInv == TypeOK /\ LinksMirror

\* Both maps are empty when the program starts.
LEMMA InitInv == Init => IInv
<1> SUFFICES ASSUME Init PROVE IInv
  OBVIOUS
<1>1. TypeOK
  BY NoRequestType DEF Init, TypeOK
<1>2. LinksMirror
  BY DEF Init, LinksMirror
<1> QED
  BY <1>1, <1>2 DEF IInv

\* A restart empties them.
LEMMA RestartInv == IInv /\ Restart => IInv'
<1> SUFFICES ASSUME IInv, Restart PROVE IInv'
  OBVIOUS
<1>1. TypeOK'
  BY NoRequestType DEF IInv, Restart, TypeOK
<1>2. LinksMirror'
  BY DEF Restart, LinksMirror
<1> QED
  BY <1>1, <1>2 DEF IInv

\* The mirror depends on the maps alone.
LEMMA MirrorKept ==
    LinksMirror /\ UNCHANGED <<forward, known, back>> => LinksMirror'
BY DEF LinksMirror

\* Writing and renaming keep the types.
LEMMA WriteType ==
    ASSUME TypeOK, NEW p \in Requests,
           BeginCreate(p) \/ BeginWrite(p) \/ WriteFile(p) \/ BeginRename(p) \/ RenameFile(p)
    PROVE  TypeOK'
<1>1. ASSUME NEW r \in Request, NEW stage \in {"write", "move"}, Begin(p, stage, r)
      PROVE  TypeOK'
  BY <1>1, RequestType DEF TypeOK, Begin
<1>2. CASE BeginCreate(p) \/ BeginWrite(p) \/ BeginRename(p)
  BY <1>1, <1>2 DEF BeginCreate, BeginWrite, BeginRename
<1>3. req[p] \in Request
  BY DEF TypeOK
<1>4. CASE WriteFile(p)
  <2>1. [disk EXCEPT ![req[p].note] = req[p].content] \in [Files -> Contents \cup {Absent}]
    BY <1>3 DEF TypeOK, Request
  <2>2. /\ disk' \in [Files -> Contents \cup {Absent}]
        /\ touched' \in [Requests -> SUBSET Files]
    BY <1>4, <2>1, DiskType DEF WriteFile
  <2> QED
    BY <1>4, <2>2 DEF TypeOK, WriteFile, Goto
<1>5. CASE RenameFile(p)
  <2>1. [disk EXCEPT ![req[p].note] = Absent, ![req[p].to] = disk[req[p].note]]
            \in [Files -> Contents \cup {Absent}]
    BY <1>3 DEF TypeOK, Request
  <2>2. /\ disk' \in [Files -> Contents \cup {Absent}]
        /\ touched' \in [Requests -> SUBSET Files]
    BY <1>5, <2>1, DiskType DEF RenameFile, TypeOK
  <2>3. /\ pc' \in [Requests -> {"idle", "write", "index", "move", "walk", "walked", "answer"}]
        /\ req' \in [Requests -> Request]
    BY <1>5, NoRequestType, RequestType DEF RenameFile
  <2> QED
    BY <1>5, <2>2, <2>3 DEF TypeOK, RenameFile
<1> QED
  BY <1>2, <1>4, <1>5

\* So does a walk, apart from what it indexes.
LEMMA WalkType ==
    ASSUME TypeOK, NEW p \in Requests,
           BeginGraph(p) \/ Visit(p) \/ EndWalk(p) \/ GetGraph(p)
    PROVE  TypeOK'
<1>1. CASE BeginGraph(p)
  <2>1. PICK folder \in FolderNames :
            /\ req' = [req EXCEPT ![p] = [NoRequest EXCEPT !.folder = folder]]
            /\ todo' = [todo EXCEPT ![p] = IF folder = FolderId THEN Files ELSE {}]
    BY <1>1 DEF BeginGraph
  <2>2. [NoRequest EXCEPT !.folder = folder] \in Request
    BY NoRequestType DEF Request
  <2>3. /\ pc' \in [Requests -> {"idle", "write", "index", "move", "walk", "walked", "answer"}]
        /\ req' \in [Requests -> Request]
    BY <1>1, <2>1, <2>2, RequestType DEF BeginGraph
  <2>4. Pending \in SUBSET Files
    BY DEF Pending, TypeOK, Request
  <2>5. touched' \in [Requests -> SUBSET Files]
    BY <1>1, <2>4 DEF BeginGraph, TypeOK
  <2>6. todo' \in [Requests -> SUBSET Files]
    BY <2>1 DEF TypeOK
  <2> QED
    BY <1>1, <2>3, <2>5, <2>6 DEF BeginGraph, TypeOK
<1>2. CASE Visit(p)
  <2>1. PICK n \in todo[p] :
            /\ todo' = [todo EXCEPT ![p] = @ \ {n}]
            /\ \/ /\ disk[n] # Absent
                  /\ req' = [req EXCEPT ![p].note = n, ![p].content = disk[n]]
                  /\ Goto(p, "walked")
               \/ UNCHANGED <<req, pc>>
    BY <1>2 DEF Visit, Visited
  <2>2. n \in Files /\ todo' \in [Requests -> SUBSET Files]
    BY <2>1 DEF TypeOK
  <2>3. /\ pc' \in [Requests -> {"idle", "write", "index", "move", "walk", "walked", "answer"}]
        /\ req' \in [Requests -> Request]
    <3>1. CASE UNCHANGED <<req, pc>>
      BY <3>1 DEF TypeOK
    <3>2. CASE /\ disk[n] # Absent
               /\ req' = [req EXCEPT ![p].note = n, ![p].content = disk[n]]
               /\ Goto(p, "walked")
      <4>1. disk[n] \in Contents
        BY <2>2, <3>2 DEF TypeOK
      <4>2. [req[p] EXCEPT !.note = n, !.content = disk[n]] \in Request
        BY <2>2, <4>1 DEF TypeOK, Request
      <4>3. req' = [req EXCEPT ![p] = [req[p] EXCEPT !.note = n, !.content = disk[n]]]
        BY <3>2 DEF TypeOK
      <4> QED
        BY <3>2, <4>2, <4>3, RequestType
    <3> QED
      BY <2>1, <3>1, <3>2
  <2> QED
    BY <1>2, <2>2, <2>3 DEF Visit, TypeOK
<1>3. CASE EndWalk(p)
  BY <1>3 DEF EndWalk, Goto, TypeOK
<1>4. CASE GetGraph(p)
  <2>1. /\ pc' \in [Requests -> {"idle", "write", "index", "move", "walk", "walked", "answer"}]
        /\ req' \in [Requests -> Request]
    BY <1>4, NoRequestType, RequestType DEF GetGraph
  <2> QED
    BY <1>4, <2>1 DEF GetGraph, TypeOK
<1> QED
  BY <1>1, <1>2, <1>3, <1>4

\* Indexing what was written or read keeps the invariant.
LEMMA IndexInv ==
    ASSUME IInv, NEW p \in Requests, IndexWritten(p) \/ IndexVisited(p)
    PROVE  IInv'
<1>1. TypeOK /\ LinksMirror /\ req[p] \in Request
  BY DEF IInv, TypeOK
<1>2. PICK folder \in FolderNames :
          IndexNote(<<folder, req[p].note>>, Targets(folder, req[p].note, req[p].content))
  BY <1>1, NotesAssumption DEF IndexWritten, IndexVisited, Request
<1>3. req[p].note \in Files /\ req[p].content \in Contents
  BY <1>1 DEF Request
<1>4. <<folder, req[p].note>> \in Key
  BY <1>3, NotesAssumption DEF Key
<1>5. Targets(folder, req[p].note, req[p].content) \in SUBSET Key
  BY <1>3, TargetsType
<1>6. LinksMirror'
  BY <1>1, <1>2, <1>4, <1>5, IndexMirror
<1>7. forward' \in [Key -> SUBSET Key] /\ known' \in SUBSET Key /\ back' \in [Key -> SUBSET Key]
  BY <1>1, <1>2, <1>4, <1>5, IndexType
<1>8. [NoRequest EXCEPT !.folder = FolderId] \in Request
  BY NoRequestType, NotesAssumption DEF Request
<1>9. /\ pc' \in [Requests -> {"idle", "write", "index", "move", "walk", "walked", "answer"}]
      /\ req' \in [Requests -> Request]
  BY <1>1, <1>8, NoRequestType, RequestType DEF IndexWritten, IndexVisited
<1>10. TypeOK'
  BY <1>1, <1>7, <1>9 DEF IndexWritten, IndexVisited, TypeOK
<1> QED
  BY <1>6, <1>10 DEF IInv

\* Every step keeps it.
LEMMA NextInv == IInv /\ [Next]_vars => IInv'
<1> SUFFICES ASSUME IInv, [Next]_vars PROVE IInv'
  OBVIOUS
<1>1. TypeOK /\ LinksMirror
  BY DEF IInv
<1>2. ASSUME NEW p \in Requests, Step(p) PROVE IInv'
  <2>1. CASE IndexWritten(p) \/ IndexVisited(p)
    BY <2>1, IndexInv
  <2>2. CASE BeginCreate(p) \/ BeginWrite(p) \/ WriteFile(p) \/ BeginRename(p) \/ RenameFile(p)
    <3>1. UNCHANGED <<forward, known, back>>
      BY <2>2 DEF BeginCreate, BeginWrite, WriteFile, BeginRename, RenameFile, Begin
    <3> QED
      BY <1>1, <2>2, <3>1, WriteType, MirrorKept DEF IInv
  <2>3. CASE BeginGraph(p) \/ Visit(p) \/ EndWalk(p) \/ GetGraph(p)
    <3>1. UNCHANGED <<forward, known, back>>
      BY <2>3 DEF BeginGraph, Visit, EndWalk, GetGraph
    <3> QED
      BY <1>1, <2>3, <3>1, WalkType, MirrorKept DEF IInv
  <2> QED
    BY <1>2, <2>1, <2>2, <2>3 DEF Step
<1>3. CASE ChangeFile
  <2>1. UNCHANGED <<forward, known, back, pc, req, todo>>
    BY <1>3 DEF ChangeFile
  <2>2. TypeOK'
    <3>1. PICK n \in Files, c \in Contents \cup {Absent} : WriteDisk([disk EXCEPT ![n] = c])
      BY <1>3 DEF ChangeFile
    <3>2. [disk EXCEPT ![n] = c] \in [Files -> Contents \cup {Absent}]
      BY <1>1 DEF TypeOK
    <3>3. /\ disk' \in [Files -> Contents \cup {Absent}]
          /\ touched' \in [Requests -> SUBSET Files]
      BY <1>1, <3>1, <3>2, DiskType
    <3> QED
      BY <1>1, <2>1, <3>3 DEF TypeOK
  <2> QED
    BY <1>1, <2>1, <2>2, MirrorKept DEF IInv
<1>4. CASE Restart
  BY <1>4, RestartInv
<1>5. CASE UNCHANGED vars
  BY <1>1, <1>5, MirrorKept DEF vars, IInv, TypeOK
<1> QED
  BY <1>2, <1>3, <1>4, <1>5 DEF Next

\* The invariant is one of the specification.
LEMMA InvHolds == Spec => []IInv
BY InitInv, NextInv, PTL DEF Spec

\* Every variable keeps its type: in particular every link leads to a note of the
\* folder in which it is written.
THEOREM TypeCorrect == Spec => []TypeOK
<1>1. IInv => TypeOK
  BY DEF IInv
<1> QED
  BY <1>1, InvHolds, PTL

\* The backlinks of a note are always exactly the notes that link to it, however the
\* requests that index them interleave.
THEOREM LinksAreMirrored == Spec => []LinksMirror
<1>1. IInv => LinksMirror
  BY DEF IInv
<1> QED
  BY <1>1, InvHolds, PTL

-----------------------------------------------------------------------------
(* The graph.                                                              *)

Walking(p) == pc[p] \in {"walk", "walked", "answer"}
Indexing(q) == pc[q] \in {"index", "walked"}

\* The index has what is on disk of the note.
Shown(n) ==
    /\ <<FolderId, n>> \in known
    /\ forward[<<FolderId, n>>] = Targets(FolderId, n, disk[n])

\* The note is indexed, or is going to be by the walk.
Covered(p, n) == n \in todo[p] \/ (pc[p] = "walked" /\ req[p].note = n) \/ Shown(n)

WalkInv(p) ==
    Walking(p) =>
        /\ pc[p] = "answer" => todo[p] = {}
        /\ todo[p] # {} \/ pc[p] = "walked" => req[p].folder = FolderId
        /\ \A q \in Requests : Indexing(q) /\ req[q].note \notin touched[p] =>
               req[q].content = disk[req[q].note]
        /\ req[p].folder = FolderId =>
               \A n \in Files \ touched[p] : disk[n] # Absent => Covered(p, n)

GraphInv == \A p \in Requests : WalkInv(p)

\* The files change, or do not, and requests may go on, but not as walks: what they
\* are going to index then is what is on disk.
LEMMA WalkBeside ==
    ASSUME TypeOK, GraphInv, NEW p \in Requests,
           \/ \E new : WriteDisk(new)
           \/ UNCHANGED <<disk, touched>>,
           UNCHANGED <<forward, known, todo>>,
           \A q \in Requests :
               \/ pc'[q] = pc[q] /\ req'[q] = req[q]
               \/ /\ ~Walking(q) /\ ~Walking(q)'
                  /\ pc'[q] = "index" => req'[q].content = disk'[req'[q].note]
    PROVE  WalkInv(p)'
<1> SUFFICES ASSUME Walking(p)'
             PROVE  /\ pc'[p] = "answer" => todo'[p] = {}
                    /\ todo'[p] # {} \/ pc'[p] = "walked" => req'[p].folder = FolderId
                    /\ \A x \in Requests : Indexing(x)' /\ req'[x].note \notin touched'[p] =>
                           req'[x].content = disk'[req'[x].note]
                    /\ req'[p].folder = FolderId =>
                           \A n \in Files \ touched'[p] : disk'[n] # Absent => Covered(p, n)'
  BY DEF WalkInv
<1>1. pc'[p] = pc[p] /\ req'[p] = req[p] /\ Walking(p)
  BY DEF Walking
<1>2. \A n \in Files \ touched'[p] : n \notin touched[p] /\ disk'[n] = disk[n]
  BY <1>1 DEF WriteDisk, Walking
<1>3. WalkInv(p)
  BY DEF GraphInv
<1>4. ASSUME NEW x \in Requests, Indexing(x)', req'[x].note \notin touched'[p]
      PROVE  req'[x].content = disk'[req'[x].note]
  <2>1. CASE ~(pc'[x] = pc[x] /\ req'[x] = req[x])
    BY <1>4, <2>1 DEF Indexing, Walking
  <2>2. CASE pc'[x] = pc[x] /\ req'[x] = req[x]
    <3>1. pc'[x] = pc[x] /\ req'[x] = req[x] /\ Indexing(x)
      BY <1>4, <2>2 DEF Indexing
    <3>2. req[x].note \in Files
      BY DEF TypeOK, Request
    <3>3. req[x].note \notin touched[p] /\ disk'[req[x].note] = disk[req[x].note]
      BY <1>2, <1>4, <3>1, <3>2
    <3> QED
      BY <1>1, <1>3, <3>1, <3>3 DEF WalkInv
  <2> QED
    BY <2>1, <2>2
<1>5. ASSUME req'[p].folder = FolderId, NEW n \in Files \ touched'[p], disk'[n] # Absent
      PROVE  Covered(p, n)'
  <2>1. Covered(p, n)
    BY <1>1, <1>2, <1>3, <1>5 DEF WalkInv
  <2> QED
    BY <1>1, <1>2, <2>1 DEF Covered, Shown
<1> QED
  BY <1>1, <1>3, <1>4, <1>5 DEF WalkInv

LEMMA GraphBeside ==
    ASSUME TypeOK, GraphInv, NEW q \in Requests,
           BeginCreate(q) \/ BeginWrite(q) \/ WriteFile(q) \/ BeginRename(q) \/ RenameFile(q)
    PROVE  GraphInv'
<1> SUFFICES ASSUME NEW p \in Requests PROVE WalkInv(p)'
  BY DEF GraphInv
<1>1. ASSUME NEW r, NEW stage \in {"write", "move"}, Begin(q, stage, r)
      PROVE  WalkInv(p)'
  <2>1. /\ UNCHANGED <<disk, touched>> /\ UNCHANGED <<forward, known, todo>>
        /\ pc[q] \notin {"walk", "walked", "answer"}
        /\ pc'[q] \notin {"walk", "walked", "answer"} /\ pc'[q] # "index"
        /\ \A x \in Requests \ {q} : pc'[x] = pc[x] /\ req'[x] = req[x]
    BY <1>1 DEF Begin, Goto, TypeOK
  <2> QED
    BY <2>1, WalkBeside DEF Walking
<1>2. CASE BeginCreate(q) \/ BeginWrite(q) \/ BeginRename(q)
  BY <1>1, <1>2 DEF BeginCreate, BeginWrite, BeginRename
<1>3. CASE WriteFile(q)
  <2>1. /\ \E new : WriteDisk(new)
        /\ UNCHANGED <<forward, known, todo>> /\ UNCHANGED req
        /\ pc[q] \notin {"walk", "walked", "answer"}
        /\ pc'[q] \notin {"walk", "walked", "answer"}
        /\ \A x \in Requests \ {q} : pc'[x] = pc[x] /\ req'[x] = req[x]
    BY <1>3 DEF WriteFile, Goto, TypeOK
  <2>2. req'[q].content = disk'[req'[q].note]
    BY <1>3 DEF WriteFile, WriteDisk, TypeOK, Request
  <2> QED
    BY <2>1, <2>2, WalkBeside DEF Walking
<1>4. CASE RenameFile(q)
  <2>1. /\ (\E new : WriteDisk(new)) \/ UNCHANGED <<disk, touched>>
        /\ UNCHANGED <<forward, known, todo>>
        /\ pc[q] \notin {"walk", "walked", "answer"}
        /\ pc'[q] \notin {"walk", "walked", "answer"} /\ pc'[q] # "index"
        /\ \A x \in Requests \ {q} : pc'[x] = pc[x] /\ req'[x] = req[x]
    BY <1>4 DEF RenameFile, Goto, TypeOK
  <2> QED
    BY <2>1, WalkBeside DEF Walking
<1> QED
  BY <1>2, <1>3, <1>4

\* Another request indexes a note, of the walk or of a writer.  It indexes what is on
\* disk, or the note is touched.
LEMMA GraphIndexing ==
    ASSUME TypeOK, GraphInv, NEW q \in Requests, IndexWritten(q) \/ IndexVisited(q)
    PROVE  GraphInv'
<1> SUFFICES ASSUME NEW p \in Requests, Walking(p)'
             PROVE  /\ pc'[p] = "answer" => todo'[p] = {}
                    /\ todo'[p] # {} \/ pc'[p] = "walked" => req'[p].folder = FolderId
                    /\ \A x \in Requests : Indexing(x)' /\ req'[x].note \notin touched'[p] =>
                           req'[x].content = disk'[req'[x].note]
                    /\ req'[p].folder = FolderId =>
                           \A n \in Files \ touched'[p] : disk'[n] # Absent => Covered(p, n)'
  BY DEF GraphInv, WalkInv
<1> DEFINE k == req[q].note
           folder == IF pc[q] = "walked" THEN FolderId ELSE req[q].folder
           targets == Targets(folder, k, req[q].content)
<1>0. UNCHANGED <<disk, todo, touched>> /\ Indexing(q)
  BY DEF IndexWritten, IndexVisited, Indexing
<1>1. /\ \A x \in Requests \ {q} : pc'[x] = pc[x] /\ req'[x] = req[x]
      /\ pc'[q] \in {"idle", "walk"}
      /\ pc'[q] = "walk" => pc[q] = "walked" /\ req'[q] = [NoRequest EXCEPT !.folder = FolderId]
  BY DEF IndexWritten, IndexVisited, Goto, TypeOK
<1>2. Walking(p) /\ WalkInv(p)
  BY <1>1 DEF Walking, GraphInv
<1>3. [NoRequest EXCEPT !.folder = FolderId].folder = FolderId
  BY NoRequestType DEF Request
<1>4. req'[p].folder = FolderId => req[p].folder = FolderId
  <2>1. CASE p = q
    BY <1>1, <1>2, <2>1 DEF Walking, WalkInv
  <2>2. CASE p # q
    BY <1>1, <2>2
  <2> QED
    BY <2>1, <2>2
<1>5. IndexNote(<<folder, k>>, targets)
  BY DEF IndexWritten, IndexVisited
<1>6. k \in Files /\ forward \in [Key -> SUBSET Key]
  BY DEF TypeOK, Request
<1>7. ASSUME req'[p].folder = FolderId, NEW n \in Files \ touched'[p], disk'[n] # Absent
      PROVE  Covered(p, n)'
  <2>0. Covered(p, n) /\ n \notin touched[p]
    BY <1>0, <1>2, <1>4, <1>7 DEF WalkInv
  <2>1. <<FolderId, n>> \in Key
    BY NotesAssumption DEF Key
  <2>2. CASE folder = FolderId /\ k = n
    <3>1. req[q].content = disk[n]
      BY <1>0, <1>2, <2>0, <2>2 DEF WalkInv
    <3>2. known' = known \cup {<<FolderId, n>>} /\ forward'[<<FolderId, n>>] = targets
      BY <1>5, <1>6, <2>1, <2>2 DEF IndexNote
    <3> QED
      BY <1>0, <2>2, <3>1, <3>2 DEF Covered, Shown
  <2>3. CASE ~(folder = FolderId /\ k = n)
    <3>1. <<folder, k>> # <<FolderId, n>>
      BY <2>3
    <3>2. known \subseteq known' /\ forward'[<<FolderId, n>>] = forward[<<FolderId, n>>]
      <4> HIDE DEF folder, targets, k
      <4> QED
        BY <1>5, <1>6, <2>1, <3>1 DEF IndexNote
    <3>3. Shown(n) => Shown(n)'
      BY <1>0, <3>2 DEF Shown
    <3>4. pc[p] = "walked" /\ req[p].note = n => pc'[p] = "walked" /\ req'[p].note = n
      BY <1>1, <2>3
    <3> QED
      BY <1>0, <2>0, <3>3, <3>4 DEF Covered
  <2> QED
    BY <2>2, <2>3
<1>8. pc'[p] = "answer" => todo'[p] = {}
  BY <1>0, <1>1, <1>2 DEF WalkInv
<1>9. todo'[p] # {} \/ pc'[p] = "walked" => req'[p].folder = FolderId
  <2>1. CASE p = q
    BY <1>1, <1>3, <2>1 DEF Walking
  <2>2. CASE p # q
    BY <1>0, <1>1, <1>2, <2>2 DEF WalkInv
  <2> QED
    BY <2>1, <2>2
<1>10. ASSUME NEW x \in Requests, Indexing(x)', req'[x].note \notin touched'[p]
       PROVE  req'[x].content = disk'[req'[x].note]
  <2>1. x # q
    BY <1>1, <1>10 DEF Indexing
  <2> QED
    BY <1>0, <1>1, <1>2, <1>10, <2>1 DEF Indexing, WalkInv
<1> QED
  BY <1>7, <1>8, <1>9, <1>10

\* A walk goes on.
LEMMA GraphWalking ==
    ASSUME TypeOK, GraphInv, NEW q \in Requests,
           BeginGraph(q) \/ Visit(q) \/ EndWalk(q) \/ GetGraph(q)
    PROVE  GraphInv'
<1> SUFFICES ASSUME NEW p \in Requests, Walking(p)'
             PROVE  /\ pc'[p] = "answer" => todo'[p] = {}
                    /\ todo'[p] # {} \/ pc'[p] = "walked" => req'[p].folder = FolderId
                    /\ \A x \in Requests : Indexing(x)' /\ req'[x].note \notin touched'[p] =>
                           req'[x].content = disk'[req'[x].note]
                    /\ req'[p].folder = FolderId =>
                           \A n \in Files \ touched'[p] : disk'[n] # Absent => Covered(p, n)'
  BY DEF GraphInv, WalkInv
<1>0. UNCHANGED <<disk, forward, known>>
  BY DEF BeginGraph, Visit, EndWalk, GetGraph
<1>1. \A x \in Requests \ {q} : /\ pc'[x] = pc[x] /\ req'[x] = req[x]
                              /\ todo'[x] = todo[x] /\ touched'[x] = touched[x]
  <2>1. CASE BeginGraph(q)
    BY <2>1 DEF BeginGraph, Goto, TypeOK
  <2>2. CASE Visit(q)
    BY <2>2 DEF Visit, Goto, TypeOK
  <2>3. CASE EndWalk(q) \/ GetGraph(q)
    BY <2>3 DEF EndWalk, GetGraph, Goto, TypeOK
  <2> QED
    BY <2>1, <2>2, <2>3
<1>2. CASE BeginGraph(q)
  <2>1. PICK folder \in FolderNames :
            /\ req' = [req EXCEPT ![q] = [NoRequest EXCEPT !.folder = folder]]
            /\ todo' = [todo EXCEPT ![q] = IF folder = FolderId THEN Files ELSE {}]
            /\ touched' = [touched EXCEPT ![q] = Pending]
            /\ pc' = [pc EXCEPT ![q] = "walk"] /\ pc[q] = "idle"
    BY <1>2 DEF BeginGraph, Goto
  <2>2. pc'[q] = "walk" /\ ~Indexing(q)'
    BY <2>1 DEF TypeOK, Indexing
  <2>3. CASE p = q
    <3>1. /\ todo'[p] = (IF folder = FolderId THEN Files ELSE {}) /\ touched'[p] = Pending
          /\ req'[p].folder = folder
      BY <2>1, <2>3, NoRequestType DEF TypeOK, Request
    <3>2. \A x \in Requests : Indexing(x)' => req'[x].note \in Pending
      BY <1>1, <2>2 DEF Pending, Indexing
    <3> QED
      BY <2>2, <2>3, <3>1, <3>2 DEF Covered
  <2>4. CASE p # q
    <3>1. WalkInv(p) /\ Walking(p)
      BY <1>1, <2>4 DEF GraphInv, Walking
    <3>2. \A x \in Requests : Indexing(x)' => Indexing(x) /\ req'[x] = req[x]
      BY <1>1, <2>2 DEF Indexing
    <3> QED
      BY <1>0, <1>1, <2>4, <3>1, <3>2 DEF WalkInv, Covered, Shown
  <2> QED
    BY <2>3, <2>4
<1>3. CASE Visit(q)
  <2>1. PICK n \in todo[q] :
            /\ todo' = [todo EXCEPT ![q] = @ \ {n}]
            /\ \/ /\ disk[n] # Absent
                  /\ req' = [req EXCEPT ![q].note = n, ![q].content = disk[n]]
                  /\ Goto(q, "walked")
               \/ disk[n] = Absent /\ UNCHANGED <<req, pc>>
    BY <1>3 DEF Visit, Visited
  <2>2. pc[q] = "walk" /\ UNCHANGED touched
    BY <1>3 DEF Visit
  <2>3. WalkInv(p) /\ Walking(p)
    BY <1>1, <2>2 DEF GraphInv, Walking
  <2>4. WalkInv(q) /\ todo'[q] = todo[q] \ {n} /\ req[q].folder = FolderId
    BY <2>1, <2>2 DEF GraphInv, TypeOK, WalkInv, Walking
  <2>5. \/ /\ disk[n] # Absent /\ pc'[q] = "walked"
           /\ req'[q].note = n /\ req'[q].content = disk[n] /\ req'[q].folder = FolderId
        \/ disk[n] = Absent /\ UNCHANGED <<req, pc>>
    BY <2>1, <2>4 DEF Goto, TypeOK, Request
  <2>6. \A x \in Requests : Indexing(x)' =>
            \/ Indexing(x) /\ req'[x] = req[x]
            \/ x = q /\ req'[x].content = disk[req'[x].note]
    BY <1>1, <2>5 DEF Indexing
  <2>7. \A m \in Files \ touched[p] : disk[m] # Absent /\ Covered(p, m) => Covered(p, m)'
    <3> SUFFICES ASSUME NEW m \in Files, disk[m] # Absent, Covered(p, m)
                 PROVE  Covered(p, m)'
      OBVIOUS
    <3>1. Shown(m) => Shown(m)'
      BY <1>0 DEF Shown
    <3>2. CASE p = q
      BY <2>2, <2>4, <2>5, <3>1, <3>2 DEF Covered
    <3>3. CASE p # q
      BY <1>1, <3>1, <3>3 DEF Covered
    <3> QED
      BY <3>2, <3>3
  <2>8. \A m \in Files \ touched'[p] : req'[p].folder = FolderId /\ disk'[m] # Absent =>
            Covered(p, m)'
    <3>1. req'[p].folder = FolderId => req[p].folder = FolderId
      BY <1>1, <2>4
    <3> QED
      BY <1>0, <2>2, <2>3, <2>7, <3>1 DEF WalkInv
  <2>9. \A x \in Requests : Indexing(x)' /\ req'[x].note \notin touched'[p] =>
            req'[x].content = disk'[req'[x].note]
    BY <1>0, <2>2, <2>3, <2>6 DEF WalkInv
  <2>10. /\ pc'[p] = "answer" => todo'[p] = {}
         /\ todo'[p] # {} \/ pc'[p] = "walked" => req'[p].folder = FolderId
    BY <1>1, <2>2, <2>3, <2>4, <2>5 DEF WalkInv
  <2> QED
    BY <2>8, <2>9, <2>10
<1>4. CASE EndWalk(q)
  <2>1. /\ pc[q] = "walk" /\ pc'[q] = "answer" /\ todo[q] = {}
        /\ UNCHANGED <<req, todo, touched>>
    BY <1>4 DEF EndWalk, Goto, TypeOK
  <2>2. WalkInv(p) /\ Walking(p)
    BY <1>1, <2>1 DEF GraphInv, Walking
  <2>3. \A x \in Requests : Indexing(x)' => Indexing(x)
    BY <1>1, <2>1 DEF Indexing
  <2>4. \A n : Covered(p, n) => Covered(p, n)'
    BY <1>0, <1>1, <2>1 DEF Covered, Shown
  <2>5. /\ pc'[p] = "answer" => todo'[p] = {}
        /\ todo'[p] # {} \/ pc'[p] = "walked" => req'[p].folder = FolderId
    BY <1>1, <2>1, <2>2 DEF WalkInv
  <2> QED
    BY <1>0, <2>1, <2>2, <2>3, <2>4, <2>5 DEF WalkInv
<1>5. CASE GetGraph(q)
  <2>1. pc[q] = "answer" /\ pc'[q] = "idle"
    BY <1>5 DEF GetGraph, Goto, TypeOK
  <2>2. p # q
    BY <2>1 DEF Walking
  <2>3. WalkInv(p) /\ Walking(p)
    BY <1>1, <2>2 DEF GraphInv, Walking
  <2>4. \A x \in Requests : Indexing(x)' => Indexing(x) /\ req'[x] = req[x]
    BY <1>1, <2>1 DEF Indexing
  <2>5. \A n : Covered(p, n) => Covered(p, n)'
    BY <1>0, <1>1, <2>2 DEF Covered, Shown
  <2> QED
    BY <1>0, <1>1, <2>2, <2>3, <2>4, <2>5 DEF WalkInv
<1> QED
  BY <1>2, <1>3, <1>4, <1>5

LEMMA GraphInvariant == TypeOK /\ GraphInv /\ [Next]_vars => GraphInv'
<1> SUFFICES ASSUME TypeOK, GraphInv, [Next]_vars PROVE GraphInv'
  OBVIOUS
<1>1. ASSUME NEW q \in Requests, Step(q) PROVE GraphInv'
  BY <1>1, GraphBeside, GraphIndexing, GraphWalking DEF Step
<1>2. CASE ChangeFile
  BY <1>2, WalkBeside DEF ChangeFile, GraphInv
<1>3. CASE Restart
  BY <1>3 DEF Restart, GraphInv, WalkInv, Walking
<1>4. CASE UNCHANGED vars
  BY <1>4, WalkBeside DEF vars, GraphInv
<1> QED
  BY <1>1, <1>2, <1>3, <1>4 DEF Next

\* The graph of a folder shows of every note that nobody writes meanwhile exactly the
\* links of its content, whatever other requests write, rename or index beside it
\* (handlers_editor.go handleGraph indexes all notes first).
THEOREM GraphsAreCurrent == Spec => []GraphIsCurrent
<1>1. Init => GraphInv
  BY DEF Init, GraphInv, WalkInv, Walking
<1>2. TypeOK /\ GraphInv /\ [Next]_vars => GraphInv'
  BY GraphInvariant
<1>3. GraphInv => GraphIsCurrent
  <2> SUFFICES ASSUME GraphInv, NEW p \in Requests, pc[p] = "answer",
                      req[p].folder = FolderId, NEW n \in Files \ touched[p],
                      disk[n] # Absent
               PROVE  Shown(n)
    BY DEF GraphIsCurrent, Shown
  <2> QED
    BY DEF GraphInv, WalkInv, Walking, Covered
<1> QED
  BY <1>1, <1>2, <1>3, TypeCorrect, PTL DEF Spec
=============================================================================
