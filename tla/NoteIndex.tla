----------------------------- MODULE NoteIndex -----------------------------
(***************************************************************************)
(* The index of the links between the notes of a folder                    *)
(* (gui/noteindex.go) and the HTTP requests that write notes and read the  *)
(* index (gui/handlers_core.go, gui/handlers_editor.go), each in a         *)
(* goroutine of its own.                                                   *)
(*                                                                         *)
(* idx.mu protects the maps, so that one call of the index is one step;    *)
(* nothing holds what is on disk and what is indexed together.             *)
(*                                                                         *)
(* A note is a directory and a name.  The content of a note is the set of  *)
(* its wikilinks: a link names a note of the directory it is written in    *)
(* (dir "same", no "/" in the link) or a path from the folder's root.      *)
(***************************************************************************)
EXTENDS Naturals

CONSTANTS
    Requests,       \* the goroutines that serve HTTP requests
    Dirs, Names,    \* the directories of the folder and the names in them
    Files,          \* the notes somebody writes
    Contents,       \* what is written: sets of links
    FolderId,       \* the folder's ID, by which reindexAllNotes names it
    FolderNames,    \* what a request may name it by: the ID, the label
    Absent          \* there is no such file

Note == [dir : Dirs, name : Names]
Link == [dir : Dirs \cup {"same"}, name : Names]
Key  == FolderNames \X Note                   \* noteKey: "folder::path"

ASSUME NotesAssumption ==
    /\ Files \subseteq Note /\ Files # {}
    /\ Contents \subseteq SUBSET Link
    /\ {} \in Contents
    /\ Absent \notin Contents
    /\ FolderId \in FolderNames
    /\ "same" \notin Dirs

VARIABLES
    disk,           \* the folder: Files -> Contents, or Absent
    forward,        \* forwardLinks: the targets of a key ({} for a key it lacks)
    known,          \* the keys of forwardLinks
    back,           \* backLinks: the sources of a key ({} for a key it lacks)
    pc,             \* where each request stands
    req,            \* its folder name, its note, the name a rename gives it and the
                    \* content at hand
    todo,           \* the notes a walk has still to visit
    touched         \* for a graph request, the notes that were written, or about
                    \* to be indexed by another request, since it began

vars == <<disk, forward, known, back, pc, req, todo, touched>>

Request == [folder : FolderNames, note : Files, to : Files, content : Contents]

TypeOK ==
    /\ disk \in [Files -> Contents \cup {Absent}]
    /\ forward \in [Key -> SUBSET Key]
    /\ known \in SUBSET Key
    /\ back \in [Key -> SUBSET Key]
    /\ pc \in [Requests -> {"idle", "write", "index", "move", "walk", "walked", "answer"}]
    /\ req \in [Requests -> Request]
    /\ todo \in [Requests -> SUBSET Files]
    /\ touched \in [Requests -> SUBSET Files]

NoRequest == CHOOSE r \in Request : TRUE

Init ==
    /\ disk \in [Files -> Contents \cup {Absent}]
    /\ forward = [k \in Key |-> {}]
    /\ known = {}
    /\ back = [k \in Key |-> {}]
    /\ pc = [p \in Requests |-> "idle"]
    /\ req = [p \in Requests |-> NoRequest]
    /\ todo = [p \in Requests |-> {}]
    /\ touched = [p \in Requests |-> {}]

-----------------------------------------------------------------------------
(* The index.                                                              *)

\* Mutant of Resolve: a link without a directory is kept as it is written.
ResolveRaw(note, link) == link

\* The note that a link written in a note means.
Resolve(note, link) ==
    IF link.dir = "same" THEN [dir |-> note.dir, name |-> link.name] ELSE link

Targets(folder, note, content) == {<<folder, Resolve(note, link)>> : link \in content}

\* Mutant of Unlinked: the links of the old content keep their backlinks.
UnlinkedNever(source) == back

\* removeBacklink for each old target.
Unlinked(source) ==
    [t \in Key |-> IF t \in forward[source] THEN back[t] \ {source} ELSE back[t]]

IndexNote(source, targets) ==
    /\ back' = [t \in Key |-> IF t \in targets THEN Unlinked(source)[t] \cup {source}
                                               ELSE Unlinked(source)[t]]
    /\ forward' = [forward EXCEPT ![source] = targets]
    /\ known' = known \cup {source}

-----------------------------------------------------------------------------
(* Writing.                                                                *)

Goto(p, stage) == pc' = [pc EXCEPT ![p] = stage]

\* Files change, and the graph requests under way may have read them before.
WriteDisk(new) ==
    /\ disk' = new
    /\ touched' = [q \in Requests |-> IF pc[q] \in {"walk", "walked", "answer"}
                       THEN touched[q] \cup {n \in Files : new[n] # disk[n]}
                       ELSE touched[q]]

Begin(p, stage, r) ==
    /\ pc[p] = "idle"
    /\ Goto(p, stage)
    /\ req' = [req EXCEPT ![p] = r]
    /\ UNCHANGED <<disk, forward, known, back, todo, touched>>

\* handleCreateFile has seen no such file, handleFileWrite does not look.  Both take
\* the ID or the label of the folder, and index the note under what they were given.
BeginCreate(p) ==
    \E r \in Request : disk[r.note] = Absent /\ r.to = r.note /\ Begin(p, "write", r)

BeginWrite(p) ==
    \E r \in Request : r.to = r.note /\ Begin(p, "write", r)

WriteFile(p) ==
    /\ pc[p] = "write"
    /\ WriteDisk([disk EXCEPT ![req[p].note] = req[p].content])
    /\ Goto(p, "index")
    /\ UNCHANGED <<forward, known, back, req, todo>>

IndexWritten(p) ==
    /\ pc[p] = "index"
    /\ IndexNote(<<req[p].folder, req[p].note>>,
                 Targets(req[p].folder, req[p].note, req[p].content))
    /\ Goto(p, "idle")
    /\ req' = [req EXCEPT ![p] = NoRequest]
    /\ UNCHANGED <<disk, todo, touched>>

\* handleDeleteFile, a synchronised file, a user's editor: the index is not told.
ChangeFile ==
    /\ \E n \in Files, c \in Contents \cup {Absent} :
           c # disk[n] /\ WriteDisk([disk EXCEPT ![n] = c])
    /\ UNCHANGED <<forward, known, back, pc, req, todo>>

\* handleRenameFile looks whether the note is there and the new name of the same
\* directory is free, and then renames; the index is not told.
BeginRename(p) ==
    \E r \in Request :
        /\ disk[r.note] # Absent
        /\ disk[r.to] = Absent
        /\ r.to.dir = r.note.dir
        /\ r.folder = FolderId /\ r.content = {}
        /\ Begin(p, "move", r)

RenameFile(p) ==
    /\ pc[p] = "move"
    /\ \/ /\ disk[req[p].note] # Absent
          /\ WriteDisk([disk EXCEPT ![req[p].note] = Absent, ![req[p].to] = disk[req[p].note]])
       \/ /\ disk[req[p].note] = Absent
          /\ UNCHANGED <<disk, touched>>
    /\ Goto(p, "idle")
    /\ req' = [req EXCEPT ![p] = NoRequest]
    /\ UNCHANGED <<forward, known, back, todo>>

-----------------------------------------------------------------------------
(* The graph.                                                              *)

\* The notes other requests are about to index with what they wrote or read.
Pending == {req[q].note : q \in {r \in Requests : pc[r] \in {"index", "walked"}}}

\* handleGraph: a graph of the folder indexes all its notes first, one asked for
\* under the label finds no folder to walk.
BeginGraph(p) ==
    /\ pc[p] = "idle"
    /\ \E folder \in FolderNames :
           /\ req' = [req EXCEPT ![p] = [NoRequest EXCEPT !.folder = folder]]
           /\ todo' = [todo EXCEPT ![p] = IF folder = FolderId THEN Files ELSE {}]
    /\ touched' = [touched EXCEPT ![p] = Pending]
    /\ Goto(p, "walk")
    /\ UNCHANGED <<disk, forward, known, back>>

\* Mutant of Visited: a note the index knows is not read again.
VisitedUnknown(n) == disk[n] # Absent /\ <<FolderId, n>> \notin known

\* The walk reads the notes it finds.
Visited(n) == disk[n] # Absent

Visit(p) ==
    /\ pc[p] = "walk"
    /\ \E n \in todo[p] :
           /\ todo' = [todo EXCEPT ![p] = @ \ {n}]
           /\ \/ /\ Visited(n)
                 /\ req' = [req EXCEPT ![p].note = n, ![p].content = disk[n]]
                 /\ Goto(p, "walked")
              \/ /\ ~Visited(n)
                 /\ UNCHANGED <<req, pc>>
    /\ UNCHANGED <<disk, forward, known, back, touched>>

\* IndexNote of what the walk has read, under the folder's ID.
IndexVisited(p) ==
    /\ pc[p] = "walked"
    /\ IndexNote(<<FolderId, req[p].note>>, Targets(FolderId, req[p].note, req[p].content))
    /\ req' = [req EXCEPT ![p] = [NoRequest EXCEPT !.folder = FolderId]]
    /\ Goto(p, "walk")
    /\ UNCHANGED <<disk, todo, touched>>

EndWalk(p) ==
    /\ pc[p] = "walk"
    /\ todo[p] = {}
    /\ Goto(p, "answer")
    /\ UNCHANGED <<disk, forward, known, back, req, todo, touched>>

\* GetGraph reads the maps.
GetGraph(p) ==
    /\ pc[p] = "answer"
    /\ Goto(p, "idle")
    /\ req' = [req EXCEPT ![p] = NoRequest]
    /\ touched' = [touched EXCEPT ![p] = {}]
    /\ UNCHANGED <<disk, forward, known, back, todo>>

\* The program stops at any point; the index lives in memory only.
Restart ==
    /\ forward' = [k \in Key |-> {}]
    /\ known' = {}
    /\ back' = [k \in Key |-> {}]
    /\ pc' = [p \in Requests |-> "idle"]
    /\ req' = [p \in Requests |-> NoRequest]
    /\ todo' = [p \in Requests |-> {}]
    /\ touched' = [p \in Requests |-> {}]
    /\ UNCHANGED disk

-----------------------------------------------------------------------------
Step(p) ==
    \/ BeginCreate(p) \/ BeginWrite(p) \/ WriteFile(p) \/ IndexWritten(p)
    \/ BeginRename(p) \/ RenameFile(p)
    \/ BeginGraph(p) \/ Visit(p) \/ IndexVisited(p) \/ EndWalk(p) \/ GetGraph(p)

Next ==
    \/ \E p \in Requests : Step(p)
    \/ ChangeFile
    \/ Restart

Spec == Init /\ [][Next]_vars

-----------------------------------------------------------------------------
(* Properties.                                                             *)

\* Whatever is indexed again and again, in whatever order, the backlinks of a note
\* are exactly the notes that link to it: none is left over from an old content and
\* none is lost when another note drops the same link (noteindex.go:42-78, 206-228).
LinksMirror ==
    /\ \A s, t \in Key : t \in forward[s] <=> s \in back[t]
    /\ \A s \in Key \ known : forward[s] = {}

\* The graph of a folder shows, for each note that is on disk and that nobody wrote
\* or was about to index when the graph was asked for or since, exactly the links of
\* its content, whatever was written, renamed, received or asked for before
\* (handlers_editor.go:488-489, "the graph is always up-to-date").  Notes that are
\* gone stay in it until a restart.
GraphIsCurrent ==
    \A p \in Requests : pc[p] = "answer" /\ req[p].folder = FolderId =>
        \A n \in Files \ touched[p] : disk[n] # Absent =>
            /\ <<FolderId, n>> \in known
            /\ forward[<<FolderId, n>>] = Targets(FolderId, n, disk[n])
=============================================================================
