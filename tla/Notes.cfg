SPECIFICATION Spec
CONSTANTS
    r1 = r1
    r2 = r2
    absent = absent
    Requests <- MCRequests
    Dirs <- MCDirs
    Names <- MCNames
    Files <- MCFiles
    Contents <- MCContents
    FolderId = "id"
    FolderNames = {"id", "label"}
    Absent = absent
SYMMETRY Symmetric
INVARIANTS
    TypeOK
    LinksMirror
    GraphIsCurrent
