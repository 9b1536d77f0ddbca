SPECIFICATION Spec
CONSTANTS
    r1 = r1
    r2 = r2
    Requests <- MCRequests
INVARIANTS
    TypeOK
    ServerIsManaged
    StatusAgrees
    ModeIsRemembered
PROPERTIES
    RequestsEnd
