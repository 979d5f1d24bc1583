SPECIFICATION Spec
CONSTANTS
    u1 = u1
    u2 = u2
    v1 = v1
    v2 = v2
    v3 = v3
    Users = {u1, u2}
    Videos = {v1, v2}
    TagNames = {"arm", "leg"}
    Owner <- MCOwnerOfTwo
    TagsOf <- MCTagsOfTwo
    Tasks = {"t1", "t2"}
    Sweeper = "main"
    NoUser = NoUser
    NoVideo = NoVideo
    Configured = {}
    Faults = {"fetch", "unlink", "abort", "dump", "crash", "wipe", "unreadable", "recovery"}
INVARIANT TypeOK
INVARIANT CustodyKept
INVARIANT CustodyReachable
INVARIANT ManifestNeverPhantom
INVARIANT IInv
PROPERTY RowsLeaveOnlyByOwner
PROPERTY RecoveryIsComplete
PROPERTY AllowlistSurvivesMigration
PROPERTY KeepsPromise
