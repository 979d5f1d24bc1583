SPECIFICATION FairSpec
CONSTANTS
    u1 = u1
    u2 = u2
    v1 = v1
    v2 = v2
    v3 = v3
    Users = {u1, u2}
    Videos = {v1, v2, v3}
    TagNames = {"arm", "leg"}
    Owner <- MCOwner
    TagsOf <- MCTagsOf
    Tasks = {"t1"}
    Sweeper = "main"
    NoUser = NoUser
    NoVideo = NoVideo
    Configured = {}
    Faults = {"wipe", "unreadable"}
PROPERTY DumpIsCurrent
PROPERTY QuietShutdownRepairs
PROPERTY RecoveryIsComplete
PROPERTY KeepsPromise
