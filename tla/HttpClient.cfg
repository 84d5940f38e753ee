SPECIFICATION FairSpec
CONSTANTS
    Threads = {t1, t2}
    Urls = {u1, u2}
    MaxLen = 1
    MaxGen = 2
INVARIANTS
    OwnTarget
    StatusIsOwn
    BodyIsTheRange
PROPERTIES
    CallsEnd
