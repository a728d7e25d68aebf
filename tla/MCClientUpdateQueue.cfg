\* Two clients, one of which may fail, and a thread that changes attributes, scheduled fairly.
SPECIFICATION FairSpec
CONSTANTS
    Client = {c1, c2}
    Entity = {e}
    Writer = {t1}
    Failing = {c2}
    MaxChanges = 3
    Nothing = Nothing
INVARIANTS
    ClientsComplete
PROPERTIES
    FollowStream
    UpdatesArrive
    WritersProgress
    StoppedThreadsEnd
CHECK_DEADLOCK FALSE
