SPECIFICATION FairSpec
CONSTANTS
    r1 = r1  r2 = r2  root = root  pid1 = pid1  pid2 = pid2
    Requesters = {r1, r2}
    Pids = {root, pid1, pid2}
    Root = root
    NoPid = NoPid
    MaxStarts = 4
    Faults = TRUE
INVARIANTS TypeOK EntryIsCurrent OwnNameUnlessLate TimelyParentIsGenuine SharedStaysShared
PROPERTIES EntryStays RequestCompletes NotificationCompletes
