SPECIFICATION FairSpec
CONSTANTS
    t1 = t1  t2 = t2  t3 = t3
    Threads = {t1, t2, t3}
INVARIANTS TypeOK ManagersPresent NothingLeftBehind
PROPERTIES DeinitCompletes
CHECK_DEADLOCK FALSE
