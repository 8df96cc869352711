SPECIFICATION FairSpec
CONSTANTS
    Threads = {t1, t2}
    Replicas = {r1, r2}
    MaxPos = 2
    MaxEvents = 2
INVARIANTS
    SleeperCovered
    TrackedOrReceived
PROPERTIES
    SettledAtReturn
    TrackedSleeperWakes
CHECK_DEADLOCK FALSE
