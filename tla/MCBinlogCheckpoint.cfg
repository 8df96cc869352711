SPECIFICATION Spec
CONSTANTS
    t1 = t1
    t2 = t2
    Trx = {t1, t2}
    MaxFile = 3
    MaxAdmin = 1
    MaxCrash = 1
SYMMETRY Symmetry
INVARIANTS
    EngineAgreesWithBinlog
    RecoveryReadsUndecided
    EntryPinned
    CheckpointFilePresent
    NothingLeftHanging
PROPERTIES
    CheckpointsInOrder
CHECK_DEADLOCK FALSE
