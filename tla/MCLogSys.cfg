CONSTANTS
    Thread = {t1, t2, t3}
    Committers = {t1, t2}
    Flushers = {t3}
    Extenders = {}
    Resizers = {}
    WriteThrough = {FALSE}
    MaxLsn = 2
    Dummy = Dummy
    NoCallback = NoCallback
    NoThread = NoThread
SPECIFICATION Spec
SYMMETRY Symmetry
INVARIANTS TypeOK DurableAcknowledged ValuesBehindFile AssertionsHold
