CONSTANTS
    Thread = {t1, t2}
    Committers = {t1, t2}
    Flushers = {}
    Extenders = {}
    Resizers = {t2}
    WriteThrough = {TRUE, FALSE}
    MaxLsn = 2
    Dummy = Dummy
    NoCallback = NoCallback
    NoThread = NoThread
SPECIFICATION Spec
INVARIANTS FileExclusive WrittenAcknowledged
PROPERTY ValuesGrow
