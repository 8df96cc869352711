CONSTANTS
    Thread = {t1, t2}
    Committers = {t1, t2}
    Flushers = {t2}
    Extenders = {t1}
    Resizers = {}
    WriteThrough = {FALSE}
    MaxLsn = 2
    Dummy = Dummy
    NoCallback = NoCallback
    NoThread = NoThread
SPECIFICATION FairSpec
INVARIANT IgnoredReturnIsZero
PROPERTIES ImplementsLog CallsReturn CallbacksRun
