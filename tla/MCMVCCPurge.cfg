CONSTANTS
    Trx = {t1, t2}
    MaxId = 4
    Reader = {r1}
    Autocommit = {}
    Purger = {purge}
    MaxRetry = 0
SPECIFICATION Spec
SYMMETRY Symmetry
INVARIANTS PurgeRespectsViews PurgeViewOldest PurgeOnlyEnded
