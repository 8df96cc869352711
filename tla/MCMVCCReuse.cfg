CONSTANTS
    Trx = {t1}
    MaxId = 3
    Reader = {r1}
    Autocommit = {r1}
    Purger = {purge}
    MaxRetry = 0
SPECIFICATION Spec
SYMMETRY Symmetry
INVARIANT PurgeRespectsViews
