CONSTANTS
    Trx = {t1, t2, t3}
    MaxId = 4
    Reader = {r1}
    Autocommit = {r1}
    Purger = {}
    MaxRetry = 2
SPECIFICATION Spec
SYMMETRY Symmetry
INVARIANTS TypeOK NoDirtyRead CommittedVisibleOnce
