CONSTANTS
    Trx = {t1, t2, t3}
    MaxId = 5
    Reader = {r1}
    Autocommit = {}
    Purger = {}
    MaxRetry = 1
SPECIFICATION Spec
SYMMETRY Symmetry
INVARIANT CommittedVisible
