CONSTANTS
    Thread = {t1, t2, t3}
    Callback = {c1}
    Dummy = Dummy
    NoCallback = NoCallback
    MaxValue = 2
SPECIFICATION Spec
SYMMETRY Symmetry
INVARIANTS TypeOK OneOwner NothingTooEarly CallbackOnce NobodyStranded NoLostWakeup
