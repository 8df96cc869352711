CONSTANTS
    Context = {c1, c2, c3}
    Alter = {c3}
    Key = {k1, k2}
    Type = {"SW", "SNW", "X"}
    Wanted <- MCWanted
    Limits = {1, 2}
    MaxHog = 1
    MAX_SEARCH_DEPTH = 5
    MaxTickets = 2
    MaxDisconnects = 1
    None = None
SPECIFICATION Spec
SYMMETRY Symmetry
INVARIANTS TypeOK NoConflictingGrants TicketsMatch NoUndetectedDeadlock NoMissedGrant
PROPERTY VictimInDeadlock
