\* One extract refresh task, deleted and rescheduled by two administrators.
CONSTANTS
    p1 = p1
    k1 = k1
    x1 = x1
    Calls = {p1, k1, x1}
    Users = {u1, u2}
    Contents = {}
    Tasks = {t}
    Schedules = {daily, weekly}
    None = None
    MinAgeDays = 1
    MaxAgeDays = 1
    MaxDay = 2
SPECIFICATION Spec
CONSTRAINT Steady
SYMMETRY Symmetry
CHECK_DEADLOCK FALSE
INVARIANTS
    TypeOK
    ProofSpentOnce
    ConfirmedAsPreviewed
