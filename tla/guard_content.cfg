\* A preview of one workbook with a confirm or a removal of its markers, over three days.
CONSTANTS
    p1 = p1
    k1 = k1
    x1 = x1
    Calls = {p1, k1}
    Users = {u}
    Contents = {w}
    Tasks = {}
    Schedules = {}
    None = None
    MinAgeDays = 1
    MaxAgeDays = 1
    MaxDay = 4
SPECIFICATION Spec
CONSTRAINT InRole
INVARIANTS
    AssessedInItsBatch
    UnusedSinceBatch
    KeptUnmarked
    AuditAgrees
CHECK_DEADLOCK FALSE
