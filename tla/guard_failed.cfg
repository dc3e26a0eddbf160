\* A preview of one workbook and its confirm, whose request times out.
CONSTANTS
    p1 = p1
    k1 = k1
    x1 = x1
    Calls = {p1, k1}
    Users = {u}
    Contents = {w}
    Tasks = {}
    Schedules = {}
    None = None
    MinAgeDays = 1
    MaxAgeDays = 1
    MaxDay = 3
SPECIFICATION Spec
CONSTRAINT InRole
INVARIANT FailedIsUnchanged
CHECK_DEADLOCK FALSE
