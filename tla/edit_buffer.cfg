\* Three of two edits, a read and an apply of two worksheets, one change and one restart.
CONSTANTS
    e1 = e1
    w1 = w1
    r1 = r1
    a1 = a1
    s1 = s1
    s2 = s2
    n1 = n1
    n2 = n2
    Edits = {e1, w1}
    Waits = {w1}
    Reads = {r1}
    Applies = {a1}
    Sheets = {s1, s2}
    Names = {n1, n2}
    Given <- Arg
    MaxInstances = 2
    MaxChanges = 1
    None = None
SPECIFICATION Spec
SYMMETRY Symmetry
CONSTRAINT Bounded
CHECK_DEADLOCK FALSE
INVARIANTS
    TypeOK
    Accumulates
    UndoesOnlyInARace
