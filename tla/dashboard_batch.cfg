SPECIFICATION Spec
CONSTANTS
  b1 = b1
  b2 = b2
  s1 = s1
  a1 = a1
  a2 = a2
  a3 = a3
  p = p
  q = q
  None = None
  Batches <- TwoBatches
  Singles <- OneSingle
  Artifacts <- ThreeArtifacts
  Sheets <- TwoSheets
  Target <- TargetOf
  Wanted <- WantedBy
  Replacing <- TwoBatches
  Capacity = 2
  MaxEdits = 1
CHECK_DEADLOCK FALSE
INVARIANTS TypeOK RetrySafeLeavesNothing OldDashboardIsToldOf ArtifactSentOnce UndoesOnlyInARace
