SPECIFICATION Spec
CONSTANTS
  c1 = c1
  c2 = c2
  c3 = c3
  c4 = c4
  ask1 = ask1
  ask2 = ask2
  sig1 = sig1
  sig2 = sig2
  sig3 = sig3
  title = title
  chart1 = chart1
  None = None
  Calls <- AllCalls
  Asks <- BothAsks
  Charts <- OneChart
  Proposals <- ThreeProposals
  Inputs <- Sent
  MaxAsks = 1
  MaxSheets = 1
  MaxProposals = 8
  MaxEdits = 1
CONSTRAINTS TwoAtOnce EditOrFourth OtherAskApart
SYMMETRY Alike
CHECK_DEADLOCK FALSE
INVARIANTS TypeOK OneCorrection OfferStands OutcomeIsOwn NoTwins
PROPERTIES ActiveKeepsItsPlace
