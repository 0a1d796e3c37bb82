SPECIFICATION SceneSpec
CONSTANTS
  a1 = a1
  Scenes = {"calls", "reviewing", "funding", "correcting", "disputing", "replaying", "redepositing"}
  MilestoneCount = 2
  Cost <- CostTwo
  Agreements <- AgreementTwo
  MilestoneIndexes <- IndexesTwo
  Deposits = {2, 4}
  Arbiters = {a1}
  Threshold = 1
  OpenPages = {}
  Direct <- AllCalls
  MayLeave = FALSE
  MayReorg = FALSE
CHECK_DEADLOCK FALSE
INVARIANTS NothingIsAhead ShownAsOnChain SettledRowsStay ReportsAreTrue
PROPERTY SettlementIsShown
