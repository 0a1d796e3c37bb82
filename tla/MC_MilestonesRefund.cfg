SPECIFICATION SceneSpec
CONSTANTS
  a1 = a1
  Scenes = {"calls"}
  MilestoneCount = 2
  Cost <- CostTwo
  Agreements <- AgreementTwo
  MilestoneIndexes <- IndexesTwo
  Deposits = {2, 4}
  Arbiters = {a1}
  Threshold = 1
  OpenPages = {}
  Direct <- AllCalls
  MayLeave = FALSE
  MayReorg = FALSE
CHECK_DEADLOCK FALSE
INVARIANT MilestonesMirrorChain
