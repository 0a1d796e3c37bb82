SPECIFICATION FairSceneSpec
CONSTANTS
  Registry = Registry NoAddress = NoAddress admin = admin arb = arb
  client = client freelancer = freelancer other = other usdc = usdc
  pause = pause unpause = unpause redirect = redirect None = None r1 = r1
  Scenes = {"recipients", "consents", "offering", "card", "sessions", "deep"}
  Txs = {pause, unpause, redirect}
  PauseTxs <- Pauses
  OnChainProject <- Redirected
  UnstorableTxs = {}
  BlockContents <- ReorgBlocks
  Runs = {r1}
  EVENT_SYNC_START_BLOCK = 1
  EVENT_SYNC_BATCH_SIZE = 2
  EVENT_SYNC_CONFIRMATIONS = 1
  EVENT_SYNC_REWIND_DEPTH = 1
  MaxReorgDepth = 3
  ReorgDuringRuns = FALSE
  MaxHead = 4
  MaxForks = 2
  MaxFailures = 1
CHECK_DEADLOCK FALSE
INVARIANTS MirrorsFollowDisputes ProjectionsFollowLedger
PROPERTIES OffersMatchRegistry OrphansAreRemoved
