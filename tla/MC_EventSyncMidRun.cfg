SPECIFICATION SceneSpec
CONSTANTS
  Scenes = {"given"}
  pause = pause
  unpause = unpause
  redirect = redirect
  None = None
  r1 = r1
  r2 = r2
  Txs = {pause, unpause}
  PauseTxs <- Pauses
  OnChainProject <- NoRedirects
  UnstorableTxs = {}
  BlockContents <- OverlapBlocks
  Runs = {r1}
  EVENT_SYNC_START_BLOCK = 1
  EVENT_SYNC_BATCH_SIZE = 2
  EVENT_SYNC_CONFIRMATIONS = 1
  EVENT_SYNC_REWIND_DEPTH = 1
  MaxReorgDepth = 2
  ReorgDuringRuns = TRUE
  MaxHead = 4
  MaxForks = 1
  MaxFailures = 0
INVARIANTS
  OrphansAreRewound
