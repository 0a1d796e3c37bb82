SPECIFICATION SceneSpec
CONSTANTS
  Scenes = {"given"}
  pause = pause
  unpause = unpause
  redirect = redirect
  None = None
  r1 = r1
  r2 = r2
  Txs = {pause, unpause, redirect}
  PauseTxs <- Pauses
  OnChainProject <- Redirected
  UnstorableTxs = {}
  BlockContents <- ReorgBlocks
  Runs = {r1}
  EVENT_SYNC_START_BLOCK = 1
  EVENT_SYNC_BATCH_SIZE = 2
  EVENT_SYNC_CONFIRMATIONS = 1
  EVENT_SYNC_REWIND_DEPTH = 1
  MaxReorgDepth = 3
  ReorgDuringRuns = FALSE
  MaxHead = 4
  MaxForks = 1
  MaxFailures = 0
INVARIANTS
  RecipientsFollowLedger
