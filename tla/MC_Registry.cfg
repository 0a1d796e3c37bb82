SPECIFICATION Spec
CONSTANTS
  Registry = Registry NoAddress = NoAddress admin = admin arb = arb arb2 = arb2
  client = client freelancer = freelancer other = other usdc = usdc
  Scenes = {"council", "proposing", "consenting", "sharing", "exit", "paying"}
CHECK_DEADLOCK FALSE
PROPERTIES PromisesAreKept FundsGetOut
