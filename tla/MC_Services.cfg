SPECIFICATION SceneSpec
CONSTANTS
  None = None  Nobody = Nobody  Registry = Registry  NoAddress = NoAddress
  ann = ann  bob = bob  cleo = cleo  c1 = c1  f1 = f1  f2 = f2
  n1 = n1  n2 = n2  v1 = v1  v2 = v2  phone = phone  laptop = laptop  alice = alice  boss = boss
  t1 = t1  t2 = t2  admin = admin  arb1 = arb1  arb2 = arb2  arb3 = arb3  settle = settle  run1 = run1
  Wallets = {alice, boss}  Devices = {phone, laptop}  WalletOf <- OfAlice  Nonces = {n1, n2}
  Verifications = {v1, v2}  AUTH_ADMIN_WALLETS = {boss}  AUTH_NONCE_TTL_SECONDS = 1
  AUTH_SESSION_MAX_AGE_SECONDS = 1  OnboardingRoles = {"CLIENT"}  MaxNow = 1
  MayFail = TRUE
  Accounts <- CouncilAccounts  Deployer = admin  RoleChanges <- CouncilChanges
  ActionSubjects = {settle}  MaxConfigNonce = 4
  Scenes = {"marketplace", "sign-in", "answering", "binding", "tabs", "governing", "council", "mirroring", "rewinding", "switching", "pausing"}
CHECK_DEADLOCK FALSE
INVARIANTS ProjectsAreTheirParties LoginsAreSound MirrorsFollowGovernance
  RoleSeparation ThresholdAttainable LiveVotesAreOfArbitrators QuorumExactlyWhenExecuted
PROPERTIES WaitsEnd VotesOnlyForTheLiveConfiguration
