SPECIFICATION LifeSpec
CONSTANTS
  admin = admin
  arb = arb
  client = client
  freelancer = freelancer
  usdc = usdc
  Registry = Registry
  NoAddress = NoAddress
  Deployer = admin
  Tokens = {usdc}
  Accounts <- LifeAccounts
  RoleChanges <- OneArbiter
  MaxConfigNonce = 1
  MaxProjects = 1
  MAX_MILESTONES = 2
  Plans <- LifePlans
  Parties <- OnePair
  Resolutions <- LifeResolutions
  FundingAmounts = {1, 2}
  RecipientChoices <- LifeChoices
  InitialBalance = 3
  Blockable <- NoChoices
  StrayAmounts <- NoChoices
  MaxSignedConsents = 0
  ALTERNATIVE_RECIPIENT_DELAY = 1
  EMERGENCY_RESOLUTION_DELAY = 1
  CANCEL_TIMEOUT = 2
  DISPUTE_TIMEOUT = 3
  MAX_UINT256 = 9
  MaxProposals = 0
  MaxTime = 5
INVARIANTS TypeOK ReservationsMatchDisputes OneMilestoneInFlight
  DeliveredWorkStaysFunded BooksFollowMilestones ProposalsDieWithTheirDispute
  TokensCoverLiabilities ApprovalsServeOnce
PROPERTIES KeepsLifecycle DeliveredWorkIsNotTakenBack PauseLeavesOnlyEmergencyPaths
  OnlyConsentedRecipientsArePaid VotesAreMultisigSteps
