SPECIFICATION FairSpec
CONSTANTS
  Blank = Blank  Junk = Junk
  admin = admin  other = other  freelancer = freelancer  stranger = stranger
  new1 = new1  new2 = new2  Registry = Registry  NoAddress = NoAddress
  p1 = p1  p2 = p2  p3 = p3  tab1 = tab1  tab2 = tab2
  PostingEdits = 3 DeliveryEdits = 1 Visitors = {"freelancer"} Clicks = 2 Switches = 0 DeskTxs = 1 Others = 0 Balances = {3} Proposals = 2
  Scenes = {"direct", "delivery", "bell", "roles desk", "one tab", "executing", "card"}
CHECK_DEADLOCK FALSE
PROPERTY EveryClickIsAnswered
