SPECIFICATION Spec
CONSTANTS
  Blank = Blank  Junk = Junk
  admin = admin  other = other  freelancer = freelancer  stranger = stranger
  new1 = new1  new2 = new2  Registry = Registry  NoAddress = NoAddress
  p1 = p1  p2 = p2  p3 = p3  tab1 = tab1  tab2 = tab2
  PostingEdits = 4 DeliveryEdits = 2 Visitors = {"stranger", "freelancer"} Clicks = 2 Switches = 1 DeskTxs = 2 Others = 1 Balances = {3} Proposals = 3
  Scenes = {"direct", "marketplace", "delivery", "bell", "roles desk", "token desk", "check", "one tab", "two tabs", "executing", "consenting", "walk", "few", "card"}
CHECK_DEADLOCK FALSE
INVARIANTS SentAsChosen ShownIsTrue
PROPERTY NothingIsUndone
