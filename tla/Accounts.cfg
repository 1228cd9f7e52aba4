SPECIFICATION FairSpec
CONSTANTS
  Clients = {c1, c2, c3}
  Typed = {"ann", "ANN", "bob"}
  Mailbox <- MCMailbox
  Forms <- MCForms
  Weak = {"weak"}
  Long = {"long"}
  MaxFailures = 2
INVARIANTS
  TypeOK
  OneAccountPerMailbox
  OwnAccountOnly
PROPERTIES
  EveryoneGetsAnAnswer
CHECK_DEADLOCK FALSE
