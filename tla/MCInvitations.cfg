SPECIFICATION Spec
CONSTANTS
  i1 = i1
  i2 = i2
  Ids <- MCIds
  Tags <- MCTags
  Emails = {ann, bob}
  Roles = {agent, viewer}
  Requests = {r1, r2}
  None = None
  MaxSends = 2
  MaxAttempts = 2
  MaxStalls = 1
  agent = agent
  viewer = viewer
  bob = bob
  MaxEmails = 2
  MaxTrouble = 1
  MaxFailures = 1
SYMMETRY Symmetry
CONSTRAINT Small
CHECK_DEADLOCK FALSE
INVARIANTS
  InvitationsAreTold
  NoStrayAccount
PROPERTIES
  ImplementsContract
