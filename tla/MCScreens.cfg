SPECIFICATION ScreensSpec
CONSTANTS
  Chats = {chat1, chat2}
  NoChat = NoChat
  MaxConsoleCalls = 2
  MaxJoins = 1
  linkA = linkA
  linkB = linkB
  ann = ann
  bob = bob
  Links = {linkA, linkB}
  Guests = {ann, bob}
  Invitee <- InviteeDef
  NoLink = NoLink
  NoOne = NoOne
  MaxVisits = 2
  Addresses = {first, second, malformed}
  Malformed = {malformed}
  NoAddress = NoAddress
  PollLimit = 2
  MaxInvites = 2
  MaxSent = 1
  MaxResends = 2
  Reports = {"sent", "failed"}
  Endings = {"expired", "accepted"}
  Documents = 2
  ListCalls = 2
  ProgressCalls = 1
  MaxTurns = 3
  MaxAsked = 3
  MaxAdrift = 1
  People = {member}
  Nobody = Nobody
  Ranks = {"owner", "agent"}
  MaxCalls = 2
  MaxRefreshes = 2
SYMMETRY ChatSymmetry
CHECK_DEADLOCK FALSE
INVARIANTS
  ConsoleIsCurrent
  AcceptanceIsHonest
  DialogFollowsItsOwn
  TabCatchesUp
  DocumentsAreShown
  TeamCatchesUp
PROPERTIES
  PlaygroundTells
