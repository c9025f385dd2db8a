SPECIFICATION ChatSpec
CONSTANTS
  Users = {u1, u2}
  Sessions = {s1}
  NoUser = NoUser
  NoSession = NoSession
  Sockets = {k1, k2}
  Turns = {t1}
  Threads = {thread1, thread2}
  NoThread = NoThread
  PageLimit = 2
  MaxStored = 5
  QueueSize = 4
  Initially <- InitiallyDef
  Since <- SinceDef
  Found <- FoundDef
  PageSize = 2
  MaxMoves = 1
  MaxSelects = 2
SYMMETRY Symmetry
CHECK_DEADLOCK FALSE
INVARIANTS
  ConversationsArePrivate
  PresenceCounts
  ListenersMayWork
  DrawerShowsItsThread
  QueueIsShown
