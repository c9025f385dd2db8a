SPECIFICATION FairSpec
CONSTANTS
  Users = {u1, u2}
  Sessions = {s1}
  Requests = {r1, r2}
  NoUser = NoUser
  NoSession = NoSession
  NoRequest = NoRequest
PROPERTIES
  RequestsDrain
  EscalationReachesQueue
