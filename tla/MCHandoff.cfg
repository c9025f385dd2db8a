SPECIFICATION Spec
CONSTANTS
  Users = {u1, u2}
  Sessions = {s1}
  Requests = {r1, r2, r3}
  NoUser = NoUser
  NoSession = NoSession
  NoRequest = NoRequest
SYMMETRY Symmetry
INVARIANTS
  OwnerRemains
  ClaimantIsMember
  StaleConsoleWillHear
PROPERTIES
  ClaimEndsProperly
  ImplementsContract
