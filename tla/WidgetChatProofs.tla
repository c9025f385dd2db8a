-------------------------- MODULE WidgetChatProofs ---------------------------
(***************************************************************************)
(* Proofs about WidgetChat for any number of users, conversations, sockets *)
(* and visitors' turns.  A handler may act on what it read before it was   *)
(* suspended because whoever takes the claim away puts its holder among    *)
(* those being revoked, in the same step, and the revocation closes every  *)
(* socket that could still act.                                            *)
(* And about the AgentConsole at the other end of the chat, for any number  *)
(* of conversations, calls and events; and about the QueueScreen, for a     *)
(* queue and pages of any length, any number of fetches and of changes.    *)
(***************************************************************************)
EXTENDS WidgetChat, QueueScreen, AgentConsole, SequenceTheorems, FiniteSetTheorems, TLAPS

\* A conversation nobody has claimed yet has no claimant.
Unclaimed == \A s \in Sessions : status[s] \in {"absent", "escalated"} => claimedBy[s] = NoUser

\* What is counted of a user are the entries of the gateway's map.
EntriesCounted ==
  \A u \in Users : presence[u] = Cardinality({k \in connections : user[k] = u})

IInv ==
  /\ TypeOK
  /\ Unclaimed
  /\ SocketsOK
  /\ EntriesCounted
  /\ RoomIsPrivate
  /\ ChecksStayTrue
  /\ ListenersMayWork

\* A visitor's turn touches neither the sockets nor who has claimed what.
Quiet == UNCHANGED <<role, claimedBy, reducing, sockets, errands>>

LEMMA TurnsAreQuiet ==
  ASSUME NEW t \in Turns, Relay(t) \/ Reply(t) \/ Escalate(t) \/ \E s \in Sessions : Route(t, s)
  PROVE  Quiet
BY DEF Relay, Reply, FinishTurn, Escalate, Route, Quiet, sockets, tables, DB!EscalateSession

\* The operations that leave everybody's access alone: they take no claim away
\* and nobody's right to work.
LEMMA ChangeTablesEffect ==
  ASSUME TypeOK, Unclaimed, ChangeTables
  PROVE  /\ \A s \in Sessions : claimedBy'[s] = claimedBy[s] \/ claimedBy[s] = NoUser
         /\ \A u \in Users : role[u] \in Work => role'[u] \in Work
         /\ UNCHANGED <<reducing, sockets, errands>>
<1> USE DEF TypeOK, Work
<1>1. UNCHANGED <<reducing, sockets, errands>>
  BY DEF ChangeTables
<1>2. ASSUME NEW s \in Sessions, DB!ResolveSession(s)
      PROVE  UNCHANGED <<role, claimedBy>>
  BY <1>2 DEF DB!ResolveSession
<1>3. ASSUME NEW u \in Users, NEW s \in Sessions, DB!ClaimSession(u, s)
      PROVE  /\ \A x \in Sessions : claimedBy'[x] = claimedBy[x] \/ claimedBy[x] = NoUser
             /\ role' = role
  BY <1>3 DEF DB!ClaimSession, Unclaimed
<1>4. ASSUME NEW u \in Users, NEW g \in Work \cup {"viewer"}, DB!JoinAs(u, g)
      PROVE  /\ claimedBy' = claimedBy
             /\ \A x \in Users : role[x] \in Work => role'[x] \in Work
  BY <1>4 DEF DB!JoinAs, DB!Member
<1>5. ASSUME NEW u \in Users, NEW g \in Work, DB!SetRole(u, g)
      PROVE  /\ claimedBy' = claimedBy
             /\ \A x \in Users : role[x] \in Work => role'[x] \in Work
  BY <1>5 DEF DB!SetRole
<1>6. ASSUME NEW a \in Users, NEW u \in Users, DB!TransferOwnership(a, u)
      PROVE  /\ claimedBy' = claimedBy
             /\ \A x \in Users : role[x] \in Work => role'[x] \in Work
  BY <1>6 DEF DB!TransferOwnership
<1> QED
  BY <1>1, <1>2, <1>3, <1>4, <1>5, <1>6 DEF ChangeTables

\* A reduction of access disturbs the claims and the role of one user only.
LEMMA ReduceAccessEffect ==
  ASSUME TypeOK, NEW u \in Users, ReduceAccess(u)
  PROVE  /\ \A s \in Sessions : claimedBy'[s] = claimedBy[s] \/ claimedBy[s] = u
         /\ \A v \in Users : v # u => role'[v] = role[v]
         /\ reducing' = reducing \cup {u}
         /\ UNCHANGED <<sockets, errands>>
BY DEF ReduceAccess, TypeOK, DB!EndMembership, DB!SetRole, DB!Release

\* The tables keep their types, and a conversation is held only once claimed.
LEMMA TablesStep ==
  ASSUME TypeOK, Unclaimed, [Next]_vars
  PROVE  /\ role' \in [Users -> {"owner", "agent", "viewer", "none"}]
         /\ status' \in [Sessions -> {"absent", "escalated", "claimed", "resolved"}]
         /\ claimedBy' \in [Sessions -> Users \cup {NoUser}]
         /\ Unclaimed'
<1> USE DEF TypeOK, Work, Unclaimed
<1>1. CASE UNCHANGED tables
  BY <1>1 DEF tables
<1>2. ASSUME NEW s \in Sessions, DB!ResolveSession(s) \/ DB!EscalateSession(s)
      PROVE  /\ role' = role /\ claimedBy' = claimedBy
             /\ status' \in [Sessions -> {"absent", "escalated", "claimed", "resolved"}]
             /\ Unclaimed'
  BY <1>2 DEF DB!ResolveSession, DB!EscalateSession
<1>3. ASSUME NEW u \in Users, NEW s \in Sessions, DB!ClaimSession(u, s)
      PROVE  /\ role' = role
             /\ status' \in [Sessions -> {"absent", "escalated", "claimed", "resolved"}]
             /\ claimedBy' \in [Sessions -> Users \cup {NoUser}]
             /\ Unclaimed'
  BY <1>3 DEF DB!ClaimSession
<1>4. ASSUME NEW u \in Users, NEW g \in Work \cup {"viewer"}, DB!JoinAs(u, g)
      PROVE  /\ role' \in [Users -> {"owner", "agent", "viewer", "none"}]
             /\ UNCHANGED <<status, claimedBy>>
  BY <1>4 DEF DB!JoinAs
<1>5. ASSUME NEW a \in Users, NEW u \in Users, DB!TransferOwnership(a, u)
      PROVE  /\ role' \in [Users -> {"owner", "agent", "viewer", "none"}]
             /\ UNCHANGED <<status, claimedBy>>
  BY <1>5 DEF DB!TransferOwnership
<1>6. ASSUME NEW u \in Users, DB!Release(u)
      PROVE  /\ status' \in [Sessions -> {"absent", "escalated", "claimed", "resolved"}]
             /\ claimedBy' \in [Sessions -> Users \cup {NoUser}]
             /\ Unclaimed'
  BY <1>6 DEF DB!Release
<1>7. ASSUME NEW u \in Users, NEW g \in Work \cup {"viewer"}, DB!SetRole(u, g)
      PROVE  /\ role' \in [Users -> {"owner", "agent", "viewer", "none"}]
             /\ DB!Release(u) \/ UNCHANGED <<status, claimedBy>>
  BY <1>7 DEF DB!SetRole
<1>8. ASSUME NEW u \in Users, DB!EndMembership(u)
      PROVE  role' \in [Users -> {"owner", "agent", "viewer", "none"}] /\ DB!Release(u)
  BY <1>8 DEF DB!EndMembership
<1>9. CASE ChangeTables
  BY <1>9, <1>2, <1>3, <1>4, <1>5, <1>6, <1>7 DEF ChangeTables
<1>10. ASSUME NEW u \in Users, ReduceAccess(u)
       PROVE  /\ role' \in [Users -> {"owner", "agent", "viewer", "none"}]
              /\ status' \in [Sessions -> {"absent", "escalated", "claimed", "resolved"}]
              /\ claimedBy' \in [Sessions -> Users \cup {NoUser}]
              /\ Unclaimed'
  BY <1>10, <1>6, <1>7, <1>8 DEF ReduceAccess
<1>11. ASSUME NEW t \in Turns, Escalate(t)
       PROVE  UNCHANGED tables \/ \E s \in Sessions : DB!EscalateSession(s)
  <2>1. CASE turnSession[t] \in Sessions
    BY <1>11, <2>1 DEF Escalate
  <2>2. CASE turnSession[t] \notin Sessions
    BY <1>11, <2>2 DEF Escalate, DB!EscalateSession, tables
  <2> QED
    BY <2>1, <2>2
<1>12. ASSUME NEW t \in Turns, NEW s \in Sessions, Route(t, s)
       PROVE  UNCHANGED tables
  BY <1>12 DEF Route
<1>13. ASSUME NEW t \in Turns, Relay(t) \/ Reply(t)
       PROVE  UNCHANGED tables
  BY <1>13 DEF Relay, Reply, FinishTurn
<1>14. ASSUME NEW k \in Sockets, SocketStep(k)
       PROVE  UNCHANGED tables
  BY <1>14 DEF SocketStep, Connect, Authorise, Register, Disconnect, CheckClaim
<1>15. ASSUME NEW e \in errands, Join(e) \/ Say(e)
       PROVE  UNCHANGED tables
  BY <1>15 DEF Join, Say
<1>16. ASSUME NEW u \in Users, Revoke(u)
       PROVE  UNCHANGED tables
  BY <1>16 DEF Revoke
<1>17. ASSUME Restart \/ UNCHANGED vars
       PROVE  UNCHANGED tables
  BY <1>17 DEF Restart, vars, tables
<1>18. \/ UNCHANGED tables \/ ChangeTables
       \/ \E u \in Users : ReduceAccess(u)
       \/ \E s \in Sessions : DB!EscalateSession(s)
  <2>1. CASE \E u \in Users : ReduceAccess(u) \/ Revoke(u)
    BY <2>1, <1>16
  <2>2. CASE \E k \in Sockets : SocketStep(k)
    BY <2>2, <1>14
  <2>3. CASE \E e \in errands : Join(e) \/ Say(e)
    BY <2>3, <1>15
  <2>4. CASE \E t \in Turns, s \in Sessions : Route(t, s)
    BY <2>4, <1>12
  <2>5. CASE \E t \in Turns : Relay(t) \/ Escalate(t) \/ Reply(t)
    BY <2>5, <1>11, <1>13
  <2> QED
    BY <2>1, <2>2, <2>3, <2>4, <2>5, <1>17 DEF Next
<1>19. CASE \E s \in Sessions : DB!EscalateSession(s)
  BY <1>19, <1>2
<1>20. CASE \E u \in Users : ReduceAccess(u)
  BY <1>20, <1>10
<1> QED
  BY <1>1, <1>9, <1>18, <1>19, <1>20

\* What TypeOK says of everything but the tables.
SocketTypes ==
  /\ reducing \subseteq Users
  /\ user \in [Sockets -> Users \cup {NoUser}]
  /\ wire \in [Sockets -> {"up", "down"}]
  /\ greeting \in [Sockets -> {"none", "verifying", "authorised"}]
  /\ connections \subseteq Sockets
  /\ presence \in [Users -> Nat]
  /\ ghosts \subseteq Sockets
  /\ listening \subseteq Sockets
  /\ talking \in [Sockets -> SUBSET Sessions]
  /\ errands \subseteq Errands
  /\ overtaken \subseteq Sockets
  /\ turn \in [Turns -> {"idle", "relaying", "answering"}]
  /\ turnSession \in [Turns -> Sessions \cup {NoSession}]

\* The part of the invariant that is about sockets.
SocketInv ==
  /\ SocketTypes
  /\ SocketsOK
  /\ EntriesCounted
  /\ RoomIsPrivate
  /\ ChecksStayTrue
  /\ ListenersMayWork

Own(u) == {k \in connections : user[k] = u}

LEMMA SocketInvFromIInv == IInv => SocketInv
BY DEF IInv, TypeOK, SocketTypes, SocketInv

LEMMA OwnFinite ==
  ASSUME TypeOK, NEW u \in Users
  PROVE  IsFiniteSet(Own(u)) /\ Cardinality(Own(u)) \in Nat
<1>1. Own(u) \subseteq Sockets
  BY DEF Own, TypeOK
<1> QED
  BY <1>1, FS_Subset, FS_CardinalityType, ChatAssumption

\* Presence drops by exactly the sockets that were counted.
LEMMA CloseCounts ==
  ASSUME TypeOK, EntriesCounted, NEW ks \in SUBSET Sockets, Close(ks), user' = user
  PROVE  presence' \in [Users -> Nat] /\ EntriesCounted'
<1>1. ASSUME NEW u \in Users
      PROVE  presence'[u] \in Nat /\ presence'[u] = Cardinality({k \in connections' : user'[k] = u})
  <2>1. {k \in connections' : user'[k] = u} = Own(u) \ ks
    BY DEF Close, Own
  <2>2. {k \in ks \cap connections : user[k] = u} = Own(u) \cap ks
    BY DEF Own
  <2>3. presence[u] = Cardinality(Own(u))
    BY DEF EntriesCounted, Own
  <2>4. /\ Cardinality(Own(u) \ ks) = Cardinality(Own(u)) - Cardinality(Own(u) \cap ks)
        /\ IsFiniteSet(Own(u) \ ks)
    BY OwnFinite, FS_Difference
  <2>5. Cardinality(Own(u) \ ks) \in Nat
    BY <2>4, FS_CardinalityType
  <2>6. presence'[u] = presence[u] - Cardinality({k \in ks \cap connections : user[k] = u})
    BY DEF Close
  <2> QED
    BY <2>1, <2>2, <2>3, <2>4, <2>5, <2>6
<1>2. presence' \in [Users -> Nat]
  BY <1>1 DEF Close
<1> QED
  BY <1>1, <1>2 DEF EntriesCounted

\* Closed sockets hear nothing; what the other sockets may do is unchanged.
LEMMA CloseKeepsSockets ==
  ASSUME TypeOK, SocketsOK, NEW ks \in SUBSET Sockets, Close(ks), UNCHANGED <<user, greeting, errands, role>>
  PROVE  /\ wire' \in [Sockets -> {"up", "down"}]
         /\ connections' \subseteq Sockets /\ listening' \subseteq Sockets
         /\ talking' \in [Sockets -> SUBSET Sessions]
         /\ \A k \in Sockets : talking'[k] = IF k \in ks THEN {} ELSE talking[k]
         /\ \A k \in Sockets : wire'[k] = IF k \in ks THEN "down" ELSE wire[k]
         /\ listening' = {k \in connections' : wire'[k] = "up"}
         /\ listening' = listening \ ks
         /\ ks \subseteq {k \in Sockets : wire[k] = "up"} => ghosts = connections' \ listening'
         /\ \A k \in Sockets :
              /\ talking'[k] # {} => k \in listening'
              /\ greeting'[k] # "none" => k \notin connections'
              /\ k \in connections' \/ greeting'[k] # "none" \/ wire'[k] = "up" => user'[k] \in Users
              /\ wire'[k] = "up" => k \in connections' \/ greeting'[k] # "none"
         /\ \A e \in errands' : user'[e.socket] \in Users /\ greeting'[e.socket] = "none"
<1>1. /\ wire' \in [Sockets -> {"up", "down"}]
      /\ connections' = connections \ ks /\ listening' = listening \ ks
      /\ talking' \in [Sockets -> SUBSET Sessions]
      /\ \A k \in Sockets : talking'[k] = IF k \in ks THEN {} ELSE talking[k]
      /\ \A k \in Sockets : wire'[k] = IF k \in ks THEN "down" ELSE wire[k]
  BY DEF Close, TypeOK
<1>2. ASSUME ks \subseteq {k \in Sockets : wire[k] = "up"} PROVE ghosts = connections' \ listening'
  <2>1. \A k \in ks : k \notin connections \/ k \in listening
    BY <1>2 DEF SocketsOK
  <2>2. ghosts = connections \ listening
    BY DEF SocketsOK
  <2> QED
    BY <1>1, <2>1, <2>2
<1>3. listening' = {k \in connections' : wire'[k] = "up"}
  BY <1>1 DEF SocketsOK, TypeOK
<1> QED
  BY <1>1, <1>2, <1>3 DEF SocketsOK, TypeOK

LEMMA DisconnectStep ==
  ASSUME IInv, NEW k \in Sockets, Disconnect(k)
  PROVE  SocketInv'
<1> USE DEF IInv
<1>1. /\ Close({k}) /\ UNCHANGED <<tables, reducing, user, greeting, ghosts, overtaken, errands, turns>>
      /\ {k} \subseteq {j \in Sockets : wire[j] = "up"}
  BY DEF Disconnect
<1>2. presence' \in [Users -> Nat] /\ EntriesCounted'
  BY <1>1, CloseCounts
<1>3. SocketTypes'
  BY <1>1, <1>2, CloseKeepsSockets DEF TypeOK, SocketTypes, tables, turns
<1>4. SocketsOK'
  BY <1>1, CloseKeepsSockets DEF SocketsOK, tables, BeingRevoked
<1>5. RoomIsPrivate'
  BY <1>1, CloseKeepsSockets DEF RoomIsPrivate, tables, BeingRevoked
<1>6. ChecksStayTrue'
  BY <1>1, CloseKeepsSockets DEF ChecksStayTrue, tables, BeingRevoked, TypeOK, Errands
<1>7. ListenersMayWork'
  BY <1>1, CloseKeepsSockets DEF ListenersMayWork, tables, BeingRevoked
<1> QED
  BY <1>2, <1>3, <1>4, <1>5, <1>6, <1>7 DEF SocketInv

\* After the revocation nothing open is left that relied on it being on its way.
LEMMA RevokeStep ==
  ASSUME IInv, NEW u \in Users, Revoke(u)
  PROVE  SocketInv'
<1> DEFINE ks == {k \in Sockets : user[k] = u} \cap listening
<1> USE DEF IInv
<1>1. /\ Close(ks) /\ UNCHANGED <<tables, user, greeting, ghosts, errands, turns>>
      /\ reducing' = reducing \ {u}
      /\ overtaken' = (overtaken \ ks) \cup {k \in Sockets : user[k] = u /\ greeting[k] = "authorised"}
  BY DEF Revoke
<1>2. ks \in SUBSET Sockets /\ ks \subseteq {k \in Sockets : wire[k] = "up"}
  BY DEF SocketsOK
<1>3. presence' \in [Users -> Nat] /\ EntriesCounted'
  BY <1>1, <1>2, CloseCounts
<1>4. /\ \A k \in Sockets : talking'[k] = IF k \in ks THEN {} ELSE talking[k]
      /\ \A k \in Sockets : wire'[k] = IF k \in ks THEN "down" ELSE wire[k]
      /\ listening' = listening \ ks
  BY <1>1, <1>2, CloseKeepsSockets DEF tables
<1>5. SocketTypes'
  BY <1>1, <1>2, <1>3, CloseKeepsSockets DEF TypeOK, SocketTypes, tables, turns
<1>6. \A k \in Sockets : user[k] # u => (BeingRevoked(k) <=> BeingRevoked(k)')
  BY <1>1 DEF BeingRevoked
<1>7. SocketsOK'
  <2>1. \A k \in Sockets :
          greeting'[k] = "authorised" => role'[user'[k]] \in Work \/ BeingRevoked(k)' \/ k \in overtaken'
    BY <1>1, <1>6 DEF SocketsOK, tables
  <2> QED
    BY <1>1, <1>2, <2>1, CloseKeepsSockets DEF SocketsOK, tables
<1>8. RoomIsPrivate'
  BY <1>1, <1>4, <1>6 DEF RoomIsPrivate, SocketsOK, tables, TypeOK
<1>9. ChecksStayTrue'
  <2> SUFFICES ASSUME NEW e \in errands
               PROVE  claimedBy[e.session] = user[e.socket] \/ BeingRevoked(e.socket)' \/ wire'[e.socket] = "down"
    BY <1>1 DEF ChecksStayTrue, tables
  <2>1. e.socket \in Sockets /\ greeting[e.socket] = "none"
    BY DEF TypeOK, Errands, SocketsOK
  <2>2. CASE wire[e.socket] = "down"
    BY <1>4, <2>1, <2>2
  <2>3. CASE wire[e.socket] = "up" /\ user[e.socket] = u
    BY <1>4, <2>1, <2>3 DEF SocketsOK
  <2>4. CASE user[e.socket] # u
    BY <1>4, <1>6, <2>1, <2>4 DEF ChecksStayTrue
  <2> QED
    BY <2>1, <2>2, <2>3, <2>4 DEF TypeOK
<1>10. ListenersMayWork'
  BY <1>1, <1>4, <1>6 DEF ListenersMayWork, tables, TypeOK
<1> QED
  BY <1>3, <1>5, <1>7, <1>8, <1>9, <1>10 DEF SocketInv

\* A slot is taken only when nothing refers to it any more.
LEMMA ConnectStep ==
  ASSUME IInv, NEW k \in Sockets, Connect(k)
  PROVE  SocketInv'
<1> PICK u \in Users : user' = [user EXCEPT ![k] = u]
  BY DEF Connect
<1> USE DEF IInv, Connect, Unused, tables, turns
<1>1. k \notin connections /\ wire[k] = "down" /\ greeting[k] = "none"
  OBVIOUS
<1>2. SocketTypes'
  BY DEF SocketTypes, TypeOK
<1>3. SocketsOK'
  BY DEF SocketsOK, TypeOK, BeingRevoked, Errands
<1>4. EntriesCounted'
  <2>1. \A v \in Users : {j \in connections' : user'[j] = v} = {j \in connections : user[j] = v}
    BY <1>1 DEF TypeOK
  <2> QED
    BY <2>1 DEF EntriesCounted
<1>5. RoomIsPrivate'
  <2>1. talking[k] = {}
    BY DEF SocketsOK
  <2> QED
    BY <2>1 DEF RoomIsPrivate, BeingRevoked, TypeOK
<1>6. ChecksStayTrue'
  BY DEF ChecksStayTrue, BeingRevoked, TypeOK, Errands
<1>7. ListenersMayWork'
  BY DEF ListenersMayWork, BeingRevoked, TypeOK, SocketsOK
<1> QED
  BY <1>2, <1>3, <1>4, <1>5, <1>6, <1>7 DEF SocketInv

LEMMA AuthoriseStep ==
  ASSUME IInv, NEW k \in Sockets, Authorise(k)
  PROVE  SocketInv'
<1> USE DEF IInv, Authorise, tables, turns
<1>1. SocketTypes'
  BY DEF SocketTypes, TypeOK
<1>2. SocketsOK'
  <2>1. k \notin connections /\ user[k] \in Users /\ \A e \in errands : e.socket # k
    BY DEF SocketsOK
  <2>2. /\ \A j \in Sockets : j # k => wire'[j] = wire[j] /\ greeting'[j] = greeting[j]
        /\ \/ greeting'[k] = "authorised" /\ wire'[k] = wire[k] /\ role[user[k]] \in Work
           \/ greeting'[k] = "none" /\ wire'[k] = "down"
    BY DEF TypeOK
  <2>3. listening' = {j \in connections' : wire'[j] = "up"}
    BY <2>1, <2>2 DEF SocketsOK, TypeOK
  <2>4. \A e \in errands' : user'[e.socket] \in Users /\ greeting'[e.socket] = "none"
    BY <2>1, <2>2 DEF SocketsOK, TypeOK, Errands
  <2> QED
    BY <2>1, <2>2, <2>3, <2>4 DEF SocketsOK, BeingRevoked
<1>3. EntriesCounted'
  BY DEF EntriesCounted
<1>4. RoomIsPrivate' /\ ListenersMayWork'
  BY DEF RoomIsPrivate, ListenersMayWork, BeingRevoked
<1>5. ChecksStayTrue'
  BY DEF ChecksStayTrue, BeingRevoked, TypeOK, Errands
<1> QED
  BY <1>1, <1>2, <1>3, <1>4, <1>5 DEF SocketInv

\* The socket is counted in the step that gives it an entry.
LEMMA RegisterStep ==
  ASSUME IInv, NEW k \in Sockets, Register(k)
  PROVE  SocketInv'
<1> USE DEF IInv, Register, tables, turns
<1>1. k \notin connections /\ user[k] \in Users
  BY DEF SocketsOK
<1>2. SocketTypes'
  BY <1>1 DEF SocketTypes, TypeOK
<1>3. SocketsOK'
  BY DEF SocketsOK, TypeOK, BeingRevoked
<1>4. EntriesCounted'
  <2> SUFFICES ASSUME NEW v \in Users
               PROVE  presence'[v] = Cardinality({j \in connections' : user'[j] = v})
    BY DEF EntriesCounted
  <2>1. presence[v] = Cardinality(Own(v))
    BY DEF EntriesCounted, Own
  <2>2. CASE v = user[k]
    <3>1. {j \in connections' : user'[j] = v} = Own(v) \cup {k} /\ k \notin Own(v)
      BY <1>1, <2>2 DEF Own
    <3>2. Cardinality(Own(v) \cup {k}) = Cardinality(Own(v)) + 1
      BY <3>1, OwnFinite, FS_AddElement
    <3> QED
      BY <1>1, <2>1, <2>2, <3>1, <3>2 DEF TypeOK
  <2>3. CASE v # user[k]
    <3>1. {j \in connections' : user'[j] = v} = Own(v)
      BY <2>3 DEF Own
    <3> QED
      BY <2>1, <2>3, <3>1 DEF TypeOK
  <2> QED
    BY <2>2, <2>3
<1>5. RoomIsPrivate'
  BY DEF RoomIsPrivate, BeingRevoked
<1>6. ChecksStayTrue'
  BY DEF ChecksStayTrue, BeingRevoked
<1>7. ListenersMayWork'
  BY DEF ListenersMayWork, BeingRevoked, SocketsOK
<1> QED
  BY <1>2, <1>3, <1>4, <1>5, <1>6, <1>7 DEF SocketInv

LEMMA CheckClaimStep ==
  ASSUME IInv, NEW k \in Sockets, NEW kind \in {"join", "say"}, NEW s \in Sessions, CheckClaim(k, kind, s)
  PROVE  SocketInv'
<1> USE DEF IInv, CheckClaim, sockets, tables, turns
<1> DEFINE new == [kind |-> kind, socket |-> k, session |-> s]
<1>1. new \in Errands /\ new.socket = k /\ new.session = s /\ errands' = errands \cup {new}
  BY DEF Errands
<1>2. SocketTypes'
  BY <1>1 DEF SocketTypes, TypeOK
<1>3. SocketsOK'
  BY <1>1 DEF SocketsOK, TypeOK, BeingRevoked
<1>4. EntriesCounted'
  BY DEF EntriesCounted
<1>5. RoomIsPrivate' /\ ListenersMayWork'
  BY DEF RoomIsPrivate, ListenersMayWork, BeingRevoked
<1>6. ChecksStayTrue'
  BY <1>1 DEF ChecksStayTrue, BeingRevoked
<1> QED
  BY <1>2, <1>3, <1>4, <1>5, <1>6 DEF SocketInv

\* A socket enters the room with what its handler checked before: it is still
\* the claimant's, or its user is being revoked, or it has closed.
LEMMA ErrandStep ==
  ASSUME IInv, NEW e \in errands, Join(e) \/ Say(e)
  PROVE  SocketInv'
<1> USE DEF IInv, Join, Say, sockets, tables, turns
<1>1. e.socket \in Sockets /\ e.session \in Sessions /\ greeting[e.socket] = "none"
  BY DEF TypeOK, Errands, SocketsOK
<1>2. errands' \subseteq errands
  OBVIOUS
<1>3. /\ UNCHANGED <<role, claimedBy, reducing, user, wire, greeting, connections, presence, ghosts, listening, overtaken>>
      /\ \A k \in Sockets : talking'[k] = talking[k]
                             \/ (k = e.socket /\ wire[k] = "up" /\ talking'[k] = talking[k] \cup {e.session})
  BY <1>1 DEF TypeOK
<1>4. SocketTypes'
  BY <1>1, <1>2 DEF SocketTypes, TypeOK
<1>5. SocketsOK'
  BY <1>1, <1>2, <1>3 DEF SocketsOK, BeingRevoked
<1>6. EntriesCounted'
  BY <1>3 DEF EntriesCounted
<1>7. RoomIsPrivate'
  BY <1>1, <1>3 DEF RoomIsPrivate, ChecksStayTrue, BeingRevoked
<1>8. ChecksStayTrue' /\ ListenersMayWork'
  BY <1>2, <1>3 DEF ChecksStayTrue, ListenersMayWork, BeingRevoked
<1> QED
  BY <1>4, <1>5, <1>6, <1>7, <1>8 DEF SocketInv

\* Steps that leave the sockets alone: claims may appear but none disappears
\* from under its holder, and nobody loses the right to work.
LEMMA ChangeTablesStep ==
  ASSUME IInv, ChangeTables
  PROVE  SocketInv'
<1> USE DEF IInv
<1>1. /\ \A s \in Sessions : claimedBy'[s] = claimedBy[s] \/ claimedBy[s] = NoUser
      /\ \A u \in Users : role[u] \in Work => role'[u] \in Work
      /\ UNCHANGED <<reducing, user, wire, greeting, connections, presence, ghosts, listening, talking, overtaken, errands>>
  BY ChangeTablesEffect DEF sockets
<1>2. UNCHANGED turns
  BY DEF ChangeTables
<1>3. SocketTypes'
  BY <1>1, <1>2 DEF SocketTypes, TypeOK, turns
<1>4. SocketsOK'
  BY <1>1 DEF SocketsOK, BeingRevoked
<1>5. EntriesCounted'
  BY <1>1 DEF EntriesCounted
<1>6. RoomIsPrivate'
  BY <1>1, ChatAssumption DEF RoomIsPrivate, BeingRevoked, SocketsOK, TypeOK
<1>7. ChecksStayTrue'
  BY <1>1, ChatAssumption DEF ChecksStayTrue, BeingRevoked, SocketsOK, TypeOK, Errands
<1>8. ListenersMayWork'
  BY <1>1 DEF ListenersMayWork, BeingRevoked, SocketsOK, TypeOK
<1> QED
  BY <1>3, <1>4, <1>5, <1>6, <1>7, <1>8 DEF SocketInv

\* The user whose claims go back is put among those being revoked in the same step.
LEMMA ReduceAccessStep ==
  ASSUME IInv, NEW u \in Users, ReduceAccess(u)
  PROVE  SocketInv'
<1> USE DEF IInv
<1>1. /\ \A s \in Sessions : claimedBy'[s] = claimedBy[s] \/ claimedBy[s] = u
      /\ \A v \in Users : v # u => role'[v] = role[v]
      /\ reducing' = reducing \cup {u}
      /\ UNCHANGED <<user, wire, greeting, connections, presence, ghosts, listening, talking, overtaken, errands>>
  BY ReduceAccessEffect DEF sockets
<1>2. UNCHANGED turns
  BY DEF ReduceAccess
<1>3. SocketTypes'
  BY <1>1, <1>2 DEF SocketTypes, TypeOK, turns
<1>4. SocketsOK'
  BY <1>1 DEF SocketsOK, BeingRevoked
<1>5. EntriesCounted'
  BY <1>1 DEF EntriesCounted
<1>6. RoomIsPrivate'
  BY <1>1 DEF RoomIsPrivate, BeingRevoked, TypeOK
<1>7. ChecksStayTrue'
  BY <1>1 DEF ChecksStayTrue, BeingRevoked, TypeOK, Errands
<1>8. ListenersMayWork'
  BY <1>1 DEF ListenersMayWork, BeingRevoked, SocketsOK, TypeOK
<1> QED
  BY <1>3, <1>4, <1>5, <1>6, <1>7, <1>8 DEF SocketInv

LEMMA QuietStep ==
  ASSUME IInv, Quiet, turn' \in [Turns -> {"idle", "relaying", "answering"}],
         turnSession' \in [Turns -> Sessions \cup {NoSession}]
  PROVE  SocketInv'
BY DEF IInv, Quiet, sockets, SocketInv, SocketTypes, TypeOK, SocketsOK, EntriesCounted, RoomIsPrivate,
       ChecksStayTrue, ListenersMayWork, BeingRevoked

LEMMA TurnTypes ==
  ASSUME TypeOK, NEW t \in Turns, Relay(t) \/ Reply(t) \/ Escalate(t) \/ \E s \in Sessions : Route(t, s)
  PROVE  /\ turn' \in [Turns -> {"idle", "relaying", "answering"}]
         /\ turnSession' \in [Turns -> Sessions \cup {NoSession}]
BY DEF TypeOK, Relay, Reply, Escalate, Route, FinishTurn, turns

\* No socket at all: where the gateway starts and starts again.
NoSockets ==
  /\ connections = {} /\ ghosts = {} /\ listening = {} /\ errands = {} /\ overtaken = {} /\ reducing = {}
  /\ user = [k \in Sockets |-> NoUser] /\ wire = [k \in Sockets |-> "down"]
  /\ greeting = [k \in Sockets |-> "none"] /\ presence = [u \in Users |-> 0]
  /\ talking = [k \in Sockets |-> {}]
  /\ turn = [t \in Turns |-> "idle"] /\ turnSession = [t \in Turns |-> NoSession]

LEMMA NoSocketsInv == NoSockets => SocketInv
<1> SUFFICES ASSUME NoSockets PROVE SocketInv
  OBVIOUS
<1> USE DEF NoSockets
<1>1. SocketTypes
  BY DEF SocketTypes
<1>2. SocketsOK
  BY DEF SocketsOK
<1>3. EntriesCounted
  <2>1. \A u \in Users : {k \in connections : user[k] = u} = {}
    OBVIOUS
  <2> QED
    BY <2>1, FS_EmptySet DEF EntriesCounted
<1>4. RoomIsPrivate /\ ChecksStayTrue /\ ListenersMayWork
  BY DEF RoomIsPrivate, ChecksStayTrue, ListenersMayWork
<1> QED
  BY <1>1, <1>2, <1>3, <1>4 DEF SocketInv

LEMMA SocketStepInv == IInv /\ [Next]_vars => SocketInv'
<1> SUFFICES ASSUME IInv, [Next]_vars PROVE SocketInv'
  OBVIOUS
<1>1. CASE ChangeTables
  BY <1>1, ChangeTablesStep
<1>2. CASE \E u \in Users : ReduceAccess(u) \/ Revoke(u)
  BY <1>2, ReduceAccessStep, RevokeStep
<1>3. CASE \E k \in Sockets : SocketStep(k)
  BY <1>3, ConnectStep, AuthoriseStep, RegisterStep, DisconnectStep, CheckClaimStep DEF SocketStep
<1>4. CASE \E e \in errands : Join(e) \/ Say(e)
  BY <1>4, ErrandStep
<1>5. CASE \E t \in Turns : Relay(t) \/ Reply(t) \/ Escalate(t) \/ \E s \in Sessions : Route(t, s)
  BY <1>5, TurnsAreQuiet, TurnTypes, QuietStep DEF IInv
<1>6. CASE Restart
  <2>1. NoSockets'
    BY <1>6 DEF Restart, NoSockets
  <2> QED
    BY <2>1, NoSocketsInv, PTL
<1>7. CASE UNCHANGED vars
  BY <1>7, QuietStep DEF vars, tables, sockets, turns, Quiet, IInv, TypeOK
<1> QED
  BY <1>1, <1>2, <1>3, <1>4, <1>5, <1>6, <1>7 DEF Next

LEMMA InitIInv == Init => IInv
<1> SUFFICES ASSUME Init PROVE IInv
  OBVIOUS
<1>1. NoSockets
  BY DEF Init, NoSockets
<1>2. SocketInv
  BY <1>1, NoSocketsInv
<1>3. TypeOK
  BY <1>2 DEF Init, DB!CInit, TypeOK, SocketInv, SocketTypes
<1>4. Unclaimed
  BY DEF Init, DB!CInit, Unclaimed
<1> QED
  BY <1>2, <1>3, <1>4 DEF IInv, SocketInv

LEMMA StepIInv == IInv /\ [Next]_vars => IInv'
<1> SUFFICES ASSUME IInv, [Next]_vars PROVE IInv'
  OBVIOUS
<1>1. SocketInv'
  BY SocketStepInv
<1>2. TypeOK' /\ Unclaimed'
  BY <1>1, TablesStep DEF IInv, SocketInv, SocketTypes, TypeOK
<1> QED
  BY <1>1, <1>2 DEF IInv, SocketInv

LEMMA Invariance == Spec => []IInv
BY InitIInv, StepIInv, PTL DEF Spec

\* Every variable keeps its type; no presence count ever goes below zero.
THEOREM TypeCorrect == Spec => []TypeOK
<1>1. IInv => TypeOK
  BY DEF IInv
<1> QED
  BY <1>1, Invariance, PTL

\* Presence counts the live sockets of every user and its ghosts, whatever the
\* order in which they open, close and are revoked.
THEOREM PresenceAlwaysCounts == Spec => []PresenceCounts
<1>1. ASSUME IInv PROVE PresenceCounts
  <2>1. ASSUME NEW u \in Users
        PROVE  {k \in Sockets : user[k] = u /\ (Live(k) \/ k \in ghosts)} = {k \in connections : user[k] = u}
    <3>1. connections \subseteq Sockets /\ wire \in [Sockets -> {"up", "down"}]
      BY <1>1 DEF IInv, TypeOK
    <3>2. \A k \in Sockets : (Live(k) \/ k \in ghosts) <=> k \in connections
      BY <1>1, <3>1 DEF IInv, SocketsOK, Live
    <3> QED
      BY <3>1, <3>2
  <2> QED
    BY <1>1, <2>1 DEF IInv, EntriesCounted, PresenceCounts
<1> QED
  BY <1>1, Invariance, PTL

\* A visitor's room is heard by the claimant, or by someone whose revocation is
\* on its way.
THEOREM RoomsStayPrivate == Spec => []RoomIsPrivate
<1>1. IInv => RoomIsPrivate
  BY DEF IInv
<1> QED
  BY <1>1, Invariance, PTL

\* What a suspended handler checked about a claim still holds when it acts,
\* unless its user is being revoked or its socket has closed.
THEOREM SuspendedChecksHold == Spec => []ChecksStayTrue
<1>1. IInv => ChecksStayTrue
  BY DEF IInv
<1> QED
  BY <1>1, Invariance, PTL

\* Only a socket overtaken by a revocation during its handshake can go on
\* hearing the queue without the right to work on it.
THEOREM OnlyOvertakenEscape == Spec => []ListenersMayWork
<1>1. IInv => ListenersMayWork
  BY DEF IInv
<1> QED
  BY <1>1, Invariance, PTL

\* The whole: conversations are private for any number of users, sockets and conversations.
THEOREM PrivacyHolds == Spec => []ConversationsArePrivate
<1>1. IInv => ConversationsArePrivate
  BY DEF IInv, ConversationsArePrivate
<1> QED
  BY <1>1, Invariance, PTL

-----------------------------------------------------------------------------
(* The agent console.  What the row shown, the rooms joined and the messages  *)
(* held live owe to the calls, joins and events under way.                   *)

\* An answer about the open row that is outdated has an event behind it.
RowsAnswered ==
  conn = "ready" => \A q \in requests :
    q.op = "row" /\ q.reply \in RowStatus => q.reply = rowStatus[q.chat] \/ news

\* A conversation that is open and held is in a room, or on its way to one, whether
\* or not the gateway has registered the connection.
WillHear ==
  open.chat \in held /\ conn # "dead" /\ ~deaf /\ ~unlucky =>
    \/ open.chat \in rooms \cup Range(joins)
    \/ \E q \in requests :
         q.chat = open.chat /\ (q.op = "open" \/ (q.op = "claim" /\ q.reply \in {"done", "broken"}))

\* Nothing else is joined.
JoinsOwnOrVisited ==
  open.chat # NoChat => live \cup rooms \cup Range(joins) \subseteq {open.chat} \cup visited

\* The console's inductive invariant.
ConsoleInv == ConsoleTypeOK /\ RowsAnswered /\ StaleRowWillRefresh /\ WillHear /\ JoinsOwnOrVisited

-----------------------------------------------------------------------------

\* What joins are left to be handled.
LEMMA RangeAppend ==
  ASSUME NEW s \in Seq(Chats), NEW c \in Chats
  PROVE  Append(s, c) \in Seq(Chats) /\ Range(Append(s, c)) = Range(s) \cup {c}
<1>1. /\ Append(s, c) \in Seq(Chats) /\ Len(Append(s, c)) = Len(s) + 1 /\ Len(s) \in Nat
      /\ \A i \in 1..Len(s) : Append(s, c)[i] = s[i]
      /\ Append(s, c)[Len(s) + 1] = c
      /\ DOMAIN s = 1..Len(s) /\ DOMAIN Append(s, c) = 1..Len(s) + 1
  BY AppendProperties
<1> QED
  BY <1>1 DEF Range

LEMMA RangeTail ==
  ASSUME NEW s \in Seq(Chats), s # <<>>
  PROVE  /\ Tail(s) \in Seq(Chats) /\ Head(s) \in Chats
         /\ Range(s) = {Head(s)} \cup Range(Tail(s))
<1>1. /\ Head(s) \in Chats /\ Tail(s) \in Seq(Chats) /\ Len(Tail(s)) = Len(s) - 1
      /\ \A i \in 1..Len(Tail(s)) : Tail(s)[i] = s[i + 1]
  BY HeadTailProperties
<1>2. DOMAIN s = 1..Len(s) /\ DOMAIN Tail(s) = 1..Len(Tail(s)) /\ Len(s) \in Nat /\ Len(s) > 0 /\ Head(s) = s[1]
  BY <1>1, EmptySeq, SeqEqual
<1>3. ASSUME NEW i \in 1..Len(s) PROVE s[i] \in {Head(s)} \cup Range(Tail(s))
  <2>1. CASE i = 1
    BY <1>2, <2>1
  <2>2. CASE i # 1
    <3>1. i - 1 \in 1..Len(Tail(s)) /\ Tail(s)[i - 1] = s[i]
      BY <1>1, <1>2, <2>2
    <3> QED
      BY <1>2, <3>1 DEF Range
  <2> QED
    BY <2>1, <2>2
<1>4. ASSUME NEW i \in 1..Len(Tail(s)) PROVE Tail(s)[i] \in Range(s)
  BY <1>1, <1>2 DEF Range
<1>5. Head(s) \in Range(s)
  BY <1>2 DEF Range
<1>6. Range(s) \subseteq {Head(s)} \cup Range(Tail(s))
  BY <1>2, <1>3 DEF Range
<1>7. Range(Tail(s)) \subseteq Range(s)
  <2>1. ASSUME NEW x \in Range(Tail(s)) PROVE x \in Range(s)
    <3>1. PICK i \in 1..Len(Tail(s)) : x = Tail(s)[i]
      BY <1>2, <2>1 DEF Range
    <3> QED
      BY <1>4, <3>1
  <2> QED
    BY <2>1
<1> QED
  BY <1>1, <1>5, <1>6, <1>7

LEMMA RangeIn ==
  ASSUME NEW s \in Seq(Chats)
  PROVE  Range(s) \subseteq Chats /\ Range(<<>>) = {}
BY DEF Range

LEMMA Kinds ==
  /\ "none" \notin RowStatus /\ "done" \notin RowStatus /\ "conflict" \notin RowStatus
  /\ "broken" \notin RowStatus
BY DEF RowStatus

\* A call with its answer.
LEMMA AnsweredIs ==
  ASSUME NEW q \in ConsoleRequest, NEW r \in RowStatus \cup {"none", "done", "conflict", "broken"}
  PROVE  LET b == [q EXCEPT !.reply = r] IN
           b \in ConsoleRequest /\ b.op = q.op /\ b.chat = q.chat /\ b.reply = r
BY DEF ConsoleRequest

LEMMA AskIs ==
  ASSUME NEW o \in {"row", "open", "claim", "resolve"}, NEW c \in Chats
  PROVE  Ask(o, c) \in ConsoleRequest /\ Ask(o, c).op = o /\ Ask(o, c).chat = c /\ Ask(o, c).reply = "none"
BY DEF Ask, ConsoleRequest

\* The calls, whatever else changes.
CallsOK(u, c) ==
  /\ u \subseteq ConsoleRequest
  /\ \A q, r \in u : q.op = "row" /\ r.op = "row" => q = r
  /\ \A q \in u : q.op = "row" => q.chat = c

LEMMA BumpedIs ==
  ASSUME NEW u, CallsOK(u, open.chat), open.chat \in Chats \cup {NoChat}
  PROVE  /\ CallsOK(Bumped(u), open.chat)
         /\ \A q \in u : q.op # "row" => q \in Bumped(u)
         /\ \A q \in Bumped(u) : q.op = "row" => q.reply = "none"
         /\ \A q \in Bumped(u) : q \in u \/ q.op = "row"
         /\ open.chat # NoChat => \E q \in Bumped(u) : q.op = "row" /\ q.reply = "none"
<1>1. CASE open.chat = NoChat
  BY <1>1, ConsoleAssumption DEF Bumped, CallsOK, ConsoleRequest, ConsoleAssumption
<1>2. CASE open.chat # NoChat
  <2>1. /\ Ask("row", open.chat) \in ConsoleRequest /\ Ask("row", open.chat).op = "row"
        /\ Ask("row", open.chat).chat = open.chat /\ Ask("row", open.chat).reply = "none"
    BY <1>2, AskIs
  <2>2. Bumped(u) = (u \ Rows(u)) \cup {Ask("row", open.chat)}
    BY <1>2 DEF Bumped
  <2> QED
    BY <1>2, <2>1, <2>2 DEF CallsOK, Rows
<1> QED
  BY <1>1, <1>2

ConsoleTypes ==
  /\ rowStatus \in [Chats -> RowStatus] /\ held \subseteq Chats
  /\ conn \in {"off", "connecting", "ready", "dead"}
  /\ rooms \subseteq held
  /\ joins \in Seq(Chats)
  /\ news \in BOOLEAN
  /\ open \in [chat : Chats \cup {NoChat}, status : RowStatus]
  /\ live \subseteq Chats /\ visited \subseteq Chats
  /\ deaf \in BOOLEAN /\ unlucky \in BOOLEAN

LEMMA ConsoleTypeIs == ConsoleTypeOK <=> ConsoleTypes /\ CallsOK(requests, open.chat)
BY DEF ConsoleTypeOK, ConsoleTypes, CallsOK

LEMMA ConsoleInitInv == ConsoleInit => ConsoleInv
<1> SUFFICES ASSUME ConsoleInit PROVE ConsoleInv
  OBVIOUS
<1>1. /\ rowStatus \in [Chats -> {"escalated", "claimed"}] /\ held = {}
      /\ conn = "connecting" /\ rooms = {} /\ joins = <<>> /\ news = FALSE
      /\ open = Closed /\ live = {} /\ requests = {}
      /\ deaf = FALSE /\ unlucky = FALSE /\ visited = {}
  BY DEF ConsoleInit
<1>2. Closed \in [chat : Chats \cup {NoChat}, status : RowStatus] /\ Closed.chat = NoChat
  BY DEF Closed, RowStatus
<1>3. rowStatus \in [Chats -> RowStatus] /\ <<>> \in Seq(Chats)
  BY <1>1, EmptySeq DEF RowStatus
<1>4. ConsoleTypes
  BY <1>1, <1>2, <1>3 DEF ConsoleTypes
<1>5. CallsOK(requests, open.chat)
  BY <1>1 DEF CallsOK
<1> QED
  BY <1>1, <1>2, <1>4, <1>5, ConsoleTypeIs
  DEF ConsoleInv, RowsAnswered, StaleRowWillRefresh, WillHear, JoinsOwnOrVisited

LEMMA ConsoleInvImplies == ConsoleInv => ConsoleIsCurrent
<1> SUFFICES ASSUME ConsoleInv PROVE ConsoleIsCurrent
  OBVIOUS
<1>1. HearsWhatIsOpen
  BY DEF ConsoleInv, WillHear, HearsWhatIsOpen
<1>2. LiveIsOwnOrVisited
  BY DEF ConsoleInv, JoinsOwnOrVisited, LiveIsOwnOrVisited
<1> QED
  BY <1>1, <1>2 DEF ConsoleInv, ConsoleIsCurrent

LEMMA ConsoleStep ==
  ASSUME ConsoleInv, [ConsoleNext]_consoleVars
  PROVE  ConsoleInv'
<1>h. /\ ConsoleTypes /\ CallsOK(requests, open.chat) /\ RowsAnswered /\ StaleRowWillRefresh
      /\ WillHear /\ JoinsOwnOrVisited
  BY ConsoleTypeIs DEF ConsoleInv
<1>g. ASSUME ConsoleTypes', CallsOK(requests', open'.chat), RowsAnswered', StaleRowWillRefresh',
             WillHear', JoinsOwnOrVisited'
      PROVE  ConsoleInv'
  <2>1. ConsoleTypeOK'
    BY <1>g DEF ConsoleTypeOK, ConsoleTypes, CallsOK
  <2> QED
    BY <1>g, <2>1 DEF ConsoleInv
<1>n. NoChat \notin Chats /\ NoChat \notin held /\ open.chat \in Chats \cup {NoChat}
  BY <1>h, ConsoleAssumption DEF ConsoleAssumption, ConsoleTypes
\* Only the calls change, and news comes.
<1>1. ASSUME UNCHANGED <<rowStatus, held, conn, rooms, joins, open, live, deaf, unlucky, visited>>,
             CallsOK(requests', open.chat), news' \in BOOLEAN,
             conn = "ready" /\ open.chat # NoChat =>
               (news => news' \/ \E q \in requests' : q.op = "row" /\ q.reply = "none"),
             \A q \in requests' : q.op = "row" =>
               q.reply \notin RowStatus \/ q.reply = rowStatus[q.chat] \/ (q \in requests /\ news' = news),
             conn = "ready" /\ open.chat # NoChat /\ ~unlucky => \A q \in requests :
               q.op = "row" /\ q.reply \in {"none", "broken", rowStatus[open.chat]} =>
                 \E r \in requests' : r.op = "row" /\ r.reply \in {"none", "broken", rowStatus[open.chat]},
             \A q \in requests :
               q.chat = open.chat /\ (q.op = "open" \/ (q.op = "claim" /\ q.reply \in {"done", "broken"})) =>
                 \E r \in requests' : r.chat = open.chat /\ (r.op = "open" \/ (r.op = "claim" /\ r.reply \in {"done", "broken"}))
      PROVE  ConsoleInv'
  <2>1. ConsoleTypes' /\ CallsOK(requests', open'.chat)
    BY <1>h, <1>1 DEF ConsoleTypes
  <2>2. RowsAnswered'
    BY <1>h, <1>1 DEF RowsAnswered
  <2>3. StaleRowWillRefresh'
    BY <1>h, <1>1 DEF StaleRowWillRefresh
  <2>4. WillHear'
    BY <1>h, <1>1 DEF WillHear
  <2>5. JoinsOwnOrVisited'
    BY <1>h, <1>1 DEF JoinsOwnOrVisited
  <2> QED
    BY <1>g, <2>1, <2>2, <2>3, <2>4, <2>5
<1>2. ASSUME NEW c \in Chats, OthersMove(c) PROVE ConsoleInv'
  <2>1. /\ \E s \in RowStatus : rowStatus' = [rowStatus EXCEPT ![c] = s]
        /\ news' = (news \/ conn = "ready")
        /\ UNCHANGED <<held, conn, rooms, joins, open, live, requests, deaf, unlucky, visited>>
    BY <1>2 DEF OthersMove, Broadcast, histories, RowStatus
  <2>2. ConsoleTypes' /\ CallsOK(requests', open'.chat)
    BY <1>h, <2>1 DEF ConsoleTypes
  <2>3. RowsAnswered' /\ StaleRowWillRefresh'
    BY <2>1 DEF RowsAnswered, StaleRowWillRefresh
  <2>4. WillHear' /\ JoinsOwnOrVisited'
    BY <1>h, <2>1 DEF WillHear, JoinsOwnOrVisited
  <2> QED
    BY <1>g, <2>2, <2>3, <2>4
<1>3. ASSUME NEW q \in requests
      PROVE  q \in ConsoleRequest /\ q.chat \in Chats /\ q.op \in {"row", "open", "claim", "resolve"}
             /\ (q.op = "row" => q.chat = open.chat)
  BY <1>h DEF CallsOK, ConsoleRequest
\* A call is answered, and nothing but news changes with it.
<1>4. ASSUME NEW q \in requests, NEW r \in RowStatus \cup {"none", "done", "conflict", "broken"},
             requests' = Answered(q, r), news' = news,
             UNCHANGED <<rowStatus, held, conn, rooms, joins, open, live, deaf, unlucky, visited>>,
             q.op = "row" => r \in {"broken", rowStatus[q.chat]},
             q.op = "claim" => r \in {"conflict", "broken"},
             q.op = "claim" /\ r = "conflict" => q.reply = "none"
      PROVE  ConsoleInv'
  <2>b. PICK b : b = [q EXCEPT !.reply = r]
    OBVIOUS
  <2>1. b \in ConsoleRequest /\ b.op = q.op /\ b.chat = q.chat /\ b.reply = r
    BY <1>3, <2>b, AnsweredIs
  <2>2. requests' = (requests \ {q}) \cup {b}
    BY <1>4, <2>b DEF Answered
  <2>3. CallsOK(requests', open.chat)
    BY <1>h, <2>1, <2>2 DEF CallsOK
  <2>4. \A p \in requests' : p.op = "row" =>
          p.reply \notin RowStatus \/ p.reply = rowStatus[p.chat] \/ (p \in requests /\ news' = news)
    BY <1>4, <2>1, <2>2, Kinds
  <2>5. q.op = "row" => q.chat = open.chat
    BY <1>3
  <2>6. \A p \in requests : p # q => p \in requests'
    BY <2>2
  <2>7. b \in requests'
    BY <2>2
  <2>8. ASSUME NEW p \in requests, p.op = "row", p.reply \in {"none", "broken", rowStatus[open.chat]}
        PROVE  \E s \in requests' : s.op = "row" /\ s.reply \in {"none", "broken", rowStatus[open.chat]}
    BY <1>4, <2>1, <2>5, <2>6, <2>7, <2>8
  <2>9. ASSUME NEW p \in requests, p.chat = open.chat,
               p.op = "open" \/ (p.op = "claim" /\ p.reply \in {"done", "broken"})
        PROVE  \E s \in requests' : s.chat = open.chat /\ (s.op = "open" \/ (s.op = "claim" /\ s.reply \in {"done", "broken"}))
    BY <1>4, <2>1, <2>6, <2>7, <2>9
  <2>10. news' \in BOOLEAN
    BY <1>h, <1>4 DEF ConsoleTypes
  <2> QED
    BY <1>1, <1>4, <2>3, <2>4, <2>8, <2>9, <2>10
<1>5. ASSUME NEW q \in requests, ServeRow(q) PROVE ConsoleInv'
  <2>1. /\ q.op \in {"row", "open"} /\ requests' = Answered(q, rowStatus[q.chat])
        /\ UNCHANGED <<rowStatus, held, conn, rooms, joins, news, open, live, deaf, unlucky, visited>>
    BY <1>5 DEF ServeRow, server, histories
  <2>2. rowStatus[q.chat] \in RowStatus
    BY <1>h, <1>3 DEF ConsoleTypes
  <2> QED
    BY <1>4, <2>1, <2>2
<1>6. ASSUME NEW q \in requests, RequestBreaks(q) PROVE ConsoleInv'
  <2>1. /\ requests' = Answered(q, "broken")
        /\ UNCHANGED <<rowStatus, held, conn, rooms, joins, news, open, live, deaf, unlucky, visited>>
    BY <1>6 DEF RequestBreaks, server, histories
  <2> QED
    BY <1>4, <2>1
<1>7. ASSUME NEW q \in requests, ServeMove(q) PROVE ConsoleInv'
  <2>0. /\ q.op \in {"claim", "resolve"} /\ q.reply = "none"
        /\ UNCHANGED <<conn, rooms, joins, open, live, deaf, unlucky, visited>>
    BY <1>7 DEF ServeMove, histories
  <2>1. CASE requests' = Answered(q, "conflict") /\ UNCHANGED <<server, news>>
    BY <1>4, <2>0, <2>1 DEF server
  <2>2. CASE /\ \E s \in RowStatus : rowStatus' = [rowStatus EXCEPT ![q.chat] = s]
             /\ held' = IF q.op = "claim" THEN held \cup {q.chat} ELSE held
             /\ requests' = Answered(q, "done") /\ Broadcast
    <3>b. PICK b : b = [q EXCEPT !.reply = "done"]
      OBVIOUS
    <3>1. b \in ConsoleRequest /\ b.op = q.op /\ b.chat = q.chat /\ b.reply = "done"
      BY <1>3, <3>b, AnsweredIs
    <3>2. requests' = (requests \ {q}) \cup {b} /\ news' = (news \/ conn = "ready")
      BY <2>2, <3>b DEF Answered, Broadcast
    <3>3. CallsOK(requests', open'.chat)
      BY <1>h, <2>0, <3>1, <3>2 DEF CallsOK
    <3>4. ConsoleTypes'
      BY <1>h, <1>3, <2>0, <2>2, <3>2 DEF ConsoleTypes
    <3>5. RowsAnswered' /\ StaleRowWillRefresh'
      BY <2>0, <3>2 DEF RowsAnswered, StaleRowWillRefresh
    <3>6. WillHear'
      <4> SUFFICES ASSUME open.chat \in held', conn # "dead", ~deaf, ~unlucky, open.chat \notin rooms \cup Range(joins)
                   PROVE  \E p \in requests' :
                            p.chat = open.chat /\ (p.op = "open" \/ (p.op = "claim" /\ p.reply \in {"done", "broken"}))
        BY <2>0 DEF WillHear
      <4>1. b \in requests' /\ \A p \in requests : p # q => p \in requests'
        BY <3>2
      <4>2. CASE open.chat \in held
        <5>1. PICK p \in requests :
                p.chat = open.chat /\ (p.op = "open" \/ (p.op = "claim" /\ p.reply \in {"done", "broken"}))
          BY <1>h, <4>2 DEF WillHear
        <5>2. p # q
          BY <2>0, <5>1
        <5> QED
          BY <4>1, <5>1, <5>2
      <4>3. CASE open.chat \notin held
        BY <2>2, <3>1, <4>1, <4>3
      <4> QED
        BY <4>2, <4>3
    <3>7. JoinsOwnOrVisited'
      BY <1>h, <2>0 DEF JoinsOwnOrVisited
    <3> QED
      BY <1>g, <3>3, <3>4, <3>5, <3>6, <3>7
  <2> QED
    BY <1>7, <2>1, <2>2 DEF ServeMove, RowStatus
\* The socket is lost.
<1>8. ASSUME conn' \in {"off", "dead"}, rooms' = {}, joins' = <<>>, news' = FALSE, deaf' = TRUE,
             UNCHANGED <<rowStatus, held, open, live, requests, unlucky, visited>>
      PROVE  ConsoleInv'
  <2>1. ConsoleTypes' /\ CallsOK(requests', open'.chat)
    BY <1>h, <1>8, EmptySeq DEF ConsoleTypes
  <2>2. RowsAnswered' /\ StaleRowWillRefresh' /\ WillHear'
    BY <1>8 DEF RowsAnswered, StaleRowWillRefresh, WillHear
  <2>3. Range(joins') = {}
    BY <1>h, <1>8, RangeIn DEF ConsoleTypes
  <2>4. JoinsOwnOrVisited'
    BY <1>h, <1>8, <2>3 DEF JoinsOwnOrVisited
  <2> QED
    BY <1>g, <2>1, <2>2, <2>4
<1>9. CASE HandleJoin
  <2>1. CASE conn = "connecting"
    BY <1>8, <1>9, <2>1 DEF HandleJoin, server
  <2>2. CASE conn # "connecting"
    <3>1. /\ joins # <<>> /\ rooms' = rooms \cup ({Head(joins)} \cap held) /\ joins' = Tail(joins)
          /\ UNCHANGED <<rowStatus, held, conn, news, deaf, open, live, requests, unlucky, visited>>
      BY <1>9, <2>2 DEF HandleJoin, server
    <3>2. /\ Tail(joins) \in Seq(Chats) /\ Head(joins) \in Chats
          /\ Range(joins) = {Head(joins)} \cup Range(Tail(joins))
      BY <1>h, <3>1, RangeTail DEF ConsoleTypes
    <3>3. Range(joins') = Range(Tail(joins))
      BY <3>1
    <3>4. ConsoleTypes' /\ CallsOK(requests', open'.chat)
      BY <1>h, <3>1, <3>2 DEF ConsoleTypes
    <3>5. RowsAnswered' /\ StaleRowWillRefresh'
      BY <1>h, <3>1 DEF RowsAnswered, StaleRowWillRefresh
    <3>6. WillHear'
      BY <1>h, <3>1, <3>2, <3>3 DEF WillHear
    <3>7. JoinsOwnOrVisited'
      BY <1>h, <3>1, <3>2, <3>3 DEF JoinsOwnOrVisited
    <3> QED
      BY <1>g, <3>4, <3>5, <3>6, <3>7
  <2> QED
    BY <2>1, <2>2
<1>10. CASE Disconnected
  BY <1>8, <1>10 DEF Disconnected, server
<1>11. CASE Ready
  <2>1. /\ conn = "connecting" /\ conn' = "ready" /\ news' = TRUE
        /\ UNCHANGED <<rowStatus, held, rooms, joins, open, live, requests, deaf, unlucky, visited>>
    BY <1>11 DEF Ready, server, histories
  <2>2. ConsoleTypes' /\ CallsOK(requests', open'.chat)
    BY <1>h, <2>1 DEF ConsoleTypes
  <2>3. RowsAnswered' /\ StaleRowWillRefresh' /\ WillHear' /\ JoinsOwnOrVisited'
    BY <1>h, <2>1 DEF RowsAnswered, StaleRowWillRefresh, WillHear, JoinsOwnOrVisited
  <2> QED
    BY <1>g, <2>2, <2>3
<1>12. CASE Reconnects
  <2>1. /\ conn = "off" /\ conn' = "connecting"
        /\ UNCHANGED <<rowStatus, held, rooms, joins, news, open, live, requests, deaf, unlucky, visited>>
    BY <1>12 DEF Reconnects, server, histories
  <2>2. ConsoleTypes' /\ CallsOK(requests', open'.chat)
    BY <1>h, <2>1 DEF ConsoleTypes
  <2>3. RowsAnswered' /\ StaleRowWillRefresh' /\ WillHear' /\ JoinsOwnOrVisited'
    BY <1>h, <2>1 DEF RowsAnswered, StaleRowWillRefresh, WillHear, JoinsOwnOrVisited
  <2> QED
    BY <1>g, <2>2, <2>3
<1>13. ASSUME NEW c \in Chats, LiveMessage(c) PROVE ConsoleInv'
  <2>1. /\ c \in rooms /\ live' = live \cup {c}
        /\ UNCHANGED <<rowStatus, held, conn, rooms, joins, news, open, requests, deaf, unlucky, visited>>
    BY <1>13 DEF LiveMessage, server, histories
  <2>2. ConsoleTypes' /\ CallsOK(requests', open'.chat)
    BY <1>h, <2>1 DEF ConsoleTypes
  <2>3. RowsAnswered' /\ StaleRowWillRefresh' /\ WillHear' /\ JoinsOwnOrVisited'
    BY <1>h, <2>1 DEF RowsAnswered, StaleRowWillRefresh, WillHear, JoinsOwnOrVisited
  <2> QED
    BY <1>g, <2>2, <2>3
\* The open row is read again.
<1>14. ASSUME NEW u, requests' = Bumped(u), CallsOK(u, open.chat), u \subseteq requests,
              \A q \in requests : q \in u \/ q.op # "open",
              \A q \in requests : q \in u \/ ~(q.op = "claim" /\ q.reply \in {"done", "broken"}),
              news' \in BOOLEAN,
              UNCHANGED <<rowStatus, held, conn, rooms, joins, open, live, deaf, unlucky, visited>>
       PROVE  ConsoleInv'
  <2>1. /\ CallsOK(Bumped(u), open.chat)
        /\ \A q \in u : q.op # "row" => q \in Bumped(u)
        /\ \A q \in Bumped(u) : q.op = "row" => q.reply = "none"
        /\ open.chat # NoChat => \E q \in Bumped(u) : q.op = "row" /\ q.reply = "none"
    BY <1>14, <1>n, BumpedIs
  <2>2. \A q \in requests :
          q.chat = open.chat /\ (q.op = "open" \/ (q.op = "claim" /\ q.reply \in {"done", "broken"})) =>
            q \in requests'
    BY <1>14, <2>1
  <2>3. \A q \in requests' : q.op = "row" => q.reply \notin RowStatus
    BY <1>14, <2>1, Kinds
  <2>4. open.chat # NoChat => \E q \in requests' : q.op = "row" /\ q.reply = "none"
    BY <1>14, <2>1
  <2> QED
    BY <1>1, <1>14, <2>1, <2>2, <2>3, <2>4
<1>15. CASE HearsNews
  <2>1. /\ requests' = Bumped(requests) /\ news' \in BOOLEAN
        /\ UNCHANGED <<rowStatus, held, conn, rooms, joins, open, live, deaf, unlucky, visited>>
    BY <1>15 DEF HearsNews, server, histories
  <2> QED
    BY <1>h, <1>14, <2>1
<1>16. ASSUME NEW o \in {"open", "claim", "resolve"}, NEW c \in Chats, Press(o, c) PROVE ConsoleInv'
  <2>1. /\ requests' = requests \cup {Ask(o, c)} /\ news' \in BOOLEAN /\ news' = news
        /\ UNCHANGED <<rowStatus, held, conn, rooms, joins, open, live, deaf, unlucky, visited>>
    BY <1>h, <1>16 DEF Press, server, histories, ConsoleTypes
  <2>2. Ask(o, c) \in ConsoleRequest /\ Ask(o, c).op = o
    BY AskIs
  <2>3. CallsOK(requests', open.chat)
    BY <1>h, <2>1, <2>2 DEF CallsOK
  <2>4. \A q \in requests' : q.op = "row" => q \in requests
    BY <2>1, <2>2
  <2>5. \A q \in requests' : q.op = "row" =>
          q.reply \notin RowStatus \/ q.reply = rowStatus[q.chat] \/ (q \in requests /\ news' = news)
    BY <2>1, <2>4
  <2>6. requests \subseteq requests'
    BY <2>1
  <2> QED
    BY <1>1, <2>1, <2>3, <2>5, <2>6
<1>17. CASE HandleResolve
  BY <1>16, <1>17, <1>n DEF HandleResolve
<1>18. ASSUME NEW q \in requests, Failed(q) PROVE ConsoleInv'
  <2>1. /\ q.reply = "broken" \/ (q.op \in {"claim", "resolve"} /\ q.reply = "conflict")
        /\ requests' = IF q.op = "claim" THEN Bumped(requests \ {q}) ELSE requests \ {q}
        /\ unlucky' = (unlucky \/ (q.reply = "broken" /\ open.chat # NoChat))
        /\ UNCHANGED <<rowStatus, held, conn, rooms, joins, news, open, live, deaf, visited>>
    BY <1>18 DEF Failed, server
  <2>2. CallsOK(requests \ {q}, open.chat)
    BY <1>h DEF CallsOK
  <2>3. CASE q.reply = "broken" /\ open.chat # NoChat
    <3>1. CallsOK(requests', open'.chat) /\ \A p \in requests' : p.op = "row" => p \in requests \/ p.reply = "none"
      <4> DEFINE u == requests \ {q}
      <4>1. CallsOK(u, open.chat) /\ u \subseteq requests
        BY <2>2
      <4> HIDE DEF u
      <4>2. /\ CallsOK(Bumped(u), open.chat)
            /\ \A p \in Bumped(u) : p.op = "row" => p.reply = "none"
        BY <1>n, <4>1, BumpedIs
      <4>3. requests' = u \/ requests' = Bumped(u)
        BY <2>1 DEF u
      <4>4. open' = open
        BY <2>1
      <4> QED
        BY <4>1, <4>2, <4>3, <4>4
    <3>2. unlucky'
      BY <2>1, <2>3
    <3>3. ConsoleTypes'
      BY <1>h, <2>1, <3>2 DEF ConsoleTypes
    <3>4. RowsAnswered'
      BY <1>h, <2>1, <3>1, Kinds DEF RowsAnswered
    <3>5. StaleRowWillRefresh' /\ WillHear'
      BY <3>2 DEF StaleRowWillRefresh, WillHear
    <3>6. JoinsOwnOrVisited'
      BY <1>h, <2>1 DEF JoinsOwnOrVisited
    <3> QED
      BY <1>g, <3>1, <3>3, <3>4, <3>5, <3>6
  <2>4. CASE q.reply # "broken" \/ open.chat = NoChat
    <3>1. unlucky' = unlucky
      BY <1>h, <2>1, <2>4 DEF ConsoleTypes
    <3>2. CASE q.op = "claim" /\ q.reply # "broken"
      BY <1>14, <1>h, <2>1, <2>2, <3>1, <3>2 DEF ConsoleTypes
    <3>3. CASE q.op = "claim" /\ open.chat = NoChat
      <4>1. requests' = requests \ {q}
        BY <2>1, <3>3 DEF Bumped
      <4> QED
        BY <1>1, <1>h, <1>n, <1>3, <2>1, <2>2, <3>1, <3>3, <4>1 DEF ConsoleTypes
    <3>4. CASE q.op # "claim"
      <4>1. requests' = requests \ {q}
        BY <2>1, <3>4
      <4>2. open.chat # NoChat => q.op = "resolve"
        BY <2>1, <2>4, <3>4
      <4> QED
        BY <1>1, <1>h, <1>n, <1>3, <2>1, <2>2, <3>1, <3>4, <4>1, <4>2 DEF ConsoleTypes
    <3> QED
      BY <2>4, <3>2, <3>3, <3>4
  <2> QED
    BY <2>3, <2>4
<1>19. ASSUME NEW q \in requests, Claimed(q) PROVE ConsoleInv'
  <2> DEFINE a == Ask("open", q.chat)
             u == requests \ {q}
  <2>1. /\ q.op = "claim" /\ q.reply = "done" /\ requests' = Bumped(u) \cup {a} /\ news' = news
        /\ UNCHANGED <<rowStatus, held, conn, rooms, joins, open, live, deaf, unlucky, visited>>
    BY <1>19 DEF Claimed, server, histories
  <2>2. a \in ConsoleRequest /\ a.op = "open" /\ a.chat = q.chat
    BY <1>3, AskIs
  <2>3. CallsOK(u, open.chat) /\ \A p \in requests : p \in u \/ p = q
    BY <1>h DEF CallsOK
  <2>4. u \subseteq requests /\ q \notin u
    OBVIOUS
  <2> HIDE DEF a, u
  <2>5. /\ CallsOK(Bumped(u), open.chat)
        /\ \A p \in u : p.op # "row" => p \in Bumped(u)
        /\ \A p \in Bumped(u) : p.op = "row" => p.reply = "none"
        /\ open.chat # NoChat => \E p \in Bumped(u) : p.op = "row" /\ p.reply = "none"
    BY <1>n, <2>3, BumpedIs
  <2>6. CallsOK(requests', open.chat)
    BY <2>1, <2>2, <2>5 DEF CallsOK
  <2>7. \A p \in requests' : p.op = "row" => p.reply \notin RowStatus
    BY <2>1, <2>2, <2>5, Kinds
  <2>8. open.chat # NoChat => \E p \in requests' : p.op = "row" /\ p.reply = "none"
    BY <2>1, <2>5
  <2>9. ASSUME NEW p \in requests, p.chat = open.chat,
               p.op = "open" \/ (p.op = "claim" /\ p.reply \in {"done", "broken"})
        PROVE  \E r \in requests' : r.chat = open.chat /\ (r.op = "open" \/ (r.op = "claim" /\ r.reply \in {"done", "broken"}))
    <3>1. CASE p = q
      BY <2>1, <2>2, <2>9, <3>1
    <3>2. CASE p # q
      BY <2>1, <2>3, <2>5, <2>9, <3>2
    <3> QED
      BY <3>1, <3>2
  <2>10. news' \in BOOLEAN
    BY <1>h, <2>1 DEF ConsoleTypes
  <2> QED
    BY <1>1, <2>1, <2>6, <2>7, <2>8, <2>9, <2>10
<1>20. ASSUME NEW q \in requests, RowRead(q) PROVE ConsoleInv'
  <2>1. /\ q.op = "row" /\ q.reply \in RowStatus /\ open' = [open EXCEPT !.status = q.reply]
        /\ requests' = requests \ {q}
        /\ UNCHANGED <<rowStatus, held, conn, rooms, joins, news, live, deaf, unlucky, visited>>
    BY <1>20 DEF RowRead, server, histories
  <2>2. open' \in [chat : Chats \cup {NoChat}, status : RowStatus] /\ open'.chat = open.chat /\ open'.status = q.reply
    BY <1>h, <2>1 DEF ConsoleTypes
  <2>3. ConsoleTypes' /\ CallsOK(requests', open'.chat)
    BY <1>h, <2>1, <2>2 DEF ConsoleTypes, CallsOK
  <2>4. RowsAnswered'
    BY <1>h, <2>1 DEF RowsAnswered
  <2>5. StaleRowWillRefresh'
    <3>1. q.chat = open.chat
      BY <1>3, <2>1
    <3> QED
      BY <1>h, <2>1, <2>2, <3>1 DEF RowsAnswered, StaleRowWillRefresh
  <2>6. WillHear'
    <3>1. \A p \in requests : p.op # "row" => p \in requests'
      BY <2>1
    <3> QED
      BY <1>h, <2>1, <2>2, <3>1 DEF WillHear
  <2>7. JoinsOwnOrVisited'
    BY <1>h, <2>1, <2>2 DEF JoinsOwnOrVisited
  <2> QED
    BY <1>g, <2>3, <2>4, <2>5, <2>6, <2>7
\* The drawer closes.
<1>21. ASSUME open' = Closed, requests' \subseteq requests \ Rows(requests), unlucky' = FALSE,
              UNCHANGED <<rowStatus, held, conn, rooms, joins, news, live, deaf, visited>>
       PROVE  ConsoleInv'
  <2>1. Closed \in [chat : Chats \cup {NoChat}, status : RowStatus] /\ Closed.chat = NoChat
    BY DEF Closed, RowStatus
  <2>2. ConsoleTypes'
    BY <1>h, <1>21, <2>1 DEF ConsoleTypes
  <2>3. CallsOK(requests', open'.chat)
    BY <1>h, <1>21 DEF CallsOK, Rows
  <2>4. RowsAnswered'
    BY <1>h, <1>21 DEF RowsAnswered
  <2>5. StaleRowWillRefresh' /\ WillHear' /\ JoinsOwnOrVisited'
    BY <1>n, <1>21, <2>1 DEF StaleRowWillRefresh, WillHear, JoinsOwnOrVisited
  <2> QED
    BY <1>g, <2>2, <2>3, <2>4, <2>5
<1>22. ASSUME NEW q \in requests, Resolved(q) PROVE ConsoleInv'
  <2>1. /\ open' = Closed /\ requests' = (requests \ {q}) \ Rows(requests) /\ unlucky' = FALSE
        /\ UNCHANGED <<rowStatus, held, conn, rooms, joins, news, live, deaf, visited>>
    BY <1>22 DEF Resolved, server
  <2> QED
    BY <1>21, <2>1
<1>23. CASE CloseDrawer
  <2>1. /\ open' = Closed /\ requests' = requests \ Rows(requests) /\ unlucky' = FALSE
        /\ UNCHANGED <<rowStatus, held, conn, rooms, joins, news, live, deaf, visited>>
    BY <1>23 DEF CloseDrawer, server
  <2> QED
    BY <1>21, <2>1
<1>24. ASSUME NEW q \in requests, Opened(q) PROVE ConsoleInv'
  <2> DEFINE rest == requests \ {q}
  <2>1. /\ q.op = "open" /\ q.reply \in RowStatus
        /\ open' = [chat |-> q.chat, status |-> q.reply]
        /\ live' = {} /\ (conn # "dead" => joins' = Append(joins, q.chat))
        /\ (conn = "dead" => joins' = joins)
        /\ requests' = IF open.chat = q.chat THEN rest
                       ELSE (rest \ Rows(rest)) \cup {Ask("row", q.chat)}
        /\ deaf' = FALSE /\ visited' = rooms \cup Range(joins)
        /\ unlucky' = (open.chat = q.chat)
        /\ UNCHANGED <<rowStatus, held, conn, rooms, news>>
    BY <1>24 DEF Opened, JoinConversation, server
  <2>2. open'.chat = q.chat /\ open'.status = q.reply /\ q.chat \in Chats
        /\ open' \in [chat : Chats \cup {NoChat}, status : RowStatus]
    BY <1>3, <2>1
  <2>3. /\ Ask("row", q.chat) \in ConsoleRequest /\ Ask("row", q.chat).op = "row"
        /\ Ask("row", q.chat).chat = q.chat /\ Ask("row", q.chat).reply = "none"
    BY <2>2, AskIs
  <2>4. /\ Append(joins, q.chat) \in Seq(Chats) /\ Range(Append(joins, q.chat)) = Range(joins) \cup {q.chat}
        /\ Range(joins) \subseteq Chats
    BY <1>h, <2>2, RangeAppend, RangeIn DEF ConsoleTypes
  <2>5. joins' \in Seq(Chats) /\ Range(joins') \subseteq Range(joins) \cup {q.chat}
        /\ (conn # "dead" => q.chat \in Range(joins'))
    BY <1>h, <2>1, <2>4 DEF ConsoleTypes
  <2>6. ConsoleTypes'
    BY <1>h, <2>1, <2>2, <2>4, <2>5 DEF ConsoleTypes
  <2>7. CallsOK(requests', open'.chat)
    BY <1>h, <2>1, <2>2, <2>3 DEF CallsOK, Rows
  <2>8. \A p \in requests' : p.op = "row" => p.reply = "none" \/ p \in requests
    BY <2>1, <2>3
  <2>9. RowsAnswered'
    BY <1>h, <2>1, <2>8, Kinds DEF RowsAnswered
  <2>10. StaleRowWillRefresh'
    <3>1. CASE open.chat = q.chat
      BY <2>1, <3>1 DEF StaleRowWillRefresh
    <3>2. CASE open.chat # q.chat
      <4>1. Ask("row", q.chat) \in requests'
        BY <2>1, <3>2
      <4> QED
        BY <2>3, <4>1 DEF StaleRowWillRefresh
    <3> QED
      BY <3>1, <3>2
  <2>11. WillHear'
    BY <2>1, <2>2, <2>5 DEF WillHear
  <2>12. JoinsOwnOrVisited'
    BY <2>1, <2>2, <2>5 DEF JoinsOwnOrVisited
  <2> QED
    BY <1>g, <2>6, <2>7, <2>9, <2>10, <2>11, <2>12
<1>25. CASE UNCHANGED consoleVars
  <2>1. UNCHANGED <<rowStatus, held, conn, rooms, joins, news, open, live, requests, deaf, unlucky, visited>>
    BY <1>25 DEF consoleVars, server, histories
  <2>2. ConsoleTypes' /\ CallsOK(requests', open'.chat)
    BY <1>h, <2>1 DEF ConsoleTypes
  <2>3. RowsAnswered' /\ StaleRowWillRefresh' /\ WillHear' /\ JoinsOwnOrVisited'
    BY <1>h, <2>1 DEF RowsAnswered, StaleRowWillRefresh, WillHear, JoinsOwnOrVisited
  <2> QED
    BY <1>g, <2>2, <2>3
<1>26. ASSUME NEW c \in Chats, OpenBySessionId(c) \/ HandleClaim(c) PROVE ConsoleInv'
  BY <1>16, <1>26 DEF OpenBySessionId, HandleClaim
<1> QED
  BY <1>2, <1>5, <1>6, <1>7, <1>9, <1>10, <1>11, <1>12, <1>13, <1>15, <1>17, <1>18, <1>19, <1>20,
     <1>22, <1>23, <1>24, <1>25, <1>26 DEF ConsoleNext

\* What the agent sees of the open conversation is, or will be, what it is
\* (ConsoleApp.tsx, useAgentSocket.ts), for any conversations and any number of
\* calls and joins under way.
THEOREM ConsoleIsAlwaysCurrent == ConsoleSpec => []ConsoleIsCurrent
<1>1. ConsoleInit => ConsoleInv
  BY ConsoleInitInv
<1>2. ConsoleInv /\ [ConsoleNext]_consoleVars => ConsoleInv'
  BY ConsoleStep
<1>3. ConsoleInv => ConsoleIsCurrent
  BY ConsoleInvImplies
<1> QED
  BY <1>1, <1>2, <1>3, PTL DEF ConsoleSpec

-----------------------------------------------------------------------------
(* Lists in an order: R, a set of pairs, orders S.                           *)

Orders(R, S) ==
  /\ \A x \in S : <<x, x>> \notin R
  /\ \A x, y \in S : x = y \/ <<x, y>> \in R \/ <<y, x>> \in R
  /\ \A x, y, z \in S : <<x, y>> \in R /\ <<y, z>> \in R => <<x, z>> \in R

Sorted(s, R) == \A i, j \in DOMAIN s : i < j => <<s[i], s[j]>> \in R

\* Every finite set can be listed in order: each of its members at the place that
\* the number of those before it tells.
LEMMA SortedExists ==
  ASSUME NEW S, IsFiniteSet(S), NEW R, Orders(R, S)
  PROVE  \E s \in [1..Cardinality(S) -> S] : Sorted(s, R)
<1> DEFINE n == Cardinality(S)
           Earlier(x) == {y \in S : <<y, x>> \in R}
           place == [x \in S |-> Cardinality(Earlier(x)) + 1]
<1>1. n \in Nat
  BY FS_CardinalityType
<1>2. ASSUME NEW x \in S
      PROVE  /\ IsFiniteSet(Earlier(x)) /\ Cardinality(Earlier(x)) \in Nat
             /\ place[x] = Cardinality(Earlier(x)) + 1 /\ place[x] \in 1..n
  <2>1. Earlier(x) \subseteq S /\ x \notin Earlier(x) /\ Earlier(x) \subseteq S \ {x}
    BY <1>2 DEF Orders
  <2>2. IsFiniteSet(S \ {x}) /\ Cardinality(S \ {x}) = n - 1
    BY <1>2, FS_RemoveElement
  <2>3. place[x] = Cardinality(Earlier(x)) + 1
    BY <1>2
  <2> HIDE DEF Earlier, place, n
  <2>4. IsFiniteSet(Earlier(x)) /\ Cardinality(Earlier(x)) <= n - 1
    BY <2>1, <2>2, FS_Subset
  <2>5. Cardinality(Earlier(x)) \in Nat
    BY <2>4, FS_CardinalityType
  <2> QED
    BY <1>1, <2>3, <2>4, <2>5
<1>3. ASSUME NEW x \in S, NEW y \in S, <<x, y>> \in R PROVE place[x] < place[y]
  <2>1. x \in Earlier(y) /\ x \notin Earlier(x) /\ Earlier(x) \subseteq Earlier(y) \ {x}
    BY <1>3 DEF Orders
  <2> HIDE DEF Earlier, place
  <2>2. /\ IsFiniteSet(Earlier(y) \ {x})
        /\ Cardinality(Earlier(y) \ {x}) = Cardinality(Earlier(y)) - 1
    BY <1>2, <2>1, FS_RemoveElement
  <2>3. Cardinality(Earlier(x)) <= Cardinality(Earlier(y)) - 1
    BY <2>1, <2>2, FS_Subset
  <2> QED
    BY <1>2, <2>3
<1>4. place \in [S -> 1..n]
  <2>1. \A x \in S : place[x] \in 1..n
    BY <1>2
  <2> QED
    BY <2>1
<1> HIDE DEF Earlier, place
<1>5. \A x \in S : place[x] \in Int
  BY <1>1, <1>4
<1>6. ASSUME NEW x \in S, NEW y \in S, place[x] = place[y] PROVE x = y
  <2>1. ~(place[x] < place[y]) /\ ~(place[y] < place[x])
    BY <1>5, <1>6
  <2>2. <<x, y>> \notin R /\ <<y, x>> \notin R
    BY <1>3, <2>1
  <2> QED
    BY <2>2 DEF Orders
<1>7. place \in Injection(S, 1..n)
  BY <1>4, <1>6 DEF Injection, IsInjective
<1>8. IsFiniteSet(1..n) /\ Cardinality(1..n) = n
  BY <1>1, FS_Interval
<1>9. place \in Surjection(S, 1..n)
  BY <1>7, <1>8, FS_Injection
<1>10. \A i \in 1..n : \E x \in S : place[x] = i
  BY <1>9 DEF Surjection
<1> DEFINE s == [i \in 1..n |-> CHOOSE x \in S : place[x] = i]
<1>11. \A i \in 1..n : s[i] \in S /\ place[s[i]] = i
  BY <1>10
<1>12. s \in [1..n -> S] /\ DOMAIN s = 1..n
  BY <1>11
<1> HIDE DEF s
<1>13. ASSUME NEW i \in DOMAIN s, NEW j \in DOMAIN s, i < j PROVE <<s[i], s[j]>> \in R
  <2>1. i \in Int /\ j \in Int
    BY <1>1, <1>12
  <2>2. s[i] \in S /\ s[j] \in S /\ place[s[i]] = i /\ place[s[j]] = j
    BY <1>11, <1>12
  <2>3. s[i] # s[j]
    BY <1>13, <2>1, <2>2
  <2>4. <<s[j], s[i]>> \notin R
    <3>1. SUFFICES ASSUME <<s[j], s[i]>> \in R PROVE FALSE
      OBVIOUS
    <3>2. place[s[j]] < place[s[i]]
      BY <1>3, <2>2, <3>1
    <3> QED
      BY <1>13, <2>1, <2>2, <3>2
  <2> QED
    BY <2>2, <2>3, <2>4 DEF Orders
<1> QED
  BY <1>12, <1>13 DEF Sorted

\* In a list of all of S, each comes after as many as come before it in the order.
LEMMA SortedPlaces ==
  ASSUME NEW S, IsFiniteSet(S), NEW R, Orders(R, S),
         NEW s \in [1..Cardinality(S) -> S], Sorted(s, R), NEW i \in DOMAIN s
  PROVE  Cardinality({y \in S : <<y, s[i]>> \in R}) = i - 1
<1> DEFINE n == Cardinality(S)
           D == 1..n
           before == {y \in S : <<y, s[i]>> \in R}
           f == [j \in 1..(i - 1) |-> s[j]]
<1>1. n \in Nat
  BY FS_CardinalityType
<1>2. /\ i \in 1..n /\ i - 1 \in Nat /\ 1..(i - 1) \subseteq 1..n
      /\ \A j \in 1..n : j \in Int /\ (j \in 1..(i - 1) <=> j < i) /\ (j = i \/ j < i \/ i < j)
  BY <1>1
<1>3. \A j \in 1..n : s[j] \in S
  OBVIOUS
<1>4. \A j, k \in 1..n : j < k => <<s[j], s[k]>> \in R
  BY DEF Sorted
<1> HIDE DEF n
<1>5. ASSUME NEW j \in 1..n, NEW k \in 1..n, s[j] = s[k] PROVE j = k
  <2>1. j \in Int /\ k \in Int
    BY <1>1
  <2>2. ~(j < k) /\ ~(k < j)
    BY <1>3, <1>4, <1>5 DEF Orders
  <2> QED
    BY <2>1, <2>2
<1>6. s \in [1..n -> S]
  BY DEF n
<1>7. s \in Injection(1..n, S)
  BY <1>5, <1>6 DEF Injection, IsInjective
<1>8. IsFiniteSet(1..n) /\ Cardinality(1..n) = n
  BY <1>1, FS_Interval
<1>9. s \in Surjection(1..n, S)
  BY <1>7, <1>8, FS_Injection DEF n
<1>10. \A x \in S : \E j \in 1..n : s[j] = x
  BY <1>9 DEF Surjection
<1>11. \A j \in 1..n : s[j] \in before <=> j < i
  <2>1. ASSUME NEW j \in 1..n, j < i PROVE s[j] \in before
    BY <1>2, <1>3, <1>4, <2>1
  <2>2. ASSUME NEW j \in 1..n, s[j] \in before PROVE j < i
    <3>1. j # i
      BY <1>2, <1>3, <2>2 DEF Orders
    <3>2. ~(i < j)
      <4>1. SUFFICES ASSUME i < j PROVE FALSE
        OBVIOUS
      <4>2. <<s[i], s[j]>> \in R /\ <<s[j], s[i]>> \in R /\ s[i] \in S /\ s[j] \in S
        BY <1>2, <1>3, <1>4, <2>2, <4>1
      <4> QED
        BY <4>2 DEF Orders
    <3> QED
      BY <1>2, <3>1, <3>2
  <2> QED
    BY <2>1, <2>2
<1>12. \A j \in 1..(i - 1) : f[j] = s[j] /\ j \in 1..n /\ f[j] \in before
  BY <1>2, <1>11
<1>13. \A x \in before : \E j \in 1..(i - 1) : f[j] = x
  <2>1. SUFFICES ASSUME NEW x \in before PROVE \E j \in 1..(i - 1) : f[j] = x
    OBVIOUS
  <2>2. PICK j \in 1..n : s[j] = x
    BY <1>10
  <2>3. j \in 1..(i - 1)
    BY <1>2, <1>11, <2>2
  <2> QED
    BY <1>12, <2>2, <2>3
<1>14. f \in [1..(i - 1) -> before]
  BY <1>12
<1> HIDE DEF f, before
<1>15. \A j, k \in 1..(i - 1) : f[j] = f[k] => j = k
  BY <1>5, <1>12
<1>16. f \in Bijection(1..(i - 1), before)
  BY <1>13, <1>14, <1>15 DEF Bijection, Injection, Surjection, IsInjective
<1>17. IsFiniteSet(1..(i - 1)) /\ Cardinality(1..(i - 1)) = i - 1
  BY <1>2, FS_Interval
<1>18. Cardinality(before) = i - 1
  BY <1>16, <1>17, FS_Bijection DEF ExistsBijection
<1> QED
  BY <1>18 DEF before

-----------------------------------------------------------------------------
(* Pages of a list.                                                         *)

LEMMA QueueIs ==
  /\ QueueSize \in Nat /\ PageSize \in Nat /\ PageSize >= 1 /\ MaxMoves \in Nat /\ MaxSelects \in Nat
  /\ QueueIds = 1..QueueSize /\ \A r \in QueueIds : r \in Int
  /\ \A r \in QueueIds : Since[r] \in Int
  /\ Initially \in [QueueIds -> {"escalated", "claimed", "resolved"}]
<1>1. QueueSize \in Nat /\ PageSize \in Nat /\ PageSize # 0 /\ MaxMoves \in Nat /\ MaxSelects \in Nat
  BY QueueAssumption
<1>2. QueueIds = 1..QueueSize /\ \A r \in QueueIds : r \in Int
  BY <1>1 DEF QueueIds
<1>3. (\A r \in QueueIds : Since[r] \in Int)
      /\ Initially \in [QueueIds -> {"escalated", "claimed", "resolved"}]
  BY QueueAssumption
<1> QED
  BY <1>1, <1>2, <1>3

\* More of what is counted in pages is no less.
LEMMA Times ==
  ASSUME NEW x \in Int, NEW y \in Int, x <= y, NEW k \in Nat
  PROVE  x * k <= y * k
<1>1. y - x \in Nat
  OBVIOUS
<1>2. (y - x) * k \in Nat
  BY <1>1
<1>3. (y - x) * k = y * k - x * k
  OBVIOUS
<1> QED
  BY <1>2, <1>3

\* A page that is not the last ends before the list does.
LEMMA PagesOf ==
  ASSUME NEW total \in Nat, NEW page \in Nat, page < TotalPages(total)
  PROVE  page * PageSize < total
<1>1. PageSize \in Nat /\ PageSize >= 1
  BY QueueIs
<1> DEFINE a == total + PageSize - 1
           q == a \div PageSize
<1>2. a \in Nat
  BY <1>1
<1>3. q \in Int /\ q * PageSize <= a
  <2> HIDE DEF a
  <2> QED
    BY <1>1, <1>2
<1>4. page + 1 <= q
  BY <1>3 DEF TotalPages
<1> HIDE DEF q
<1>5. (page + 1) * PageSize <= q * PageSize
  BY <1>1, <1>3, <1>4, Times
<1>6. (page + 1) * PageSize = page * PageSize + PageSize /\ page * PageSize \in Int
  BY <1>1
<1>7. page * PageSize < total
  BY <1>1, <1>3, <1>5, <1>6
<1> QED
  BY <1>7

\* LIMIT and OFFSET.
LEMMA SliceIs ==
  ASSUME NEW S, NEW rows \in Seq(S), NEW page \in Nat, page >= 1,
         NEW items, items = Slice(rows, page), NEW k, k = (page - 1) * PageSize
  PROVE  /\ items \in Seq(S)
         /\ \A i \in DOMAIN items : k + i \in 1..Len(rows) /\ items[i] = rows[k + i]
         /\ items = <<>> => Len(rows) <= k
<1>c. PICK c \in Nat : c = Len(rows)
  OBVIOUS
<1>1. PageSize \in Nat /\ PageSize >= 1
  BY QueueIs
<1> DEFINE to == Min({page * PageSize, Len(rows)})
<1>2. k \in Nat /\ page * PageSize = k + PageSize
  <2>1. page - 1 \in Nat
    OBVIOUS
  <2> QED
    BY <1>1, <2>1
<1>3. Len(rows) = c /\ rows \in Seq(S) /\ rows \in [1..c -> S]
  BY <1>c
<1>4. to = IF k + PageSize <= c THEN k + PageSize ELSE c
  <2>1. to = Min({k + PageSize, c})
    BY <1>2, <1>3
  <2>2. k + PageSize \in Int /\ c \in Int
    BY <1>1, <1>2
  <2>3. PICK b : b = k + PageSize
    OBVIOUS
  <2>4. b \in Int /\ to = Min({b, c})
    BY <2>1, <2>2, <2>3
  <2> HIDE DEF to
  <2>5. \E x \in {b, c} : \A y \in {b, c} : x <= y
    BY <2>4
  <2>6. Min({b, c}) \in {b, c} /\ \A y \in {b, c} : Min({b, c}) <= y
    BY <2>5 DEF Min
  <2> QED
    BY <2>3, <2>4, <2>6
<1>5. items = SubSeq(rows, k + 1, to)
  BY DEF Slice
<1> HIDE DEF to
<1>6. k + 1 \in Int /\ to \in Int /\ to <= c /\ k >= 0
  BY <1>1, <1>2, <1>4
<1>7. \A i \in (k + 1)..to : rows[i] \in S
  <2>1. \A i \in (k + 1)..to : i \in 1..c
    BY <1>2, <1>6
  <2> QED
    BY <1>3, <2>1
<1>8. /\ items \in Seq(S)
      /\ Len(items) = IF k + 1 <= to THEN to - (k + 1) + 1 ELSE 0
      /\ \A i \in 1..(to - (k + 1) + 1) : items[i] = rows[(k + 1) + i - 1]
  BY ONLY <1>5, <1>6, <1>7, SubSeqProperties
<1>9. DOMAIN items = 1..Len(items)
  BY <1>8
<1>10. ASSUME NEW i \in DOMAIN items PROVE k + i \in 1..c /\ items[i] = rows[k + i]
  <2>1. k + 1 <= to /\ i \in 1..(to - (k + 1) + 1)
    BY <1>6, <1>8, <1>9
  <2>2. i \in Int /\ 1 <= i /\ i <= to - k /\ (k + 1) + i - 1 = k + i
    BY ONLY <1>2, <1>6, <2>1, SMTT(30)
  <2>3. items[i] = rows[(k + 1) + i - 1]
    BY <1>8, <2>1
  <2>4. k + i \in 1..c
    BY ONLY <1>2, <1>6, <2>2, c \in Nat, SMTT(30)
  <2> QED
    BY <2>2, <2>3, <2>4
<1>11. ASSUME items = <<>> PROVE c <= k
  <2>1. Len(items) = 0
    BY <1>11
  <2>2. ~(k + 1 <= to)
    <3>1. k \in Int /\ to \in Int
      BY <1>2, <1>6
    <3>2. Len(items) = IF k + 1 <= to THEN to - (k + 1) + 1 ELSE 0
      BY <1>8
    <3> QED
      BY ONLY <2>1, <3>1, <3>2
  <2>3. to < k + PageSize
    BY ONLY <1>1, <1>2, <1>6, <2>2
  <2>4. to = c
    BY ONLY <1>4, <2>3
  <2> QED
    BY ONLY <1>1, <1>2, <1>6, <2>2, <2>4
<1> QED
  BY <1>3, <1>8, <1>10, <1>11

-----------------------------------------------------------------------------
(* The two statements of listQueue, as functions of the table.               *)

QueueTable == [QueueIds -> [status : {"escalated", "claimed", "resolved"},
                            resolvedAt : 0..MaxMoves, high : BOOLEAN, found : BOOLEAN]]

ListedIn(q, key) ==
  {r \in QueueIds : /\ q[r].status \in Status(key.tab)
                    /\ key.search => q[r].found
                    /\ key.priority # "any" => (q[r].high <=> key.priority = "high")}

BeforeIn(q, tab, r, s) ==
  IF tab = "resolved"
  THEN \/ q[r].resolvedAt > q[s].resolvedAt
       \/ q[r].resolvedAt = q[s].resolvedAt /\ r > s
  ELSE Since[r] < Since[s] \/ (Since[r] = Since[s] /\ r < s)

\* How many of the list come before x.
Place(q, key, x) == Cardinality({r \in ListedIn(q, key) : BeforeIn(q, key.tab, r, x)})

OrderedIn(q, key) ==
  CHOOSE rows \in [1..Cardinality(ListedIn(q, key)) -> ListedIn(q, key)] :
    \A i, j \in DOMAIN rows : i < j => BeforeIn(q, key.tab, rows[i], rows[j])

\* A page as it should be: the right stretch of the list, and the list's length.
ExactPage(q, d) ==
  /\ d.total = Cardinality(ListedIn(q, d.key))
  /\ \A i \in DOMAIN d.items :
       /\ d.items[i] \in ListedIn(q, d.key)
       /\ Place(q, d.key, d.items[i]) = (d.key.page - 1) * PageSize + i - 1

ListOrder(q, tab) == {p \in QueueIds \X QueueIds : BeforeIn(q, tab, p[1], p[2])}

LEMMA ListedCount ==
  ASSUME NEW q, NEW key
  PROVE  /\ ListedIn(q, key) \subseteq QueueIds /\ IsFiniteSet(ListedIn(q, key))
         /\ Cardinality(ListedIn(q, key)) \in Nat /\ Cardinality(ListedIn(q, key)) \in 0..QueueSize
<1>1. QueueSize \in Nat /\ IsFiniteSet(QueueIds) /\ Cardinality(QueueIds) = QueueSize
  BY QueueIs, FS_Interval
<1>2. ListedIn(q, key) \subseteq QueueIds
  BY DEF ListedIn
<1>3. IsFiniteSet(ListedIn(q, key)) /\ Cardinality(ListedIn(q, key)) <= QueueSize
  BY <1>1, <1>2, FS_Subset
<1>4. Cardinality(ListedIn(q, key)) \in Nat
  BY <1>3, FS_CardinalityType
<1> QED
  BY <1>1, <1>2, <1>3, <1>4

\* ORDER BY leaves nothing open: the id decides between equals.
LEMMA BeforeOrders ==
  ASSUME NEW q \in QueueTable, NEW tab, NEW S, S \subseteq QueueIds
  PROVE  Orders(ListOrder(q, tab), S)
<1> DEFINE R == ListOrder(q, tab)
<1>1. \A x, y \in S : <<x, y>> \in R <=> BeforeIn(q, tab, x, y)
  BY DEF ListOrder
<1>2. \A x \in S : x \in Int /\ q[x].resolvedAt \in Int /\ Since[x] \in Int
  <2>1. \A x \in QueueIds : q[x].resolvedAt \in 0..MaxMoves
    BY DEF QueueTable
  <2> QED
    BY <2>1, QueueIs
<1> HIDE DEF R
<1>3. CASE tab = "resolved"
  <2>1. \A x, y \in S : <<x, y>> \in R <=> \/ q[x].resolvedAt > q[y].resolvedAt
                                           \/ q[x].resolvedAt = q[y].resolvedAt /\ x > y
    BY <1>1, <1>3 DEF BeforeIn
  <2> QED
    BY ONLY <1>2, <2>1 DEF Orders, R
<1>4. CASE tab # "resolved"
  <2>1. \A x, y \in S : <<x, y>> \in R <=> Since[x] < Since[y] \/ (Since[x] = Since[y] /\ x < y)
    BY <1>1, <1>4 DEF BeforeIn
  <2> QED
    BY ONLY <1>2, <2>1 DEF Orders, R
<1> QED
  BY <1>3, <1>4 DEF R

\* The list is in order, so that each session has as many before it as its place says.
LEMMA OrderedIs ==
  ASSUME NEW q \in QueueTable, NEW key, NEW S, S = ListedIn(q, key), NEW rows, rows = OrderedIn(q, key)
  PROVE  /\ rows \in [1..Cardinality(S) -> S]
         /\ \A i \in DOMAIN rows : Place(q, key, rows[i]) = i - 1
<1>1. S \subseteq QueueIds /\ IsFiniteSet(S) /\ Cardinality(S) \in Nat
  BY ListedCount
<1> DEFINE R == ListOrder(q, key.tab)
<1>2. Orders(R, S)
  BY <1>1, BeforeOrders
<1>3. \A x, y \in S : <<x, y>> \in R <=> BeforeIn(q, key.tab, x, y)
  BY <1>1 DEF ListOrder
<1> HIDE DEF R
<1>4. \A s \in [1..Cardinality(S) -> S] :
        Sorted(s, R) <=> \A i, j \in DOMAIN s : i < j => BeforeIn(q, key.tab, s[i], s[j])
  BY <1>3 DEF Sorted
<1>5. \E s \in [1..Cardinality(S) -> S] :
        \A i, j \in DOMAIN s : i < j => BeforeIn(q, key.tab, s[i], s[j])
  BY <1>1, <1>2, <1>4, SortedExists
<1>6. /\ rows \in [1..Cardinality(S) -> S]
      /\ \A i, j \in DOMAIN rows : i < j => BeforeIn(q, key.tab, rows[i], rows[j])
  BY <1>5 DEF OrderedIn
<1>7. Sorted(rows, R)
  BY <1>4, <1>6
<1>8. ASSUME NEW i \in DOMAIN rows
      PROVE  Place(q, key, rows[i]) = i - 1
  <2>1. rows[i] \in S
    BY <1>6
  <2>2. {r \in S : BeforeIn(q, key.tab, r, rows[i])} = {r \in S : <<r, rows[i]>> \in R}
    BY <1>3, <2>1
  <2> QED
    BY <1>1, <1>2, <1>6, <1>7, <2>2, SortedPlaces DEF Place
<1> QED
  BY <1>6, <1>8

\* The page that both statements make, if the table has not changed between them.
LEMMA PageIsExact ==
  ASSUME NEW q \in QueueTable, NEW key, key.page \in Nat, key.page >= 1, NEW d,
         d.items = Slice(OrderedIn(q, key), key.page), d.key = key
  PROVE  /\ d.items \in Seq(QueueIds)
         /\ d.total = Cardinality(ListedIn(q, key)) => ExactPage(q, d)
         /\ d.items = <<>> => Cardinality(ListedIn(q, key)) <= (key.page - 1) * PageSize
<1>1. PICK S : S = ListedIn(q, key)
  OBVIOUS
<1>2. PICK rows : rows = OrderedIn(q, key)
  OBVIOUS
<1>3. S \subseteq QueueIds /\ Cardinality(S) \in Nat
  BY <1>1, ListedCount
<1>4. /\ rows \in [1..Cardinality(S) -> S]
      /\ \A i \in DOMAIN rows : Place(q, key, rows[i]) = i - 1
  BY <1>1, <1>2, OrderedIs
<1>p. PageSize \in Nat
  BY QueueIs
<1>5. PICK k : k = (key.page - 1) * PageSize
  OBVIOUS
<1>i. k \in Int /\ \A i \in DOMAIN rows : i \in Int
  BY <1>3, <1>4, <1>5, <1>p
<1>6. /\ d.items \in Seq(S)
      /\ \A i \in DOMAIN d.items : k + i \in 1..Cardinality(S) /\ d.items[i] = rows[k + i]
      /\ d.items = <<>> => Cardinality(S) <= k
  <2>1. PICK items : items = d.items /\ items = Slice(rows, key.page)
    BY <1>2
  <2>2. PICK page \in Nat : page = key.page /\ page >= 1
    OBVIOUS
  <2>3. rows \in Seq(S) /\ Len(rows) = Cardinality(S)
    BY <1>3, <1>4
  <2>4. items = Slice(rows, page)
    BY <2>1, <2>2
  <2>5. /\ items \in Seq(S)
        /\ \A i \in DOMAIN items : k + i \in 1..Len(rows) /\ items[i] = rows[k + i]
        /\ items = <<>> => Len(rows) <= k
    <3>1. k = (page - 1) * PageSize
      BY <1>5, <2>2
    <3> QED
      <4>1. items \in Seq(S)
        BY <2>2, <2>3, <2>4, <3>1, SliceIs
      <4>2. \A i \in DOMAIN items : k + i \in 1..Len(rows) /\ items[i] = rows[k + i]
        BY <2>2, <2>3, <2>4, <3>1, SliceIs, SMTT(60)
      <4>3. items = <<>> => Len(rows) <= k
        BY <2>2, <2>3, <2>4, <3>1, SliceIs
      <4> QED
        BY <4>1, <4>2, <4>3
  <2> QED
    BY ONLY <1>5, <2>1, <2>2, <2>3, <2>5
<1>7. ASSUME NEW i \in DOMAIN d.items
      PROVE  d.items[i] \in S /\ Place(q, key, d.items[i]) = k + i - 1
  <2>1. k + i \in DOMAIN rows /\ d.items[i] = rows[k + i]
    <3>1. DOMAIN rows = 1..Cardinality(S)
      BY <1>4
    <3> QED
      BY <1>6, <1>7, <3>1
  <2>2. PICK j \in DOMAIN rows : j = k + i
    BY <2>1
  <2>3. i \in Int /\ j \in Int /\ j - 1 = k + i - 1
    <3>1. DOMAIN d.items = 1..Len(d.items)
      BY <1>6
    <3> QED
      BY <1>i, <2>2, <3>1
  <2>4. rows[j] \in S /\ Place(q, key, rows[j]) = j - 1
    BY <1>4, <2>2
  <2> QED
    BY <2>1, <2>2, <2>3, <2>4
<1>8. d.items \in Seq(QueueIds)
  <2>1. Len(d.items) \in Nat /\ d.items \in [1..Len(d.items) -> S]
    BY <1>6
  <2>2. d.items \in [1..Len(d.items) -> QueueIds]
    BY <1>3, <2>1
  <2> QED
    BY ONLY <2>1, <2>2
<1>9. d.total = Cardinality(S) => ExactPage(q, d)
  BY <1>1, <1>5, <1>7 DEF ExactPage
<1> QED
  BY <1>1, <1>5, <1>6, <1>8, <1>9

-----------------------------------------------------------------------------
(* The inductive invariant of the table.                                     *)

Fetches == [key : Key, live : BOOLEAN, total : -1..QueueSize]

QueueTypes ==
  /\ queue \in QueueTable
  /\ moves \in 0..MaxMoves /\ selects \in 0..MaxSelects
  /\ setting \in [key : Key, input : BOOLEAN]
  /\ fetches \subseteq Fetches
  /\ stats \in [counts : [QueueTabs \ {"all"} -> 0..QueueSize], known : BOOLEAN, pending : BOOLEAN,
               failed : BOOLEAN]
  /\ data \in [items : Seq(QueueIds), total : 0..QueueSize, key : Key]
  /\ fetching \in BOOLEAN /\ failed \in BOOLEAN /\ moved \in BOOLEAN /\ hasty \in BOOLEAN

\* One fetch counts, that of the key the table is set to.
OneFetch ==
  /\ fetching <=> \E f \in fetches : f.live
  /\ \A f, g \in fetches : f.live /\ g.live => f = g
  /\ \A f \in fetches : f.live => f.key = setting.key

\* What has been counted, and what is shown, is of the table as it is, unless an
\* event is still to come.
CountsHold ==
  ~moved =>
    /\ \A f \in fetches : f.live /\ f.total # -1 => f.total = Cardinality(ListedIn(queue, f.key))
    /\ ~stats.pending /\ ~stats.failed => \A t \in QueueTabs \ {"all"} :
         stats.counts[t] = Cardinality({r \in QueueIds : queue[r].status \in Status(t)})
    /\ ~fetching /\ ~failed => ExactPage(queue, data)

ShownIsAsked == ~fetching /\ ~failed => data.key = setting.key

\* Without haste the page asked for begins within the list.
OnAPage ==
  ~hasty =>
    /\ ~moved
    /\ \/ setting.key.page = 1
       \/ (setting.key.page - 1) * PageSize < Cardinality(ListedIn(queue, setting.key))
    /\ setting.input # setting.key.search => setting.key.page = 1
    /\ ~fetching /\ ~failed /\ data.items = <<>> => data.total = 0

QueueInv == QueueTypes /\ OneFetch /\ CountsHold /\ ShownIsAsked /\ OnAPage

LEMMA KeysAre ==
  /\ FirstKey \in Key
  /\ \A key \in Key : key.page \in Nat /\ key.page >= 1
<1>1. \A key \in Key : key.page \in Nat \ {0}
  BY DEF Key
<1>2. "waiting" \in QueueTabs /\ "any" \in Priorities /\ 1 \in Nat \ {0}
  BY DEF QueueTabs, Priorities
<1> QED
  BY <1>1, <1>2 DEF Key, FirstKey

\* Every action of the table, and every change of the queue, preserves the invariant.
LEMMA QueueStep == QueueInv /\ [QueueNext]_queueVars => QueueInv'
<1> SUFFICES ASSUME QueueInv, [QueueNext]_queueVars PROVE QueueInv'
  OBVIOUS
<1>0. QueueTypes /\ OneFetch /\ CountsHold /\ ShownIsAsked /\ OnAPage
  BY DEF QueueInv
<1>k. setting.key \in Key /\ setting.input \in BOOLEAN /\ data.key \in Key
      /\ setting.key.search \in BOOLEAN /\ data.total \in 0..QueueSize
  BY <1>0 DEF QueueTypes, Key
<1>q. queue \in QueueTable /\ QueueSize \in Nat /\ -1 \in -1..QueueSize
  BY <1>0, QueueIs DEF QueueTypes
\* A new fetch supersedes the one under way.
<1>r. ASSUME NEW key \in Key, NEW g \in Refetched(key)
      PROVE  /\ g \in Fetches
             /\ g.live = FALSE \/ (g.live = TRUE /\ g.key = key /\ g.total = -1 /\ g = Fetch(key))
  <2>1. CASE g = Fetch(key)
    BY <1>q, <2>1 DEF Fetch, Fetches
  <2>2. CASE \E f \in fetches : g = [f EXCEPT !.live = FALSE]
    BY <1>0, <2>2 DEF QueueTypes, Fetches
  <2> QED
    BY <1>r, <2>1, <2>2 DEF Refetched
<1>u. ASSUME NEW key \in Key
      PROVE  Fetch(key) \in Refetched(key) /\ Fetch(key).live
  BY DEF Refetched, Fetch
\* What all settings of the table have in common.
<1>1. ASSUME NEW key \in Key, NEW input \in BOOLEAN, Sets(key, input),
             hasty' \in BOOLEAN, hasty => hasty',
             ~hasty' => /\ \/ key.page = 1
                           \/ (key.page - 1) * PageSize < Cardinality(ListedIn(queue, key))
                        /\ input # key.search => key.page = 1
      PROVE  QueueInv'
  <2>1. /\ selects < MaxSelects /\ selects' = selects + 1
        /\ setting' = [key |-> key, input |-> input]
        /\ IF key = setting.key THEN fetches' = fetches /\ fetching' = fetching
           ELSE fetches' = Refetched(key) /\ fetching' = TRUE
        /\ queue' = queue /\ moves' = moves /\ stats' = stats /\ data' = data /\ failed' = failed
        /\ moved' = moved
    BY <1>1 DEF Sets
  <2>2. setting'.key = key /\ setting'.input = input
    BY <2>1
  <2>3. QueueTypes'
    <3>1. selects' \in 0..MaxSelects
      BY <1>0, <2>1, QueueIs DEF QueueTypes
    <3>2. fetches' \subseteq Fetches /\ fetching' \in BOOLEAN
      BY <1>0, <1>r, <2>1 DEF QueueTypes
    <3>3. setting' \in [key : Key, input : BOOLEAN]
      BY <2>1
    <3> QED
      BY <1>0, <1>1, <2>1, <3>1, <3>2, <3>3 DEF QueueTypes
  <2>4. OneFetch'
    <3>1. CASE key = setting.key
      BY <1>0, <2>1, <2>2, <3>1 DEF OneFetch
    <3>2. CASE key # setting.key
      <4>1. \A g \in fetches' : g.live => g = Fetch(key) /\ g.key = key
        BY <1>r, <2>1, <3>2
      <4>2. \E g \in fetches' : g.live
        BY <1>u, <2>1, <3>2
      <4> QED
        BY <2>1, <2>2, <3>2, <4>1, <4>2 DEF OneFetch
    <3> QED
      BY <3>1, <3>2
  <2>5. CountsHold'
    <3>1. CASE key = setting.key
      BY <1>0, <2>1, <3>1 DEF CountsHold
    <3>2. CASE key # setting.key
      <4>1. \A g \in fetches' : g.live => g.total = -1
        BY <1>r, <2>1, <3>2
      <4> QED
        BY <1>0, <2>1, <3>2, <4>1 DEF CountsHold
    <3> QED
      BY <3>1, <3>2
  <2>6. ShownIsAsked'
    BY <1>0, <2>1, <2>2 DEF ShownIsAsked
  <2>7. OnAPage'
    <3>1. SUFFICES ASSUME ~hasty'
                   PROVE  /\ ~moved
                          /\ key.page = 1 \/ (key.page - 1) * PageSize < Cardinality(ListedIn(queue, key))
                          /\ input # key.search => key.page = 1
                          /\ ~fetching' /\ ~failed /\ data.items = <<>> => data.total = 0
      BY <2>1, <2>2 DEF OnAPage
    <3>2. ~hasty
      BY <1>1, <3>1
    <3> QED
      BY <1>0, <1>1, <2>1, <3>1, <3>2 DEF OnAPage
  <2> QED
    BY <2>3, <2>4, <2>5, <2>6, <2>7 DEF QueueInv
\* Back to the first page.
<1>o. \A key \in Key : ResetTo(key) \in Key /\ ResetTo(key).page = 1 /\ ResetTo(key).search = key.search
  BY DEF ResetTo, Key
<1>2. ASSUME NEW t \in QueueTabs, SelectTab(t) PROVE QueueInv'
  <2>1. [setting.key EXCEPT !.tab = t] \in Key
    BY <1>k DEF Key
  <2>2. PICK key \in Key : key = ResetTo([setting.key EXCEPT !.tab = t]) /\ key.page = 1
    BY <1>o, <2>1
  <2>3. Sets(key, setting.input) /\ hasty' = hasty /\ hasty \in BOOLEAN
    BY <1>0, <1>2, <2>2 DEF SelectTab, QueueTypes
  <2> QED
    BY <1>1, <1>k, <2>2, <2>3
<1>3. ASSUME NEW p \in Priorities, SelectPriority(p) PROVE QueueInv'
  <2>1. [setting.key EXCEPT !.priority = p] \in Key
    BY <1>k DEF Key
  <2>2. PICK key \in Key : key = ResetTo([setting.key EXCEPT !.priority = p]) /\ key.page = 1
    BY <1>o, <2>1
  <2>3. Sets(key, setting.input) /\ hasty' = hasty /\ hasty \in BOOLEAN
    BY <1>0, <1>3, <2>2 DEF SelectPriority, QueueTypes
  <2> QED
    BY <1>1, <1>k, <2>2, <2>3
<1>4. ASSUME TypeSearch PROVE QueueInv'
  <2>1. PICK key \in Key : key = ResetTo(setting.key) /\ key.page = 1
    BY <1>k, <1>o
  <2>2. PICK input \in BOOLEAN : input = ~setting.input
    BY <1>k
  <2>3. Sets(key, input) /\ hasty' = hasty /\ hasty \in BOOLEAN
    BY <1>0, <1>4, <2>1, <2>2 DEF TypeSearch, QueueTypes
  <2> QED
    BY <1>1, <2>1, <2>3
\* The search takes effect on the page it was reset to with the first keystroke.
<1>5. ASSUME Debounced PROVE QueueInv'
  <2>1. PICK key : key = [setting.key EXCEPT !.search = setting.input]
    OBVIOUS
  <2>2. key \in Key /\ key.page = setting.key.page
    BY <1>k, <2>1 DEF Key
  <2>3. /\ setting.input # setting.key.search
        /\ Sets(key, setting.input) /\ hasty' = hasty /\ hasty \in BOOLEAN
    BY <1>0, <1>5, <2>1 DEF Debounced, QueueTypes
  <2>4. ~hasty => key.page = 1
    BY <1>0, <2>2, <2>3 DEF OnAPage
  <2> QED
    BY <1>1, <1>k, <2>2, <2>3, <2>4
<1>6. ASSUME NEW d \in {-1, 1}, TurnPage(d) PROVE QueueInv'
  <2>1. PICK key : key = [setting.key EXCEPT !.page = data.key.page + d]
    OBVIOUS
  <2>2. /\ data.total > 0
        /\ IF d = -1 THEN data.key.page > 1 ELSE data.key.page < TotalPages(data.total)
        /\ Sets(key, setting.input)
        /\ hasty' = (hasty \/ setting.input # setting.key.search \/ fetching \/ failed)
    BY <1>6, <2>1 DEF TurnPage
  <2>3. PICK page \in Nat : page = data.key.page /\ page >= 1
    BY <1>k, KeysAre
  <2>4. PICK total \in Nat : total = data.total /\ total <= QueueSize
    BY <1>k, <1>q
  <2>5. d = 1 => page * PageSize < total
    BY <2>2, <2>3, <2>4, PagesOf
  <2>6. page + d \in Nat \ {0}
    BY <2>2, <2>3
  <2>7. /\ key \in Key /\ key.page = page + d /\ key.search = setting.key.search
        /\ key.tab = setting.key.tab /\ key.priority = setting.key.priority
    BY <1>k, <2>1, <2>3, <2>6 DEF Key
  <2>8. hasty' \in BOOLEAN /\ (hasty => hasty')
    BY <2>2
  <2>9. ASSUME ~hasty'
        PROVE  /\ \/ key.page = 1
                  \/ (key.page - 1) * PageSize < Cardinality(ListedIn(queue, key))
               /\ setting.input # key.search => key.page = 1
    <3>1. ~hasty /\ setting.input = setting.key.search /\ ~fetching /\ ~failed
      BY <2>2, <2>9
    <3>2. data.key = setting.key /\ ~moved /\ ExactPage(queue, data)
      BY <1>0, <3>1 DEF ShownIsAsked, OnAPage, CountsHold
    <3>3. ListedIn(queue, key) = ListedIn(queue, setting.key)
      BY <2>7 DEF ListedIn
    <3>4. total = Cardinality(ListedIn(queue, key))
      BY <2>4, <3>2, <3>3 DEF ExactPage
    <3>5. CASE d = 1
      <4>1. key.page - 1 = page
        BY <2>7, <3>5
      <4> QED
        BY <2>5, <2>7, <3>1, <3>4, <3>5, <4>1
    <3>6. CASE d = -1
      <4>1. page > 1
        BY <2>2, <2>3, <3>6
      <4>2. (page - 1) * PageSize < total
        BY <1>0, <2>3, <3>1, <3>2, <3>3, <3>4, <4>1 DEF OnAPage
      <4>3. /\ PageSize \in Nat /\ page - 2 \in Int /\ page - 1 \in Int
            /\ (page - 2) * PageSize \in Int /\ (page - 1) * PageSize \in Int
        BY QueueIs
      <4>4. (page - 2) * PageSize <= (page - 1) * PageSize
        BY <4>3, Times
      <4>5. (page - 2) * PageSize < total
        BY ONLY <4>2, <4>3, <4>4, total \in Nat
      <4>6. key.page - 1 = page - 2
        BY <2>7, <3>6
      <4> QED
        BY <2>7, <3>1, <3>4, <4>5, <4>6
    <3> QED
      BY <3>5, <3>6
  <2> QED
    BY <1>1, <1>k, <2>2, <2>7, <2>8, <2>9
\* The queue: from now on what was read may be outdated.
<1>7. ASSUME NEW r \in QueueIds, QueueMoves(r) PROVE QueueInv'
  <2>1. /\ moves < MaxMoves /\ moves' = moves + 1 /\ moved' = TRUE /\ hasty' = TRUE
        /\ \/ queue' = [queue EXCEPT ![r].status = "claimed"]
           \/ queue' = [queue EXCEPT ![r].status = "resolved", ![r].resolvedAt = moves + 1]
           \/ queue' = [queue EXCEPT ![r].status = "escalated"]
           \/ queue' = [queue EXCEPT ![r].high = TRUE]
           \/ queue' = [queue EXCEPT ![r].found = ~@]
        /\ selects' = selects /\ setting' = setting /\ fetches' = fetches /\ stats' = stats
        /\ data' = data /\ fetching' = fetching /\ failed' = failed
    BY <1>7 DEF QueueMoves
  <2>2. moves' \in 0..MaxMoves /\ moves + 1 \in 0..MaxMoves
    BY <1>0, <2>1, QueueIs DEF QueueTypes
  <2>3. queue' \in QueueTable
    <3>1. \A i \in QueueIds : queue[i] \in [status : {"escalated", "claimed", "resolved"},
                                            resolvedAt : 0..MaxMoves, high : BOOLEAN, found : BOOLEAN]
      BY <1>q DEF QueueTable
    <3>2. queue' = [queue EXCEPT ![r] = queue'[r]]
      BY <1>q, <2>1 DEF QueueTable
    <3>3. queue'[r] \in [status : {"escalated", "claimed", "resolved"},
                         resolvedAt : 0..MaxMoves, high : BOOLEAN, found : BOOLEAN]
      <4>1. CASE queue' = [queue EXCEPT ![r].status = "claimed"]
        BY <1>q, <3>1, <4>1 DEF QueueTable
      <4>2. CASE queue' = [queue EXCEPT ![r].status = "resolved", ![r].resolvedAt = moves + 1]
        BY <1>q, <2>2, <3>1, <4>2 DEF QueueTable
      <4>3. CASE queue' = [queue EXCEPT ![r].status = "escalated"]
        BY <1>q, <3>1, <4>3 DEF QueueTable
      <4>4. CASE queue' = [queue EXCEPT ![r].high = TRUE]
        BY <1>q, <3>1, <4>4 DEF QueueTable
      <4>5. CASE queue' = [queue EXCEPT ![r].found = ~@]
        BY <1>q, <3>1, <4>5 DEF QueueTable
      <4> QED
        BY <2>1, <4>1, <4>2, <4>3, <4>4, <4>5
    <3> QED
      BY <1>q, <3>2, <3>3 DEF QueueTable
  <2>4. QueueTypes'
    BY <1>0, <2>1, <2>2, <2>3 DEF QueueTypes
  <2>5. OneFetch' /\ ShownIsAsked'
    BY <1>0, <2>1 DEF OneFetch, ShownIsAsked
  <2>6. CountsHold' /\ OnAPage'
    BY <2>1 DEF CountsHold, OnAPage
  <2> QED
    BY <2>4, <2>5, <2>6 DEF QueueInv
<1>8. ASSUME QueueChanged PROVE QueueInv'
  <2>1. /\ moved /\ moved' = FALSE /\ fetches' = Refetched(setting.key) /\ fetching' = TRUE
        /\ stats' = [stats EXCEPT !.pending = TRUE]
        /\ queue' = queue /\ moves' = moves /\ selects' = selects /\ setting' = setting
        /\ data' = data /\ failed' = failed /\ hasty' = hasty
    BY <1>8 DEF QueueChanged
  <2>2. /\ stats'.pending = TRUE
        /\ stats' \in [counts : [QueueTabs \ {"all"} -> 0..QueueSize], known : BOOLEAN, pending : BOOLEAN,
               failed : BOOLEAN]
    BY <1>0, <2>1 DEF QueueTypes
  <2>3. QueueTypes'
    <3>1. fetches' \subseteq Fetches
      BY <1>k, <1>r, <2>1
    <3> QED
      BY <1>0, <2>1, <2>2, <3>1 DEF QueueTypes
  <2>4. OneFetch'
    <3>1. \A g \in fetches' : g.live => g = Fetch(setting.key) /\ g.key = setting.key
      BY <1>k, <1>r, <2>1
    <3>2. \E g \in fetches' : g.live
      BY <1>k, <1>u, <2>1
    <3> QED
      BY <2>1, <3>1, <3>2 DEF OneFetch
  <2>5. CountsHold'
    BY <1>k, <1>r, <2>1, <2>2 DEF CountsHold
  <2>6. ShownIsAsked'
    BY <2>1 DEF ShownIsAsked
  <2>7. hasty'
    BY <1>0, <2>1 DEF OnAPage
  <2>8. OnAPage'
    BY <2>7 DEF OnAPage
  <2> QED
    BY <2>3, <2>4, <2>5, <2>6, <2>8 DEF QueueInv
<1>9. ASSUME StatsArrive PROVE QueueInv'
  <2>1. /\ stats' = [counts |-> [t \in QueueTabs \ {"all"} |-> CountOf(t)], known |-> TRUE,
                     pending |-> FALSE, failed |-> FALSE]
        /\ queue' = queue /\ moves' = moves /\ selects' = selects /\ setting' = setting
        /\ fetches' = fetches /\ data' = data /\ fetching' = fetching /\ failed' = failed
        /\ moved' = moved /\ hasty' = hasty
    BY <1>9 DEF StatsArrive
  <2>2. \A t : CountOf(t) = Cardinality({r \in QueueIds : queue[r].status \in Status(t)})
    BY DEF CountOf
  <2>3. \A t : CountOf(t) \in 0..QueueSize
    <3>1. SUFFICES ASSUME NEW t PROVE CountOf(t) \in 0..QueueSize
      OBVIOUS
    <3>2. PICK S : S = {r \in QueueIds : queue[r].status \in Status(t)}
      OBVIOUS
    <3>3. S \subseteq QueueIds /\ IsFiniteSet(QueueIds) /\ Cardinality(QueueIds) = QueueSize
      BY <3>2, QueueIs, FS_Interval
    <3>4. IsFiniteSet(S) /\ Cardinality(S) <= QueueSize /\ Cardinality(S) \in Nat
      BY <3>3, FS_Subset, FS_CardinalityType
    <3> QED
      BY <1>q, <2>2, <3>2, <3>4
  <2>4. QueueTypes'
    BY <1>0, <2>1, <2>3 DEF QueueTypes
  <2>5. OneFetch' /\ ShownIsAsked'
    BY <1>0, <2>1 DEF OneFetch, ShownIsAsked
  <2>6. CountsHold'
    <3>1. \A t \in QueueTabs \ {"all"} : stats'.counts[t] = CountOf(t)
      BY <2>1
    <3> QED
      BY <1>0, <2>1, <2>2, <3>1 DEF CountsHold
  <2>7. OnAPage'
    BY <1>0, <2>1 DEF OnAPage
  <2> QED
    BY <2>4, <2>5, <2>6, <2>7 DEF QueueInv
<1>9a. ASSUME StatsFail PROVE QueueInv'
  <2>1. /\ stats' = [stats EXCEPT !.pending = FALSE, !.failed = TRUE]
        /\ queue' = queue /\ moves' = moves /\ selects' = selects /\ setting' = setting
        /\ fetches' = fetches /\ data' = data /\ fetching' = fetching /\ failed' = failed
        /\ moved' = moved /\ hasty' = hasty
    BY <1>9a DEF StatsFail
  <2>2. /\ stats'.failed = TRUE
        /\ stats' \in [counts : [QueueTabs \ {"all"} -> 0..QueueSize], known : BOOLEAN, pending : BOOLEAN,
                       failed : BOOLEAN]
    BY <1>0, <2>1 DEF QueueTypes
  <2>3. QueueTypes'
    BY <1>0, <2>1, <2>2 DEF QueueTypes
  <2>4. OneFetch' /\ ShownIsAsked' /\ OnAPage'
    BY <1>0, <2>1 DEF OneFetch, ShownIsAsked, OnAPage
  <2>5. CountsHold'
    BY <1>0, <2>1, <2>2 DEF CountsHold
  <2> QED
    BY <2>3, <2>4, <2>5 DEF QueueInv
<1>10. ASSUME NEW f \in fetches, Count(f) PROVE QueueInv'
  <2>1. PICK g : g = [f EXCEPT !.total = Cardinality(Listed(f.key))]
    OBVIOUS
  <2>2. /\ fetches' = (fetches \ {f}) \cup {g}
        /\ queue' = queue /\ moves' = moves /\ selects' = selects /\ setting' = setting
        /\ stats' = stats /\ data' = data /\ fetching' = fetching /\ failed' = failed
        /\ moved' = moved /\ hasty' = hasty
    BY <1>10, <2>1 DEF Count
  <2>3. Listed(f.key) = ListedIn(queue, f.key)
    BY DEF Listed, ListedIn
  <2>4. Cardinality(ListedIn(queue, f.key)) \in -1..QueueSize
    <3>1. Cardinality(ListedIn(queue, f.key)) \in 0..QueueSize
      BY ListedCount
    <3> QED
      BY <1>q, <3>1
  <2>5. /\ g \in Fetches /\ g.key = f.key /\ g.live = f.live
        /\ g.total = Cardinality(ListedIn(queue, f.key))
    BY <1>0, <2>1, <2>3, <2>4 DEF QueueTypes, Fetches
  <2>6. \A h \in fetches' : h = g \/ (h \in fetches /\ h # f)
    BY <2>2
  <2>7. QueueTypes'
    BY <1>0, <2>2, <2>5, <2>6 DEF QueueTypes
  <2>8. OneFetch'
    <3>1. (\E h \in fetches' : h.live) <=> \E h \in fetches : h.live
      BY <2>2, <2>5, <2>6
    <3>2. \A h, j \in fetches' : h.live /\ j.live => h = j
      BY <1>0, <2>5, <2>6 DEF OneFetch
    <3>3. \A h \in fetches' : h.live => h.key = setting.key
      BY <1>0, <2>5, <2>6 DEF OneFetch
    <3> QED
      BY <1>0, <2>2, <3>1, <3>2, <3>3 DEF OneFetch
  <2>9. CountsHold' /\ ShownIsAsked' /\ OnAPage'
    <3>1. CountsHold'
      BY <1>0, <2>2, <2>5, <2>6 DEF CountsHold
    <3>2. ShownIsAsked' /\ OnAPage'
      BY <1>0, <2>2 DEF ShownIsAsked, OnAPage
    <3> QED
      BY <3>1, <3>2
  <2> QED
    BY <2>7, <2>8, <2>9 DEF QueueInv
\* A fetch that ends: its answer is taken only if it was not superseded.
<1>11. ASSUME NEW f \in fetches, PageArrives(f) PROVE QueueInv'
  <2>1. /\ f.total # -1 /\ fetches' = fetches \ {f} /\ Settles(f)
        /\ queue' = queue /\ moves' = moves /\ selects' = selects /\ setting' = setting
        /\ stats' = stats /\ moved' = moved /\ hasty' = hasty
    BY <1>11 DEF PageArrives
  <2>2. f \in Fetches /\ f.key \in Key /\ f.total \in 0..QueueSize
    <3>1. f \in Fetches /\ f.key \in Key /\ f.total \in -1..QueueSize
      BY <1>0 DEF QueueTypes, Fetches
    <3> QED
      BY <1>q, <2>1, <3>1
  <2>3. \A h \in fetches' : h \in fetches /\ h # f
    BY <2>1
  <2>4. CASE f.live
    <3>1. /\ data' = [items |-> Slice(Ordered(f.key), f.key.page), total |-> f.total, key |-> f.key]
          /\ failed' = FALSE /\ fetching' = FALSE
      BY <2>1, <2>4 DEF Settles
    <3>2. PICK d : d = [items |-> Slice(Ordered(f.key), f.key.page), total |-> f.total, key |-> f.key]
      OBVIOUS
    <3>3. Ordered(f.key) = OrderedIn(queue, f.key)
      BY DEF Ordered, OrderedIn, Listed, ListedIn, Before, BeforeIn
    <3>4. d.items = Slice(OrderedIn(queue, f.key), f.key.page) /\ d.total = f.total /\ d.key = f.key
      BY <3>2, <3>3
    <3>5. /\ d.items \in Seq(QueueIds)
          /\ d.total = Cardinality(ListedIn(queue, f.key)) => ExactPage(queue, d)
          /\ d.items = <<>> => Cardinality(ListedIn(queue, f.key)) <= (f.key.page - 1) * PageSize
      <4>1. f.key.page \in Nat /\ f.key.page >= 1
        BY <2>2, KeysAre
      <4> QED
        BY <1>q, <3>4, <4>1, PageIsExact
    <3>6. f.key = setting.key
      BY <1>0, <2>4 DEF OneFetch
    <3>7. ~moved => f.total = Cardinality(ListedIn(queue, f.key))
      BY <1>0, <2>1, <2>4 DEF CountsHold
    <3>8. data' = d
      BY <3>1, <3>2
    <3>9. QueueTypes'
      <4>1. d \in [items : Seq(QueueIds), total : 0..QueueSize, key : Key]
        BY <2>2, <3>2, <3>4, <3>5
      <4> QED
        BY <1>0, <2>1, <2>3, <3>1, <3>8, <4>1 DEF QueueTypes
    <3>10. OneFetch'
      BY <1>0, <2>1, <2>3, <2>4, <3>1 DEF OneFetch
    <3>11. CountsHold'
      BY <1>0, <2>1, <2>3, <3>4, <3>5, <3>7, <3>8 DEF CountsHold
    <3>12. ShownIsAsked'
      BY <2>1, <3>4, <3>6, <3>8 DEF ShownIsAsked
    <3>13. OnAPage'
      <4>1. ASSUME ~hasty, d.items = <<>> PROVE d.total = 0
        <5>1. PICK c \in Nat : c = Cardinality(ListedIn(queue, f.key))
          BY ListedCount
        <5>2. PICK k : k = (f.key.page - 1) * PageSize
          OBVIOUS
        <5>3. c <= k /\ d.total = c
          BY <1>0, <3>4, <3>5, <3>7, <4>1, <5>1, <5>2 DEF OnAPage
        <5>4. f.key.page = 1 \/ k < c
          BY <1>0, <3>6, <4>1, <5>1, <5>2 DEF OnAPage
        <5>5. k \in Int
          <6>1. f.key.page \in Nat /\ PageSize \in Nat
            BY <2>2, KeysAre, QueueIs
          <6> QED
            BY ONLY <5>2, <6>1
        <5>6. f.key.page = 1 => k = 0
          BY <5>2, QueueIs
        <5> QED
          BY ONLY <5>3, <5>4, <5>5, <5>6, c \in Nat
      <4> QED
        BY <1>0, <2>1, <3>8, <4>1 DEF OnAPage
    <3> QED
      BY <3>9, <3>10, <3>11, <3>12, <3>13 DEF QueueInv
  <2>5. CASE ~f.live
    <3>1. data' = data /\ failed' = failed /\ fetching' = fetching
      BY <2>1, <2>5 DEF Settles
    <3>2. QueueTypes'
      BY <1>0, <2>1, <2>3, <3>1 DEF QueueTypes
    <3>3. OneFetch'
      <4>1. (\E h \in fetches' : h.live) <=> \E h \in fetches : h.live
        BY <2>1, <2>5
      <4> QED
        BY <1>0, <2>1, <2>3, <3>1, <4>1 DEF OneFetch
    <3>4. CountsHold' /\ ShownIsAsked' /\ OnAPage'
      BY <1>0, <2>1, <2>3, <3>1 DEF CountsHold, ShownIsAsked, OnAPage
    <3> QED
      BY <3>2, <3>3, <3>4 DEF QueueInv
  <2> QED
    BY <2>4, <2>5
<1>12. ASSUME NEW f \in fetches, FetchFails(f) PROVE QueueInv'
  <2>1. /\ fetches' = fetches \ {f}
        /\ IF f.live THEN failed' = TRUE /\ fetching' = FALSE
           ELSE failed' = failed /\ fetching' = fetching
        /\ queue' = queue /\ moves' = moves /\ selects' = selects /\ setting' = setting
        /\ stats' = stats /\ data' = data /\ moved' = moved /\ hasty' = hasty
    BY <1>12 DEF FetchFails
  <2>2. \A h \in fetches' : h \in fetches /\ h # f
    BY <2>1
  <2>3. QueueTypes'
    BY <1>0, <2>1, <2>2 DEF QueueTypes
  <2>4. OneFetch'
    <3>1. CASE f.live
      BY <1>0, <2>1, <2>2, <3>1 DEF OneFetch
    <3>2. CASE ~f.live
      <4>1. (\E h \in fetches' : h.live) <=> \E h \in fetches : h.live
        BY <2>1, <3>2
      <4> QED
        BY <1>0, <2>1, <2>2, <3>2, <4>1 DEF OneFetch
    <3> QED
      BY <3>1, <3>2
  <2>5. CountsHold' /\ ShownIsAsked' /\ OnAPage'
    BY <1>0, <2>1, <2>2 DEF CountsHold, ShownIsAsked, OnAPage
  <2> QED
    BY <2>3, <2>4, <2>5 DEF QueueInv
<1>13. ASSUME UNCHANGED queueVars PROVE QueueInv'
  <2>1. /\ queue' = queue /\ moves' = moves /\ selects' = selects /\ setting' = setting
        /\ fetches' = fetches /\ stats' = stats /\ data' = data /\ fetching' = fetching
        /\ failed' = failed /\ moved' = moved /\ hasty' = hasty
    BY <1>13 DEF queueVars
  <2> QED
    <3>1. QueueTypes' /\ OneFetch'
      BY <1>0, <2>1 DEF QueueTypes, OneFetch
    <3>2. CountsHold' /\ ShownIsAsked' /\ OnAPage'
      BY <1>0, <2>1 DEF CountsHold, ShownIsAsked, OnAPage
    <3> QED
      BY <3>1, <3>2 DEF QueueInv
<1> QED
  BY <1>2, <1>3, <1>4, <1>5, <1>6, <1>7, <1>8, <1>9, <1>9a, <1>10, <1>11, <1>12, <1>13 DEF QueueNext

\* What the invariant says of the settled table.
LEMMA QueueTells == QueueInv => QueueIsShown
<1> SUFFICES ASSUME QueueInv PROVE QueueIsShown
  OBVIOUS
<1>0. QueueTypes /\ OneFetch /\ CountsHold /\ ShownIsAsked /\ OnAPage
  BY DEF QueueInv
<1>1. QueueTypeOK
  BY <1>0 DEF QueueTypes, OneFetch, QueueTypeOK, QueueTable, Fetches, Key, QueuePage
<1>2. ShowsWhatIsAsked /\ NoEmptyPage
  BY <1>0 DEF ShowsWhatIsAsked, NoEmptyPage, Settled, ShownIsAsked, OnAPage
<1>3. \A key : Listed(key) = ListedIn(queue, key)
  BY DEF Listed, ListedIn
<1>4. \A tab, r, s : Before(tab, r, s) <=> BeforeIn(queue, tab, r, s)
  BY DEF Before, BeforeIn
<1>5. ASSUME Settled, ~moved
      PROVE  /\ data.total = Cardinality(Listed(data.key))
             /\ \A i \in DOMAIN data.items :
                  /\ data.items[i] \in Listed(data.key)
                  /\ Cardinality({r \in Listed(data.key) : Before(data.key.tab, r, data.items[i])})
                       = (data.key.page - 1) * PageSize + i - 1
             /\ (~stats.pending /\ ~stats.failed /\ ~setting.key.search /\ setting.key.priority = "any"
                   /\ setting.key.tab # "all") => stats.counts[setting.key.tab] = data.total
  <2>1. ~fetching /\ ~failed /\ ExactPage(queue, data) /\ data.key = setting.key
    BY <1>0, <1>5 DEF Settled, CountsHold, ShownIsAsked
  <2>2. PICK L : L = Listed(data.key) /\ L = ListedIn(queue, data.key)
    BY <1>3
  <2>3. data.total = Cardinality(L)
    BY <2>1, <2>2 DEF ExactPage
  <2>4. ASSUME NEW i \in DOMAIN data.items
        PROVE  /\ data.items[i] \in L
               /\ Cardinality({r \in L : Before(data.key.tab, r, data.items[i])})
                    = (data.key.page - 1) * PageSize + i - 1
    <3>1. /\ data.items[i] \in L
          /\ Place(queue, data.key, data.items[i]) = (data.key.page - 1) * PageSize + i - 1
      BY <2>1, <2>2 DEF ExactPage
    <3>2. {r \in L : Before(data.key.tab, r, data.items[i])}
            = {r \in ListedIn(queue, data.key) : BeforeIn(queue, data.key.tab, r, data.items[i])}
      BY <1>4, <2>2
    <3> QED
      BY <3>1, <3>2 DEF Place
  <2>5. ASSUME ~stats.pending, ~stats.failed, ~setting.key.search, setting.key.priority = "any",
               setting.key.tab # "all"
        PROVE  stats.counts[setting.key.tab] = data.total
    <3>1. setting.key.tab \in QueueTabs \ {"all"}
      BY <1>0, <2>5 DEF QueueTypes, Key
    <3>2. stats.counts[setting.key.tab]
            = Cardinality({r \in QueueIds : queue[r].status \in Status(setting.key.tab)})
      BY <1>0, <1>5, <2>5, <3>1 DEF CountsHold
    <3>3. L = {r \in QueueIds : queue[r].status \in Status(setting.key.tab)}
      BY <2>1, <2>2, <2>5 DEF ListedIn
    <3> QED
      BY <2>3, <3>2, <3>3
  <2> QED
    BY <2>2, <2>3, <2>4, <2>5
<1>6. PagesAreExact
  BY <1>5 DEF PagesAreExact
<1> QED
  BY <1>1, <1>2, <1>6 DEF QueueIsShown

LEMMA QueueStart == QueueInit => QueueInv
<1> SUFFICES ASSUME QueueInit PROVE QueueInv
  OBVIOUS
<1>1. /\ queue = [r \in QueueIds |-> [status |-> Initially[r], resolvedAt |-> 0, high |-> FALSE,
                                     found |-> r \in Found]]
      /\ moves = 0 /\ selects = 0
      /\ setting = [key |-> FirstKey, input |-> FALSE]
      /\ fetches = {Fetch(FirstKey)}
      /\ stats = [counts |-> [t \in QueueTabs \ {"all"} |-> 0], known |-> FALSE, pending |-> TRUE,
                   failed |-> FALSE]
      /\ data = [items |-> <<>>, total |-> 0, key |-> FirstKey]
      /\ fetching = TRUE /\ failed = FALSE /\ moved = FALSE /\ hasty = FALSE
  BY DEF QueueInit
<1>2. FirstKey \in Key /\ FirstKey.page = 1 /\ FirstKey.search = FALSE
  BY KeysAre DEF FirstKey
<1>3. PICK f : f = Fetch(FirstKey)
  OBVIOUS
<1>4. f \in Fetches /\ f.live = TRUE /\ f.key = FirstKey /\ f.total = -1
  <2>1. -1 \in -1..QueueSize
    BY QueueIs
  <2> QED
    BY <1>2, <1>3, <2>1 DEF Fetch, Fetches
<1>5. QueueTypes
  <2>1. 0 \in 0..MaxMoves /\ 0 \in 0..MaxSelects /\ 0 \in 0..QueueSize
    BY QueueIs
  <2>2. queue \in QueueTable
    BY <1>1, <2>1, QueueIs DEF QueueTable
  <2>3. stats \in [counts : [QueueTabs \ {"all"} -> 0..QueueSize], known : BOOLEAN, pending : BOOLEAN,
               failed : BOOLEAN]
    BY <1>1, <2>1
  <2>4. data \in [items : Seq(QueueIds), total : 0..QueueSize, key : Key]
    BY <1>1, <1>2, <2>1
  <2>5. setting \in [key : Key, input : BOOLEAN]
    BY <1>1, <1>2
  <2> QED
    BY <1>1, <1>3, <1>4, <2>1, <2>2, <2>3, <2>4, <2>5 DEF QueueTypes
<1>6. OneFetch
  BY <1>1, <1>3, <1>4 DEF OneFetch
<1>7. CountsHold /\ ShownIsAsked
  BY <1>1, <1>3, <1>4 DEF CountsHold, ShownIsAsked
<1>8. OnAPage
  BY <1>1, <1>2 DEF OnAPage
<1> QED
  BY <1>5, <1>6, <1>7, <1>8 DEF QueueInv

\* Whatever the order of the answers, and however long the queue and large a page,
\* the settled table shows the page it is set to, the right stretch of the list.
THEOREM QueueIsAlwaysShown == QueueSpec => []QueueIsShown
<1>1. QueueSpec => []QueueInv
  BY QueueStart, QueueStep, PTL DEF QueueSpec
<1> QED
  BY <1>1, QueueTells, PTL
=============================================================================
