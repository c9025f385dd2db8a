----------------------------- MODULE WidgetChat ------------------------------
(***************************************************************************)
(* The chat gateway of one workspace (widget-chat.gateway.ts): agents'     *)
(* sockets, who is shown as online (agent-presence.service.ts), who sits   *)
(* in which room, how access taken away reaches open sockets               *)
(* (RealtimeBroadcaster.revokeRoom), and who answers a visitor's turn.     *)
(*                                                                         *)
(* The tables are those of HandoffContract, whose operations are           *)
(* indivisible here: module Handoff implements them.  A socket handler is  *)
(* not indivisible: it reads a row, is suspended, and goes on with what it *)
(* read while sockets close and the tables change.                         *)
(*                                                                         *)
(* Bound: a user's access is not reduced again before the revocation that  *)
(* follows the previous reduction.                                         *)
(***************************************************************************)
EXTENDS Naturals, FiniteSets

CONSTANTS
  Users, Sessions, NoUser,
  NoSession,
  Sockets,    \* agent connections; a slot is used again when nothing is left of it
  Turns       \* visitors' messages being handled

ASSUME ChatAssumption ==
  NoUser \notin Users /\ NoSession \notin Sessions /\ IsFiniteSet(Sockets)

VARIABLES
  role, status, claimedBy,   \* the tables
  reducing,     \* users whose access is reduced and not yet revoked
  user,         \* the user a socket's token belongs to
  wire,         \* the transport: "up" or "down"
  greeting,     \* how far handleConnection has got
  connections,  \* the gateway's map: sockets that have an entry
  presence,     \* AgentPresenceService: user -> number of live sockets
  ghosts,       \* history: sockets that were registered after their disconnect
  listening,    \* sockets in the agents' room and their user's own room
  talking,      \* socket -> conversation rooms it has joined
  errands,      \* join-conversation and agent-message events past their check
  overtaken,    \* history: sockets authorised before a revocation that missed them
  turn,         \* visitor turn -> where it was routed
  turnSession   \* visitor turn -> its conversation

tables  == <<role, status, claimedBy>>
sockets == <<user, wire, greeting, connections, presence, ghosts, listening, talking, overtaken>>
turns   == <<turn, turnSession>>
vars    == <<tables, reducing, sockets, errands, turns>>

DB == INSTANCE HandoffContract

Work    == {"owner", "agent"}   \* roles holding handoff.work
Errands == [kind: {"join", "say"}, socket: Sockets, session: Sessions]

TypeOK ==
  /\ role \in [Users -> {"owner", "agent", "viewer", "none"}]
  /\ status \in [Sessions -> {"absent", "escalated", "claimed", "resolved"}]
  /\ claimedBy \in [Sessions -> Users \cup {NoUser}]
  /\ reducing \subseteq Users
  /\ user \in [Sockets -> Users \cup {NoUser}]
  /\ wire \in [Sockets -> {"up", "down"}]
  /\ greeting \in [Sockets -> {"none", "verifying", "authorised"}]
  /\ connections \subseteq Sockets
  /\ presence \in [Users -> Nat]
  /\ ghosts \subseteq Sockets
  /\ listening \subseteq Sockets
  /\ talking \in [Sockets -> SUBSET Sessions]
  /\ errands \subseteq Errands
  /\ overtaken \subseteq Sockets
  /\ turn \in [Turns -> {"idle", "relaying", "answering"}]
  /\ turnSession \in [Turns -> Sessions \cup {NoSession}]

Init ==
  /\ DB!CInit
  /\ reducing = {}
  /\ user = [k \in Sockets |-> NoUser]
  /\ wire = [k \in Sockets |-> "down"]
  /\ greeting = [k \in Sockets |-> "none"]
  /\ connections = {}
  /\ presence = [u \in Users |-> 0]
  /\ ghosts = {}
  /\ listening = {}
  /\ talking = [k \in Sockets |-> {}]
  /\ errands = {}
  /\ overtaken = {}
  /\ turn = [t \in Turns |-> "idle"]
  /\ turnSession = [t \in Turns |-> NoSession]

(***************************************************************************)
(* The REST side: the tables change, and access that was reduced is        *)
(* revoked after the commit.                                               *)
(***************************************************************************)
ChangeTables ==
  /\ \/ \E s \in Sessions : DB!ResolveSession(s)
     \/ \E u \in Users, s \in Sessions : DB!ClaimSession(u, s)
     \/ \E u \in Users, g \in Work \cup {"viewer"} : DB!JoinAs(u, g)
     \/ \E u \in Users, g \in Work : DB!SetRole(u, g)
     \/ \E a, u \in Users : DB!TransferOwnership(a, u)
  /\ UNCHANGED <<reducing, sockets, errands, turns>>

\* Mutant of ReduceAccess: a demotion does not revoke what is already open.
ReduceAccessQuietly(u) ==
  /\ u \notin reducing
  /\ DB!EndMembership(u) \/ DB!SetRole(u, "viewer")
  /\ reducing' = IF role'[u] = "none" THEN reducing \cup {u} ELSE reducing
  /\ UNCHANGED <<sockets, errands, turns>>

\* A demotion to viewer, a removal or a leave.
ReduceAccess(u) ==
  /\ u \notin reducing
  /\ DB!EndMembership(u) \/ DB!SetRole(u, "viewer")
  /\ reducing' = reducing \cup {u}
  /\ UNCHANGED <<sockets, errands, turns>>

\* Mutant of Close: one closed tab takes the user offline.
CloseOffline(ks) ==
  /\ wire' = [k \in Sockets |-> IF k \in ks THEN "down" ELSE wire[k]]
  /\ presence' = [u \in Users |-> IF \E k \in ks \cap connections : user[k] = u THEN 0 ELSE presence[u]]
  /\ connections' = connections \ ks
  /\ listening' = listening \ ks
  /\ talking' = [k \in Sockets |-> IF k \in ks THEN {} ELSE talking[k]]

\* handleDisconnect for each socket of a set: its entry, its user's presence and
\* its rooms.  A socket without an entry has nothing to remove.
Close(ks) ==
  /\ wire' = [k \in Sockets |-> IF k \in ks THEN "down" ELSE wire[k]]
  /\ presence' = [u \in Users |->
       presence[u] - Cardinality({k \in ks \cap connections : user[k] = u})]
  /\ connections' = connections \ ks
  /\ listening' = listening \ ks
  /\ talking' = [k \in Sockets |-> IF k \in ks THEN {} ELSE talking[k]]

\* revokeRoom on the user's own room: only sockets that have joined it hear it.
Revoke(u) ==
  LET theirs == {k \in Sockets : user[k] = u} IN
  /\ u \in reducing
  /\ reducing' = reducing \ {u}
  /\ Close(theirs \cap listening)
  /\ overtaken' = (overtaken \ (theirs \cap listening))
                    \cup {k \in theirs : greeting[k] = "authorised"}
  /\ UNCHANGED <<tables, user, greeting, ghosts, errands, turns>>

(***************************************************************************)
(* An agent's socket: the transport is up before handleConnection has      *)
(* verified the token and read the membership, and may be down again       *)
(* before it registers the socket.                                         *)
(***************************************************************************)
Unused(k) ==
  /\ wire[k] = "down" /\ greeting[k] = "none" /\ k \notin connections
  /\ \A e \in errands : e.socket # k

Connect(k) ==
  /\ Unused(k)
  /\ \E u \in Users : user' = [user EXCEPT ![k] = u]
  /\ wire' = [wire EXCEPT ![k] = "up"]
  /\ greeting' = [greeting EXCEPT ![k] = "verifying"]
  /\ overtaken' = overtaken \ {k}
  /\ UNCHANGED <<tables, reducing, connections, presence, ghosts, listening, talking, errands, turns>>

\* Mutant of Authorise: any member may connect.
AuthoriseMember(k) ==
  /\ greeting[k] = "verifying"
  /\ role[user[k]] # "none"
  /\ greeting' = [greeting EXCEPT ![k] = "authorised"]
  /\ UNCHANGED <<tables, reducing, user, wire, connections, presence, ghosts, listening, talking, overtaken,
                 errands, turns>>

\* The membership row is read: handoff.work, or the socket is disconnected.
Authorise(k) ==
  /\ greeting[k] = "verifying"
  /\ IF role[user[k]] \in Work
     THEN greeting' = [greeting EXCEPT ![k] = "authorised"] /\ UNCHANGED wire
     ELSE greeting' = [greeting EXCEPT ![k] = "none"] /\ wire' = [wire EXCEPT ![k] = "down"]
  /\ UNCHANGED <<tables, reducing, user, connections, presence, ghosts, listening, talking, overtaken,
                 errands, turns>>

\* connections.set, presence.add and join run together, on whatever is left of
\* the socket: joining is a no-op on one that has closed, whose disconnect is over
\* and will not take its entry away.
Register(k) ==
  /\ greeting[k] = "authorised"
  /\ greeting' = [greeting EXCEPT ![k] = "none"]
  /\ connections' = connections \cup {k}
  /\ presence' = [presence EXCEPT ![user[k]] = @ + 1]
  /\ listening' = IF wire[k] = "up" THEN listening \cup {k} ELSE listening
  /\ ghosts' = IF wire[k] = "up" THEN ghosts ELSE ghosts \cup {k}
  /\ UNCHANGED <<tables, reducing, user, wire, talking, overtaken, errands, turns>>

\* The tab is closed or the network drops.
Disconnect(k) ==
  /\ wire[k] = "up"
  /\ Close({k})
  /\ UNCHANGED <<tables, reducing, user, greeting, ghosts, overtaken, errands, turns>>

\* The check both handlers make: the conversation's claimant is this user,
\* whether the conversation is still claimed or already resolved.
CheckClaim(k, kind, s) ==
  /\ wire[k] = "up" /\ k \in connections
  /\ claimedBy[s] = user[k]
  /\ errands' = errands \cup {[kind |-> kind, socket |-> k, session |-> s]}
  /\ UNCHANGED <<tables, reducing, sockets, turns>>

Join(e) ==
  /\ e \in errands /\ e.kind = "join"
  /\ talking' = IF wire[e.socket] = "up" THEN [talking EXCEPT ![e.socket] = @ \cup {e.session}] ELSE talking
  /\ errands' = errands \ {e}
  /\ UNCHANGED <<tables, reducing, user, wire, greeting, connections, presence, ghosts, listening, overtaken, turns>>

\* The agent's message goes to the room, although its socket may have closed.
Say(e) ==
  /\ e \in errands /\ e.kind = "say"
  /\ errands' = errands \ {e}
  /\ UNCHANGED <<tables, reducing, sockets, turns>>

(***************************************************************************)
(* A visitor's turn is routed by the status read when it arrives.          *)
(***************************************************************************)
Route(t, s) ==
  /\ turn[t] = "idle"
  /\ turn' = [turn EXCEPT ![t] = IF status[s] = "claimed" THEN "relaying" ELSE "answering"]
  /\ turnSession' = [turnSession EXCEPT ![t] = s]
  /\ UNCHANGED <<tables, reducing, sockets, errands>>

FinishTurn(t) ==
  /\ turn' = [turn EXCEPT ![t] = "idle"]
  /\ turnSession' = [turnSession EXCEPT ![t] = NoSession]
  /\ UNCHANGED <<tables, reducing, sockets, errands>>

\* 'customer-message' goes to whoever sits in the room; it is stored nowhere.
Relay(t) == turn[t] = "relaying" /\ FinishTurn(t)

\* The AI turn may put the conversation in the queue before it is answered.
Escalate(t) ==
  /\ turn[t] = "answering"
  /\ DB!EscalateSession(turnSession[t])
  /\ UNCHANGED <<reducing, sockets, errands, turns>>

\* 'answer' goes to the room (or 'exception' to the visitor).
Reply(t) == turn[t] = "answering" /\ FinishTurn(t)

Restart ==
  /\ user' = [k \in Sockets |-> NoUser]
  /\ wire' = [k \in Sockets |-> "down"]
  /\ greeting' = [k \in Sockets |-> "none"]
  /\ connections' = {}
  /\ presence' = [u \in Users |-> 0]
  /\ ghosts' = {}
  /\ listening' = {}
  /\ talking' = [k \in Sockets |-> {}]
  /\ errands' = {}
  /\ overtaken' = {}
  /\ reducing' = {}
  /\ turn' = [t \in Turns |-> "idle"]
  /\ turnSession' = [t \in Turns |-> NoSession]
  /\ UNCHANGED tables

SocketStep(k) ==
  \/ Connect(k)
  \/ Authorise(k)
  \/ Register(k)
  \/ Disconnect(k)
  \/ \E kind \in {"join", "say"}, s \in Sessions : CheckClaim(k, kind, s)

Next ==
  \/ ChangeTables
  \/ \E u \in Users : ReduceAccess(u) \/ Revoke(u)
  \/ \E k \in Sockets : SocketStep(k)
  \/ \E e \in errands : Join(e) \/ Say(e)
  \/ \E t \in Turns, s \in Sessions : Route(t, s)
  \/ \E t \in Turns : Relay(t) \/ Escalate(t) \/ Reply(t)
  \/ Restart

Spec == Init /\ [][Next]_vars

(***************************************************************************)
(* Properties.                                                             *)
(***************************************************************************)

\* The user has lost the right to work and the revocation is on its way.
BeingRevoked(k) == user[k] \in reducing

\* Past its handshake and still open.
Live(k) == wire[k] = "up" /\ greeting[k] = "none"

\* Presence is the live sockets of a user, whatever order sockets open, close and
\* are revoked in -- and the ghosts, those that had closed before they were
\* registered, and no others: each of them shows its user as online for good.
PresenceCounts ==
  \A u \in Users : presence[u] = Cardinality({k \in Sockets : user[k] = u /\ (Live(k) \/ k \in ghosts)})

\* A visitor's conversation is heard by its claimant only: a socket in its room
\* belongs to the claimant or to someone whose revocation is on its way.
RoomIsPrivate ==
  \A k \in Sockets : \A s \in talking[k] : claimedBy[s] = user[k] \/ BeingRevoked(k)

\* What a handler has checked about a claim is still true when it acts, unless
\* its user is being revoked or its socket is already closed.
ChecksStayTrue ==
  \A e \in errands :
    \/ claimedBy[e.session] = user[e.socket]
    \/ BeingRevoked(e.socket)
    \/ wire[e.socket] = "down"

\* Only a socket that was overtaken by a revocation in the middle of its
\* handshake can listen to the queue without the right to work on it.
ListenersMayWork ==
  \A k \in listening : role[user[k]] \in Work \/ BeingRevoked(k) \/ k \in overtaken

\* How sockets, entries and rooms go together, which the above rest on.
SocketsOK ==
  /\ listening = {k \in connections : wire[k] = "up"}
  /\ ghosts = connections \ listening
  /\ \A k \in Sockets :
       /\ talking[k] # {} => k \in listening
       /\ greeting[k] # "none" => k \notin connections
       /\ k \in connections \/ greeting[k] # "none" \/ wire[k] = "up" => user[k] \in Users
       /\ wire[k] = "up" => k \in connections \/ greeting[k] # "none"
       /\ greeting[k] = "authorised" => role[user[k]] \in Work \/ BeingRevoked(k) \/ k \in overtaken
  /\ \A e \in errands : user[e.socket] \in Users /\ greeting[e.socket] = "none"

\* A conversation is private to its claimant: whoever is in its room, or has passed a
\* check of its claim, still holds it, across every order in which sockets open,
\* close, claim and are revoked.
ConversationsArePrivate == TypeOK /\ SocketsOK /\ RoomIsPrivate /\ ChecksStayTrue
==============================================================================
