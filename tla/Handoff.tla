------------------------------- MODULE Handoff -------------------------------
(***************************************************************************)
(* One workspace's members and its escalated conversations, as the API's   *)
(* requests change them: handoff.service.ts (claim, resolve,               *)
(* recordEscalation), workspaces.service.ts (role changes, removal,        *)
(* leaving, ownership transfer) and the join at the end of an invitation.  *)
(*                                                                         *)
(* Every request is a small process.  Its permission is checked when it    *)
(* arrives; its transaction runs later, in steps, under PostgreSQL's READ  *)
(* COMMITTED.  A row lock that a statement takes and a later statement or  *)
(* another transaction depends on is explicit: the workspace row (FOR      *)
(* UPDATE) and the membership rows (FOR SHARE by a claim, exclusively by   *)
(* whatever writes them).  What a transaction writes becomes visible in    *)
(* its last step, the commit.                                              *)
(***************************************************************************)
EXTENDS FiniteSets

CONSTANTS
  Users,      \* people who may be members of the workspace
  Sessions,   \* visitor session ids of its widget
  Requests,   \* request slots: at most |Requests| requests are in flight
  NoUser, NoSession, NoRequest

ASSUME NullsAssumption ==
  NoUser \notin Users /\ NoSession \notin Sessions /\ NoRequest \notin Requests

VARIABLES
  role,         \* memberships: user -> role, "none" when there is no row
  status,       \* conversation_sessions.status, "absent" when there is no row
  claimedBy,    \* conversation_sessions.claimed_by_user_id
  wsLock,       \* the request holding the workspace row FOR UPDATE
  rowLock,      \* user -> the request that has written that membership row
  req,          \* what each slot's request asks for
  pc,           \* how far it has got
  unseen,       \* conversations that changed since the consoles last read the queue
  unread        \* history: those whose last change was a claim or a resolution that
                \* failed to read its row back, and so was never broadcast

db       == <<role, status, claimedBy>>
locks    == <<wsLock, rowLock>>
consoles == <<unseen, unread>>
vars     == <<role, status, claimedBy, wsLock, rowLock, req, pc, unseen, unread>>

Roles       == {"owner", "agent", "viewer"}
HandoffWork == {"owner", "agent"}   \* roles holding handoff.work
Statuses    == {"absent", "escalated", "claimed", "resolved"}
Removals    == {"remove", "leave"}
AdminOps    == Removals \cup {"setRole", "transfer"}
Ops         == AdminOps \cup {"claim", "resolve", "escalate", "join"}
PCs         == {"idle", "admitted", "sharing", "inserting",
                "locked", "halfway", "written", "announcing"}

Request == [op: Ops, actor: Users \cup {NoUser}, target: Users \cup {NoUser},
            session: Sessions \cup {NoSession}, grant: Roles \cup {"none"}]

Idle == [op |-> "escalate", actor |-> NoUser, target |-> NoUser,
         session |-> NoSession, grant |-> "none"]

TypeOK ==
  /\ role \in [Users -> Roles \cup {"none"}]
  /\ status \in [Sessions -> Statuses]
  /\ claimedBy \in [Sessions -> Users \cup {NoUser}]
  /\ wsLock \in Requests \cup {NoRequest}
  /\ rowLock \in [Users -> Requests \cup {NoRequest}]
  /\ req \in [Requests -> Request]
  /\ pc \in [Requests -> PCs]
  /\ unseen \subseteq Sessions /\ unread \subseteq Sessions

Init ==
  /\ role \in {f \in [Users -> Roles \cup {"none"}] : \E u \in Users : f[u] = "owner"}
  /\ status = [s \in Sessions |-> "absent"]
  /\ claimedBy = [s \in Sessions |-> NoUser]
  /\ wsLock = NoRequest
  /\ rowLock = [u \in Users |-> NoRequest]
  /\ req = [r \in Requests |-> Idle]
  /\ pc = [r \in Requests |-> "idle"]
  /\ unseen = {} /\ unread = {}

(***************************************************************************)
(* Helpers.                                                                *)
(***************************************************************************)
IsMember(u) == role[u] # "none"

\* Mutant of Sharers: the claim reads its membership without FOR SHARE.
SharersUnlocked(u) == {}

\* The claims in flight that hold u's membership row FOR SHARE.
Sharers(u) == {r \in Requests : pc[r] = "sharing" /\ req[r].target = u}

\* assertAnotherOwnerRemains, asked about a target that is an owner: at least
\* two owners are counted exactly when someone other than the target is one.
AnotherOwnerRemains(u) == \E v \in Users \ {u} : role[v] = "owner"

\* A request that takes handoff.work away from its target.
LosesWork(q) == q.op \in Removals \/ (q.op = "setRole" /\ q.grant \notin HandoffWork)

\* Mutant of LosesOwner: leaving is not held to the last-owner rule.
LosesOwnerUnlessLeaving(q) == q.op = "remove" \/ (q.op = "setRole" /\ q.grant # "owner")

\* The last-owner rule applies to it.
LosesOwner(q) == q.op \in Removals \/ (q.op = "setRole" /\ q.grant # "owner")

\* Mutant of HeldBy: the release forgets whose conversations they are.
HeldByAnyone(u) == {s \in Sessions : status[s] = "claimed"}

\* The conversations a member holds.
HeldBy(u) == {s \in Sessions : status[s] = "claimed" /\ claimedBy[s] = u}

Goto(r, label) == pc' = [pc EXCEPT ![r] = label]

\* The slot's request is over: answered, refused or failed.
Finish(r) ==
  /\ pc' = [pc EXCEPT ![r] = "idle"]
  /\ req' = [req EXCEPT ![r] = Idle]

\* The queue differs from what the consoles show.
Changed(ss) == unseen' = unseen \cup ss /\ unread' = unread \ ss

\* Every console reads the whole queue again.
ConsolesRead == unseen' = {} /\ unread' = {}

FreeRows(r) == [u \in Users |-> IF rowLock[u] = r THEN NoRequest ELSE rowLock[u]]

(***************************************************************************)
(* Arrival: WorkspaceGuard and PermissionsGuard read the caller's role     *)
(* once, here.  An escalation and a join have no guard: the first comes    *)
(* from a visitor's turn, the second from an invitation link.              *)
(***************************************************************************)
Admit(r, q) ==
  /\ pc[r] = "idle"
  /\ req' = [req EXCEPT ![r] = q]
  /\ Goto(r, "admitted")
  /\ UNCHANGED <<db, locks, consoles>>

ArriveHandoff(r) ==
  \E u \in Users, s \in Sessions, op \in {"claim", "resolve"} :
    /\ role[u] \in HandoffWork
    /\ Admit(r, [op |-> op, actor |-> u, target |-> u, session |-> s, grant |-> "none"])

ArriveSetRole(r) ==
  \E a, u \in Users, g \in Roles :
    /\ role[a] = "owner"
    /\ Admit(r, [op |-> "setRole", actor |-> a, target |-> u, session |-> NoSession, grant |-> g])

ArriveRemoval(r) ==
  \E a, u \in Users :
    /\ IF a = u THEN IsMember(a) ELSE role[a] = "owner"
    /\ Admit(r, [op |-> IF a = u THEN "leave" ELSE "remove", actor |-> a, target |-> u,
                 session |-> NoSession, grant |-> "none"])

ArriveTransfer(r) ==
  \E a, u \in Users :
    /\ a # u
    /\ role[a] = "owner"
    /\ Admit(r, [op |-> "transfer", actor |-> a, target |-> u, session |-> NoSession, grant |-> "owner"])

ArriveEscalation(r) ==
  \E s \in Sessions :
    Admit(r, [op |-> "escalate", actor |-> NoUser, target |-> NoUser, session |-> s, grant |-> "none"])

ArriveJoin(r) ==
  \E u \in Users, g \in Roles :
    Admit(r, [op |-> "join", actor |-> u, target |-> u, session |-> NoSession, grant |-> g])

Arrive(r) ==
  \/ ArriveHandoff(r)
  \/ ArriveSetRole(r)
  \/ ArriveRemoval(r)
  \/ ArriveTransfer(r)
  \/ ArriveEscalation(r)
  \/ ArriveJoin(r)

(***************************************************************************)
(* claim: lock the caller's membership row FOR SHARE, then one conditional *)
(* UPDATE and the commit.  The UPDATE waits for a transaction that has     *)
(* written the session row and then re-reads it, so UPDATE and commit are  *)
(* one step.                                                               *)
(***************************************************************************)
LockMembershipForShare(r) ==
  /\ pc[r] = "admitted" /\ req[r].op = "claim"
  /\ rowLock[req[r].target] = NoRequest
  /\ IF IsMember(req[r].target) THEN Goto(r, "sharing") /\ UNCHANGED req ELSE Finish(r)
  /\ UNCHANGED <<db, locks, consoles>>

\* Mutant: the claim also writes the workspace row, after the membership lock.
ClaimTouchingWorkspace(r) ==
  LET s == req[r].session IN
  /\ pc[r] = "sharing" /\ wsLock = NoRequest
  /\ status' = IF status[s] = "escalated" THEN [status EXCEPT ![s] = "claimed"] ELSE status
  /\ claimedBy' = IF status[s] = "escalated" THEN [claimedBy EXCEPT ![s] = req[r].target] ELSE claimedBy
  /\ Finish(r)
  /\ UNCHANGED <<role, locks, consoles>>

Claim(r) ==
  LET s == req[r].session IN
  /\ pc[r] = "sharing"
  /\ \/ /\ status[s] = "escalated"
        /\ status' = [status EXCEPT ![s] = "claimed"]
        /\ claimedBy' = [claimedBy EXCEPT ![s] = req[r].target]
        /\ Changed({s})
        /\ Goto(r, "announcing")
        /\ UNCHANGED req
     \/ /\ status[s] # "escalated"
        /\ Finish(r)
        /\ UNCHANGED <<status, claimedBy, consoles>>
  /\ UNCHANGED <<role, locks>>

\* Mutant of Resolve: no session-resolved broadcast.
ResolveSilently(r) ==
  LET s == req[r].session IN
  /\ pc[r] = "admitted" /\ req[r].op = "resolve"
  /\ status' = IF status[s] = "claimed" THEN [status EXCEPT ![s] = "resolved"] ELSE status
  /\ Changed(IF status[s] = "claimed" THEN {s} ELSE {})
  /\ Finish(r)
  /\ UNCHANGED <<role, claimedBy, locks>>

\* Any holder of handoff.work may resolve, not only the claimant.
Resolve(r) ==
  LET s == req[r].session IN
  /\ pc[r] = "admitted" /\ req[r].op = "resolve"
  /\ \/ /\ status[s] = "claimed"
        /\ status' = [status EXCEPT ![s] = "resolved"]
        /\ Changed({s})
        /\ Goto(r, "announcing")
        /\ UNCHANGED req
     \/ /\ status[s] # "claimed"
        /\ Finish(r)
        /\ UNCHANGED <<status, consoles>>
  /\ UNCHANGED <<role, claimedBy, locks>>

(***************************************************************************)
(* recordEscalation: read the row, insert it when there was none.  Two     *)
(* turns can both read "absent"; the second INSERT then breaks             *)
(* UNIQUE(workspace_id, session_id) and the request fails.  The INSERT's   *)
(* foreign key takes the workspace row FOR KEY SHARE, which waits for FOR  *)
(* UPDATE.  No row is ever created "open", so the branch for it is dead.   *)
(***************************************************************************)
\* Mutant: only an existing row is considered, none is inserted.
FindSessionOnly(r) ==
  /\ pc[r] = "admitted" /\ req[r].op = "escalate"
  /\ Finish(r)
  /\ UNCHANGED <<db, locks, consoles>>

FindSession(r) ==
  /\ pc[r] = "admitted" /\ req[r].op = "escalate"
  /\ IF status[req[r].session] = "absent" THEN Goto(r, "inserting") /\ UNCHANGED req ELSE Finish(r)
  /\ UNCHANGED <<db, locks, consoles>>

InsertSession(r) ==
  LET s == req[r].session IN
  /\ pc[r] = "inserting"
  /\ wsLock = NoRequest
  /\ \/ /\ status[s] = "absent"
        /\ status' = [status EXCEPT ![s] = "escalated"]
        /\ Changed({s})
        /\ Goto(r, "announcing")
        /\ UNCHANGED req
     \/ /\ status[s] # "absent"
        /\ Finish(r)
        /\ UNCHANGED <<status, consoles>>
  /\ UNCHANGED <<role, claimedBy, locks>>

\* joinWorkspace: INSERT ... ON CONFLICT DO NOTHING keeps an existing role.
JoinWorkspace(r) ==
  LET u == req[r].target IN
  /\ pc[r] = "admitted" /\ req[r].op = "join"
  /\ IsMember(u) \/ wsLock = NoRequest
  /\ role' = IF IsMember(u) THEN role ELSE [role EXCEPT ![u] = req[r].grant]
  /\ Finish(r)
  /\ UNCHANGED <<status, claimedBy, locks, consoles>>

(***************************************************************************)
(* The four operations that change memberships take the workspace row      *)
(* first.  A refused one rolls back and gives its locks up.                *)
(***************************************************************************)
\* Mutant: the workspace row is read without FOR UPDATE.
ReadWorkspace(r) ==
  /\ pc[r] = "admitted" /\ req[r].op \in AdminOps
  /\ wsLock' = r
  /\ Goto(r, "locked")
  /\ UNCHANGED <<db, rowLock, req, consoles>>

LockWorkspace(r) ==
  /\ pc[r] = "admitted" /\ req[r].op \in AdminOps
  /\ wsLock = NoRequest
  /\ wsLock' = r
  /\ Goto(r, "locked")
  /\ UNCHANGED <<db, rowLock, req, consoles>>

Rollback(r) ==
  /\ wsLock' = NoRequest
  /\ rowLock' = FreeRows(r)
  /\ Finish(r)

\* Writing a membership row waits for its writer and for the claims that hold
\* it FOR SHARE.
\* Saving an entity that did not change issues no UPDATE and takes no lock.
WriteRow(r, u, changes) ==
  IF changes
  THEN /\ rowLock[u] \in {NoRequest, r} /\ Sharers(u) = {}
       /\ rowLock' = [rowLock EXCEPT ![u] = r]
  ELSE UNCHANGED rowLock

\* updateMemberRole and endMembership: the checks and the write of the row.
ChangeMember(r) ==
  LET q == req[r]
      u == q.target
      refused == \/ ~IsMember(u)
                 \/ role[u] = "owner" /\ LosesOwner(q) /\ ~AnotherOwnerRemains(u)
  IN
  /\ pc[r] = "locked" /\ q.op # "transfer"
  /\ \/ refused /\ Rollback(r)
     \/ /\ ~refused
        /\ WriteRow(r, u, q.op \in Removals \/ role[u] # q.grant)
        /\ Goto(r, "written")
        /\ UNCHANGED <<wsLock, req>>
  /\ UNCHANGED <<db, consoles>>

\* transferOwnership writes the target's row, then checks and writes the actor's.
PromoteTarget(r) ==
  LET u == req[r].target IN
  /\ pc[r] = "locked" /\ req[r].op = "transfer"
  /\ \/ ~IsMember(u) /\ Rollback(r)
     \/ /\ IsMember(u)
        /\ WriteRow(r, u, role[u] # "owner")
        /\ Goto(r, "halfway")
        /\ UNCHANGED <<wsLock, req>>
  /\ UNCHANGED <<db, consoles>>

StepActorDown(r) ==
  LET a == req[r].actor IN
  /\ pc[r] = "halfway"
  /\ \/ role[a] # "owner" /\ Rollback(r)
     \/ /\ role[a] = "owner"
        /\ WriteRow(r, a, TRUE)
        /\ Goto(r, "written")
        /\ UNCHANGED <<wsLock, req>>
  /\ UNCHANGED <<db, consoles>>

RolesAfter(q) ==
  CASE q.op = "setRole"   -> [role EXCEPT ![q.target] = q.grant]
    [] q.op = "transfer"  -> [role EXCEPT ![q.target] = "owner", ![q.actor] = "agent"]
    [] OTHER              -> [role EXCEPT ![q.target] = "none"]

\* releaseClaimedSessions, the last statement of the transaction.
Released(q) == IF LosesWork(q) THEN HeldBy(q.target) ELSE {}

CommitMembers(r) ==
  LET q == req[r]
      released == Released(q)
  IN
  /\ pc[r] = "written"
  /\ role' = RolesAfter(q)
  /\ status' = [s \in Sessions |-> IF s \in released THEN "escalated" ELSE status[s]]
  /\ claimedBy' = [s \in Sessions |-> IF s \in released THEN NoUser ELSE claimedBy[s]]
  /\ wsLock' = NoRequest
  /\ rowLock' = FreeRows(r)
  /\ Changed(released)
  /\ IF released = {} THEN Finish(r) ELSE Goto(r, "announcing") /\ UNCHANGED req

(***************************************************************************)
(* The broadcast after the commit.  Whatever its event, an agent's console *)
(* answers it by reading the whole queue again.                            *)
(***************************************************************************)
Broadcast(r) ==
  /\ pc[r] = "announcing"
  /\ ConsolesRead
  /\ Finish(r)
  /\ UNCHANGED <<db, locks>>

\* claim and resolve read the row they have just committed before they tell
\* anyone; when that read throws, the change stays and nobody is told.
ReadBackFails(r) ==
  /\ pc[r] = "announcing" /\ req[r].op \in {"claim", "resolve"}
  /\ unread' = unread \cup (unseen \cap {req[r].session})
  /\ Finish(r)
  /\ UNCHANGED <<db, locks, unseen>>

\* The API process dies: open transactions roll back, nothing after a commit
\* happens, and every console reads the queue again once it is reconnected.
Restart ==
  /\ \E r \in Requests : pc[r] # "idle"
  /\ pc' = [r \in Requests |-> "idle"]
  /\ req' = [r \in Requests |-> Idle]
  /\ wsLock' = NoRequest
  /\ rowLock' = [u \in Users |-> NoRequest]
  /\ ConsolesRead
  /\ UNCHANGED db

Advance(r) ==
  \/ LockMembershipForShare(r)
  \/ Claim(r)
  \/ Resolve(r)
  \/ FindSession(r)
  \/ InsertSession(r)
  \/ JoinWorkspace(r)
  \/ LockWorkspace(r)
  \/ ChangeMember(r)
  \/ PromoteTarget(r)
  \/ StepActorDown(r)
  \/ CommitMembers(r)
  \/ Broadcast(r)

Work == \E r \in Requests : Arrive(r) \/ Advance(r) \/ ReadBackFails(r)
Next == Work \/ Restart

Spec == Init /\ [][Next]_vars

\* Between crashes: the server and the database finish what they started, and
\* a statement waiting for the workspace row gets it in the end, because the
\* database queues the waiters of a row it must lock exclusively.
FairSpec ==
  /\ Init /\ [][Work]_vars
  /\ \A r \in Requests : WF_vars(Advance(r)) /\ SF_vars(InsertSession(r))

\* The implementation relation to the contract: its variables are the tables.
Contract == INSTANCE HandoffContract

(***************************************************************************)
(* Properties.                                                             *)
(***************************************************************************)

\* A workspace always has an owner, whatever two owners do to each other at
\* the same moment (the write skew lockWorkspace is there for).
OwnerRemains == \E u \in Users : role[u] = "owner"

\* Nobody outside the workspace holds one of its conversations: a claim and a
\* removal that overlap end with the claim refused or the conversation released.
ClaimantIsMember ==
  \A s \in Sessions : status[s] = "claimed" => claimedBy[s] \in Users /\ role[claimedBy[s]] # "none"

\* A conversation the consoles show in an old state has a broadcast ahead of it,
\* unless the claim or the resolution that changed it last failed to read its row
\* back.  So nobody who waits for an agent stays hidden: a conversation that comes
\* or returns to the queue is announced whatever fails, short of the process.
StaleConsoleWillHear ==
  \A s \in unseen :
    \/ \E r \in Requests : pc[r] = "announcing"
    \/ s \in unread /\ status[s] # "escalated"

\* Every request acts as one indivisible step of the contract, although its
\* permission check, its locks, its writes and its broadcast are spread out.
ImplementsContract == Contract!CSpec

\* What the locks mean, which is why the above hold: the workspace row belongs
\* to the one request past LockWorkspace, a written membership row to a
\* transaction that will commit and to no claim; a membership a claim has
\* locked exists; and what an operation checked is still true when it commits.
WellFormed(q) ==
  /\ q.op \in {"claim", "resolve", "escalate"} => q.session \in Sessions
  /\ q.op # "escalate" => q.target \in Users
  /\ q.op = "transfer" => q.actor \in Users /\ q.actor # q.target
  /\ q.op \in {"setRole", "join"} => q.grant \in Roles

ReadyToCommit(r) ==
  LET q == req[r] IN
  /\ q.op \in AdminOps
  /\ IsMember(q.target)
  /\ q.op = "transfer" => role[q.actor] = "owner"
  /\ role[q.target] = "owner" /\ LosesOwner(q) => AnotherOwnerRemains(q.target)
  /\ q.op \in Removals => rowLock[q.target] = r

RequestOK(r) ==
  /\ pc[r] # "idle" => WellFormed(req[r])
  /\ wsLock = r <=> pc[r] \in {"locked", "halfway", "written"}
  /\ pc[r] = "sharing" => req[r].op = "claim" /\ IsMember(req[r].target)
  /\ pc[r] = "inserting" => req[r].op = "escalate"
  /\ pc[r] = "locked" => req[r].op \in AdminOps
  /\ pc[r] = "halfway" => req[r].op = "transfer" /\ IsMember(req[r].target)
  /\ pc[r] = "written" => ReadyToCommit(r)

RowOK(u) ==
  rowLock[u] # NoRequest => /\ pc[rowLock[u]] \in {"halfway", "written"}
                            /\ Sharers(u) = {}

LockDiscipline ==
  /\ \A r \in Requests : RequestOK(r)
  /\ \A u \in Users : RowOK(u)

\* A claimed conversation leaves its claimant in two ways only: it is resolved,
\* keeping the claimant as history, or it goes back to the queue in the very
\* step that takes handoff.work from that claimant.
ClaimEndsProperly ==
  [][\A s \in Sessions : status[s] = "claimed" =>
       \/ status'[s] \in {"claimed", "resolved"} /\ claimedBy'[s] = claimedBy[s]
       \/ status'[s] = "escalated" /\ claimedBy'[s] = NoUser
          /\ role'[claimedBy[s]] \notin HandoffWork]_vars

\* A resolved conversation is never handed to the queue or to an agent again.
ResolvedIsFinal ==
  [][\A s \in Sessions : status[s] = "resolved" =>
       status'[s] = "resolved" /\ claimedBy'[s] = claimedBy[s]]_vars

\* "Their claimed conversations then belong to nobody who can answer them, so
\* they go back in the queue" (workspaces.service.ts:93-94): whoever holds a
\* conversation can answer it.
ClaimantCanAnswer ==
  \A s \in Sessions : status[s] = "claimed" => role[claimedBy[s]] \in HandoffWork

\* No set of requests waits on itself: when every slot is taken, by requests that
\* hold workspace and membership locks in whatever pattern, one of them ends.
RequestsDrain ==
  (\A r \in Requests : pc[r] # "idle") ~> (\E r \in Requests : pc[r] = "idle")

\* A turn that escalates reaches people: its conversation waits in the queue as
\* every console shows it, or an agent has it, even when two turns of the same
\* visitor escalate at once and the second INSERT fails.  Only a conversation that
\* is already resolved stays where it is, which recordEscalation means to do.
EscalationReachesQueue ==
  \A s \in Sessions :
    (/\ status[s] # "resolved"
     /\ \E r \in Requests : pc[r] # "idle" /\ req[r].op = "escalate" /\ req[r].session = s)
      ~> (status[s] = "claimed" \/ (status[s] = "escalated" /\ s \notin unseen))
==============================================================================
