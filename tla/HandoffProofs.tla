---------------------------- MODULE HandoffProofs ----------------------------
(***************************************************************************)
(* Proofs about Handoff for any number of users, sessions and concurrent   *)
(* requests.  The argument is one inductive invariant, IInv: the tables'   *)
(* own guarantees (OwnerRemains, ClaimantIsMember) hold because of what    *)
(* the locks guarantee to requests still in flight (LockDiscipline).       *)
(* And about the ConversationDrawer, for any number of conversations, of    *)
(* turns and any size of page: a page is a stretch of the conversation up   *)
(* to the cursor it was asked from (PageFits), and stays one while the      *)
(* conversation grows.                                                      *)
(***************************************************************************)
EXTENDS Handoff, ConversationDrawer, SequenceTheorems, FiniteSetTheorems, TLAPS

IInv == TypeOK /\ LockDiscipline /\ OwnerRemains /\ ClaimantIsMember

\* An invariant holds in the idle state every slot starts in.
LEMMA InitIInv == Init => IInv
<1> SUFFICES ASSUME Init PROVE IInv
  OBVIOUS
<1>1. TypeOK
  BY DEF Init, TypeOK, Roles, Statuses, PCs, Request, Idle, Ops
<1>2. LockDiscipline
  BY NullsAssumption DEF Init, LockDiscipline, RequestOK, RowOK
<1>3. OwnerRemains /\ ClaimantIsMember
  BY DEF Init, OwnerRemains, ClaimantIsMember
<1> QED
  BY <1>1, <1>2, <1>3 DEF IInv

\* Giving up locks leaves the lock variables typed.
LEMMA FreeRowsType ==
  ASSUME TypeOK, NEW r \in Requests
  PROVE  FreeRows(r) \in [Users -> Requests \cup {NoRequest}]
BY DEF TypeOK, FreeRows

LEMMA RollbackType ==
  ASSUME TypeOK, NEW r \in Requests, Rollback(r)
  PROVE  /\ wsLock' \in Requests \cup {NoRequest}
         /\ rowLock' \in [Users -> Requests \cup {NoRequest}]
         /\ req' \in [Requests -> Request]
         /\ pc' \in [Requests -> PCs]
BY FreeRowsType DEF TypeOK, Rollback, Finish, Idle, Request, Ops, PCs

\* Types: every action keeps every variable in its set.
LEMMA TypeStep == TypeOK /\ LockDiscipline /\ [Next]_vars => TypeOK'
<1> SUFFICES ASSUME TypeOK, LockDiscipline, [Next]_vars PROVE TypeOK'
  OBVIOUS
<1>0. ASSUME NEW r \in Requests, Claim(r) \/ Resolve(r) \/ InsertSession(r)
      PROVE  req[r].session \in Sessions
  BY <1>0 DEF LockDiscipline, RequestOK, WellFormed, Claim, Resolve, InsertSession
<1> USE DEF TypeOK, Changed, ConsolesRead, consoles, db, locks, Goto, Finish, Idle, PCs, Request, Ops, AdminOps, Removals, Roles, Statuses
<1>1. ASSUME NEW r \in Requests, Arrive(r) PROVE TypeOK'
  <2>1. CASE ArriveHandoff(r)
    BY <2>1 DEF ArriveHandoff, Admit
  <2>2. CASE ArriveSetRole(r)
    BY <2>2 DEF ArriveSetRole, Admit
  <2>3. CASE ArriveRemoval(r)
    BY <2>3 DEF ArriveRemoval, Admit
  <2>4. CASE ArriveTransfer(r)
    BY <2>4 DEF ArriveTransfer, Admit
  <2>5. CASE ArriveEscalation(r)
    BY <2>5 DEF ArriveEscalation, Admit
  <2>6. CASE ArriveJoin(r)
    BY <2>6 DEF ArriveJoin, Admit
  <2> QED
    BY <1>1, <2>1, <2>2, <2>3, <2>4, <2>5, <2>6 DEF Arrive
<1>2. ASSUME NEW r \in Requests, LockMembershipForShare(r) PROVE TypeOK'
  BY <1>2, SMTT(30) DEF LockMembershipForShare
<1>3. ASSUME NEW r \in Requests, Claim(r) PROVE TypeOK'
  BY <1>0, <1>3, SMTT(60) DEF Claim
<1>4. ASSUME NEW r \in Requests, Resolve(r) PROVE TypeOK'
  BY <1>0, <1>4, SMTT(30) DEF Resolve
<1>5. ASSUME NEW r \in Requests, FindSession(r) PROVE TypeOK'
  BY <1>5 DEF FindSession
<1>6. ASSUME NEW r \in Requests, InsertSession(r) PROVE TypeOK'
  BY SMTT(30), <1>0, <1>6 DEF InsertSession
<1>7. ASSUME NEW r \in Requests, JoinWorkspace(r) PROVE TypeOK'
  BY <1>7 DEF JoinWorkspace
<1>8. ASSUME NEW r \in Requests, LockWorkspace(r) PROVE TypeOK'
  BY <1>8 DEF LockWorkspace
<1>9. ASSUME NEW r \in Requests, ChangeMember(r) PROVE TypeOK'
  <2>1. CASE Rollback(r)
    BY <1>9, <2>1, RollbackType DEF ChangeMember
  <2>2. CASE ~Rollback(r)
    BY <1>9, <2>2, SMTT(30) DEF ChangeMember, WriteRow
  <2> QED
    BY <2>1, <2>2
<1>10. ASSUME NEW r \in Requests, PromoteTarget(r) PROVE TypeOK'
  <2>1. CASE Rollback(r)
    BY <1>10, <2>1, RollbackType DEF PromoteTarget
  <2>2. CASE ~Rollback(r)
    BY <1>10, <2>2, SMTT(30) DEF PromoteTarget, WriteRow
  <2> QED
    BY <2>1, <2>2
<1>11. ASSUME NEW r \in Requests, StepActorDown(r) PROVE TypeOK'
  <2>1. CASE Rollback(r)
    BY <1>11, <2>1, RollbackType DEF StepActorDown
  <2>2. CASE ~Rollback(r)
    BY <1>11, <2>2 DEF StepActorDown, WriteRow
  <2> QED
    BY <2>1, <2>2
<1>12. ASSUME NEW r \in Requests, CommitMembers(r) PROVE TypeOK'
  <2> DEFINE released == Released(req[r])
  <2>1. role' \in [Users -> Roles \cup {"none"}]
    BY <1>12 DEF CommitMembers, RolesAfter
  <2>2. status' \in [Sessions -> Statuses] /\ claimedBy' \in [Sessions -> Users \cup {NoUser}]
    <3> HIDE DEF released
    <3>1. /\ status' = [s \in Sessions |-> IF s \in released THEN "escalated" ELSE status[s]]
          /\ claimedBy' = [s \in Sessions |-> IF s \in released THEN NoUser ELSE claimedBy[s]]
      BY <1>12 DEF CommitMembers, released
    <3> QED
      BY <3>1
  <2>3. wsLock' \in Requests \cup {NoRequest} /\ rowLock' \in [Users -> Requests \cup {NoRequest}]
    BY <1>12, FreeRowsType DEF CommitMembers
  <2>4. pc' \in [Requests -> PCs] /\ req' \in [Requests -> Request]
    <3>1. CASE Released(req[r]) = {}
      BY <1>12, <3>1, SMTT(30) DEF CommitMembers
    <3>2. CASE Released(req[r]) # {}
      BY <1>12, <3>2, SMTT(30) DEF CommitMembers
    <3> QED
      BY <3>1, <3>2
  <2>5. unseen' \subseteq Sessions /\ unread' \subseteq Sessions
    BY <1>12 DEF CommitMembers, Released, HeldBy
  <2> QED
    BY <2>1, <2>2, <2>3, <2>4, <2>5
<1>13. ASSUME NEW r \in Requests, Broadcast(r) \/ ReadBackFails(r) PROVE TypeOK'
  <2>1. role' = role /\ status' = status /\ claimedBy' = claimedBy
    BY <1>13 DEF Broadcast, ReadBackFails
  <2>2. wsLock' = wsLock /\ rowLock' = rowLock /\ unseen' \subseteq unseen /\ unread' \subseteq Sessions
    BY <1>13 DEF Broadcast, ReadBackFails
  <2>3. pc' \in [Requests -> PCs] /\ req' \in [Requests -> Request]
    BY <1>13, SMTT(30) DEF Broadcast, ReadBackFails
  <2> QED
    BY <2>1, <2>2, <2>3
<1>14. CASE Restart
  BY <1>14 DEF Restart
<1>15. CASE UNCHANGED vars
  BY <1>15 DEF vars
<1> QED
  BY <1>1, <1>2, <1>3, <1>4, <1>5, <1>6, <1>7, <1>8, <1>9, <1>10, <1>11, <1>12,
     <1>13, <1>14, <1>15 DEF Next, Work, Advance

(***************************************************************************)
(* The lock discipline.  A step moves one request; what it leaves to the   *)
(* others is the same for most actions.                                    *)
(***************************************************************************)
Quiet == {"idle", "admitted", "inserting", "announcing"}

\* A step that touches neither the roles nor the locks and takes its request
\* from a state without locks to another one.
LEMMA QuietStep ==
  ASSUME TypeOK, LockDiscipline, NEW r \in Requests, NEW q, NEW label \in Quiet,
         pc[r] \in Quiet \cup {"sharing"},
         label # "idle" => WellFormed(q),
         label = "inserting" => q.op = "escalate",
         pc' = [pc EXCEPT ![r] = label], req' = [req EXCEPT ![r] = q],
         UNCHANGED <<role, wsLock, rowLock>>
  PROVE  LockDiscipline'
<1> USE DEF Quiet
<1>1. ASSUME NEW p \in Requests PROVE RequestOK(p)'
  <2>1. CASE p = r
    BY <2>1 DEF TypeOK, LockDiscipline, RequestOK, WellFormed
  <2>2. CASE p # r
    <3>1. pc'[p] = pc[p] /\ req'[p] = req[p]
      BY <2>2 DEF TypeOK
    <3> QED
      BY <3>1, <1>1 DEF LockDiscipline, RequestOK, WellFormed, IsMember, ReadyToCommit, AnotherOwnerRemains
  <2> QED
    BY <2>1, <2>2
<1>2. ASSUME NEW u \in Users PROVE RowOK(u)'
  <2>1. Sharers(u)' \subseteq Sharers(u)
    BY DEF TypeOK, Sharers
  <2> QED
    BY <2>1 DEF TypeOK, LockDiscipline, RowOK
<1> QED
  BY <1>1, <1>2 DEF LockDiscipline

\* A refused member operation gives its locks up.
LEMMA RollbackStep ==
  ASSUME TypeOK, LockDiscipline, NEW r \in Requests, pc[r] \in {"locked", "halfway"},
         Rollback(r), UNCHANGED role
  PROVE  LockDiscipline'
<1>1. wsLock = r /\ wsLock' = NoRequest
  BY DEF LockDiscipline, RequestOK, Rollback
<1>2. ASSUME NEW p \in Requests PROVE RequestOK(p)'
  <2>1. CASE p = r
    BY <1>1, <2>1, NullsAssumption DEF TypeOK, RequestOK, Rollback, Finish
  <2>2. CASE p # r
    <3>1. pc'[p] = pc[p] /\ req'[p] = req[p] /\ pc[p] \notin {"locked", "halfway", "written"}
      BY <1>1, <2>2 DEF TypeOK, LockDiscipline, RequestOK, Rollback, Finish
    <3> QED
      BY <1>1, <1>2, <2>2, <3>1, NullsAssumption
      DEF LockDiscipline, RequestOK, WellFormed, IsMember
  <2> QED
    BY <2>1, <2>2
<1>3. ASSUME NEW u \in Users PROVE RowOK(u)'
  <2>1. rowLock[u] \in {r, NoRequest}
    BY <1>1 DEF TypeOK, LockDiscipline, RequestOK, RowOK
  <2>2. rowLock'[u] = NoRequest
    BY <2>1 DEF Rollback, FreeRows
  <2> QED
    BY <2>2 DEF RowOK
<1> QED
  BY <1>2, <1>3 DEF LockDiscipline

\* A member operation writes a membership row and moves on with its locks.
LEMMA WriteStep ==
  ASSUME TypeOK, LockDiscipline, NEW r \in Requests, pc[r] \in {"locked", "halfway"},
         NEW u \in Users, NEW changes \in BOOLEAN, WriteRow(r, u, changes),
         NEW label \in {"halfway", "written"}, Goto(r, label),
         label = "halfway" => req[r].op = "transfer" /\ IsMember(req[r].target),
         label = "written" => ReadyToCommit(r)',
         UNCHANGED <<role, wsLock, req>>
  PROVE  LockDiscipline'
<1>1. wsLock = r
  BY DEF LockDiscipline, RequestOK
<1>2. ASSUME NEW p \in Requests PROVE RequestOK(p)'
  <2>1. CASE p = r
    BY <1>1, <2>1 DEF TypeOK, LockDiscipline, RequestOK, Goto, WellFormed, IsMember
  <2>2. CASE p # r
    <3>1. pc'[p] = pc[p] /\ pc[p] \notin {"locked", "halfway", "written"}
      BY <1>1, <2>2 DEF TypeOK, LockDiscipline, RequestOK, Goto
    <3> QED
      BY <1>1, <1>2, <2>2, <3>1 DEF LockDiscipline, RequestOK, WellFormed, IsMember
  <2> QED
    BY <2>1, <2>2
<1>3. ASSUME NEW v \in Users PROVE RowOK(v)'
  <2>1. Sharers(v)' \subseteq Sharers(v)
    BY DEF TypeOK, Sharers, Goto
  <2>2. CASE rowLock'[v] = rowLock[v]
    <3>1. rowLock[v] \in {r, NoRequest}
      BY <1>1 DEF TypeOK, LockDiscipline, RequestOK, RowOK
    <3> QED
      BY <2>1, <2>2, <3>1 DEF TypeOK, LockDiscipline, RowOK, Goto
  <2>3. CASE rowLock'[v] # rowLock[v]
    BY <2>1, <2>3 DEF TypeOK, RowOK, WriteRow, Goto
  <2> QED
    BY <2>2, <2>3
<1> QED
  BY <1>2, <1>3 DEF LockDiscipline

\* A member operation commits: the only roles that change are its own two
\* users', and a removed member has no claim in flight.
LEMMA CommitStep ==
  ASSUME TypeOK, LockDiscipline, NEW r \in Requests, CommitMembers(r)
  PROVE  LockDiscipline'
<1>1. wsLock = r /\ wsLock' = NoRequest /\ pc[r] = "written" /\ ReadyToCommit(r) /\ WellFormed(req[r])
  BY DEF LockDiscipline, RequestOK, CommitMembers
<1>2. pc'[r] \in {"idle", "announcing"} /\ (pc'[r] # "idle" => req'[r] = req[r])
  BY DEF TypeOK, CommitMembers, Finish, Goto
<1>3. ASSUME NEW p \in Requests, p # r
      PROVE  pc'[p] = pc[p] /\ req'[p] = req[p] /\ pc[p] \notin {"locked", "halfway", "written"}
  <2>1. pc'[p] = pc[p] /\ req'[p] = req[p]
    BY <1>3 DEF TypeOK, CommitMembers, Finish, Goto
  <2> QED
    BY <1>1, <1>3, <2>1 DEF LockDiscipline, RequestOK
<1>4. ASSUME NEW p \in Requests, pc[p] = "sharing" PROVE IsMember(req[p].target)'
  <2> DEFINE v == req[p].target
  <2>1. p # r /\ v \in Users /\ role[v] # "none" /\ p \in Sharers(v) /\ req'[p] = req[p]
    BY <1>1, <1>3, <1>4 DEF LockDiscipline, RequestOK, WellFormed, IsMember, Sharers
  <2>2. rowLock[v] # r
    BY <1>1, <2>1, NullsAssumption DEF LockDiscipline, RowOK
  <2>3. CASE req[r].op \in Removals
    <3>1. v # req[r].target
      BY <1>1, <2>2, <2>3 DEF ReadyToCommit
    <3> QED
      BY <2>1, <2>3, <3>1 DEF TypeOK, CommitMembers, RolesAfter, IsMember, Removals
  <2>4. CASE req[r].op = "setRole"
    BY <1>1, <2>1, <2>4 DEF TypeOK, CommitMembers, RolesAfter, IsMember, WellFormed, Roles
  <2>5. CASE req[r].op = "transfer"
    BY <1>1, <2>1, <2>5 DEF TypeOK, CommitMembers, RolesAfter, IsMember, WellFormed
  <2> QED
    BY <1>1, <2>3, <2>4, <2>5 DEF ReadyToCommit, AdminOps
<1>5. ASSUME NEW p \in Requests PROVE RequestOK(p)'
  <2>1. CASE p = r
    BY <1>1, <1>2, <2>1, NullsAssumption DEF RequestOK, WellFormed
  <2>2. CASE p # r
    BY <1>1, <1>3, <1>4, <2>2, NullsAssumption DEF LockDiscipline, RequestOK, WellFormed
  <2> QED
    BY <2>1, <2>2
<1>6. ASSUME NEW u \in Users PROVE RowOK(u)'
  <2>1. rowLock[u] \in {r, NoRequest}
    BY <1>1 DEF TypeOK, LockDiscipline, RequestOK, RowOK
  <2>2. rowLock'[u] = NoRequest
    BY <2>1 DEF CommitMembers, FreeRows
  <2> QED
    BY <2>2 DEF RowOK
<1> QED
  BY <1>5, <1>6 DEF LockDiscipline

LEMMA ArriveDiscipline ==
  ASSUME TypeOK, LockDiscipline, NEW r \in Requests, Arrive(r) PROVE LockDiscipline'
<1>1. ASSUME NEW q, Admit(r, q), WellFormed(q) PROVE LockDiscipline'
  BY <1>1, QuietStep DEF Admit, Goto, locks, db, Quiet
<1> USE DEF WellFormed, Roles
<1>2. CASE ArriveHandoff(r)
  BY <1>1, <1>2 DEF ArriveHandoff
<1>3. CASE ArriveSetRole(r)
  BY <1>1, <1>3 DEF ArriveSetRole
<1>4. CASE ArriveRemoval(r)
  BY <1>1, <1>4 DEF ArriveRemoval
<1>5. CASE ArriveTransfer(r)
  BY <1>1, <1>5 DEF ArriveTransfer
<1>6. CASE ArriveEscalation(r)
  BY <1>1, <1>6 DEF ArriveEscalation
<1>7. CASE ArriveJoin(r)
  BY <1>1, <1>7 DEF ArriveJoin
<1> QED
  BY <1>2, <1>3, <1>4, <1>5, <1>6, <1>7 DEF Arrive

LEMMA ShareDiscipline ==
  ASSUME TypeOK, LockDiscipline, NEW r \in Requests, LockMembershipForShare(r)
  PROVE  LockDiscipline'
<1> DEFINE u == req[r].target
<1>1. pc[r] = "admitted" /\ req[r].op = "claim" /\ WellFormed(req[r]) /\ rowLock[u] = NoRequest
  BY DEF LockDiscipline, RequestOK, LockMembershipForShare
<1>2. CASE ~IsMember(u)
  BY <1>1, <1>2, QuietStep DEF LockMembershipForShare, Finish, Quiet, locks, db
<1>3. CASE IsMember(u)
  <2>1. pc' = [pc EXCEPT ![r] = "sharing"] /\ UNCHANGED <<req, role, wsLock, rowLock>>
    BY <1>3 DEF LockMembershipForShare, Goto, locks, db
  <2>2. ASSUME NEW p \in Requests PROVE RequestOK(p)'
    <3>1. CASE p = r
      BY <1>1, <1>3, <2>1, <3>1 DEF TypeOK, LockDiscipline, RequestOK, WellFormed, IsMember
    <3>2. CASE p # r
      <4>1. pc'[p] = pc[p]
        BY <2>1, <3>2 DEF TypeOK
      <4> QED
        BY <2>1, <2>2, <4>1
        DEF LockDiscipline, RequestOK, WellFormed, IsMember, ReadyToCommit, AnotherOwnerRemains
    <3> QED
      BY <3>1, <3>2
  <2>3. ASSUME NEW v \in Users PROVE RowOK(v)'
    BY <1>1, <2>1 DEF TypeOK, LockDiscipline, RowOK, Sharers
  <2> QED
    BY <2>2, <2>3 DEF LockDiscipline
<1> QED
  BY <1>2, <1>3

LEMMA LockWorkspaceDiscipline ==
  ASSUME TypeOK, LockDiscipline, NEW r \in Requests, LockWorkspace(r) PROVE LockDiscipline'
<1>1. /\ pc[r] = "admitted" /\ req[r].op \in AdminOps /\ wsLock = NoRequest /\ wsLock' = r
      /\ pc' = [pc EXCEPT ![r] = "locked"] /\ UNCHANGED <<req, role, rowLock>>
  BY DEF LockWorkspace, Goto, db
<1>2. ASSUME NEW p \in Requests PROVE RequestOK(p)'
  <2>1. pc[p] \notin {"locked", "halfway", "written"}
    BY <1>1, NullsAssumption DEF LockDiscipline, RequestOK
  <2>2. CASE p = r
    BY <1>1, <2>2 DEF TypeOK, LockDiscipline, RequestOK, WellFormed
  <2>3. CASE p # r
    BY <1>1, <2>1, <2>3 DEF TypeOK, LockDiscipline, RequestOK, WellFormed, IsMember
  <2> QED
    BY <2>2, <2>3
<1>3. ASSUME NEW v \in Users PROVE RowOK(v)'
  <2>1. rowLock[v] = NoRequest
    BY <1>1, NullsAssumption DEF TypeOK, LockDiscipline, RequestOK, RowOK
  <2> QED
    BY <1>1, <2>1 DEF RowOK
<1> QED
  BY <1>2, <1>3 DEF LockDiscipline

\* A join only turns "none" into a role, which invalidates nobody's check.
LEMMA JoinDiscipline ==
  ASSUME TypeOK, LockDiscipline, NEW r \in Requests, JoinWorkspace(r) PROVE LockDiscipline'
<1>1. /\ pc[r] = "admitted" /\ pc' = [pc EXCEPT ![r] = "idle"] /\ req' = [req EXCEPT ![r] = Idle]
      /\ UNCHANGED <<wsLock, rowLock>>
  BY DEF JoinWorkspace, Finish, locks
<1>2. ASSUME NEW u \in Users, IsMember(u) PROVE role'[u] = role[u]
  BY <1>2 DEF TypeOK, JoinWorkspace, IsMember
<1>3. ASSUME NEW p \in Requests PROVE RequestOK(p)'
  <2>1. CASE p = r
    BY <1>1, <2>1 DEF TypeOK, LockDiscipline, RequestOK
  <2>2. CASE p # r
    <3>1. pc'[p] = pc[p] /\ req'[p] = req[p] /\ RequestOK(p)
      BY <1>1, <2>2 DEF TypeOK, LockDiscipline
    <3>2. pc[p] = "written" => ReadyToCommit(p)'
      BY <1>1, <1>2, <3>1
      DEF RequestOK, ReadyToCommit, IsMember, AnotherOwnerRemains, WellFormed, AdminOps, Removals
    <3>3. pc[p] \in {"sharing", "halfway"} => IsMember(req[p].target)'
      BY <1>2, <3>1 DEF RequestOK, WellFormed, IsMember
    <3> QED
      BY <1>1, <3>1, <3>2, <3>3 DEF RequestOK, WellFormed
  <2> QED
    BY <2>1, <2>2
<1>4. ASSUME NEW v \in Users PROVE RowOK(v)'
  BY <1>1 DEF TypeOK, LockDiscipline, RowOK, Sharers
<1> QED
  BY <1>3, <1>4 DEF LockDiscipline

LEMMA MemberWriteDiscipline ==
  ASSUME TypeOK, LockDiscipline, NEW r \in Requests,
         ChangeMember(r) \/ PromoteTarget(r) \/ StepActorDown(r)
  PROVE  LockDiscipline'
<1> DEFINE q == req[r]
<1>1. WellFormed(q) /\ q.op \in AdminOps /\ pc[r] \in {"locked", "halfway"} /\ q.target \in Users /\ UNCHANGED role
  BY DEF LockDiscipline, RequestOK, ChangeMember, PromoteTarget, StepActorDown, db,
         WellFormed, AdminOps, Removals
<1>2. CASE Rollback(r)
  BY <1>1, <1>2, RollbackStep
<1>3. CASE ChangeMember(r) /\ ~Rollback(r)
  <2>1. /\ WriteRow(r, q.target, q.op \in Removals \/ role[q.target] # q.grant)
        /\ Goto(r, "written") /\ UNCHANGED <<role, wsLock, req>>
        /\ q.op # "transfer" /\ IsMember(q.target)
        /\ role[q.target] = "owner" /\ LosesOwner(q) => AnotherOwnerRemains(q.target)
    BY <1>3 DEF ChangeMember, db
  <2>2. ReadyToCommit(r)'
    BY <1>1, <2>1 DEF TypeOK, ReadyToCommit, WriteRow, IsMember, LosesOwner, AnotherOwnerRemains
  <2> QED
    BY <1>1, <2>1, <2>2, WriteStep
<1>4. CASE PromoteTarget(r) /\ ~Rollback(r)
  <2>1. /\ WriteRow(r, q.target, role[q.target] # "owner") /\ Goto(r, "halfway")
        /\ UNCHANGED <<role, wsLock, req>> /\ q.op = "transfer" /\ IsMember(q.target)
    BY <1>4 DEF PromoteTarget, db
  <2> QED
    BY <1>1, <2>1, WriteStep
<1>5. CASE StepActorDown(r) /\ ~Rollback(r)
  <2>1. /\ WriteRow(r, q.actor, TRUE) /\ Goto(r, "written")
        /\ UNCHANGED <<role, wsLock, req>> /\ role[q.actor] = "owner" /\ pc[r] = "halfway"
    BY <1>5 DEF StepActorDown, db
  <2>2. q.op = "transfer" /\ q.actor \in Users /\ IsMember(q.target)
    BY <1>1, <2>1 DEF LockDiscipline, RequestOK, WellFormed
  <2>3. ReadyToCommit(r)'
    BY <1>1, <2>1, <2>2
    DEF TypeOK, ReadyToCommit, IsMember, LosesOwner, Removals, AdminOps
  <2> QED
    BY <1>1, <2>1, <2>2, <2>3, WriteStep
<1> QED
  BY <1>2, <1>3, <1>4, <1>5

LEMMA DisciplineStep == TypeOK /\ LockDiscipline /\ [Next]_vars => LockDiscipline'
<1> SUFFICES ASSUME TypeOK, LockDiscipline, [Next]_vars PROVE LockDiscipline'
  OBVIOUS
<1>1. ASSUME NEW r \in Requests, Claim(r) PROVE LockDiscipline'
  <2>1. pc[r] = "sharing" /\ WellFormed(req[r]) /\ UNCHANGED <<role, wsLock, rowLock>>
    BY <1>1 DEF LockDiscipline, RequestOK, Claim, locks
  <2>2. \/ Goto(r, "announcing") /\ req' = [req EXCEPT ![r] = req[r]]
        \/ Finish(r)
    BY <1>1 DEF Claim, TypeOK
  <2> QED
    BY <2>1, <2>2, QuietStep DEF Goto, Finish, Quiet
<1>2. ASSUME NEW r \in Requests, Resolve(r) \/ InsertSession(r) \/ FindSession(r) PROVE LockDiscipline'
  <2>1. pc[r] \in {"admitted", "inserting"} /\ WellFormed(req[r]) /\ UNCHANGED <<role, wsLock, rowLock>>
    BY <1>2 DEF LockDiscipline, RequestOK, Resolve, InsertSession, FindSession, locks, db
  <2>2. \/ Goto(r, "announcing") /\ req' = [req EXCEPT ![r] = req[r]]
        \/ req[r].op = "escalate" /\ Goto(r, "inserting") /\ req' = [req EXCEPT ![r] = req[r]]
        \/ Finish(r)
    BY <1>2 DEF Resolve, InsertSession, FindSession, TypeOK
  <2> QED
    BY <2>1, <2>2, QuietStep DEF Goto, Finish, Quiet
<1>3. ASSUME NEW r \in Requests, Broadcast(r) \/ ReadBackFails(r) PROVE LockDiscipline'
  BY <1>3, QuietStep DEF Broadcast, ReadBackFails, Finish, Quiet, locks, db
<1>4. CASE Restart
  BY <1>4, NullsAssumption DEF Restart, TypeOK, LockDiscipline, RequestOK, RowOK
<1>5. CASE UNCHANGED vars
  BY <1>5 DEF vars, LockDiscipline, RequestOK, RowOK, WellFormed, ReadyToCommit, IsMember,
              AnotherOwnerRemains, Sharers
<1> QED
  BY <1>1, <1>2, <1>3, <1>4, <1>5, ArriveDiscipline, ShareDiscipline, LockWorkspaceDiscipline,
     JoinDiscipline, MemberWriteDiscipline, CommitStep
  DEF Next, Work, Advance

(***************************************************************************)
(* The tables.  A request changes them in one of its steps only, and that  *)
(* step is one of the contract's.                                          *)
(***************************************************************************)
TableStep == [Contract!CNext]_(Contract!cvars)

LEMMA CommitIsContractStep ==
  ASSUME TypeOK, LockDiscipline, NEW r \in Requests, CommitMembers(r)
  PROVE  Contract!CNext
<1> DEFINE q == req[r]
           u == q.target
<1>1. ReadyToCommit(r) /\ WellFormed(q) /\ u \in Users
  BY DEF LockDiscipline, RequestOK, CommitMembers, ReadyToCommit, WellFormed, AdminOps, Removals
<1>2. Contract!Member(u)
  BY <1>1 DEF ReadyToCommit, IsMember, Contract!Member
<1>3. /\ role' = RolesAfter(q)
      /\ status' = [s \in Sessions |-> IF s \in Released(q) THEN "escalated" ELSE status[s]]
      /\ claimedBy' = [s \in Sessions |-> IF s \in Released(q) THEN NoUser ELSE claimedBy[s]]
  BY DEF CommitMembers
<1>4. LosesOwner(q) => Contract!MayStepDown(u)
  BY <1>1 DEF ReadyToCommit, AnotherOwnerRemains, Contract!MayStepDown
<1>5. LosesWork(q) => Contract!Release(u)
  BY <1>3 DEF Contract!Release, Released, HeldBy
<1>6. ~LosesWork(q) => UNCHANGED <<status, claimedBy>>
  BY <1>3 DEF TypeOK, Released
<1>7. CASE q.op \in Removals
  <2>1. role' = [role EXCEPT ![u] = "none"]
    BY <1>3, <1>7 DEF RolesAfter, Removals
  <2>2. Contract!EndMembership(u)
    BY <1>2, <1>4, <1>5, <1>7, <2>1 DEF Contract!EndMembership, LosesOwner, LosesWork
  <2> QED
    BY <1>1, <2>2 DEF Contract!CNext
<1>8. CASE q.op = "setRole"
  <2>1. role' = [role EXCEPT ![u] = q.grant] /\ q.grant \in {"owner", "agent", "viewer"}
    BY <1>1, <1>3, <1>8 DEF RolesAfter, WellFormed, Roles
  <2>2. Contract!SetRole(u, q.grant)
    BY <1>2, <1>4, <1>5, <1>6, <1>8, <2>1
    DEF Contract!SetRole, LosesOwner, LosesWork, HandoffWork, Removals
  <2> QED
    BY <1>1, <2>1, <2>2 DEF Contract!CNext
<1>9. CASE q.op = "transfer"
  <2>1. role' = [role EXCEPT ![u] = "owner", ![q.actor] = "agent"]
    BY <1>3, <1>9 DEF RolesAfter
  <2>2. q.actor \in Users /\ Contract!TransferOwnership(q.actor, u)
    BY <1>1, <1>2, <1>6, <1>9, <2>1
    DEF Contract!TransferOwnership, LosesWork, Removals, WellFormed, ReadyToCommit
  <2> QED
    BY <1>1, <2>2 DEF Contract!CNext
<1> QED
  BY <1>1, <1>7, <1>8, <1>9 DEF ReadyToCommit, AdminOps

LEMMA ContractStep == TypeOK /\ LockDiscipline /\ [Next]_vars => TableStep
<1> SUFFICES ASSUME TypeOK, LockDiscipline, [Next]_vars PROVE TableStep
  OBVIOUS
<1> USE DEF TableStep, Contract!CNext, Contract!cvars
<1>1. ASSUME NEW r \in Requests, Arrive(r) PROVE TableStep
  BY <1>1 DEF Arrive, ArriveHandoff, ArriveSetRole, ArriveRemoval, ArriveTransfer,
              ArriveEscalation, ArriveJoin, Admit, db
<1>2. ASSUME NEW r \in Requests, Claim(r) PROVE TableStep
  <2>1. req[r].target \in Users /\ req[r].session \in Sessions /\ IsMember(req[r].target)
    BY <1>2 DEF LockDiscipline, RequestOK, WellFormed, Claim
  <2>2. CASE status[req[r].session] = "escalated"
    <3>1. Contract!ClaimSession(req[r].target, req[r].session)
      BY <1>2, <2>1, <2>2 DEF Claim, Contract!ClaimSession, Contract!Member, IsMember
    <3> QED
      BY <2>1, <3>1
  <2>3. CASE status[req[r].session] # "escalated"
    BY <1>2, <2>3 DEF Claim
  <2> QED
    BY <2>2, <2>3
<1>3. ASSUME NEW r \in Requests, Resolve(r) PROVE TableStep
  <2>1. req[r].session \in Sessions
    BY <1>3 DEF LockDiscipline, RequestOK, WellFormed, Resolve
  <2>2. Contract!ResolveSession(req[r].session) \/ UNCHANGED <<role, status, claimedBy>>
    BY <1>3 DEF Resolve, Contract!ResolveSession
  <2> QED
    BY <2>1, <2>2
<1>4. ASSUME NEW r \in Requests, InsertSession(r) PROVE TableStep
  <2>1. req[r].session \in Sessions
    BY <1>4 DEF LockDiscipline, RequestOK, WellFormed, InsertSession
  <2>2. Contract!EscalateSession(req[r].session) \/ UNCHANGED <<role, status, claimedBy>>
    BY <1>4 DEF InsertSession, Contract!EscalateSession
  <2> QED
    BY <2>1, <2>2
<1>5. ASSUME NEW r \in Requests, JoinWorkspace(r) PROVE TableStep
  <2>1. req[r].target \in Users /\ req[r].grant \in {"owner", "agent", "viewer"}
    BY <1>5 DEF LockDiscipline, RequestOK, WellFormed, JoinWorkspace, Roles
  <2>2. Contract!JoinAs(req[r].target, req[r].grant) \/ UNCHANGED <<role, status, claimedBy>>
    BY <1>5 DEF JoinWorkspace, Contract!JoinAs, Contract!Member, IsMember
  <2> QED
    BY <2>1, <2>2
<1>6. ASSUME NEW r \in Requests, CommitMembers(r) PROVE TableStep
  BY <1>6, CommitIsContractStep
<1>7. ASSUME NEW r \in Requests,
             \/ LockMembershipForShare(r) \/ FindSession(r) \/ LockWorkspace(r) \/ ChangeMember(r)
             \/ PromoteTarget(r) \/ StepActorDown(r) \/ Broadcast(r)
             \/ ReadBackFails(r)
      PROVE  TableStep
  BY <1>7 DEF LockMembershipForShare, FindSession, LockWorkspace, ChangeMember, PromoteTarget,
              StepActorDown, Broadcast, ReadBackFails, db
<1>8. CASE Restart
  BY <1>8 DEF Restart, db
<1>9. CASE UNCHANGED vars
  BY <1>9 DEF vars
<1> QED
  BY <1>1, <1>2, <1>3, <1>4, <1>5, <1>6, <1>7, <1>8, <1>9 DEF Next, Work, Advance

\* What no step of the contract can break.
LEMMA TablesStayOwned == TypeOK /\ OwnerRemains /\ TableStep => OwnerRemains'
<1> SUFFICES ASSUME TypeOK, OwnerRemains, TableStep PROVE OwnerRemains'
  OBVIOUS
<1> PICK o \in Users : role[o] = "owner"
  BY DEF OwnerRemains
<1> USE DEF OwnerRemains, TypeOK
<1>1. ASSUME NEW u \in Users, NEW g \in Roles, Contract!SetRole(u, g) PROVE OwnerRemains'
  BY <1>1 DEF Contract!SetRole, Contract!MayStepDown
<1>2. ASSUME NEW u \in Users, Contract!EndMembership(u) PROVE OwnerRemains'
  BY <1>2 DEF Contract!EndMembership, Contract!MayStepDown
<1>3. ASSUME NEW a \in Users, NEW u \in Users, Contract!TransferOwnership(a, u) PROVE OwnerRemains'
  BY <1>3 DEF Contract!TransferOwnership
<1>4. ASSUME NEW u \in Users, NEW g, Contract!JoinAs(u, g) PROVE OwnerRemains'
  BY <1>4 DEF Contract!JoinAs, Contract!Member
<1> QED
  BY <1>1, <1>2, <1>3, <1>4
  DEF TableStep, Contract!CNext, Contract!cvars, Contract!EscalateSession,
      Contract!ResolveSession, Contract!ClaimSession, Roles

LEMMA ClaimantsStayMembers == TypeOK /\ ClaimantIsMember /\ TableStep => ClaimantIsMember'
<1> SUFFICES ASSUME TypeOK, ClaimantIsMember, TableStep, NEW s \in Sessions, status'[s] = "claimed"
             PROVE  claimedBy'[s] \in Users /\ role'[claimedBy'[s]] # "none"
  BY DEF ClaimantIsMember
<1> USE DEF ClaimantIsMember, TypeOK, Roles
<1>1. ASSUME NEW u \in Users, NEW g \in Roles, Contract!SetRole(u, g)
      PROVE  claimedBy'[s] \in Users /\ role'[claimedBy'[s]] # "none"
  BY <1>1 DEF Contract!SetRole, Contract!Release
<1>2. ASSUME NEW u \in Users, Contract!EndMembership(u)
      PROVE  claimedBy'[s] \in Users /\ role'[claimedBy'[s]] # "none"
  BY <1>2 DEF Contract!EndMembership, Contract!Release
<1>3. ASSUME NEW a \in Users, NEW u \in Users, Contract!TransferOwnership(a, u)
      PROVE  claimedBy'[s] \in Users /\ role'[claimedBy'[s]] # "none"
  BY <1>3 DEF Contract!TransferOwnership
<1>4. ASSUME NEW u \in Users, NEW g \in Roles, Contract!JoinAs(u, g)
      PROVE  claimedBy'[s] \in Users /\ role'[claimedBy'[s]] # "none"
  BY <1>4 DEF Contract!JoinAs
<1>5. ASSUME NEW u \in Users, NEW t \in Sessions, Contract!ClaimSession(u, t)
      PROVE  claimedBy'[s] \in Users /\ role'[claimedBy'[s]] # "none"
  BY <1>5 DEF Contract!ClaimSession, Contract!Member
<1>6. ASSUME NEW t \in Sessions, Contract!EscalateSession(t) \/ Contract!ResolveSession(t)
      PROVE  claimedBy'[s] \in Users /\ role'[claimedBy'[s]] # "none"
  BY <1>6 DEF Contract!EscalateSession, Contract!ResolveSession
<1> QED
  BY <1>1, <1>2, <1>3, <1>4, <1>5, <1>6 DEF TableStep, Contract!CNext, Contract!cvars

(***************************************************************************)
(* Theorems.                                                               *)
(***************************************************************************)

\* IInv is inductive, so it holds in every reachable state.
THEOREM Invariance == Spec => []IInv
<1>1. IInv /\ [Next]_vars => IInv'
  BY TypeStep, DisciplineStep, ContractStep, TablesStayOwned, ClaimantsStayMembers DEF IInv
<1> QED
  BY <1>1, InitIInv, PTL DEF Spec

\* Type correctness of the API's requests and tables.
THEOREM TypeCorrect == Spec => []TypeOK
<1>1. IInv => TypeOK
  BY DEF IInv
<1> QED
  BY <1>1, Invariance, PTL

\* However many owners demote, remove or hand over to each other at once, the
\* workspace keeps an owner.
THEOREM AlwaysOwned == Spec => []OwnerRemains
<1>1. IInv => OwnerRemains
  BY DEF IInv
<1> QED
  BY <1>1, Invariance, PTL

\* However claims and removals overlap, no conversation is held from outside.
THEOREM ClaimsHeldByMembers == Spec => []ClaimantIsMember
<1>1. IInv => ClaimantIsMember
  BY DEF IInv
<1> QED
  BY <1>1, Invariance, PTL

\* The request handlers, with their stale permission checks, row locks and
\* crashes, implement the contract in which each operation is one step.
THEOREM ImplementationOfContract == Spec => ImplementsContract
<1>1. Init => Contract!CInit
  BY DEF Init, Contract!CInit, Roles
<1>2. IInv /\ [Next]_vars => [Contract!CNext]_(Contract!cvars)
  BY ContractStep DEF IInv, TableStep
<1> QED
  BY <1>1, <1>2, Invariance, PTL DEF Spec, ImplementsContract, Contract!CSpec

\* A claimed conversation is taken from its claimant only by a resolution or by
\* the step that takes handoff.work from the claimant.
THEOREM ClaimsEndProperly == Spec => ClaimEndsProperly
<1> DEFINE Ends(s) ==
      \/ status'[s] \in {"claimed", "resolved"} /\ claimedBy'[s] = claimedBy[s]
      \/ status'[s] = "escalated" /\ claimedBy'[s] = NoUser /\ role'[claimedBy[s]] \notin HandoffWork
<1>1. ASSUME TypeOK, ClaimantIsMember, TableStep, NEW s \in Sessions, status[s] = "claimed"
      PROVE  Ends(s)
  <2> USE <1>1 DEF TypeOK, HandoffWork
  <2>1. ASSUME NEW u \in Users, Contract!Release(u), role'[u] \notin HandoffWork PROVE Ends(s)
    BY <2>1 DEF Contract!Release
  <2>2. CASE UNCHANGED <<status, claimedBy>>
    BY <2>2
  <2>3. ASSUME NEW u \in Users, NEW g \in Roles, Contract!SetRole(u, g) PROVE Ends(s)
    <3>1. CASE g = "viewer"
      BY <2>1, <2>3, <3>1 DEF Contract!SetRole
    <3> QED
      BY <2>2, <2>3, <3>1 DEF Contract!SetRole
  <2>4. ASSUME NEW u \in Users, Contract!EndMembership(u) PROVE Ends(s)
    BY <2>1, <2>4 DEF Contract!EndMembership
  <2>5. ASSUME NEW t \in Sessions, Contract!EscalateSession(t) \/ Contract!ResolveSession(t) PROVE Ends(s)
    BY <2>5 DEF Contract!EscalateSession, Contract!ResolveSession
  <2>6. ASSUME NEW u \in Users, NEW t \in Sessions, Contract!ClaimSession(u, t) PROVE Ends(s)
    BY <2>6 DEF Contract!ClaimSession
  <2> QED
    BY <2>2, <2>3, <2>4, <2>5, <2>6
    DEF TableStep, Contract!CNext, Contract!cvars, Contract!JoinAs, Contract!TransferOwnership, Roles
<1>2. IInv /\ [Next]_vars => [\A s \in Sessions : status[s] = "claimed" => Ends(s)]_vars
  BY <1>1, ContractStep DEF IInv
<1> QED
  BY <1>2, Invariance, PTL DEF Spec, ClaimEndsProperly

\* Resolved is final, for every number of requests.
THEOREM ResolutionIsFinal == Spec => ResolvedIsFinal
<1>1. ASSUME TypeOK, TableStep, NEW s \in Sessions, status[s] = "resolved"
      PROVE  status'[s] = "resolved" /\ claimedBy'[s] = claimedBy[s]
  BY <1>1 DEF TypeOK, TableStep, Contract!CNext, Contract!cvars, Contract!EscalateSession,
              Contract!ResolveSession, Contract!ClaimSession, Contract!JoinAs, Contract!SetRole,
              Contract!EndMembership, Contract!TransferOwnership, Contract!Release
<1>2. IInv /\ [Next]_vars =>
        [\A s \in Sessions : status[s] = "resolved" =>
           status'[s] = "resolved" /\ claimedBy'[s] = claimedBy[s]]_vars
  BY <1>1, ContractStep DEF IInv
<1> QED
  BY <1>2, Invariance, PTL DEF Spec, ResolvedIsFinal

\* What makes StaleConsoleWillHear inductive: of the requests that still have
\* their broadcast ahead, one will not fail, or the conversation is not waiting
\* and the one that changed it last is itself still to broadcast or has failed.
WillSurelyTell(r) == pc[r] = "announcing" /\ req[r].op \notin {"claim", "resolve"}
MayTellOf(r, s) == pc[r] = "announcing" /\ req[r].session = s

Announced ==
  \A s \in unseen :
    \/ \E r \in Requests : WillSurelyTell(r)
    \/ /\ status[s] # "escalated"
       /\ s \in unread \/ \E r \in Requests : MayTellOf(r, s)

\* A step that changes no conversation and only moves a request that had no
\* broadcast ahead.
LEMMA NothingToTell ==
  ASSUME TypeOK, Announced, NEW r \in Requests, pc[r] # "announcing",
         UNCHANGED <<status, unseen, unread>>,
         \A p \in Requests \ {r} : pc'[p] = pc[p] /\ req'[p] = req[p]
  PROVE  Announced'
<1>1. ASSUME NEW p \in Requests, WillSurelyTell(p) PROVE WillSurelyTell(p)'
  BY <1>1 DEF WillSurelyTell
<1>2. ASSUME NEW p \in Requests, NEW s, MayTellOf(p, s) PROVE MayTellOf(p, s)'
  BY <1>2 DEF MayTellOf
<1> QED
  BY <1>1, <1>2 DEF Announced

\* A step that changes one conversation and whose request will tell of it.
LEMMA OneToTell ==
  ASSUME TypeOK, Announced, NEW r \in Requests, pc[r] # "announcing",
         NEW s \in Sessions, NEW new \in Statuses, status' = [status EXCEPT ![s] = new],
         Changed({s}), Goto(r, "announcing"), req' = req, req[r].session = s,
         new = "escalated" => req[r].op \notin {"claim", "resolve"}
  PROVE  Announced'
<1>1. pc'[r] = "announcing" /\ \A p \in Requests \ {r} : pc'[p] = pc[p]
  BY DEF TypeOK, Goto
<1>2. ASSUME NEW p \in Requests, WillSurelyTell(p) PROVE WillSurelyTell(p)'
  BY <1>1, <1>2 DEF WillSurelyTell
<1>3. ASSUME NEW p \in Requests, NEW x, MayTellOf(p, x) PROVE MayTellOf(p, x)'
  BY <1>1, <1>3 DEF MayTellOf
<1>4. MayTellOf(r, s)'
  BY <1>1 DEF MayTellOf
<1>5. new = "escalated" => WillSurelyTell(r)'
  BY <1>1 DEF WillSurelyTell
<1>6. ASSUME NEW x \in unseen'
      PROVE  \/ \E p \in Requests : WillSurelyTell(p)'
             \/ status'[x] # "escalated" /\ (x \in unread' \/ \E p \in Requests : MayTellOf(p, x)')
  <2>1. CASE x = s
    BY <1>4, <1>5, <2>1 DEF TypeOK
  <2>2. CASE x # s
    BY <1>2, <1>3, <1>6, <2>2 DEF TypeOK, Changed, Announced
  <2> QED
    BY <2>1, <2>2
<1> QED
  BY <1>6 DEF Announced

LEMMA AnnouncedStep == TypeOK /\ LockDiscipline /\ Announced /\ [Next]_vars => Announced'
<1> SUFFICES ASSUME TypeOK, LockDiscipline, Announced, [Next]_vars PROVE Announced'
  OBVIOUS
<1>1. ASSUME NEW r \in Requests, Arrive(r) PROVE Announced'
  <2>1. ASSUME NEW q, Admit(r, q) PROVE Announced'
    <3>1. /\ pc[r] # "announcing" /\ UNCHANGED <<status, unseen, unread>>
          /\ \A p \in Requests \ {r} : pc'[p] = pc[p] /\ req'[p] = req[p]
      BY <2>1 DEF TypeOK, Admit, Goto, db, consoles
    <3> QED
      BY <3>1, NothingToTell
  <2> QED
    BY <1>1, <2>1 DEF Arrive, ArriveHandoff, ArriveSetRole, ArriveRemoval, ArriveTransfer,
                      ArriveEscalation, ArriveJoin
<1>2. ASSUME NEW r \in Requests, Claim(r) \/ Resolve(r) \/ InsertSession(r) PROVE Announced'
  <2>1. pc[r] # "announcing" /\ req[r].session \in Sessions
    BY <1>2 DEF LockDiscipline, RequestOK, WellFormed, Claim, Resolve, InsertSession
  <2>2. CASE Finish(r) /\ UNCHANGED <<status, unseen, unread>>
    <3>1. \A p \in Requests \ {r} : pc'[p] = pc[p] /\ req'[p] = req[p]
      BY <2>2 DEF TypeOK, Finish
    <3> QED
      BY <2>1, <2>2, <3>1, NothingToTell
  <2>3. ASSUME NEW new \in Statuses, status' = [status EXCEPT ![req[r].session] = new],
               Changed({req[r].session}), Goto(r, "announcing"), req' = req,
               new = "escalated" => req[r].op \notin {"claim", "resolve"}
        PROVE  Announced'
    BY <2>1, <2>3, OneToTell
  <2>4. CASE Claim(r)
    BY <2>2, <2>3, <2>4 DEF Claim, Statuses, consoles
  <2>5. CASE Resolve(r)
    BY <2>2, <2>3, <2>5 DEF Resolve, Statuses, consoles
  <2>6. CASE InsertSession(r)
    <3>1. req[r].op = "escalate"
      BY <2>6 DEF InsertSession, LockDiscipline, RequestOK
    <3> QED
      BY <2>2, <2>3, <2>6, <3>1 DEF InsertSession, Statuses, consoles
  <2> QED
    BY <1>2, <2>4, <2>5, <2>6
<1>3. ASSUME NEW r \in Requests,
             \/ LockMembershipForShare(r) \/ FindSession(r) \/ JoinWorkspace(r)
             \/ LockWorkspace(r) \/ ChangeMember(r) \/ PromoteTarget(r) \/ StepActorDown(r)
      PROVE  Announced'
  <2>1. /\ pc[r] # "announcing" /\ UNCHANGED <<status, unseen, unread>>
        /\ \A p \in Requests \ {r} : pc'[p] = pc[p] /\ req'[p] = req[p]
    BY <1>3 DEF TypeOK, LockMembershipForShare, FindSession, JoinWorkspace, LockWorkspace,
       ChangeMember, PromoteTarget, StepActorDown, Goto, Finish, Rollback, db, consoles
  <2> QED
    BY <2>1, NothingToTell
<1>4. ASSUME NEW r \in Requests, CommitMembers(r) PROVE Announced'
  <2>1. pc[r] = "written" /\ req[r].op \in AdminOps
    BY <1>4 DEF CommitMembers, LockDiscipline, RequestOK, ReadyToCommit
  <2>2. CASE Released(req[r]) = {}
    <3>1. UNCHANGED <<unseen, unread>> /\ Finish(r)
      BY <1>4, <2>2 DEF CommitMembers, Changed
    <3>2. status' = status
      BY <1>4, <2>2 DEF CommitMembers, TypeOK
    <3>3. \A p \in Requests \ {r} : pc'[p] = pc[p] /\ req'[p] = req[p]
      BY <3>1 DEF TypeOK, Finish
    <3> QED
      BY <2>1, <3>1, <3>2, <3>3, NothingToTell
  <2>3. CASE Released(req[r]) # {}
    <3>1. WillSurelyTell(r)'
      BY <1>4, <2>1, <2>3
      DEF CommitMembers, WillSurelyTell, Goto, TypeOK, AdminOps, Removals
    <3> QED
      BY <3>1 DEF Announced
  <2> QED
    BY <2>2, <2>3
<1>5. ASSUME NEW r \in Requests, ReadBackFails(r) PROVE Announced'
  <2> DEFINE x == req[r].session
  <2>1. /\ req[r].op \in {"claim", "resolve"}
        /\ UNCHANGED <<status, unseen>> /\ unread' = unread \cup (unseen \cap {x})
        /\ \A p \in Requests \ {r} : pc'[p] = pc[p] /\ req'[p] = req[p]
    BY <1>5 DEF ReadBackFails, Finish, TypeOK, db
  <2>2. ASSUME NEW p \in Requests, WillSurelyTell(p) PROVE WillSurelyTell(p)'
    BY <2>1, <2>2 DEF WillSurelyTell
  <2>3. ASSUME NEW p \in Requests, NEW s \in unseen, MayTellOf(p, s)
        PROVE  s \in unread' \/ MayTellOf(p, s)'
    BY <2>1, <2>3 DEF MayTellOf
  <2> QED
    BY <2>1, <2>2, <2>3 DEF Announced
<1>6. ASSUME NEW r \in Requests, Broadcast(r) PROVE Announced'
  BY <1>6 DEF Broadcast, ConsolesRead, Announced
<1>7. CASE Restart
  BY <1>7 DEF Restart, ConsolesRead, Announced
<1>8. CASE UNCHANGED vars
  BY <1>8 DEF vars, Announced, WillSurelyTell, MayTellOf
<1> QED
  BY <1>1, <1>2, <1>3, <1>4, <1>5, <1>6, <1>7, <1>8 DEF Next, Work, Advance

\* A conversation the consoles show in an old state is still to be broadcast,
\* or its last claim or resolution failed to read its row back; one that waits
\* in the queue is never hidden.
THEOREM ChangesAreAnnounced == Spec => []StaleConsoleWillHear
<1>1. Init => Announced
  BY DEF Init, Announced
<1>2. IInv /\ Announced /\ [Next]_vars => Announced'
  BY AnnouncedStep DEF IInv
<1>3. Announced => StaleConsoleWillHear
  BY DEF Announced, StaleConsoleWillHear, WillSurelyTell, MayTellOf
<1> QED
  BY <1>1, <1>2, <1>3, Invariance, PTL DEF Spec

-----------------------------------------------------------------------------
(* Sets of numbers.                                                         *)

LEMMA LeastExists ==
  ASSUME NEW D, D \subseteq Nat, D # {}
  PROVE  \E x \in D : \A y \in D : x <= y
<1> DEFINE R == OpToRel(<, Nat)
<1>1. IsWellFoundedOn(R, Nat)
  BY NatLessThanWellFounded
<1>2. ASSUME NEW x \in Nat, NEW y \in Nat, y < x PROVE <<y, x>> \in R
  BY <1>2 DEF OpToRel
<1> HIDE DEF R
<1>3. PICK x \in D : \A y \in D : ~(<<y, x>> \in R)
  BY ONLY <1>1, D \subseteq Nat, D # {}, WFMin
<1>4. ASSUME NEW y \in D PROVE x <= y
  <2>1. x \in Nat /\ y \in Nat
    OBVIOUS
  <2>2. ~(y < x)
    BY <1>2, <1>3, <2>1
  <2> QED
    BY <2>1, <2>2
<1> QED
  BY <1>4

LEMMA LatestExists ==
  ASSUME NEW n \in Nat, NEW T \in SUBSET (0..n), T # {}
  PROVE  \E t \in T : \A u \in T : u <= t
<1> DEFINE D == {n - t : t \in T}
<1>1. \A t \in T : t \in Int /\ 0 <= t /\ t <= n
  OBVIOUS
<1>2. D \subseteq Nat
  BY <1>1
<1>3. D # {}
  <2>1. PICK t : t \in T
    OBVIOUS
  <2>2. n - t \in D
    BY <2>1
  <2> QED
    BY <2>2
<1>4. PICK x \in D : \A y \in D : x <= y
  <2> HIDE DEF D
  <2> QED
    BY <1>2, <1>3, LeastExists
<1>5. PICK t \in T : x = n - t
  OBVIOUS
<1>6. ASSUME NEW u \in T PROVE u <= t
  <2>1. n - t <= n - u
    BY <1>4, <1>5
  <2> QED
    BY <1>1, <1>5, <2>1
<1> QED
  BY <1>6

-----------------------------------------------------------------------------
(* Numbers in order.                                                        *)

Increasing(s) == \A i, j \in DOMAIN s : i < j => s[i] < s[j]

\* What a sequence lists.
Listing(s) == {s[i] : i \in DOMAIN s}

\* s lists S in order.
Lists(s, S) ==
  /\ s \in [1..Cardinality(S) -> S] /\ Increasing(s)
  /\ \A x \in S : \E i \in DOMAIN s : s[i] = x

LEMMA BoundedFinite ==
  ASSUME NEW n \in Nat, NEW S \in SUBSET (0..n)
  PROVE  IsFiniteSet(S) /\ Cardinality(S) \in Nat
<1>1. IsFiniteSet(0..n)
  BY FS_Interval
<1>2. IsFiniteSet(S)
  BY <1>1, FS_Subset
<1> QED
  BY <1>2, FS_CardinalityType

\* An increasing sequence has no repetition, so that as many numbers are all of them.
LEMMA IncreasingLists ==
  ASSUME NEW n \in Nat, NEW S \in SUBSET (0..n),
         NEW s \in [1..Cardinality(S) -> S], Increasing(s)
  PROVE  Lists(s, S)
<1>1. IsFiniteSet(S) /\ Cardinality(S) \in Nat
  BY BoundedFinite
<1> DEFINE D == 1..Cardinality(S)
<1>2. IsFiniteSet(D) /\ Cardinality(D) = Cardinality(S)
  BY <1>1, FS_Interval
<1>3. ASSUME NEW i \in D, NEW j \in D, s[i] = s[j] PROVE i = j
  <2>0. s[i] \in S /\ s[j] \in S /\ \A x \in S : x \in Int
    OBVIOUS
  <2>1. i \in Nat /\ j \in Nat /\ s[i] \in Int /\ s[j] \in Int
    <3>1. \A k \in D : k \in Nat
      BY <1>1
    <3> QED
      BY ONLY <2>0, <3>1, i \in D, j \in D
  <2>2. ~(i < j) /\ ~(j < i)
    BY <1>3, <2>1 DEF Increasing
  <2> QED
    BY <2>1, <2>2
<1>4. s \in Injection(D, S)
  BY <1>3 DEF Injection, IsInjective
<1>5. s \in Surjection(D, S)
  <2> HIDE DEF D
  <2> QED
    BY <1>1, <1>2, <1>4, FS_Injection
<1>6. \A x \in S : \E i \in D : s[i] = x
  BY <1>5 DEF Surjection
<1> QED
  BY <1>6 DEF Lists

\* The numbers of a set can be put in order: a smallest set for which this failed
\* could be ordered by its greatest member and the rest.
LEMMA OrderExists ==
  ASSUME NEW n \in Nat, NEW S \in SUBSET (0..n)
  PROVE  \E s \in [1..Cardinality(S) -> S] : Increasing(s)
<1> DEFINE Can(T) == \E s \in [1..Cardinality(T) -> T] : Increasing(s)
           D == {Cardinality(T) : T \in {U \in SUBSET (0..n) : ~Can(U)}}
<1>1. SUFFICES ASSUME ~Can(S) PROVE FALSE
  OBVIOUS
<1>2. D \subseteq Nat /\ D # {}
  BY <1>1, BoundedFinite
<1>3. PICK k \in D : \A m \in D : k <= m
  <2> HIDE DEF D
  <2> QED
    BY <1>2, LeastExists
<1>4. PICK T \in SUBSET (0..n) : ~Can(T) /\ Cardinality(T) = k
  BY <1>3
<1>5. IsFiniteSet(T) /\ k \in Nat
  BY <1>4, BoundedFinite
<1>6. ASSUME T = {} PROVE FALSE
  <2>1. Cardinality(T) = 0
    BY <1>6, FS_EmptySet
  <2>2. PICK s : s = [i \in 1..0 |-> 0]
    OBVIOUS
  <2>3. s \in [1..Cardinality(T) -> T] /\ DOMAIN s = {}
    BY <2>1, <2>2
  <2>4. Increasing(s)
    BY <2>3 DEF Increasing
  <2> QED
    BY <1>4, <2>3, <2>4
<1>7. ASSUME T # {} PROVE FALSE
  <2>1. PICK x \in T : \A u \in T : u <= x
    BY <1>7, LatestExists
  <2> DEFINE U == T \ {x}
  <2>2. Cardinality(U) = k - 1 /\ Cardinality(U) \in Nat
    BY <1>4, <1>5, FS_RemoveElement, BoundedFinite
  <2>3. Can(U)
    <3>1. ~(Cardinality(U) \in D)
      BY <1>3, <1>5, <2>2
    <3> QED
      BY <3>1
  <2>4. PICK s \in [1..(k - 1) -> U] : Increasing(s)
    BY <2>2, <2>3
  <2>5. PICK t : t = [i \in 1..k |-> IF i = k THEN x ELSE s[i]]
    OBVIOUS
  <2>6. ASSUME NEW i \in 1..k, i # k PROVE i \in 1..(k - 1) /\ t[i] = s[i] /\ s[i] \in U
    <3>1. i \in 1..(k - 1)
      BY <1>5, <2>6
    <3> QED
      BY <2>4, <2>5, <2>6, <3>1
  <2>7. k \in 1..k /\ t[k] = x
    BY <1>5, <2>2, <2>5
  <2>8. t \in [1..k -> T]
    <3>1. \A i \in 1..k : t[i] \in T
      BY <2>6, <2>7
    <3> QED
      BY <2>5, <3>1
  <2>9. ASSUME NEW i \in 1..k, NEW j \in 1..k, i < j PROVE t[i] < t[j]
    <3>1. i # k
      BY <1>5, <2>9
    <3>2. CASE j = k
      <4>1. t[i] \in T /\ t[i] # x
        BY <2>6, <3>1
      <4>0. \A y \in T : y \in Int
        OBVIOUS
      <4>2. t[i] <= x /\ t[i] \in Int /\ x \in Int
        BY <2>1, <4>0, <4>1
      <4> QED
        BY <2>7, <3>2, <4>1, <4>2
    <3>3. CASE j # k
      <4>1. i \in DOMAIN s /\ j \in DOMAIN s /\ t[i] = s[i] /\ t[j] = s[j]
        BY <2>4, <2>6, <3>1, <3>3
      <4> QED
        BY <2>4, <2>9, <4>1 DEF Increasing
    <3> QED
      BY <3>2, <3>3
  <2>10. Increasing(t)
    BY <2>8, <2>9 DEF Increasing
  <2> QED
    BY <1>4, <2>8, <2>10
<1> QED
  BY <1>6, <1>7

\* There is only one order.
LEMMA OrderUnique ==
  ASSUME NEW n \in Nat, NEW S \in SUBSET (0..n), NEW s, NEW t, Lists(s, S), Lists(t, S)
  PROVE  s = t
<1>1. Cardinality(S) \in Nat
  BY BoundedFinite
<1> DEFINE D == 1..Cardinality(S)
           B == {i \in D : s[i] # t[i]}
<1>2. s \in [D -> S] /\ t \in [D -> S]
  BY DEF Lists
<1>3. SUFFICES ASSUME B # {} PROVE FALSE
  <2>1. ASSUME B = {} PROVE s = t
    <3>1. \A i \in D : s[i] = t[i]
      BY <2>1
    <3> HIDE DEF D
    <3> QED
      BY <1>2, <3>1
  <2> QED
    BY <2>1
<1>i. \A x \in S : x \in Int
  OBVIOUS
<1>4. PICK i \in B : \A j \in B : i <= j
  <2>1. B \subseteq Nat
    BY <1>1
  <2> HIDE DEF B
  <2> QED
    BY <1>3, <2>1, LeastExists
<1>5. i \in D /\ s[i] # t[i] /\ i \in Int /\ s[i] \in S /\ t[i] \in S /\ s[i] \in Int /\ t[i] \in Int
  <2>1. i \in D /\ s[i] # t[i]
    BY <1>4
  <2>2. \A k \in D : k \in Int
    BY <1>1
  <2>3. s[i] \in S /\ t[i] \in S
    BY <1>2, <2>1
  <2> QED
    BY ONLY <1>i, <2>1, <2>2, <2>3
<1>6. \A j \in D : j \in Int /\ (j < i => s[j] = t[j])
  BY <1>1, <1>4
\* The smaller of the two would have to come later in the other.
<1>7. ASSUME NEW a \in [D -> S], NEW b \in [D -> S], Increasing(a), Increasing(b), a[i] < b[i],
             \A j \in D : j < i => a[j] = b[j],
             \A x \in S : \E j \in D : b[j] = x
      PROVE  FALSE
  <2>1. PICK j \in D : b[j] = a[i]
    BY <1>5, <1>7
  <2>2. j \in Int /\ a[i] \in Int /\ b[i] \in Int
    <3>1. a[i] \in S /\ b[i] \in S
      BY <1>5, <1>7
    <3> QED
      BY <1>6, <1>i, <2>1, <3>1
  <2>3. ~(j < i)
    BY <1>5, <1>7, <2>1, <2>2 DEF Increasing
  <2>4. ~(j > i)
    BY <1>5, <1>7, <2>1, <2>2 DEF Increasing
  <2>5. j # i
    BY <1>7, <2>1, <2>2
  <2> QED
    BY <1>5, <2>2, <2>3, <2>4, <2>5
<1>8. /\ \A x \in S : \E j \in D : s[j] = x
      /\ \A x \in S : \E j \in D : t[j] = x
      /\ Increasing(s) /\ Increasing(t)
  BY <1>2 DEF Lists
<1>9. ~(s[i] < t[i])
  BY <1>2, <1>6, <1>7, <1>8
<1>10. ~(t[i] < s[i])
  BY <1>2, <1>6, <1>7, <1>8
<1> QED
  BY <1>5, <1>9, <1>10

LEMMA InOrderIs ==
  ASSUME NEW n \in Nat, NEW S \in SUBSET (0..n)
  PROVE  /\ Lists(InOrder(S), S)
         /\ \A s : Lists(s, S) => s = InOrder(S)
<1>1. \E s \in [1..Cardinality(S) -> S] : \A i, j \in DOMAIN s : i < j => s[i] < s[j]
  BY OrderExists DEF Increasing
<1>2. InOrder(S) \in [1..Cardinality(S) -> S] /\ Increasing(InOrder(S))
  BY <1>1 DEF InOrder, Increasing
<1>3. Lists(InOrder(S), S)
  BY <1>2, IncreasingLists
<1> QED
  BY <1>3, OrderUnique

-----------------------------------------------------------------------------
(* Pages of a conversation.                                                 *)

\* s is one stretch of S, in order.
Stretch(s, S) ==
  /\ Increasing(s) /\ Listing(s) \subseteq S
  /\ \A k \in S : s[1] <= k /\ k <= s[Len(s)] => k \in Listing(s)

LEMMA EndsOf ==
  ASSUME NEW s \in Seq(Nat), s # <<>>, Increasing(s)
  PROVE  /\ Len(s) \in Nat /\ DOMAIN s = 1..Len(s) /\ 1 \in DOMAIN s /\ Len(s) \in DOMAIN s
         /\ \A i \in DOMAIN s : s[i] \in Nat /\ s[1] <= s[i] /\ s[i] <= s[Len(s)]
<1>1. Len(s) \in Nat /\ Len(s) # 0 /\ DOMAIN s = 1..Len(s) /\ \A i \in DOMAIN s : s[i] \in Nat
  OBVIOUS
<1>2. 1 \in DOMAIN s /\ Len(s) \in DOMAIN s
  BY <1>1
<1>3. ASSUME NEW i \in DOMAIN s PROVE s[1] <= s[i] /\ s[i] <= s[Len(s)]
  <2>1. i = 1 \/ 1 < i
    BY <1>1
  <2>2. i = Len(s) \/ i < Len(s)
    BY <1>1
  <2> QED
    BY <1>1, <1>2, <2>1, <2>2 DEF Increasing
<1> QED
  BY <1>1, <1>2, <1>3

LEMMA StretchIsInOrder ==
  ASSUME NEW n \in Nat, NEW S \in SUBSET (0..n), NEW s \in Seq(Nat), s # <<>>, Stretch(s, S)
  PROVE  s = InOrder({i \in S : s[1] <= i /\ i <= s[Len(s)]})
<1> DEFINE T == {i \in S : s[1] <= i /\ i <= s[Len(s)]}
<1>1. /\ Len(s) \in Nat /\ DOMAIN s = 1..Len(s) /\ Increasing(s)
      /\ \A i \in DOMAIN s : s[i] \in Nat /\ s[1] <= s[i] /\ s[i] <= s[Len(s)]
  BY EndsOf DEF Stretch
<1>2. \A i \in DOMAIN s : s[i] \in T
  BY <1>1 DEF Stretch, Listing
<1>3. \A x \in T : \E i \in DOMAIN s : s[i] = x
  BY DEF Stretch, Listing
<1>4. T \in SUBSET (0..n)
  OBVIOUS
<1> HIDE DEF T
<1>5. ASSUME NEW i \in DOMAIN s, NEW j \in DOMAIN s, s[i] = s[j] PROVE i = j
  <2>1. i \in Nat /\ j \in Nat /\ s[i] \in Nat /\ s[j] \in Nat
    BY <1>1
  <2>2. ~(i < j) /\ ~(j < i)
    BY <1>1, <1>5, <2>1 DEF Increasing
  <2> QED
    BY <2>1, <2>2
<1>6. s \in [1..Len(s) -> T]
  BY <1>1, <1>2
<1>7. s \in Bijection(1..Len(s), T)
  BY <1>1, <1>3, <1>5, <1>6 DEF Bijection, Injection, Surjection, IsInjective
<1>8. IsFiniteSet(1..Len(s)) /\ Cardinality(1..Len(s)) = Len(s)
  BY <1>1, FS_Interval
<1>9. Cardinality(T) = Len(s)
  BY <1>7, <1>8, FS_Bijection DEF ExistsBijection
<1>10. Lists(s, T)
  BY <1>1, <1>3, <1>6, <1>9 DEF Lists
<1>11. s = InOrder(T)
  BY <1>4, <1>10, InOrderIs
<1> QED
  BY <1>11 DEF T

\* The newest of a set are what it has from some id on.
LEMMA NewestIs ==
  ASSUME NEW n \in Nat, NEW S \in SUBSET (0..n), NEW m \in Nat
  PROVE  /\ Newest(S, m) \in SUBSET S
         /\ \A i \in Newest(S, m), j \in S : i <= j => j \in Newest(S, m)
         /\ S # {} /\ m # 0 => Newest(S, m) # {}
<1>1. Newest(S, m) \in SUBSET S
  BY DEF Newest
<1>2. \A x \in S : x \in Int
  OBVIOUS
<1>3. ASSUME NEW i \in Newest(S, m), NEW j \in S, i <= j PROVE j \in Newest(S, m)
  <2> DEFINE A == {x \in S : x >= i}
             B == {x \in S : x >= j}
  <2>0. i \in Int /\ j \in Int /\ i <= j
    BY <1>1, <1>2, <1>3
  <2>1. A \in SUBSET (0..n) /\ B \in SUBSET A /\ B \in SUBSET (0..n)
    <3>1. A \in SUBSET (0..n) /\ B \in SUBSET (0..n)
      OBVIOUS
    <3>2. \A x \in B : x \in A
      BY <1>2, <2>0
    <3> HIDE DEF A, B
    <3> QED
      BY <3>1, <3>2
  <2>2. IsFiniteSet(A) /\ Cardinality(A) \in Nat /\ Cardinality(B) \in Nat
    <3> HIDE DEF A, B
    <3> QED
      BY <2>1, BoundedFinite
  <2>3. Cardinality(B) <= Cardinality(A)
    <3> HIDE DEF A, B
    <3> QED
      BY <2>1, <2>2, FS_Subset
  <2>4. Cardinality(A) <= m
    BY DEF Newest
  <2>5. Cardinality(B) <= m
    <3> HIDE DEF A, B
    <3> QED
      BY <2>2, <2>3, <2>4
  <2> QED
    BY <2>5 DEF Newest
<1>4. ASSUME S # {}, m # 0 PROVE Newest(S, m) # {}
  <2>1. PICK x \in S : \A u \in S : u <= x
    BY <1>4, LatestExists
  <2>a. \A u \in S : u >= x <=> u = x
    BY <1>2, <2>1
  <2>2. {u \in S : u >= x} = {x}
    BY <2>a
  <2>3. Cardinality({x}) = 1
    BY FS_Singleton
  <2>4. x \in Newest(S, m)
    BY <1>4, <2>2, <2>3 DEF Newest
  <2> QED
    BY <2>4
<1> QED
  BY <1>1, <1>3, <1>4

\* A row more than the limit tells that there are older ones: the set of those
\* beyond the page has a greatest member, and the members after it fill the page.
LEMMA OneMoreTells ==
  ASSUME NEW n \in Nat, NEW S \in SUBSET (0..n), NEW m \in Nat
  PROVE  LET rows == Newest(S, m + 1)
         IN Cardinality(rows) > m <=> S \ Newest(rows, m) # {}
<1>1. PICK rows : rows = Newest(S, m + 1)
  OBVIOUS
<1>2. /\ rows \in SUBSET S /\ rows \in SUBSET (0..n)
      /\ \A i \in rows, j \in S : i <= j => j \in rows
  <2>1. m + 1 \in Nat
    OBVIOUS
  <2>2. /\ Newest(S, m + 1) \in SUBSET S
        /\ \A i \in Newest(S, m + 1), j \in S : i <= j => j \in Newest(S, m + 1)
    BY <2>1, NewestIs
  <2> QED
    BY <1>1, <2>2
<1>3. IsFiniteSet(rows) /\ Cardinality(rows) \in Nat
  BY <1>2, BoundedFinite
<1>4. \A x \in S : x \in Int
  OBVIOUS
<1>5. ASSUME Cardinality(rows) > m PROVE S \ Newest(rows, m) # {}
  <2>1. rows # {}
    BY <1>3, <1>5, FS_EmptySet
  <2>2. PICK x \in rows : \A y \in rows : x <= y
    <3>1. rows \subseteq Nat
      BY <1>2
    <3> QED
      BY <2>1, <3>1, LeastExists
  <2>3. {j \in rows : j >= x} = rows
    BY <1>2, <1>4, <2>2
  <2>4. x \notin Newest(rows, m)
    BY <1>3, <1>5, <2>3 DEF Newest
  <2> QED
    BY <1>2, <2>2, <2>4
<1>6. ASSUME S \ Newest(rows, m) # {} PROVE Cardinality(rows) > m
  <2>1. CASE S \ rows = {}
    <3>1. PICK x \in rows : x \notin Newest(rows, m)
      BY <1>6, <2>1
    <3> DEFINE A == {j \in rows : j >= x}
    <3>2. A \in SUBSET rows /\ A \in SUBSET (0..n)
      BY <1>2
    <3>3. ~(Cardinality(A) <= m)
      BY <3>1 DEF Newest
    <3> HIDE DEF A
    <3>4. Cardinality(A) \in Nat /\ Cardinality(A) <= Cardinality(rows)
      BY <1>3, <3>2, BoundedFinite, FS_Subset
    <3> QED
      BY <1>3, <3>3, <3>4
  <2>2. CASE S \ rows # {}
    <3>1. PICK x \in S \ rows : \A u \in S \ rows : u <= x
      <4>1. S \ rows \in SUBSET (0..n)
        OBVIOUS
      <4> QED
        BY <2>2, <4>1, LatestExists
    <3> DEFINE A == {j \in S : j >= x}
    <3>a. x >= x
      BY <1>4, <3>1
    <3>2. A \in SUBSET (0..n) /\ x \in A
      BY <3>1, <3>a
    <3>3. ~(Cardinality(A) <= m + 1)
      BY <1>1, <3>1 DEF Newest
    <3>4. A \ {x} \in SUBSET rows
      <4>1. ASSUME NEW j \in A, j # x PROVE j \in rows
        <5>1. j \in S /\ j > x
          BY <1>4, <4>1
        <5> QED
          BY <1>4, <3>1, <5>1
      <4> QED
        BY <4>1
    <3> HIDE DEF A
    <3>5. IsFiniteSet(A) /\ Cardinality(A) \in Nat
      BY <3>2, BoundedFinite
    <3>6. Cardinality(A \ {x}) = Cardinality(A) - 1
      BY <3>2, <3>5, FS_RemoveElement
    <3>7. Cardinality(A \ {x}) <= Cardinality(rows)
      BY <1>3, <3>4, FS_Subset
    <3> QED
      BY <1>3, <3>3, <3>5, <3>6, <3>7
  <2> QED
    BY <2>1, <2>2
<1> QED
  BY <1>1, <1>5, <1>6

LEMMA ListsOfMore ==
  ASSUME NEW A, NEW B, A \subseteq B, NEW s \in Seq(A)
  PROVE  s \in Seq(B)
<1>1. Len(s) \in Nat /\ s \in [1..Len(s) -> A]
  OBVIOUS
<1>2. s \in [1..Len(s) -> B]
  BY <1>1
<1> QED
  BY ONLY <1>1, <1>2

LEMMA CountOf ==
  ASSUME NEW n \in Nat, NEW S \in SUBSET (0..n), NEW s, Lists(s, S)
  PROVE  /\ s \in Seq(S) /\ s \in Seq(Nat) /\ Len(s) \in Nat
         /\ DOMAIN s = 1..Len(s) /\ Listing(s) = S
         /\ s = <<>> <=> S = {}
<1>1. Cardinality(S) \in Nat
  BY BoundedFinite
<1>2. s \in [1..Cardinality(S) -> S] /\ \A x \in S : \E i \in DOMAIN s : s[i] = x
  BY DEF Lists
<1>3. s \in Seq(S)
  BY <1>1, <1>2
<1>4. \A i \in DOMAIN s : s[i] \in S
  BY <1>2
<1>5. S \subseteq Nat
  OBVIOUS
<1>7. Listing(s) = S
  BY <1>2, <1>4 DEF Listing
<1>8. Len(s) \in Nat /\ DOMAIN s = 1..Len(s)
  BY <1>3
<1>6. s \in Seq(Nat)
  <2>1. s \in [1..Cardinality(S) -> Nat]
    BY ONLY <1>2, <1>5
  <2> QED
    BY ONLY <1>1, <2>1
<1>9. s = <<>> <=> S = {}
  <2>1. ASSUME s = <<>> PROVE S = {}
    BY <1>2, <2>1
  <2>2. ASSUME S = {} PROVE s = <<>>
    <3>1. ~(1 \in DOMAIN s)
      BY <1>4, <2>2
    <3> QED
      BY <1>3, <1>8, <3>1
  <2> QED
    BY <2>1, <2>2
<1> QED
  BY <1>3, <1>6, <1>7, <1>8, <1>9

\* A page of those before c: it ends where they do, in order and without a gap, and
\* what it says of older ones is true.
PageFits(page, S, c) ==
  /\ page.items \in Seq(Nat) /\ Increasing(page.items) /\ Listing(page.items) \subseteq S
  /\ c # 0 => \A x \in Listing(page.items) : x < c
  /\ \A x \in Listing(page.items), k \in S :
       x <= k /\ (IF c = 0 THEN k <= page.items[Len(page.items)] ELSE k < c)
         => k \in Listing(page.items)
  /\ page.more <=> (page.items # <<>> /\ \E k \in S : k < page.items[1])
  /\ page.items = <<>> /\ c # 0 => \A k \in S : ~(k < c)
  /\ page.next = IF page.more THEN page.items[1] ELSE 0

\* What listTurns replies is such a page.
LEMMA PageIs ==
  ASSUME NEW n \in Nat, NEW S \in SUBSET (1..n), NEW c \in 0..n,
         NEW page, page = CursorPageOf(Newest({i \in S : c = 0 \/ i < c}, PageLimit + 1), PageLimit)
  PROVE  /\ PageFits(page, S, c)
         /\ page \in [items : Seq(1..n), next : 0..n, more : BOOLEAN]
<1> DEFINE F == {i \in S : c = 0 \/ i < c}
           rows == Newest(F, PageLimit + 1)
           I == Newest(rows, PageLimit)
<1>1. F \in SUBSET (0..n) /\ F \in SUBSET S /\ PageLimit \in Nat /\ PageLimit # 0 /\ PageLimit + 1 \in Nat
      /\ PageLimit + 1 # 0
  <2>1. F \in SUBSET (0..n) /\ F \in SUBSET S
    <3>1. \A x \in S : x \in 0..n
      OBVIOUS
    <3> QED
      BY <3>1
  <2> QED
    BY <2>1, DrawerAssumption
<1>2. page = [items |-> InOrder(I), next |-> IF Cardinality(rows) > PageLimit THEN Min(I) ELSE 0,
              more |-> Cardinality(rows) > PageLimit]
  BY DEF CursorPageOf
<1>n. \A x \in S : x \in Int /\ x \in Nat /\ x \in 1..n
  OBVIOUS
<1>f. \A x \in S : x \in F <=> (c = 0 \/ x < c)
  OBVIOUS
<1> HIDE DEF F
<1>3. /\ rows \in SUBSET F
      /\ \A i \in rows, j \in F : i <= j => j \in rows
      /\ F # {} => rows # {}
  BY <1>1, NewestIs
<1>4. rows \in SUBSET (0..n)
  BY <1>1, <1>3
<1>5. Cardinality(rows) > PageLimit <=> F \ I # {}
  BY <1>1, OneMoreTells
<1> HIDE DEF rows
<1>6. /\ I \in SUBSET rows
      /\ \A i \in I, j \in rows : i <= j => j \in I
      /\ rows # {} => I # {}
  BY <1>1, <1>4, NewestIs
<1>7. I \in SUBSET (0..n)
  BY <1>4, <1>6
<1> HIDE DEF I
<1>8. I \in SUBSET F /\ I \in SUBSET S /\ (F # {} => I # {})
  BY <1>1, <1>3, <1>6
<1>9. ASSUME NEW i \in I, NEW j \in F, i <= j PROVE j \in I
  BY <1>3, <1>6, <1>9
<1>10. Lists(InOrder(I), I)
  BY <1>7, InOrderIs
<1>11. PICK s : s = InOrder(I)
  OBVIOUS
<1>12. /\ s \in Seq(I) /\ s \in Seq(Nat) /\ Len(s) \in Nat /\ DOMAIN s = 1..Len(s) /\ Listing(s) = I
       /\ s = <<>> <=> I = {}
  BY <1>7, <1>10, <1>11, CountOf
<1>13. Increasing(s)
  BY <1>10, <1>11 DEF Lists
<1>14. ASSUME I # {} PROVE s[1] \in I /\ Min(I) = s[1] /\ \A x \in I : s[1] <= x /\ x <= s[Len(s)]
  <2>1. 1 \in DOMAIN s /\ \A i \in DOMAIN s : s[i] \in Nat /\ s[1] <= s[i] /\ s[i] <= s[Len(s)]
    BY <1>12, <1>13, <1>14, EndsOf
  <2>2. \A x \in I : \E i \in DOMAIN s : s[i] = x
    BY <1>12 DEF Listing
  <2>3. s[1] \in I
    BY <1>12, <2>1
  <2>4. \A x \in I : s[1] <= x /\ x <= s[Len(s)]
    BY <2>1, <2>2
  <2>5. \A x, y \in I : x <= y /\ y <= x => x = y
    BY <1>8, <1>n
  <2>6. Min(I) \in I /\ \A x \in I : Min(I) <= x
    BY <2>3, <2>4 DEF Min
  <2> QED
    BY <2>3, <2>4, <2>5, <2>6
<1>15. PICK more \in BOOLEAN : more <=> F \ I # {}
  OBVIOUS
<1>16. page = [items |-> s, next |-> IF more THEN Min(I) ELSE 0, more |-> more]
  BY <1>2, <1>5, <1>11, <1>15
<1>17. more => I # {}
  BY <1>8, <1>15
<1>18. page.items = s /\ page.more = more /\ page.next = IF more THEN s[1] ELSE 0
  BY <1>14, <1>16, <1>17
<1>19. c # 0 => \A x \in I : x < c
  BY <1>8, <1>f
<1>20. ASSUME NEW x \in I, NEW k \in S, x <= k, IF c = 0 THEN k <= s[Len(s)] ELSE k < c PROVE k \in I
  <2>1. k \in F
    BY <1>20, <1>f
  <2> QED
    BY <1>9, <1>20, <2>1
<1>21. more <=> (s # <<>> /\ \E k \in S : k < s[1])
  <2>1. ASSUME more PROVE s # <<>> /\ \E k \in S : k < s[1]
    <3>1. PICK k \in F : k \notin I
      BY <1>15, <2>1
    <3>2. s[1] \in I /\ s # <<>>
      BY <1>12, <1>14, <1>17, <2>1
    <3>3. ~(s[1] <= k)
      BY <1>9, <3>1, <3>2
    <3>4. k \in S /\ k \in Int /\ s[1] \in Int
      BY <1>1, <1>8, <1>n, <3>1, <3>2
    <3> QED
      BY <3>2, <3>3, <3>4
  <2>2. ASSUME s # <<>>, NEW k \in S, k < s[1] PROVE more
    <3>1. s[1] \in I /\ \A x \in I : s[1] <= x
      BY <1>12, <1>14, <2>2
    <3>a. c \in Int
      OBVIOUS
    <3>2. k \in Int /\ s[1] \in Int /\ c \in Int
      BY <1>8, <1>n, <2>2, <3>1, <3>a
    <3>3. k \notin I
      BY <2>2, <3>1, <3>2
    <3>4. k \in F
      BY <1>8, <1>19, <1>f, <2>2, <3>1, <3>2
    <3> QED
      BY <1>15, <3>3, <3>4
  <2> QED
    BY <2>1, <2>2
<1>22. ASSUME s = <<>>, c # 0, NEW k \in S PROVE ~(k < c)
  BY <1>8, <1>12, <1>22, <1>f
<1>23. PageFits(page, S, c)
  BY <1>8, <1>12, <1>13, <1>18, <1>19, <1>20, <1>21, <1>22 DEF PageFits
<1>24. s \in Seq(1..n)
  <2>1. I \subseteq 1..n
    BY <1>8, <1>n
  <2> QED
    BY <1>12, <2>1
<1>25. (IF more THEN Min(I) ELSE 0) \in 0..n
  <2>1. 0 \in 0..n /\ \A x \in S : x \in 0..n
    OBVIOUS
  <2>2. more => Min(I) \in S
    BY <1>8, <1>14, <1>17
  <2> QED
    BY <2>1, <2>2
<1> QED
  BY <1>15, <1>16, <1>23, <1>24, <1>25

-----------------------------------------------------------------------------
(* A turn becomes visible that nothing read so far passes over.              *)

\* A page under way still fits.
LEMMA PageStillFits ==
  ASSUME NEW S, S \subseteq Nat, NEW j \in Nat, j \notin S,
         NEW c \in Nat, NEW page, PageFits(page, S, c),
         ~ /\ page.more => page.next <= j
           /\ IF c = 0 THEN page.items # <<>> /\ j < page.items[Len(page.items)] ELSE j < c
  PROVE  PageFits(page, S \cup {j}, c)
<1> DEFINE T == S \cup {j}
<1>2. PICK s : s = page.items
  OBVIOUS
<1>3. /\ s \in Seq(Nat) /\ Increasing(s) /\ Listing(s) \subseteq S
      /\ c # 0 => \A x \in Listing(s) : x < c
      /\ \A x \in Listing(s), k \in S :
           x <= k /\ (IF c = 0 THEN k <= s[Len(s)] ELSE k < c) => k \in Listing(s)
      /\ page.more <=> (s # <<>> /\ \E k \in S : k < s[1])
      /\ page.next = IF page.more THEN s[1] ELSE 0
      /\ s = <<>> /\ c # 0 => \A k \in S : ~(k < c)
  BY <1>2 DEF PageFits
<1>4. ASSUME s # <<>>
      PROVE  /\ s[1] \in S /\ s[Len(s)] \in S /\ s[1] \in Nat /\ s[Len(s)] \in Nat
             /\ s[1] <= s[Len(s)] /\ \A x \in Listing(s) : s[1] <= x /\ x \in Nat
             /\ c # 0 => s[1] < c /\ s[Len(s)] < c
  <2>1. 1 \in DOMAIN s /\ Len(s) \in DOMAIN s /\ \A i \in DOMAIN s : s[1] <= s[i]
    BY <1>3, <1>4, EndsOf
  <2>2. s[1] \in Listing(s) /\ s[Len(s)] \in Listing(s) /\ \A x \in Listing(s) : s[1] <= x
    BY <2>1 DEF Listing
  <2> QED
    BY <1>3, <2>1, <2>2
<1>5. ~ /\ page.more => page.next <= j
        /\ IF c = 0 THEN s # <<>> /\ j < s[Len(s)] ELSE j < c
  BY <1>2
<1>6. ASSUME s # <<>> PROVE j < s[1] => page.more
  BY <1>3, <1>4, <1>5, <1>6
<1>7. ASSUME NEW x \in Listing(s), NEW k \in T, x <= k, IF c = 0 THEN k <= s[Len(s)] ELSE k < c
      PROVE  k \in Listing(s)
  <2>0. s # <<>>
    BY <1>7 DEF Listing
  <2>1. k # j
    <3>1. SUFFICES ASSUME k = j PROVE FALSE
      OBVIOUS
    <3>2. ~(j < s[1]) /\ j # s[1] /\ j # s[Len(s)]
      BY <1>4, <1>7, <2>0, <3>1
    <3>3. page.more => page.next = s[1]
      BY <1>3
    <3> QED
      BY <1>4, <1>5, <1>7, <2>0, <3>1, <3>2, <3>3
  <2>2. k \in S
    BY <2>1
  <2> QED
    BY <1>3, <1>7, <2>2
<1>8. page.more <=> (s # <<>> /\ \E k \in T : k < s[1])
  BY <1>3, <1>6
<1>9. ASSUME s = <<>>, c # 0, NEW k \in T PROVE ~(k < c)
  <2>1. ~page.more
    BY <1>3, <1>9
  <2>2. ~(j < c)
    BY <1>5, <1>9, <2>1
  <2> QED
    BY <1>3, <1>9, <2>2
<1>10. Listing(s) \subseteq T
  BY <1>3
<1> HIDE DEF T
<1>11. PageFits(page, T, c)
  BY ONLY <1>2, <1>3, <1>7, <1>8, <1>9, <1>10 DEF PageFits
<1> QED
  BY <1>11 DEF T

\* What the drawer shows is one stretch of the conversation, and it knows whether
\* there is more of it.
Whole(turns, S, hasMore, cursor) ==
  turns # <<>> =>
    /\ Stretch(turns, S)
    /\ hasMore <=> \E i \in S : i < turns[1]
    /\ hasMore => cursor = turns[1]

\* What is shown stays a stretch.
LEMMA StillWhole ==
  ASSUME NEW S, S \subseteq Nat, NEW j \in Nat, j \notin S,
         NEW turns \in Seq(Nat), NEW hasMore, NEW cursor, Whole(turns, S, hasMore, cursor),
         ~((hasMore => cursor <= j) /\ turns # <<>> /\ j < turns[Len(turns)])
  PROVE  Whole(turns, S \cup {j}, hasMore, cursor)
<1>1. SUFFICES ASSUME turns # <<>> PROVE Whole(turns, S \cup {j}, hasMore, cursor)
  BY DEF Whole
<1>2. Stretch(turns, S) /\ (hasMore <=> \E i \in S : i < turns[1]) /\ (hasMore => cursor = turns[1])
  BY <1>1 DEF Whole
<1>3. 1 \in DOMAIN turns /\ Len(turns) \in DOMAIN turns /\ turns[1] <= turns[Len(turns)]
  BY <1>1, <1>2, EndsOf DEF Stretch
<1>4. turns[1] \in S /\ turns[Len(turns)] \in S /\ turns[1] \in Nat /\ turns[Len(turns)] \in Nat
  BY <1>2, <1>3 DEF Stretch, Listing
<1>5. ~(turns[1] <= j /\ j <= turns[Len(turns)])
  BY <1>1, <1>2, <1>4
<1>6. Stretch(turns, S \cup {j})
  BY <1>2, <1>5 DEF Stretch
<1>7. (\E i \in S \cup {j} : i < turns[1]) <=> \E i \in S : i < turns[1]
  BY <1>1, <1>2, <1>3, <1>4, <1>5
<1> QED
  BY <1>2, <1>6, <1>7 DEF Whole

\* A page of older messages that says there are more goes on before where it began.
LEMMA NextIsBefore ==
  ASSUME NEW S, NEW c, c # 0, NEW page, PageFits(page, S, c), page.more
  PROVE  page.next < c
<1>1. page.items \in Seq(Nat) /\ page.items # <<>> /\ page.next = page.items[1]
  BY DEF PageFits
<1>2. 1 \in DOMAIN page.items
  BY <1>1
<1>3. page.items[1] \in Listing(page.items)
  BY <1>2 DEF Listing
<1> QED
  BY <1>1, <1>3 DEF PageFits

\* The first page replaces what was shown.
LEMMA FirstPageIsWhole ==
  ASSUME NEW S, NEW page, PageFits(page, S, 0), page.more \in BOOLEAN
  PROVE  /\ Whole(page.items, S, page.more, page.next)
         /\ page.items = <<>> => page.next = 0
<1>1. page.items = <<>> => page.next = 0
  BY DEF PageFits
<1>2. ASSUME page.items # <<>> PROVE Stretch(page.items, S)
  <2>1. 1 \in DOMAIN page.items
    BY <1>2, EndsOf DEF PageFits
  <2>2. page.items[1] \in Listing(page.items)
    BY <2>1 DEF Listing
  <2> QED
    BY <2>2 DEF PageFits, Stretch
<1> QED
  BY <1>1, <1>2 DEF PageFits, Whole

\* Older messages put in front of the stretch they were asked for.
LEMMA OlderPageIsWhole ==
  ASSUME NEW S, S \subseteq Nat, NEW turns \in Seq(Nat), turns # <<>>, NEW c \in Nat, c # 0,
         Whole(turns, S, TRUE, c), NEW page, PageFits(page, S, c), page.more \in BOOLEAN
  PROVE  Whole(page.items \o turns, S, page.more, page.next) /\ page.items \o turns # <<>>
<1>1. PICK s : s = page.items
  OBVIOUS
<1>2. /\ s \in Seq(Nat) /\ Increasing(s) /\ Listing(s) \subseteq S
      /\ \A x \in Listing(s) : x < c
      /\ \A x \in Listing(s), k \in S : x <= k /\ k < c => k \in Listing(s)
      /\ page.more <=> (s # <<>> /\ \E k \in S : k < s[1])
      /\ s = <<>> => \A k \in S : ~(k < c)
      /\ page.next = IF page.more THEN s[1] ELSE 0
  BY <1>1 DEF PageFits
<1>3. Stretch(turns, S) /\ c = turns[1]
  BY DEF Whole
<1>4. CASE s = <<>>
  <2>1. s \o turns = turns
    BY <1>4
  <2>2. Whole(turns, S, page.more, page.next)
    BY <1>2, <1>3, <1>4 DEF Whole
  <2> QED
    BY <1>1, <2>1, <2>2
<1>5. CASE s # <<>>
  <2>1. PICK all : all = s \o turns
    OBVIOUS
  <2>2. /\ Len(s) \in Nat /\ Len(s) # 0 /\ DOMAIN s = 1..Len(s)
        /\ Len(turns) \in Nat /\ Len(turns) # 0 /\ DOMAIN turns = 1..Len(turns)
    BY <1>2, <1>5
  <2>a. s \in Seq(Nat) /\ turns \in Seq(Nat)
    BY <1>2
  <2>b. /\ all \in Seq(Nat) /\ Len(all) = Len(s) + Len(turns) /\ DOMAIN all = 1..Len(all)
        /\ \A i \in 1..Len(s) : all[i] = s[i]
        /\ \A i \in (Len(s) + 1)..Len(all) : all[i] = turns[i - Len(s)]
    BY ONLY <2>1, <2>2, <2>a
  <2>3. /\ all \in Seq(Nat) /\ Len(all) = Len(s) + Len(turns) /\ DOMAIN all = 1..Len(all)
        /\ \A i \in 1..Len(s) : i \in DOMAIN all /\ all[i] = s[i]
        /\ \A i \in DOMAIN all : i > Len(s) => (i - Len(s) \in 1..Len(turns) /\ all[i] = turns[i - Len(s)])
        /\ \A j \in 1..Len(turns) : j + Len(s) \in DOMAIN all /\ all[j + Len(s)] = turns[j]
    <3>1. \A i \in 1..Len(s) : i \in DOMAIN all
      BY ONLY <2>2, <2>b
    <3>2. \A i \in DOMAIN all : i > Len(s) => (i \in (Len(s) + 1)..Len(all) /\ i - Len(s) \in 1..Len(turns))
      BY ONLY <2>2, <2>b
    <3>3. \A j \in 1..Len(turns) : /\ j + Len(s) \in DOMAIN all /\ j + Len(s) \in (Len(s) + 1)..Len(all)
                                   /\ (j + Len(s)) - Len(s) = j
      BY ONLY <2>2, <2>b
    <3> QED
      BY ONLY <2>b, <3>1, <3>2, <3>3
  <2>4. \A i \in DOMAIN s : s[i] \in Nat /\ s[i] < c
    BY <1>2 DEF Listing
  <2>5. \A j \in DOMAIN turns : turns[j] \in Nat /\ c <= turns[j] /\ turns[j] <= turns[Len(turns)]
    BY <1>3, EndsOf DEF Stretch
  <2>6. Increasing(all)
    <3>1. SUFFICES ASSUME NEW i \in DOMAIN all, NEW j \in DOMAIN all, i < j PROVE all[i] < all[j]
      BY DEF Increasing
    <3>2. i \in Int /\ j \in Int /\ 1 <= i /\ i <= Len(all) /\ 1 <= j /\ j <= Len(all)
      BY <2>2, <2>3
    <3>3. CASE j <= Len(s)
      <4>1. i \in DOMAIN s /\ j \in DOMAIN s
        BY <2>2, <3>1, <3>2, <3>3
      <4> QED
        BY <1>2, <2>2, <2>3, <3>1, <4>1 DEF Increasing
    <3>4. CASE i > Len(s)
      <4>0. i - Len(s) < j - Len(s) /\ j > Len(s)
        BY ONLY <2>2, <3>1, <3>2, <3>4
      <4>1. i - Len(s) \in DOMAIN turns /\ j - Len(s) \in DOMAIN turns /\ i - Len(s) < j - Len(s)
        BY ONLY <2>2, <2>3, <3>4, <4>0, i \in DOMAIN all, j \in DOMAIN all
      <4>2. all[i] = turns[i - Len(s)] /\ all[j] = turns[j - Len(s)]
        BY ONLY <2>2, <2>3, <3>4, <4>0, i \in DOMAIN all, j \in DOMAIN all
      <4> QED
        BY <1>3, <4>1, <4>2 DEF Increasing, Stretch
    <3>5. CASE i <= Len(s) /\ j > Len(s)
      <4>1. i \in DOMAIN s /\ all[i] = s[i]
        BY <2>2, <2>3, <3>2, <3>5
      <4>2. j - Len(s) \in DOMAIN turns /\ all[j] = turns[j - Len(s)]
        BY <2>2, <2>3, <3>2, <3>5
      <4>3. s[i] \in Nat /\ s[i] < c /\ turns[j - Len(s)] \in Nat /\ c <= turns[j - Len(s)]
        BY <2>4, <2>5, <4>1, <4>2
      <4> QED
        BY <4>1, <4>2, <4>3
    <3> QED
      BY <2>2, <3>2, <3>3, <3>4, <3>5
  <2>7. \A x : x \in Listing(all) <=> x \in Listing(s) \/ x \in Listing(turns)
    <3>1. ASSUME NEW x \in Listing(all) PROVE x \in Listing(s) \/ x \in Listing(turns)
      <4>1. PICK i \in DOMAIN all : x = all[i]
        BY <3>1 DEF Listing
      <4>2. i \in Int /\ 1 <= i
        BY <2>2, <2>3, <4>1
      <4>3. CASE i <= Len(s)
        <5>1. i \in DOMAIN s /\ x = s[i]
          BY <2>2, <2>3, <4>1, <4>2, <4>3
        <5> QED
          BY <5>1 DEF Listing
      <4>4. CASE i > Len(s)
        <5>1. i - Len(s) \in DOMAIN turns /\ x = turns[i - Len(s)]
          BY <2>2, <2>3, <4>1, <4>2, <4>4
        <5> QED
          BY <5>1 DEF Listing
      <4> QED
        BY <2>2, <4>2, <4>3, <4>4
    <3>2. ASSUME NEW x \in Listing(s) PROVE x \in Listing(all)
      <4>1. PICK i \in DOMAIN s : x = s[i]
        BY <3>2 DEF Listing
      <4>2. i \in DOMAIN all /\ all[i] = x
        BY <2>2, <2>3, <4>1
      <4> QED
        BY <4>2 DEF Listing
    <3>3. ASSUME NEW x \in Listing(turns) PROVE x \in Listing(all)
      <4>1. PICK j \in DOMAIN turns : x = turns[j]
        BY <3>3 DEF Listing
      <4>2. j + Len(s) \in DOMAIN all /\ all[j + Len(s)] = x
        BY <2>2, <2>3, <4>1
      <4> QED
        BY <4>2 DEF Listing
    <3> QED
      BY <3>1, <3>2, <3>3
  <2>8. all[1] = s[1] /\ all[Len(all)] = turns[Len(turns)] /\ s[1] \in Listing(s)
    <3>1. 1 \in 1..Len(s) /\ Len(turns) \in 1..Len(turns) /\ Len(turns) + Len(s) = Len(all)
      BY <2>2, <2>3
    <3> QED
      BY <2>2, <2>3, <3>1 DEF Listing
  <2>9. ASSUME NEW k \in S, all[1] <= k, k <= all[Len(all)] PROVE k \in Listing(all)
    <3>0. k \in Int /\ c \in Int
      OBVIOUS
    <3>1. CASE k < c
      BY <1>2, <2>7, <2>8, <2>9, <3>1
    <3>2. CASE c <= k
      BY <1>3, <2>7, <2>8, <2>9, <3>2 DEF Stretch
    <3> QED
      BY <3>0, <3>1, <3>2
  <2>10. Stretch(all, S)
    <3>1. Listing(all) \subseteq S
      BY <1>2, <1>3, <2>7 DEF Stretch
    <3> QED
      BY <2>6, <2>9, <3>1 DEF Stretch
  <2>11. all # <<>>
    BY <2>2, <2>3
  <2>12. (page.more <=> \E k \in S : k < all[1]) /\ (page.more => page.next = all[1])
    BY <1>2, <1>5, <2>8
  <2> QED
    BY <1>1, <2>1, <2>10, <2>11, <2>12 DEF Whole
<1> QED
  BY <1>4, <1>5

-----------------------------------------------------------------------------
(* The inductive invariant of the drawer.                                    *)

\* The turns of the open conversation, but for those that came behind the reader.
Own == TurnsOf(drawer.thread) \ missed

DrawerTypes ==
  /\ turnTable \in Seq(Threads) /\ Len(turnTable) <= MaxStored
  /\ visible \subseteq DOMAIN turnTable /\ missed \subseteq visible
  /\ drawer \in [thread : Threads \cup {NoThread}, turns : Seq(TurnIds), cursor : Cursors,
                 hasMore : BOOLEAN, loadingOlder : BOOLEAN]
  /\ pages \subseteq [thread : Threads, cursor : Cursors, older : BOOLEAN, late : BOOLEAN,
                      reply : {"none", "page", "broken"},
                      page : [items : Seq(TurnIds), next : Cursors, more : BOOLEAN]]
  /\ mixed \in BOOLEAN

\* One call of each kind, and the button tells whether older messages are on their way.
OneCall ==
  /\ \A p, q \in pages : p.older = q.older => p = q
  /\ drawer.loadingOlder <=> \E p \in pages : p.older

\* A drawer that is closed waits for nothing.
NothingOpen == drawer.thread = NoThread => pages = {} /\ ~drawer.hasMore

\* While the first page is awaited nothing of the conversation is shown and no
\* older messages of it have been asked for.
FirstCalls ==
  \A p \in pages : ~p.older =>
    /\ p.thread = drawer.thread /\ p.cursor = 0 /\ ~p.late
    /\ ~mixed => drawer.turns = <<>> /\ drawer.cursor = 0
    /\ \A q \in pages : q.older => q.late

\* Older messages are awaited for what is shown.
OlderCalls ==
  \A p \in pages : p.older /\ ~p.late =>
    /\ ~mixed /\ p.thread = drawer.thread /\ p.cursor = drawer.cursor /\ p.cursor # 0
    /\ drawer.turns # <<>> /\ drawer.hasMore

Served ==
  \A p \in pages : p.reply = "page" /\ ~(p.older /\ p.late) =>
    PageFits(p.page, Own, p.cursor)

History ==
  ~mixed =>
    /\ drawer.turns = <<>> => drawer.cursor = 0
    /\ Whole(drawer.turns, Own, drawer.hasMore, drawer.cursor)

\* What was missed lies behind the reader: before its first page is read nothing
\* is, and from where it reads on, nothing that is still to be read.
Behind ==
  /\ \A p \in pages : ~p.older /\ p.reply = "none" => missed = {}
  /\ /\ ~mixed /\ drawer.turns # <<>> /\ drawer.hasMore
     /\ \A p \in pages : p.older /\ ~p.late => p.reply # "page"
     => \A i \in missed : ~(i < drawer.cursor)
  /\ \A p \in pages : p.reply = "page" /\ ~p.late /\ p.page.more =>
       \A i \in missed : ~(i < p.page.next)

DrawerInv ==
  /\ DrawerTypes /\ OneCall /\ NothingOpen /\ FirstCalls /\ OlderCalls
  /\ Served /\ History /\ Behind

\* Every action of the drawer, and every turn stored, preserves the invariant.
LEMMA DrawerStep == DrawerInv /\ [DrawerNext]_drawerVars => DrawerInv'
<1> SUFFICES ASSUME DrawerInv, [DrawerNext]_drawerVars PROVE DrawerInv'
  OBVIOUS
<1> USE DEF DrawerInv
<1>0. DrawerTypes /\ OneCall /\ NothingOpen /\ FirstCalls /\ OlderCalls /\ Served /\ History /\ Behind
  OBVIOUS
<1>m. MaxStored \in Nat /\ NoThread \notin Threads
  BY DrawerAssumption
<1>n. TurnIds \subseteq Nat /\ Cursors \subseteq Nat /\ drawer.turns \in Seq(Nat)
  <2>1. TurnIds \subseteq Nat /\ Cursors \subseteq Nat
    BY <1>m DEF TurnIds, Cursors
  <2>2. drawer.turns \in Seq(TurnIds)
    BY <1>0 DEF DrawerTypes
  <2> QED
    BY <2>1, <2>2, ListsOfMore
<1>l. visible \subseteq TurnIds /\ Own \in SUBSET (1..MaxStored) /\ Own \subseteq Nat
  <2>1. DOMAIN turnTable = 1..Len(turnTable) /\ Len(turnTable) \in Nat /\ Len(turnTable) <= MaxStored
    BY <1>0 DEF DrawerTypes
  <2>2. DOMAIN turnTable \subseteq 1..MaxStored
    BY <1>m, <2>1
  <2>3. Own \subseteq visible
    BY DEF Own, TurnsOf
  <2> QED
    BY <1>0, <1>m, <2>2, <2>3 DEF DrawerTypes, TurnIds
\* One page at most has been read of the open conversation and not been shown.
<1>o. ASSUME NEW p \in pages, NEW q \in pages, ~p.late, ~q.late PROVE p = q
  <2>1. p.older \in BOOLEAN /\ q.older \in BOOLEAN
    BY <1>0 DEF DrawerTypes
  <2>2. p.older = q.older
    BY <1>0, <1>o, <2>1 DEF FirstCalls
  <2> QED
    BY <1>0, <2>2 DEF OneCall
<1>1. ASSUME NEW t \in Threads, TurnSaved(t) PROVE DrawerInv'
  <2>1. /\ Len(turnTable) < MaxStored /\ turnTable' = Append(turnTable, t) /\ visible' = visible
        /\ drawer' = drawer /\ pages' = pages /\ mixed' = mixed /\ missed' = missed
    BY <1>1 DEF TurnSaved
  <2>2. /\ turnTable' \in Seq(Threads) /\ Len(turnTable') <= MaxStored
        /\ DOMAIN turnTable \subseteq DOMAIN turnTable'
        /\ \A i \in DOMAIN turnTable : turnTable'[i] = turnTable[i]
    BY <1>0, <1>m, <2>1 DEF DrawerTypes
  <2>3. DrawerTypes'
    BY <1>0, <2>1, <2>2 DEF DrawerTypes
  <2>4. Own' = Own
    BY <1>0, <2>1, <2>2 DEF DrawerTypes, Own, TurnsOf
  <2> QED
    BY <1>0, <2>1, <2>3, <2>4
    DEF OneCall, NothingOpen, FirstCalls, OlderCalls, Served, History, Behind
<1>12. ASSUME NEW j \in DOMAIN turnTable \ visible, TurnCommitted(j) PROVE DrawerInv'
  <2>1. /\ visible' = visible \cup {j} /\ turnTable' = turnTable
        /\ drawer' = drawer /\ pages' = pages /\ mixed' = mixed
    BY <1>12 DEF TurnCommitted
  <2>2. \/ /\ missed' = missed \cup {j} /\ turnTable[j] = drawer.thread
           /\ DrawerCovers(j) \/ \E p \in pages : PageCovers(p, j)
        \/ missed' = missed /\ turnTable[j] # drawer.thread
        \/ /\ missed' = missed /\ turnTable[j] = drawer.thread
           /\ ~DrawerCovers(j) /\ \A p \in pages : ~PageCovers(p, j)
    BY <1>12 DEF TurnCommitted
  <2>3. j \in Nat /\ j \notin Own /\ j \notin visible
    <3>1. DOMAIN turnTable \subseteq Nat
      BY <1>0 DEF DrawerTypes
    <3> QED
      BY <3>1 DEF Own, TurnsOf
  <2>4. DrawerTypes'
    BY <1>0, <2>1, <2>2 DEF DrawerTypes
  <2>5. OneCall' /\ NothingOpen' /\ FirstCalls' /\ OlderCalls'
    BY <1>0, <2>1 DEF OneCall, NothingOpen, FirstCalls, OlderCalls
  <2>6. CASE /\ missed' = missed /\ turnTable[j] = drawer.thread
             /\ ~DrawerCovers(j) /\ \A p \in pages : ~PageCovers(p, j)
    <3>1. Own' = Own \cup {j}
      BY <1>0, <2>1, <2>3, <2>6 DEF Own, TurnsOf, DrawerTypes
    <3>2. ASSUME NEW p \in pages, p.reply = "page", ~(p.older /\ p.late)
          PROVE  PageFits(p.page, Own \cup {j}, p.cursor)
      <4>1. PageFits(p.page, Own, p.cursor) /\ p.cursor \in Nat /\ ~p.late
        BY <1>0, <1>n, <3>2 DEF Served, DrawerTypes, FirstCalls
      <4>2. p.page.items \in Seq(TurnIds)
        BY <1>0 DEF DrawerTypes
      <4>3. Last(p.page.items) = p.page.items[Len(p.page.items)]
        BY <4>2 DEF Last
      <4>4. ~ /\ p.page.more => p.page.next <= j
              /\ IF p.cursor = 0 THEN p.page.items # <<>> /\ j < p.page.items[Len(p.page.items)]
                                 ELSE j < p.cursor
        BY <2>6, <3>2, <4>1, <4>3 DEF PageCovers
      <4>5. Own \subseteq Nat /\ j \in Nat /\ j \notin Own
        BY <1>l, <2>3
      <4> QED
        BY ONLY <4>1, <4>4, <4>5, PageStillFits
    <3>3. Served'
      BY <2>1, <3>1, <3>2 DEF Served
    <3>4. ASSUME ~mixed PROVE Whole(drawer.turns, Own \cup {j}, drawer.hasMore, drawer.cursor)
      <4>1. Whole(drawer.turns, Own, drawer.hasMore, drawer.cursor)
        BY <1>0, <3>4 DEF History
      <4>2. Last(drawer.turns) = drawer.turns[Len(drawer.turns)]
        BY <1>n DEF Last
      <4>3. ~((drawer.hasMore => drawer.cursor <= j) /\ drawer.turns # <<>>
              /\ j < drawer.turns[Len(drawer.turns)])
        BY <2>6, <3>4, <4>2 DEF DrawerCovers
      <4>4. Own \subseteq Nat /\ j \in Nat /\ j \notin Own /\ drawer.turns \in Seq(Nat)
        BY <1>l, <1>n, <2>3
      <4> QED
        BY ONLY <4>1, <4>3, <4>4, StillWhole
    <3>5. History'
      BY <1>0, <2>1, <3>1, <3>4 DEF History
    <3>6. Behind'
      BY <1>0, <2>1, <2>6 DEF Behind
    <3> QED
      BY <2>4, <2>5, <3>3, <3>5, <3>6
  <2>7. CASE \/ /\ missed' = missed \cup {j} /\ turnTable[j] = drawer.thread
                /\ DrawerCovers(j) \/ \E p \in pages : PageCovers(p, j)
             \/ missed' = missed /\ turnTable[j] # drawer.thread
    <3>1. Own' = Own
      BY <1>0, <2>1, <2>3, <2>7 DEF Own, TurnsOf, DrawerTypes
    <3>2. Served' /\ History'
      BY <1>0, <2>1, <3>1 DEF Served, History
    <3>3. CASE missed' = missed
      BY <1>0, <2>1, <2>4, <2>5, <3>2, <3>3 DEF Behind
    <3>4. CASE missed' # missed
      <4>1. missed' = missed \cup {j} /\ (DrawerCovers(j) \/ \E p \in pages : PageCovers(p, j))
        BY <2>7, <3>4
      <4>2. ASSUME NEW p \in pages, ~p.older, p.reply = "none" PROVE FALSE
        <5>1. ~p.late /\ (~mixed => drawer.turns = <<>>)
          BY <1>0, <4>2 DEF FirstCalls
        <5>2. PICK q \in pages : PageCovers(q, j)
          BY <4>1, <5>1 DEF DrawerCovers
        <5>3. q = p
          BY <1>o, <5>1, <5>2 DEF PageCovers
        <5> QED
          BY <4>2, <5>2, <5>3 DEF PageCovers
      <4>3. ASSUME ~mixed, drawer.turns # <<>>, drawer.hasMore,
                   \A p \in pages : p.older /\ ~p.late => p.reply # "page"
            PROVE  ~(j < drawer.cursor)
        <5>1. \A p \in pages : p.older
          BY <1>0, <4>3 DEF FirstCalls
        <5>2. DrawerCovers(j)
          BY <4>1, <4>3, <5>1 DEF PageCovers
        <5>3. drawer.cursor \in Nat
          BY <1>0, <1>n DEF DrawerTypes
        <5> QED
          BY <2>3, <4>3, <5>2, <5>3 DEF DrawerCovers
      <4>4. ASSUME NEW p \in pages, p.reply = "page", ~p.late, p.page.more PROVE ~(j < p.page.next)
        <5>1. p.page.next \in Nat /\ p.cursor \in Nat /\ drawer.cursor \in Nat
          BY <1>0, <1>n DEF DrawerTypes
        <5>2. CASE \E q \in pages : PageCovers(q, j)
          <6>1. PageCovers(p, j)
            BY <1>o, <4>4, <5>2 DEF PageCovers
          <6> QED
            BY <2>3, <4>4, <5>1, <6>1 DEF PageCovers
        <5>3. CASE DrawerCovers(j)
          <6>1. p.older
            BY <1>0, <5>3 DEF FirstCalls, DrawerCovers
          <6>2. p.cursor = drawer.cursor /\ p.cursor # 0 /\ drawer.hasMore
            BY <1>0, <4>4, <6>1 DEF OlderCalls
          <6>3. p.page.next < p.cursor
            BY <1>0, <4>4, <6>1, <6>2, NextIsBefore DEF Served
          <6> QED
            BY <2>3, <5>1, <5>3, <6>2, <6>3 DEF DrawerCovers
        <5> QED
          BY <4>1, <5>2, <5>3
      <4>5. Behind'
        BY <1>0, <2>1, <4>1, <4>2, <4>3, <4>4 DEF Behind
      <4> QED
        BY <2>4, <2>5, <3>2, <4>5
    <3> QED
      BY <3>3, <3>4
  <2> QED
    BY <2>2, <2>6, <2>7
<1>2. ASSUME NEW t \in Threads, OpensThread(t) PROVE DrawerInv'
  <2>1. /\ t # drawer.thread /\ turnTable' = turnTable /\ mixed' = FALSE
        /\ visible' = visible /\ missed' = {}
        /\ drawer' = IF drawer.thread = NoThread THEN EmptyDrawer(t)
                     ELSE [drawer EXCEPT !.thread = t, !.turns = <<>>, !.cursor = 0]
        /\ pages' = {[p EXCEPT !.late = TRUE] : p \in {q \in pages : q.older}}
                    \cup {PageCall(t, 0, FALSE)}
    BY <1>2 DEF OpensThread, table
  <2>2. /\ drawer'.thread = t /\ drawer'.turns = <<>> /\ drawer'.cursor = 0
        /\ drawer'.hasMore \in BOOLEAN
        /\ drawer'.loadingOlder = IF drawer.thread = NoThread THEN FALSE ELSE drawer.loadingOlder
        /\ drawer' \in [thread : Threads \cup {NoThread}, turns : Seq(TurnIds), cursor : Cursors,
                        hasMore : BOOLEAN, loadingOlder : BOOLEAN]
    <3>1. <<>> \in Seq(TurnIds) /\ 0 \in Cursors
      BY <1>m DEF Cursors
    <3> QED
      BY <1>0, <2>1, <3>1 DEF DrawerTypes, EmptyDrawer
  <2>a. PICK first : first = PageCall(t, 0, FALSE)
    OBVIOUS
  <2>3. /\ first = PageCall(t, 0, FALSE)
        /\ first.thread = t /\ first.cursor = 0 /\ first.older = FALSE /\ first.reply = "none"
        /\ first.late = FALSE
    BY <2>a DEF PageCall
  <2>4. first \in [thread : Threads, cursor : Cursors, older : BOOLEAN, late : BOOLEAN,
                   reply : {"none", "page", "broken"},
                   page : [items : Seq(TurnIds), next : Cursors, more : BOOLEAN]]
    <3>1. <<>> \in Seq(TurnIds) /\ 0 \in Cursors
      BY <1>m DEF Cursors
    <3> QED
      BY <2>3, <3>1 DEF PageCall
  <2>5. \A p \in pages' : p = first \/ \E q \in pages : q.older /\ p = [q EXCEPT !.late = TRUE]
    BY <2>1, <2>3
  <2>6. ASSUME NEW q \in pages, NEW p, p = [q EXCEPT !.late = TRUE], q.older
        PROVE  /\ p \in [thread : Threads, cursor : Cursors, older : BOOLEAN, late : BOOLEAN,
                         reply : {"none", "page", "broken"},
                         page : [items : Seq(TurnIds), next : Cursors, more : BOOLEAN]]
               /\ p.older /\ p.late /\ p.older = TRUE
    BY <1>0, <2>6 DEF DrawerTypes
  <2>7. \A p \in pages' : p = first \/ (p.older = TRUE /\ p.late)
    BY <2>5, <2>6
  <2>8. DrawerTypes'
    <3>1. pages' \subseteq [thread : Threads, cursor : Cursors, older : BOOLEAN, late : BOOLEAN,
                            reply : {"none", "page", "broken"},
                            page : [items : Seq(TurnIds), next : Cursors, more : BOOLEAN]]
      BY <2>4, <2>5, <2>6
    <3> QED
      BY <1>0, <2>1, <2>2, <3>1 DEF DrawerTypes
  <2>9. OneCall'
    <3>1. ASSUME NEW p \in pages', NEW r \in pages', p.older = r.older PROVE p = r
      <4>1. CASE p = first \/ r = first
        BY <2>3, <2>7, <3>1, <4>1
      <4>2. CASE p # first /\ r # first
        <5>1. PICK q1 \in pages : q1.older /\ p = [q1 EXCEPT !.late = TRUE]
          BY <2>5, <4>2
        <5>2. PICK q2 \in pages : q2.older /\ r = [q2 EXCEPT !.late = TRUE]
          BY <2>5, <4>2
        <5>3. q1.older = TRUE /\ q2.older = TRUE
          BY <1>0, <5>1, <5>2 DEF DrawerTypes
        <5> QED
          BY <1>0, <5>1, <5>2, <5>3 DEF OneCall
      <4> QED
        BY <4>1, <4>2
    <3>2. ASSUME drawer'.loadingOlder PROVE \E p \in pages' : p.older
      <4>1. PICK q \in pages : q.older
        BY <1>0, <2>2, <3>2 DEF OneCall
      <4>2. [q EXCEPT !.late = TRUE] \in pages'
        BY <2>1, <4>1
      <4> QED
        BY <2>6, <4>1, <4>2
    <3>3. ASSUME NEW p \in pages', p.older PROVE drawer'.loadingOlder
      <4>1. PICK q \in pages : q.older
        BY <2>3, <2>5, <3>3
      <4>2. drawer.thread # NoThread /\ drawer.loadingOlder
        BY <1>0, <4>1 DEF OneCall, NothingOpen
      <4> QED
        BY <2>2, <4>2
    <3> QED
      BY <3>1, <3>2, <3>3 DEF OneCall
  <2>10. NothingOpen' /\ FirstCalls' /\ OlderCalls' /\ Served'
    <3>1. NothingOpen'
      BY <1>m, <2>2 DEF NothingOpen
    <3>2. FirstCalls'
      BY <2>1, <2>2, <2>3, <2>7 DEF FirstCalls
    <3>3. OlderCalls'
      BY <2>3, <2>7 DEF OlderCalls
    <3>4. Served'
      BY <2>3, <2>7 DEF Served
    <3> QED
      BY <3>1, <3>2, <3>3, <3>4
  <2>11. History'
    BY <2>2 DEF History, Whole
  <2>12. Behind'
    BY <2>1 DEF Behind
  <2> QED
    BY <2>8, <2>9, <2>10, <2>11, <2>12
\* A reply leaves everything but itself as it is.
<1>3. ASSUME NEW p \in pages, p.reply = "none", NEW q,
             q \in [thread : Threads, cursor : Cursors, older : BOOLEAN, late : BOOLEAN,
                    reply : {"none", "page", "broken"},
                    page : [items : Seq(TurnIds), next : Cursors, more : BOOLEAN]],
             q.thread = p.thread, q.cursor = p.cursor, q.older = p.older, q.late = p.late,
             q.reply = "page" /\ ~(q.older /\ q.late) =>
               PageFits(q.page, Own, q.cursor),
             q.reply = "page" /\ ~q.late /\ q.page.more => \A i \in missed : ~(i < q.page.next),
             q.reply # "none",
             pages' = (pages \ {p}) \cup {q},
             turnTable' = turnTable, visible' = visible, drawer' = drawer, mixed' = mixed,
             missed' = missed
      PROVE  DrawerInv'
  <2>1. \A r \in pages' : r = q \/ (r \in pages /\ r # p)
    BY <1>3
  <2>2. DrawerTypes'
    <3>1. pages' \subseteq [thread : Threads, cursor : Cursors, older : BOOLEAN, late : BOOLEAN,
                            reply : {"none", "page", "broken"},
                            page : [items : Seq(TurnIds), next : Cursors, more : BOOLEAN]]
      BY <1>0, <1>3, <2>1 DEF DrawerTypes
    <3> QED
      BY <1>0, <1>3, <3>1 DEF DrawerTypes
  <2>3. OneCall'
    <3>1. ASSUME NEW r \in pages', NEW u \in pages', r.older = u.older PROVE r = u
      BY <1>0, <1>3, <2>1, <3>1 DEF OneCall
    <3>2. (\E r \in pages' : r.older) <=> \E r \in pages : r.older
      BY <1>3, <2>1
    <3> QED
      BY <1>0, <1>3, <3>1, <3>2 DEF OneCall
  <2>4. NothingOpen'
    BY <1>0, <1>3 DEF NothingOpen
  <2>5. FirstCalls'
    BY <1>0, <1>3, <2>1 DEF FirstCalls
  <2>6. OlderCalls'
    BY <1>0, <1>3, <2>1 DEF OlderCalls
  <2>o. Own' = Own
    BY <1>3 DEF Own, TurnsOf
  <2>7. Served'
    BY <1>0, <1>3, <2>1, <2>o DEF Served
  <2>8. History'
    BY <1>0, <1>3, <2>o DEF History
  <2>9. Behind'
    <3>1. \A r \in pages : r.older /\ ~r.late => r = p \/ r \in pages'
      BY <1>3
    <3>2. (\A r \in pages' : r.older /\ ~r.late => r.reply # "page")
            => \A r \in pages : r.older /\ ~r.late => r.reply # "page"
      BY <1>3, <3>1
    <3> QED
      BY <1>0, <1>3, <2>1, <3>2 DEF Behind
  <2> QED
    BY <2>2, <2>3, <2>4, <2>5, <2>6, <2>7, <2>8, <2>9
<1>4. ASSUME NEW p \in pages, ServeTurns(p) PROVE DrawerInv'
  <2>1. PICK page : page = ListTurns(p)
    OBVIOUS
  <2>2. PICK q : q = [p EXCEPT !.reply = "page", !.page = page]
    OBVIOUS
  <2>3. /\ p.reply = "none" /\ pages' = (pages \ {p}) \cup {q}
        /\ turnTable' = turnTable /\ visible' = visible /\ drawer' = drawer /\ mixed' = mixed
        /\ missed' = missed
    BY <1>4, <2>1, <2>2 DEF ServeTurns, table
  <2>4. p \in [thread : Threads, cursor : Cursors, older : BOOLEAN, late : BOOLEAN,
               reply : {"none", "page", "broken"},
               page : [items : Seq(TurnIds), next : Cursors, more : BOOLEAN]]
    BY <1>0 DEF DrawerTypes
  <2>5. PICK S : S = TurnsOf(p.thread)
    OBVIOUS
  <2>6. page = CursorPageOf(Newest({i \in S : p.cursor = 0 \/ i < p.cursor},
                                   PageLimit + 1), PageLimit)
    BY <2>1, <2>5 DEF ListTurns
  <2>7. p.cursor \in 0..MaxStored /\ S \in SUBSET (1..MaxStored)
    <3>1. S \subseteq visible
      BY <2>5 DEF TurnsOf
    <3> QED
      BY <1>l, <2>4, <3>1 DEF Cursors, TurnIds
  <2>8. /\ PageFits(page, S, p.cursor)
        /\ page \in [items : Seq(1..MaxStored), next : 0..MaxStored, more : BOOLEAN]
    BY ONLY <1>m, <2>6, <2>7, PageIs
  <2>9. /\ q \in [thread : Threads, cursor : Cursors, older : BOOLEAN, late : BOOLEAN,
                  reply : {"none", "page", "broken"},
                  page : [items : Seq(TurnIds), next : Cursors, more : BOOLEAN]]
        /\ q.thread = p.thread /\ q.cursor = p.cursor /\ q.older = p.older /\ q.late = p.late
        /\ q.page = page /\ q.reply = "page"
    BY <2>2, <2>4, <2>8 DEF TurnIds, Cursors
  \* Nothing that was missed is still to be read.
  <2>10. ASSUME ~(p.older /\ p.late)
         PROVE  /\ PageFits(page, Own, p.cursor)
                /\ page.more => \A i \in missed : ~(i < page.next)
    <3>1. CASE ~p.older
      <4>1. p.thread = drawer.thread /\ missed = {}
        BY <1>0, <2>3, <3>1 DEF FirstCalls, Behind
      <4>2. Own = S
        BY <2>5, <4>1 DEF Own
      <4> QED
        BY <2>8, <4>1, <4>2
    <3>2. CASE p.older
      <4>1. /\ ~mixed /\ p.thread = drawer.thread /\ p.cursor = drawer.cursor /\ p.cursor # 0
            /\ drawer.turns # <<>> /\ drawer.hasMore
        BY <1>0, <2>10, <3>2 DEF OlderCalls
      <4>2. \A r \in pages : r.older /\ ~r.late => r.reply # "page"
        BY <1>o, <2>3, <2>10, <3>2
      <4>3. \A i \in missed : ~(i < p.cursor)
        BY <1>0, <4>1, <4>2 DEF Behind
      <4>4. {i \in Own : p.cursor = 0 \/ i < p.cursor} = {i \in S : p.cursor = 0 \/ i < p.cursor}
        BY <2>5, <4>1, <4>3 DEF Own
      <4>5. PageFits(page, Own, p.cursor)
        BY ONLY <1>l, <1>m, <2>6, <2>7, <4>4, PageIs
      <4>6. page.more => page.next < p.cursor
        BY <4>1, <4>5, NextIsBefore
      <4>7. page.next \in Nat /\ p.cursor \in Nat /\ missed \subseteq Nat
        BY <1>0, <1>l, <1>n, <2>4, <2>8 DEF DrawerTypes, Cursors
      <4>8. ASSUME page.more, NEW i \in missed PROVE ~(i < page.next)
        BY <4>3, <4>6, <4>7, <4>8
      <4> QED
        BY <4>5, <4>8
    <3> QED
      BY <3>1, <3>2
  <2> QED
    BY <1>3, <2>3, <2>9, <2>10
<1>5. ASSUME NEW p \in pages, PageBreaks(p) PROVE DrawerInv'
  <2>1. PICK q : q = [p EXCEPT !.reply = "broken"]
    OBVIOUS
  <2>2. /\ p.reply = "none" /\ pages' = (pages \ {p}) \cup {q}
        /\ turnTable' = turnTable /\ visible' = visible /\ drawer' = drawer /\ mixed' = mixed
        /\ missed' = missed
    BY <1>5, <2>1 DEF PageBreaks, table
  <2>3. /\ q \in [thread : Threads, cursor : Cursors, older : BOOLEAN, late : BOOLEAN,
                  reply : {"none", "page", "broken"},
                  page : [items : Seq(TurnIds), next : Cursors, more : BOOLEAN]]
        /\ q.thread = p.thread /\ q.cursor = p.cursor /\ q.older = p.older /\ q.late = p.late
        /\ q.reply = "broken"
    BY <1>0, <2>1 DEF DrawerTypes
  <2> QED
    BY <1>3, <2>2, <2>3
<1>6. ASSUME NEW p \in pages, FirstPage(p) PROVE DrawerInv'
  <2>1. /\ ~p.older /\ p.reply = "page" /\ turnTable' = turnTable /\ mixed' = FALSE
        /\ visible' = visible /\ missed' = missed
        /\ pages' = pages \ {p}
        /\ drawer' = [drawer EXCEPT !.turns = p.page.items, !.cursor = p.page.next,
                                    !.hasMore = p.page.more]
    BY <1>6 DEF FirstPage, table
  <2>2. /\ p.page.items \in Seq(TurnIds) /\ p.page.next \in Cursors /\ p.page.more \in BOOLEAN
        /\ p.older = FALSE
    BY <1>0, <2>1 DEF DrawerTypes
  <2>3. /\ drawer'.thread = drawer.thread /\ drawer'.loadingOlder = drawer.loadingOlder
        /\ drawer'.turns = p.page.items /\ drawer'.cursor = p.page.next /\ drawer'.hasMore = p.page.more
        /\ drawer' \in [thread : Threads \cup {NoThread}, turns : Seq(TurnIds), cursor : Cursors,
                        hasMore : BOOLEAN, loadingOlder : BOOLEAN]
    BY <1>0, <2>1, <2>2 DEF DrawerTypes
  <2>4. \A q \in pages' : q \in pages /\ q # p
    BY <2>1
  <2>5. DrawerTypes'
    BY <1>0, <2>1, <2>3, <2>4 DEF DrawerTypes
  <2>6. \A q \in pages : q # p => q.older /\ q.late
    <3>1. ASSUME NEW q \in pages, q # p PROVE q.older
      <4>1. q.older \in BOOLEAN /\ q.older # p.older
        BY <1>0, <3>1 DEF DrawerTypes, OneCall
      <4> QED
        BY <2>2, <4>1
    <3> QED
      BY <1>0, <2>1, <3>1 DEF FirstCalls
  <2>7. OneCall'
    <3>1. (\E r \in pages' : r.older) <=> \E r \in pages : r.older
      BY <2>1
    <3> QED
      BY <1>0, <2>3, <2>4, <3>1 DEF OneCall
  <2>8. NothingOpen'
    BY <1>0, <2>3 DEF NothingOpen
  <2>9. FirstCalls' /\ OlderCalls' /\ Served'
    BY <2>4, <2>6 DEF FirstCalls, OlderCalls, Served
  <2>10. p.thread = drawer.thread /\ PageFits(p.page, Own, 0) /\ ~p.late
    BY <1>0, <2>1 DEF FirstCalls, Served
  <2>o. Own' = Own
    BY <2>1, <2>3 DEF Own, TurnsOf
  <2>11. History'
    BY <2>1, <2>2, <2>3, <2>10, <2>o, FirstPageIsWhole DEF History
  <2>12. Behind'
    BY <1>0, <2>1, <2>3, <2>4, <2>6, <2>10 DEF Behind
  <2> QED
    BY <2>5, <2>7, <2>8, <2>9, <2>11, <2>12
<1>7. ASSUME NEW p \in pages, OlderPage(p) PROVE DrawerInv'
  <2>1. /\ p.older /\ p.reply = "page" /\ turnTable' = turnTable /\ mixed' = (mixed \/ p.late)
        /\ visible' = visible /\ missed' = missed
        /\ pages' = pages \ {p}
        /\ drawer' = [drawer EXCEPT !.turns = p.page.items \o @, !.cursor = p.page.next,
                                    !.hasMore = p.page.more, !.loadingOlder = FALSE]
    BY <1>7 DEF OlderPage, WithOlder, table
  <2>2. /\ p.page.items \in Seq(TurnIds) /\ p.page.next \in Cursors /\ p.page.more \in BOOLEAN
        /\ p.older = TRUE /\ p.late \in BOOLEAN /\ mixed \in BOOLEAN /\ drawer.turns \in Seq(TurnIds)
    BY <1>0, <2>1 DEF DrawerTypes
  <2>3. p.page.items \o drawer.turns \in Seq(TurnIds)
    BY <2>2
  <2>4. /\ drawer'.thread = drawer.thread /\ drawer'.loadingOlder = FALSE
        /\ drawer'.turns = p.page.items \o drawer.turns
        /\ drawer'.cursor = p.page.next /\ drawer'.hasMore = p.page.more
        /\ drawer' \in [thread : Threads \cup {NoThread}, turns : Seq(TurnIds), cursor : Cursors,
                        hasMore : BOOLEAN, loadingOlder : BOOLEAN]
    BY <1>0, <2>1, <2>2, <2>3 DEF DrawerTypes
  <2>5. \A q \in pages' : q \in pages /\ q # p
    BY <2>1
  <2>6. \A q \in pages : q # p => q.older = FALSE
    <3>1. ASSUME NEW q \in pages, q # p PROVE q.older = FALSE
      <4>1. q.older \in BOOLEAN /\ q.older # p.older
        BY <1>0, <3>1 DEF DrawerTypes, OneCall
      <4> QED
        BY <2>2, <4>1
    <3> QED
      BY <3>1
  <2>7. DrawerTypes'
    <3>1. mixed' \in BOOLEAN
      BY <2>1, <2>2
    <3> QED
      BY <1>0, <2>1, <2>4, <2>5, <3>1 DEF DrawerTypes
  <2>8. OneCall'
    BY <1>0, <2>4, <2>5, <2>6 DEF OneCall
  <2>9. NothingOpen'
    BY <1>0, <2>4 DEF NothingOpen
  \* A first page still awaited makes these late.
  <2>10. FirstCalls'
    <3>1. SUFFICES ASSUME NEW q \in pages', ~q.older
                   PROVE  /\ q.thread = drawer'.thread /\ q.cursor = 0 /\ ~q.late
                          /\ mixed'
                          /\ \A r \in pages' : r.older => r.late
      BY DEF FirstCalls
    <3>2. q.thread = drawer.thread /\ q.cursor = 0 /\ ~q.late /\ \A r \in pages : r.older => r.late
      BY <1>0, <2>5, <3>1 DEF FirstCalls
    <3> QED
      BY <2>1, <2>4, <2>5, <3>2
  <2>11. OlderCalls'
    BY <2>5, <2>6 DEF OlderCalls
  <2>o. Own' = Own
    BY <2>1, <2>4 DEF Own, TurnsOf
  <2>12. Served'
    BY <1>0, <2>1, <2>5, <2>o DEF Served
  <2>13. History'
    <3>1. SUFFICES ASSUME ~mixed, ~p.late
                   PROVE  /\ p.page.items \o drawer.turns # <<>>
                          /\ Whole(p.page.items \o drawer.turns, Own, p.page.more, p.page.next)
      BY <2>1, <2>4, <2>o DEF History
    <3>2. /\ p.thread = drawer.thread /\ p.cursor = drawer.cursor /\ p.cursor # 0
          /\ drawer.turns # <<>> /\ drawer.hasMore
      BY <1>0, <2>1, <3>1 DEF OlderCalls
    <3>3. Whole(drawer.turns, Own, TRUE, p.cursor)
      <4>1. drawer.hasMore = TRUE
        BY <1>0, <3>2 DEF DrawerTypes
      <4> QED
        BY <1>0, <3>1, <3>2, <4>1 DEF History
    <3>4. PageFits(p.page, Own, p.cursor)
      BY <1>0, <2>1, <3>1, <3>2 DEF Served
    <3>5. Own \subseteq Nat /\ p.cursor \in Nat
      <4>1. p.cursor \in Cursors
        BY <1>0 DEF DrawerTypes
      <4> QED
        BY <1>l, <1>n, <4>1
    <3> QED
      BY <1>n, <2>2, <3>2, <3>3, <3>4, <3>5, OlderPageIsWhole
  <2>14. Behind'
    <3>1. \A q \in pages' : ~q.older /\ q.reply = "none" => missed = {}
      BY <1>0, <2>5 DEF Behind
    <3>2. ASSUME ~mixed', p.page.more PROVE \A i \in missed : ~(i < p.page.next)
      BY <1>0, <2>1, <3>2 DEF Behind
    <3>3. \A q \in pages' : q.reply = "page" /\ ~q.late /\ q.page.more =>
            \A i \in missed : ~(i < q.page.next)
      BY <1>0, <2>5 DEF Behind
    <3> QED
      BY <2>1, <2>4, <3>1, <3>2, <3>3 DEF Behind
  <2> QED
    BY <2>7, <2>8, <2>9, <2>10, <2>11, <2>12, <2>13, <2>14
<1>8. ASSUME NEW p \in pages, PageFailed(p) PROVE DrawerInv'
  <2>1. /\ turnTable' = turnTable /\ mixed' = mixed /\ pages' = pages \ {p}
        /\ visible' = visible /\ missed' = missed /\ p.reply = "broken"
        /\ drawer' = [drawer EXCEPT !.loadingOlder = @ /\ ~p.older]
    BY <1>8 DEF PageFailed, table
  <2>2. p.older \in BOOLEAN /\ drawer.loadingOlder \in BOOLEAN
    BY <1>0 DEF DrawerTypes
  <2>3. /\ drawer'.thread = drawer.thread /\ drawer'.turns = drawer.turns
        /\ drawer'.cursor = drawer.cursor /\ drawer'.hasMore = drawer.hasMore
        /\ drawer'.loadingOlder = (drawer.loadingOlder /\ ~p.older)
        /\ drawer' \in [thread : Threads \cup {NoThread}, turns : Seq(TurnIds), cursor : Cursors,
                        hasMore : BOOLEAN, loadingOlder : BOOLEAN]
    BY <1>0, <2>1, <2>2 DEF DrawerTypes
  <2>4. \A q \in pages' : q \in pages /\ q # p
    BY <2>1
  <2>5. DrawerTypes'
    BY <1>0, <2>1, <2>3, <2>4 DEF DrawerTypes
  <2>6. OneCall'
    <3>1. \A q, r \in pages' : q.older = r.older => q = r
      BY <1>0, <2>4 DEF OneCall
    <3>2. ASSUME drawer.loadingOlder, ~p.older PROVE \E q \in pages' : q.older
      BY <1>0, <2>1, <3>2 DEF OneCall
    <3>3. ASSUME NEW q \in pages', q.older PROVE drawer.loadingOlder /\ ~p.older
      <4>1. q.older = TRUE
        BY <1>0, <2>4, <3>3 DEF DrawerTypes
      <4>2. p.older # TRUE
        BY <1>0, <2>4, <4>1 DEF OneCall
      <4> QED
        BY <1>0, <2>2, <2>4, <3>3, <4>2 DEF OneCall
    <3> QED
      BY <2>3, <3>1, <3>2, <3>3 DEF OneCall
  <2>7. NothingOpen'
    BY <1>0, <2>3 DEF NothingOpen
  <2>8. FirstCalls'
    BY <1>0, <2>1, <2>3, <2>4 DEF FirstCalls
  <2>9. OlderCalls'
    BY <1>0, <2>1, <2>3, <2>4 DEF OlderCalls
  <2>o. Own' = Own
    BY <2>1, <2>3 DEF Own, TurnsOf
  <2>10. Served'
    BY <1>0, <2>1, <2>4, <2>o DEF Served
  <2>11. History'
    BY <1>0, <2>1, <2>3, <2>o DEF History
  <2>12. Behind'
    <3>1. (\A q \in pages' : q.older /\ ~q.late => q.reply # "page")
            => \A q \in pages : q.older /\ ~q.late => q.reply # "page"
      BY <2>1
    <3> QED
      BY <1>0, <2>1, <2>3, <2>4, <3>1 DEF Behind
  <2> QED
    BY <2>5, <2>6, <2>7, <2>8, <2>9, <2>10, <2>11, <2>12
<1>9. ASSUME LoadOlder PROVE DrawerInv'
  <2>1. PICK q : q = [PageCall(drawer.thread, drawer.cursor, TRUE) EXCEPT !.late = mixed]
    OBVIOUS
  <2>2. /\ drawer.hasMore /\ drawer.cursor # 0 /\ ~drawer.loadingOlder
        /\ drawer' = [drawer EXCEPT !.loadingOlder = TRUE]
        /\ pages' = pages \cup {q} /\ turnTable' = turnTable /\ mixed' = mixed
        /\ visible' = visible /\ missed' = missed
    BY <1>9, <2>1 DEF LoadOlder, table
  <2>3. drawer.thread \in Threads
    BY <1>0, <2>2 DEF DrawerTypes, NothingOpen
  <2>4. drawer.cursor \in Cursors /\ mixed \in BOOLEAN /\ <<>> \in Seq(TurnIds) /\ 0 \in Cursors
    <3>1. 0 \in Cursors
      BY <1>m DEF Cursors
    <3> QED
      BY <1>0, <3>1 DEF DrawerTypes
  <2>5. /\ q \in [thread : Threads, cursor : Cursors, older : BOOLEAN, late : BOOLEAN,
                  reply : {"none", "page", "broken"},
                  page : [items : Seq(TurnIds), next : Cursors, more : BOOLEAN]]
        /\ q.thread = drawer.thread /\ q.cursor = drawer.cursor /\ q.older = TRUE /\ q.late = mixed
        /\ q.reply = "none"
    BY <2>1, <2>3, <2>4 DEF PageCall
  <2>6. /\ drawer'.thread = drawer.thread /\ drawer'.turns = drawer.turns
        /\ drawer'.cursor = drawer.cursor /\ drawer'.hasMore = drawer.hasMore
        /\ drawer'.loadingOlder = TRUE
        /\ drawer' \in [thread : Threads \cup {NoThread}, turns : Seq(TurnIds), cursor : Cursors,
                        hasMore : BOOLEAN, loadingOlder : BOOLEAN]
    BY <1>0, <2>2 DEF DrawerTypes
  <2>7. \A r \in pages' : r = q \/ (r \in pages /\ r.older = FALSE)
    <3>1. \A r \in pages : r.older = FALSE
      BY <1>0, <2>2 DEF DrawerTypes, OneCall
    <3> QED
      BY <2>2, <3>1
  <2>8. DrawerTypes'
    <3>1. pages' \subseteq [thread : Threads, cursor : Cursors, older : BOOLEAN, late : BOOLEAN,
                            reply : {"none", "page", "broken"},
                            page : [items : Seq(TurnIds), next : Cursors, more : BOOLEAN]]
      BY <1>0, <2>2, <2>5 DEF DrawerTypes
    <3> QED
      BY <1>0, <2>2, <2>6, <3>1 DEF DrawerTypes
  <2>9. OneCall'
    <3>1. ASSUME NEW r \in pages', NEW u \in pages', r.older = u.older PROVE r = u
      BY <1>0, <2>5, <2>7, <3>1 DEF OneCall
    <3>2. \E r \in pages' : r.older
      BY <2>2, <2>5
    <3> QED
      BY <2>6, <3>1, <3>2 DEF OneCall
  <2>10. NothingOpen'
    BY <1>m, <2>3, <2>6 DEF NothingOpen
  <2>11. FirstCalls'
    <3>1. SUFFICES ASSUME NEW r \in pages', ~r.older
                   PROVE  /\ r.thread = drawer'.thread /\ r.cursor = 0 /\ mixed' /\ ~r.late
                          /\ \A u \in pages' : u.older => u.late
      BY DEF FirstCalls
    <3>2. r \in pages
      BY <2>5, <2>7, <3>1
    <3>3. /\ r.thread = drawer.thread /\ r.cursor = 0 /\ mixed /\ ~r.late
          /\ \A u \in pages : u.older => u.late
      BY <1>0, <2>2, <3>1, <3>2 DEF FirstCalls
    <3> QED
      BY <2>2, <2>5, <2>6, <2>7, <3>3
  <2>12. OlderCalls'
    <3>1. SUFFICES ASSUME NEW r \in pages', r.older, ~r.late
                   PROVE  /\ ~mixed' /\ r.thread = drawer'.thread /\ r.cursor = drawer'.cursor
                          /\ r.cursor # 0 /\ drawer'.turns # <<>> /\ drawer'.hasMore
      BY DEF OlderCalls
    <3>2. r = q /\ ~mixed
      BY <2>5, <2>7, <3>1
    <3>3. drawer.turns # <<>>
      BY <1>0, <2>2, <3>2 DEF History
    <3> QED
      BY <2>2, <2>5, <2>6, <3>2, <3>3
  <2>o. Own' = Own
    BY <2>2, <2>6 DEF Own, TurnsOf
  <2>13. Served'
    BY <1>0, <2>2, <2>5, <2>7, <2>o DEF Served
  <2>14. History'
    BY <1>0, <2>2, <2>6, <2>o DEF History
  <2>15. Behind'
    BY <1>0, <2>2, <2>5, <2>6, <2>7 DEF Behind
  <2> QED
    BY <2>8, <2>9, <2>10, <2>11, <2>12, <2>13, <2>14, <2>15
<1>10. ASSUME DrawerCloses PROVE DrawerInv'
  <2>1. /\ drawer' = EmptyDrawer(NoThread) /\ pages' = {} /\ mixed' = FALSE /\ turnTable' = turnTable
        /\ visible' = visible /\ missed' = {}
    BY <1>10 DEF DrawerCloses, table
  <2>2. /\ drawer'.turns = <<>> /\ drawer'.cursor = 0 /\ drawer'.hasMore = FALSE
        /\ drawer'.loadingOlder = FALSE
        /\ drawer' \in [thread : Threads \cup {NoThread}, turns : Seq(TurnIds), cursor : Cursors,
                        hasMore : BOOLEAN, loadingOlder : BOOLEAN]
    <3>1. <<>> \in Seq(TurnIds) /\ 0 \in Cursors
      BY <1>m DEF Cursors
    <3> QED
      BY <2>1, <3>1 DEF EmptyDrawer
  <2>3. DrawerTypes'
    BY <1>0, <2>1, <2>2 DEF DrawerTypes
  <2>4. OneCall' /\ NothingOpen' /\ FirstCalls' /\ OlderCalls' /\ Served' /\ Behind'
    BY <2>1, <2>2 DEF OneCall, NothingOpen, FirstCalls, OlderCalls, Served, Behind
  <2>5. History'
    BY <2>2 DEF History, Whole
  <2> QED
    BY <2>3, <2>4, <2>5
<1>11. ASSUME UNCHANGED drawerVars PROVE DrawerInv'
  <2>1. /\ turnTable' = turnTable /\ visible' = visible /\ drawer' = drawer /\ pages' = pages
        /\ mixed' = mixed /\ missed' = missed
    BY <1>11 DEF drawerVars
  <2>2. Own' = Own
    BY <2>1 DEF Own, TurnsOf
  <2> QED
    BY <1>0, <2>1, <2>2
    DEF DrawerTypes, OneCall, NothingOpen, FirstCalls, OlderCalls, Served, History, Behind
<1> QED
  BY <1>1, <1>12, <1>2, <1>4, <1>5, <1>6, <1>7, <1>8, <1>9, <1>10, <1>11 DEF DrawerNext

LEMMA DrawerStart == DrawerInit => DrawerInv
<1> SUFFICES ASSUME DrawerInit PROVE DrawerInv
  OBVIOUS
<1>1. /\ turnTable = <<>> /\ drawer = EmptyDrawer(NoThread) /\ pages = {} /\ mixed = FALSE
      /\ visible = {} /\ missed = {}
  BY DEF DrawerInit
<1>2. /\ drawer.turns = <<>> /\ drawer.cursor = 0 /\ drawer.hasMore = FALSE
      /\ drawer.loadingOlder = FALSE
      /\ drawer \in [thread : Threads \cup {NoThread}, turns : Seq(TurnIds), cursor : Cursors,
                     hasMore : BOOLEAN, loadingOlder : BOOLEAN]
  <2>1. <<>> \in Seq(TurnIds) /\ 0 \in Cursors
    BY DrawerAssumption DEF Cursors
  <2> QED
    BY <1>1, <2>1 DEF EmptyDrawer
<1>3. turnTable \in Seq(Threads) /\ Len(turnTable) <= MaxStored
  BY <1>1, DrawerAssumption
<1>4. DrawerTypes
  BY <1>1, <1>2, <1>3 DEF DrawerTypes
<1>5. OneCall /\ NothingOpen /\ FirstCalls /\ OlderCalls /\ Served /\ Behind
  BY <1>1, <1>2 DEF OneCall, NothingOpen, FirstCalls, OlderCalls, Served, Behind
<1>6. History
  BY <1>2 DEF History, Whole
<1> QED
  BY <1>4, <1>5, <1>6 DEF DrawerInv

\* A stretch is what InOrder makes of the ids from its first to its last.
LEMMA DrawerTells == DrawerInv => DrawerShowsItsThread
<1> SUFFICES ASSUME DrawerInv PROVE DrawerShowsItsThread
  OBVIOUS
<1>1. DrawerTypeOK
  BY DEF DrawerInv, DrawerTypes, OneCall, DrawerTypeOK
<1>2. SUFFICES ASSUME ~mixed, drawer.turns # <<>>
      PROVE  LET own == TurnsOf(drawer.thread) \ missed
                 from == Head(drawer.turns)
             IN /\ drawer.turns = InOrder({i \in own : from <= i /\ i <= Last(drawer.turns)})
                /\ drawer.hasMore <=> \E i \in own : i < from
                /\ drawer.hasMore => drawer.cursor = from
  BY <1>1 DEF DrawerShowsItsThread, HistoryIsWhole
<1>3. PICK own : own = TurnsOf(drawer.thread) \ missed /\ own = Own
  BY DEF Own
<1>4. /\ drawer.turns \in Seq(TurnIds) /\ turnTable \in Seq(Threads) /\ Len(turnTable) <= MaxStored
      /\ visible \subseteq DOMAIN turnTable
  BY DEF DrawerInv, DrawerTypes
<1>5. MaxStored \in Nat /\ TurnIds \subseteq Nat
  BY DrawerAssumption DEF TurnIds
<1>6. own \in SUBSET (0..MaxStored)
  <2>1. own \in SUBSET (1..MaxStored)
    <3>1. own \subseteq DOMAIN turnTable /\ DOMAIN turnTable = 1..Len(turnTable) /\ Len(turnTable) \in Nat
      BY <1>3, <1>4 DEF TurnsOf
    <3> QED
      BY <1>4, <1>5, <3>1
  <2>2. 1..MaxStored \subseteq 0..MaxStored
    BY <1>5
  <2> QED
    BY <2>1, <2>2
<1>7. drawer.turns \in Seq(Nat)
  BY <1>4, <1>5, ListsOfMore
<1>8. /\ Stretch(drawer.turns, own)
      /\ drawer.hasMore <=> \E i \in own : i < drawer.turns[1]
      /\ drawer.hasMore => drawer.cursor = drawer.turns[1]
  BY <1>2, <1>3 DEF DrawerInv, History, Whole
<1>9. drawer.turns = InOrder({i \in own : drawer.turns[1] <= i /\ i <= drawer.turns[Len(drawer.turns)]})
  BY <1>2, <1>5, <1>6, <1>7, <1>8, StretchIsInOrder
<1>10. Head(drawer.turns) = drawer.turns[1] /\ Last(drawer.turns) = drawer.turns[Len(drawer.turns)]
  BY <1>2, <1>7 DEF Last
<1> QED
  BY <1>3, <1>8, <1>9, <1>10

\* Read page by page from its end while its customer goes on writing, the history
\* in the drawer is one stretch of its conversation, without a gap or a repetition,
\* but for turns committed after a later one, between the two reads.
THEOREM DrawerIsAlwaysTrue == DrawerSpec => []DrawerShowsItsThread
<1>1. DrawerSpec => []DrawerInv
  BY DrawerStart, DrawerStep, PTL DEF DrawerSpec
<1> QED
  BY <1>1, DrawerTells, PTL
=============================================================================
