---------------------------- MODULE Invitations ----------------------------
(***************************************************************************)
(* The invitations of one workspace (invitations.service.ts and            *)
(* invitation-acceptance.service.ts), with the queue that emails them.     *)
(* Every statement outside a transaction commits by itself, so a request   *)
(* is a sequence of steps that others fall between.  The statements of an  *)
(* accepting transaction take effect together, except that the user row a  *)
(* sign-up inserts holds the address until its transaction ends, and that  *)
(* now() is the time the transaction began.                                *)
(*                                                                         *)
(* A token is <<invitation, send_count>>: each send writes a fresh token   *)
(* and increments the count in one statement.  An account is its address.  *)
(* Left out: the ceiling on roles, which no holder of members.invite       *)
(* meets, the send limits (see LimiterPlaces) and the text of the email.    *)
(* Bounds: Ids invitations, MaxSends sends of each.                        *)
(***************************************************************************)
EXTENDS EmailQueue, Sequences

CONSTANTS Ids, Emails, Roles, Requests, None, MaxSends

Sends == 1..MaxSends

ASSUME InvitationAssumption ==
  /\ MaxSends \in Nat \ {0}
  /\ Tags = Ids \X Sends
  /\ None \notin Ids \cup Emails \cup Roles

VARIABLES
  inv,        \* invitations: id -> row
  account,    \* users, by address
  member,     \* memberships: address -> role
  req,        \* what each request in flight has got to
  admitted,   \* history: id -> who came in, by which link
  registered, \* history: accounts that were not made by a sign-up here
  untold      \* history: sends whose enqueueing or outcome was lost

people == <<account, member, registered>>
ledger == <<admitted, untold>>
vars   == <<inv, people, req, ledger, queue>>

Row == [status: {"none", "pending", "accepted", "revoked"}, email: Emails \cup {None},
        role: Roles \cup {None}, send: 0..MaxSends, expired: BOOLEAN,
        mail: {"queued", "sent", "failed"}]

\* op: the step that comes next.  live: what expires_at > now() means in it.
Request == [op: {"idle", "insert", "enqueue", "consume", "hash", "signup"}, id: Ids \cup {None},
            send: 0..MaxSends, email: Emails \cup {None}, role: Roles \cup {None}, live: BOOLEAN]

NoRow  == [status |-> "none", email |-> None, role |-> None, send |-> 0, expired |-> FALSE,
           mail |-> "queued"]
NoWork == [op |-> "idle", id |-> None, send |-> 0, email |-> None, role |-> None, live |-> FALSE]

TypeOK ==
  /\ QueueTypeOK
  /\ inv \in [Ids -> Row]
  /\ account \subseteq Emails
  /\ member \in [Emails -> Roles \cup {None}]
  /\ req \in [Requests -> Request]
  /\ admitted \in [Ids -> Seq(Emails \X Sends)]
  /\ registered \subseteq account
  /\ untold \subseteq Tags

Init ==
  /\ QueueInit
  /\ inv = [i \in Ids |-> NoRow]
  /\ account \in SUBSET Emails
  /\ registered = account
  /\ member = [e \in Emails |-> None]
  /\ req = [r \in Requests |-> NoWork]
  /\ admitted = [i \in Ids |-> <<>>]
  /\ untold = {}

Idle(r)    == req[r] = NoWork
End(r)     == req' = [req EXCEPT ![r] = NoWork]
Pending(i) == inv[i].status = "pending"
Tag(i)     == <<i, inv[i].send>>

\* A token finds the row whose hash it matches: only the newest one does.
Finds(t) == inv[t[1]].send = t[2]

-----------------------------------------------------------------------------
\* The inviter.

\* An id that no row and no request in flight has: rows are numbered on insertion.
Fresh(i) == inv[i].status = "none" /\ \A r \in Requests : req[r].op = "insert" => req[r].id # i

\* create: members are refused, by a read that nothing holds.
CheckNewcomer(r, e, g) ==
  /\ Idle(r) /\ member[e] = None
  /\ \E i \in Ids : /\ Fresh(i)
                    /\ req' = [req EXCEPT ![r] = [NoWork EXCEPT !.op = "insert", !.id = i,
                                                                !.email = e, !.role = g]]
  /\ UNCHANGED <<inv, people, ledger, queue>>

\* create: the partial unique index refuses a second pending row of an address.
InsertInvitation(r) ==
  LET q == req[r] IN
  /\ q.op = "insert"
  /\ IF \E j \in Ids : Pending(j) /\ inv[j].email = q.email
     THEN End(r) /\ UNCHANGED inv
     ELSE /\ inv' = [inv EXCEPT ![q.id] = [status |-> "pending", email |-> q.email,
                                           role |-> q.role, send |-> 1, expired |-> FALSE,
                                           mail |-> "queued"]]
          /\ req' = [req EXCEPT ![r] = [q EXCEPT !.op = "enqueue", !.send = 1]]
  /\ UNCHANGED <<people, ledger, queue>>

\* resend: a conditional update that replaces the token and restarts the clock.
Resend(r, i) ==
  /\ Idle(r) /\ Pending(i) /\ inv[i].send < MaxSends
  /\ inv' = [inv EXCEPT ![i] = [inv[i] EXCEPT !.send = inv[i].send + 1, !.expired = FALSE,
                                              !.mail = "queued"]]
  /\ req' = [req EXCEPT ![r] = [NoWork EXCEPT !.op = "enqueue", !.id = i,
                                              !.send = inv[i].send + 1]]
  /\ UNCHANGED <<people, ledger, queue>>

\* sendInvitationEmail, after the row was committed.
Enqueue(r) ==
  /\ req[r].op = "enqueue"
  /\ Add(<<req[r].id, req[r].send>>)
  /\ End(r)
  /\ UNCHANGED <<inv, people, ledger>>

Revoke(i) ==
  /\ Pending(i)
  /\ inv' = [inv EXCEPT ![i].status = "revoked"]
  /\ UNCHANGED <<people, req, ledger, queue>>

-----------------------------------------------------------------------------
\* The invitee, who has a link only from an email.

\* acceptAsExistingUser begins: the link was sent to the address signed in.
BeginAccept(r, e, t) ==
  /\ Idle(r) /\ e \in account /\ t \in inbox
  /\ Finds(t) /\ inv[t[1]].email = e
  /\ req' = [req EXCEPT ![r] = [NoWork EXCEPT !.op = "consume", !.id = t[1], !.send = t[2],
                                              !.email = e, !.live = ~inv[t[1]].expired]]
  /\ UNCHANGED <<inv, people, ledger, queue>>

\* Mutant of Consumable: a replaced token still counts.
ConsumableById(q) == Pending(q.id) /\ q.live

\* consume: one conditional update both checks and takes the invitation.
Consumable(q) == Finds(<<q.id, q.send>>) /\ Pending(q.id) /\ q.live

\* consume and joinWorkspace: a member keeps the role it has.
Join(q) ==
  /\ inv' = [inv EXCEPT ![q.id].status = "accepted"]
  /\ member' = [member EXCEPT ![q.email] = IF @ = None THEN inv[q.id].role ELSE @]
  /\ admitted' = [admitted EXCEPT ![q.id] = Append(@, <<q.email, q.send>>)]

CommitAccept(r) ==
  LET q == req[r] IN
  /\ q.op = "consume"
  /\ IF Consumable(q) THEN Join(q) ELSE UNCHANGED <<inv, member, admitted>>
  /\ End(r)
  /\ UNCHANGED <<account, registered, untold, queue>>

\* acceptWithSignup: a read that only saves the work of hashing a password.
CheckSignup(r, t) ==
  LET i == t[1] IN
  /\ Idle(r) /\ t \in inbox /\ Finds(t)
  /\ Pending(i) /\ ~inv[i].expired /\ inv[i].email \notin account
  /\ req' = [req EXCEPT ![r] = [NoWork EXCEPT !.op = "hash", !.id = i, !.send = t[2],
                                              !.email = inv[i].email]]
  /\ UNCHANGED <<inv, people, ledger, queue>>

\* A user row that was inserted and is not committed makes others of its address wait.
Held(e) == \E r \in Requests : req[r].op = "signup" /\ req[r].email = e

InsertUser(r) ==
  LET q == req[r] IN
  /\ q.op = "hash" /\ ~Held(q.email)
  /\ IF q.email \in account
     THEN End(r)
     ELSE req' = [req EXCEPT ![r] = [q EXCEPT !.op = "signup", !.live = ~inv[q.id].expired]]
  /\ UNCHANGED <<inv, people, ledger, queue>>

\* Mutant of CommitSignup: the user row is inserted outside the transaction.
CommitSignupUser(r) ==
  LET q == req[r] IN
  /\ q.op = "signup"
  /\ IF Consumable(q) THEN Join(q) ELSE UNCHANGED <<inv, member, admitted>>
  /\ account' = account \cup {q.email}
  /\ End(r)
  /\ UNCHANGED <<registered, untold, queue>>

\* The invitation is consumed and all is committed, or the user row goes too.
CommitSignup(r) ==
  LET q == req[r] IN
  /\ q.op = "signup"
  /\ IF Consumable(q)
     THEN Join(q) /\ account' = account \cup {q.email}
     ELSE UNCHANGED <<inv, member, admitted, account>>
  /\ End(r)
  /\ UNCHANGED <<registered, untold, queue>>

-----------------------------------------------------------------------------
\* Delivery.

\* Mutant of Record: the update matches the invitation only.
RecordById(t, o) == inv' = [inv EXCEPT ![t[1]].mail = o]

\* recordDelivery: matched on the token as well as the id.
Record(t, o) ==
  inv' = IF Finds(t) THEN [inv EXCEPT ![t[1]].mail = o] ELSE inv

\* report: the handler's failure is logged and forgotten.
Told(t, o) ==
  \/ Record(t, o) /\ UNCHANGED untold
  \/ untold' = untold \cup {t} /\ UNCHANGED inv

TellSent(t) == ReportSent(t) /\ Told(t, "sent") /\ UNCHANGED <<people, req, admitted>>

TellFailed(t) == OnFailed(t) /\ Told(t, "failed") /\ UNCHANGED <<people, req, admitted>>

Work(t) == (Send(t) \/ SendFails(t) \/ Complete(t)) /\ UNCHANGED <<inv, people, req, ledger>>

WorkerDies(t) ==
  /\ Stall(t)
  /\ untold' = IF GivesUp(t) THEN untold \cup {t} ELSE untold
  /\ UNCHANGED <<inv, people, req, admitted>>

-----------------------------------------------------------------------------
\* The world around.

Expire(i) ==
  /\ Pending(i)
  /\ inv' = [inv EXCEPT ![i].expired = TRUE]
  /\ UNCHANGED <<people, req, ledger, queue>>

\* AuthService.register: the address is unique, whoever inserts it.
Register(e) ==
  /\ e \notin account /\ ~Held(e)
  /\ account' = account \cup {e}
  /\ registered' = registered \cup {e}
  /\ UNCHANGED <<inv, member, req, ledger, queue>>

LeaveWorkspace(e) ==
  /\ member[e] # None
  /\ member' = [member EXCEPT ![e] = None]
  /\ UNCHANGED <<inv, account, registered, req, ledger, queue>>

\* The process dies, or a statement or Redis refuses: what is uncommitted is undone.
Abort(r) ==
  /\ ~Idle(r)
  /\ End(r)
  /\ untold' = IF req[r].op = "enqueue" THEN untold \cup {<<req[r].id, req[r].send>>}
               ELSE untold
  /\ UNCHANGED <<inv, people, admitted, queue>>

Handle(r) ==
  InsertInvitation(r) \/ Enqueue(r) \/ CommitAccept(r) \/ InsertUser(r) \/ CommitSignup(r)

Start(r) ==
  \/ \E e \in Emails, g \in Roles : CheckNewcomer(r, e, g)
  \/ \E i \in Ids : Resend(r, i)
  \/ \E e \in Emails, t \in Tags : BeginAccept(r, e, t)
  \/ \E t \in Tags : CheckSignup(r, t)

Deliver(t) == Work(t) \/ TellSent(t) \/ TellFailed(t)

Next ==
  \/ \E r \in Requests : Start(r) \/ Handle(r) \/ Abort(r)
  \/ \E t \in Tags : Deliver(t) \/ WorkerDies(t)
  \/ \E i \in Ids : Revoke(i) \/ Expire(i)
  \/ \E e \in Emails : Register(e) \/ LeaveWorkspace(e)

Spec == Init /\ [][Next]_vars

-----------------------------------------------------------------------------
\* Properties.

\* The requests, the queue and the resends implement the contract: a link admits the
\* address it was sent to, once, and only while it is the newest of a pending invitation
\* (the promise of consume, invitation-acceptance.service.ts:149-154).
Contract == INSTANCE InvitationContract
  WITH phase     <- [i \in Ids |-> inv[i].status],
       addressee <- [i \in Ids |-> inv[i].email],
       link      <- [i \in Ids |-> inv[i].send]

ImplementsContract == Contract!CSpec

\* An invitation admits at most once, and whoever came in found it pending.
SingleUse ==
  \A i \in Ids : Len(admitted[i]) = IF inv[i].status = "accepted" THEN 1 ELSE 0

\* A sign-up that lost its invitation leaves no account behind, and no address waits for
\* a transaction that ended (invitation-acceptance.service.ts:131-134).
NoStrayAccount ==
  \A e \in account \ registered :
    \E i \in Ids : inv[i].status = "accepted" /\ inv[i].email = e

\* After its expiry an invitation is accepted only by a transaction that began before it.
AcceptedInTime ==
  [][\A i \in Ids : Pending(i) /\ inv[i].expired /\ inv'[i].status = "accepted"
       => \E r \in Requests : req[r].id = i /\ req[r].live /\ Idle(r)']_vars

\* Coming in again by an invitation never changes the role of a member.
RoleKept ==
  [][\A e \in Emails : member[e] # None => member'[e] \in {member[e], None}]_vars

\* What the table says of an email is true of the newest one: sent means that a mail
\* server has it, failed that the queue no longer tries, whatever reports of a replaced
\* email still arrive (invitations.service.ts:126-128).
DeliveryStatusTrue ==
  \A i \in Ids : /\ inv[i].mail = "sent" => Tag(i) \in inbox
                 /\ inv[i].mail = "failed" => jobs[Tag(i)].at = "none"

\* An email that stays queued is on its way, about to be reported, or its enqueueing or
\* its outcome was lost.
QueuedIsExplained ==
  \A i \in Ids : inv[i].status # "none" /\ inv[i].mail = "queued" =>
    \/ jobs[Tag(i)].at \in {"queued", "accepted"}
    \/ Tag(i) \in failures
    \/ Tag(i) \in untold
    \/ \E r \in Requests : req[r].op = "enqueue" /\ <<req[r].id, req[r].send>> = Tag(i)

\* Administrators are told the truth of each invitation: who came in by it, and what
\* became of its newest email, or which fault kept that from being known.
InvitationsAreTold == TypeOK /\ SingleUse /\ DeliveryStatusTrue /\ QueuedIsExplained
==============================================================================
