------------------------- MODULE InvitationsProofs -------------------------
(***************************************************************************)
(* Proofs about Invitations, for any number of invitations, addresses,     *)
(* requests, sends and delivery attempts.                                  *)
(***************************************************************************)
EXTENDS Invitations, SequenceTheorems, TLAPS

-----------------------------------------------------------------------------
(* The inductive invariant.                                                 *)

\* A row that exists is complete and has been sent; the others are blank.
RowsInv ==
  \A i \in Ids : IF inv[i].status = "none" THEN inv[i] = NoRow
                 ELSE inv[i].send \in Sends /\ inv[i].email \in Emails /\ inv[i].role \in Roles

AboutRow(q)   == q.op \in {"consume", "hash", "signup"}
Enqueueing(r) == req[r].op = "enqueue"
ReqTag(r)     == <<req[r].id, req[r].send>>

\* What a request in flight has read and is still true.
Sound(r) ==
  /\ req[r].op # "idle" => req[r].id \in Ids
  /\ req[r].op = "insert" => /\ req[r].email \in Emails /\ req[r].role \in Roles
                             /\ inv[req[r].id].status = "none"
  /\ AboutRow(req[r]) => /\ req[r].send \in Sends
                         /\ inv[req[r].id].status # "none"
                         /\ inv[req[r].id].email = req[r].email
  /\ Enqueueing(r) => req[r].send \in 1..inv[req[r].id].send

\* No two requests insert one id or enqueue one token.
Apart(r, s) ==
  /\ req[r].op = "insert" /\ req[s].op = "insert" => req[r].id # req[s].id
  /\ Enqueueing(r) /\ Enqueueing(s) => ReqTag(r) # ReqTag(s)

RequestsInv ==
  \A r \in Requests : Sound(r) /\ \A s \in Requests \ {r} : Apart(r, s)

Unsent(t) == jobs[t].at = "none" /\ t \notin inbox /\ t \notin failures

\* What the queue knows of a token, and the table of its newest token.
MailInv ==
  /\ \A t \in Tags : /\ jobs[t].at \in {"accepted", "reported"} => t \in inbox
                     /\ t \in failures => jobs[t].at = "none"
                     /\ t[2] > inv[t[1]].send => Unsent(t)
  /\ \A r \in Requests : Enqueueing(r) => /\ Unsent(ReqTag(r))
                                          /\ Finds(ReqTag(r)) => inv[req[r].id].mail = "queued"

IInv == TypeOK /\ RowsInv /\ RequestsInv /\ MailInv

LEMMA InitInv == Init => IInv
BY InvitationAssumption, QueueAssumption
   DEF Init, QueueInit, IInv, TypeOK, QueueTypeOK, RowsInv, RequestsInv, Sound, Apart, MailInv,
       AboutRow, Enqueueing, Unsent, Row, Request, NoRow, NoWork, NoJob, Sends

-----------------------------------------------------------------------------
(* Types.                                                                   *)

LEMMA TagIsPair ==
  ASSUME NEW t \in Tags
  PROVE  t[1] \in Ids /\ t[2] \in Sends /\ t = <<t[1], t[2]>>
BY InvitationAssumption

\* The queue keeps its types whatever it does.
LEMMA QueueTypes ==
  ASSUME QueueTypeOK, NEW t \in Tags,
         Add(t) \/ Send(t) \/ ReportSent(t) \/ Complete(t) \/ SendFails(t) \/ Stall(t) \/ OnFailed(t)
  PROVE  QueueTypeOK'
<1> USE QueueAssumption DEF QueueTypeOK
<1>1. CASE Add(t)
  BY <1>1 DEF Add, NoJob
<1>2. CASE Send(t)
  BY <1>2 DEF Send
<1>3. CASE ReportSent(t)
  BY <1>3 DEF ReportSent
<1>4. CASE Complete(t)
  BY <1>4 DEF Complete, NoJob
<1>5. CASE SendFails(t)
  BY <1>5 DEF SendFails, NoJob
<1>6. CASE Stall(t)
  <2>1. jobs[t].stalls \in 0..MaxStalls /\ jobs[t].at # "none"
    BY <1>6 DEF Stall
  <2>2. CASE GivesUp(t)
    BY <1>6, <2>2 DEF Stall, NoJob
  <2>3. CASE ~GivesUp(t)
    <3>1. jobs[t].stalls + 1 \in 0..MaxStalls
      BY <2>1, <2>3 DEF GivesUp
    <3>2. jobs' = [jobs EXCEPT ![t] = [jobs[t] EXCEPT !.at = "queued",
                                                      !.stalls = jobs[t].stalls + 1]]
      BY <1>6, <2>3 DEF Stall
    <3>3. QED
      BY <1>6, <3>1, <3>2 DEF Stall
  <2>4. QED
    BY <2>2, <2>3
<1>7. CASE OnFailed(t)
  BY <1>7 DEF OnFailed
<1>8. QED
  BY <1>1, <1>2, <1>3, <1>4, <1>5, <1>6, <1>7

LEMMA QueueSame ==
  ASSUME QueueTypeOK, UNCHANGED queue
  PROVE  QueueTypeOK'
BY DEF QueueTypeOK, queue

\* A blank request and a blank row are well formed.
LEMMA BlankTypes == NoWork \in Request /\ NoRow \in Row
BY InvitationAssumption DEF NoWork, NoRow, Request, Row, Sends

\* joinWorkspace, for a request that found its row.
LEMMA JoinTypes ==
  ASSUME TypeOK, RowsInv, NEW q \in Request, q.id \in Ids, q.send \in Sends,
         q.email = inv[q.id].email, inv[q.id].status # "none", Join(q)
  PROVE  /\ inv' \in [Ids -> Row]
         /\ member' \in [Emails -> Roles \cup {None}]
         /\ admitted' \in [Ids -> Seq(Emails \X Sends)]
<1>1. q.email \in Emails /\ inv[q.id].role \in Roles
  BY DEF RowsInv
<1>2. inv' \in [Ids -> Row]
  <2>1. inv' = [inv EXCEPT ![q.id].status = "accepted"] /\ inv \in [Ids -> Row]
    BY DEF TypeOK, Join
  <2>2. QED
    BY <2>1 DEF Row
<1>3. member' \in [Emails -> Roles \cup {None}]
  BY <1>1 DEF TypeOK, Join
<1>4. Append(admitted[q.id], <<q.email, q.send>>) \in Seq(Emails \X Sends)
  BY <1>1, AppendProperties DEF TypeOK
<1>5. admitted' \in [Ids -> Seq(Emails \X Sends)]
  BY <1>4 DEF TypeOK, Join
<1>6. QED
  BY <1>2, <1>3, <1>5

\* recordDelivery writes a known status, or nothing.
LEMMA ToldTypes ==
  ASSUME TypeOK, NEW t \in Tags, NEW o \in {"sent", "failed"}, Told(t, o)
  PROVE  inv' \in [Ids -> Row] /\ untold' \subseteq Tags
<1>1. CASE Record(t, o) /\ UNCHANGED untold
  <2>1. inv \in [Ids -> Row] /\ untold \subseteq Tags /\ t[1] \in Ids
    BY TagIsPair DEF TypeOK
  <2>2. inv' = inv \/ inv' = [inv EXCEPT ![t[1]].mail = o]
    BY <1>1 DEF Record
  <2>3. inv' \in [Ids -> Row]
    BY <2>1, <2>2 DEF Row
  <2>4. QED
    BY <1>1, <2>1, <2>3
<1>2. CASE untold' = untold \cup {t} /\ UNCHANGED inv
  BY <1>2 DEF TypeOK
<1>3. QED
  BY <1>1, <1>2 DEF Told

\* The types are kept by every step.
LEMMA TypesKept ==
  ASSUME IInv, [Next]_vars
  PROVE  TypeOK'
<1> USE DEF IInv
<1>a. TypeOK /\ QueueTypeOK /\ registered \subseteq account /\ account \subseteq Emails
  BY DEF TypeOK
<1>1. ASSUME NEW r \in Requests, NEW e \in Emails, NEW g \in Roles, CheckNewcomer(r, e, g)
      PROVE  TypeOK'
  <2>1. PICK i \in Ids : req' = [req EXCEPT ![r] = [NoWork EXCEPT !.op = "insert", !.id = i,
                                                                 !.email = e, !.role = g]]
    BY <1>1 DEF CheckNewcomer
  <2>2. req' \in [Requests -> Request]
    <3>1. [NoWork EXCEPT !.op = "insert", !.id = i, !.email = e, !.role = g] \in Request
      BY BlankTypes DEF NoWork, Request
    <3>2. QED
      BY <1>a, <2>1, <3>1 DEF TypeOK
  <2>3. QED
    BY <1>1, <1>a, <2>2, QueueSame DEF CheckNewcomer, TypeOK, people, ledger
<1>2. ASSUME NEW r \in Requests, InsertInvitation(r) PROVE TypeOK'
  <2>1. req[r].id \in Ids /\ req[r].email \in Emails /\ req[r].role \in Roles
    BY <1>2 DEF InsertInvitation, RequestsInv, Sound
  <2>2. inv' \in [Ids -> Row]
    <3>1. [status |-> "pending", email |-> req[r].email, role |-> req[r].role, send |-> 1,
           expired |-> FALSE, mail |-> "queued"] \in Row
      BY <2>1, InvitationAssumption DEF Row
    <3>2. QED
      BY <1>2, <1>a, <3>1 DEF InsertInvitation, TypeOK
  <2>3. req' \in [Requests -> Request]
    <3>1. req[r] \in Request /\ 1 \in 0..MaxSends
      BY <1>a, InvitationAssumption DEF TypeOK
    <3>2. [req[r] EXCEPT !.op = "enqueue", !.send = 1] \in Request
      BY <3>1 DEF Request
    <3>3. QED
      BY <1>2, <1>a, <3>2, BlankTypes DEF InsertInvitation, End, TypeOK
  <2>4. QED
    BY <1>2, <1>a, <2>2, <2>3, QueueSame DEF InsertInvitation, TypeOK, people, ledger
<1>3. ASSUME NEW r \in Requests, NEW i \in Ids, Resend(r, i) PROVE TypeOK'
  <2>1. inv[i].send + 1 \in 0..MaxSends
    BY <1>3, InvitationAssumption DEF Resend, TypeOK, Row
  <2>2. inv' \in [Ids -> Row]
    <3>1. inv[i] \in Row
      BY <1>a DEF TypeOK
    <3>2. [inv[i] EXCEPT !.send = inv[i].send + 1, !.expired = FALSE, !.mail = "queued"] \in Row
      BY <2>1, <3>1 DEF Row
    <3>3. QED
      BY <1>3, <1>a, <3>2 DEF Resend, TypeOK
  <2>3. req' \in [Requests -> Request]
    <3>1. [NoWork EXCEPT !.op = "enqueue", !.id = i, !.send = inv[i].send + 1] \in Request
      BY <2>1, BlankTypes DEF NoWork, Request
    <3>2. QED
      BY <1>3, <1>a, <3>1 DEF Resend, TypeOK
  <2>4. QED
    BY <1>3, <1>a, <2>2, <2>3, QueueSame DEF Resend, TypeOK, people, ledger
<1>4. ASSUME NEW r \in Requests, Enqueue(r) PROVE TypeOK'
  <2>1. ReqTag(r) \in Tags
    BY <1>4, InvitationAssumption DEF Enqueue, ReqTag, RequestsInv, Sound, Enqueueing, TypeOK, Row, Sends
  <2>2. req' \in [Requests -> Request]
    BY <1>4, <1>a, BlankTypes DEF Enqueue, End, TypeOK
  <2>3. QueueTypeOK'
    BY <1>4, <1>a, <2>1, QueueTypes DEF Enqueue, ReqTag
  <2>4. QED
    BY <1>4, <1>a, <2>2, <2>3 DEF Enqueue, TypeOK, people, ledger
<1>5. ASSUME NEW i \in Ids, Revoke(i) PROVE TypeOK'
  <2>1. inv' \in [Ids -> Row]
    <3>1. inv[i] \in Row
      BY <1>a DEF TypeOK
    <3>2. [inv[i] EXCEPT !.status = "revoked"] \in Row
      BY <3>1 DEF Row
    <3>3. QED
      BY <1>5, <1>a, <3>2 DEF Revoke, TypeOK
  <2>2. QED
    BY <1>5, <1>a, <2>1, QueueSame DEF Revoke, TypeOK, people, ledger
<1>6. ASSUME NEW r \in Requests, NEW e \in Emails, NEW t \in Tags, BeginAccept(r, e, t)
      PROVE  TypeOK'
  <2>1. req' \in [Requests -> Request]
    <3>1. t[1] \in Ids /\ t[2] \in 0..MaxSends /\ inv[t[1]].expired \in BOOLEAN
      BY <1>a, TagIsPair, InvitationAssumption DEF Sends, TypeOK, Row
    <3>2. [NoWork EXCEPT !.op = "consume", !.id = t[1], !.send = t[2], !.email = e,
                         !.live = ~inv[t[1]].expired] \in Request
      BY <3>1, BlankTypes DEF NoWork, Request
    <3>3. QED
      BY <1>6, <1>a, <3>2 DEF BeginAccept, TypeOK
  <2>2. QED
    BY <1>6, <1>a, <2>1, QueueSame DEF BeginAccept, TypeOK, people, ledger
<1>7. ASSUME NEW r \in Requests, CommitAccept(r) PROVE TypeOK'
  <2>1. /\ req[r] \in Request /\ req[r].id \in Ids /\ req[r].send \in Sends
        /\ req[r].email = inv[req[r].id].email /\ inv[req[r].id].status # "none"
    BY <1>7, <1>a DEF CommitAccept, RequestsInv, Sound, AboutRow, TypeOK
  <2>2. /\ inv' \in [Ids -> Row] /\ member' \in [Emails -> Roles \cup {None}]
        /\ admitted' \in [Ids -> Seq(Emails \X Sends)]
    BY <1>7, <1>a, <2>1, JoinTypes DEF CommitAccept, TypeOK
  <2>3. req' \in [Requests -> Request]
    BY <1>7, <1>a, BlankTypes DEF CommitAccept, End, TypeOK
  <2>4. QED
    BY <1>7, <1>a, <2>2, <2>3, QueueSame DEF CommitAccept, TypeOK
<1>8. ASSUME NEW r \in Requests, NEW t \in Tags, CheckSignup(r, t) PROVE TypeOK'
  <2>1. inv[t[1]].email \in Emails
    BY <1>8, TagIsPair DEF CheckSignup, Pending, RowsInv
  <2>2. req' \in [Requests -> Request]
    <3>1. t[1] \in Ids /\ t[2] \in 0..MaxSends
      BY <1>a, TagIsPair, InvitationAssumption DEF Sends
    <3>2. [NoWork EXCEPT !.op = "hash", !.id = t[1], !.send = t[2],
                         !.email = inv[t[1]].email] \in Request
      BY <2>1, <3>1, BlankTypes DEF NoWork, Request
    <3>3. QED
      BY <1>8, <1>a, <3>2 DEF CheckSignup, TypeOK
  <2>3. QED
    BY <1>8, <1>a, <2>2, QueueSame DEF CheckSignup, TypeOK, people, ledger
<1>9. ASSUME NEW r \in Requests, InsertUser(r) PROVE TypeOK'
  <2>1. req[r].id \in Ids
    BY <1>9 DEF InsertUser, RequestsInv, Sound
  <2>2. req' \in [Requests -> Request]
    <3>1. req[r] \in Request
      BY <1>a DEF TypeOK
    <3>2. [req[r] EXCEPT !.op = "signup", !.live = ~inv[req[r].id].expired] \in Request
      BY <3>1 DEF Request
    <3>3. QED
      BY <1>9, <1>a, <3>2, BlankTypes DEF InsertUser, End, TypeOK
  <2>3. QED
    BY <1>9, <1>a, <2>2, QueueSame DEF InsertUser, TypeOK, people, ledger
<1>10. ASSUME NEW r \in Requests, CommitSignup(r) PROVE TypeOK'
  <2>1. /\ req[r] \in Request /\ req[r].id \in Ids /\ req[r].send \in Sends
        /\ req[r].email = inv[req[r].id].email /\ inv[req[r].id].status # "none"
        /\ req[r].email \in Emails
    BY <1>10, <1>a DEF CommitSignup, RequestsInv, Sound, AboutRow, TypeOK, RowsInv
  <2>2. /\ inv' \in [Ids -> Row] /\ member' \in [Emails -> Roles \cup {None}]
        /\ admitted' \in [Ids -> Seq(Emails \X Sends)]
    BY <1>10, <1>a, <2>1, JoinTypes DEF CommitSignup, TypeOK
  <2>3. req' \in [Requests -> Request]
    BY <1>10, <1>a, BlankTypes DEF CommitSignup, End, TypeOK
  <2>4. registered' \subseteq account' /\ account' \subseteq Emails
    BY <1>10, <1>a, <2>1 DEF CommitSignup
  <2>5. QED
    BY <1>10, <1>a, <2>2, <2>3, <2>4, QueueSame DEF CommitSignup, TypeOK
<1>11. ASSUME NEW t \in Tags, TellSent(t) PROVE TypeOK'
  BY <1>11, <1>a, QueueTypes, ToldTypes DEF TellSent, TypeOK, people
<1>12. ASSUME NEW t \in Tags, TellFailed(t) PROVE TypeOK'
  BY <1>12, <1>a, QueueTypes, ToldTypes DEF TellFailed, TypeOK, people
<1>13. ASSUME NEW t \in Tags, Work(t) PROVE TypeOK'
  BY <1>13, <1>a, QueueTypes DEF Work, TypeOK, people, ledger
<1>14. ASSUME NEW t \in Tags, WorkerDies(t) PROVE TypeOK'
  BY <1>14, <1>a, QueueTypes DEF WorkerDies, TypeOK, people
<1>15. ASSUME NEW i \in Ids, Expire(i) PROVE TypeOK'
  <2>1. inv \in [Ids -> Row] /\ inv' = [inv EXCEPT ![i].expired = TRUE]
    BY <1>15, <1>a DEF Expire, TypeOK
  <2>2. inv' \in [Ids -> Row]
    BY <2>1 DEF Row
  <2>3. QED
    BY <1>15, <1>a, <2>2, QueueSame DEF Expire, TypeOK, people, ledger
<1>16. ASSUME NEW e \in Emails, Register(e) PROVE TypeOK'
  BY <1>16, <1>a, QueueSame DEF Register, TypeOK, ledger
<1>17. ASSUME NEW e \in Emails, LeaveWorkspace(e) PROVE TypeOK'
  BY <1>17, <1>a, QueueSame DEF LeaveWorkspace, TypeOK, ledger
<1>18. ASSUME NEW r \in Requests, Abort(r) PROVE TypeOK'
  <2>1. Enqueueing(r) => ReqTag(r) \in Tags
    BY <1>18, InvitationAssumption DEF ReqTag, RequestsInv, Sound, Enqueueing, TypeOK, Row, Sends
  <2>2. untold' \subseteq Tags
    BY <1>18, <1>a, <2>1 DEF Abort, Enqueueing, ReqTag, TypeOK
  <2>3. req' \in [Requests -> Request]
    BY <1>18, <1>a, BlankTypes DEF Abort, End, TypeOK
  <2>4. QED
    BY <1>18, <1>a, <2>2, <2>3, QueueSame DEF Abort, TypeOK, people
<1>19. CASE UNCHANGED vars
  BY <1>19, <1>a, QueueSame DEF vars, TypeOK, people, ledger
<1>20. QED
  BY <1>1, <1>2, <1>3, <1>4, <1>5, <1>6, <1>7, <1>8, <1>9, <1>10, <1>11, <1>12, <1>13, <1>14,
     <1>15, <1>16, <1>17, <1>18, <1>19 DEF Next, Start, Handle, Deliver

-----------------------------------------------------------------------------
(* What a step does to a row: nothing, its creation, its resending, or a    *)
(* change of its status or of that of its email.                            *)

Created(i, r) == InsertInvitation(r) /\ req[r].id = i /\ inv[i].status = "none"
                 /\ inv'[i] = [status |-> "pending", email |-> req[r].email,
                               role |-> req[r].role, send |-> 1, expired |-> FALSE,
                               mail |-> "queued"]
Resent(i, r)  == Resend(r, i) /\ inv'[i] = [inv[i] EXCEPT !.send = inv[i].send + 1,
                                                         !.expired = FALSE, !.mail = "queued"]
Marked(i)     == /\ inv[i].status # "none" /\ inv'[i].status # "none"
                 /\ inv'[i].email = inv[i].email /\ inv'[i].role = inv[i].role
                 /\ inv'[i].send = inv[i].send
RowStep(i)    == \/ inv'[i] = inv[i] \/ Marked(i)
                 \/ \E r \in Requests : Created(i, r) \/ Resent(i, r)

LEMMA ToldMarks ==
  ASSUME inv \in [Ids -> Row], RowsInv, NEW t \in Tags, NEW o \in {"sent", "failed"},
         Told(t, o), NEW i \in Ids
  PROVE  inv'[i] = inv[i] \/ Marked(i)
<1>1. CASE inv' = inv
  BY <1>1
<1>2. CASE Finds(t) /\ inv' = [inv EXCEPT ![t[1]].mail = o]
  <2>1. t[1] \in Ids /\ t[2] \in Sends /\ inv[t[1]].send = t[2]
    BY <1>2, TagIsPair DEF Finds
  <2>2. inv[t[1]].status # "none"
    <3>1. SUFFICES ASSUME inv[t[1]].status = "none" PROVE FALSE
      OBVIOUS
    <3>2. inv[t[1]].send = 0
      BY <2>1, <3>1 DEF RowsInv, NoRow
    <3>3. QED
      BY <2>1, <3>2, InvitationAssumption DEF Sends
  <2>3. CASE i = t[1]
    <3>1. inv[i] \in Row /\ inv'[i] = [inv[i] EXCEPT !.mail = o]
      BY <1>2, <2>1, <2>3
    <3>2. QED
      BY <2>2, <2>3, <3>1 DEF Marked, Row
  <2>4. CASE i # t[1]
    BY <1>2, <2>1, <2>4
  <2>5. QED
    BY <2>3, <2>4
<1>3. QED
  BY <1>1, <1>2 DEF Told, Record

\* joinWorkspace marks one row.
LEMMA JoinMarks ==
  ASSUME inv \in [Ids -> Row], NEW q, q.id \in Ids, Consumable(q), Join(q), NEW i \in Ids
  PROVE  inv'[i] = inv[i] \/ Marked(i)
<1>1. inv[q.id].status = "pending" /\ inv' = [inv EXCEPT ![q.id].status = "accepted"]
  BY DEF Consumable, Pending, Join
<1>2. CASE i = q.id
  <2>1. inv[i] \in Row /\ inv'[i] = [inv[i] EXCEPT !.status = "accepted"]
    BY <1>1, <1>2
  <2>2. QED
    BY <1>1, <1>2, <2>1 DEF Marked, Row
<1>3. CASE i # q.id
  BY <1>1, <1>3
<1>4. QED
  BY <1>2, <1>3

LEMMA RowMoves ==
  ASSUME IInv, [Next]_vars, NEW i \in Ids
  PROVE  RowStep(i)
<1> USE DEF RowStep
<1>a. inv \in [Ids -> Row] /\ RowsInv /\ RequestsInv
  BY DEF IInv, TypeOK
<1>1. ASSUME UNCHANGED inv PROVE RowStep(i)
  BY <1>1
<1>2. ASSUME NEW r \in Requests, InsertInvitation(r) PROVE RowStep(i)
  <2>1. req[r].id \in Ids /\ inv[req[r].id].status = "none"
    BY <1>a, <1>2 DEF InsertInvitation, RequestsInv, Sound
  <2>2. \/ UNCHANGED inv
        \/ inv' = [inv EXCEPT ![req[r].id] =
                     [status |-> "pending", email |-> req[r].email, role |-> req[r].role,
                      send |-> 1, expired |-> FALSE, mail |-> "queued"]]
    BY <1>2 DEF InsertInvitation
  <2>3. CASE i = req[r].id /\ inv' # inv
    BY <1>a, <1>2, <2>1, <2>2, <2>3 DEF Created
  <2>4. CASE i # req[r].id \/ inv' = inv
    BY <1>a, <2>1, <2>2, <2>4
  <2>5. QED
    BY <2>3, <2>4
<1>3. ASSUME NEW r \in Requests, NEW j \in Ids, Resend(r, j) PROVE RowStep(i)
  <2>1. inv' = [inv EXCEPT ![j] = [inv[j] EXCEPT !.send = inv[j].send + 1, !.expired = FALSE,
                                                !.mail = "queued"]]
    BY <1>3 DEF Resend
  <2>2. QED
    BY <1>a, <1>3, <2>1 DEF Resent
<1>4. ASSUME NEW j \in Ids, Revoke(j) PROVE RowStep(i)
  BY <1>a, <1>4 DEF Revoke, Pending, Marked, Row
<1>5. ASSUME NEW j \in Ids, Expire(j) PROVE RowStep(i)
  BY <1>a, <1>5 DEF Expire, Pending, Marked, Row
<1>6. ASSUME NEW r \in Requests, CommitAccept(r) PROVE RowStep(i)
  <2>1. req[r].id \in Ids
    BY <1>a, <1>6 DEF CommitAccept, RequestsInv, Sound
  <2>2. UNCHANGED inv \/ (Consumable(req[r]) /\ Join(req[r]))
    BY <1>6 DEF CommitAccept
  <2>3. QED
    BY <1>a, <2>1, <2>2, JoinMarks
<1>7. ASSUME NEW r \in Requests, CommitSignup(r) PROVE RowStep(i)
  <2>1. req[r].id \in Ids
    BY <1>a, <1>7 DEF CommitSignup, RequestsInv, Sound
  <2>2. UNCHANGED inv \/ (Consumable(req[r]) /\ Join(req[r]))
    BY <1>7 DEF CommitSignup
  <2>3. QED
    BY <1>a, <2>1, <2>2, JoinMarks
<1>8. ASSUME NEW t \in Tags, TellSent(t) \/ TellFailed(t) PROVE RowStep(i)
  BY <1>a, <1>8, ToldMarks DEF TellSent, TellFailed
<1>9. ASSUME NEW r \in Requests, NEW e \in Emails, NEW g \in Roles, CheckNewcomer(r, e, g)
      PROVE  RowStep(i)
  BY <1>1, <1>9 DEF CheckNewcomer
<1>10. ASSUME NEW r \in Requests, NEW e \in Emails, NEW t \in Tags, BeginAccept(r, e, t)
       PROVE  RowStep(i)
  BY <1>1, <1>10 DEF BeginAccept
<1>11. ASSUME NEW r \in Requests, NEW t \in Tags, CheckSignup(r, t) PROVE RowStep(i)
  BY <1>1, <1>11 DEF CheckSignup
<1>12. ASSUME NEW r \in Requests, Enqueue(r) \/ InsertUser(r) \/ Abort(r) PROVE RowStep(i)
  BY <1>1, <1>12 DEF Enqueue, InsertUser, Abort
<1>13. ASSUME NEW t \in Tags, Work(t) \/ WorkerDies(t) PROVE RowStep(i)
  BY <1>1, <1>13 DEF Work, WorkerDies
<1>14. ASSUME NEW e \in Emails, Register(e) \/ LeaveWorkspace(e) PROVE RowStep(i)
  BY <1>1, <1>14 DEF Register, LeaveWorkspace
<1>15. CASE UNCHANGED vars
  BY <1>1, <1>15 DEF vars
<1>16. QED
  BY <1>2, <1>3, <1>4, <1>5, <1>6, <1>7, <1>8, <1>9, <1>10, <1>11, <1>12, <1>13, <1>14, <1>15
     DEF Next, Start, Handle, Deliver

LEMMA RowsKept ==
  ASSUME IInv, [Next]_vars
  PROVE  RowsInv'
<1> SUFFICES ASSUME NEW i \in Ids
             PROVE  IF inv'[i].status = "none" THEN inv'[i] = NoRow
                    ELSE inv'[i].send \in Sends /\ inv'[i].email \in Emails
                         /\ inv'[i].role \in Roles
  BY DEF RowsInv
<1>a. inv \in [Ids -> Row] /\ inv' \in [Ids -> Row] /\ RowsInv /\ RequestsInv
  BY TypesKept DEF IInv, TypeOK
<1>1. CASE inv'[i] = inv[i] \/ Marked(i)
  BY <1>a, <1>1 DEF RowsInv, Marked
<1>2. ASSUME NEW r \in Requests, Created(i, r) PROVE inv'[i].send \in Sends
        /\ inv'[i].email \in Emails /\ inv'[i].role \in Roles /\ inv'[i].status # "none"
  BY <1>a, <1>2, InvitationAssumption DEF Created, InsertInvitation, RequestsInv, Sound, Sends
<1>3. ASSUME NEW r \in Requests, Resent(i, r) PROVE inv'[i].send \in Sends
        /\ inv'[i].email \in Emails /\ inv'[i].role \in Roles /\ inv'[i].status # "none"
  <2>1. inv[i] \in Row /\ inv[i].status = "pending" /\ inv[i].send < MaxSends
    BY <1>a, <1>3 DEF Resent, Resend, Pending
  <2>2. inv[i].email \in Emails /\ inv[i].role \in Roles /\ inv[i].send \in Sends
    BY <1>a, <2>1 DEF RowsInv
  <2>3. /\ inv'[i].send = inv[i].send + 1 /\ inv'[i].email = inv[i].email
        /\ inv'[i].role = inv[i].role /\ inv'[i].status = inv[i].status
    BY <1>3, <2>1 DEF Resent, Row
  <2>4. QED
    BY <2>1, <2>2, <2>3, InvitationAssumption DEF Sends
<1>4. QED
  BY <1>1, <1>2, <1>3, RowMoves DEF RowStep

-----------------------------------------------------------------------------
(* What a step does to a request.                                           *)

\* A row that exists keeps its address and never gets an earlier token.
LEMMA RowStable ==
  ASSUME IInv, [Next]_vars, NEW i \in Ids, inv[i].status # "none"
  PROVE  /\ inv'[i].status # "none" /\ inv'[i].email = inv[i].email
         /\ inv[i].send \in Nat /\ inv'[i].send \in Nat /\ inv'[i].send >= inv[i].send
<1>1. inv[i] \in Row /\ inv'[i] \in Row
  BY TypesKept DEF IInv, TypeOK
<1>2. CASE inv'[i] = inv[i] \/ Marked(i)
  BY <1>1, <1>2, InvitationAssumption DEF Marked, Row
<1>3. ASSUME NEW r \in Requests, Resent(i, r)
      PROVE  /\ inv'[i].status # "none" /\ inv'[i].email = inv[i].email
             /\ inv'[i].send = inv[i].send + 1
  BY <1>1, <1>3 DEF Resent, Row
<1>4. inv[i].send \in Nat /\ inv'[i].send \in Nat
  BY <1>1, InvitationAssumption DEF Row
<1>5. ASSUME NEW r \in Requests PROVE ~Created(i, r)
  BY DEF Created
<1>6. inv'[i] = inv[i] \/ Marked(i) \/ \E r \in Requests : Resent(i, r)
  BY <1>5, RowMoves DEF RowStep
<1>7. QED
  BY <1>2, <1>3, <1>4, <1>6

Inserts(r) ==
  /\ InsertInvitation(r) /\ Created(req[r].id, r)
  /\ req' = [req EXCEPT ![r] = [req[r] EXCEPT !.op = "enqueue", !.send = 1]]

Moves(r) ==
  \/ req' = [req EXCEPT ![r] = NoWork]
  \/ \E e \in Emails, g \in Roles : CheckNewcomer(r, e, g)
  \/ Inserts(r)
  \/ \E i \in Ids : Resend(r, i)
  \/ \E e \in Emails, t \in Tags : BeginAccept(r, e, t)
  \/ \E t \in Tags : CheckSignup(r, t)
  \/ InsertUser(r) /\ req' = [req EXCEPT ![r] = [req[r] EXCEPT !.op = "signup",
                                                    !.live = ~inv[req[r].id].expired]]

\* At most one request moves in a step, and a row is created only when one does.
LEMMA ReqMoves ==
  ASSUME IInv, [Next]_vars
  PROVE  \/ UNCHANGED req /\ \A r \in Requests : ~InsertInvitation(r)
         \/ \E r \in Requests : Moves(r) /\ \A s \in Requests \ {r} :
                                               ~InsertInvitation(s) /\ req'[s] = req[s]
<1> DEFINE Quiet == UNCHANGED req /\ \A r \in Requests : ~InsertInvitation(r)
           Only(r) == Moves(r) /\ \A s \in Requests \ {r} :
                                    ~InsertInvitation(s) /\ req'[s] = req[s]
<1>a. req \in [Requests -> Request] /\ inv \in [Ids -> Row] /\ RequestsInv
  BY DEF IInv, TypeOK
<1>b. ASSUME NEW r \in Requests, InsertInvitation(r) PROVE req'[r] # req[r] /\ req[r].op = "insert"
  <2>1. req[r].op = "insert" /\ req[r] \in Request
    BY <1>a, <1>b DEF InsertInvitation
  <2>2. \/ req' = [req EXCEPT ![r] = NoWork]
        \/ req' = [req EXCEPT ![r] = [req[r] EXCEPT !.op = "enqueue", !.send = 1]]
    BY <1>b DEF InsertInvitation, End
  <2>3. req'[r] = NoWork \/ req'[r] = [req[r] EXCEPT !.op = "enqueue", !.send = 1]
    BY <1>a, <2>2
  <2>4. req'[r].op = "idle" \/ req'[r].op = "enqueue"
    <3>1. NoWork.op = "idle"
      BY DEF NoWork
    <3>2. [req[r] EXCEPT !.op = "enqueue", !.send = 1].op = "enqueue"
      BY <2>1 DEF Request
    <3>3. QED
      BY <2>3, <3>1, <3>2
  <2>5. QED
    BY <2>1, <2>4
<1>c. ASSUME NEW r \in Requests, Moves(r), \A s \in Requests \ {r} : req'[s] = req[s] PROVE Only(r)
  BY <1>b, <1>c
<1>d. ASSUME UNCHANGED req PROVE Quiet
  BY <1>b, <1>d
<1>1. ASSUME NEW r \in Requests, NEW e \in Emails, NEW g \in Roles, CheckNewcomer(r, e, g)
      PROVE  Only(r)
  <2>1. \A s \in Requests \ {r} : req'[s] = req[s]
    BY <1>a, <1>1 DEF CheckNewcomer
  <2>2. QED
    BY <1>1, <1>c, <2>1 DEF Moves
<1>2. ASSUME NEW r \in Requests, InsertInvitation(r) PROVE Only(r)
  <2>1. req[r].id \in Ids /\ inv[req[r].id].status = "none"
    BY <1>a, <1>2 DEF InsertInvitation, RequestsInv, Sound
  <2>2. \/ req' = [req EXCEPT ![r] = NoWork]
        \/ /\ req' = [req EXCEPT ![r] = [req[r] EXCEPT !.op = "enqueue", !.send = 1]]
           /\ inv' = [inv EXCEPT ![req[r].id] =
                        [status |-> "pending", email |-> req[r].email, role |-> req[r].role,
                         send |-> 1, expired |-> FALSE, mail |-> "queued"]]
    BY <1>2 DEF InsertInvitation, End
  <2>3. Moves(r)
    <3>1. CASE req' = [req EXCEPT ![r] = NoWork]
      BY <3>1 DEF Moves
    <3>2. CASE /\ req' = [req EXCEPT ![r] = [req[r] EXCEPT !.op = "enqueue", !.send = 1]]
               /\ inv' = [inv EXCEPT ![req[r].id] =
                            [status |-> "pending", email |-> req[r].email, role |-> req[r].role,
                             send |-> 1, expired |-> FALSE, mail |-> "queued"]]
      <4>1. Created(req[r].id, r)
        BY <1>a, <1>2, <2>1, <3>2 DEF Created
      <4>2. QED
        BY <1>2, <3>2, <4>1 DEF Moves, Inserts
    <3>3. QED
      BY <2>2, <3>1, <3>2
  <2>4. \A s \in Requests \ {r} : req'[s] = req[s]
    BY <1>a, <2>2
  <2>5. QED
    BY <1>c, <2>3, <2>4
<1>3. ASSUME NEW r \in Requests, NEW i \in Ids, Resend(r, i) PROVE Only(r)
  <2>1. \A s \in Requests \ {r} : req'[s] = req[s]
    BY <1>a, <1>3 DEF Resend
  <2>2. QED
    BY <1>3, <1>c, <2>1 DEF Moves
<1>4. ASSUME NEW r \in Requests, NEW e \in Emails, NEW t \in Tags, BeginAccept(r, e, t)
      PROVE  Only(r)
  <2>1. \A s \in Requests \ {r} : req'[s] = req[s]
    BY <1>a, <1>4 DEF BeginAccept
  <2>2. QED
    BY <1>4, <1>c, <2>1 DEF Moves
<1>5. ASSUME NEW r \in Requests, NEW t \in Tags, CheckSignup(r, t) PROVE Only(r)
  <2>1. \A s \in Requests \ {r} : req'[s] = req[s]
    BY <1>a, <1>5 DEF CheckSignup
  <2>2. QED
    BY <1>5, <1>c, <2>1 DEF Moves
<1>6. ASSUME NEW r \in Requests, End(r) PROVE Only(r)
  <2>1. \A s \in Requests \ {r} : req'[s] = req[s]
    BY <1>a, <1>6 DEF End
  <2>2. QED
    BY <1>6, <1>c, <2>1 DEF Moves, End
<1>7. ASSUME NEW r \in Requests, InsertUser(r) PROVE Only(r)
  <2>1. \/ End(r)
        \/ req' = [req EXCEPT ![r] = [req[r] EXCEPT !.op = "signup",
                                        !.live = ~inv[req[r].id].expired]]
    BY <1>7 DEF InsertUser
  <2>2. \A s \in Requests \ {r} : req'[s] = req[s]
    BY <1>a, <2>1 DEF End
  <2>3. QED
    BY <1>6, <1>7, <1>c, <2>1, <2>2 DEF Moves
<1>8. ASSUME NEW r \in Requests, Enqueue(r) \/ CommitAccept(r) \/ CommitSignup(r) \/ Abort(r)
      PROVE  Only(r)
  BY <1>6, <1>8 DEF Enqueue, CommitAccept, CommitSignup, Abort
<1>9. ASSUME NEW t \in Tags, TellSent(t) \/ TellFailed(t) \/ Work(t) \/ WorkerDies(t) PROVE Quiet
  BY <1>9, <1>d DEF TellSent, TellFailed, Work, WorkerDies
<1>10. ASSUME NEW i \in Ids, Revoke(i) \/ Expire(i) PROVE Quiet
  BY <1>10, <1>d DEF Revoke, Expire
<1>11. ASSUME NEW e \in Emails, Register(e) \/ LeaveWorkspace(e) PROVE Quiet
  BY <1>11, <1>d DEF Register, LeaveWorkspace
<1>12. CASE UNCHANGED vars
  BY <1>12, <1>d DEF vars
<1>13. QED
  BY <1>1, <1>2, <1>3, <1>4, <1>5, <1>7, <1>8, <1>9, <1>10, <1>11, <1>12
     DEF Next, Start, Handle, Deliver

\* What a request that has started, or has got further, holds.
LEMMA MovedTo ==
  ASSUME IInv, NEW r \in Requests, Moves(r)
  PROVE  \/ req'[r] = NoWork
         \/ /\ req'[r].op = "insert" /\ req'[r].id \in Ids /\ req'[r].email \in Emails
            /\ req'[r].role \in Roles /\ Fresh(req'[r].id) /\ UNCHANGED inv
         \/ /\ req'[r].op = "enqueue" /\ req'[r].id = req[r].id /\ req'[r].send = 1
            /\ req[r].id \in Ids /\ inv[req[r].id].status = "none"
            /\ inv'[req[r].id].send = 1
            /\ inv'[req'[r].id].mail = "queued" /\ UNCHANGED queue
         \/ /\ req'[r].op = "enqueue" /\ req'[r].id \in Ids
            /\ inv[req'[r].id].status = "pending"
            /\ req'[r].send = inv[req'[r].id].send + 1
            /\ inv'[req'[r].id].send = req'[r].send
            /\ inv'[req'[r].id].mail = "queued" /\ UNCHANGED queue
         \/ /\ AboutRow(req'[r]) /\ req'[r].id \in Ids /\ req'[r].send \in Sends
            /\ inv[req'[r].id].status # "none" /\ req'[r].email = inv[req'[r].id].email
            /\ UNCHANGED inv
<1>a. req \in [Requests -> Request] /\ inv \in [Ids -> Row] /\ RowsInv /\ Sound(r)
  BY DEF IInv, TypeOK, RequestsInv
<1>1. CASE req' = [req EXCEPT ![r] = NoWork]
  BY <1>a, <1>1
<1>2. ASSUME NEW e \in Emails, NEW g \in Roles, CheckNewcomer(r, e, g)
      PROVE  /\ req'[r].op = "insert" /\ req'[r].id \in Ids /\ req'[r].email \in Emails
             /\ req'[r].role \in Roles /\ Fresh(req'[r].id) /\ UNCHANGED inv
  <2>1. PICK i \in Ids : Fresh(i) /\ req' = [req EXCEPT ![r] = [NoWork EXCEPT !.op = "insert",
                                              !.id = i, !.email = e, !.role = g]]
    BY <1>2 DEF CheckNewcomer
  <2>2. req'[r] = [NoWork EXCEPT !.op = "insert", !.id = i, !.email = e, !.role = g]
    BY <1>a, <2>1
  <2>3. req'[r].op = "insert" /\ req'[r].id = i /\ req'[r].email = e /\ req'[r].role = g
    BY <2>2 DEF NoWork
  <2>4. QED
    BY <1>2, <2>1, <2>3 DEF CheckNewcomer
<1>3. ASSUME Inserts(r)
      PROVE  /\ req'[r].op = "enqueue" /\ req'[r].id = req[r].id /\ req'[r].send = 1
             /\ req[r].id \in Ids /\ inv[req[r].id].status = "none"
             /\ inv'[req[r].id].send = 1
             /\ inv'[req'[r].id].mail = "queued" /\ UNCHANGED queue
            /\ inv'[req'[r].id].mail = "queued" /\ UNCHANGED queue
  <2>1. req[r].op = "insert" /\ req[r] \in Request
    BY <1>a, <1>3 DEF Inserts, InsertInvitation
  <2>2. req'[r] = [req[r] EXCEPT !.op = "enqueue", !.send = 1]
    BY <1>a, <1>3 DEF Inserts
  <2>3. req'[r].op = "enqueue" /\ req'[r].id = req[r].id /\ req'[r].send = 1
    BY <2>1, <2>2 DEF Request
  <2>4. QED
    BY <1>a, <1>3, <2>1, <2>3 DEF Inserts, Created, Sound, InsertInvitation
<1>4. ASSUME NEW i \in Ids, Resend(r, i)
      PROVE  /\ req'[r].op = "enqueue" /\ req'[r].id \in Ids
             /\ inv[req'[r].id].status = "pending"
             /\ req'[r].send = inv[req'[r].id].send + 1
             /\ inv'[req'[r].id].send = req'[r].send
             /\ inv'[req'[r].id].mail = "queued" /\ UNCHANGED queue
            /\ inv'[req'[r].id].mail = "queued" /\ UNCHANGED queue
  <2>1. req'[r] = [NoWork EXCEPT !.op = "enqueue", !.id = i, !.send = inv[i].send + 1]
    BY <1>a, <1>4 DEF Resend
  <2>2. req'[r].op = "enqueue" /\ req'[r].id = i /\ req'[r].send = inv[i].send + 1
    BY <2>1 DEF NoWork
  <2>3. inv'[i] = [inv[i] EXCEPT !.send = inv[i].send + 1, !.expired = FALSE, !.mail = "queued"]
    BY <1>a, <1>4 DEF Resend
  <2>4. inv[i] \in Row
    BY <1>a
  <2>5. inv'[i].send = inv[i].send + 1 /\ inv'[i].mail = "queued"
    BY <2>3, <2>4 DEF Row
  <2>6. QED
    BY <1>4, <2>2, <2>5 DEF Resend, Pending
<1>5. ASSUME NEW e \in Emails, NEW t \in Tags, BeginAccept(r, e, t)
      PROVE  /\ AboutRow(req'[r]) /\ req'[r].id \in Ids /\ req'[r].send \in Sends
             /\ inv[req'[r].id].status # "none" /\ req'[r].email = inv[req'[r].id].email
             /\ UNCHANGED inv
  <2>1. req'[r] = [NoWork EXCEPT !.op = "consume", !.id = t[1], !.send = t[2], !.email = e,
                                 !.live = ~inv[t[1]].expired]
    BY <1>a, <1>5 DEF BeginAccept
  <2>2. req'[r].op = "consume" /\ req'[r].id = t[1] /\ req'[r].send = t[2] /\ req'[r].email = e
    BY <2>1 DEF NoWork
  <2>3. t[1] \in Ids /\ t[2] \in Sends /\ inv[t[1]].send = t[2] /\ inv[t[1]].email = e
    BY <1>5, TagIsPair DEF BeginAccept, Finds
  <2>4. inv[t[1]].status # "none"
    BY <1>a, <2>3, InvitationAssumption DEF RowsInv, NoRow
  <2>5. QED
    BY <1>5, <2>2, <2>3, <2>4 DEF AboutRow, BeginAccept
<1>6. ASSUME NEW t \in Tags, CheckSignup(r, t)
      PROVE  /\ AboutRow(req'[r]) /\ req'[r].id \in Ids /\ req'[r].send \in Sends
             /\ inv[req'[r].id].status # "none" /\ req'[r].email = inv[req'[r].id].email
             /\ UNCHANGED inv
  <2>1. req'[r] = [NoWork EXCEPT !.op = "hash", !.id = t[1], !.send = t[2],
                                 !.email = inv[t[1]].email]
    BY <1>a, <1>6 DEF CheckSignup
  <2>2. /\ req'[r].op = "hash" /\ req'[r].id = t[1] /\ req'[r].send = t[2]
        /\ req'[r].email = inv[t[1]].email
    BY <2>1 DEF NoWork
  <2>3. t[1] \in Ids /\ t[2] \in Sends /\ inv[t[1]].status = "pending"
    BY <1>6, TagIsPair DEF CheckSignup, Pending
  <2>4. QED
    BY <1>6, <2>2, <2>3 DEF AboutRow, CheckSignup
<1>7. ASSUME InsertUser(r), req' = [req EXCEPT ![r] = [req[r] EXCEPT !.op = "signup",
                                                        !.live = ~inv[req[r].id].expired]]
      PROVE  /\ AboutRow(req'[r]) /\ req'[r].id \in Ids /\ req'[r].send \in Sends
             /\ inv[req'[r].id].status # "none" /\ req'[r].email = inv[req'[r].id].email
             /\ UNCHANGED inv
  <2>1. req[r].op = "hash" /\ req[r] \in Request
    BY <1>a, <1>7 DEF InsertUser
  <2>2. req'[r] = [req[r] EXCEPT !.op = "signup", !.live = ~inv[req[r].id].expired]
    BY <1>a, <1>7
  <2>3. /\ req'[r].op = "signup" /\ req'[r].id = req[r].id /\ req'[r].send = req[r].send
        /\ req'[r].email = req[r].email
    BY <2>1, <2>2 DEF Request
  <2>4. QED
    BY <1>a, <1>7, <2>1, <2>3 DEF AboutRow, InsertUser, Sound
<1>8. QED
  BY <1>1, <1>2, <1>3, <1>4, <1>5, <1>6, <1>7 DEF Moves

\* What a request has read stays true while it waits.
LEMMA SoundWaits ==
  ASSUME IInv, [Next]_vars, NEW r \in Requests, req'[r] = req[r], ~InsertInvitation(r)
  PROVE  Sound(r)'
<1>a. inv \in [Ids -> Row] /\ RowsInv /\ Sound(r) /\ RequestsInv
  BY DEF IInv, TypeOK, RequestsInv
<1>1. CASE req[r].op = "insert"
  <2>1. req[r].id \in Ids /\ inv[req[r].id].status = "none"
    BY <1>1, <1>a DEF Sound
  <2>2. ASSUME NEW s \in Requests, Created(req[r].id, s) PROVE FALSE
    <3>1. s # r /\ req[s].op = "insert" /\ req[s].id = req[r].id
      BY <2>2 DEF Created, InsertInvitation
    <3>2. QED
      BY <1>1, <1>a, <3>1 DEF RequestsInv, Apart
  <2>3. ASSUME NEW s \in Requests PROVE ~Resent(req[r].id, s)
    BY <2>1 DEF Resent, Resend, Pending
  <2>4. inv'[req[r].id] = inv[req[r].id]
    BY <2>1, <2>2, <2>3, RowMoves DEF RowStep, Marked
  <2>5. QED
    BY <1>1, <1>a, <2>4 DEF Sound, AboutRow, Enqueueing
<1>2. CASE AboutRow(req[r])
  BY <1>2, <1>a, RowStable DEF Sound, AboutRow, Enqueueing
<1>3. CASE Enqueueing(r)
  <2>1. req[r].id \in Ids /\ req[r].send \in 1..inv[req[r].id].send
    BY <1>3, <1>a DEF Sound, Enqueueing
  <2>2. inv[req[r].id].status # "none"
    BY <1>a, <2>1 DEF RowsInv, NoRow
  <2>3. req[r].send \in 1..inv'[req[r].id].send
    BY <2>1, <2>2, RowStable
  <2>4. QED
    BY <1>3, <2>1, <2>3 DEF Sound, AboutRow, Enqueueing
<1>4. CASE ~AboutRow(req[r]) /\ ~Enqueueing(r) /\ req[r].op # "insert"
  BY <1>4, <1>a DEF Sound, AboutRow, Enqueueing
<1>5. QED
  BY <1>1, <1>2, <1>3, <1>4

\* What a request reads in the step it moves is true.
LEMMA SoundMoves ==
  ASSUME IInv, [Next]_vars, NEW r \in Requests, Moves(r)
  PROVE  Sound(r)'
<1>a. inv \in [Ids -> Row] /\ NoWork.op = "idle" /\ MaxSends \in Nat
  BY InvitationAssumption DEF IInv, TypeOK, NoWork
<1>1. CASE req'[r] = NoWork
  BY <1>1, <1>a DEF Sound, AboutRow, Enqueueing
<1>2. CASE /\ req'[r].op = "insert" /\ req'[r].id \in Ids /\ req'[r].email \in Emails
           /\ req'[r].role \in Roles /\ Fresh(req'[r].id) /\ UNCHANGED inv
  BY <1>2 DEF Sound, AboutRow, Enqueueing, Fresh
<1>3. CASE /\ req'[r].op = "enqueue" /\ req'[r].id \in Ids /\ req'[r].send \in Nat \ {0}
           /\ inv'[req'[r].id].send = req'[r].send
  BY <1>3 DEF Sound, AboutRow, Enqueueing
<1>4. CASE /\ AboutRow(req'[r]) /\ req'[r].id \in Ids /\ req'[r].send \in Sends
           /\ inv[req'[r].id].status # "none" /\ req'[r].email = inv[req'[r].id].email
           /\ UNCHANGED inv
  BY <1>4 DEF Sound, AboutRow, Enqueueing
<1>5. ASSUME NEW i \in Ids PROVE inv[i].send + 1 \in Nat \ {0}
  BY <1>a DEF Row
<1>6. QED
  BY <1>1, <1>2, <1>3, <1>4, <1>5, MovedTo

\* Two requests stay apart when one of them moves.
LEMMA ApartMoves ==
  ASSUME IInv, NEW r \in Requests, NEW s \in Requests \ {r}, Moves(r), req'[s] = req[s]
  PROVE  Apart(r, s)' /\ Apart(s, r)'
<1>a. inv \in [Ids -> Row] /\ NoWork.op = "idle" /\ MaxSends \in Nat /\ RowsInv /\ Sound(s)
  BY InvitationAssumption DEF IInv, TypeOK, NoWork, RequestsInv
<1>1. CASE req'[r].op \notin {"insert", "enqueue"}
  BY <1>1 DEF Apart, Enqueueing
<1>2. CASE req'[r].op = "insert" /\ Fresh(req'[r].id)
  BY <1>2 DEF Fresh, Apart, Enqueueing
<1>3. ASSUME req'[r].op = "enqueue", req'[r].id \in Ids, inv[req'[r].id].send \in Nat,
             req'[r].send = inv[req'[r].id].send + 1
      PROVE  Apart(r, s)' /\ Apart(s, r)'
  <2>1. CASE ~Enqueueing(s)
    BY <1>3, <2>1 DEF Apart, Enqueueing
  <2>2. CASE Enqueueing(s)
    <3>1. req[s].send \in 1..inv[req[s].id].send
      BY <1>a, <2>2 DEF Sound
    <3>2. <<req'[r].id, req'[r].send>> # <<req[s].id, req[s].send>>
      BY <1>3, <3>1
    <3>3. QED
      BY <1>3, <2>2, <3>2 DEF Apart, Enqueueing, ReqTag
  <2>3. QED
    BY <2>1, <2>2
<1>4. ASSUME NEW i \in Ids PROVE inv[i].send \in Nat
  BY <1>a DEF Row
<1>5. ASSUME NEW i \in Ids, inv[i].status = "none" PROVE inv[i].send = 0
  BY <1>5, <1>a DEF RowsInv, NoRow
<1>6. ASSUME req'[r].op = "enqueue"
      PROVE  /\ req'[r].id \in Ids /\ inv[req'[r].id].send \in Nat
             /\ req'[r].send = inv[req'[r].id].send + 1
  BY <1>6, <1>a, <1>4, <1>5, MovedTo DEF AboutRow
<1>7. req'[r].op = "insert" => Fresh(req'[r].id)
  BY <1>a, MovedTo DEF AboutRow
<1>8. QED
  BY <1>1, <1>2, <1>3, <1>6, <1>7

LEMMA RequestsKept ==
  ASSUME IInv, [Next]_vars
  PROVE  RequestsInv'
<1>1. CASE UNCHANGED req /\ \A r \in Requests : ~InsertInvitation(r)
  <2>1. ASSUME NEW r \in Requests PROVE Sound(r)'
    BY <1>1, SoundWaits
  <2>2. ASSUME NEW r \in Requests, NEW s \in Requests \ {r} PROVE Apart(r, s)'
    BY <1>1 DEF IInv, RequestsInv, Apart, Enqueueing, ReqTag
  <2>3. QED
    BY <2>1, <2>2 DEF RequestsInv
<1>2. ASSUME NEW r \in Requests, Moves(r), \A s \in Requests \ {r} : ~InsertInvitation(s),
             \A s \in Requests \ {r} : req'[s] = req[s]
      PROVE  RequestsInv'
  <2>1. ASSUME NEW s \in Requests PROVE Sound(s)'
    BY <1>2, SoundWaits, SoundMoves
  <2>2. ASSUME NEW s \in Requests, NEW u \in Requests \ {s} PROVE Apart(s, u)'
    <3>1. CASE s = r \/ u = r
      BY <1>2, <3>1, ApartMoves
    <3>2. CASE s # r /\ u # r
      BY <1>2, <3>2 DEF IInv, RequestsInv, Apart, Enqueueing, ReqTag
    <3>3. QED
      BY <3>1, <3>2
  <2>3. QED
    BY <2>1, <2>2 DEF RequestsInv
<1>3. QED
  BY <1>1, <1>2, ReqMoves

-----------------------------------------------------------------------------
(* What a step does to the queue.                                           *)

\* Either nothing, or a message is enqueued, or one that is not new moves on.
LEMMA QueueMoves ==
  ASSUME IInv, [Next]_vars
  PROVE  \/ UNCHANGED queue
         \/ \E r \in Requests : Enqueue(r)
         \/ \E t \in Tags : Deliver(t) \/ WorkerDies(t)
<1>1. ASSUME NEW r \in Requests, Start(r) PROVE UNCHANGED queue
  BY <1>1 DEF Start, CheckNewcomer, Resend, BeginAccept, CheckSignup
<1>2. ASSUME NEW r \in Requests, Handle(r) PROVE UNCHANGED queue \/ Enqueue(r)
  BY <1>2 DEF Handle, InsertInvitation, CommitAccept, InsertUser, CommitSignup
<1>3. ASSUME NEW r \in Requests, Abort(r) PROVE UNCHANGED queue
  BY <1>3 DEF Abort
<1>4. ASSUME NEW i \in Ids, Revoke(i) \/ Expire(i) PROVE UNCHANGED queue
  BY <1>4 DEF Revoke, Expire
<1>5. ASSUME NEW e \in Emails, Register(e) \/ LeaveWorkspace(e) PROVE UNCHANGED queue
  BY <1>5 DEF Register, LeaveWorkspace
<1>6. CASE UNCHANGED vars
  BY <1>6 DEF vars
<1>7. QED
  BY <1>1, <1>2, <1>3, <1>4, <1>5, <1>6 DEF Next

\* Delivering touches one message, which is not new, and no token.
LEMMA DeliverMoves ==
  ASSUME IInv, NEW t \in Tags, Deliver(t) \/ WorkerDies(t)
  PROVE  /\ ~Unsent(t)
         /\ \A u \in Tags \ {t} : /\ jobs'[u] = jobs[u]
                                  /\ u \in inbox' <=> u \in inbox
                                  /\ u \in failures' <=> u \in failures
         /\ jobs'[t].at \in {"accepted", "reported"} => t \in inbox'
         /\ t \in failures' => jobs'[t].at = "none"
<1>a. /\ jobs \in [Tags -> [at: {"none", "queued", "accepted", "reported"},
                            made: 0..(MaxAttempts - 1), stalls: 0..MaxStalls]]
      /\ jobs[t].at \in {"accepted", "reported"} => t \in inbox
      /\ t \in failures => jobs[t].at = "none"
  BY DEF IInv, TypeOK, QueueTypeOK, MailInv
<1>b. NoJob.at = "none"
  BY DEF NoJob
<1>1. CASE Send(t)
  BY <1>1, <1>a DEF Send, Unsent
<1>2. CASE ReportSent(t)
  BY <1>2, <1>a DEF ReportSent, Unsent
<1>3. CASE Complete(t)
  BY <1>3, <1>a, <1>b DEF Complete, Unsent
<1>4. CASE SendFails(t)
  <2>1. jobs[t].at = "queued" /\ t \notin failures /\ UNCHANGED inbox
    BY <1>4, <1>a DEF SendFails
  <2>2. CASE jobs' = [jobs EXCEPT ![t] = NoJob] /\ failures' = failures \cup {t}
    BY <2>1, <2>2, <1>a, <1>b DEF Unsent
  <2>3. CASE /\ jobs' = [jobs EXCEPT ![t] = [jobs[t] EXCEPT !.made = jobs[t].made + 1]]
             /\ UNCHANGED failures
    BY <2>1, <2>3, <1>a DEF Unsent
  <2>4. QED
    BY <1>4, <2>2, <2>3 DEF SendFails
<1>5. CASE Stall(t)
  <2>1. jobs[t].at # "none" /\ t \notin failures /\ UNCHANGED <<inbox, failures>>
    BY <1>5, <1>a DEF Stall
  <2>2. CASE jobs' = [jobs EXCEPT ![t] = NoJob]
    BY <2>1, <2>2, <1>a, <1>b DEF Unsent
  <2>3. CASE jobs' = [jobs EXCEPT ![t] = [jobs[t] EXCEPT !.at = "queued",
                                                        !.stalls = jobs[t].stalls + 1]]
    BY <2>1, <2>3, <1>a DEF Unsent
  <2>4. QED
    BY <1>5, <2>2, <2>3 DEF Stall
<1>6. CASE OnFailed(t)
  BY <1>6, <1>a DEF OnFailed, Unsent
<1>7. QED
  BY <1>1, <1>2, <1>3, <1>4, <1>5, <1>6 DEF Deliver, Work, TellSent, TellFailed, WorkerDies

\* No token is ever taken back.
LEMMA SendGrows ==
  ASSUME IInv, [Next]_vars, NEW i \in Ids
  PROVE  inv[i].send \in Nat /\ inv'[i].send \in Nat /\ inv'[i].send >= inv[i].send
<1>1. inv[i] \in Row /\ inv'[i] \in Row /\ RowsInv
  BY TypesKept DEF IInv, TypeOK
<1>2. CASE inv[i].status # "none"
  BY <1>2, RowStable
<1>3. CASE inv[i].status = "none"
  <2>1. inv[i].send = 0
    BY <1>1, <1>3 DEF RowsInv, NoRow
  <2>2. inv'[i].send \in Nat
    BY <1>1, InvitationAssumption DEF Row
  <2>3. QED
    BY <2>1, <2>2
<1>4. QED
  BY <1>2, <1>3

\* The email of a row stays queued in the table as long as nothing was sent.
LEMMA MailStays ==
  ASSUME IInv, [Next]_vars, NEW i \in Ids, inv[i].status # "none",
         Unsent(Tag(i)), inv[i].mail = "queued"
  PROVE  inv'[i].mail = "queued"
<1>a. inv \in [Ids -> Row] /\ RequestsInv
  BY DEF IInv, TypeOK
<1>1. CASE UNCHANGED inv
  BY <1>1
<1>2. ASSUME NEW r \in Requests, InsertInvitation(r) PROVE inv'[i].mail = "queued"
  <2>1. req[r].id \in Ids /\ inv[req[r].id].status = "none"
    BY <1>a, <1>2 DEF InsertInvitation, RequestsInv, Sound
  <2>2. inv' = inv \/ \E w : inv' = [inv EXCEPT ![req[r].id] = w]
    BY <1>2 DEF InsertInvitation
  <2>3. QED
    BY <1>a, <2>1, <2>2
<1>3. ASSUME NEW r \in Requests, NEW j \in Ids, Resend(r, j) PROVE inv'[i].mail = "queued"
  <2>1. inv' = [inv EXCEPT ![j] = [inv[j] EXCEPT !.send = inv[j].send + 1, !.expired = FALSE,
                                                !.mail = "queued"]]
    BY <1>3 DEF Resend
  <2>2. inv[j] \in Row
    BY <1>a
  <2>3. inv'[j].mail = "queued"
    BY <1>a, <2>1, <2>2 DEF Row
  <2>4. CASE i # j
    BY <1>a, <2>1, <2>4
  <2>5. QED
    BY <2>3, <2>4
<1>4. ASSUME NEW j \in Ids, inv' = [inv EXCEPT ![j].status = "revoked"]
             \/ inv' = [inv EXCEPT ![j].status = "accepted"]
             \/ inv' = [inv EXCEPT ![j].expired = TRUE]
      PROVE  inv'[i].mail = "queued"
  BY <1>a, <1>4 DEF Row
<1>5. ASSUME NEW r \in Requests, CommitAccept(r) \/ CommitSignup(r) PROVE inv'[i].mail = "queued"
  <2>1. req[r].id \in Ids
    BY <1>a, <1>5 DEF CommitAccept, CommitSignup, RequestsInv, Sound
  <2>2. UNCHANGED inv \/ inv' = [inv EXCEPT ![req[r].id].status = "accepted"]
    BY <1>5 DEF CommitAccept, CommitSignup, Join
  <2>3. QED
    BY <1>1, <1>4, <2>1, <2>2
<1>6. ASSUME NEW t \in Tags, TellSent(t) \/ TellFailed(t) PROVE inv'[i].mail = "queued"
  <2>1. ~Unsent(t)
    BY <1>6, DeliverMoves DEF Deliver
  <2>2. t[1] \in Ids /\ t = <<t[1], t[2]>>
    BY TagIsPair
  <2>3. UNCHANGED inv \/ (Finds(t) /\ \E o \in {"sent", "failed"} : inv' = [inv EXCEPT ![t[1]].mail = o])
    BY <1>6 DEF TellSent, TellFailed, Told, Record
  <2>4. CASE Finds(t) /\ t[1] # i
    BY <1>a, <2>2, <2>3, <2>4
  <2>5. CASE Finds(t) /\ t[1] = i
    <3>1. t = Tag(i)
      BY <2>2, <2>5 DEF Finds, Tag
    <3>2. QED
      BY <2>1, <3>1
  <2>6. QED
    BY <2>3, <2>4, <2>5
<1>7. ASSUME NEW r \in Requests, Start(r) PROVE inv'[i].mail = "queued"
  BY <1>3, <1>7 DEF Start, CheckNewcomer, BeginAccept, CheckSignup
<1>8. ASSUME NEW r \in Requests, Handle(r) \/ Abort(r) PROVE inv'[i].mail = "queued"
  BY <1>2, <1>5, <1>8 DEF Handle, Enqueue, InsertUser, Abort
<1>9. ASSUME NEW t \in Tags, Deliver(t) \/ WorkerDies(t) PROVE inv'[i].mail = "queued"
  BY <1>6, <1>9 DEF Deliver, Work, WorkerDies
<1>10. ASSUME NEW j \in Ids, Revoke(j) \/ Expire(j) PROVE inv'[i].mail = "queued"
  BY <1>4, <1>10 DEF Revoke, Expire
<1>11. ASSUME NEW e \in Emails, Register(e) \/ LeaveWorkspace(e) PROVE inv'[i].mail = "queued"
  BY <1>11 DEF Register, LeaveWorkspace
<1>12. CASE UNCHANGED vars
  BY <1>12 DEF vars
<1>13. QED
  BY <1>7, <1>8, <1>9, <1>10, <1>11, <1>12 DEF Next

\* A request that enqueues holds a token that has been written.
LEMMA EnqueueTag ==
  ASSUME IInv, NEW r \in Requests, Enqueueing(r)
  PROVE  /\ ReqTag(r) \in Tags /\ ReqTag(r) = <<req[r].id, req[r].send>>
         /\ req[r].id \in Ids /\ req[r].send \in 1..inv[req[r].id].send
         /\ inv[req[r].id].status # "none" /\ Unsent(ReqTag(r))
<1>1. req[r].id \in Ids /\ req[r].send \in 1..inv[req[r].id].send
  BY DEF IInv, RequestsInv, Sound, Enqueueing
<1>2. inv[req[r].id].send \in 0..MaxSends
  BY <1>1 DEF IInv, TypeOK, Row
<1>3. inv[req[r].id].status # "none"
  BY <1>1 DEF IInv, RowsInv, NoRow
<1>4. QED
  BY <1>1, <1>2, <1>3, InvitationAssumption DEF IInv, MailInv, ReqTag, Sends

\* Enqueueing touches one message, which is new.
LEMMA EnqueueMoves ==
  ASSUME IInv, NEW r \in Requests, Enqueue(r)
  PROVE  /\ Enqueueing(r) /\ jobs'[ReqTag(r)].at = "queued" /\ UNCHANGED <<inv, inbox, failures>>
         /\ \A u \in Tags \ {ReqTag(r)} : jobs'[u] = jobs[u]
         /\ req' = [req EXCEPT ![r] = NoWork]
<1>1. Enqueueing(r) /\ Add(ReqTag(r)) /\ UNCHANGED inv /\ req' = [req EXCEPT ![r] = NoWork]
  BY DEF Enqueue, Enqueueing, ReqTag, End
<1>2. ReqTag(r) \in Tags /\ jobs \in [Tags -> [at: {"none", "queued", "accepted", "reported"},
                            made: 0..(MaxAttempts - 1), stalls: 0..MaxStalls]]
  BY <1>1, EnqueueTag DEF IInv, TypeOK, QueueTypeOK
<1>3. jobs' = [jobs EXCEPT ![ReqTag(r)] = [NoJob EXCEPT !.at = "queued"]]
  BY <1>1 DEF Add
<1>4. [NoJob EXCEPT !.at = "queued"].at = "queued"
  BY DEF NoJob
<1>5. QED
  BY <1>1, <1>2, <1>3, <1>4 DEF Add

\* What is unsent stays so, unless it is enqueued.
LEMMA UnsentStays ==
  ASSUME IInv, [Next]_vars, NEW t \in Tags, Unsent(t),
         \A r \in Requests : Enqueue(r) => ReqTag(r) # t
  PROVE  Unsent(t)'
<1>1. CASE UNCHANGED queue
  BY <1>1 DEF queue, Unsent
<1>2. ASSUME NEW r \in Requests, Enqueue(r) PROVE Unsent(t)'
  BY <1>2, EnqueueMoves DEF Unsent
<1>3. ASSUME NEW u \in Tags, Deliver(u) \/ WorkerDies(u) PROVE Unsent(t)'
  <2>1. u # t
    BY <1>3, DeliverMoves
  <2>2. QED
    BY <1>3, <2>1, DeliverMoves DEF Unsent
<1>4. QED
  BY <1>1, <1>2, <1>3, QueueMoves

LEMMA MailKept ==
  ASSUME IInv, [Next]_vars
  PROVE  MailInv'
<1>a. inv \in [Ids -> Row] /\ req \in [Requests -> Request] /\ RowsInv /\ RequestsInv /\ MailInv
  BY DEF IInv, TypeOK
<1>1. ASSUME NEW t \in Tags
      PROVE  /\ jobs'[t].at \in {"accepted", "reported"} => t \in inbox'
             /\ t \in failures' => jobs'[t].at = "none"
  <2>1. CASE UNCHANGED queue
    BY <1>a, <2>1 DEF queue, MailInv
  <2>2. ASSUME NEW r \in Requests, Enqueue(r)
        PROVE  /\ jobs'[t].at \in {"accepted", "reported"} => t \in inbox'
               /\ t \in failures' => jobs'[t].at = "none"
    <3>1. Unsent(ReqTag(r))
      BY <2>2, EnqueueMoves, EnqueueTag
    <3>2. QED
      BY <1>a, <2>2, <3>1, EnqueueMoves DEF MailInv, Unsent
  <2>3. ASSUME NEW u \in Tags, Deliver(u) \/ WorkerDies(u)
        PROVE  /\ jobs'[t].at \in {"accepted", "reported"} => t \in inbox'
               /\ t \in failures' => jobs'[t].at = "none"
    BY <1>a, <2>3, DeliverMoves DEF MailInv
  <2>4. QED
    BY <2>1, <2>2, <2>3, QueueMoves
<1>2. ASSUME NEW t \in Tags, t[2] > inv'[t[1]].send PROVE Unsent(t)'
  <2>1. t[1] \in Ids /\ t[2] \in Sends /\ MaxSends \in Nat
    BY TagIsPair, InvitationAssumption
  <2>2. t[2] > inv[t[1]].send
    BY <1>2, <2>1, SendGrows DEF Sends
  <2>3. Unsent(t)
    BY <1>a, <2>2 DEF MailInv
  <2>4. ASSUME NEW r \in Requests, Enqueue(r) PROVE ReqTag(r) # t
    <3>1. ReqTag(r) = <<req[r].id, req[r].send>> /\ req[r].send \in 1..inv[req[r].id].send
      BY <2>4, EnqueueMoves, EnqueueTag
    <3>2. QED
      BY <2>1, <2>2, <3>1, TagIsPair, SendGrows
  <2>5. QED
    BY <2>3, <2>4, UnsentStays
<1>3. ASSUME NEW r \in Requests, req'[r] = req[r], Enqueueing(r)
      PROVE  Unsent(ReqTag(r))' /\ (Finds(ReqTag(r))' => inv'[req'[r].id].mail = "queued")
  <2>1. ASSUME NEW s \in Requests, Enqueue(s) PROVE ReqTag(s) # ReqTag(r)
    <3>1. s # r
      <4>1. SUFFICES ASSUME s = r PROVE FALSE
        OBVIOUS
      <4>2. req'[r] = NoWork /\ NoWork.op = "idle"
        BY <1>a, <2>1, <4>1, EnqueueMoves DEF NoWork
      <4>3. QED
        BY <1>3, <4>2 DEF Enqueueing
    <3>2. QED
      BY <1>a, <1>3, <2>1, <3>1, EnqueueMoves DEF RequestsInv, Apart
  <2>2. Unsent(ReqTag(r))'
    <3>1. \A s \in Requests : Enqueue(s) => ReqTag(s) # <<req[r].id, req[r].send>>
      BY <2>1 DEF ReqTag
    <3>2. <<req[r].id, req[r].send>> \in Tags /\ Unsent(<<req[r].id, req[r].send>>)
      BY <1>3, EnqueueTag DEF ReqTag
    <3>3. Unsent(<<req[r].id, req[r].send>>)'
      <4>1. DEFINE t == <<req[r].id, req[r].send>>
      <4>2. t \in Tags /\ Unsent(t) /\ \A s \in Requests : Enqueue(s) => ReqTag(s) # t
        BY <3>1, <3>2
      <4>3. jobs'[t].at = "none" /\ t \notin inbox' /\ t \notin failures'
        <5> HIDE DEF t
        <5>1. QED
          BY <4>2, UnsentStays DEF Unsent
      <4>4. QED
        BY <1>3, <4>3 DEF Unsent
    <3>4. QED
      BY <1>3, <3>3 DEF ReqTag, Unsent
  <2>3. ASSUME Finds(ReqTag(r))' PROVE inv'[req'[r].id].mail = "queued"
    <3>1. /\ req[r].id \in Ids /\ req[r].send \in 1..inv[req[r].id].send
          /\ inv[req[r].id].status # "none" /\ Unsent(ReqTag(r))
      BY <1>3, EnqueueTag
    <3>2. inv'[req[r].id].send = req[r].send
      BY <1>3, <2>3 DEF Finds, ReqTag
    <3>3. inv[req[r].id].send = req[r].send
      BY <3>1, <3>2, SendGrows
    <3>4. Tag(req[r].id) = ReqTag(r) /\ Finds(ReqTag(r))
      BY <3>3 DEF Tag, ReqTag, Finds
    <3>5. inv[req[r].id].mail = "queued"
      BY <1>a, <1>3, <3>4 DEF MailInv
    <3>6. QED
      BY <1>3, <3>1, <3>4, <3>5, MailStays
  <2>4. QED
    BY <2>2, <2>3
<1>4. ASSUME NEW r \in Requests, Moves(r), Enqueueing(r)'
      PROVE  Unsent(ReqTag(r))' /\ (Finds(ReqTag(r))' => inv'[req'[r].id].mail = "queued")
  <2>1. req'[r].op = "enqueue" /\ NoWork.op = "idle"
    BY <1>4 DEF Enqueueing, NoWork
  <2>2. /\ req'[r].id \in Ids /\ req'[r].send = inv[req'[r].id].send + 1
        /\ inv'[req'[r].id].mail = "queued" /\ UNCHANGED queue
        /\ inv'[req'[r].id].send = req'[r].send
    <3>1. ASSUME NEW i \in Ids, inv[i].status = "none" PROVE inv[i].send = 0
      BY <1>a, <3>1 DEF RowsInv, NoRow
    <3>2. req'[r] # NoWork /\ ~AboutRow(req'[r])
      BY <2>1 DEF AboutRow
    <3>3. QED
      BY <1>4, <2>1, <3>1, <3>2, MovedTo
  <2>3. <<req'[r].id, req'[r].send>> \in Tags
    <3>1. inv'[req'[r].id].send \in 0..MaxSends /\ inv[req'[r].id].send \in Nat
      BY <2>2, TypesKept, SendGrows DEF TypeOK, Row
    <3>2. req'[r].send \in Sends
      BY <2>2, <3>1, InvitationAssumption DEF Sends
    <3>3. QED
      BY <2>2, <3>2, InvitationAssumption
  <2>4. Unsent(<<req'[r].id, req'[r].send>>)
    <3>1. DEFINE t == <<req'[r].id, req'[r].send>>
    <3>2. t \in Tags /\ t[2] > inv[t[1]].send
      BY <2>2, <2>3, SendGrows
    <3>3. QED
      BY <1>a, <3>2 DEF MailInv
  <2>5. QED
    BY <2>2, <2>4 DEF queue, Unsent, ReqTag
<1>5. ASSUME NEW r \in Requests, Enqueueing(r)'
      PROVE  Unsent(ReqTag(r))' /\ (Finds(ReqTag(r))' => inv'[req'[r].id].mail = "queued")
  <2>1. req'[r] = req[r] \/ Moves(r)
    BY ReqMoves
  <2>2. CASE req'[r] = req[r]
    BY <1>3, <1>5, <2>2 DEF Enqueueing
  <2>3. QED
    BY <1>4, <1>5, <2>1, <2>2
<1>6. QED
  BY <1>1, <1>2, <1>5 DEF MailInv

\* The invariant is inductive.
LEMMA StepInv == IInv /\ [Next]_vars => IInv'
BY TypesKept, RowsKept, RequestsKept, MailKept DEF IInv

\* Every reachable state of the invitations satisfies the inductive invariant.
THEOREM InvCorrect == Spec => []IInv
BY InitInv, StepInv, PTL DEF Spec

\* Every variable keeps its type, however requests, workers and time interleave.
THEOREM TypeCorrect == Spec => []TypeOK
<1>1. IInv => TypeOK
  BY DEF IInv
<1>2. QED
  BY <1>1, InvCorrect, PTL

-----------------------------------------------------------------------------
(* Links, and who came in by them.                                          *)

SameLink(i) == /\ inv'[i].status = inv[i].status /\ inv'[i].email = inv[i].email
               /\ inv'[i].send = inv[i].send

Issues(r) ==
  /\ req[r].id \in Ids /\ req[r].email \in Emails /\ inv[req[r].id].status = "none"
  /\ \A j \in Ids : Pending(j) => inv[j].email # req[r].email
  /\ inv' = [inv EXCEPT ![req[r].id] = [status |-> "pending", email |-> req[r].email,
                                        role |-> req[r].role, send |-> 1, expired |-> FALSE,
                                        mail |-> "queued"]]

Replaces(i) ==
  /\ Pending(i)
  /\ inv' = [inv EXCEPT ![i] = [inv[i] EXCEPT !.send = inv[i].send + 1, !.expired = FALSE,
                                              !.mail = "queued"]]

Admits(r) ==
  /\ req[r].id \in Ids /\ req[r].email = inv[req[r].id].email
  /\ Consumable(req[r]) /\ Join(req[r]) /\ End(r)

Withdraws(i) == Pending(i) /\ inv' = [inv EXCEPT ![i].status = "revoked"]

\* The only steps that change what a link is worth.
LEMMA LinkMoves ==
  ASSUME IInv, [Next]_vars
  PROVE  \/ (\A i \in Ids : SameLink(i)) /\ UNCHANGED admitted
         \/ \E r \in Requests : Issues(r) /\ UNCHANGED admitted
         \/ \E i \in Ids : (Replaces(i) \/ Withdraws(i)) /\ UNCHANGED admitted
         \/ \E r \in Requests : Admits(r)
<1> DEFINE Quiet == (\A i \in Ids : SameLink(i)) /\ UNCHANGED admitted
<1>a. inv \in [Ids -> Row] /\ RequestsInv
  BY DEF IInv, TypeOK
<1>b. ASSUME UNCHANGED <<inv, admitted>> PROVE Quiet
  BY <1>b DEF SameLink
<1>1. ASSUME NEW r \in Requests, InsertInvitation(r)
      PROVE  Quiet \/ (Issues(r) /\ UNCHANGED admitted)
  <2>1. /\ req[r].id \in Ids /\ req[r].email \in Emails /\ inv[req[r].id].status = "none"
        /\ UNCHANGED admitted
    BY <1>a, <1>1 DEF InsertInvitation, RequestsInv, Sound, ledger
  <2>2. \/ UNCHANGED inv
        \/ /\ \A j \in Ids : Pending(j) => inv[j].email # req[r].email
           /\ inv' = [inv EXCEPT ![req[r].id] =
                        [status |-> "pending", email |-> req[r].email, role |-> req[r].role,
                         send |-> 1, expired |-> FALSE, mail |-> "queued"]]
    BY <1>1 DEF InsertInvitation
  <2>3. QED
    BY <1>b, <2>1, <2>2 DEF Issues
<1>2. ASSUME NEW r \in Requests, NEW i \in Ids, Resend(r, i)
      PROVE  Replaces(i) /\ UNCHANGED admitted
  BY <1>2 DEF Resend, Replaces, ledger
<1>3. ASSUME NEW i \in Ids, Revoke(i) PROVE Withdraws(i) /\ UNCHANGED admitted
  BY <1>3 DEF Revoke, Withdraws, ledger
<1>4. ASSUME NEW r \in Requests, CommitAccept(r) \/ CommitSignup(r) PROVE Quiet \/ Admits(r)
  <2>1. req[r].id \in Ids /\ req[r].email = inv[req[r].id].email /\ End(r)
    BY <1>a, <1>4 DEF CommitAccept, CommitSignup, RequestsInv, Sound, AboutRow
  <2>2. UNCHANGED <<inv, admitted>> \/ (Consumable(req[r]) /\ Join(req[r]))
    BY <1>4 DEF CommitAccept, CommitSignup
  <2>3. QED
    BY <1>b, <2>1, <2>2 DEF Admits
<1>5. ASSUME NEW t \in Tags, TellSent(t) \/ TellFailed(t) PROVE Quiet
  <2>1. UNCHANGED admitted /\ t[1] \in Ids
    BY <1>5, TagIsPair DEF TellSent, TellFailed
  <2>2. UNCHANGED inv \/ \E o \in {"sent", "failed"} : inv' = [inv EXCEPT ![t[1]].mail = o]
    BY <1>5 DEF TellSent, TellFailed, Told, Record
  <2>3. ASSUME NEW o \in {"sent", "failed"}, inv' = [inv EXCEPT ![t[1]].mail = o] PROVE Quiet
    BY <1>a, <2>1, <2>3 DEF SameLink, Row
  <2>4. QED
    BY <1>b, <2>1, <2>2, <2>3
<1>6. ASSUME NEW i \in Ids, Expire(i) PROVE Quiet
  BY <1>a, <1>6 DEF Expire, SameLink, Row, ledger
<1>7. ASSUME NEW r \in Requests, Abort(r) \/ Enqueue(r) \/ InsertUser(r) PROVE Quiet
  BY <1>b, <1>7 DEF Abort, Enqueue, InsertUser, ledger
<1>8. ASSUME NEW r \in Requests, Start(r)
      PROVE  Quiet \/ \E i \in Ids : Replaces(i) /\ UNCHANGED admitted
  BY <1>b, <1>2, <1>8 DEF Start, CheckNewcomer, BeginAccept, CheckSignup, ledger
<1>9. ASSUME NEW t \in Tags, Deliver(t) \/ WorkerDies(t) PROVE Quiet
  BY <1>b, <1>5, <1>9 DEF Deliver, Work, WorkerDies, ledger
<1>10. ASSUME NEW e \in Emails, Register(e) \/ LeaveWorkspace(e) PROVE Quiet
  BY <1>b, <1>10 DEF Register, LeaveWorkspace, ledger
<1>11. CASE UNCHANGED vars
  BY <1>b, <1>11 DEF vars, ledger
<1>12. QED
  BY <1>1, <1>3, <1>4, <1>6, <1>7, <1>8, <1>9, <1>10, <1>11 DEF Next, Handle

\* What joining appends to the ledger.
LEMMA AdmitsOne ==
  ASSUME IInv, NEW r \in Requests, Admits(r)
  PROVE  /\ inv[req[r].id].status = "pending" /\ inv[req[r].id].send = req[r].send
         /\ inv' = [inv EXCEPT ![req[r].id].status = "accepted"]
         /\ admitted' = [admitted EXCEPT ![req[r].id] =
                            Append(@, <<inv[req[r].id].email, inv[req[r].id].send>>)]
BY DEF Admits, Consumable, Pending, Finds, Join

LEMMA SingleUseStep == IInv /\ SingleUse /\ [Next]_vars => SingleUse'
<1> SUFFICES ASSUME IInv, SingleUse, [Next]_vars, NEW i \in Ids
             PROVE  Len(admitted'[i]) = IF inv'[i].status = "accepted" THEN 1 ELSE 0
  BY DEF SingleUse
<1>a. /\ inv \in [Ids -> Row] /\ admitted \in [Ids -> Seq(Emails \X Sends)]
      /\ Len(admitted[i]) = IF inv[i].status = "accepted" THEN 1 ELSE 0
  BY DEF IInv, TypeOK, SingleUse
<1>1. CASE (\A j \in Ids : SameLink(j)) /\ UNCHANGED admitted
  BY <1>a, <1>1 DEF SameLink
<1>2. ASSUME NEW r \in Requests, Issues(r) /\ UNCHANGED admitted
      PROVE  Len(admitted'[i]) = IF inv'[i].status = "accepted" THEN 1 ELSE 0
  BY <1>a, <1>2 DEF Issues
<1>3. ASSUME NEW j \in Ids, Replaces(j) \/ Withdraws(j), UNCHANGED admitted
      PROVE  Len(admitted'[i]) = IF inv'[i].status = "accepted" THEN 1 ELSE 0
  <2>1. inv[j].status = "pending" /\ (i # j => inv'[i] = inv[i])
    BY <1>a, <1>3 DEF Replaces, Withdraws, Pending
  <2>2. inv'[j].status = "pending" \/ inv'[j].status = "revoked"
    BY <1>a, <1>3, <2>1 DEF Replaces, Withdraws, Row
  <2>3. QED
    BY <1>a, <1>3, <2>1, <2>2
<1>4. ASSUME NEW r \in Requests, Admits(r)
      PROVE  Len(admitted'[i]) = IF inv'[i].status = "accepted" THEN 1 ELSE 0
  <2>1. req[r].id \in Ids /\ req[r].email \in Emails /\ req[r].send \in Sends
    <3>1. req[r].id \in Ids /\ req[r].email = inv[req[r].id].email
          /\ req[r].send = inv[req[r].id].send /\ inv[req[r].id].status = "pending"
      BY <1>4, AdmitsOne DEF Admits
    <3>2. QED
      BY <3>1 DEF IInv, RowsInv
  <2>2. /\ inv' = [inv EXCEPT ![req[r].id].status = "accepted"]
        /\ admitted' = [admitted EXCEPT ![req[r].id] = Append(@, <<req[r].email, req[r].send>>)]
        /\ inv[req[r].id].status = "pending"
    BY <1>4 DEF Admits, Join, Consumable, Pending
  <2>3. CASE i = req[r].id
    <3>1. admitted'[i] = Append(admitted[i], <<req[r].email, req[r].send>>)
      BY <1>a, <2>2, <2>3
    <3>2. Len(admitted'[i]) = 1
      BY SMTT(30), <1>a, <2>1, <2>2, <2>3, <3>1, AppendProperties
    <3>3. inv[i] \in Row /\ inv'[i].status = "accepted"
      BY <1>a, <2>2, <2>3 DEF Row
    <3>4. QED
      BY <3>2, <3>3
  <2>4. CASE i # req[r].id
    BY <1>a, <2>2, <2>4
  <2>5. QED
    BY <2>3, <2>4
<1>5. QED
  BY <1>1, <1>2, <1>3, <1>4, LinkMoves

\* An invitation admits once at most, whichever way requests race on its link.
THEOREM SingleUseCorrect == Spec => []SingleUse
<1>1. Init => SingleUse
  BY DEF Init, SingleUse, NoRow
<1>2. IInv /\ SingleUse /\ [Next]_vars => SingleUse'
  BY SingleUseStep
<1>3. QED
  BY <1>1, <1>2, InvCorrect, PTL DEF Spec

\* An accepted invitation stays accepted by the address it was issued to.
LEMMA AcceptedStays ==
  ASSUME IInv, [Next]_vars, NEW i \in Ids, inv[i].status = "accepted"
  PROVE  inv'[i].status = "accepted" /\ inv'[i].email = inv[i].email
<1>a. inv \in [Ids -> Row]
  BY DEF IInv, TypeOK
<1>1. CASE \A j \in Ids : SameLink(j)
  BY <1>1 DEF SameLink
<1>2. ASSUME NEW r \in Requests, Issues(r) PROVE inv'[i] = inv[i]
  BY <1>a, <1>2 DEF Issues
<1>3. ASSUME NEW j \in Ids, Replaces(j) \/ Withdraws(j) PROVE inv'[i] = inv[i]
  BY <1>a, <1>3 DEF Replaces, Withdraws, Pending
<1>4. ASSUME NEW r \in Requests, Admits(r) PROVE inv'[i] = inv[i]
  BY <1>a, <1>4, AdmitsOne DEF Admits
<1>5. QED
  BY <1>1, <1>2, <1>3, <1>4, LinkMoves

LEMMA NoStrayAccountStep == IInv /\ NoStrayAccount /\ [Next]_vars => NoStrayAccount'
<1> SUFFICES ASSUME IInv, NoStrayAccount, [Next]_vars, NEW e \in account' \ registered'
             PROVE  \E i \in Ids : inv'[i].status = "accepted" /\ inv'[i].email = e
  BY DEF NoStrayAccount
<1>1. CASE e \in account \ registered
  BY <1>1, AcceptedStays DEF NoStrayAccount
<1>2. ASSUME NEW r \in Requests, CommitSignup(r), e \notin account \ registered
      PROVE  \E i \in Ids : inv'[i].status = "accepted" /\ inv'[i].email = e
  <2>1. e = req[r].email /\ Consumable(req[r]) /\ Join(req[r])
    BY <1>2 DEF CommitSignup
  <2>2. /\ req[r].id \in Ids /\ inv[req[r].id].email = req[r].email
        /\ inv[req[r].id] \in Row /\ inv \in [Ids -> Row]
    BY <1>2 DEF IInv, RequestsInv, Sound, AboutRow, CommitSignup, TypeOK
  <2>3. inv'[req[r].id] = [inv[req[r].id] EXCEPT !.status = "accepted"]
    BY <2>1, <2>2 DEF Join
  <2>4. inv'[req[r].id].status = "accepted" /\ inv'[req[r].id].email = e
    BY <2>1, <2>2, <2>3 DEF Row
  <2>5. QED
    BY <2>2, <2>4
<1>3. CASE e \notin account \ registered /\ \A r \in Requests : ~CommitSignup(r)
  <2>1. ASSUME UNCHANGED <<account, registered>> PROVE FALSE
    BY <1>3, <2>1
  <2>2. ASSUME NEW r \in Requests, Start(r) \/ Handle(r) \/ Abort(r) PROVE FALSE
    BY <1>3, <2>1, <2>2 DEF Start, Handle, Abort, CheckNewcomer, InsertInvitation, Resend, Enqueue,
       BeginAccept, CommitAccept, CheckSignup, InsertUser, people
  <2>3. ASSUME NEW t \in Tags, Deliver(t) \/ WorkerDies(t) PROVE FALSE
    BY <2>1, <2>3 DEF Deliver, Work, TellSent, TellFailed, WorkerDies, people
  <2>4. ASSUME NEW i \in Ids, Revoke(i) \/ Expire(i) PROVE FALSE
    BY <2>1, <2>4 DEF Revoke, Expire, people
  <2>5. ASSUME NEW x \in Emails, Register(x) \/ LeaveWorkspace(x) PROVE FALSE
    BY <1>3, <2>1, <2>5 DEF Register, LeaveWorkspace
  <2>6. CASE UNCHANGED vars
    BY <2>1, <2>6 DEF vars, people
  <2>7. QED
    BY <2>2, <2>3, <2>4, <2>5, <2>6 DEF Next
<1>4. QED
  BY <1>1, <1>2, <1>3

\* A sign-up by invitation leaves an account only together with its acceptance.
THEOREM NoStrayAccountCorrect == Spec => []NoStrayAccount
<1>1. Init => NoStrayAccount
  BY DEF Init, NoStrayAccount
<1>2. QED
  BY <1>1, NoStrayAccountStep, InvCorrect, PTL DEF Spec

\* Whoever accepts after the expiry had begun before it.
THEOREM AcceptedInTimeCorrect == Spec => AcceptedInTime
<1>1. ASSUME IInv, [Next]_vars, NEW i \in Ids, Pending(i), inv'[i].status = "accepted"
      PROVE  \E r \in Requests : req[r].id = i /\ req[r].live /\ Idle(r)'
  <2>a. inv \in [Ids -> Row] /\ req \in [Requests -> Request]
    BY <1>1 DEF IInv, TypeOK
  <2>1. CASE \A j \in Ids : SameLink(j)
    BY <1>1, <2>1 DEF SameLink, Pending
  <2>2. ASSUME NEW r \in Requests, Issues(r) PROVE FALSE
    BY <1>1, <2>a, <2>2 DEF Issues, Pending
  <2>3. ASSUME NEW j \in Ids, Replaces(j) \/ Withdraws(j) PROVE FALSE
    <3>1. inv'[j].status # "accepted"
      BY <2>a, <2>3 DEF Replaces, Withdraws, Pending, Row
    <3>2. i # j => inv'[i] = inv[i]
      BY <2>a, <2>3 DEF Replaces, Withdraws
    <3>3. QED
      BY <1>1, <3>1, <3>2 DEF Pending
  <2>4. ASSUME NEW r \in Requests, Admits(r)
        PROVE  req[r].id = i /\ req[r].live /\ Idle(r)'
    <3>1. req[r].id = i
      BY <1>1, <2>a, <2>4, AdmitsOne DEF Pending, Admits
    <3>2. req[r].live /\ req'[r] = NoWork
      BY <2>a, <2>4 DEF Admits, Consumable, End
    <3>3. QED
      BY <3>1, <3>2 DEF Idle, NoWork
  <2>5. QED
    BY <1>1, <2>1, <2>2, <2>3, <2>4, LinkMoves
<1>2. IInv /\ [Next]_vars => [\A i \in Ids : Pending(i) /\ inv[i].expired /\ inv'[i].status = "accepted"
         => \E r \in Requests : req[r].id = i /\ req[r].live /\ Idle(r)']_vars
  BY <1>1
<1>3. QED
  BY <1>2, InvCorrect, PTL DEF Spec, AcceptedInTime

\* No invitation changes the role of a member.
THEOREM RoleKeptCorrect == Spec => RoleKept
<1>1. ASSUME IInv, [Next]_vars, NEW e \in Emails, member[e] # None
      PROVE  member'[e] \in {member[e], None}
  <2>a. member \in [Emails -> Roles \cup {None}]
    BY <1>1 DEF IInv, TypeOK
  <2>1. CASE UNCHANGED member
    BY <2>1
  <2>2. ASSUME NEW r \in Requests, CommitAccept(r) \/ CommitSignup(r)
        PROVE  member'[e] \in {member[e], None}
    <3>1. UNCHANGED member \/ Join(req[r])
      BY <2>2 DEF CommitAccept, CommitSignup
    <3>2. QED
      BY <1>1, <2>a, <3>1 DEF Join
  <2>3. ASSUME NEW x \in Emails, LeaveWorkspace(x) PROVE member'[e] \in {member[e], None}
    BY <2>a, <2>3 DEF LeaveWorkspace
  <2>4. ASSUME NEW r \in Requests, Start(r) \/ Handle(r) \/ Abort(r)
        PROVE  member'[e] \in {member[e], None}
    BY <2>1, <2>2, <2>4 DEF Start, Handle, Abort, CheckNewcomer, InsertInvitation, Resend, Enqueue,
       BeginAccept, CheckSignup, InsertUser, people
  <2>5. ASSUME NEW t \in Tags, Deliver(t) \/ WorkerDies(t) PROVE UNCHANGED member
    BY <2>5 DEF Deliver, Work, TellSent, TellFailed, WorkerDies, people
  <2>6. ASSUME NEW i \in Ids, Revoke(i) \/ Expire(i) PROVE UNCHANGED member
    BY <2>6 DEF Revoke, Expire, people
  <2>7. ASSUME NEW x \in Emails, Register(x) PROVE UNCHANGED member
    BY <2>7 DEF Register
  <2>8. CASE UNCHANGED vars
    BY <2>8 DEF vars, people
  <2>9. QED
    BY <1>1, <2>1, <2>3, <2>4, <2>5, <2>6, <2>7, <2>8 DEF Next
<1>2. IInv /\ [Next]_vars => [\A e \in Emails : member[e] # None => member'[e] \in {member[e], None}]_vars
  BY <1>1
<1>3. QED
  BY <1>2, InvCorrect, PTL DEF Spec, RoleKept

-----------------------------------------------------------------------------
(* The requests, the queue and the resends implement the contract.          *)

THEOREM Implements == Spec => ImplementsContract
<1>1. Init => Contract!CInit
  BY DEF Init, Contract!CInit, NoRow
<1>2. ASSUME IInv, [Next]_vars PROVE [Contract!CNext]_(Contract!cvars)
  <2>a. inv \in [Ids -> Row] /\ inv' \in [Ids -> Row] /\ admitted \in [Ids -> Seq(Emails \X Sends)]
    BY <1>2, TypesKept DEF IInv, TypeOK
  <2>1. CASE (\A i \in Ids : SameLink(i)) /\ UNCHANGED admitted
    BY <2>a, <2>1 DEF SameLink, Contract!cvars
  <2>2. ASSUME NEW r \in Requests, Issues(r), UNCHANGED admitted
        PROVE  Contract!Issue(req[r].id, req[r].email)
    BY <2>a, <2>2 DEF Issues, Pending, Contract!Issue
  <2>3. ASSUME NEW i \in Ids, Replaces(i), UNCHANGED admitted PROVE Contract!Replace(i)
    <3>1. inv'[i] = [inv[i] EXCEPT !.send = inv[i].send + 1, !.expired = FALSE, !.mail = "queued"]
          /\ \A j \in Ids \ {i} : inv'[j] = inv[j]
      BY <2>a, <2>3 DEF Replaces
    <3>2. inv'[i].status = inv[i].status /\ inv'[i].email = inv[i].email
          /\ inv'[i].send = inv[i].send + 1
      BY <2>a, <3>1 DEF Row
    <3>3. [j \in Ids |-> inv[j].send]' = [[j \in Ids |-> inv[j].send] EXCEPT ![i] = @ + 1]
      BY <2>a, <3>1, <3>2
    <3>4. UNCHANGED <<[j \in Ids |-> inv[j].status], [j \in Ids |-> inv[j].email]>>
      BY <2>a, <3>1, <3>2
    <3>5. [j \in Ids |-> inv[j].status][i] = "pending"
      BY <2>3 DEF Replaces, Pending
    <3>6. QED
      BY <2>3, <3>3, <3>4, <3>5 DEF Contract!Replace
  <2>4. ASSUME NEW i \in Ids, Withdraws(i), UNCHANGED admitted PROVE Contract!Withdraw(i)
    <3>1. inv'[i] = [inv[i] EXCEPT !.status = "revoked"] /\ \A j \in Ids \ {i} : inv'[j] = inv[j]
      BY <2>a, <2>4 DEF Withdraws
    <3>2. inv'[i].status = "revoked" /\ inv'[i].email = inv[i].email /\ inv'[i].send = inv[i].send
      BY <2>a, <3>1 DEF Row
    <3>3. [j \in Ids |-> inv[j].status]' = [[j \in Ids |-> inv[j].status] EXCEPT ![i] = "revoked"]
      BY <2>a, <3>1, <3>2
    <3>4. UNCHANGED <<[j \in Ids |-> inv[j].send], [j \in Ids |-> inv[j].email]>>
      BY <2>a, <3>1, <3>2
    <3>5. [j \in Ids |-> inv[j].status][i] = "pending"
      BY <2>4 DEF Withdraws, Pending
    <3>6. QED
      BY <2>4, <3>3, <3>4, <3>5 DEF Contract!Withdraw
  <2>5. ASSUME NEW r \in Requests, Admits(r) PROVE Contract!Admit(req[r].id)
    <3>1. /\ req[r].id \in Ids /\ inv[req[r].id].status = "pending"
          /\ inv' = [inv EXCEPT ![req[r].id].status = "accepted"]
          /\ admitted' = [admitted EXCEPT ![req[r].id] =
                             Append(@, <<inv[req[r].id].email, inv[req[r].id].send>>)]
      BY <1>2, <2>5, AdmitsOne DEF Admits
    <3>2. inv'[req[r].id] = [inv[req[r].id] EXCEPT !.status = "accepted"]
          /\ \A j \in Ids \ {req[r].id} : inv'[j] = inv[j]
      BY <2>a, <3>1
    <3>3. /\ inv'[req[r].id].status = "accepted" /\ inv'[req[r].id].email = inv[req[r].id].email
          /\ inv'[req[r].id].send = inv[req[r].id].send
      BY <2>a, <3>1, <3>2 DEF Row
    <3>4. [j \in Ids |-> inv[j].status]' = [[j \in Ids |-> inv[j].status] EXCEPT ![req[r].id] = "accepted"]
      BY <2>a, <3>1, <3>2, <3>3
    <3>5. UNCHANGED <<[j \in Ids |-> inv[j].send], [j \in Ids |-> inv[j].email]>>
      BY <2>a, <3>1, <3>2, <3>3
    <3>6. /\ [j \in Ids |-> inv[j].status][req[r].id] = "pending"
          /\ [j \in Ids |-> inv[j].email][req[r].id] = inv[req[r].id].email
          /\ [j \in Ids |-> inv[j].send][req[r].id] = inv[req[r].id].send
      BY <3>1
    <3>7. QED
      BY <3>1, <3>4, <3>5, <3>6 DEF Contract!Admit
  <2>6. ASSUME NEW r \in Requests, Issues(r), UNCHANGED admitted PROVE Contract!CNext
    <3>1. PICK i \in Ids, e \in Emails : i = req[r].id /\ e = req[r].email
      BY <2>6 DEF Issues
    <3>2. Contract!Issue(i, e)
      BY <2>2, <2>6, <3>1 DEF Contract!Issue
    <3>3. QED
      BY <3>2 DEF Contract!CNext
  <2>7. ASSUME NEW i \in Ids, Replaces(i) \/ Withdraws(i), UNCHANGED admitted
        PROVE  Contract!CNext
    BY <2>3, <2>4, <2>7 DEF Contract!CNext
  <2>8. ASSUME NEW r \in Requests, Admits(r) PROVE Contract!CNext
    <3>1. PICK i \in Ids : i = req[r].id
      BY <2>8 DEF Admits
    <3>2. Contract!Admit(i)
      BY <2>5, <2>8, <3>1 DEF Contract!Admit
    <3>3. QED
      BY <3>2 DEF Contract!CNext
  <2>9. QED
    BY <1>2, <2>1, <2>6, <2>7, <2>8, LinkMoves
<1>3. QED
  BY <1>1, <1>2, InvCorrect, PTL DEF Spec, ImplementsContract, Contract!CSpec

-----------------------------------------------------------------------------
(* What the table says of an email.                                         *)

MailSame(i) == /\ inv'[i].send = inv[i].send /\ inv'[i].mail = inv[i].mail
               /\ inv'[i].status = "none" <=> inv[i].status = "none"
MailNew(i)  == /\ inv'[i].mail = "queued"
               /\ \E r \in Requests : /\ req'[r].op = "enqueue" /\ req'[r].id = i
                                      /\ req'[r].send = inv'[i].send
MailTold(i) == /\ inv'[i].send = inv[i].send /\ UNCHANGED untold
               /\ \/ ReportSent(Tag(i)) /\ inv'[i].mail = "sent"
                  \/ OnFailed(Tag(i)) /\ inv'[i].mail = "failed"

\* A row's email is left alone, is new, or is told of.
LEMMA MailMoves ==
  ASSUME IInv, [Next]_vars, NEW i \in Ids
  PROVE  MailSame(i) \/ MailNew(i) \/ MailTold(i)
<1>a. inv \in [Ids -> Row] /\ req \in [Requests -> Request] /\ RequestsInv
  BY DEF IInv, TypeOK
<1>b. ASSUME inv'[i] = inv[i] PROVE MailSame(i)
  BY <1>b DEF MailSame
<1>c. ASSUME NEW r \in Requests, Moves(r), req'[r].op = "enqueue", req'[r].id = i
      PROVE  MailNew(i)
  <2>1. NoWork.op = "idle" /\ ~AboutRow(req'[r])
    BY <1>c DEF NoWork, AboutRow
  <2>2. QED
    BY <1>c, <2>1, MovedTo DEF MailNew
<1>1. ASSUME NEW r \in Requests, InsertInvitation(r) PROVE MailSame(i) \/ MailNew(i)
  <2>1. /\ req[r].id \in Ids /\ inv[req[r].id].status = "none" /\ req[r].op = "insert"
        /\ req[r] \in Request
    BY <1>a, <1>1 DEF InsertInvitation, RequestsInv, Sound
  <2>2. CASE i # req[r].id \/ UNCHANGED inv
    <3>1. inv'[i] = inv[i]
      BY <1>a, <1>1, <2>1, <2>2 DEF InsertInvitation
    <3>2. QED
      BY <1>b, <3>1
  <2>3. CASE i = req[r].id /\ ~UNCHANGED inv
    <3>1. /\ req' = [req EXCEPT ![r] = [req[r] EXCEPT !.op = "enqueue", !.send = 1]]
          /\ inv' = [inv EXCEPT ![req[r].id] =
                       [status |-> "pending", email |-> req[r].email, role |-> req[r].role,
                        send |-> 1, expired |-> FALSE, mail |-> "queued"]]
      BY <1>1, <2>3 DEF InsertInvitation
    <3>2. req'[r] = [req[r] EXCEPT !.op = "enqueue", !.send = 1] /\ Created(req[r].id, r)
      BY <1>a, <1>1, <2>1, <3>1 DEF Created
    <3>3. req'[r].op = "enqueue" /\ req'[r].id = i
      BY <2>1, <2>3, <3>2 DEF Request
    <3>4. Moves(r)
      BY <1>1, <3>1, <3>2 DEF Moves, Inserts
    <3>5. QED
      BY <1>c, <3>3, <3>4
  <2>4. QED
    BY <2>2, <2>3
<1>2. ASSUME NEW r \in Requests, NEW j \in Ids, Resend(r, j) PROVE MailSame(i) \/ MailNew(i)
  <2>1. inv' = [inv EXCEPT ![j] = [inv[j] EXCEPT !.send = inv[j].send + 1, !.expired = FALSE,
                                                !.mail = "queued"]]
    BY <1>2 DEF Resend
  <2>2. CASE i = j
    <3>1. req'[r] = [NoWork EXCEPT !.op = "enqueue", !.id = j, !.send = inv[j].send + 1]
      BY <1>a, <1>2 DEF Resend
    <3>2. req'[r].op = "enqueue" /\ req'[r].id = i
      BY <2>2, <3>1 DEF NoWork
    <3>3. QED
      BY <1>2, <1>c, <3>2 DEF Moves
  <2>3. CASE i # j
    BY <1>a, <1>b, <2>1, <2>3
  <2>4. QED
    BY <2>2, <2>3
<1>3. ASSUME NEW j \in Ids, inv[j].status # "none",
             \/ inv' = [inv EXCEPT ![j].status = "revoked"]
             \/ inv' = [inv EXCEPT ![j].status = "accepted"]
             \/ inv' = [inv EXCEPT ![j].expired = TRUE]
      PROVE  MailSame(i)
  BY <1>a, <1>3 DEF MailSame, Row
<1>4. ASSUME NEW r \in Requests, CommitAccept(r) \/ CommitSignup(r) PROVE MailSame(i)
  <2>1. req[r].id \in Ids
    BY <1>a, <1>4 DEF CommitAccept, CommitSignup, RequestsInv, Sound
  <2>2. \/ UNCHANGED inv
        \/ inv[req[r].id].status # "none" /\ inv' = [inv EXCEPT ![req[r].id].status = "accepted"]
    BY <1>4 DEF CommitAccept, CommitSignup, Join, Consumable, Pending
  <2>3. QED
    BY <1>3, <1>b, <2>1, <2>2
<1>5. ASSUME NEW t \in Tags, NEW o \in {"sent", "failed"}, Told(t, o),
             o = "sent" => ReportSent(t), o = "failed" => OnFailed(t)
      PROVE  MailSame(i) \/ MailTold(i)
  <2>1. t[1] \in Ids /\ t = <<t[1], t[2]>>
    BY TagIsPair
  <2>2. UNCHANGED inv \/ (Finds(t) /\ inv' = [inv EXCEPT ![t[1]].mail = o] /\ UNCHANGED untold)
    BY <1>5 DEF Told, Record
  <2>3. CASE Finds(t) /\ t[1] = i /\ inv' = [inv EXCEPT ![t[1]].mail = o] /\ UNCHANGED untold
    <3>1. t = Tag(i)
      BY <2>1, <2>3 DEF Finds, Tag
    <3>2. inv'[i].send = inv[i].send /\ inv'[i].mail = o
      BY <1>a, <2>3 DEF Row
    <3>3. QED
      BY <1>5, <2>3, <3>1, <3>2 DEF MailTold
  <2>4. CASE t[1] # i \/ UNCHANGED inv
    <3>1. inv'[i] = inv[i]
      BY <1>a, <2>1, <2>2, <2>4
    <3>2. QED
      BY <1>b, <3>1
  <2>5. QED
    BY <2>2, <2>3, <2>4
<1>6. ASSUME NEW t \in Tags, TellSent(t) \/ TellFailed(t) PROVE MailSame(i) \/ MailTold(i)
  <2>1. CASE TellSent(t)
    BY <1>5, <2>1 DEF TellSent
  <2>2. CASE TellFailed(t)
    BY <1>5, <2>2 DEF TellFailed
  <2>3. QED
    BY <1>6, <2>1, <2>2
<1>7. ASSUME NEW r \in Requests, Start(r) PROVE MailSame(i) \/ MailNew(i)
  BY <1>b, <1>2, <1>7 DEF Start, CheckNewcomer, BeginAccept, CheckSignup
<1>8. ASSUME NEW r \in Requests, Handle(r) \/ Abort(r) PROVE MailSame(i) \/ MailNew(i)
  BY <1>b, <1>1, <1>4, <1>8 DEF Handle, Enqueue, InsertUser, Abort
<1>9. ASSUME NEW t \in Tags, Deliver(t) \/ WorkerDies(t) PROVE MailSame(i) \/ MailTold(i)
  BY <1>b, <1>6, <1>9 DEF Deliver, Work, WorkerDies
<1>10. ASSUME NEW j \in Ids, Revoke(j) \/ Expire(j) PROVE MailSame(i)
  BY <1>3, <1>10 DEF Revoke, Expire, Pending
<1>11. ASSUME NEW e \in Emails, Register(e) \/ LeaveWorkspace(e) PROVE MailSame(i)
  BY <1>b, <1>11 DEF Register, LeaveWorkspace
<1>12. CASE UNCHANGED vars
  BY <1>b, <1>12 DEF vars
<1>13. QED
  BY <1>7, <1>8, <1>9, <1>10, <1>11, <1>12 DEF Next

\* The newest token of an invitation that exists is a tag.
LEMMA TagOfRow ==
  ASSUME IInv, NEW i \in Ids, inv[i].status # "none"
  PROVE  Tag(i) \in Tags
BY InvitationAssumption DEF IInv, RowsInv, Tag

\* A job of the newest token that is over is not taken up again, once the table says so.
LEMMA StatusStays ==
  ASSUME IInv, [Next]_vars, NEW i \in Ids, inv[i].status # "none", inv[i].mail # "queued"
  PROVE  /\ Tag(i) \in inbox => Tag(i) \in inbox'
         /\ jobs[Tag(i)].at = "none" => jobs'[Tag(i)].at = "none"
<1>a. Tag(i) \in Tags
  BY TagOfRow
<1>1. CASE UNCHANGED queue
  BY <1>1 DEF queue
<1>2. ASSUME NEW r \in Requests, Enqueue(r)
      PROVE  UNCHANGED inbox /\ jobs'[Tag(i)] = jobs[Tag(i)]
  <2>1. Enqueueing(r) /\ ReqTag(r) = <<req[r].id, req[r].send>>
    BY <1>2, EnqueueMoves, EnqueueTag
  <2>2. ReqTag(r) # Tag(i)
    <3>1. SUFFICES ASSUME ReqTag(r) = Tag(i) PROVE FALSE
      OBVIOUS
    <3>2. req[r].id = i /\ Finds(ReqTag(r))
      BY <2>1, <3>1 DEF Tag, Finds
    <3>3. QED
      BY <2>1, <3>2 DEF IInv, MailInv
  <2>3. QED
    BY <1>a, <1>2, <2>2, EnqueueMoves
<1>3. ASSUME NEW t \in Tags, Deliver(t) \/ WorkerDies(t)
      PROVE  /\ Tag(i) \in inbox => Tag(i) \in inbox'
             /\ jobs[Tag(i)].at = "none" => jobs'[Tag(i)].at = "none"
  <2>1. CASE t # Tag(i)
    BY <1>a, <1>3, <2>1, DeliverMoves
  <2>2. CASE t = Tag(i)
    BY <1>3, <2>2 DEF Deliver, Work, TellSent, TellFailed, WorkerDies, Send, SendFails, Complete,
       ReportSent, OnFailed, Stall
  <2>3. QED
    BY <2>1, <2>2
<1>4. QED
  BY <1>1, <1>2, <1>3, QueueMoves

LEMMA DeliveryStatusStep == IInv /\ DeliveryStatusTrue /\ [Next]_vars => DeliveryStatusTrue'
<1> SUFFICES ASSUME IInv, DeliveryStatusTrue, [Next]_vars, NEW i \in Ids
             PROVE  /\ inv'[i].mail = "sent" => <<i, inv'[i].send>> \in inbox'
                    /\ inv'[i].mail = "failed" => jobs'[<<i, inv'[i].send>>].at = "none"
  BY DEF DeliveryStatusTrue, Tag
<1>1. CASE inv'[i].mail = "queued"
  BY <1>1
<1>2. CASE inv'[i].mail # "queued" /\ MailSame(i)
  <2>1. inv[i].status # "none"
    BY <1>2 DEF IInv, RowsInv, NoRow, MailSame
  <2>2. inv[i].mail = inv'[i].mail /\ Tag(i) = <<i, inv'[i].send>>
    BY <1>2 DEF MailSame, Tag
  <2>3. QED
    BY <1>2, <2>1, <2>2, StatusStays DEF DeliveryStatusTrue
<1>3. CASE MailTold(i)
  <2>1. Tag(i) = <<i, inv'[i].send>>
    BY <1>3 DEF MailTold, Tag
  <2>2. CASE ReportSent(Tag(i)) /\ inv'[i].mail = "sent"
    <3>1. jobs[Tag(i)].at = "accepted" /\ UNCHANGED inbox
      BY <2>2 DEF ReportSent
    <3>2. inv[i].send \in Sends
      <4>1. inv[i].status # "none"
        <5>1. SUFFICES ASSUME inv[i].status = "none" PROVE FALSE
          OBVIOUS
        <5>2. inv'[i].send = 0
          BY <1>3, <5>1 DEF IInv, RowsInv, NoRow, MailTold
        <5>3. inv'[i] = NoRow
          BY <5>2, RowsKept, InvitationAssumption DEF RowsInv, Sends
        <5>4. QED
          BY <2>2, <5>3 DEF NoRow
      <4>2. QED
        BY <4>1 DEF IInv, RowsInv
    <3>3. Tag(i) \in Tags
      BY <3>2, InvitationAssumption DEF Tag
    <3>4. QED
      BY <2>1, <2>2, <3>1, <3>3 DEF IInv, MailInv
  <2>3. CASE OnFailed(Tag(i)) /\ inv'[i].mail = "failed"
    <3>1. Tag(i) \in failures /\ UNCHANGED jobs
      BY <2>3 DEF OnFailed
    <3>2. jobs[Tag(i)].at = "none"
      BY <3>1 DEF IInv, MailInv, TypeOK, QueueTypeOK
    <3>3. QED
      BY <2>1, <2>3, <3>1, <3>2
  <2>4. QED
    BY <1>3, <2>2, <2>3 DEF MailTold
<1>4. QED
  BY <1>1, <1>2, <1>3, MailMoves DEF MailNew

\* Whatever reports arrive, and in whatever order, the table is right about the newest email.
THEOREM DeliveryStatusCorrect == Spec => []DeliveryStatusTrue
<1>1. Init => DeliveryStatusTrue
  BY DEF Init, DeliveryStatusTrue, NoRow
<1>2. QED
  BY <1>1, DeliveryStatusStep, InvCorrect, PTL DEF Spec

\* Why the email of a token may still be queued.
Explained(t) == \/ jobs[t].at \in {"queued", "accepted"}
                \/ t \in failures
                \/ t \in untold
                \/ \E r \in Requests : Enqueueing(r) /\ ReqTag(r) = t

\* What is explained stays so, unless the table is told.
LEMMA ExplainedStays ==
  ASSUME IInv, [Next]_vars, NEW t \in Tags, Explained(t),
         TellSent(t) \/ TellFailed(t) => t \in untold'
  PROVE  Explained(t)'
<1>a. /\ jobs \in [Tags -> [at: {"none", "queued", "accepted", "reported"},
                            made: 0..(MaxAttempts - 1), stalls: 0..MaxStalls]]
      /\ req \in [Requests -> Request]
  BY DEF IInv, TypeOK, QueueTypeOK
<1>1. untold \subseteq untold'
  <2>1. ASSUME NEW r \in Requests, Start(r) \/ Handle(r) \/ Abort(r) PROVE untold \subseteq untold'
    BY <2>1 DEF Start, Handle, Abort, CheckNewcomer, InsertInvitation, Resend, Enqueue,
       BeginAccept, CommitAccept, CheckSignup, InsertUser, CommitSignup, ledger
  <2>2. ASSUME NEW u \in Tags, Deliver(u) \/ WorkerDies(u) PROVE untold \subseteq untold'
    BY <2>2 DEF Deliver, Work, TellSent, TellFailed, Told, WorkerDies, ledger
  <2>3. ASSUME NEW i \in Ids, Revoke(i) \/ Expire(i) PROVE UNCHANGED untold
    BY <2>3 DEF Revoke, Expire, ledger
  <2>4. ASSUME NEW e \in Emails, Register(e) \/ LeaveWorkspace(e) PROVE UNCHANGED untold
    BY <2>4 DEF Register, LeaveWorkspace, ledger
  <2>5. CASE UNCHANGED vars
    BY <2>5 DEF vars, ledger
  <2>6. QED
    BY <2>1, <2>2, <2>3, <2>4, <2>5 DEF Next
<1>2. ASSUME NEW r \in Requests, Enqueueing(r), ReqTag(r) = t PROVE Explained(t)'
  <2>1. CASE req'[r] = req[r]
    BY <1>2, <2>1 DEF Explained, Enqueueing, ReqTag
  <2>2. CASE Enqueue(r)
    BY <1>2, <2>2, EnqueueMoves DEF Explained
  <2>3. CASE Abort(r)
    BY <1>2, <2>3 DEF Abort, Enqueueing, ReqTag, Explained
  <2>4. ASSUME NEW s \in Requests \ {r}, Start(s) \/ Handle(s) \/ Abort(s) PROVE req'[r] = req[r]
    <3>1. ASSUME NEW w, req' = [req EXCEPT ![s] = w] PROVE req'[r] = req[r]
      BY <1>a, <3>1
    <3>2. CASE Start(s)
      BY <2>4, <3>1, <3>2 DEF Start, CheckNewcomer, Resend, BeginAccept, CheckSignup
    <3>3. CASE Handle(s)
      BY <2>4, <3>1, <3>3 DEF Handle, InsertInvitation, Enqueue, CommitAccept, InsertUser,
         CommitSignup, End
    <3>4. QED
      BY <2>4, <3>1, <3>2, <3>3 DEF Abort, End
  <2>5. ~Start(r) /\ (Handle(r) => Enqueue(r))
    <3>1. req[r].op = "enqueue" /\ NoWork.op = "idle"
      BY <1>2 DEF Enqueueing, NoWork
    <3>2. ~Idle(r)
      BY <3>1 DEF Idle
    <3>3. QED
      BY <3>1, <3>2 DEF Start, Handle, CheckNewcomer, Resend, BeginAccept, CheckSignup,
         InsertInvitation, CommitAccept, InsertUser, CommitSignup
  <2>6. ASSUME NEW u \in Tags, Deliver(u) \/ WorkerDies(u) PROVE UNCHANGED req
    BY <2>6 DEF Deliver, Work, TellSent, TellFailed, WorkerDies
  <2>7. ASSUME NEW i \in Ids, Revoke(i) \/ Expire(i) PROVE UNCHANGED req
    BY <2>7 DEF Revoke, Expire
  <2>8. ASSUME NEW e \in Emails, Register(e) \/ LeaveWorkspace(e) PROVE UNCHANGED req
    BY <2>8 DEF Register, LeaveWorkspace
  <2>9. CASE UNCHANGED vars
    BY <2>1, <2>9 DEF vars
  <2>10. ASSUME NEW s \in Requests, Start(s) \/ Handle(s) \/ Abort(s) PROVE Explained(t)'
    <3>1. CASE s = r
      BY <2>2, <2>3, <2>5, <2>10, <3>1
    <3>2. CASE s # r
      BY <2>1, <2>4, <2>10, <3>2
    <3>3. QED
      BY <3>1, <3>2
  <2>11. QED
    BY <2>1, <2>6, <2>7, <2>8, <2>9, <2>10 DEF Next
<1>3. CASE jobs[t].at \in {"queued", "accepted"} \/ t \in failures
  <2>1. CASE UNCHANGED queue
    BY <1>3, <2>1 DEF queue, Explained
  <2>2. ASSUME NEW r \in Requests, Enqueue(r) PROVE Explained(t)'
    BY <1>3, <2>2, EnqueueMoves DEF Explained
  <2>3. ASSUME NEW u \in Tags \ {t}, Deliver(u) \/ WorkerDies(u) PROVE Explained(t)'
    BY <1>3, <2>3, DeliverMoves DEF Explained
  <2>4. CASE Deliver(t) \/ WorkerDies(t)
    <3>1. CASE Send(t)
      BY <1>a, <3>1 DEF Send, Explained
    <3>2. CASE SendFails(t)
      <4>1. CASE jobs[t].made + 1 >= MaxAttempts
        BY <3>2, <4>1 DEF SendFails, Explained
      <4>2. CASE ~(jobs[t].made + 1 >= MaxAttempts)
        <5>1. jobs[t].at = "queued"
              /\ jobs' = [jobs EXCEPT ![t] = [jobs[t] EXCEPT !.made = jobs[t].made + 1]]
          BY <3>2, <4>2 DEF SendFails
        <5>2. jobs'[t].at = "queued"
          BY <1>a, <5>1
        <5>3. QED
          BY <5>2 DEF Explained
      <4>3. QED
        BY <4>1, <4>2
    <3>3. CASE Complete(t)
      BY <1>3, <3>3 DEF Complete, Explained
    <3>4. CASE TellSent(t)
      BY <3>4 DEF Explained
    <3>5. CASE TellFailed(t)
      BY <3>5 DEF Explained
    <3>6. CASE WorkerDies(t)
      <4>1. CASE GivesUp(t)
        BY <3>6, <4>1 DEF WorkerDies, Explained
      <4>2. CASE ~GivesUp(t)
        <5>1. jobs' = [jobs EXCEPT ![t] = [jobs[t] EXCEPT !.at = "queued",
                                                          !.stalls = jobs[t].stalls + 1]]
          BY <3>6, <4>2 DEF WorkerDies, Stall
        <5>2. jobs'[t].at = "queued"
          BY <1>a, <5>1
        <5>3. QED
          BY <5>2 DEF Explained
      <4>3. QED
        BY <4>1, <4>2
    <3>7. QED
      BY <2>4, <3>1, <3>2, <3>3, <3>4, <3>5, <3>6 DEF Deliver, Work
  <2>5. QED
    BY <2>1, <2>2, <2>3, <2>4, QueueMoves
<1>4. CASE t \in untold
  BY <1>1, <1>4 DEF Explained
<1>5. \/ jobs[t].at \in {"queued", "accepted"} \/ t \in failures \/ t \in untold
      \/ \E r \in Requests : Enqueueing(r) /\ ReqTag(r) = t
  BY DEF Explained
<1>6. QED
  BY <1>2, <1>3, <1>4, <1>5

LEMMA QueuedStep == IInv /\ QueuedIsExplained /\ [Next]_vars => QueuedIsExplained'
<1> SUFFICES ASSUME IInv, QueuedIsExplained, [Next]_vars, NEW i \in Ids,
                    inv'[i].status # "none", inv'[i].mail = "queued"
             PROVE  Explained(Tag(i))'
  BY DEF QueuedIsExplained, Explained, Tag, Enqueueing, ReqTag
<1>1. CASE MailSame(i)
  <2>1. inv[i].status # "none" /\ inv[i].mail = "queued" /\ <<i, inv'[i].send>> = Tag(i)
    BY <1>1 DEF MailSame, Tag
  <2>2. Tag(i) \in Tags /\ Explained(Tag(i))
    BY <2>1, TagOfRow DEF QueuedIsExplained, Explained, Enqueueing, ReqTag
  <2>3. ASSUME TellSent(Tag(i)) \/ TellFailed(Tag(i)) PROVE Tag(i) \in untold'
    <3>1. Finds(Tag(i)) /\ Tag(i)[1] = i /\ inv \in [Ids -> Row]
      BY DEF Finds, Tag, IInv, TypeOK
    <3>2. ASSUME NEW o \in {"sent", "failed"}, inv' = [inv EXCEPT ![i].mail = o] PROVE FALSE
      BY <3>1, <3>2 DEF Row
    <3>3. QED
      BY <2>3, <3>1, <3>2 DEF TellSent, TellFailed, Told, Record
  <2>4. Explained(Tag(i))'
    <3>1. PICK t \in Tags : t = Tag(i)
      BY <2>2
    <3>2. Explained(t)'
      BY <2>2, <2>3, <3>1, ExplainedStays
    <3>3. Tag(i)' = t
      BY <2>1, <3>1 DEF Tag
    <3>4. QED
      BY <3>2, <3>3 DEF Explained
  <2>5. QED
    BY <2>4
<1>2. CASE MailNew(i)
  <2>1. \E r \in Requests : req'[r].op = "enqueue" /\ <<req'[r].id, req'[r].send>> = <<i, inv'[i].send>>
    BY <1>2 DEF MailNew
  <2>2. QED
    BY <2>1 DEF Explained, Enqueueing, ReqTag, Tag
<1>3. CASE MailTold(i)
  BY <1>3 DEF MailTold
<1>4. QED
  BY <1>1, <1>2, <1>3, MailMoves

\* No email is lost between the table and the queue but for the faults that are named.
THEOREM QueuedIsExplainedCorrect == Spec => []QueuedIsExplained
<1>1. Init => QueuedIsExplained
  BY DEF Init, QueuedIsExplained, NoRow
<1>2. QED
  BY <1>1, QueuedStep, InvCorrect, PTL DEF Spec

\* The whole: the table is right about admissions and emails, for any number of
\* invitations, requests, sends and late reports.
THEOREM InvitationsToldCorrect == Spec => []InvitationsAreTold
<1>1. TypeOK /\ SingleUse /\ DeliveryStatusTrue /\ QueuedIsExplained => InvitationsAreTold
  BY DEF InvitationsAreTold
<1>2. QED
  BY <1>1, TypeCorrect, SingleUseCorrect, DeliveryStatusCorrect, QueuedIsExplainedCorrect, PTL
==============================================================================
