---------------------------- MODULE InvitationsTab ----------------------------
(***************************************************************************)
(* The invitations of a workspace on the team page: the tab's list, polled   *)
(* every two seconds while an email it shows is on its way                    *)
(* (InvitationsTab.tsx), the dialog with the details of one                    *)
(* (InvitationDetailsDialog.tsx), which follows the list, and the stages both  *)
(* are drawn from (lifecycle.ts).                                             *)
(*                                                                         *)
(* useFetch supersedes a list under way, whose answer is not waited for (see  *)
(* QueueScreen).  Left out: search, pages, and the tabs that are like         *)
(* "pending".                                                              *)
(***************************************************************************)
EXTENDS Integers, FiniteSets

CONSTANTS MaxSent,    \* invitations there will be, numbered by id
          Reports,    \* what becomes of an email
          Endings,    \* what others, or time, do to an invitation
          MaxResends  \* bound: how often one is sent again

ASSUME TabAssumption ==
  /\ MaxSent \in Nat \ {0} /\ MaxResends \in Nat
  /\ Reports \subseteq {"sent", "failed"} /\ Endings \subseteq {"accepted", "expired", "revoked"}

VARIABLES
  sent,      \* the rows; those not created yet have the status "none"
  tab,       \* "pending" or "all"
  list,      \* data: the rows shown, {} before the first answer
  load,      \* the fetch of useFetch: idle, sent, or its answer
  selected,  \* the row in the details dialog
  revoking,  \* the id in the question whether to revoke; 0 is none
  act,       \* the call of resend or revoke under way, which makes both busy
  unseen     \* history: rows changed since they were read, by others or by a call
             \* whose answer was lost

tabVars == <<sent, tab, list, load, selected, revoking, act, unseen>>

Ids == 1..MaxSent
TabRow == [id : Ids, status : {"pending", "expired", "accepted", "revoked"},
           mail : {"queued", "sent", "failed"}, sends : 1..MaxResends + 1]
NoRow == [id |-> 0, status |-> "none", mail |-> "queued", sends |-> 1]
NoAct == [kind |-> "none", id |-> 0, answer |-> "none"]

Reload == [state |-> "sent", rows |-> {}, unseen |-> {}]

IdsOf(rows) == {r.id : r \in rows}

TabTypeOK ==
  /\ sent \in [Ids -> TabRow \cup {[NoRow EXCEPT !.id = i] : i \in Ids}]
  /\ tab \in {"pending", "all"}
  /\ list \subseteq TabRow
  /\ load.state \in {"idle", "sent", "served", "failed"}
  /\ load.rows \subseteq TabRow /\ load.unseen \subseteq Ids
  /\ selected \in TabRow \cup {NoRow} /\ revoking \in 0..MaxSent
  /\ act \in [kind : {"none", "resend", "revoke"}, id : 0..MaxSent, answer : {"none", "done", "refused"}]
  /\ unseen \subseteq Ids
  \* A row is shown once, and in the details as it is in the list.
  /\ \A r, s \in list : r.id = s.id => r = s
  /\ selected.id \in IdsOf(list) => selected \in list

TabInit ==
  /\ sent = [i \in Ids |-> [id |-> i, status |-> IF i = 1 THEN "pending" ELSE "none",
                           mail |-> "queued", sends |-> 1]]
  /\ tab = "pending" /\ list = {} /\ load = Reload
  /\ selected = NoRow /\ revoking = 0 /\ act = NoAct /\ unseen = {}

-----------------------------------------------------------------------------
\* lifecycle.ts: the stages of one row.

EmailStage(r) ==
  CASE r.mail = "sent" -> "done"
    [] r.mail = "failed" -> "failed"
    [] OTHER -> IF r.status = "pending" THEN "active" ELSE "skipped"

-----------------------------------------------------------------------------
\* The backend, and others.

Delivered(i) ==
  /\ sent[i].status = "pending" /\ sent[i].mail = "queued"
  /\ \E m \in Reports : sent' = [sent EXCEPT ![i].mail = m]
  /\ UNCHANGED <<tab, list, load, selected, revoking, act, unseen>>

Unseen(i) ==
  /\ unseen' = unseen \cup {i}
  /\ load' = IF load.state = "served" THEN [load EXCEPT !.unseen = @ \cup {i}] ELSE load

\* The invitee accepts; time runs out; another member revokes.
Concluded(i) ==
  /\ sent[i].status = "pending"
  /\ \E s \in Endings :
       /\ s = "accepted" => sent[i].mail = "sent"
       /\ sent' = [sent EXCEPT ![i].status = s]
  /\ Unseen(i)
  /\ UNCHANGED <<tab, list, selected, revoking, act>>

\* resend and revoke of InvitationsService.
ServeAct ==
  /\ act.kind # "none" /\ act.answer = "none"
  /\ LET i == act.id IN
       \/ /\ act.kind = "resend" /\ sent[i].status \in {"pending", "expired"}
          /\ sent[i].sends <= MaxResends
          /\ sent' = [sent EXCEPT ![i] = [sent[i] EXCEPT !.status = "pending", !.mail = "queued",
                                                        !.sends = sent[i].sends + 1]]
          /\ act' = [act EXCEPT !.answer = "done"]
       \/ /\ act.kind = "revoke" /\ sent[i].status = "pending"
          /\ sent' = [sent EXCEPT ![i].status = "revoked"]
          /\ act' = [act EXCEPT !.answer = "done"]
       \/ /\ sent[i].status \notin (IF act.kind = "resend" THEN {"pending", "expired"} ELSE {"pending"})
          /\ act' = [act EXCEPT !.answer = "refused"] /\ UNCHANGED sent
  /\ UNCHANGED <<tab, list, load, selected, revoking, unseen>>

\* listInvitations.
ServePage ==
  /\ load.state = "sent"
  /\ LET shown == {i \in Ids : sent[i].status = "pending" \/ (tab = "all" /\ sent[i].status # "none")}
     IN  load' = [state |-> "served", rows |-> {sent[i] : i \in shown}, unseen |-> {}]
  /\ UNCHANGED <<sent, tab, list, selected, revoking, act, unseen>>

-----------------------------------------------------------------------------
\* The tab.

\* The effect that keeps the dialog in step with the list.
InStep(row, rows) ==
  IF row.id \in IdsOf(rows) THEN CHOOSE r \in rows : r.id = row.id ELSE row

PageArrived ==
  /\ load.state = "served"
  /\ list' = load.rows /\ selected' = InStep(selected, load.rows)
  /\ load' = [Reload EXCEPT !.state = "idle"] /\ unseen' = load.unseen
  /\ UNCHANGED <<sent, tab, revoking, act>>

\* The rows stay.
LoadFails ==
  /\ load.state \in {"sent", "served"}
  /\ load' = [Reload EXCEPT !.state = "failed"]
  /\ UNCHANGED <<sent, tab, list, selected, revoking, act, unseen>>

AnySending(rows) == \E r \in rows : r.status = "pending" /\ r.mail = "queued"

\* The timer supersedes a list that is under way.
RefreshTimer ==
  /\ AnySending(list)
  /\ load' = Reload
  /\ UNCHANGED <<sent, tab, list, selected, revoking, act, unseen>>

\* No row can be reached behind a dialog.
NoDialog == selected = NoRow /\ revoking = 0

ChooseTab(t) ==
  /\ NoDialog /\ t # tab
  /\ tab' = t /\ load' = Reload
  /\ UNCHANGED <<sent, list, selected, revoking, act, unseen>>

\* The dialog that invites has created one: the page bumps refreshKey.
Invited(i) ==
  /\ NoDialog /\ sent[i].status = "none"
  /\ sent' = [sent EXCEPT ![i].status = "pending"]
  /\ load' = Reload
  /\ UNCHANGED <<tab, list, selected, revoking, act, unseen>>

Select(r) ==
  /\ NoDialog
  /\ selected' = r
  /\ UNCHANGED <<sent, tab, list, load, revoking, act, unseen>>

\* onClose of the details, while not busy.
Unselect ==
  /\ selected # NoRow /\ revoking = 0 /\ act = NoAct
  /\ selected' = NoRow
  /\ UNCHANGED <<sent, tab, list, load, revoking, act, unseen>>

Reach(r) == (NoDialog /\ r \in list) \/ (selected = r /\ revoking = 0)

Resend(r) ==
  /\ Reach(r) /\ act = NoAct /\ r.status \in {"pending", "expired"}
  /\ act' = [kind |-> "resend", id |-> r.id, answer |-> "none"]
  /\ UNCHANGED <<sent, tab, list, load, selected, revoking, unseen>>

\* The button of the row is not disabled while busy, that of the dialog is.
AskRevoke(r) ==
  /\ Reach(r) /\ r.status = "pending" /\ (selected = r => act = NoAct)
  /\ revoking' = r.id
  /\ UNCHANGED <<sent, tab, list, load, selected, act, unseen>>

\* Escape and the backdrop cancel, even while busy.
CancelRevoke ==
  /\ revoking # 0
  /\ revoking' = 0
  /\ UNCHANGED <<sent, tab, list, load, selected, act, unseen>>

ConfirmRevoke ==
  /\ revoking # 0 /\ act = NoAct
  /\ act' = [kind |-> "revoke", id |-> revoking, answer |-> "none"]
  /\ UNCHANGED <<sent, tab, list, load, selected, revoking, unseen>>

\* Mutant of Acted: the list is left to the timer.
ActedQuietly ==
  /\ act.answer = "done"
  /\ act' = NoAct
  /\ IF act.kind = "revoke" THEN selected' = NoRow /\ revoking' = 0
     ELSE UNCHANGED <<selected, revoking>>
  /\ UNCHANGED <<sent, tab, list, load, unseen>>

\* The answer.  What resend sets the dialog to is undone by the list until that is
\* fetched again; a revocation closes whatever dialog is open by then.
Acted ==
  /\ act.answer = "done"
  /\ act' = NoAct /\ load' = Reload
  /\ IF act.kind = "revoke" THEN selected' = NoRow /\ revoking' = 0
     ELSE /\ selected' = IF selected.id = act.id THEN InStep(sent[act.id], list) ELSE selected
          /\ UNCHANGED revoking
  /\ UNCHANGED <<sent, tab, list, unseen>>

\* It is refused, or its answer is lost; nothing is fetched again.
ActFails ==
  /\ act # NoAct
  /\ IF act.answer = "done" THEN Unseen(act.id) ELSE UNCHANGED <<load, unseen>>
  /\ act' = NoAct
  /\ UNCHANGED <<sent, tab, list, selected, revoking>>

TabNext ==
  \/ \E i \in Ids : Delivered(i) \/ Concluded(i) \/ Invited(i)
  \/ \E r \in list : Select(r)
  \/ \E r \in list \cup {selected} : Resend(r) \/ AskRevoke(r)
  \/ \E t \in {"pending", "all"} : ChooseTab(t)
  \/ ServeAct \/ ServePage \/ PageArrived \/ LoadFails \/ RefreshTimer \/ Unselect
  \/ CancelRevoke \/ ConfirmRevoke \/ Acted \/ ActFails

TabSpec == TabInit /\ [][TabNext]_tabVars

-----------------------------------------------------------------------------
\* Once nothing is under way the rows say of their emails what is so, unless since
\* they were read somebody else ended the invitation, or an answer was lost.
RowsSettle ==
  load.state = "idle" /\ act = NoAct /\ ~AnySending(list) =>
    \A i \in Ids \ unseen :
      sent[i] \in list <=> sent[i].status = "pending" \/ (tab = "all" /\ sent[i].status # "none")

\* An email shown as on its way, in the list or in the details, is looked at again,
\* and an outcome shown as awaited is one that can come: its email was sent.  The
\* details of a row that has left the list are not.
WhatMovesIsWatched ==
  \A r \in list \cup {selected} :
    EmailStage(r) = "active" /\ r.id \in IdsOf(list) => AnySending(list)

\* The list of invitations comes to rest only when it is right.
TabCatchesUp == TabTypeOK /\ RowsSettle /\ WhatMovesIsWatched
=============================================================================
