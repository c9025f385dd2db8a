------------------------------ MODULE TeamScreen ------------------------------
(***************************************************************************)
(* The team page as an owner uses it (TeamPage.tsx, MembersTab.tsx): roles    *)
(* are changed in place, several at a time; removals and the transfer of the  *)
(* ownership are confirmed in a dialog.  Every change makes the list and the  *)
(* totals be read again; readings of the totals are neither ordered nor       *)
(* cancelled.  Meanwhile others join, leave or change roles, of which the     *)
(* page hears nothing, and a call that was lost is not taken back.           *)
(*                                                                         *)
(* Left out: search and pages (see QueueScreen), the other section, what      *)
(* others do to one's own membership, and leaving oneself.                  *)
(***************************************************************************)
EXTENDS Integers, FiniteSets

CONSTANTS People,      \* the members but oneself
          Nobody,
          Ranks,       \* the roles they may have
          MaxCalls,    \* bound: calls that the server or the page has not done with
          MaxRefreshes \* bound: readings of the totals under way

ASSUME TeamAssumption ==
  /\ IsFiniteSet(People) /\ Nobody \notin People /\ "owner" \in Ranks
  /\ {MaxCalls, MaxRefreshes} \subseteq Nat \ {0}

VARIABLES
  roleOf,    \* the memberships; "none" is no member
  own, mine, \* one's own role, and the one the page was loaded with
  members,   \* data: the list shown
  listing,   \* the fetch of useFetch: idle, sent, or its answer
  changing,  \* calls that change a role, remove or transfer, and who hears of them
  question,  \* pending: the dialog
  totals,    \* counts
  refreshes, \* readings of the totals: what was read, and if it is not so any more
  unsure     \* history: the list, the totals, may be behind with nothing under way

teamVars == <<roleOf, own, mine, members, listing, changing, question, totals, refreshes, unsure>>

Shown == [People -> Ranks \cup {"none"}]
Unread == [people |-> -1, owners |-> -1, old |-> FALSE]
NoList == [state |-> "idle", rows |-> [p \in People |-> "none"], old |-> FALSE]
NewList == [NoList EXCEPT !.state = "sent"]
NoQuestion == [kind |-> "none", who |-> Nobody]

\* kind is a role, or what the dialog asks.  The page gives up a call that is lost,
\* the server does not.
ChangeCalls ==
  [n : 1..MaxCalls, who : People, kind : Ranks \cup {"remove", "transfer"},
   heard : BOOLEAN, state : {"sent", "let in", "done"}]

Asks(c) == c.kind \in {"remove", "transfer"}

TeamTypeOK ==
  /\ roleOf \in Shown /\ {own, mine} \subseteq {"owner", "agent"} /\ members \in Shown
  /\ listing.state \in {"idle", "sent", "served", "failed"}
  /\ listing.rows \in Shown /\ listing.old \in BOOLEAN
  /\ changing \subseteq ChangeCalls
  /\ question \in [kind : {"none", "remove", "transfer"}, who : People \cup {Nobody}]
  /\ totals.people \in -1..Cardinality(People) + 1 /\ totals.owners \in -1..Cardinality(People) + 1
  /\ \A r \in refreshes : r.old \in BOOLEAN /\ {r.people, r.owners} \subseteq -1..Cardinality(People) + 1
  /\ unsure \in [list : BOOLEAN, totals : BOOLEAN]
  \* The workspace has an owner, whatever is changed from here.
  /\ own = "owner" \/ \E p \in People : roleOf[p] = "owner"

TeamInit ==
  /\ roleOf \in [People -> Ranks] /\ own = "owner" /\ mine = "owner"
  /\ members = NoList.rows /\ listing = NewList
  /\ changing = {} /\ question = NoQuestion
  /\ totals = Unread /\ refreshes = {Unread}
  /\ unsure = [list |-> FALSE, totals |-> FALSE]

-----------------------------------------------------------------------------
\* The backend; a change makes old what was read before.

HowMany(ranks) ==
  Cardinality({p \in People : roleOf[p] \in ranks}) + (IF own \in ranks THEN 1 ELSE 0)

Older ==
  /\ refreshes' = {[r EXCEPT !.old = (r.people # -1)] : r \in refreshes}
  /\ listing' = [listing EXCEPT !.old = (listing.state = "served")]

\* lockWorkspace, and assertAnotherOwnerRemains for an owner who is one no more.
Becomes(p, role) ==
  /\ roleOf[p] = "owner" /\ role # "owner" =>
       own = "owner" \/ \E q \in People \ {p} : roleOf[q] = "owner"
  /\ roleOf' = [roleOf EXCEPT ![p] = role]
  /\ Older

\* PermissionsGuard: the role is read when the call arrives, the lock taken later.
LetIn(c) ==
  /\ c.state = "sent" /\ own = "owner"
  /\ changing' = (changing \ {c}) \cup {[c EXCEPT !.state = "let in"]}
  /\ UNCHANGED <<roleOf, own, mine, members, listing, question, totals, refreshes, unsure>>

\* If nobody hears of it, nothing is read again.
ServeChange(c) ==
  /\ c.state = "let in" /\ roleOf[c.who] # "none"
  /\ CASE c.kind = "remove" -> Becomes(c.who, "none") /\ UNCHANGED own
       [] c.kind = "transfer" -> own = "owner" /\ Becomes(c.who, "owner") /\ own' = "agent"
       [] OTHER -> Becomes(c.who, c.kind) /\ UNCHANGED own
  /\ changing' = (changing \ {c}) \cup (IF c.heard THEN {[c EXCEPT !.state = "done"]} ELSE {})
  /\ unsure' = IF c.heard THEN unsure ELSE [list |-> TRUE, totals |-> TRUE]
  /\ UNCHANGED <<mine, members, question, totals>>

\* Somebody accepts an invitation, leaves, or is changed by another owner.
OthersChange(p, role) ==
  /\ roleOf[p] # role /\ Becomes(p, role)
  /\ unsure' = [list |-> TRUE, totals |-> TRUE]
  /\ UNCHANGED <<own, mine, members, changing, question, totals>>

ServeMembers ==
  /\ listing.state = "sent"
  /\ listing' = [state |-> "served", rows |-> roleOf, old |-> FALSE]
  /\ UNCHANGED <<roleOf, own, mine, members, changing, question, totals, refreshes, unsure>>

\* The lists whose totals are wanted, taken at one moment.
ServeTotals(r) ==
  /\ r.people = -1
  /\ refreshes' = (refreshes \ {r}) \cup
       {[people |-> HowMany(Ranks \cup {"agent"}), owners |-> HowMany({"owner"}), old |-> FALSE]}
  /\ UNCHANGED <<roleOf, own, mine, members, listing, changing, question, totals, unsure>>

-----------------------------------------------------------------------------
\* The page.

\* refetch, and onChanged: a list under way is superseded, a reading is not.
ReadAgain ==
  /\ listing' = NewList
  /\ refreshes' = refreshes \cup {Unread}

MembersArrive ==
  /\ listing.state = "served"
  /\ members' = listing.rows /\ listing' = NoList /\ unsure' = [unsure EXCEPT !.list = listing.old]
  /\ UNCHANGED <<roleOf, own, mine, changing, question, totals, refreshes>>

MembersFail ==
  /\ listing.state \in {"sent", "served"}
  /\ listing' = [NoList EXCEPT !.state = "failed"] /\ unsure' = [unsure EXCEPT !.list = TRUE]
  /\ UNCHANGED <<roleOf, own, mine, members, changing, question, totals, refreshes>>

\* All of them have come: what is shown last wins.
TotalsArrive(r) ==
  /\ r.people # -1
  /\ totals' = [r EXCEPT !.old = FALSE] /\ refreshes' = refreshes \ {r}
  /\ unsure' = [unsure EXCEPT !.totals = r.old]
  /\ UNCHANGED <<roleOf, own, mine, members, listing, changing, question>>

\* One failed, so all do.
TotalsFail(r) ==
  /\ refreshes' = refreshes \ {r} /\ unsure' = [unsure EXCEPT !.totals = TRUE]
  /\ UNCHANGED <<roleOf, own, mine, members, listing, changing, question, totals>>

MayManage == mine = "owner"

\* Takes the first number that is free.
SendChange(kind, p) ==
  \E n \in 1..MaxCalls :
    /\ {c.n : c \in changing} \cap 1..n = 1..(n - 1)
    /\ changing' = changing \cup
         {[n |-> n, who |-> p, kind |-> kind, heard |-> TRUE, state |-> "sent"]}

\* The page has done with a call: answered or refused, it is over; lost on its way,
\* the server may still see to it.
Over(c) ==
  \/ changing' = changing \ {c}
  \/ c.state # "done" /\ changing' = (changing \ {c}) \cup {[c EXCEPT !.heard = FALSE]}

\* The select of a row is never disabled.
ChangeRole(p, role) ==
  /\ MayManage /\ question = NoQuestion
  /\ members[p] \notin {"none", role}
  /\ SendChange(role, p)
  /\ UNCHANGED <<roleOf, own, mine, members, listing, question, totals, refreshes, unsure>>

\* Mutant of RoleChanged: only a success is followed by a fetch.
RoleChangedIfDone(c) ==
  /\ c.heard /\ ~Asks(c) /\ Cardinality(refreshes) < MaxRefreshes
  /\ Over(c)
  /\ (c.state = "done" /\ ReadAgain) \/ UNCHANGED <<listing, refreshes>>
  /\ UNCHANGED <<roleOf, own, mine, members, question, totals, unsure>>

\* The answer, a refusal, or a call or an answer that was lost: fetched either way.
RoleChanged(c) ==
  /\ c.heard /\ ~Asks(c) /\ Cardinality(refreshes) < MaxRefreshes
  /\ Over(c)
  /\ ReadAgain
  /\ UNCHANGED <<roleOf, own, mine, members, question, totals, unsure>>

AskQuestion(kind, p) ==
  /\ MayManage /\ question = NoQuestion
  /\ members[p] # "none" /\ (kind = "transfer" => members[p] # "owner")
  /\ question' = [kind |-> kind, who |-> p]
  /\ UNCHANGED <<roleOf, own, mine, members, listing, changing, totals, refreshes, unsure>>

\* Cancel; or Escape or the backdrop, for which it need not be idle.
CancelQuestion ==
  /\ question # NoQuestion
  /\ question' = NoQuestion
  /\ UNCHANGED <<roleOf, own, mine, members, listing, changing, totals, refreshes, unsure>>

Busy == \E c \in changing : Asks(c) /\ c.heard

ConfirmQuestion ==
  /\ question # NoQuestion /\ ~Busy
  /\ SendChange(question.kind, question.who)
  /\ UNCHANGED <<roleOf, own, mine, members, listing, question, totals, refreshes, unsure>>

\* Whichever dialog is open by then is closed.
Removed(c) ==
  /\ c.heard /\ c.kind = "remove" /\ c.state = "done" /\ Cardinality(refreshes) < MaxRefreshes
  /\ changing' = changing \ {c} /\ question' = NoQuestion
  /\ ReadAgain
  /\ UNCHANGED <<roleOf, own, mine, members, totals, unsure>>

\* The page is loaded anew, and hears of no call that it made before.
Transferred(c) ==
  /\ c.heard /\ c.kind = "transfer" /\ c.state = "done"
  /\ changing' = {[d EXCEPT !.heard = FALSE] : d \in {d \in changing : d.state # "done"}}
  /\ question' = NoQuestion
  /\ mine' = own /\ members' = NoList.rows /\ listing' = NewList
  /\ totals' = Unread /\ refreshes' = {Unread}
  /\ unsure' = [list |-> FALSE, totals |-> FALSE]
  /\ UNCHANGED <<roleOf, own>>

\* The dialog stays as it is; nothing is fetched, even if only the answer was lost.
QuestionFails(c) ==
  /\ c.heard /\ Asks(c)
  /\ Over(c)
  /\ unsure' = IF c.state = "done" THEN [list |-> TRUE, totals |-> TRUE] ELSE unsure
  /\ UNCHANGED <<roleOf, own, mine, members, listing, question, totals, refreshes>>

TeamNext ==
  \/ \E p \in People : \/ \E role \in Ranks : ChangeRole(p, role)
                       \/ \E kind \in {"remove", "transfer"} : AskQuestion(kind, p)
                       \/ \E role \in Ranks \cup {"none"} : OthersChange(p, role)
  \/ \E c \in changing : \/ LetIn(c) \/ ServeChange(c) \/ RoleChanged(c)
                         \/ Removed(c) \/ Transferred(c) \/ QuestionFails(c)
  \/ \E r \in refreshes : ServeTotals(r) \/ TotalsArrive(r) \/ TotalsFail(r)
  \/ ServeMembers \/ MembersArrive \/ MembersFail
  \/ CancelQuestion \/ ConfirmQuestion

TeamSpec == TeamInit /\ [][TeamNext]_teamVars

-----------------------------------------------------------------------------
\* The page waits for no answer.
Calm == \A c \in changing : ~c.heard

\* Whatever was changed from here, or refused, the list ends up with the roles that
\* are held, the select put back where it has to be.  What leaves it behind is what
\* the page is not told of: a change that others make after it has read, or that a
\* call it had given up makes then; a removal whose answer was lost; a failed fetch.
RowsTell == Calm /\ listing.state = "idle" /\ ~unsure.list => members = roleOf

\* So do the totals, unless a reading that a change has overtaken came last.
TotalsTell ==
  Calm /\ refreshes = {} /\ ~unsure.totals =>
    totals.people = HowMany(Ranks \cup {"agent"}) /\ totals.owners = HowMany({"owner"})

\* The team's list and its totals come to rest only when they are right, but for
\* changes that the page is not told of.
TeamCatchesUp == TeamTypeOK /\ RowsTell /\ TotalsTell
=============================================================================
