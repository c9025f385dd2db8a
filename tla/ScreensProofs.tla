---------------------------- MODULE ScreensProofs ----------------------------
(***************************************************************************)
(* Proofs about the screens of a workspace, for any number of people, rows, *)
(* calls and questions: each shows what is so, or has a call, an event or a *)
(* mark behind it that makes it read again, and its inductive invariant     *)
(* says which.                                                             *)
(***************************************************************************)
EXTENDS TeamScreen, InviteDialog, InvitationsTab, AcceptPage,
        SequenceTheorems, FiniteSetTheorems, TLAPS

-----------------------------------------------------------------------------
-----------------------------------------------------------------------------
(* The team page.  A change that was made and not yet answered (Done) will   *)
(* make the page read again; else what the page shows, and what a reading    *)
(* has found, is what is, unless it is marked old, or a change was made that *)
(* the page does not hear of.                                               *)

Listings == [state : {"idle", "sent", "served", "failed"}, rows : Shown, old : BOOLEAN]
Tallies == -1..Cardinality(People) + 1
Readings == [people : Tallies, owners : Tallies, old : BOOLEAN]

TeamTypes ==
  /\ roleOf \in Shown /\ own \in {"owner", "agent"} /\ mine \in {"owner", "agent"}
  /\ members \in Shown
  /\ listing \in Listings
  /\ changing \in SUBSET ChangeCalls
  /\ question \in [kind : {"none", "remove", "transfer"}, who : People \cup {Nobody}]
  /\ totals \in Readings /\ refreshes \in SUBSET Readings
  /\ unsure \in [list : BOOLEAN, totals : BOOLEAN]

Done == \E c \in changing : c.heard /\ c.state = "done"

SomeOwner == own = "owner" \/ \E p \in People : roleOf[p] = "owner"

Asked == question # NoQuestion => question.kind # "none" /\ question.who \in People

Right(r) == r.people = HowMany(Ranks \cup {"agent"}) /\ r.owners = HowMany({"owner"})

ListInv ==
  /\ listing.state = "idle" /\ ~unsure.list => members = roleOf \/ Done
  /\ listing.state = "served" => listing.old \/ listing.rows = roleOf

TotalsInv ==
  /\ refreshes = {} /\ ~unsure.totals => Right(totals) \/ Done
  /\ \A r \in refreshes : r.people # -1 => r.old \/ Right(r)

\* The page's inductive invariant.
TeamInv == TeamTypes /\ SomeOwner /\ Asked /\ ListInv /\ TotalsInv

LEMMA HowManyType ==
  ASSUME NEW ranks PROVE HowMany(ranks) \in Tallies
<1> DEFINE S == {p \in People : roleOf[p] \in ranks}
<1>1. IsFiniteSet(S) /\ Cardinality(S) \in Nat /\ Cardinality(S) <= Cardinality(People)
      /\ Cardinality(People) \in Nat
  BY TeamAssumption, FS_Subset, FS_CardinalityType
<1>2. HowMany(ranks) = Cardinality(S) + (IF own \in ranks THEN 1 ELSE 0)
  BY DEF HowMany
<1> QED
  BY <1>1, <1>2 DEF Tallies

LEMMA TeamConstants ==
  /\ NoList \in Listings /\ NewList \in Listings /\ NewList.state = "sent" /\ NoList.state = "idle"
  /\ Unread \in Readings /\ Unread.people = -1 /\ NoList.rows \in Shown
  /\ "owner" \in Ranks
<1>1. Cardinality(People) \in Nat
  BY TeamAssumption, FS_CardinalityType
<1>2. NoList.rows \in Shown
  BY DEF NoList, Shown
<1>3. NoList \in Listings /\ NoList.state = "idle"
  BY <1>2 DEF NoList, Listings
<1>4. NewList \in Listings /\ NewList.state = "sent"
  BY <1>3 DEF NewList, Listings
<1>5. Unread \in Readings /\ Unread.people = -1
  BY <1>1 DEF Unread, Readings, Tallies
<1> QED
  BY <1>2, <1>3, <1>4, <1>5, TeamAssumption

LEMMA TeamInitInv == TeamInit => TeamInv
<1> SUFFICES ASSUME TeamInit PROVE TeamInv
  OBVIOUS
<1>1. TeamTypes
  BY TeamConstants DEF TeamInit, TeamTypes, NoQuestion, Shown
<1>2. refreshes = {Unread} /\ listing = NewList /\ own = "owner" /\ question = NoQuestion
  BY DEF TeamInit
<1>3. ListInv /\ TotalsInv
  BY <1>2, TeamConstants DEF ListInv, TotalsInv
<1> QED
  BY <1>1, <1>2, <1>3 DEF TeamInv, SomeOwner, Asked

LEMMA TeamInvImplies == TeamInv => TeamCatchesUp
<1> SUFFICES ASSUME TeamInv PROVE TeamCatchesUp
  OBVIOUS
<1>1. TeamTypeOK
  BY DEF TeamInv, TeamTypes, TeamTypeOK, Listings, Readings, Tallies, SomeOwner
<1>2. Calm => ~Done
  BY DEF Calm, Done
<1>3. RowsTell
  BY <1>2 DEF TeamInv, ListInv, RowsTell
<1>4. TotalsTell
  BY <1>2 DEF TeamInv, TotalsInv, Right, TotalsTell
<1> QED
  BY <1>1, <1>3, <1>4 DEF TeamCatchesUp

\* What a change that was made leaves of the lists that were read before it.
LEMMA OlderLists ==
  ASSUME TeamTypes, Older, UNCHANGED totals
  PROVE  /\ listing' \in Listings /\ refreshes' \in SUBSET Readings
         /\ listing'.state = listing.state
         /\ listing.state = "served" => listing'.old
         /\ \A r \in refreshes' : r.people # -1 => r.old
<1>1. listing' \in Listings /\ listing'.state = listing.state /\ (listing.state = "served" => listing'.old)
  BY DEF TeamTypes, Older, Listings
<1>2. ASSUME NEW s \in refreshes' PROVE s \in Readings /\ (s.people # -1 => s.old)
  <2>1. PICK r \in refreshes : s = [r EXCEPT !.old = (r.people # -1)]
    BY DEF Older
  <2>2. r \in Readings
    BY DEF TeamTypes
  <2> QED
    BY <2>1, <2>2 DEF Readings
<1> QED
  BY <1>1, <1>2

LEMMA ReadAgainLists ==
  ASSUME TeamTypes, ReadAgain
  PROVE  /\ listing' \in Listings /\ refreshes' \in SUBSET Readings
         /\ listing'.state = "sent" /\ refreshes' # {}
         /\ \A r \in refreshes' : r \in refreshes \/ r.people = -1
BY TeamConstants DEF TeamTypes, ReadAgain

\* Steps that change no role, no owner and nothing that was Done keep what the
\* page shows right.
LEMMA BecomesKeeps ==
  ASSUME TeamTypes, SomeOwner, NEW p \in People, NEW role \in Ranks \cup {"none"},
         Becomes(p, role), UNCHANGED totals
  PROVE  /\ roleOf' \in Shown /\ roleOf'[p] = role /\ (own' = own => SomeOwner')
         /\ listing' \in Listings /\ refreshes' \in SUBSET Readings
         /\ listing'.state = listing.state
         /\ listing.state = "served" => listing'.old
         /\ \A r \in refreshes' : r.people # -1 => r.old
<1>1. /\ roleOf[p] = "owner" /\ role # "owner" =>
           own = "owner" \/ \E q \in People \ {p} : roleOf[q] = "owner"
      /\ roleOf' = [roleOf EXCEPT ![p] = role] /\ Older
  BY DEF Becomes
<1>2. /\ roleOf' \in Shown /\ roleOf'[p] = role
      /\ \A q \in People \ {p} : roleOf'[q] = roleOf[q]
  BY <1>1 DEF TeamTypes, Shown
<1>3. ASSUME own' = own PROVE SomeOwner'
  <2>1. CASE own = "owner"
    BY <1>3, <2>1 DEF SomeOwner
  <2>2. CASE own # "owner"
    <3>1. PICK q \in People : roleOf[q] = "owner"
      BY <2>2 DEF SomeOwner
    <3>2. CASE q # p \/ role = "owner"
      BY <1>2, <3>1, <3>2 DEF SomeOwner
    <3>3. CASE q = p /\ role # "owner"
      <4>1. PICK o \in People \ {p} : roleOf[o] = "owner"
        BY <1>1, <2>2, <3>1, <3>3
      <4> QED
        BY <1>2, <4>1 DEF SomeOwner
    <3> QED
      BY <3>2, <3>3
  <2> QED
    BY <2>1, <2>2
<1> QED
  BY <1>1, <1>2, <1>3, OlderLists

\* The call of a question, or of a role, is one of the calls.
LEMMA CallIs ==
  ASSUME TeamTypes, NEW kind \in Ranks \cup {"remove", "transfer"}, NEW p \in People, SendChange(kind, p)
  PROVE  changing' \in SUBSET ChangeCalls /\ (Done => Done')
<1>1. PICK n \in 1..MaxCalls :
        changing' = changing \cup {[n |-> n, who |-> p, kind |-> kind, heard |-> TRUE, state |-> "sent"]}
  BY DEF SendChange
<1>2. [n |-> n, who |-> p, kind |-> kind, heard |-> TRUE, state |-> "sent"] \in ChangeCalls
  BY DEF ChangeCalls
<1>3. changing' \in SUBSET ChangeCalls
  BY <1>1, <1>2 DEF TeamTypes
<1>4. changing \subseteq changing'
  BY <1>1
<1> QED
  BY <1>3, <1>4 DEF Done

LEMMA OverIs ==
  ASSUME TeamTypes, NEW c \in changing, Over(c)
  PROVE  changing' \in SUBSET ChangeCalls /\ (c.state # "done" => (Done => Done'))
<1>1. c \in ChangeCalls
  BY DEF TeamTypes
<1>2. [c EXCEPT !.heard = FALSE] \in ChangeCalls
  BY <1>1 DEF ChangeCalls
<1>3. changing' \subseteq changing \cup {[c EXCEPT !.heard = FALSE]}
  BY DEF Over
<1>4. changing \ {c} \subseteq changing'
  BY DEF Over
<1> QED
  BY <1>2, <1>3, <1>4 DEF TeamTypes, Done

LEMMA TeamStep ==
  ASSUME TeamInv, [TeamNext]_teamVars
  PROVE  TeamInv'
<1>h. TeamTypes /\ SomeOwner /\ Asked /\ ListInv /\ TotalsInv
  BY DEF TeamInv
<1>1. ASSUME NEW p \in People, NEW role \in Ranks, ChangeRole(p, role) PROVE TeamInv'
  <2>1. /\ SendChange(role, p)
        /\ UNCHANGED <<roleOf, own, mine, members, listing, question, totals, refreshes, unsure>>
    BY <1>1 DEF ChangeRole
  <2>2. changing' \in SUBSET ChangeCalls /\ (Done => Done')
    BY <1>h, <2>1, CallIs
  <2>3. TeamTypes'
    BY <1>h, <2>1, <2>2 DEF TeamTypes
  <2>4. \A r : Right(r)' <=> Right(r)
    BY <2>1 DEF Right, HowMany
  <2> QED
    BY <1>h, <2>1, <2>2, <2>3, <2>4 DEF TeamInv, SomeOwner, Asked, ListInv, TotalsInv
<1>2. ASSUME NEW p \in People, NEW kind \in {"remove", "transfer"}, AskQuestion(kind, p) PROVE TeamInv'
  <2>1. /\ question = NoQuestion /\ question' = [kind |-> kind, who |-> p]
        /\ UNCHANGED <<roleOf, own, mine, members, listing, changing, totals, refreshes, unsure>>
    BY <1>2 DEF AskQuestion
  <2>2. TeamTypes' /\ Asked'
    BY <1>h, <2>1 DEF TeamTypes, Asked, NoQuestion
  <2>3. \A r : Right(r)' <=> Right(r)
    BY <2>1 DEF Right, HowMany
  <2> QED
    BY <1>h, <2>1, <2>2, <2>3 DEF TeamInv, SomeOwner, ListInv, TotalsInv, Done
\* A call keeps its place.
<1>k. ASSUME NEW c \in changing, NEW d, d = [c EXCEPT !.state = "let in"] \/ d = [c EXCEPT !.state = "done"]
      PROVE  d \in ChangeCalls /\ d.heard = c.heard /\ c.who \in People /\ c \in ChangeCalls
  BY <1>h, <1>k DEF TeamTypes, ChangeCalls
<1>16. ASSUME NEW c \in changing, LetIn(c) PROVE TeamInv'
  <2>1. /\ c.state = "sent" /\ changing' = (changing \ {c}) \cup {[c EXCEPT !.state = "let in"]}
        /\ UNCHANGED <<roleOf, own, mine, members, listing, question, totals, refreshes, unsure>>
    BY <1>16 DEF LetIn
  <2>2. TeamTypes'
    BY <1>h, <1>k, <2>1 DEF TeamTypes
  <2>3. Done => Done'
    BY <2>1 DEF Done
  <2>4. \A r : Right(r)' <=> Right(r)
    BY <2>1 DEF Right, HowMany
  <2> QED
    BY <1>h, <2>1, <2>2, <2>3, <2>4 DEF TeamInv, SomeOwner, Asked, ListInv, TotalsInv
<1>3. ASSUME NEW c \in changing, ServeChange(c) PROVE TeamInv'
  <2>d. PICK d : d = [c EXCEPT !.state = "done"]
    OBVIOUS
  <2>1. /\ \/ c.kind = "remove" /\ Becomes(c.who, "none") /\ own' = own
           \/ c.kind = "transfer" /\ Becomes(c.who, "owner") /\ own' = "agent"
           \/ c.kind \notin {"remove", "transfer"} /\ Becomes(c.who, c.kind) /\ own' = own
        /\ changing' = (changing \ {c}) \cup (IF c.heard THEN {d} ELSE {})
        /\ unsure' = IF c.heard THEN unsure ELSE [list |-> TRUE, totals |-> TRUE]
        /\ UNCHANGED <<mine, members, question, totals>>
    BY <1>3, <2>d DEF ServeChange
  <2>2. d \in ChangeCalls /\ d.heard = c.heard /\ d.state = "done" /\ c.who \in People /\ c \in ChangeCalls
    BY <1>k, <2>d DEF ChangeCalls
  <2>3. PICK role \in Ranks \cup {"none"} :
          Becomes(c.who, role) /\ (own' = own \/ (own' = "agent" /\ role = "owner"))
    <3>1. CASE c.kind = "remove" /\ Becomes(c.who, "none") /\ own' = own
      BY <3>1
    <3>2. CASE c.kind = "transfer" /\ Becomes(c.who, "owner") /\ own' = "agent"
      BY <3>2, TeamConstants
    <3>3. CASE c.kind \notin {"remove", "transfer"} /\ Becomes(c.who, c.kind) /\ own' = own
      <4>1. c.kind \in Ranks
        BY <2>2, <3>3 DEF ChangeCalls
      <4> QED
        BY <3>3, <4>1
    <3> QED
      BY <2>1, <3>1, <3>2, <3>3
  <2>4. /\ roleOf' \in Shown /\ roleOf'[c.who] = role /\ (own' = own => SomeOwner')
        /\ listing' \in Listings /\ refreshes' \in SUBSET Readings
        /\ listing'.state = listing.state
        /\ listing.state = "served" => listing'.old
        /\ \A r \in refreshes' : r.people # -1 => r.old
    BY <1>h, <2>1, <2>2, <2>3, BecomesKeeps
  <2>5. SomeOwner'
    BY <2>2, <2>3, <2>4 DEF SomeOwner
  <2>6. TeamTypes'
    <3>1. changing' \in SUBSET ChangeCalls
      BY <1>h, <2>1, <2>2 DEF TeamTypes
    <3>2. unsure' \in [list : BOOLEAN, totals : BOOLEAN] /\ own' \in {"owner", "agent"}
      BY <1>h, <2>1, <2>3 DEF TeamTypes
    <3> QED
      BY <1>h, <2>1, <2>4, <3>1, <3>2 DEF TeamTypes
  <2>7. Done' \/ (unsure'.list /\ unsure'.totals)
    <3>1. CASE c.heard
      BY <2>1, <2>2, <3>1 DEF Done
    <3>2. CASE ~c.heard
      BY <2>1, <3>2
    <3> QED
      BY <3>1, <3>2
  <2> QED
    BY <1>h, <2>1, <2>4, <2>5, <2>6, <2>7 DEF TeamInv, Asked, ListInv, TotalsInv
<1>17. ASSUME NEW p \in People, NEW role \in Ranks \cup {"none"}, OthersChange(p, role) PROVE TeamInv'
  <2>1. /\ Becomes(p, role) /\ unsure' = [list |-> TRUE, totals |-> TRUE]
        /\ UNCHANGED <<own, mine, members, changing, question, totals>>
    BY <1>17 DEF OthersChange
  <2>2. /\ roleOf' \in Shown /\ SomeOwner'
        /\ listing' \in Listings /\ refreshes' \in SUBSET Readings
        /\ listing'.state = listing.state
        /\ listing.state = "served" => listing'.old
        /\ \A r \in refreshes' : r.people # -1 => r.old
    BY <1>h, <2>1, BecomesKeeps
  <2>3. TeamTypes'
    BY <1>h, <2>1, <2>2 DEF TeamTypes
  <2> QED
    BY <1>h, <2>1, <2>2, <2>3 DEF TeamInv, Asked, ListInv, TotalsInv
\* What is read again will be right.
<1>r. ASSUME ReadAgain, changing' \in SUBSET ChangeCalls, question' \in {question, NoQuestion},
             UNCHANGED <<roleOf, own, mine, members, totals, unsure>>
      PROVE  TeamInv'
  <2>1. /\ listing' \in Listings /\ refreshes' \in SUBSET Readings
        /\ listing'.state = "sent" /\ refreshes' # {}
        /\ \A r \in refreshes' : r \in refreshes \/ r.people = -1
    BY <1>h, <1>r, ReadAgainLists
  <2>2. TeamTypes' /\ Asked'
    BY <1>h, <1>r, <2>1 DEF TeamTypes, Asked, NoQuestion
  <2>3. \A r : Right(r)' <=> Right(r)
    BY <1>r DEF Right, HowMany
  <2> QED
    BY <1>h, <1>r, <2>1, <2>2, <2>3 DEF TeamInv, SomeOwner, ListInv, TotalsInv
<1>4. ASSUME NEW c \in changing, RoleChanged(c) \/ Removed(c) PROVE TeamInv'
  <2>1. /\ ReadAgain /\ question' \in {question, NoQuestion}
        /\ Over(c) \/ changing' = changing \ {c}
        /\ UNCHANGED <<roleOf, own, mine, members, totals, unsure>>
    BY <1>4 DEF RoleChanged, Removed
  <2>2. changing' \in SUBSET ChangeCalls
    BY <1>h, <2>1, OverIs DEF TeamTypes
  <2> QED
    BY <1>r, <2>1, <2>2
<1>5. ASSUME NEW r \in refreshes, ServeTotals(r) PROVE TeamInv'
  <2> DEFINE s == [people |-> HowMany(Ranks \cup {"agent"}), owners |-> HowMany({"owner"}), old |-> FALSE]
  <2>1. /\ refreshes' = (refreshes \ {r}) \cup {s}
        /\ UNCHANGED <<roleOf, own, mine, members, listing, changing, question, totals, unsure>>
    BY <1>5 DEF ServeTotals
  <2>2. s \in Readings /\ Right(s)
    BY HowManyType DEF Readings, Right
  <2>3. TeamTypes'
    BY <1>h, <2>1, <2>2 DEF TeamTypes
  <2>4. \A q : Right(q)' <=> Right(q)
    BY <2>1 DEF Right, HowMany
  <2> HIDE DEF s
  <2> QED
    BY <1>h, <2>1, <2>2, <2>3, <2>4 DEF TeamInv, SomeOwner, Asked, ListInv, TotalsInv, Done
<1>6. ASSUME NEW r \in refreshes, TotalsArrive(r) PROVE TeamInv'
  <2>1. /\ r.people # -1 /\ totals' = [r EXCEPT !.old = FALSE] /\ refreshes' = refreshes \ {r}
        /\ unsure' = [unsure EXCEPT !.totals = r.old]
        /\ UNCHANGED <<roleOf, own, mine, members, listing, changing, question>>
    BY <1>6 DEF TotalsArrive
  <2>2. r \in Readings /\ unsure \in [list : BOOLEAN, totals : BOOLEAN]
    BY <1>h DEF TeamTypes
  <2>3. /\ totals' \in Readings /\ totals'.people = r.people /\ totals'.owners = r.owners
        /\ unsure' \in [list : BOOLEAN, totals : BOOLEAN]
        /\ unsure'.list = unsure.list /\ unsure'.totals = r.old
    BY <2>1, <2>2 DEF Readings
  <2>4. TeamTypes'
    BY <1>h, <2>1, <2>3 DEF TeamTypes
  <2>5. \A q : Right(q)' <=> Right(q)
    BY <2>1 DEF Right, HowMany
  <2>6. r.old \/ Right(totals')
    BY <1>h, <2>1, <2>3 DEF TotalsInv, Right
  <2>7. TotalsInv'
    BY <1>h, <2>1, <2>3, <2>5, <2>6 DEF TotalsInv
  <2>8. ListInv'
    BY <1>h, <2>1, <2>3 DEF ListInv, Done
  <2> QED
    BY <1>h, <2>1, <2>4, <2>7, <2>8 DEF TeamInv, SomeOwner, Asked
<1>7. ASSUME NEW r \in refreshes, TotalsFail(r) PROVE TeamInv'
  <2>1. /\ refreshes' = refreshes \ {r} /\ unsure' = [unsure EXCEPT !.totals = TRUE]
        /\ UNCHANGED <<roleOf, own, mine, members, listing, changing, question, totals>>
    BY <1>7 DEF TotalsFail
  <2>2. /\ unsure' \in [list : BOOLEAN, totals : BOOLEAN]
        /\ unsure'.list = unsure.list /\ unsure'.totals
    BY <1>h, <2>1 DEF TeamTypes
  <2>3. TeamTypes'
    BY <1>h, <2>1, <2>2 DEF TeamTypes
  <2>4. \A q : Right(q)' <=> Right(q)
    BY <2>1 DEF Right, HowMany
  <2> QED
    BY <1>h, <2>1, <2>2, <2>3, <2>4 DEF TeamInv, SomeOwner, Asked, ListInv, TotalsInv, Done
<1>9. CASE ServeMembers
  <2>1. /\ listing.state = "sent" /\ listing' = [state |-> "served", rows |-> roleOf, old |-> FALSE]
        /\ UNCHANGED <<roleOf, own, mine, members, changing, question, totals, refreshes, unsure>>
    BY <1>9 DEF ServeMembers
  <2>2. TeamTypes'
    BY <1>h, <2>1 DEF TeamTypes, Listings
  <2>3. \A q : Right(q)' <=> Right(q)
    BY <2>1 DEF Right, HowMany
  <2> QED
    BY <1>h, <2>1, <2>2, <2>3 DEF TeamInv, SomeOwner, Asked, ListInv, TotalsInv, Done
<1>10. CASE MembersArrive
  <2>1. /\ listing.state = "served" /\ members' = listing.rows /\ listing' = NoList
        /\ unsure' = [unsure EXCEPT !.list = listing.old]
        /\ UNCHANGED <<roleOf, own, mine, changing, question, totals, refreshes>>
    BY <1>10 DEF MembersArrive
  <2>2. /\ unsure' \in [list : BOOLEAN, totals : BOOLEAN]
        /\ unsure'.list = listing.old /\ unsure'.totals = unsure.totals
    BY <1>h, <2>1 DEF TeamTypes, Listings
  <2>3. TeamTypes'
    BY <1>h, <2>1, <2>2, TeamConstants DEF TeamTypes, Listings
  <2>4. \A q : Right(q)' <=> Right(q)
    BY <2>1 DEF Right, HowMany
  <2>5. ListInv'
    BY <1>h, <2>1, <2>2, TeamConstants DEF ListInv
  <2> QED
    BY <1>h, <2>1, <2>2, <2>3, <2>4, <2>5 DEF TeamInv, SomeOwner, Asked, TotalsInv, Done
<1>11. CASE MembersFail
  <2>1. /\ listing' = [NoList EXCEPT !.state = "failed"] /\ unsure' = [unsure EXCEPT !.list = TRUE]
        /\ UNCHANGED <<roleOf, own, mine, members, changing, question, totals, refreshes>>
    BY <1>11 DEF MembersFail
  <2>2. /\ unsure' \in [list : BOOLEAN, totals : BOOLEAN]
        /\ unsure'.list /\ unsure'.totals = unsure.totals
        /\ listing' \in Listings /\ listing'.state = "failed"
    BY <1>h, <2>1, TeamConstants DEF TeamTypes, Listings
  <2>3. TeamTypes'
    BY <1>h, <2>1, <2>2 DEF TeamTypes
  <2>4. \A q : Right(q)' <=> Right(q)
    BY <2>1 DEF Right, HowMany
  <2> QED
    BY <1>h, <2>1, <2>2, <2>3, <2>4 DEF TeamInv, SomeOwner, Asked, ListInv, TotalsInv, Done
<1>12. CASE CancelQuestion
  <2>1. /\ question' = NoQuestion
        /\ UNCHANGED <<roleOf, own, mine, members, listing, changing, totals, refreshes, unsure>>
    BY <1>12 DEF CancelQuestion
  <2>2. TeamTypes' /\ Asked'
    BY <1>h, <2>1 DEF TeamTypes, Asked, NoQuestion
  <2>3. \A q : Right(q)' <=> Right(q)
    BY <2>1 DEF Right, HowMany
  <2> QED
    BY <1>h, <2>1, <2>2, <2>3 DEF TeamInv, SomeOwner, ListInv, TotalsInv, Done
<1>18. CASE ConfirmQuestion
  <2>1. /\ question # NoQuestion /\ SendChange(question.kind, question.who)
        /\ UNCHANGED <<roleOf, own, mine, members, listing, question, totals, refreshes, unsure>>
    BY <1>18 DEF ConfirmQuestion
  <2>2. question.who \in People /\ question.kind \in {"remove", "transfer"}
    BY <1>h, <2>1 DEF TeamTypes, Asked
  <2>3. changing' \in SUBSET ChangeCalls /\ (Done => Done')
    BY <1>h, <2>1, <2>2, CallIs
  <2>4. TeamTypes'
    BY <1>h, <2>1, <2>3 DEF TeamTypes
  <2>5. \A q : Right(q)' <=> Right(q)
    BY <2>1 DEF Right, HowMany
  <2> QED
    BY <1>h, <2>1, <2>3, <2>4, <2>5 DEF TeamInv, SomeOwner, Asked, ListInv, TotalsInv
<1>13. ASSUME NEW c \in changing, Transferred(c) PROVE TeamInv'
  <2>1. /\ changing' = {[d EXCEPT !.heard = FALSE] : d \in {d \in changing : d.state # "done"}}
        /\ question' = NoQuestion
        /\ mine' = own /\ members' = NoList.rows /\ listing' = NewList
        /\ totals' = Unread /\ refreshes' = {Unread}
        /\ unsure' = [list |-> FALSE, totals |-> FALSE] /\ UNCHANGED <<roleOf, own>>
    BY <1>13 DEF Transferred
  <2>2. changing' \in SUBSET ChangeCalls
    <3>1. ASSUME NEW e \in changing' PROVE e \in ChangeCalls
      <4>1. PICK d \in changing : e = [d EXCEPT !.heard = FALSE]
        BY <2>1
      <4>2. d \in ChangeCalls
        BY <1>h DEF TeamTypes
      <4> QED
        BY <4>1, <4>2 DEF ChangeCalls
    <3> QED
      BY <3>1
  <2>3. TeamTypes'
    BY <1>h, <2>1, <2>2, TeamConstants DEF TeamTypes, NoQuestion
  <2>4. ListInv' /\ TotalsInv' /\ Asked'
    BY <2>1, TeamConstants DEF ListInv, TotalsInv, Asked
  <2> QED
    BY <1>h, <2>1, <2>3, <2>4 DEF TeamInv, SomeOwner
<1>14. ASSUME NEW c \in changing, QuestionFails(c) PROVE TeamInv'
  <2>1. /\ Over(c)
        /\ unsure' = IF c.state = "done" THEN [list |-> TRUE, totals |-> TRUE] ELSE unsure
        /\ UNCHANGED <<roleOf, own, mine, members, listing, question, totals, refreshes>>
    BY <1>14 DEF QuestionFails
  <2>2. changing' \in SUBSET ChangeCalls /\ (c.state # "done" => (Done => Done'))
    BY <1>h, <2>1, OverIs
  <2>3. TeamTypes'
    BY <1>h, <2>1, <2>2 DEF TeamTypes
  <2>4. \A r : Right(r)' <=> Right(r)
    BY <2>1 DEF Right, HowMany
  <2>5. CASE c.state = "done"
    BY <1>h, <2>1, <2>3, <2>4, <2>5 DEF TeamInv, SomeOwner, Asked, ListInv, TotalsInv
  <2>6. CASE c.state # "done"
    BY <1>h, <2>1, <2>2, <2>3, <2>4, <2>6 DEF TeamInv, SomeOwner, Asked, ListInv, TotalsInv
  <2> QED
    BY <2>5, <2>6
<1>15. CASE UNCHANGED teamVars
  <2>1. UNCHANGED <<roleOf, own, mine, members, listing, changing, question, totals, refreshes, unsure>>
    BY <1>15 DEF teamVars
  <2>2. \A r : Right(r)' <=> Right(r)
    BY <2>1 DEF Right, HowMany
  <2> QED
    BY <1>h, <2>1, <2>2 DEF TeamInv, TeamTypes, SomeOwner, Asked, ListInv, TotalsInv, Done
<1> QED
  BY <1>1, <1>2, <1>3, <1>4, <1>5, <1>6, <1>7, <1>9, <1>10, <1>11, <1>12, <1>13, <1>14,
     <1>15, <1>16, <1>17, <1>18 DEF TeamNext

\* The team's list and its totals come to rest only when they are right, but for
\* changes that the page is not told of (MembersTab.tsx, TeamPage.tsx), for any number
\* of members, of calls under way, given up or seen to later, and of readings that
\* overtake one another; and the workspace keeps an owner.
THEOREM TeamAlwaysCatchesUp == TeamSpec => []TeamCatchesUp
<1>1. TeamInit => TeamInv
  BY TeamInitInv
<1>2. TeamInv /\ [TeamNext]_teamVars => TeamInv'
  BY TeamStep
<1>3. TeamInv => TeamCatchesUp
  BY TeamInvImplies
<1> QED
  BY <1>1, <1>2, <1>3, PTL DEF TeamSpec

-----------------------------------------------------------------------------
-----------------------------------------------------------------------------
(* The dialog that invites.  From its review on the address is a good one;   *)
(* once the invitation is created it is the last of the rows, and the        *)
(* effect, its polls and their answers are all about it.                    *)

InviteRows == [email : Addresses \ Malformed, mail : Mail]
Forms == [open : BOOLEAN, step : 0..3, email : Addresses \cup {NoAddress},
          error : {"none", "malformed", "conflict", "forbidden", "other"}]

InviteTypes ==
  /\ invites \in Seq(InviteRows) /\ Len(invites) <= MaxInvites
  /\ form \in Forms
  /\ creating \in {"no", "sent", "done", "conflict", "forbidden"}
  /\ invitation \in [id : 0..MaxInvites, mail : Mail]
  /\ effect \in [on : BOOLEAN, attempts : 0..PollLimit]
  /\ polling \subseteq [id : 0..MaxInvites, mail : Mail \cup {"unknown"}]
  /\ gaveUp \in BOOLEAN /\ watched \in 0..PollLimit + 1 /\ carried \in BOOLEAN

\* The steps of the form.
Steps ==
  /\ form.step # 0 => form.email \in Addresses \ Malformed
  /\ creating # "no" => form.open /\ form.step = 2
  /\ creating = "done" => Len(invites) > 0 /\ invites[Len(invites)].email = form.email

\* The last step, and the effect that polls.
LastStep ==
  /\ form.step = 3 =>
       /\ Len(invites) > 0 /\ invitation.id = Len(invites)
       /\ invites[Len(invites)].email = form.email
       /\ effect.on <=> invitation.mail = "queued"
  /\ effect.on \/ polling # {} => form.step = 3
  /\ \A a \in polling : a.id = invitation.id

\* What is known of an email, if it is more than that it waits, is so.
True(m) == m \in {"sent", "failed"} => invites[Len(invites)].mail = m

OutcomesTrue == True(invitation.mail) /\ \A a \in polling : True(a.mail)

\* The limit.
Limits ==
  /\ watched >= effect.attempts
  /\ gaveUp => carried \/ (form.step = 3 /\ watched >= PollLimit)

\* The dialog's inductive invariant.
InviteInv == InviteTypes /\ Steps /\ LastStep /\ (form.step = 3 => OutcomesTrue) /\ Limits /\ WatchedOrGivenUp

LEMMA InviteInitInv == InviteInit => InviteInv
<1> SUFFICES ASSUME InviteInit PROVE InviteInv
  OBVIOUS
<1>1. /\ invites = <<>> /\ form = Blank /\ creating = "no" /\ invitation = NoInvitation
      /\ effect = Idle /\ polling = {} /\ gaveUp = FALSE /\ watched = 0 /\ carried = FALSE
  BY DEF InviteInit
<1>2. Blank \in Forms /\ Blank.step = 0 /\ NoInvitation \in [id : 0..MaxInvites, mail : Mail]
  BY DialogAssumption DEF Blank, Forms, NoInvitation, Mail
<1>3. Idle \in [on : BOOLEAN, attempts : 0..PollLimit] /\ ~Idle.on /\ Idle.attempts = 0
  BY DialogAssumption DEF Idle
<1>4. <<>> \in Seq(InviteRows) /\ Len(<<>>) = 0
  BY EmptySeq
<1>5. InviteTypes
  <2>1. invites \in Seq(InviteRows) /\ Len(invites) <= MaxInvites
    BY DialogAssumption, <1>1, <1>4
  <2>2. effect \in [on : BOOLEAN, attempts : 0..PollLimit]
    BY <1>1, <1>3
  <2>3. polling \subseteq [id : 0..MaxInvites, mail : Mail \cup {"unknown"}]
    BY <1>1
  <2>4. watched \in 0..PollLimit + 1
    BY DialogAssumption, <1>1
  <2> QED
    BY <1>1, <1>2, <2>1, <2>2, <2>3, <2>4 DEF InviteTypes
<1> QED
  BY <1>1, <1>2, <1>3, <1>5 DEF InviteInv, Steps, LastStep, Limits, WatchedOrGivenUp

\* What the dialog does to its form.
LEMMA FormWith ==
  ASSUME NEW f \in Forms, NEW e \in {"none", "malformed", "conflict", "forbidden", "other"},
         NEW s \in 0..3
  PROVE  /\ [f EXCEPT !.error = e] \in Forms /\ [f EXCEPT !.error = e].step = f.step
         /\ [f EXCEPT !.error = e].email = f.email
         /\ [f EXCEPT !.error = e, !.step = s] \in Forms
         /\ [f EXCEPT !.error = e, !.step = s].step = s
         /\ [f EXCEPT !.error = e, !.step = s].email = f.email
         /\ [f EXCEPT !.step = s, !.error = e] \in Forms
         /\ [f EXCEPT !.step = s, !.error = e].step = s
         /\ [f EXCEPT !.step = s, !.error = e].email = f.email
BY DEF Forms

LEMMA InviteInvImplies == InviteInv => DialogFollowsItsOwn
<1> SUFFICES ASSUME InviteInv PROVE DialogFollowsItsOwn
  OBVIOUS
<1>a. InviteTypes /\ Steps /\ LastStep /\ (form.step = 3 => OutcomesTrue) /\ Limits /\ WatchedOrGivenUp
  BY DEF InviteInv
<1>1. DOMAIN invites = 1..Len(invites) /\ Len(invites) \in Nat
      /\ \A i \in DOMAIN invites : invites[i] \in InviteRows
  BY <1>a DEF InviteTypes
<1>2. InviteTypeOK
  <2>1. DOMAIN invites \subseteq 1..MaxInvites
    BY <1>a, <1>1, DialogAssumption DEF InviteTypes
  <2> QED
    BY <1>a, <1>1, <2>1 DEF InviteTypes, InviteTypeOK, InviteRows, Forms, Steps, LastStep
<1>3. ShowsItsOwn
  BY <1>a DEF ShowsItsOwn, LastStep, OutcomesTrue, True, InviteTypes, Mail
<1>4. GivesUpInTime
  BY <1>a DEF GivesUpInTime, Limits
<1> QED
  BY <1>a, <1>2, <1>3, <1>4 DEF DialogFollowsItsOwn

LEMMA InviteStep ==
  ASSUME InviteInv, [InviteNext]_inviteVars
  PROVE  InviteInv'
<1>h. /\ InviteTypes /\ Steps /\ LastStep /\ (form.step = 3 => OutcomesTrue) /\ Limits /\ WatchedOrGivenUp
  BY DEF InviteInv
<1>c. PollLimit \in Nat /\ PollLimit > 0 /\ MaxInvites \in Nat /\ MaxInvites > 0
      /\ Malformed \subseteq Addresses /\ NoAddress \notin Addresses
  BY DialogAssumption
<1>r. DOMAIN invites = 1..Len(invites) /\ Len(invites) \in Nat
      /\ \A i \in DOMAIN invites : invites[i] \in InviteRows
  BY <1>h DEF InviteTypes
\* Open and InviteAnother.
<1>1. ASSUME Reset(TRUE), UNCHANGED <<invites, creating>>, creating = "no" PROVE InviteInv'
  <2>1. /\ form' = [Blank EXCEPT !.open = TRUE] /\ invitation' = NoInvitation
        /\ gaveUp' = GivesUpLate /\ watched' = 0 /\ carried' = GivesUpLate
        /\ effect' = [on |-> FALSE, attempts |-> 0] /\ polling' = {}
    <3>1. NoInvitation.id = 0
      BY DEF NoInvitation
    <3>2. effect' = [on |-> (0 = 3 /\ NoInvitation.id # 0 /\ NoInvitation.mail = "queued"),
                     attempts |-> 0]
      BY <1>1 DEF Reset, Tracks
    <3>3. (0 = 3 /\ NoInvitation.id # 0 /\ NoInvitation.mail = "queued") = FALSE
      BY <3>1
    <3>4. effect' = [on |-> FALSE, attempts |-> 0]
      BY ONLY <3>2, <3>3
    <3> QED
      BY <1>1, <3>4 DEF Reset, Tracks
  <2>2. form' \in Forms /\ form'.step = 0
    <3>1. form' = [open |-> TRUE, step |-> 0, email |-> NoAddress, error |-> "none"]
      BY <2>1 DEF Blank
    <3> QED
      BY <3>1 DEF Forms
  <2>3. gaveUp' \in BOOLEAN /\ carried' \in BOOLEAN /\ (gaveUp' => carried')
    BY <2>1 DEF GivesUpLate, Spent
  <2>4. InviteTypes'
    BY <1>h, <1>c, <1>1, <2>1, <2>2, <2>3 DEF InviteTypes, NoInvitation, Mail
  <2> QED
    BY <1>c, <1>1, <2>1, <2>2, <2>3, <2>4
    DEF InviteInv, Steps, LastStep, Limits, WatchedOrGivenUp
<1>2. CASE Open \/ InviteAnother
  <2>1. creating = "no"
    <3>1. ~form.open \/ form.step = 3
      BY <1>2 DEF Open, InviteAnother
    <3>2. creating # "no" => form.open /\ form.step = 2
      BY <1>h DEF Steps
    <3> QED
      BY <3>1, <3>2
  <2>2. Reset(TRUE) /\ UNCHANGED <<invites, creating>>
    BY <1>2 DEF Open, InviteAnother
  <2> QED
    BY <1>1, <2>1, <2>2
\* Only the form changes, and the last step is neither entered nor left.
<1>3. ASSUME UNCHANGED <<invites, invitation, effect, polling, gaveUp, watched, carried>>,
             form' \in Forms, creating' \in {"no", "sent", "done", "conflict", "forbidden"}, Steps',
             form'.step = 3 <=> form.step = 3, form.step = 3 => form'.email = form.email
      PROVE  InviteInv'
  <2>1. InviteTypes'
    BY <1>h, <1>3 DEF InviteTypes
  <2>2. LastStep' /\ Limits' /\ WatchedOrGivenUp'
    BY <1>h, <1>3 DEF LastStep, Limits, WatchedOrGivenUp
  <2>3. (form.step = 3 => OutcomesTrue)'
    BY <1>h, <1>3 DEF OutcomesTrue, True
  <2> QED
    BY <1>3, <2>1, <2>2, <2>3 DEF InviteInv
<1>4. CASE CloseInvite
  <2>1. /\ creating = "no" /\ form' = [form EXCEPT !.open = FALSE]
        /\ UNCHANGED <<invites, creating, invitation, effect, polling, gaveUp, watched, carried>>
    BY <1>4 DEF CloseInvite
  <2>2. form' \in Forms /\ form'.step = form.step /\ form'.email = form.email
    BY <1>h, <2>1 DEF InviteTypes, Forms
  <2>3. Steps'
    BY <1>h, <2>1, <2>2 DEF Steps
  <2> QED
    BY <1>h, <1>3, <2>1, <2>2, <2>3 DEF InviteTypes
<1>5. ASSUME NEW e \in Addresses, TypeAddress(e) PROVE InviteInv'
  <2>1. /\ form.step = 0 /\ form' = [form EXCEPT !.email = e]
        /\ UNCHANGED <<invites, creating, invitation, effect, polling, gaveUp, watched, carried>>
    BY <1>5 DEF TypeAddress
  <2>2. form' \in Forms /\ form'.step = 0
    BY <1>h, <2>1 DEF InviteTypes, Forms
  <2>3. Steps'
    BY <1>h, <2>1, <2>2 DEF Steps
  <2> QED
    BY <1>h, <1>3, <2>1, <2>2, <2>3 DEF InviteTypes
<1>6. CASE NextStep
  <2>1. /\ form.step < 2 /\ (form.step = 0 => form.email # NoAddress)
        /\ form' = IF form.step = 0 /\ form.email \in Malformed
                   THEN [form EXCEPT !.error = "malformed"]
                   ELSE [form EXCEPT !.step = @ + 1, !.error = "none"]
        /\ UNCHANGED <<invites, creating, invitation, effect, polling, gaveUp, watched, carried>>
    BY <1>6 DEF NextStep
  <2>2. form' \in Forms /\ form'.email = form.email /\ form.step \in 0..3
        /\ (form'.step = form.step \/ (form'.step = form.step + 1 /\ ~(form.step = 0 /\ form.email \in Malformed)))
    <3>1. form \in Forms
      BY <1>h DEF InviteTypes
    <3>2. form.step \in 0..3 /\ form.step + 1 \in 0..3
      BY <2>1, <3>1 DEF Forms
    <3>3. CASE form.step = 0 /\ form.email \in Malformed
      BY <2>1, <3>1, <3>2, <3>3, FormWith
    <3>4. CASE ~(form.step = 0 /\ form.email \in Malformed)
      <4>1. form' = [form EXCEPT !.step = form.step + 1, !.error = "none"]
        BY <2>1, <3>4
      <4> QED
        BY ZenonT(60), <3>1, <3>2, <3>4, <4>1, FormWith
    <3> QED
      BY <3>3, <3>4
  <2>3. creating = "no"
    BY <1>h, <2>1 DEF Steps
  <2>4. form.email \in Addresses \cup {NoAddress}
    BY <1>h DEF InviteTypes, Forms
  <2>5. Steps'
    BY <1>h, <2>1, <2>2, <2>3, <2>4 DEF Steps
  <2>6. form'.step # 3 /\ form.step # 3
    BY <2>1, <2>2
  <2> QED
    BY <1>h, <1>3, <2>1, <2>2, <2>5, <2>6 DEF InviteTypes
<1>7. CASE BackStep
  <2>1. /\ form.step \in {1, 2} /\ creating = "no" /\ form' = [form EXCEPT !.step = @ - 1]
        /\ UNCHANGED <<invites, creating, invitation, effect, polling, gaveUp, watched, carried>>
    BY <1>7 DEF BackStep
  <2>2. form' \in Forms /\ form'.email = form.email /\ form'.step = form.step - 1
    BY <1>h, <2>1 DEF InviteTypes, Forms
  <2>3. Steps'
    BY <1>h, <2>1, <2>2 DEF Steps
  <2> QED
    BY <1>h, <1>3, <2>1, <2>2, <2>3 DEF InviteTypes
<1>8. CASE Send
  <2>1. /\ form.open /\ form.step = 2 /\ creating' = "sent" /\ form' = [form EXCEPT !.error = "none"]
        /\ UNCHANGED <<invites, invitation, effect, polling, gaveUp, watched, carried>>
    BY <1>8 DEF Send
  <2>2. form' \in Forms /\ form'.email = form.email /\ form'.step = 2 /\ form'.open
    BY <1>h, <2>1 DEF InviteTypes, Forms
  <2>3. Steps'
    BY <1>h, <2>1, <2>2 DEF Steps
  <2> QED
    BY <1>3, <2>1, <2>2, <2>3
<1>9. CASE SendFails
  <2>1. PICK e \in {"conflict", "forbidden", "other"} :
          form' = [form EXCEPT !.error = e, !.step = CASE e = "conflict" -> 0
                                                       [] e = "forbidden" -> 1 [] OTHER -> 2]
    BY <1>9 DEF SendFails
  <2>2. /\ creating # "no" /\ creating' = "no"
        /\ UNCHANGED <<invites, invitation, effect, polling, gaveUp, watched, carried>>
    BY <1>9 DEF SendFails
  <2>3. form' \in Forms /\ form'.email = form.email /\ form'.step \in {0, 1, 2}
    <3>1. form \in Forms
      BY <1>h DEF InviteTypes
    <3>2. PICK s \in {0, 1, 2} : form' = [form EXCEPT !.error = e, !.step = s]
      BY <2>1
    <3> DEFINE g == [form EXCEPT !.error = e, !.step = s]
    <3>3. s \in 0..3 /\ e \in {"none", "malformed", "conflict", "forbidden", "other"}
      OBVIOUS
    <3>4. g \in Forms /\ g.step = s /\ g.email = form.email
      BY <3>1, <3>3 DEF Forms
    <3>5. form' = g
      BY <3>2
    <3> HIDE DEF g
    <3> QED
      BY <3>4, <3>5
  <2>4. form.step = 2
    BY <1>h, <2>2 DEF Steps
  <2>5. Steps'
    BY <1>h, <2>2, <2>3, <2>4 DEF Steps
  <2> QED
    BY <1>3, <2>2, <2>3, <2>4, <2>5
<1>10. CASE Sent
  <2>1. /\ creating = "done" /\ creating' = "no"
        /\ invitation' = [id |-> Len(invites), mail |-> "queued"]
        /\ form' = [form EXCEPT !.step = 3]
        /\ polling' = {} /\ watched' = 0
        /\ UNCHANGED <<invites, gaveUp, carried>>
    BY <1>10 DEF Sent, Created, Tracks
  <2>2. /\ form' \in Forms /\ form'.email = form.email /\ form'.step = 3
        /\ Len(invites) > 0 /\ invites[Len(invites)].email = form.email /\ form.step = 2
    BY <1>h, <2>1 DEF InviteTypes, Forms, Steps
  <2>3. effect'.on /\ effect'.attempts = 0 /\ effect' \in [on : BOOLEAN, attempts : 0..PollLimit]
    <3>1. Created(Len(invites)).id # 0 /\ Created(Len(invites)).mail = "queued"
      BY <2>2 DEF Created
    <3>2. (3 = 3 /\ Created(Len(invites)).id # 0 /\ Created(Len(invites)).mail = "queued") = TRUE
      BY <3>1
    <3>3. effect' = [on |-> (3 = 3 /\ Created(Len(invites)).id # 0
                            /\ Created(Len(invites)).mail = "queued"), attempts |-> 0]
      BY <1>10 DEF Sent, Tracks
    <3>4. effect' = [on |-> TRUE, attempts |-> 0]
      BY ONLY <3>2, <3>3
    <3> QED
      BY <1>c, <3>4
  <2>4. invitation' \in [id : 0..MaxInvites, mail : Mail]
    BY <1>h, <1>c, <1>r, <2>1 DEF InviteTypes, Mail
  <2>5. InviteTypes'
    BY <1>h, <1>c, <2>1, <2>2, <2>3, <2>4 DEF InviteTypes
  <2>6. Steps' /\ LastStep' /\ Limits' /\ WatchedOrGivenUp'
    BY <1>h, <1>c, <2>1, <2>2, <2>3 DEF Steps, LastStep, Limits, WatchedOrGivenUp
  <2>7. OutcomesTrue'
    BY <2>1 DEF OutcomesTrue, True
  <2> QED
    BY <2>5, <2>6, <2>7 DEF InviteInv
<1>11. CASE ServeCreate
  <2>1. /\ creating = "sent"
        /\ UNCHANGED <<form, invitation, effect, polling, gaveUp, watched, carried>>
    BY <1>11 DEF ServeCreate
  <2>2. form.step = 2 /\ form.open /\ form.email \in Addresses \ Malformed
    BY <1>h, <2>1 DEF Steps
  <2>3. CASE UNCHANGED invites /\ creating' \in {"conflict", "forbidden"}
    <3>1. Steps'
      BY <1>h, <2>1, <2>2, <2>3 DEF Steps
    <3> QED
      BY <1>h, <1>3, <2>1, <2>3, <3>1 DEF InviteTypes
  <2>4. CASE /\ Len(invites) < MaxInvites /\ creating' = "done"
             /\ invites' = Append(invites, [email |-> form.email, mail |-> "queued"])
    <3>1. [email |-> form.email, mail |-> "queued"] \in InviteRows
      BY <2>2 DEF InviteRows, Mail
    <3>2. /\ invites' \in Seq(InviteRows) /\ Len(invites') = Len(invites) + 1
          /\ invites'[Len(invites')].email = form.email
      BY <1>h, <2>4, <3>1, AppendProperties DEF InviteTypes
    <3>3. InviteTypes'
      BY <1>h, <1>c, <1>r, <2>1, <2>4, <3>2 DEF InviteTypes
    <3>4. Steps' /\ LastStep' /\ Limits' /\ WatchedOrGivenUp'
      BY <1>h, <1>r, <2>1, <2>2, <2>4, <3>2 DEF Steps, LastStep, Limits, WatchedOrGivenUp
    <3> QED
      BY <2>1, <2>2, <3>3, <3>4 DEF InviteInv
  <2> QED
    BY <1>11, <2>3, <2>4 DEF ServeCreate
<1>12. ASSUME NEW i \in DOMAIN invites, Delivers(i) PROVE InviteInv'
  <2>1. /\ invites[i].mail = "queued"
        /\ UNCHANGED <<form, creating, invitation, effect, polling, gaveUp, watched, carried>>
    BY <1>12 DEF Delivers
  <2>2. PICK m \in {"sent", "failed"} : invites' = [invites EXCEPT ![i].mail = m]
    BY <1>12 DEF Delivers
  <2>3. [invites[i] EXCEPT !.mail = m] \in InviteRows /\ [invites[i] EXCEPT !.mail = m].email = invites[i].email
    BY <1>12, <1>r DEF InviteRows, Mail
  <2>4. invites' \in Seq(InviteRows) /\ Len(invites') = Len(invites)
    BY <1>h, <2>2, <2>3, <1>12, ExceptSeq DEF InviteTypes
  <2>5. ASSUME Len(invites) > 0
        PROVE  /\ invites'[Len(invites)].email = invites[Len(invites)].email
               /\ invites[Len(invites)].mail # "queued" =>
                    invites'[Len(invites)].mail = invites[Len(invites)].mail
    BY <1>r, <2>1, <2>2, <2>3, <2>5, <1>12
  <2>6. InviteTypes'
    BY <1>h, <2>1, <2>4 DEF InviteTypes
  <2>7. Steps' /\ LastStep' /\ Limits' /\ WatchedOrGivenUp'
    BY <1>h, <2>1, <2>4, <2>5 DEF Steps, LastStep, Limits, WatchedOrGivenUp
  <2>8. (form.step = 3 => OutcomesTrue)'
    BY <1>h, <2>1, <2>4, <2>5 DEF OutcomesTrue, True, LastStep
  <2> QED
    BY <2>6, <2>7, <2>8 DEF InviteInv
<1>13. ASSUME NEW a \in polling, ServePoll(a) PROVE InviteInv'
  <2> DEFINE b == [a EXCEPT !.mail = invites[a.id].mail]
  <2>1. /\ polling' = (polling \ {a}) \cup {b}
        /\ UNCHANGED <<invites, form, creating, invitation, effect, gaveUp, watched, carried>>
    BY <1>13 DEF ServePoll
  <2>2. /\ form.step = 3 /\ a.id = invitation.id /\ invitation.id = Len(invites)
        /\ Len(invites) > 0
    BY <1>h DEF LastStep
  <2>3. a \in [id : 0..MaxInvites, mail : Mail \cup {"unknown"}] /\ invites[a.id] \in InviteRows
    BY <1>h, <1>r, <2>2 DEF InviteTypes
  <2>4. /\ b \in [id : 0..MaxInvites, mail : Mail \cup {"unknown"}] /\ b.id = invitation.id
        /\ b.mail = invites[Len(invites)].mail
    BY <2>2, <2>3 DEF InviteRows
  <2> HIDE DEF b
  <2>5. InviteTypes'
    BY <1>h, <2>1, <2>4 DEF InviteTypes
  <2>6. Steps' /\ LastStep' /\ Limits' /\ WatchedOrGivenUp'
    BY <1>h, <2>1, <2>2, <2>4 DEF Steps, LastStep, Limits, WatchedOrGivenUp
  <2>7. (form.step = 3 => OutcomesTrue)'
    BY <1>h, <2>1, <2>2, <2>4 DEF OutcomesTrue, True
  <2> QED
    BY <2>5, <2>6, <2>7 DEF InviteInv
<1>14. CASE Tick
  <2> DEFINE b == [id |-> invitation.id, mail |-> "unknown"]
  <2>1. /\ effect.on /\ effect.attempts < PollLimit
        /\ effect' = [effect EXCEPT !.attempts = @ + 1]
        /\ polling' = polling \cup {b}
        /\ watched' = IF watched > PollLimit THEN watched ELSE watched + 1
        /\ UNCHANGED <<invites, form, creating, invitation, gaveUp, carried>>
    BY <1>14 DEF Tick
  <2>2. b \in [id : 0..MaxInvites, mail : Mail \cup {"unknown"}] /\ b.id = invitation.id /\ b.mail = "unknown"
    BY <1>h DEF InviteTypes
  <2> HIDE DEF b
  <2>3. /\ effect' \in [on : BOOLEAN, attempts : 0..PollLimit] /\ effect'.on
        /\ effect'.attempts = effect.attempts + 1 /\ effect.attempts \in Nat
    BY <1>h, <1>c, <2>1 DEF InviteTypes
  <2>4. watched' \in 0..PollLimit + 1 /\ watched' >= watched /\ watched' >= effect'.attempts
    BY <1>h, <1>c, <2>1, <2>3 DEF InviteTypes, Limits
  <2>5. InviteTypes'
    BY <1>h, <2>1, <2>2, <2>3, <2>4 DEF InviteTypes
  <2>6. form.step = 3 /\ effect.on
    BY <1>h, <2>1 DEF LastStep
  <2>7. Steps' /\ LastStep'
    BY <1>h, <2>1, <2>2, <2>3, <2>6 DEF Steps, LastStep
  <2>8. Limits'
    BY <1>h, <1>c, <2>1, <2>4 DEF Limits, InviteTypes
  <2>9. WatchedOrGivenUp' /\ (form.step = 3 => OutcomesTrue)'
    BY <1>h, <2>1, <2>2 DEF WatchedOrGivenUp, OutcomesTrue, True
  <2> QED
    BY <2>5, <2>7, <2>8, <2>9 DEF InviteInv
<1>15. ASSUME NEW a \in polling, Polled(a) PROVE InviteInv'
  <2>1. /\ a.mail # "unknown" /\ invitation' = [id |-> a.id, mail |-> a.mail]
        /\ gaveUp' = (gaveUp \/ Spent)
        /\ polling' = {}
        /\ UNCHANGED <<invites, form, creating, watched, carried>>
    BY <1>15 DEF Polled, Tracks
  <2>2. /\ form.step = 3 /\ a.id = invitation.id /\ invitation.id = Len(invites)
        /\ Len(invites) > 0
    BY <1>h DEF LastStep
  <2>3. a \in [id : 0..MaxInvites, mail : Mail \cup {"unknown"}]
    BY <1>h DEF InviteTypes
  <2>4. invitation' \in [id : 0..MaxInvites, mail : Mail] /\ invitation'.id = a.id /\ invitation'.mail = a.mail
    BY <2>1, <2>3
  <2>5. /\ effect' \in [on : BOOLEAN, attempts : 0..PollLimit] /\ effect'.attempts = 0
        /\ effect'.on <=> a.mail = "queued"
    <3> DEFINE shown == [id |-> a.id, mail |-> a.mail]
    <3>1. effect' = [on |-> (form.step = 3 /\ shown.id # 0 /\ shown.mail = "queued"), attempts |-> 0]
      BY <1>15 DEF Polled, Tracks
    <3>2. shown.id # 0 /\ shown.mail = a.mail
      BY <1>r, <2>2
    <3> HIDE DEF shown
    <3>3. CASE a.mail = "queued"
      <4>1. (form.step = 3 /\ shown.id # 0 /\ shown.mail = "queued") = TRUE
        BY <2>2, <3>2, <3>3
      <4>2. effect' = [on |-> TRUE, attempts |-> 0]
        BY ONLY <3>1, <4>1
      <4> QED
        BY <1>c, <3>3, <4>2
    <3>4. CASE a.mail # "queued"
      <4>1. (form.step = 3 /\ shown.id # 0 /\ shown.mail = "queued") = FALSE
        BY <3>2, <3>4
      <4>2. effect' = [on |-> FALSE, attempts |-> 0]
        BY ONLY <3>1, <4>1
      <4> QED
        BY <1>c, <3>4, <4>2
    <3> QED
      BY <3>3, <3>4
  <2>6. gaveUp' \in BOOLEAN /\ (gaveUp' => gaveUp \/ watched >= PollLimit)
    BY <1>h, <2>1 DEF InviteTypes, Spent, Limits
  <2>7. InviteTypes'
    BY <1>h, <2>1, <2>4, <2>5, <2>6 DEF InviteTypes
  <2>8. Steps' /\ LastStep' /\ WatchedOrGivenUp'
    BY <1>h, <1>c, <2>1, <2>2, <2>4, <2>5 DEF Steps, LastStep, WatchedOrGivenUp
  <2>9. Limits'
    BY <1>h, <1>c, <2>1, <2>2, <2>5, <2>6 DEF Limits, InviteTypes
  <2>10. (form.step = 3 => OutcomesTrue)'
    BY <1>h, <2>1, <2>2, <2>4 DEF OutcomesTrue, True
  <2> QED
    BY <2>7, <2>8, <2>9, <2>10 DEF InviteInv
<1>16. ASSUME NEW a \in polling, PollFailed(a) PROVE InviteInv'
  <2>1. /\ polling' = polling \ {a} /\ gaveUp' = (gaveUp \/ effect.attempts = PollLimit)
        /\ UNCHANGED <<invites, form, creating, invitation, effect, watched, carried>>
    BY <1>16 DEF PollFailed, Spent
  <2>2. form.step = 3
    BY <1>h DEF LastStep
  <2>3. gaveUp' \in BOOLEAN /\ (gaveUp' => gaveUp \/ watched >= PollLimit)
    BY <1>h, <2>1 DEF InviteTypes, Limits
  <2>4. InviteTypes'
    BY <1>h, <2>1, <2>3 DEF InviteTypes
  <2>5. Steps' /\ LastStep' /\ Limits'
    BY <1>h, <2>1, <2>2, <2>3 DEF Steps, LastStep, Limits
  <2>6. WatchedOrGivenUp'
    <3>1. invitation.mail = "queued" => effect.on
      BY <1>h, <2>2 DEF LastStep
    <3>2. effect.attempts \in 0..PollLimit
      BY <1>h DEF InviteTypes
    <3>3. CASE effect.attempts = PollLimit
      BY <2>1, <3>3 DEF WatchedOrGivenUp
    <3>4. CASE effect.attempts # PollLimit
      <4>1. effect.attempts < PollLimit
        BY <1>c, <3>2, <3>4
      <4> QED
        BY <2>1, <2>2, <3>1, <4>1 DEF WatchedOrGivenUp
    <3> QED
      BY <3>3, <3>4
  <2>7. (form.step = 3 => OutcomesTrue)'
    BY <1>h, <2>1 DEF OutcomesTrue, True
  <2> QED
    BY <2>4, <2>5, <2>6, <2>7 DEF InviteInv
<1>17. CASE UNCHANGED inviteVars
  <2>1. UNCHANGED <<invites, form, creating, invitation, effect, polling, gaveUp, watched, carried>>
    BY <1>17 DEF inviteVars
  <2>2. Steps'
    BY <1>h, <2>1 DEF Steps
  <2> QED
    BY <1>h, <1>3, <2>1, <2>2 DEF InviteTypes
<1> QED
  BY <1>2, <1>4, <1>5, <1>6, <1>7, <1>8, <1>9, <1>10, <1>11, <1>12, <1>13, <1>14, <1>15, <1>16,
     <1>17 DEF InviteNext

\* The dialog follows the email of the invitation it has just created, to its
\* outcome or to its limit (InviteDialog.tsx), for any addresses, any limit and
\* any number of invitations.
THEOREM DialogAlwaysFollows == InviteSpec => []DialogFollowsItsOwn
<1>1. InviteInit => InviteInv
  BY InviteInitInv
<1>2. InviteInv /\ [InviteNext]_inviteVars => InviteInv'
  BY InviteStep
<1>3. InviteInv => DialogFollowsItsOwn
  BY InviteInvImplies
<1> QED
  BY <1>1, <1>2, <1>3, PTL DEF InviteSpec

-----------------------------------------------------------------------------
-----------------------------------------------------------------------------
(* The list of invitations.  A row that was read differs from what is so only *)
(* where it is watched (pending and queued), where a call is about to fetch   *)
(* the list again, or where others made the change.                          *)

AnyRow == [id : Ids, status : {"none", "pending", "expired", "accepted", "revoked"},
           mail : {"queued", "sent", "failed"}, sends : 1..MaxResends + 1]

SentRows(s) ==
  /\ s \in [Ids -> AnyRow]
  /\ \A i \in Ids : s[i].id = i
  /\ \A i \in Ids : s[i].status = "none" => s[i].mail = "queued" /\ s[i].sends = 1

\* What a list has read: rows that there are, each once.
ReadRows(s, rows) ==
  /\ rows \subseteq TabRow
  /\ \A r, q \in rows : r.id = q.id => r = q
  /\ \A r \in rows : s[r.id].status # "none"

Dialogs(s) ==
  /\ selected \in TabRow \cup {NoRow}
  /\ selected # NoRow => s[selected.id].status # "none"
  /\ selected.id \in IdsOf(list) => selected \in list
  /\ revoking \in 0..MaxSent
  /\ revoking # 0 => s[revoking].status # "none"

Calls(s) ==
  /\ act \in [kind : {"none", "resend", "revoke"}, id : 0..MaxSent, answer : {"none", "done", "refused"}]
  /\ act.kind = "none" => act = NoAct
  /\ act.kind # "none" => act.id \in Ids /\ s[act.id].status # "none"

Wanted(s, t, i) == s[i].status = "pending" \/ (t = "all" /\ s[i].status # "none")

\* Every row that nobody else changed is as it was read, or will be read again.
Fits(s, t, a, rows, others) ==
  \A i \in Ids \ others :
    \/ s[i] \in rows <=> Wanted(s, t, i)
    \/ a.answer = "done" /\ a.id = i
    \/ \E r \in rows : r.id = i /\ r.status = "pending" /\ r.mail = "queued"

\* The tab's inductive invariant.
TabTypes ==
  /\ SentRows(sent) /\ tab \in {"pending", "all"}
  /\ load \in [state : {"idle", "sent", "served", "failed"}, rows : SUBSET TabRow, unseen : SUBSET Ids]
  /\ unseen \subseteq Ids

TabInv ==
  /\ TabTypes
  /\ ReadRows(sent, list) /\ ReadRows(sent, load.rows)
  /\ Dialogs(sent) /\ Calls(sent)
  /\ load.state = "idle" => Fits(sent, tab, act, list, unseen)
  /\ load.state = "served" => Fits(sent, tab, act, load.rows, load.unseen)

-----------------------------------------------------------------------------

\* One row is another.
Put(s, i, row) == [s EXCEPT ![i] = row]

LEMMA SentWith ==
  ASSUME NEW s, SentRows(s), NEW i \in Ids, NEW row \in AnyRow, row.id = i, row.status # "none"
  PROVE  /\ SentRows(Put(s, i, row)) /\ Put(s, i, row)[i] = row
         /\ \A j \in Ids \ {i} : Put(s, i, row)[j] = s[j]
         /\ \A j \in Ids : s[j].status # "none" => Put(s, i, row)[j].status # "none"
BY DEF SentRows, Put

LEMMA ReadRowsGrow ==
  ASSUME NEW s, NEW s2, NEW rows, ReadRows(s, rows),
         \A j \in Ids : s[j].status # "none" => s2[j].status # "none"
  PROVE  ReadRows(s2, rows)
BY DEF ReadRows, TabRow

LEMMA DialogsGrow ==
  ASSUME NEW s, NEW s2, Dialogs(s), TabAssumption,
         \A j \in Ids : s[j].status # "none" => s2[j].status # "none"
  PROVE  Dialogs(s2)
<1>1. selected # NoRow => selected.id \in Ids
  BY DEF Dialogs, TabRow
<1>2. revoking # 0 => revoking \in Ids
  BY DEF Dialogs, TabAssumption, Ids
<1> QED
  BY <1>1, <1>2 DEF Dialogs

LEMMA CallsGrow ==
  ASSUME NEW s, NEW s2, Calls(s),
         \A j \in Ids : s[j].status # "none" => s2[j].status # "none"
  PROVE  Calls(s2)
BY DEF Calls

\* The rows shown are those of Ids, so each of them is a row of the list's type.
LEMMA SentIsARow ==
  ASSUME NEW s, SentRows(s), NEW i \in Ids
  PROVE  /\ s[i] \in AnyRow /\ s[i].id = i
         /\ s[i].status # "none" => s[i] \in TabRow
         /\ s[i].status = "none" => s[i] \in {[NoRow EXCEPT !.id = j] : j \in Ids}
<1>1. s[i] \in AnyRow /\ s[i].id = i
  BY DEF SentRows
<1>2. ASSUME s[i].status # "none" PROVE s[i] \in TabRow
  BY <1>1, <1>2 DEF AnyRow, TabRow
<1>3. ASSUME s[i].status = "none" PROVE s[i] \in {[NoRow EXCEPT !.id = j] : j \in Ids}
  <2>1. s[i].mail = "queued" /\ s[i].sends = 1
    BY <1>3 DEF SentRows
  <2>2. [NoRow EXCEPT !.id = i] = [id |-> i, status |-> "none", mail |-> "queued", sends |-> 1]
    BY DEF NoRow
  <2>3. s[i] = [id |-> i, status |-> "none", mail |-> "queued", sends |-> 1]
    BY <1>1, <1>3, <2>1 DEF AnyRow
  <2> QED
    BY <2>2, <2>3
<1> QED
  BY <1>1, <1>2, <1>3

LEMMA NoRowIsNone == NoRow.id \notin Ids /\ NoRow.status = "none" /\ NoRow.id = 0 /\ 0 \notin Ids
BY DEF NoRow, Ids

LEMMA ReloadIs ==
  /\ Reload \in [state : {"idle", "sent", "served", "failed"}, rows : SUBSET TabRow, unseen : SUBSET Ids]
  /\ Reload.state = "sent" /\ Reload.rows = {} /\ Reload.unseen = {}
BY DEF Reload

LEMMA NoActIs ==
  /\ NoAct \in [kind : {"none", "resend", "revoke"}, id : 0..MaxSent, answer : {"none", "done", "refused"}]
  /\ NoAct.kind = "none" /\ NoAct.answer = "none"
BY TabAssumption DEF NoAct

LEMMA TabInitInv == TabInit => TabInv
<1> SUFFICES ASSUME TabInit PROVE TabInv
  OBVIOUS
<1>1. /\ sent = [i \in Ids |-> [id |-> i, status |-> IF i = 1 THEN "pending" ELSE "none",
                                mail |-> "queued", sends |-> 1]]
      /\ tab = "pending" /\ list = {} /\ load = Reload
      /\ selected = NoRow /\ revoking = 0 /\ act = NoAct /\ unseen = {}
  BY DEF TabInit
<1>2. SentRows(sent)
  <2>1. 1 \in 1..MaxResends + 1
    BY TabAssumption DEF TabAssumption
  <2>2. ASSUME NEW i \in Ids
        PROVE  /\ sent[i] \in AnyRow /\ sent[i].id = i
               /\ sent[i].status = "none" => sent[i].mail = "queued" /\ sent[i].sends = 1
    BY <1>1, <2>1, <2>2 DEF AnyRow
  <2>3. sent \in [Ids -> AnyRow]
    BY <1>1, <2>2
  <2> QED
    BY <2>2, <2>3 DEF SentRows
<1>3. TabTypes
  BY <1>1, <1>2, ReloadIs DEF TabTypes
<1>4. ReadRows(sent, list) /\ ReadRows(sent, load.rows)
  BY <1>1, ReloadIs DEF ReadRows
<1>5. Dialogs(sent)
  BY <1>1, TabAssumption DEF Dialogs, IdsOf, TabAssumption
<1>6. Calls(sent)
  BY <1>1, NoActIs DEF Calls
<1> QED
  BY <1>1, <1>3, <1>4, <1>5, <1>6, ReloadIs DEF TabInv

LEMMA TabInvImplies == TabInv => TabCatchesUp
<1> SUFFICES ASSUME TabInv PROVE TabCatchesUp
  OBVIOUS
<1>h. TabTypes /\ ReadRows(sent, list) /\ ReadRows(sent, load.rows) /\ Dialogs(sent) /\ Calls(sent)
  BY DEF TabInv
<1>1. TabTypeOK
  <2>1. sent \in [Ids -> TabRow \cup {[NoRow EXCEPT !.id = i] : i \in Ids}]
    <3>1. \A i \in Ids : sent[i] \in TabRow \cup {[NoRow EXCEPT !.id = j] : j \in Ids}
      BY <1>h, SentIsARow DEF TabTypes
    <3>2. sent \in [Ids -> AnyRow]
      BY <1>h DEF TabTypes, SentRows
    <3> QED
      BY <3>1, <3>2
  <2>2. /\ load.state \in {"idle", "sent", "served", "failed"}
        /\ load.rows \subseteq TabRow /\ load.unseen \subseteq Ids
    BY <1>h DEF TabTypes
  <2> QED
    BY <1>h, <2>1, <2>2 DEF TabTypeOK, TabTypes, ReadRows, Dialogs, Calls
<1>2. RowsSettle
  <2> SUFFICES ASSUME load.state = "idle", act = NoAct, ~AnySending(list), NEW i \in Ids \ unseen
               PROVE  sent[i] \in list <=> Wanted(sent, tab, i)
    BY DEF RowsSettle, Wanted
  <2>1. Fits(sent, tab, act, list, unseen)
    BY DEF TabInv
  <2>2. act.answer # "done"
    BY NoActIs
  <2> QED
    BY <2>1, <2>2 DEF Fits, AnySending
<1>3. WhatMovesIsWatched
  <2> SUFFICES ASSUME NEW r \in list \cup {selected}, EmailStage(r) = "active", r.id \in IdsOf(list)
               PROVE  AnySending(list)
    BY DEF WhatMovesIsWatched
  <2>1. r \in list
    BY <1>h DEF Dialogs
  <2>2. r \in TabRow
    BY <1>h, <2>1 DEF ReadRows
  <2>3. r.mail = "queued" /\ r.status = "pending"
    BY <2>2 DEF EmailStage, TabRow
  <2> QED
    BY <2>1, <2>3 DEF AnySending
<1> QED
  BY <1>1, <1>2, <1>3 DEF TabCatchesUp

-----------------------------------------------------------------------------

\* The dialog follows the rows of a list.
LEMMA InStepIs ==
  ASSUME NEW row, NEW rows, NEW s, ReadRows(s, rows),
         row \in TabRow \cup {NoRow}, row # NoRow => s[row.id].status # "none"
  PROVE  LET r == InStep(row, rows) IN
           /\ r \in TabRow \cup {NoRow} /\ r.id = row.id
           /\ r # NoRow => s[r.id].status # "none"
           /\ r.id \in IdsOf(rows) => r \in rows
<1>1. CASE row.id \in IdsOf(rows)
  <2>1. \E r \in rows : r.id = row.id
    BY <1>1 DEF IdsOf
  <2>2. InStep(row, rows) = CHOOSE r \in rows : r.id = row.id
    BY <1>1 DEF InStep
  <2>3. InStep(row, rows) \in rows /\ InStep(row, rows).id = row.id
    BY <2>1, <2>2
  <2> QED
    BY <2>3 DEF ReadRows
<1>2. CASE row.id \notin IdsOf(rows)
  BY <1>2 DEF InStep
<1> QED
  BY <1>1, <1>2

LEMMA TabStep ==
  ASSUME TabInv, [TabNext]_tabVars
  PROVE  TabInv'
<1>h. /\ TabTypes /\ ReadRows(sent, list) /\ ReadRows(sent, load.rows) /\ Dialogs(sent) /\ Calls(sent)
      /\ load.state = "idle" => Fits(sent, tab, act, list, unseen)
      /\ load.state = "served" => Fits(sent, tab, act, load.rows, load.unseen)
  BY DEF TabInv
<1>t. /\ SentRows(sent)
      /\ load \in [state : {"idle", "sent", "served", "failed"}, rows : SUBSET TabRow, unseen : SUBSET Ids]
  BY <1>h DEF TabTypes
\* A step that leaves the rows and what was read of them alone.
<1>1. ASSUME UNCHANGED <<sent, tab, list, load, unseen>>, Dialogs(sent)', Calls(sent)',
             act.answer = "done" => UNCHANGED act
      PROVE  TabInv'
  <2>1. TabTypes' /\ ReadRows(sent, list)' /\ ReadRows(sent, load.rows)'
    BY <1>h, <1>1 DEF TabTypes, SentRows, ReadRows
  <2>2. ASSUME load.state = "idle" PROVE Fits(sent, tab, act, list, unseen)'
    BY <1>h, <1>1, <2>2 DEF Fits, Wanted
  <2>3. ASSUME load.state = "served" PROVE Fits(sent, tab, act, load.rows, load.unseen)'
    BY <1>h, <1>1, <2>3 DEF Fits, Wanted
  <2> QED
    BY <1>1, <2>1, <2>2, <2>3 DEF TabInv
\* A step after which the list is fetched again, or was not fetched.
<1>2. ASSUME SentRows(sent'), \A j \in Ids : sent[j].status # "none" => sent'[j].status # "none",
             tab' \in {"pending", "all"}, UNCHANGED <<list, unseen>>, Dialogs(sent)', Calls(sent)',
             load' \in [state : {"sent", "failed"}, rows : {{}}, unseen : {{}}]
      PROVE  TabInv'
  <2>1. /\ load' \in [state : {"idle", "sent", "served", "failed"}, rows : SUBSET TabRow, unseen : SUBSET Ids]
        /\ load'.state \notin {"idle", "served"} /\ load'.rows = {}
    BY <1>2
  <2>2. TabTypes'
    BY <1>h, <1>2, <2>1 DEF TabTypes
  <2>3. ReadRows(sent', list)
    BY <1>h, <1>2, ReadRowsGrow
  <2>4. ReadRows(sent', load'.rows)
    BY <2>1 DEF ReadRows
  <2>5. ReadRows(sent, list)' /\ ReadRows(sent, load.rows)'
    BY <1>2, <2>3, <2>4
  <2> QED
    BY <1>2, <2>1, <2>2, <2>5 DEF TabInv
<1>3. ASSUME NEW i \in Ids, Delivered(i) PROVE TabInv'
  <2>1. /\ sent[i].status = "pending" /\ sent[i].mail = "queued"
        /\ UNCHANGED <<tab, list, load, selected, revoking, act, unseen>>
    BY <1>3 DEF Delivered
  <2>2. PICK m \in Reports : sent' = [sent EXCEPT ![i].mail = m]
    BY <1>3 DEF Delivered
  <2> DEFINE row == [sent[i] EXCEPT !.mail = m]
  <2>3. /\ row \in AnyRow /\ row.id = i /\ row.status = "pending" /\ sent' = Put(sent, i, row)
        /\ sent[i] \in AnyRow /\ sent[i].id = i
    BY <1>t, <2>1, <2>2, SentIsARow, TabAssumption DEF AnyRow, TabAssumption, Put
  <2> HIDE DEF row
  <2>4. /\ SentRows(sent') /\ sent'[i] = row /\ (\A j \in Ids \ {i} : sent'[j] = sent[j])
        /\ \A j \in Ids : sent[j].status # "none" => sent'[j].status # "none"
    BY <1>t, <2>3, SentWith
  <2>5. ReadRows(sent', list) /\ ReadRows(sent', load.rows) /\ Dialogs(sent') /\ Calls(sent')
    BY <1>h, <2>4, ReadRowsGrow, DialogsGrow, CallsGrow, TabAssumption
  <2>6. ASSUME NEW rows, NEW others, Fits(sent, tab, act, rows, others)
        PROVE  Fits(sent', tab, act, rows, others)
    <3> SUFFICES ASSUME NEW j \in Ids \ others
                 PROVE  \/ sent'[j] \in rows <=> Wanted(sent', tab, j)
                        \/ act.answer = "done" /\ act.id = j
                        \/ \E r \in rows : r.id = j /\ r.status = "pending" /\ r.mail = "queued"
      BY DEF Fits
    <3>1. \/ sent[j] \in rows <=> Wanted(sent, tab, j)
          \/ act.answer = "done" /\ act.id = j
          \/ \E r \in rows : r.id = j /\ r.status = "pending" /\ r.mail = "queued"
      BY <2>6 DEF Fits
    <3>2. CASE j = i
      BY <2>1, <2>3, <3>1, <3>2 DEF Wanted
    <3>3. CASE j # i
      BY <2>4, <3>1, <3>3 DEF Wanted
    <3> QED
      BY <3>2, <3>3
  <2>7. TabTypes'
    BY <1>h, <2>1, <2>4 DEF TabTypes
  <2>8. ReadRows(sent, list)' /\ ReadRows(sent, load.rows)'
    BY <2>1, <2>5
  <2>9. Dialogs(sent)' /\ Calls(sent)'
    BY <2>1, <2>5 DEF Dialogs, Calls
  <2>10. ASSUME load.state = "idle" PROVE Fits(sent, tab, act, list, unseen)'
    BY <1>h, <2>1, <2>6, <2>10
  <2>11. ASSUME load.state = "served" PROVE Fits(sent, tab, act, load.rows, load.unseen)'
    BY <1>h, <2>1, <2>6, <2>11
  <2> QED
    BY <2>1, <2>7, <2>8, <2>9, <2>10, <2>11 DEF TabInv
<1>4. ASSUME NEW i \in Ids, Concluded(i) PROVE TabInv'
  <2>1. /\ sent[i].status = "pending" /\ unseen' = unseen \cup {i}
        /\ load' = IF load.state = "served" THEN [load EXCEPT !.unseen = @ \cup {i}] ELSE load
        /\ UNCHANGED <<tab, list, selected, revoking, act>>
    BY <1>4 DEF Concluded, Unseen
  <2>2. PICK s \in Endings : sent' = [sent EXCEPT ![i].status = s]
    BY <1>4 DEF Concluded
  <2> DEFINE row == [sent[i] EXCEPT !.status = s]
  <2>3. /\ row \in AnyRow /\ row.id = i /\ row.status # "none" /\ sent' = Put(sent, i, row)
    BY <1>t, <2>1, <2>2, SentIsARow, TabAssumption DEF AnyRow, TabAssumption, Put
  <2> HIDE DEF row
  <2>4. /\ SentRows(sent') /\ (\A j \in Ids \ {i} : sent'[j] = sent[j])
        /\ \A j \in Ids : sent[j].status # "none" => sent'[j].status # "none"
    BY <1>t, <2>3, SentWith
  <2>5. ReadRows(sent', list) /\ ReadRows(sent', load.rows) /\ Dialogs(sent') /\ Calls(sent')
    BY <1>h, <2>4, ReadRowsGrow, DialogsGrow, CallsGrow, TabAssumption
  <2>6. ASSUME NEW rows, NEW others, Fits(sent, tab, act, rows, others)
        PROVE  Fits(sent', tab, act, rows, others \cup {i})
    BY <2>4, <2>6 DEF Fits, Wanted
  <2>7. /\ load' \in [state : {"idle", "sent", "served", "failed"}, rows : SUBSET TabRow, unseen : SUBSET Ids]
        /\ load'.state = load.state /\ load'.rows = load.rows
        /\ load.state = "served" => load'.unseen = load.unseen \cup {i}
    BY <1>t, <2>1
  <2>8. TabTypes'
    BY <1>h, <2>1, <2>4, <2>7 DEF TabTypes
  <2>9. ReadRows(sent, list)' /\ ReadRows(sent, load.rows)'
    BY <2>1, <2>5, <2>7
  <2>10. Dialogs(sent)' /\ Calls(sent)'
    BY <2>1, <2>5 DEF Dialogs, Calls
  <2>11. ASSUME load.state = "idle" PROVE Fits(sent, tab, act, list, unseen)'
    BY <1>h, <2>1, <2>6, <2>11
  <2>12. ASSUME load.state = "served" PROVE Fits(sent, tab, act, load.rows, load.unseen)'
    <3>1. Fits(sent', tab, act, load.rows, load.unseen \cup {i})
      BY <1>h, <2>6, <2>12
    <3> QED
      BY <2>1, <2>7, <2>12, <3>1
  <2> QED
    BY <2>7, <2>8, <2>9, <2>10, <2>11, <2>12 DEF TabInv
<1>5. ASSUME NEW i \in Ids, Invited(i) PROVE TabInv'
  <2>1. /\ sent' = [sent EXCEPT ![i].status = "pending"] /\ load' = Reload
        /\ UNCHANGED <<tab, list, selected, revoking, act, unseen>>
    BY <1>5 DEF Invited
  <2> DEFINE row == [sent[i] EXCEPT !.status = "pending"]
  <2>2. row \in AnyRow /\ row.id = i /\ row.status # "none" /\ sent' = Put(sent, i, row)
    BY <1>t, <2>1, SentIsARow DEF AnyRow, Put
  <2> HIDE DEF row
  <2>3. /\ SentRows(sent')
        /\ \A j \in Ids : sent[j].status # "none" => sent'[j].status # "none"
    BY <1>t, <2>2, SentWith
  <2>4. Dialogs(sent') /\ Calls(sent')
    BY <1>h, <2>3, DialogsGrow, CallsGrow, TabAssumption
  <2>5. Dialogs(sent)' /\ Calls(sent)'
    BY <2>1, <2>4 DEF Dialogs, Calls
  <2>6. tab' \in {"pending", "all"}
    BY <1>h, <2>1 DEF TabTypes
  <2> QED
    BY <1>2, <2>1, <2>3, <2>5, <2>6 DEF Reload
<1>6. CASE ServeAct
  <2> DEFINE i == act.id
  <2>1. /\ act.kind # "none" /\ act.answer = "none"
        /\ UNCHANGED <<tab, list, load, selected, revoking, unseen>>
    BY <1>6 DEF ServeAct
  <2>2. i \in Ids /\ sent[i].status # "none"
    BY <1>h, <2>1 DEF Calls
  <2>3. CASE UNCHANGED sent /\ act' = [act EXCEPT !.answer = "refused"]
    <3>1. Dialogs(sent)'
      BY <1>h, <2>1, <2>3 DEF Dialogs
    <3>2. act'.kind = act.kind /\ act'.id = act.id
          /\ act' \in [kind : {"none", "resend", "revoke"}, id : 0..MaxSent, answer : {"none", "done", "refused"}]
      BY <1>h, <2>3 DEF Calls
    <3>3. Calls(sent)'
      BY <1>h, <2>1, <2>3, <3>2 DEF Calls
    <3> QED
      BY <1>1, <2>1, <2>3, <3>1, <3>3
  <2>4. ASSUME NEW row \in AnyRow, row.id = i, row.status # "none", sent' = Put(sent, i, row),
               act' = [act EXCEPT !.answer = "done"]
        PROVE  TabInv'
    <3>1. /\ SentRows(sent') /\ (\A j \in Ids \ {i} : sent'[j] = sent[j])
          /\ \A j \in Ids : sent[j].status # "none" => sent'[j].status # "none"
      BY <1>t, <2>2, <2>4, SentWith
    <3>2. ReadRows(sent', list) /\ ReadRows(sent', load.rows) /\ Dialogs(sent') /\ Calls(sent')
      BY <1>h, <3>1, ReadRowsGrow, DialogsGrow, CallsGrow, TabAssumption
    <3>3. act'.kind = act.kind /\ act'.id = act.id /\ act'.answer = "done"
          /\ act' \in [kind : {"none", "resend", "revoke"}, id : 0..MaxSent, answer : {"none", "done", "refused"}]
      BY <1>h, <2>4 DEF Calls
    <3>4. ASSUME NEW rows, NEW others, Fits(sent, tab, act, rows, others)
          PROVE  Fits(sent', tab, act', rows, others)
      BY <2>1, <3>1, <3>3, <3>4 DEF Fits, Wanted
    <3>5. TabTypes'
      BY <1>h, <2>1, <3>1 DEF TabTypes
    <3>6. ReadRows(sent, list)' /\ ReadRows(sent, load.rows)'
      BY <2>1, <3>2
    <3>7. Dialogs(sent)'
      BY <2>1, <3>2 DEF Dialogs
    <3>8. Calls(sent)'
      BY <2>1, <2>2, <3>1, <3>3 DEF Calls
    <3>9. ASSUME load.state = "idle" PROVE Fits(sent, tab, act, list, unseen)'
      BY <1>h, <2>1, <3>4, <3>9
    <3>10. ASSUME load.state = "served" PROVE Fits(sent, tab, act, load.rows, load.unseen)'
      BY <1>h, <2>1, <3>4, <3>10
    <3> QED
      BY <2>1, <3>5, <3>6, <3>7, <3>8, <3>9, <3>10 DEF TabInv
  <2>5. sent[i] \in AnyRow /\ sent[i].id = i
    BY <1>t, <2>2, SentIsARow
  <2>6. CASE /\ sent[i].sends <= MaxResends /\ act' = [act EXCEPT !.answer = "done"]
             /\ sent' = [sent EXCEPT ![i] = [sent[i] EXCEPT !.status = "pending", !.mail = "queued",
                                                           !.sends = sent[i].sends + 1]]
    <3> DEFINE row == [sent[i] EXCEPT !.status = "pending", !.mail = "queued", !.sends = sent[i].sends + 1]
    <3>1. sent[i].sends + 1 \in 1..MaxResends + 1
      BY <2>5, <2>6, TabAssumption DEF AnyRow, TabAssumption
    <3>2. row \in AnyRow /\ row.id = i /\ row.status # "none"
      BY <2>5, <3>1 DEF AnyRow
    <3>3. sent' = Put(sent, i, row)
      BY <2>6 DEF Put
    <3> HIDE DEF row
    <3> QED
      BY <2>4, <2>6, <3>2, <3>3
  <2>7. CASE sent' = [sent EXCEPT ![i].status = "revoked"] /\ act' = [act EXCEPT !.answer = "done"]
    <3> DEFINE row == [sent[i] EXCEPT !.status = "revoked"]
    <3>1. row \in AnyRow /\ row.id = i /\ row.status # "none" /\ sent' = Put(sent, i, row)
      BY <2>5, <2>7 DEF AnyRow, Put
    <3> HIDE DEF row
    <3> QED
      BY <2>4, <2>7, <3>1
  <2> QED
    BY <1>6, <2>3, <2>6, <2>7 DEF ServeAct
<1>7. CASE ServePage
  <2> DEFINE shown == {i \in Ids : Wanted(sent, tab, i)}
             read == {sent[i] : i \in shown}
  <2>1. /\ load' = [state |-> "served", rows |-> read, unseen |-> {}]
        /\ UNCHANGED <<sent, tab, list, selected, revoking, act, unseen>>
    BY <1>7 DEF ServePage, Wanted
  <2>2. ASSUME NEW i \in Ids
        PROVE  /\ sent[i].id = i
               /\ Wanted(sent, tab, i) => sent[i].status # "none" /\ sent[i] \in TabRow
    BY <1>t, SentIsARow DEF Wanted
  <2>3. ReadRows(sent, read)
    BY <2>2 DEF ReadRows
  <2>4. Fits(sent, tab, act, read, {})
    BY <2>2 DEF Fits
  <2>5. read \subseteq TabRow
    BY <2>3 DEF ReadRows
  <2> HIDE DEF read
  <2>6. /\ load' \in [state : {"idle", "sent", "served", "failed"}, rows : SUBSET TabRow, unseen : SUBSET Ids]
        /\ load'.state = "served" /\ load'.rows = read /\ load'.unseen = {}
    BY <2>1, <2>5
  <2>7. TabTypes'
    BY <1>h, <2>1, <2>6 DEF TabTypes
  <2>8. ReadRows(sent, list)' /\ ReadRows(sent, load.rows)'
    BY <1>h, <2>1, <2>3, <2>6
  <2>9. Dialogs(sent)' /\ Calls(sent)'
    BY <1>h, <2>1 DEF Dialogs, Calls
  <2>10. Fits(sent, tab, act, load.rows, load.unseen)'
    BY <2>1, <2>4, <2>6
  <2> QED
    BY <2>6, <2>7, <2>8, <2>9, <2>10 DEF TabInv
<1>8. CASE PageArrived
  <2>1. /\ load.state = "served" /\ list' = load.rows /\ selected' = InStep(selected, load.rows)
        /\ load' = [Reload EXCEPT !.state = "idle"] /\ unseen' = load.unseen
        /\ UNCHANGED <<sent, tab, revoking, act>>
    BY <1>8 DEF PageArrived
  <2>2. /\ load' \in [state : {"idle", "sent", "served", "failed"}, rows : SUBSET TabRow, unseen : SUBSET Ids]
        /\ load'.state = "idle" /\ load'.rows = {}
    BY <2>1 DEF Reload
  <2>3. TabTypes'
    BY <1>h, <1>t, <2>1, <2>2 DEF TabTypes
  <2>4. ReadRows(sent, {})
    BY DEF ReadRows
  <2>5. ReadRows(sent, list)' /\ ReadRows(sent, load.rows)'
    BY <1>h, <2>1, <2>2, <2>4
  <2>6. LET r == InStep(selected, load.rows) IN
          /\ r \in TabRow \cup {NoRow} /\ (r # NoRow => sent[r.id].status # "none")
          /\ r.id \in IdsOf(load.rows) => r \in load.rows
    BY <1>h, InStepIs DEF Dialogs
  <2>7. Dialogs(sent)' /\ Calls(sent)'
    <3> DEFINE r == InStep(selected, load.rows)
    <3>1. r \in TabRow \cup {NoRow} /\ (r # NoRow => sent[r.id].status # "none")
      BY <2>6
    <3>2. r.id \in IdsOf(load.rows) => r \in load.rows
      BY <2>6
    <3>3. selected' = r
      BY <2>1
    <3> HIDE DEF r
    <3> QED
      BY <1>h, <2>1, <3>1, <3>2, <3>3 DEF Dialogs, Calls
  <2>8. Fits(sent, tab, act, list, unseen)'
    BY <1>h, <2>1
  <2> QED
    BY <2>2, <2>3, <2>5, <2>7, <2>8 DEF TabInv
<1>9. CASE LoadFails \/ RefreshTimer
  <2>1. /\ load' \in [state : {"sent", "failed"}, rows : {{}}, unseen : {{}}]
        /\ UNCHANGED <<sent, tab, list, selected, revoking, act, unseen>>
    BY <1>9 DEF LoadFails, RefreshTimer, Reload
  <2>2. Dialogs(sent)' /\ Calls(sent)' /\ tab' \in {"pending", "all"}
    BY <1>h, <2>1 DEF Dialogs, Calls, TabTypes
  <2> QED
    BY <1>2, <1>t, <2>1, <2>2
<1>10. ASSUME NEW t \in {"pending", "all"}, ChooseTab(t) PROVE TabInv'
  <2>1. /\ tab' = t /\ load' = Reload
        /\ UNCHANGED <<sent, list, selected, revoking, act, unseen>>
    BY <1>10 DEF ChooseTab
  <2>2. Dialogs(sent)' /\ Calls(sent)'
    BY <1>h, <2>1 DEF Dialogs, Calls
  <2> QED
    BY <1>2, <1>t, <1>10, <2>1, <2>2 DEF Reload
<1>11. ASSUME NEW r \in list, Select(r) PROVE TabInv'
  <2>1. selected' = r /\ UNCHANGED <<sent, tab, list, load, revoking, act, unseen>>
    BY <1>11 DEF Select
  <2>2. r \in TabRow /\ sent[r.id].status # "none"
    BY <1>h, <1>11 DEF ReadRows
  <2>3. Dialogs(sent)' /\ Calls(sent)'
    BY <1>h, <1>11, <2>1, <2>2 DEF Dialogs, Calls
  <2> QED
    BY <1>1, <2>1, <2>3
<1>12. CASE Unselect \/ CancelRevoke
  <2>1. /\ (selected' = selected \/ selected' = NoRow) /\ (revoking' = revoking \/ revoking' = 0)
        /\ UNCHANGED <<sent, tab, list, load, act, unseen>>
    BY <1>12 DEF Unselect, CancelRevoke
  <2>2. NoRow.id \notin IdsOf(list)
    BY <1>h, NoRowIsNone DEF ReadRows, IdsOf, TabRow
  <2>3. Dialogs(sent)'
    BY <1>h, <2>1, <2>2, TabAssumption DEF Dialogs, TabAssumption
  <2>4. Calls(sent)'
    BY <1>h, <2>1 DEF Calls
  <2> QED
    BY <1>1, <2>1, <2>3, <2>4
<1>13. ASSUME NEW r \in list \cup {selected}, r.status = "pending" \/ r.status = "expired"
       PROVE  r.id \in Ids /\ sent[r.id].status # "none"
  <2>1. r # NoRow
    BY <1>13, NoRowIsNone
  <2> QED
    BY <1>h, <1>13, <2>1 DEF ReadRows, Dialogs, TabRow
<1>14. ASSUME NEW r \in list \cup {selected}, Resend(r) PROVE TabInv'
  <2>1. /\ act = NoAct /\ r.status \in {"pending", "expired"}
        /\ act' = [kind |-> "resend", id |-> r.id, answer |-> "none"]
        /\ UNCHANGED <<sent, tab, list, load, selected, revoking, unseen>>
    BY <1>14 DEF Resend
  <2>2. r.id \in Ids /\ sent[r.id].status # "none"
    BY <1>13, <2>1
  <2>3. Dialogs(sent)'
    BY <1>h, <2>1 DEF Dialogs
  <2>4. Calls(sent)'
    BY <2>1, <2>2 DEF Calls, Ids
  <2>5. act.answer # "done"
    BY <2>1, NoActIs
  <2> QED
    BY <1>1, <2>1, <2>3, <2>4, <2>5
<1>15. ASSUME NEW r \in list \cup {selected}, AskRevoke(r) PROVE TabInv'
  <2>1. /\ r.status = "pending" /\ revoking' = r.id
        /\ UNCHANGED <<sent, tab, list, load, selected, act, unseen>>
    BY <1>15 DEF AskRevoke
  <2>2. r.id \in Ids /\ sent[r.id].status # "none"
    BY <1>13, <2>1
  <2>3. Dialogs(sent)' /\ Calls(sent)'
    BY <1>h, <2>1, <2>2 DEF Dialogs, Calls, Ids
  <2> QED
    BY <1>1, <2>1, <2>3
<1>16. CASE ConfirmRevoke
  <2>1. /\ revoking # 0 /\ act = NoAct /\ act' = [kind |-> "revoke", id |-> revoking, answer |-> "none"]
        /\ UNCHANGED <<sent, tab, list, load, selected, revoking, unseen>>
    BY <1>16 DEF ConfirmRevoke
  <2>2. revoking \in Ids /\ sent[revoking].status # "none" /\ revoking \in 0..MaxSent
    BY <1>h, <2>1, TabAssumption DEF Dialogs, Ids, TabAssumption
  <2>3. Dialogs(sent)'
    BY <1>h, <2>1 DEF Dialogs
  <2>4. Calls(sent)'
    BY <2>1, <2>2 DEF Calls
  <2>5. act.answer # "done"
    BY <2>1, NoActIs
  <2> QED
    BY <1>1, <2>1, <2>3, <2>4, <2>5
<1>17. CASE Acted
  <2>1. /\ act.answer = "done" /\ act' = NoAct /\ load' = Reload
        /\ UNCHANGED <<sent, tab, list, unseen>>
    BY <1>17 DEF Acted
  <2>2. act.kind # "none"
    BY <1>h, <2>1, NoActIs DEF Calls
  <2>3. act.id \in Ids /\ sent[act.id].status # "none" /\ sent[act.id] \in TabRow
    BY <1>h, <1>t, <2>2, SentIsARow DEF Calls
  <2>4. LET r == InStep(sent[act.id], list) IN
          /\ r \in TabRow \cup {NoRow} /\ (r # NoRow => sent[r.id].status # "none")
          /\ r.id \in IdsOf(list) => r \in list
    <3>1. sent[act.id].id = act.id
      BY <1>t, <2>3, SentIsARow
    <3> QED
      BY <1>h, <2>3, <3>1, InStepIs
  <2>5. NoRow.id \notin IdsOf(list)
    BY <1>h, NoRowIsNone DEF ReadRows, IdsOf, TabRow
  <2>6. CASE selected' = NoRow /\ revoking' = 0
    <3>1. Dialogs(sent)'
      BY <2>1, <2>5, <2>6, TabAssumption DEF Dialogs, TabAssumption
    <3> QED
      BY <1>2, <1>t, <1>h, <2>1, <3>1, NoActIs DEF Reload, Calls, TabTypes
  <2>7. CASE (selected' = selected \/ selected' = InStep(sent[act.id], list)) /\ UNCHANGED revoking
    <3>1. Dialogs(sent)'
      <4> DEFINE r == InStep(sent[act.id], list)
      <4>1. r \in TabRow \cup {NoRow} /\ (r # NoRow => sent[r.id].status # "none")
        BY <2>4
      <4>2. r.id \in IdsOf(list) => r \in list
        BY <2>4
      <4>3. selected' = selected \/ selected' = r
        BY <2>7
      <4> HIDE DEF r
      <4> QED
        BY <1>h, <2>1, <2>7, <4>1, <4>2, <4>3 DEF Dialogs
    <3> QED
      BY <1>2, <1>t, <1>h, <2>1, <3>1, NoActIs DEF Reload, Calls, TabTypes
  <2> QED
    BY <1>17, <2>6, <2>7 DEF Acted
<1>18. CASE ActFails
  <2>1. act' = NoAct /\ UNCHANGED <<sent, tab, list, selected, revoking>>
    BY <1>18 DEF ActFails
  <2>2. Dialogs(sent)' /\ Calls(sent)'
    BY <1>h, <2>1, NoActIs DEF Dialogs, Calls
  <2>3. CASE act.answer # "done"
    <3>1. UNCHANGED <<load, unseen>>
      BY <1>18, <2>3 DEF ActFails
    <3> QED
      BY <1>1, <2>1, <2>2, <2>3, <3>1
  <2>4. CASE act.answer = "done"
    <3> DEFINE i == act.id
    <3>1. /\ unseen' = unseen \cup {i}
          /\ load' = IF load.state = "served" THEN [load EXCEPT !.unseen = @ \cup {i}] ELSE load
      BY <1>18, <2>4 DEF ActFails, Unseen
    <3>2. i \in Ids
      BY <1>h, <2>4, NoActIs DEF Calls
    <3> HIDE DEF i
    <3>3. ASSUME NEW rows, NEW others, Fits(sent, tab, act, rows, others)
          PROVE  Fits(sent, tab, NoAct, rows, others \cup {i})
      BY <3>3 DEF Fits, i
    <3>4. /\ load' \in [state : {"idle", "sent", "served", "failed"}, rows : SUBSET TabRow, unseen : SUBSET Ids]
          /\ load'.state = load.state /\ load'.rows = load.rows
          /\ load.state = "served" => load'.unseen = load.unseen \cup {i}
      BY <1>t, <3>1, <3>2
    <3>5. TabTypes'
      BY <1>h, <2>1, <3>1, <3>2, <3>4 DEF TabTypes
    <3>6. ReadRows(sent, list)' /\ ReadRows(sent, load.rows)'
      BY <1>h, <2>1, <3>4
    <3>7. ASSUME load.state = "idle" PROVE Fits(sent, tab, act, list, unseen)'
      BY <1>h, <2>1, <3>1, <3>3, <3>7
    <3>8. ASSUME load.state = "served" PROVE Fits(sent, tab, act, load.rows, load.unseen)'
      <4>1. Fits(sent, tab, NoAct, load.rows, load.unseen \cup {i})
        BY <1>h, <3>3, <3>8
      <4> QED
        BY <2>1, <3>4, <3>8, <4>1
    <3> QED
      BY <2>2, <3>4, <3>5, <3>6, <3>7, <3>8 DEF TabInv
  <2> QED
    BY <2>3, <2>4
<1>19. CASE UNCHANGED tabVars
  <2>1. UNCHANGED <<sent, tab, list, load, selected, revoking, act, unseen>>
    BY <1>19 DEF tabVars
  <2>2. Dialogs(sent)' /\ Calls(sent)'
    BY <1>h, <2>1 DEF Dialogs, Calls
  <2> QED
    BY <1>1, <2>1, <2>2
<1> QED
  BY <1>3, <1>4, <1>5, <1>6, <1>7, <1>8, <1>9, <1>10, <1>11, <1>12, <1>14, <1>15, <1>16, <1>17,
     <1>18, <1>19 DEF TabNext

\* The list of invitations comes to rest only when it is right (InvitationsTab.tsx),
\* for any number of invitations, whatever others do to them.
THEOREM TabAlwaysCatchesUp == TabSpec => []TabCatchesUp
<1>1. TabInit => TabInv
  BY TabInitInv
<1>2. TabInv /\ [TabNext]_tabVars => TabInv'
  BY TabStep
<1>3. TabInv => TabCatchesUp
  BY TabInvImplies
<1> QED
  BY <1>1, <1>2, <1>3, PTL DEF TabSpec

-----------------------------------------------------------------------------
-----------------------------------------------------------------------------
(* The page behind a link.  What is said of calls holds whatever links were   *)
(* opened; what is said of what is seen, as long as they have not crossed:    *)
(* then there is one call at a time.                                         *)

\* What is said of a call before it is seen whether links crossed: only whom the
\* link was sent to joins by it.
Real(c) ==
  c.op \in {"accept", "signup"} /\ c.reply = "done" =>
    /\ admitted[c.link] = Invitee[c.link]
    /\ c.op = "accept" => c.as = Invitee[c.link]

\* What a look at a link answers is what the link finds.
Looks(c) == c.op \in {"preview", "reread"} => c.reply \in Statuses \cup {"none", "broken"}

General ==
  /\ AcceptTypeOK /\ BusyIsTrue
  /\ at.load = "ready" => at.shown \in Links
  /\ at.joined # NoLink => admitted[at.joined] = Invitee[at.joined]
  /\ \A c \in underway : Real(c) /\ Looks(c)

\* The invited address has no account, or the invitation is over.
Free(l) == Invitee[l] \notin accounts \/ linkState[l] # "pending"

\* The call of a page whose links have not crossed.
Mine(c) ==
  /\ c.link = at.token /\ c.seen = c.link /\ at.joined = NoLink
  /\ c.reply = "refused" => c.op \in {"accept", "signup"} /\ linkState[c.link] # "pending"
  /\ c.op = "preview" =>
       /\ at.load = "loading" /\ at.viewer = "checking" /\ at.step = 0
       /\ c.reply = "pending" /\ ~c.exists => Free(c.link)
  /\ c.op = "me" =>
       /\ c.as = signedIn /\ at.load = "ready"
       /\ at.viewer = "checking" \/ at.status # "pending"
  /\ c.op = "accept" => c.as = signedIn /\ at.viewer \in {"match", "out"}
  /\ c.op \in {"login", "signup"} => at.viewer = "out"
  /\ c.op = "signup" => Free(c.link)
  /\ c.op = "reread" => linkState[c.link] # "pending" /\ c.reply # "pending"

Straight ==
  /\ \A c, d \in underway : c = d
  /\ at.load = "ready" => at.shown = at.token
  /\ at.viewer = "match" => signedIn = Invitee[at.token]
  /\ at.joined # NoLink =>
       underway = {} /\ at.step = 2 /\ at.joined = at.token /\ signedIn = Invitee[at.joined]
  /\ at.load = "ready" /\ at.status = "pending" /\ ~at.exists => Free(at.token)
  /\ \A c \in underway : Mine(c)

\* The page's inductive invariant.
AcceptInv == General /\ (~crossed => Straight)

Pages == [token : Links \cup {NoLink}, load : {"loading", "missing", "invalid", "ready"},
          shown : Links \cup {NoLink}, status : Statuses, exists : BOOLEAN,
          viewer : {"checking", "match", "other", "out"}, step : 0..2,
          joined : Links \cup {NoLink}, busy : BOOLEAN]

Replies == Statuses \cup {"none", "done", "refused", "forbidden", "broken"}

-----------------------------------------------------------------------------

LEMMA CallWith ==
  ASSUME NEW c \in Call, NEW r \in Replies, NEW e \in BOOLEAN
  PROVE  LET b == [c EXCEPT !.reply = r, !.exists = e] IN
           /\ b \in Call /\ b.op = c.op /\ b.visit = c.visit /\ b.link = c.link /\ b.seen = c.seen
           /\ b.as = c.as /\ b.reply = r /\ b.exists = e
BY DEF Call, Replies

LEMMA CallBecomes ==
  ASSUME NEW c \in Call, NEW o \in {"accept", "reread"}
  PROVE  LET b == [c EXCEPT !.op = o, !.reply = "none"] IN
           /\ b \in Call /\ b.op = o /\ b.link = c.link /\ b.seen = c.seen
           /\ b.as = c.as /\ b.reply = "none"
BY DEF Call, Handled, Accepting

LEMMA CallToIs ==
  ASSUME NEW o \in Handled \cup {"preview", "me"}, visit \in 0..MaxVisits, NEW l \in Links,
         NEW s \in Links, NEW g \in Guests \cup {NoOne}
  PROVE  LET b == CallTo(o, l, s, g) IN
           /\ b \in Call /\ b.op = o /\ b.link = l /\ b.seen = s
           /\ b.as = g /\ b.reply = "none"
BY DEF CallTo, Call

LEMMA JoinerIs ==
  ASSUME AcceptTypeOK, NEW c \in Call, c.op \in {"accept", "signup"}
  PROVE  /\ Joiner(c) \in {NoOne, Invitee[c.link]} /\ Invitee[c.link] \in Guests
         /\ Joiner(c) # NoOne =>
              /\ linkState[c.link] = "pending" /\ Joiner(c) = Invitee[c.link]
              /\ c.op = "accept" => c.as = Invitee[c.link]
         /\ Joiner(c) = NoOne =>
              \/ linkState[c.link] # "pending"
              \/ c.op = "accept" /\ c.as # Invitee[c.link]
              \/ c.op = "signup" /\ Invitee[c.link] \in accounts
<1>1. Invitee[c.link] \in Guests /\ NoOne \notin Guests
  BY AcceptPageAssumption DEF AcceptPageAssumption, Call
<1> QED
  BY <1>1 DEF Joiner

LEMMA AnswerIs ==
  ASSUME AcceptTypeOK, NEW c \in Call
  PROVE  /\ AnswerTo(c) \in Replies /\ AnswerTo(c) # "none"
         /\ c.op \in {"preview", "reread"} => AnswerTo(c) = linkState[c.link]
         /\ c.op \notin {"accept", "signup", "preview", "reread"} => AnswerTo(c) # "refused"
         /\ c.op \in {"accept", "signup"} =>
              /\ AnswerTo(c) = "done" => Joiner(c) # NoOne
              /\ AnswerTo(c) = "refused" =>
                   Joiner(c) = NoOne /\ (c.op = "accept" => c.as = Invitee[c.link] \/ linkState[c.link] = "unknown")
<1>0. c.op \in {"login", "accept", "signup", "reread", "preview", "me"} /\ c.link \in Links
  BY DEF Call, Handled, Accepting
<1>l. linkState[c.link] \in Statuses
  BY <1>0 DEF AcceptTypeOK
<1>1. CASE c.op \in {"preview", "reread"}
  BY <1>l, <1>1 DEF AnswerTo, Replies, Statuses
<1>2. CASE c.op = "me"
  BY <1>2 DEF AnswerTo, Replies, Statuses
<1>3. CASE c.op = "login"
  BY <1>3 DEF AnswerTo, Replies, Statuses
<1>4. CASE c.op \in {"accept", "signup"}
  <2>1. CASE c.op = "accept" /\ linkState[c.link] # "unknown" /\ c.as # Invitee[c.link]
    BY <1>4, <2>1 DEF AnswerTo, Replies
  <2>2. CASE ~(c.op = "accept" /\ linkState[c.link] # "unknown" /\ c.as # Invitee[c.link])
    <3>1. AnswerTo(c) = IF Joiner(c) = NoOne THEN "refused" ELSE "done"
      BY <1>4, <2>2 DEF AnswerTo
    <3> QED
      BY <1>4, <2>2, <3>1 DEF Replies
  <2> QED
    BY <2>1, <2>2
<1> QED
  BY <1>0, <1>1, <1>2, <1>3, <1>4

\* What Show leaves of a page and its calls.
LEMMA ShowIs ==
  ASSUME NEW c \in Call, c.reply # "none", Looks(c), c.op \in {"preview", "reread"},
         NEW others, NEW page \in Pages, Show(c, others, page)
  PROVE  /\ at' \in Pages /\ at'.token = page.token /\ at'.step = page.step
         /\ at'.joined = page.joined /\ at'.busy = page.busy
         /\ \/ /\ at'.load = "invalid" /\ at'.viewer = page.viewer /\ underway' = others
            \/ /\ at'.load = "ready" /\ at'.shown = c.link /\ at'.status = c.reply
               /\ at'.exists = c.exists /\ at'.viewer = "out" /\ underway' = others
            \/ /\ at'.load = "ready" /\ at'.shown = c.link /\ at'.status = c.reply
               /\ at'.exists = c.exists /\ at'.viewer = page.viewer
               /\ underway' = others \cup {CallTo("me", c.link, c.link, signedIn)}
<1>1. CASE c.reply \in {"broken", "unknown"}
  <2>1. at' = [page EXCEPT !.load = "invalid"] /\ underway' = others
    BY <1>1 DEF Show
  <2> QED
    BY <2>1 DEF Pages
<1>2. CASE c.reply \notin {"broken", "unknown"}
  <2> DEFINE shown == [page EXCEPT !.load = "ready", !.shown = c.link, !.status = c.reply,
                                   !.exists = c.exists]
  <2>1. c.reply \in Statuses /\ c.link \in Links /\ c.exists \in BOOLEAN
    BY <1>2 DEF Looks, Call
  <2>2. /\ shown \in Pages /\ shown.load = "ready" /\ shown.shown = c.link /\ shown.status = c.reply
        /\ shown.exists = c.exists /\ shown.viewer = page.viewer /\ shown.token = page.token
        /\ shown.step = page.step /\ shown.joined = page.joined /\ shown.busy = page.busy
    BY <2>1 DEF Pages
  <2>3. IF signedIn = NoOne
        THEN at' = [shown EXCEPT !.viewer = "out"] /\ underway' = others
        ELSE at' = shown /\ underway' = others \cup {CallTo("me", c.link, c.link, signedIn)}
    BY <1>2 DEF Show
  <2> HIDE DEF shown
  <2>4. CASE signedIn = NoOne
    <3>1. at' = [shown EXCEPT !.viewer = "out"] /\ underway' = others
      BY <2>3, <2>4
    <3>2. /\ at' \in Pages /\ at'.load = "ready" /\ at'.shown = c.link /\ at'.status = c.reply
          /\ at'.exists = c.exists /\ at'.viewer = "out" /\ at'.token = page.token
          /\ at'.step = page.step /\ at'.joined = page.joined /\ at'.busy = page.busy
      BY <2>2, <3>1 DEF Pages
    <3> QED
      BY <3>1, <3>2
  <2>5. CASE signedIn # NoOne
    BY <2>2, <2>3, <2>5
  <2> QED
    BY <2>4, <2>5
<1> QED
  BY <1>1, <1>2

LEMMA AcceptInitInv == AcceptInit => AcceptInv
<1> SUFFICES ASSUME AcceptInit PROVE AcceptInv
  OBVIOUS
<1>1. /\ linkState = [l \in Links |-> "pending"] /\ accounts \in SUBSET Guests
      /\ admitted = [l \in Links |-> NoOne] /\ signedIn \in accounts \cup {NoOne}
      /\ visit = 0 /\ at = BlankPage /\ underway = {} /\ crossed = FALSE
  BY DEF AcceptInit
<1>2. /\ BlankPage \in Pages /\ BlankPage.step = 0 /\ BlankPage.joined = NoLink /\ BlankPage.busy = FALSE
      /\ BlankPage.load = "loading" /\ BlankPage.viewer = "checking"
  BY DEF BlankPage, Pages, Statuses
<1>3. linkState \in [Links -> Statuses] /\ admitted \in [Links -> Guests \cup {NoOne}]
  BY <1>1 DEF Statuses
<1>4. visit \in 0..MaxVisits /\ signedIn \in Guests \cup {NoOne}
  BY <1>1, AcceptPageAssumption DEF AcceptPageAssumption
<1>5. AcceptTypeOK
  <2>1. at \in Pages /\ (at.step = 1 => at.load \in {"ready", "invalid"})
    BY <1>1, <1>2
  <2>2. accounts \subseteq Guests /\ underway \subseteq Call /\ crossed \in BOOLEAN
    BY <1>1
  <2> QED
    BY <1>3, <1>4, <2>1, <2>2 DEF AcceptTypeOK, Pages
<1>6. BusyIsTrue
  BY <1>1, <1>2 DEF BusyIsTrue
<1> QED
  BY <1>1, <1>2, <1>5, <1>6 DEF AcceptInv, General, Straight

LEMMA AcceptInvImplies == AcceptInv => AcceptanceIsHonest
<1> SUFFICES ASSUME AcceptInv PROVE AcceptanceIsHonest
  OBVIOUS
<1>1. General /\ (~crossed => Straight)
  BY DEF AcceptInv
<1>2. JoinedIsReal
  BY <1>1 DEF JoinedIsReal, General, Straight
<1>3. OneAcceptsWhatOneSees
  BY <1>1 DEF OneAcceptsWhatOneSees, Straight, Mine
<1> QED
  BY <1>1, <1>2, <1>3 DEF AcceptanceIsHonest, General

-----------------------------------------------------------------------------
\* The calls the buttons wait for.

HandledIn(u) == {c \in u : c.op \in Handled}
Single(u) == \A c, d \in HandledIn(u) : c = d
Swap(u, c, d) == (u \ {c}) \cup {d}

LEMMA BusyIs == BusyIsTrue <=> (at.busy <=> HandledIn(underway) # {}) /\ Single(underway)
BY DEF BusyIsTrue, HandledIn, Single

LEMMA SwapHandled ==
  ASSUME NEW u, NEW c \in u, NEW d, d.op \in Handled <=> c.op \in Handled, Single(u)
  PROVE  Single(Swap(u, c, d)) /\ (HandledIn(Swap(u, c, d)) # {} <=> HandledIn(u) # {})
BY DEF Single, Swap, HandledIn

LEMMA DropHandled ==
  ASSUME NEW u, NEW c \in u, c.op \in Handled, Single(u)
  PROVE  HandledIn(u \ {c}) = {} /\ Single(u \ {c})
BY DEF Single, HandledIn

LEMMA DropOther ==
  ASSUME NEW u, NEW c \in u, c.op \notin Handled
  PROVE  HandledIn(u \ {c}) = HandledIn(u)
BY DEF HandledIn

LEMMA AddOther ==
  ASSUME NEW u, NEW c, c.op \notin Handled
  PROVE  HandledIn(u \cup {c}) = HandledIn(u)
BY DEF HandledIn

LEMMA AddHandled ==
  ASSUME NEW u, NEW c, c.op \in Handled, HandledIn(u) = {}
  PROVE  HandledIn(u \cup {c}) = {c} /\ Single(u \cup {c})
BY DEF HandledIn, Single

LEMMA HandledOps == {"login", "accept", "signup", "reread"} = Handled
BY DEF Handled, Accepting

\* What types there are besides the page's and the calls'.
Surroundings ==
  /\ linkState \in [Links -> Statuses] /\ accounts \subseteq Guests
  /\ admitted \in [Links -> Guests \cup {NoOne}] /\ signedIn \in Guests \cup {NoOne}
  /\ visit \in 0..MaxVisits /\ crossed \in BOOLEAN

PageIs ==
  /\ at \in Pages
  /\ at.step = 1 => at.load \in {"ready", "invalid"}
  /\ at.load = "ready" => at.shown \in Links
  /\ at.joined # NoLink => admitted[at.joined] = Invitee[at.joined]

CallsAre == underway \subseteq Call /\ \A c \in underway : Real(c) /\ Looks(c)

LEMMA GeneralIs == General <=> Surroundings /\ PageIs /\ CallsAre /\ BusyIsTrue
BY DEF General, Surroundings, PageIs, CallsAre, AcceptTypeOK, Pages

LEMMA GeneralStep ==
  ASSUME General, [AcceptNext]_acceptVars
  PROVE  General'
<1>h. Surroundings /\ PageIs /\ CallsAre /\ BusyIsTrue
  BY GeneralIs
<1>g. Surroundings' /\ PageIs' /\ CallsAre' /\ BusyIsTrue' => General'
  BY DEF General, Surroundings, PageIs, CallsAre, AcceptTypeOK, Pages
<1>c. Invitee \in [Links -> Guests] /\ NoLink \notin Links /\ NoOne \notin Guests /\ MaxVisits \in Nat
  BY AcceptPageAssumption DEF AcceptPageAssumption
<1>b. (at.busy <=> HandledIn(underway) # {}) /\ Single(underway)
  BY <1>h, BusyIs
<1>bb. ASSUME at'.busy <=> HandledIn(underway') # {}, Single(underway') PROVE BusyIsTrue'
  BY <1>bb DEF BusyIsTrue, HandledIn, Single
\* A step of the page and its calls, when the world stays.
<1>u. ASSUME UNCHANGED <<linkState, accounts, admitted, visit>>, signedIn' \in Guests \cup {NoOne},
             crossed' = crossed
      PROVE  Surroundings'
  BY <1>h, <1>u DEF Surroundings
<1>1. ASSUME NEW c \in underway, Serve(c) PROVE General'
  <2> DEFINE j == IF c.op \in {"accept", "signup"} THEN Joiner(c) ELSE NoOne
             e == Invitee[c.link] \in accounts
  <2>b. PICK b : b = [c EXCEPT !.reply = AnswerTo(c), !.exists = e]
    OBVIOUS
  <2>0. c \in Call /\ AcceptTypeOK /\ Real(c) /\ Looks(c)
    BY <1>h DEF CallsAre, General
  <2>1. /\ c.reply = "none" /\ underway' = Swap(underway, c, b) /\ UNCHANGED <<signedIn, visit, at, crossed>>
        /\ IF j = NoOne THEN UNCHANGED <<linkState, accounts, admitted>>
           ELSE /\ linkState' = [linkState EXCEPT ![c.link] = "accepted"]
                /\ admitted' = [admitted EXCEPT ![c.link] = j]
                /\ accounts' = accounts \cup {j}
    BY <1>1, <2>b DEF Serve, Swap, world
  <2>2. AnswerTo(c) \in Replies /\ e \in BOOLEAN
    BY <2>0, AnswerIs
  <2> HIDE DEF e
  <2>3. b \in Call /\ b.op = c.op /\ b.link = c.link /\ b.as = c.as /\ b.reply = AnswerTo(c)
    BY <2>b, <2>0, <2>2 DEF Call, Replies
  <2>4. c.link \in Links /\ (j # NoOne => j = Invitee[c.link] /\ j \in Guests)
    BY <2>0, JoinerIs DEF Call
  <2>5. \A l \in Links : admitted[l] = Invitee[l] => admitted'[l] = Invitee[l]
    BY <1>h, <2>1, <2>4 DEF Surroundings
  <2>6. Real(b)' /\ Looks(b)'
    <3>1. ASSUME b.op \in {"accept", "signup"}, b.reply = "done"
          PROVE  admitted'[b.link] = Invitee[b.link] /\ (b.op = "accept" => b.as = Invitee[b.link])
      <4>1. Joiner(c) # NoOne /\ j = Joiner(c)
        BY <2>0, <2>3, <3>1, AnswerIs
      <4>2. c.op = "accept" => c.as = Invitee[c.link]
        BY <2>0, <2>3, <3>1, <4>1, JoinerIs
      <4>3. admitted'[c.link] = Invitee[c.link]
        BY <1>h, <2>1, <2>4, <4>1 DEF Surroundings
      <4> QED
        BY <2>3, <4>2, <4>3
    <3>2. b.op \in {"preview", "reread"} => b.reply \in Statuses
      BY <1>h, <2>0, <2>3, <2>4, AnswerIs DEF Surroundings
    <3> QED
      BY <3>1, <3>2 DEF Real, Looks
  <2>7. CallsAre'
    <3>1. \A d \in underway : Real(d)' /\ Looks(d)' /\ d \in Call
      BY <1>h, <2>5 DEF CallsAre, Real, Looks, Call
    <3> QED
      BY <2>1, <2>3, <2>6, <3>1 DEF CallsAre, Swap
  <2>8. Surroundings'
    BY <1>h, <2>1, <2>4 DEF Surroundings, Statuses
  <2>9. PageIs'
    BY <1>h, <2>1, <2>5 DEF PageIs, Pages
  <2>10. BusyIsTrue'
    <3>1. Single(underway') /\ (HandledIn(underway') # {} <=> HandledIn(underway) # {})
      BY <1>b, <2>1, <2>3, SwapHandled
    <3>2. at' = at
      BY <2>1
    <3> QED
      BY <1>b, <1>bb, <3>1, <3>2
  <2> QED
    BY <1>g, <2>7, <2>8, <2>9, <2>10
<1>2. ASSUME NEW c \in underway, Break(c) PROVE General'
  <2> DEFINE b == [c EXCEPT !.reply = "broken", !.exists = FALSE]
  <2>1. /\ underway' = Swap(underway, c, b)
        /\ UNCHANGED <<linkState, accounts, admitted, signedIn, visit, at, crossed>>
    BY <1>2 DEF Break, Swap, world
  <2>2. c \in Call
    BY <1>h DEF CallsAre
  <2>3. b \in Call /\ b.op = c.op /\ b.reply = "broken"
    BY <2>2 DEF Call
  <2> HIDE DEF b
  <2>4. CallsAre'
    BY <1>h, <2>1, <2>3 DEF CallsAre, Real, Looks, Swap
  <2>5. Surroundings' /\ PageIs'
    BY <1>h, <2>1 DEF Surroundings, PageIs
  <2>6. BusyIsTrue'
    <3>1. Single(underway') /\ (HandledIn(underway') # {} <=> HandledIn(underway) # {})
      BY <1>b, <2>1, <2>3, SwapHandled
    <3>2. at' = at
      BY <2>1
    <3> QED
      BY <1>b, <1>bb, <3>1, <3>2
  <2> QED
    BY <1>g, <2>4, <2>5, <2>6
\* Nothing changes but what a link finds, the page or who is signed in.
<1>3. ASSUME UNCHANGED <<accounts, admitted, visit, underway, crossed>>,
             linkState' \in [Links -> Statuses], signedIn' \in Guests \cup {NoOne},
             PageIs', at'.busy = at.busy
      PROVE  General'
  <2>1. Surroundings'
    BY <1>h, <1>3 DEF Surroundings
  <2>2. CallsAre'
    BY <1>h, <1>3 DEF CallsAre, Real, Looks
  <2>3. underway' = underway
    BY <1>3
  <2>4. BusyIsTrue'
    BY <1>b, <1>bb, <1>3, <2>3
  <2> QED
    BY <1>3, <1>g, <2>1, <2>2, <2>4
<1>4. ASSUME NEW l \in Links, Closes(l) PROVE General'
  <2>1. /\ UNCHANGED <<accounts, admitted, signedIn, visit, at, underway, crossed>>
        /\ \E s \in {"closed", "unknown"} : linkState' = [linkState EXCEPT ![l] = s]
    BY <1>4 DEF Closes
  <2>2. linkState' \in [Links -> Statuses]
    BY <1>h, <2>1 DEF Surroundings, Statuses
  <2>3. PageIs'
    BY <1>h, <2>1 DEF PageIs
  <2>4. signedIn' \in Guests \cup {NoOne} /\ at'.busy = at.busy
    BY <1>h, <2>1 DEF Surroundings
  <2> QED
    BY <1>3, <2>1, <2>2, <2>3, <2>4
<1>5. ASSUME NEW l \in Links \cup {NoLink}, Start(l) PROVE General'
  <2> DEFINE b == [CallTo("preview", l, l, NoOne) EXCEPT !.visit = visit + 1]
  <2>1. /\ visit < MaxVisits /\ visit' = visit + 1 /\ at' = Started(l)
        /\ underway' = underway \cup (IF l = NoLink THEN {} ELSE {b})
        /\ crossed' = (crossed \/ underway # {})
        /\ UNCHANGED <<linkState, accounts, admitted, signedIn>>
    BY <1>5 DEF Start, world
  <2>2. Surroundings'
    BY <1>h, <1>c, <2>1 DEF Surroundings
  <2>3. /\ at' \in Pages /\ at'.step = 0 /\ at'.load # "ready" /\ at'.joined = NoLink /\ at'.busy = at.busy
    <3>1. at' = [token |-> l, load |-> Loading(l), shown |-> NoLink, status |-> "unknown",
                 exists |-> FALSE, viewer |-> "checking", step |-> 0, joined |-> NoLink,
                 busy |-> at.busy]
      BY <2>1 DEF Started, BlankPage
    <3>2. Loading(l) \in {"missing", "loading"} /\ at.busy \in BOOLEAN
      BY <1>h DEF Loading, PageIs, Pages
    <3>3. "unknown" \in Statuses
      BY DEF Statuses
    <3> QED
      BY <3>1, <3>2, <3>3 DEF Pages
  <2>4. PageIs'
    BY <2>3 DEF PageIs
  <2>5. ASSUME l # NoLink PROVE b \in Call /\ b.op = "preview" /\ b.reply = "none"
    <3>1. b = [op |-> "preview", visit |-> visit + 1, link |-> l, seen |-> l, as |-> NoOne,
               reply |-> "none", exists |-> FALSE]
      <4> DEFINE p == CallTo("preview", l, l, NoOne)
      <4>1. p = [op |-> "preview", visit |-> visit, link |-> l, seen |-> l, as |-> NoOne,
                 reply |-> "none", exists |-> FALSE]
        BY DEF CallTo
      <4>2. b = [p EXCEPT !.visit = visit + 1]
        OBVIOUS
      <4> HIDE DEF p, b
      <4> QED
        BY <4>1, <4>2
    <3>2. visit + 1 \in 0..MaxVisits /\ l \in Links
      BY <1>h, <1>c, <2>1, <2>5 DEF Surroundings
    <3> HIDE DEF b
    <3> QED
      BY <3>1, <3>2 DEF Call
  <2> HIDE DEF b
  <2>6. CallsAre'
    BY <1>h, <2>1, <2>5 DEF CallsAre, Real, Looks
  <2>7. HandledIn(underway') = HandledIn(underway) /\ Single(underway')
    <3>1. "preview" \notin Handled
      BY HandledOps
    <3>2. HandledIn(underway') = HandledIn(underway)
      BY <2>1, <2>5, <3>1, AddOther
    <3> QED
      BY <1>b, <3>2 DEF Single
  <2>8. BusyIsTrue'
    BY <1>b, <1>bb, <2>3, <2>7
  <2> QED
    BY <1>g, <2>2, <2>4, <2>6, <2>8
\* A call is replaced by another, or ends.
<1>6. ASSUME NEW c \in underway, NEW b \in Call, underway' = Swap(underway, c, b),
             b.reply = "none", b.op \in Handled <=> c.op \in Handled,
             UNCHANGED <<linkState, accounts, admitted, visit, crossed>>,
             signedIn' \in Guests \cup {NoOne}, at' = at
      PROVE  General'
  <2>1. CallsAre'
    BY <1>h, <1>6 DEF CallsAre, Real, Looks, Swap
  <2>2. PageIs'
    BY <1>h, <1>6 DEF PageIs
  <2>3. Single(underway') /\ (HandledIn(underway') # {} <=> HandledIn(underway) # {})
    BY <1>b, <1>6, SwapHandled
  <2>4. BusyIsTrue'
    BY <1>b, <1>bb, <1>6, <2>3
  <2> QED
    BY <1>g, <1>u, <1>6, <2>1, <2>2, <2>4
<1>7. ASSUME NEW c \in underway, c.op \in Handled, underway' = underway \ {c},
             UNCHANGED <<linkState, accounts, admitted, visit, crossed>>,
             signedIn' \in Guests \cup {NoOne}, PageIs', ~at'.busy
      PROVE  General'
  <2>1. CallsAre'
    BY <1>h, <1>7 DEF CallsAre, Real, Looks
  <2>2. HandledIn(underway') = {} /\ Single(underway')
    BY <1>b, <1>7, DropHandled
  <2>3. BusyIsTrue'
    BY <1>bb, <1>7, <2>2
  <2> QED
    BY <1>g, <1>u, <1>7, <2>1, <2>3
\* Show, of a call that ends.
<1>8. ASSUME NEW c \in underway, c.op \in {"preview", "reread"}, c.reply # "none",
             NEW page \in Pages, Show(c, underway \ {c}, page),
             page.step = at.step, page.joined = at.joined,
             IF c.op = "reread" THEN ~page.busy ELSE page.busy = at.busy,
             UNCHANGED <<linkState, accounts, admitted, signedIn, visit, crossed>>
      PROVE  General'
  <2>0. c \in Call /\ Looks(c)
    BY <1>h DEF CallsAre
  <2> DEFINE m == CallTo("me", c.link, c.link, signedIn)
  <2>1. /\ at' \in Pages /\ at'.step = page.step /\ at'.joined = page.joined /\ at'.busy = page.busy
        /\ at'.load \in {"invalid", "ready"} /\ (at'.load = "ready" => at'.shown = c.link)
        /\ underway' = underway \ {c} \/ underway' = (underway \ {c}) \cup {m}
    BY <1>8, <2>0, ShowIs
  <2>2. m \in Call /\ m.op = "me" /\ m.reply = "none"
    BY <1>h, <2>0, CallToIs DEF Surroundings, Call
  <2> HIDE DEF m
  <2>3. PageIs'
    BY <1>h, <1>8, <2>0, <2>1 DEF PageIs, Call
  <2>4. CallsAre'
    BY <1>h, <1>8, <2>1, <2>2 DEF CallsAre, Real, Looks
  <2>5. "me" \notin Handled /\ "preview" \notin Handled /\ "reread" \in Handled
    BY HandledOps
  <2>6. HandledIn(underway') = HandledIn(underway \ {c})
    BY <2>1, <2>2, <2>5, AddOther
  <2>7. CASE c.op = "reread"
    <3>1. HandledIn(underway') = {}
      BY <1>b, <2>5, <2>6, <2>7, DropHandled
    <3>2. ~at'.busy /\ Single(underway')
      BY <1>8, <2>1, <2>7, <3>1 DEF Single
    <3>3. BusyIsTrue'
      BY <1>bb, <3>1, <3>2
    <3>4. Surroundings'
      BY <1>h, <1>8 DEF Surroundings
    <3> QED
      BY <1>g, <2>3, <2>4, <3>3, <3>4
  <2>8. CASE c.op = "preview"
    <3>1. HandledIn(underway') = HandledIn(underway)
      BY <2>5, <2>6, <2>8, DropOther
    <3>2. Single(underway') /\ at'.busy = at.busy
      BY <1>b, <1>8, <2>1, <2>8, <3>1 DEF Single
    <3>3. BusyIsTrue'
      BY <1>b, <1>bb, <3>1, <3>2
    <3>4. Surroundings'
      BY <1>h, <1>8 DEF Surroundings
    <3> QED
      BY <1>g, <2>3, <2>4, <3>3, <3>4
  <2> QED
    BY <1>8, <2>7, <2>8
<1>9. ASSUME NEW c \in underway, Previewed(c) PROVE General'
  <2>1. /\ c.op = "preview" /\ c.reply # "none" /\ Show(c, underway \ {c}, at)
        /\ UNCHANGED <<linkState, accounts, admitted, signedIn, visit, crossed>>
    BY <1>9 DEF Previewed, world
  <2>2. at \in Pages
    BY <1>h DEF PageIs
  <2> QED
    BY <1>8, <2>1, <2>2
<1>10. ASSUME NEW c \in underway, Reread(c) PROVE General'
  <2> DEFINE page == [at EXCEPT !.busy = FALSE]
  <2>1. /\ c.op = "reread" /\ c.reply # "none" /\ Show(c, underway \ {c}, page)
        /\ UNCHANGED <<linkState, accounts, admitted, signedIn, visit, crossed>>
    BY <1>10 DEF Reread, world
  <2>2. page \in Pages /\ page.step = at.step /\ page.joined = at.joined /\ ~page.busy
    BY <1>h DEF PageIs, Pages
  <2> HIDE DEF page
  <2> QED
    BY <1>8, <2>1, <2>2
<1>11. ASSUME NEW c \in underway, Identified(c) PROVE General'
  <2>1. /\ c.op = "me" /\ underway' = underway \ {c}
        /\ \E v \in {"match", "other", "out"} : at' = [at EXCEPT !.viewer = v]
        /\ signedIn' = signedIn \/ signedIn' = NoOne
        /\ UNCHANGED <<linkState, accounts, admitted, visit, crossed>>
    BY <1>11 DEF Identified, world
  <2>2. /\ at' \in Pages /\ at'.step = at.step /\ at'.load = at.load /\ at'.shown = at.shown
        /\ at'.joined = at.joined /\ at'.busy = at.busy
    BY <1>h, <2>1 DEF PageIs, Pages
  <2>3. PageIs'
    BY <1>h, <2>1, <2>2 DEF PageIs
  <2>4. Surroundings'
    BY <1>h, <2>1 DEF Surroundings
  <2>5. CallsAre'
    BY <1>h, <2>1 DEF CallsAre, Real, Looks
  <2>6. HandledIn(underway') = HandledIn(underway) /\ Single(underway')
    <3>1. HandledIn(underway') = HandledIn(underway)
      BY <2>1, DropOther, HandledOps
    <3> QED
      BY <1>b, <3>1 DEF Single
  <2>7. BusyIsTrue'
    BY <1>b, <1>bb, <2>2, <2>6
  <2> QED
    BY <1>g, <2>3, <2>4, <2>5, <2>7
<1>12. CASE Continue \/ Back
  <2>1. /\ at.load = "ready" /\ (at' = [at EXCEPT !.step = 1] \/ at' = [at EXCEPT !.step = 0])
        /\ UNCHANGED <<linkState, accounts, admitted, signedIn, visit, underway, crossed>>
    BY <1>12 DEF Continue, Back, world
  <2>2. /\ at' \in Pages /\ at'.load = at.load /\ at'.shown = at.shown
        /\ at'.joined = at.joined /\ at'.busy = at.busy
    BY <1>h, <2>1 DEF PageIs, Pages
  <2>3. PageIs'
    BY <1>h, <2>1, <2>2 DEF PageIs
  <2> QED
    BY <1>h, <1>3, <2>1, <2>2, <2>3 DEF Surroundings
<1>13. CASE SignOutForThisInvite
  <2>1. /\ at' = [at EXCEPT !.viewer = "out"] /\ signedIn' = NoOne
        /\ UNCHANGED <<linkState, accounts, admitted, visit, underway, crossed>>
    BY <1>13 DEF SignOutForThisInvite, world
  <2>2. /\ at' \in Pages /\ at'.load = at.load /\ at'.shown = at.shown /\ at'.step = at.step
        /\ at'.joined = at.joined /\ at'.busy = at.busy
    BY <1>h, <2>1 DEF PageIs, Pages
  <2>3. PageIs'
    BY <1>h, <2>1, <2>2 DEF PageIs
  <2> QED
    BY <1>h, <1>3, <2>1, <2>2, <2>3 DEF Surroundings
<1>14. ASSUME NEW o \in Accepting, NEW g \in Guests \cup {NoOne}, Presses(o, g), at.load = "ready"
       PROVE  General'
  <2> DEFINE b == CallTo(o, at.token, at.shown, g)
  <2>1. /\ ~at.busy /\ at.token # NoLink /\ at' = [at EXCEPT !.busy = TRUE]
        /\ underway' = underway \cup {b}
        /\ UNCHANGED <<linkState, accounts, admitted, signedIn, visit, crossed>>
    BY <1>14 DEF Presses, world
  <2>2. at \in Pages /\ at.shown \in Links /\ at.token \in Links
    BY <1>h, <1>14, <2>1 DEF PageIs, Pages
  <2>3. o \in Handled
    BY <1>14 DEF Handled
  <2>4. b \in Call /\ b.op = o /\ b.reply = "none"
    BY <1>h, <2>2, <2>3, CallToIs DEF Surroundings
  <2> HIDE DEF b
  <2>5. /\ at' \in Pages /\ at'.load = at.load /\ at'.shown = at.shown /\ at'.step = at.step
        /\ at'.joined = at.joined /\ at'.busy
    BY <2>1, <2>2 DEF Pages
  <2>6. PageIs'
    BY <1>h, <2>1, <2>5 DEF PageIs
  <2>7. CallsAre'
    BY <1>h, <2>1, <2>4 DEF CallsAre, Real, Looks
  <2>8. HandledIn(underway') = {b} /\ Single(underway')
    BY <1>b, <2>1, <2>3, <2>4, AddHandled
  <2>9. BusyIsTrue'
    BY <1>bb, <2>5, <2>8
  <2>10. Surroundings'
    BY <1>h, <2>1 DEF Surroundings
  <2> QED
    BY <1>g, <2>6, <2>7, <2>9, <2>10
<1>15. CASE AcceptSignedIn \/ SignInAndAccept \/ CreateAccountAndAccept
  <2>1. at.load = "ready"
    BY <1>15 DEF AcceptSignedIn, SignInAndAccept, CreateAccountAndAccept, Offering
  <2>2. /\ signedIn \in Guests \cup {NoOne} /\ Invitee[at.shown] \in Guests \cup {NoOne}
        /\ {"accept", "login", "signup"} = Accepting
    BY <1>h, <1>c, <2>1 DEF Surroundings, PageIs, Accepting
  <2> QED
    BY <1>14, <1>15, <2>1, <2>2 DEF AcceptSignedIn, SignInAndAccept, CreateAccountAndAccept
\* handleFailure.
<1>16. ASSUME NEW c \in underway, c.op \in Accepting, c.reply # "none", Fails(c), signedIn' = signedIn,
              UNCHANGED <<linkState, accounts, admitted, visit, crossed>>
       PROVE  General'
  <2>0. c \in Call /\ c.op \in Handled /\ signedIn \in Guests \cup {NoOne}
    BY <1>h, <1>16 DEF CallsAre, Handled, Surroundings
  <2>1. CASE c.reply = "refused"
    <3> DEFINE b == [c EXCEPT !.op = "reread", !.reply = "none"]
    <3>1. underway' = Swap(underway, c, b) /\ at' = at
      BY <1>16, <2>1 DEF Fails, Swap
    <3>2. b \in Call /\ b.op = "reread" /\ b.reply = "none"
      BY <2>0, CallBecomes
    <3>3. "reread" \in Handled
      BY HandledOps
    <3> HIDE DEF b
    <3> QED
      BY <1>6, <1>16, <2>0, <3>1, <3>2, <3>3
  <2>2. CASE c.reply # "refused"
    <3>1. underway' = underway \ {c} /\ at' = [at EXCEPT !.busy = FALSE]
      BY <1>16, <2>2 DEF Fails
    <3>2. /\ at' \in Pages /\ at'.load = at.load /\ at'.shown = at.shown /\ at'.step = at.step
          /\ at'.joined = at.joined /\ ~at'.busy
      BY <1>h, <3>1 DEF PageIs, Pages
    <3>3. PageIs'
      BY <1>h, <1>16, <3>2 DEF PageIs
    <3> QED
      BY <1>7, <1>16, <2>0, <3>1, <3>2, <3>3
  <2> QED
    BY <2>1, <2>2
<1>17. ASSUME NEW c \in underway, LoggedIn(c) PROVE General'
  <2>1. /\ c.op = "login" /\ c.reply # "none"
        /\ UNCHANGED <<linkState, accounts, admitted, visit, crossed>>
    BY <1>17 DEF LoggedIn, world
  <2>2. c.op \in Accepting /\ c.op \in Handled /\ c \in Call /\ "accept" \in Handled
    BY <1>h, <2>1, HandledOps DEF Accepting, CallsAre
  <2>3. CASE c.reply # "done"
    <3>1. Fails(c) /\ signedIn' = signedIn
      BY <1>17, <2>3 DEF LoggedIn
    <3> QED
      BY <1>16, <2>1, <2>2, <3>1
  <2>4. CASE c.reply = "done"
    <3> DEFINE b == [c EXCEPT !.op = "accept", !.reply = "none"]
    <3>1. signedIn' = c.as /\ underway' = Swap(underway, c, b) /\ at' = at
      BY <1>17, <2>4 DEF LoggedIn, Swap
    <3>2. b \in Call /\ b.op = "accept" /\ b.reply = "none" /\ c.as \in Guests \cup {NoOne}
      BY <2>2, CallBecomes DEF Call
    <3> HIDE DEF b
    <3> QED
      BY <1>6, <2>1, <2>2, <3>1, <3>2
  <2> QED
    BY <2>3, <2>4
<1>18. ASSUME NEW c \in underway, Accepted(c) PROVE General'
  <2>1. /\ c.op \in {"accept", "signup"} /\ c.reply # "none"
        /\ UNCHANGED <<linkState, accounts, admitted, visit, crossed>>
    BY <1>18 DEF Accepted, world
  <2>2. c.op \in Accepting /\ c.op \in Handled /\ c \in Call /\ Real(c) /\ c.link \in Links
    BY <1>h, <2>1, HandledOps DEF Accepting, CallsAre, Call
  <2>3. CASE c.reply # "done"
    <3>1. Fails(c) /\ signedIn' = signedIn
      BY <1>18, <2>3 DEF Accepted
    <3> QED
      BY <1>16, <2>1, <2>2, <3>1
  <2>4. CASE c.reply = "done"
    <3>1. /\ at' = [at EXCEPT !.joined = c.link, !.step = 2, !.busy = FALSE]
          /\ underway' = underway \ {c}
          /\ signedIn' = signedIn \/ signedIn' = Invitee[c.link]
      BY <1>18, <2>4 DEF Accepted, Finished
    <3>2. /\ at' \in Pages /\ at'.load = at.load /\ at'.shown = at.shown /\ at'.step = 2
          /\ at'.joined = c.link /\ ~at'.busy
      <4> DEFINE p == [at EXCEPT !.joined = c.link]
                 q == [p EXCEPT !.step = 2]
      <4>1. /\ p \in Pages /\ p.load = at.load /\ p.shown = at.shown /\ p.joined = c.link
        BY <1>h, <2>2 DEF PageIs, Pages
      <4>2. at' = [q EXCEPT !.busy = FALSE]
        BY <3>1
      <4> HIDE DEF p
      <4>3. /\ q \in Pages /\ q.load = at.load /\ q.shown = at.shown /\ q.joined = c.link
            /\ q.step = 2
        BY <4>1 DEF Pages
      <4> HIDE DEF q
      <4> QED
        BY <4>2, <4>3 DEF Pages
    <3>3. admitted[c.link] = Invitee[c.link]
      BY <2>1, <2>2, <2>4 DEF Real
    <3>4. PageIs'
      BY <1>h, <2>1, <3>2, <3>3 DEF PageIs
    <3>5. signedIn' \in Guests \cup {NoOne}
      BY <1>h, <1>c, <2>2, <3>1 DEF Surroundings
    <3> QED
      BY <1>7, <2>1, <2>2, <3>1, <3>2, <3>4, <3>5
  <2> QED
    BY <2>3, <2>4
<1>19. CASE UNCHANGED acceptVars
  <2>1. UNCHANGED <<linkState, accounts, admitted, signedIn, visit, at, underway, crossed>>
    BY <1>19 DEF acceptVars, world
  <2>2. PageIs'
    BY <1>h, <2>1 DEF PageIs
  <2> QED
    BY <1>h, <1>3, <2>1, <2>2 DEF Surroundings
<1> QED
  BY <1>1, <1>2, <1>4, <1>5, <1>9, <1>10, <1>11, <1>12, <1>13, <1>15, <1>17, <1>18, <1>19 DEF AcceptNext

-----------------------------------------------------------------------------
\* As long as links have not crossed.

SeesOwn ==
  /\ at.load = "ready" => at.shown = at.token
  /\ at.viewer = "match" => signedIn = Invitee[at.token]
  /\ at.joined # NoLink =>
       underway = {} /\ at.step = 2 /\ at.joined = at.token /\ signedIn = Invitee[at.joined]
  /\ at.load = "ready" /\ at.status = "pending" /\ ~at.exists => Free(at.token)

LEMMA StraightStep ==
  ASSUME General, Straight, [AcceptNext]_acceptVars, ~crossed'
  PROVE  Straight'
<1>h. Surroundings /\ PageIs /\ CallsAre /\ BusyIsTrue /\ SeesOwn
  BY GeneralIs DEF Straight, SeesOwn
<1>m. (\A c, d \in underway : c = d) /\ \A c \in underway : Mine(c) /\ c \in Call
  BY <1>h DEF Straight, CallsAre
<1>c. Invitee \in [Links -> Guests] /\ NoLink \notin Links /\ NoOne \notin Guests /\ MaxVisits \in Nat
  BY AcceptPageAssumption DEF AcceptPageAssumption
<1>p. at \in Pages
  BY <1>h DEF PageIs
\* There is at most one call after the step.
<1>0. ASSUME NEW b, underway' = {b}, Mine(b)', SeesOwn' PROVE Straight'
  BY <1>0 DEF Straight, SeesOwn
<1>e. ASSUME underway' = {}, SeesOwn' PROVE Straight'
  BY <1>e DEF Straight, SeesOwn
<1>s. ASSUME UNCHANGED underway, \A c \in underway : Mine(c)', SeesOwn' PROVE Straight'
  BY <1>s, <1>m DEF Straight, SeesOwn
<1>1. ASSUME NEW c \in underway, Serve(c) PROVE Straight'
  <2> DEFINE j == IF c.op \in {"accept", "signup"} THEN Joiner(c) ELSE NoOne
             e == Invitee[c.link] \in accounts
  <2>b. PICK b : b = [c EXCEPT !.reply = AnswerTo(c), !.exists = e]
    OBVIOUS
  <2>0. c \in Call /\ AcceptTypeOK /\ Mine(c) /\ underway = {c}
    BY <1>m DEF General
  <2>1. /\ underway' = {b} /\ UNCHANGED <<signedIn, visit, at, crossed>>
        /\ IF j = NoOne THEN UNCHANGED <<linkState, accounts, admitted>>
           ELSE /\ linkState' = [linkState EXCEPT ![c.link] = "accepted"]
                /\ accounts' = accounts \cup {j}
    BY <1>1, <2>b, <2>0 DEF Serve, world
  <2>2. AnswerTo(c) \in Replies /\ e \in BOOLEAN /\ (e <=> Invitee[c.link] \in accounts)
    BY <2>0, AnswerIs
  <2> HIDE DEF e
  <2>3. /\ b \in Call /\ b.op = c.op /\ b.link = c.link /\ b.seen = c.seen /\ b.as = c.as
        /\ b.reply = AnswerTo(c) /\ b.exists = e
    BY <2>b, <2>0, <2>2 DEF Call, Replies
  <2>4. c.link \in Links /\ c.link = at.token /\ (j # NoOne => c.op \in {"accept", "signup"})
    BY <2>0 DEF Call, Mine
  <2>5. linkState[c.link] # "pending" => linkState'[c.link] # "pending"
    BY <1>h, <2>1, <2>4 DEF Surroundings
  <2>6. Free(c.link) => Free(c.link)'
    BY <1>h, <2>1, <2>4 DEF Free, Surroundings
  <2>7. SeesOwn'
    <3>1. at.joined = NoLink
      BY <2>0 DEF Mine
    <3> QED
      BY <1>h, <2>1, <2>4, <2>6, <3>1 DEF SeesOwn, Free
  <2>8. ASSUME b.reply = "refused"
        PROVE  b.op \in {"accept", "signup"} /\ linkState'[b.link] # "pending"
    <3>1. c.op \in {"accept", "signup"}
      BY <2>0, <2>3, <2>4, <2>8, AnswerIs, <1>h DEF Surroundings, Statuses
    <3>2. Joiner(c) = NoOne /\ (c.op = "accept" => c.as = Invitee[c.link] \/ linkState[c.link] = "unknown")
      BY <2>0, <2>3, <2>8, <3>1, AnswerIs
    <3>3. \/ linkState[c.link] # "pending"
          \/ c.op = "accept" /\ c.as # Invitee[c.link]
          \/ c.op = "signup" /\ Invitee[c.link] \in accounts
      BY <2>0, <3>1, <3>2, JoinerIs
    <3>4. linkState[c.link] # "pending"
      BY <2>0, <3>2, <3>3 DEF Mine, Free
    <3> QED
      BY <2>3, <2>5, <3>1, <3>4
  <2>9. ASSUME b.op = "preview", b.reply = "pending", ~b.exists PROVE Free(c.link)'
    <3>1. Free(c.link)
      BY <2>2, <2>3, <2>9 DEF Free
    <3> QED
      BY <2>6, <3>1
  <2>10. ASSUME b.op = "reread" PROVE linkState'[b.link] # "pending" /\ b.reply # "pending"
    BY <2>0, <2>3, <2>5, <2>10, AnswerIs DEF Mine
  <2>11. Mine(b)'
    <3>1. b.link = at'.token /\ b.seen = b.link /\ at'.joined = NoLink
      BY <2>0, <2>1, <2>3 DEF Mine
    <3>2. b.op = "preview" =>
            /\ at'.load = "loading" /\ at'.viewer = "checking" /\ at'.step = 0
            /\ b.reply = "pending" /\ ~b.exists => Free(b.link)'
      BY <2>0, <2>1, <2>3, <2>9 DEF Mine, Free
    <3>3. b.op = "me" =>
            /\ b.as = signedIn' /\ at'.load = "ready"
            /\ at'.viewer = "checking" \/ at'.status # "pending"
      BY <2>0, <2>1, <2>3 DEF Mine
    <3>4. b.op = "accept" => b.as = signedIn' /\ at'.viewer \in {"match", "out"}
      BY <2>0, <2>1, <2>3 DEF Mine
    <3>5. b.op \in {"login", "signup"} => at'.viewer = "out"
      BY <2>0, <2>1, <2>3 DEF Mine
    <3>6. b.op = "signup" => Free(b.link)'
      BY <2>0, <2>3, <2>6 DEF Mine, Free
    <3> QED
      BY <2>8, <2>10, <3>1, <3>2, <3>3, <3>4, <3>5, <3>6 DEF Mine
  <2> QED
    BY <1>0, <2>1, <2>7, <2>11
<1>2. ASSUME NEW c \in underway, Break(c) PROVE Straight'
  <2>b. PICK b : b = [c EXCEPT !.reply = "broken", !.exists = FALSE]
    OBVIOUS
  <2>0. c \in Call /\ Mine(c) /\ underway = {c}
    BY <1>m
  <2>1. /\ underway' = {b} /\ UNCHANGED <<linkState, accounts, admitted, signedIn, visit, at, crossed>>
    BY <1>2, <2>b, <2>0 DEF Break, world
  <2>2. b.op = c.op /\ b.link = c.link /\ b.seen = c.seen /\ b.as = c.as /\ b.reply = "broken"
    BY <2>b, <2>0 DEF Call
  <2>3. Mine(b)'
    BY <2>0, <2>1, <2>2 DEF Mine, Free
  <2>4. SeesOwn'
    BY <1>h, <2>0, <2>1 DEF SeesOwn, Free, Mine
  <2> QED
    BY <1>0, <2>1, <2>3, <2>4
<1>3. ASSUME NEW l \in Links, Closes(l) PROVE Straight'
  <2>1. PICK s \in {"closed", "unknown"} : linkState' = [linkState EXCEPT ![l] = s]
    BY <1>3 DEF Closes
  <2>2. UNCHANGED <<accounts, admitted, signedIn, visit, at, underway, crossed>>
    BY <1>3 DEF Closes
  <2>3. \A k \in Links : linkState[k] # "pending" => linkState'[k] # "pending"
    BY <1>h, <2>1 DEF Surroundings
  <2>4. ASSUME NEW c \in underway PROVE Mine(c)'
    <3>1. Mine(c) /\ c.link \in Links
      BY <1>m DEF Call
    <3> QED
      BY <2>2, <2>3, <3>1 DEF Mine, Free
  <2>5. SeesOwn'
    <3>1. at.load = "ready" => at.token \in Links
      BY <1>h DEF SeesOwn, PageIs
    <3> QED
      BY <1>h, <2>2, <2>3, <3>1 DEF SeesOwn, Free
  <2> QED
    BY <1>s, <2>2, <2>4, <2>5
<1>4. ASSUME NEW l \in Links \cup {NoLink}, Start(l) PROVE Straight'
  <2>1. /\ at' = Started(l) /\ UNCHANGED <<linkState, accounts, admitted, signedIn>>
        /\ crossed' = (crossed \/ underway # {})
    BY <1>4 DEF Start, world
  <2>2. underway = {}
    BY <2>1
  <2>3. at' = [token |-> l, load |-> Loading(l), shown |-> NoLink, status |-> "unknown",
               exists |-> FALSE, viewer |-> "checking", step |-> 0, joined |-> NoLink,
               busy |-> at.busy]
    BY <2>1 DEF Started, BlankPage
  <2>4. /\ at'.token = l /\ at'.load # "ready" /\ (l # NoLink => at'.load = "loading")
        /\ at'.viewer = "checking" /\ at'.step = 0 /\ at'.joined = NoLink
    BY <2>3 DEF Loading
  <2>5. SeesOwn'
    BY <2>4 DEF SeesOwn
  <2>6. CASE l = NoLink
    <3>1. underway' = {}
      BY <1>4, <2>2, <2>6 DEF Start
    <3> QED
      BY <1>e, <2>5, <3>1
  <2>7. CASE l # NoLink
    <3>1. PICK b : b = [CallTo("preview", l, l, NoOne) EXCEPT !.visit = visit + 1]
      OBVIOUS
    <3>2. underway' = {b}
      BY <1>4, <2>2, <2>7, <3>1 DEF Start
    <3>3. b.op = "preview" /\ b.link = l /\ b.seen = l /\ b.reply = "none"
      BY <3>1 DEF CallTo
    <3>4. Mine(b)'
      BY <2>4, <2>7, <3>3 DEF Mine
    <3> QED
      BY <1>0, <2>5, <3>2, <3>4
  <2> QED
    BY <2>6, <2>7
\* Show, of a call that was the only one.
<1>5. ASSUME NEW c \in underway, c.op \in {"preview", "reread"}, c.reply # "none",
             NEW page \in Pages, Show(c, underway \ {c}, page),
             page.token = at.token, page.joined = NoLink, page.viewer = at.viewer,
             UNCHANGED <<linkState, accounts, admitted, signedIn, visit, crossed>>
      PROVE  Straight'
  <2>0. c \in Call /\ Looks(c) /\ Mine(c) /\ underway \ {c} = {}
    BY <1>h, <1>m DEF CallsAre
  <2>m. PICK m : m = CallTo("me", c.link, c.link, signedIn)
    OBVIOUS
  <2>1. m.op = "me" /\ m.link = c.link /\ m.seen = c.link /\ m.as = signedIn /\ m.reply = "none"
    BY <2>m DEF CallTo
  <2>2. /\ at'.token = c.link /\ at'.joined = NoLink
        /\ \/ at'.load = "invalid" /\ at'.viewer = at.viewer /\ underway' = {}
           \/ /\ at'.load = "ready" /\ at'.shown = c.link /\ at'.status = c.reply
              /\ at'.exists = c.exists /\ at'.viewer = "out" /\ underway' = {}
           \/ /\ at'.load = "ready" /\ at'.shown = c.link /\ at'.status = c.reply
              /\ at'.exists = c.exists /\ at'.viewer = at.viewer /\ underway' = {m}
    <3>1. at.token = c.link
      BY <2>0 DEF Mine
    <3> QED
      BY <1>5, <2>0, <2>m, <3>1, ShowIs
  <2>3. ASSUME c.reply = "pending", ~c.exists PROVE Free(c.link)
    BY <1>5, <2>0, <2>3 DEF Mine
  <2>4. SeesOwn'
    <3>1. at'.load = "ready" => at'.shown = at'.token
      BY <2>2
    <3>2. at'.viewer = "match" => signedIn' = Invitee[at'.token]
      BY <1>h, <1>5, <2>0, <2>2 DEF SeesOwn, Mine
    <3>3. ASSUME at'.load = "ready", at'.status = "pending", ~at'.exists PROVE Free(at.token)'
      <4>1. Free(c.link)
        BY <2>2, <2>3, <3>3
      <4> QED
        BY <1>5, <2>2, <4>1 DEF Free
    <3> QED
      BY <2>2, <3>1, <3>2, <3>3 DEF SeesOwn
  <2>5. CASE underway' = {}
    BY <1>e, <2>4, <2>5
  <2>6. CASE underway' = {m} /\ at'.load = "ready" /\ at'.status = c.reply /\ at'.viewer = at.viewer
    <3>1. at'.viewer = "checking" \/ at'.status # "pending"
      BY <1>5, <2>0, <2>6 DEF Mine
    <3>2. Mine(m)'
      BY <1>5, <2>1, <2>2, <2>6, <3>1 DEF Mine
    <3> QED
      BY <1>0, <2>4, <2>6, <3>2
  <2> QED
    BY <2>2, <2>5, <2>6
<1>6. ASSUME NEW c \in underway, Previewed(c) PROVE Straight'
  <2>1. /\ c.op = "preview" /\ c.reply # "none" /\ Show(c, underway \ {c}, at)
        /\ UNCHANGED <<linkState, accounts, admitted, signedIn, visit, crossed>>
    BY <1>6 DEF Previewed, world
  <2>2. at.joined = NoLink
    BY <1>m DEF Mine
  <2> QED
    BY <1>5, <1>p, <2>1, <2>2
<1>7. ASSUME NEW c \in underway, Reread(c) PROVE Straight'
  <2> DEFINE page == [at EXCEPT !.busy = FALSE]
  <2>1. /\ c.op = "reread" /\ c.reply # "none" /\ Show(c, underway \ {c}, page)
        /\ UNCHANGED <<linkState, accounts, admitted, signedIn, visit, crossed>>
    BY <1>7 DEF Reread, world
  <2>2. page \in Pages /\ page.joined = at.joined /\ page.token = at.token /\ page.viewer = at.viewer
    BY <1>p DEF Pages
  <2>3. at.joined = NoLink
    BY <1>m DEF Mine
  <2> HIDE DEF page
  <2> QED
    BY <1>5, <2>1, <2>2, <2>3
<1>8. ASSUME NEW c \in underway, Identified(c) PROVE Straight'
  <2>0. Mine(c) /\ c.op = "me" /\ underway' = {}
    BY <1>m, <1>8 DEF Identified
  <2>1. UNCHANGED <<linkState, accounts, admitted, visit, crossed>>
    BY <1>8 DEF Identified, world
  <2>2. PICK v \in {"match", "other", "out"} :
          /\ at' = [at EXCEPT !.viewer = v]
          /\ v = "match" => c.as = Invitee[c.link] /\ signedIn' = signedIn
    BY <1>8 DEF Identified
  <2>3. /\ at'.viewer = v /\ at'.token = at.token /\ at'.load = at.load /\ at'.shown = at.shown
        /\ at'.status = at.status /\ at'.exists = at.exists /\ at'.joined = at.joined
    BY <1>p, <2>2 DEF Pages
  <2>4. SeesOwn'
    BY <1>h, <2>0, <2>1, <2>2, <2>3 DEF SeesOwn, Mine, Free
  <2> QED
    BY <1>e, <2>0, <2>4
\* The page offers nothing while it looks.
<1>9. ASSUME at.load = "ready", at.status = "pending", at.viewer # "checking"
      PROVE  \A c \in underway : c.op \in Handled
  BY <1>m, <1>9 DEF Mine, Call
<1>10. ASSUME at.step # 2 PROVE at.joined = NoLink
  BY <1>h, <1>10 DEF SeesOwn
<1>11. CASE Continue \/ Back
  <2>1. /\ at.load = "ready" /\ at.step # 2 /\ (at' = [at EXCEPT !.step = 1] \/ at' = [at EXCEPT !.step = 0])
        /\ UNCHANGED <<linkState, accounts, admitted, signedIn, visit, underway, crossed>>
    BY <1>11 DEF Continue, Back, world
  <2>2. /\ at'.viewer = at.viewer /\ at'.token = at.token /\ at'.load = at.load /\ at'.shown = at.shown
        /\ at'.status = at.status /\ at'.exists = at.exists /\ at'.joined = at.joined
    BY <1>p, <2>1 DEF Pages
  <2>3. SeesOwn'
    BY <1>h, <1>10, <2>1, <2>2 DEF SeesOwn, Free
  <2>4. ASSUME NEW c \in underway PROVE Mine(c)'
    <3>1. Mine(c)
      BY <1>m
    <3>2. c.op # "preview"
      BY <2>1, <3>1 DEF Mine
    <3> QED
      BY <2>1, <2>2, <3>1, <3>2 DEF Mine, Free
  <2> QED
    BY <1>s, <2>1, <2>3, <2>4
<1>12. CASE SignOutForThisInvite
  <2>1. /\ at.load = "ready" /\ at.status = "pending" /\ at.step = 1 /\ at.viewer = "other"
        /\ at' = [at EXCEPT !.viewer = "out"] /\ signedIn' = NoOne
        /\ UNCHANGED <<linkState, accounts, admitted, visit, underway, crossed>>
    BY <1>12 DEF SignOutForThisInvite, Offering, world
  <2>2. /\ at'.viewer = "out" /\ at'.token = at.token /\ at'.load = at.load /\ at'.shown = at.shown
        /\ at'.status = at.status /\ at'.exists = at.exists /\ at'.joined = at.joined
    BY <1>p, <2>1 DEF Pages
  <2>3. SeesOwn'
    BY <1>h, <1>10, <2>1, <2>2 DEF SeesOwn, Free
  <2>4. ASSUME NEW c \in underway PROVE Mine(c)'
    <3>1. Mine(c) /\ c.op \in Handled
      BY <1>m, <1>9, <2>1
    <3>2. c.op \notin {"preview", "me", "accept"}
      BY <2>1, <3>1, HandledOps DEF Mine
    <3> QED
      BY <2>1, <2>2, <3>1, <3>2 DEF Mine, Free
  <2> QED
    BY <1>s, <2>1, <2>3, <2>4
<1>13. ASSUME NEW o \in Accepting, NEW g, Presses(o, g), at.load = "ready", at.status = "pending",
              at.step = 1, at.viewer \in {"match", "out"},
              o = "accept" => g = signedIn, o \in {"login", "signup"} => at.viewer = "out",
              o = "signup" => ~at.exists
       PROVE  Straight'
  <2>b. PICK b : b = CallTo(o, at.token, at.shown, g)
    OBVIOUS
  <2>1. /\ ~at.busy /\ at' = [at EXCEPT !.busy = TRUE] /\ underway' = underway \cup {b}
        /\ UNCHANGED <<linkState, accounts, admitted, signedIn, visit, crossed>>
    BY <1>13, <2>b DEF Presses, world
  <2>2. underway = {}
    <3>1. \A c \in underway : c.op \in Handled
      BY <1>9, <1>13
    <3>2. \A c \in underway : c.op \notin Handled
      BY <1>h, <2>1 DEF BusyIsTrue
    <3> QED
      BY <3>1, <3>2
  <2>3. b.op = o /\ b.link = at.token /\ b.seen = at.shown /\ b.as = g /\ b.reply = "none"
    BY <2>b DEF CallTo
  <2>4. /\ at'.viewer = at.viewer /\ at'.token = at.token /\ at'.load = at.load /\ at'.shown = at.shown
        /\ at'.status = at.status /\ at'.exists = at.exists /\ at'.joined = NoLink
    BY <1>p, <1>10, <1>13, <2>1 DEF Pages
  <2>5. SeesOwn'
    BY <1>h, <2>1, <2>4 DEF SeesOwn, Free
  <2>6. b.op \in {"login", "accept", "signup"} /\ at.shown = at.token
    BY <1>h, <1>13, <2>3 DEF Accepting, SeesOwn
  <2>7. b.op = "signup" => Free(b.link)'
    BY <1>h, <1>13, <2>1, <2>3 DEF SeesOwn, Free
  <2>8. Mine(b)'
    BY <1>13, <2>1, <2>3, <2>4, <2>6, <2>7 DEF Mine
  <2>9. underway' = {b}
    BY <2>1, <2>2
  <2> QED
    BY <1>0, <2>5, <2>8, <2>9
<1>14. CASE AcceptSignedIn \/ SignInAndAccept \/ CreateAccountAndAccept
  <2>1. {"accept", "login", "signup"} = Accepting
    BY DEF Accepting
  <2>2. CASE AcceptSignedIn
    BY <1>13, <2>1, <2>2 DEF AcceptSignedIn, Offering
  <2>3. CASE SignInAndAccept
    BY <1>13, <2>1, <2>3 DEF SignInAndAccept, Offering
  <2>4. CASE CreateAccountAndAccept
    BY <1>13, <2>1, <2>4 DEF CreateAccountAndAccept, Offering
  <2> QED
    BY <1>14, <2>2, <2>3, <2>4
\* handleFailure.
<1>15. ASSUME NEW c \in underway, Fails(c), signedIn' = signedIn,
              UNCHANGED <<linkState, accounts, admitted, visit, crossed>>
       PROVE  Straight'
  <2>0. c \in Call /\ Mine(c) /\ underway = {c}
    BY <1>m
  <2>1. CASE c.reply = "refused"
    <3>b. PICK b : b = [c EXCEPT !.op = "reread", !.reply = "none"]
      OBVIOUS
    <3>1. underway' = {b} /\ at' = at
      BY <1>15, <2>0, <2>1, <3>b DEF Fails
    <3>2. b.op = "reread" /\ b.reply = "none" /\ b.link = c.link /\ b.seen = c.seen
      BY <2>0, <3>b DEF Call
    <3>3. Mine(b)'
      BY <1>15, <2>0, <2>1, <3>1, <3>2 DEF Mine
    <3>4. SeesOwn'
      BY <1>h, <1>15, <2>0, <3>1 DEF SeesOwn, Free, Mine
    <3> QED
      BY <1>0, <3>1, <3>3, <3>4
  <2>2. CASE c.reply # "refused"
    <3>1. underway' = {} /\ at' = [at EXCEPT !.busy = FALSE]
      BY <1>15, <2>0, <2>2 DEF Fails
    <3>2. /\ at'.viewer = at.viewer /\ at'.token = at.token /\ at'.load = at.load /\ at'.shown = at.shown
          /\ at'.status = at.status /\ at'.exists = at.exists /\ at'.joined = at.joined
      BY <1>p, <3>1 DEF Pages
    <3>3. SeesOwn'
      BY <1>h, <1>15, <2>0, <3>2 DEF SeesOwn, Free, Mine
    <3> QED
      BY <1>e, <3>1, <3>3
  <2> QED
    BY <2>1, <2>2
<1>16. ASSUME NEW c \in underway, LoggedIn(c) PROVE Straight'
  <2>0. c \in Call /\ Mine(c) /\ underway = {c}
    BY <1>m
  <2>1. /\ c.op = "login" /\ UNCHANGED <<linkState, accounts, admitted, visit, crossed>>
    BY <1>16 DEF LoggedIn, world
  <2>2. CASE c.reply # "done"
    BY <1>15, <1>16, <2>1, <2>2 DEF LoggedIn
  <2>3. CASE c.reply = "done"
    <3>b. PICK b : b = [c EXCEPT !.op = "accept", !.reply = "none"]
      OBVIOUS
    <3>1. signedIn' = c.as /\ underway' = {b} /\ at' = at
      BY <1>16, <2>0, <2>3, <3>b DEF LoggedIn
    <3>2. b.op = "accept" /\ b.reply = "none" /\ b.link = c.link /\ b.seen = c.seen /\ b.as = c.as
      BY <2>0, <3>b DEF Call
    <3>3. Mine(b)'
      BY <2>0, <2>1, <3>1, <3>2 DEF Mine
    <3>4. SeesOwn'
      BY <1>h, <2>0, <2>1, <3>1 DEF SeesOwn, Free, Mine
    <3> QED
      BY <1>0, <3>1, <3>3, <3>4
  <2> QED
    BY <2>2, <2>3
<1>17. ASSUME NEW c \in underway, Accepted(c) PROVE Straight'
  <2>0. c \in Call /\ Mine(c) /\ underway = {c} /\ Real(c)
    BY <1>h, <1>m DEF CallsAre
  <2>1. /\ c.op \in {"accept", "signup"} /\ UNCHANGED <<linkState, accounts, admitted, visit, crossed>>
    BY <1>17 DEF Accepted, world
  <2>2. CASE c.reply # "done"
    BY <1>15, <1>17, <2>1, <2>2 DEF Accepted
  <2>3. CASE c.reply = "done"
    <3>1. /\ at' = [at EXCEPT !.joined = c.link, !.step = 2, !.busy = FALSE] /\ underway' = {}
          /\ signedIn' = IF c.op = "signup" THEN Invitee[c.link] ELSE signedIn
      BY <1>17, <2>0, <2>3 DEF Accepted, Finished
    <3>2. signedIn' = Invitee[c.link]
      BY <2>0, <2>1, <2>3, <3>1 DEF Real, Mine
    <3>3. /\ at'.viewer = at.viewer /\ at'.token = at.token /\ at'.load = at.load /\ at'.shown = at.shown
          /\ at'.status = at.status /\ at'.exists = at.exists /\ at'.joined = c.link /\ at'.step = 2
      <4> DEFINE p == [at EXCEPT !.joined = c.link]
                 q == [p EXCEPT !.step = 2]
      <4>1. /\ p \in Pages /\ p.joined = c.link /\ p.viewer = at.viewer /\ p.token = at.token
            /\ p.load = at.load /\ p.shown = at.shown /\ p.status = at.status /\ p.exists = at.exists
        BY <1>p, <2>0 DEF Pages, Call
      <4>2. at' = [q EXCEPT !.busy = FALSE]
        BY <3>1
      <4> HIDE DEF p
      <4>3. /\ q \in Pages /\ q.joined = c.link /\ q.step = 2 /\ q.viewer = at.viewer /\ q.token = at.token
            /\ q.load = at.load /\ q.shown = at.shown /\ q.status = at.status /\ q.exists = at.exists
        BY <4>1 DEF Pages
      <4> HIDE DEF q
      <4> QED
        BY <4>2, <4>3 DEF Pages
    <3>4. SeesOwn'
      BY <1>h, <2>0, <2>1, <3>1, <3>2, <3>3 DEF SeesOwn, Free, Mine
    <3> QED
      BY <1>e, <3>1, <3>4
  <2> QED
    BY <2>2, <2>3
<1>18. CASE UNCHANGED acceptVars
  <2>1. UNCHANGED <<linkState, accounts, admitted, signedIn, visit, at, underway, crossed>>
    BY <1>18 DEF acceptVars, world
  <2>2. \A c \in underway : Mine(c)'
    BY <1>m, <2>1 DEF Mine, Free
  <2>3. SeesOwn'
    BY <1>h, <2>1 DEF SeesOwn, Free
  <2> QED
    BY <1>s, <2>1, <2>2, <2>3
<1> QED
  BY <1>1, <1>2, <1>3, <1>4, <1>6, <1>7, <1>8, <1>11, <1>12, <1>14, <1>16, <1>17, <1>18 DEF AcceptNext

\* The page behind a link accepts what it shows, once, and says what came of it
\* (AcceptInvitation.tsx), for any links, any guests and any number of visits.
THEOREM AcceptanceIsAlwaysHonest == AcceptSpec => []AcceptanceIsHonest
<1>1. AcceptInit => AcceptInv
  BY AcceptInitInv
<1>2. AcceptInv /\ [AcceptNext]_acceptVars => AcceptInv'
  <2> SUFFICES ASSUME AcceptInv, [AcceptNext]_acceptVars PROVE AcceptInv'
    OBVIOUS
  <2>1. General'
    BY GeneralStep DEF AcceptInv
  <2>2. crossed => crossed'
    BY DEF AcceptInv, AcceptNext, acceptVars, Serve, Break, Previewed, Identified, LoggedIn, Accepted,
       Reread, Closes, Start, Continue, Back, AcceptSignedIn, SignInAndAccept, CreateAccountAndAccept,
       Presses, SignOutForThisInvite
  <2>3. ASSUME ~crossed' PROVE Straight'
    BY <2>2, <2>3, StraightStep DEF AcceptInv
  <2> QED
    BY <2>1, <2>3 DEF AcceptInv
<1>3. AcceptInv => AcceptanceIsHonest
  BY AcceptInvImplies
<1> QED
  BY <1>1, <1>2, <1>3, PTL DEF AcceptSpec
=============================================================================
