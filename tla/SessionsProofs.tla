---------------------------- MODULE SessionsProofs ----------------------------
(***************************************************************************)
(* Sessions keeps its promises for every number of tabs, requests and      *)
(* pairs.                                                                  *)
(*                                                                         *)
(* The invariant follows a pair from issue to revocation.  Until its       *)
(* answer arrives no tab knows it (NewPairs); once stored, it is revoked   *)
(* by a tab only while that tab is about to be told of the next            *)
(* (StoredIsCurrent).  So a tab that starts an exchange presents a pair it *)
(* has not used yet (FirstOfItsTab): a refusal is somebody else's doing    *)
(* (KeepsOwnSession), and a second child of one pair needs a second tab    *)
(* (Children).  All of it rests on one exchange at a time being heard in a *)
(* tab (OneInFlight), and makes an exception of the pairs whose refresh    *)
(* lost its answer, or had an error for one.                               *)
(***************************************************************************)
EXTENDS Sessions, FiniteSetTheorems, TLAPS

\* Every pair anybody refers to has been issued.
Known ==
  /\ stored <= issued
  /\ \A t \in Tabs : form[t].got <= issued /\ logout[t] <= issued
  /\ \A r \in Calls : refresh[r].token <= issued /\ refresh[r].got <= issued
  /\ \A k \in Pairs : parent[k] <= issued /\ (by[k] # {} => k <= issued)

\* What the position of an exchange says of its fields; nobody hears it any more
\* only if its token is counted as lost.
Exchanges ==
  \A r \in Calls :
    /\ refresh[r].pc = "none" => refresh[r] = Quiet
    /\ refresh[r].pc # "none" => refresh[r].token # 0
    /\ refresh[r].pc \in {"sent", "read", "saved"} => refresh[r].got = 0
    /\ refresh[r].pc # "none" /\ ~refresh[r].heard => refresh[r].token \in lost

Heard(r) == refresh[r].pc # "none" /\ refresh[r].heard

\* A tab hears the exchange it awaits, and no other.
OneInFlight ==
  /\ \A t \in Tabs : inFlight[t] # NoRequest => TabOf[inFlight[t]] = t /\ Heard(inFlight[t])
  /\ \A r \in Calls : Heard(r) => inFlight[TabOf[r]] = r

\* A revoked row has a revoker; a saved exchange is one.
Revokers ==
  /\ \A k \in Pairs : IsFiniteSet(by[k]) /\ (row[k] = "revoked" => by[k] # {})
  /\ \A r \in Calls :
       refresh[r].pc = "saved" => row[refresh[r].token] = "revoked" /\ TabOf[r] \in by[refresh[r].token]

\* A pair that has been issued and has not arrived: no tab can have presented it.
Undelivered(k) ==
  /\ k # stored /\ by[k] \cap Tabs = {}
  /\ \A r \in Calls : refresh[r].token # k

NewPairs ==
  /\ \A t \in Tabs : form[t].got # 0 => Undelivered(form[t].got)
  /\ \A r \in Calls : refresh[r].got # 0 => Undelivered(refresh[r].got)
  /\ \A t, u \in Tabs : t # u /\ form[t].got # 0 => form[t].got # form[u].got
  /\ \A r, q \in Calls : r # q /\ refresh[r].got # 0 => refresh[r].got # refresh[q].got
  /\ \A t \in Tabs, r \in Calls : form[t].got # 0 => form[t].got # refresh[r].got

\* A tab that revoked the stored pair is about to be told of the next, or of the
\* error there was instead.
StoredIsCurrent ==
  stored # 0 /\ stored \notin lost =>
    \A t \in by[stored] \cap Tabs :
      \E r \in Calls :
        /\ TabOf[r] = t /\ Heard(r) /\ refresh[r].token = stored
        /\ refresh[r].pc \in {"saved", "answered"}

Unserved(r) ==
  \/ refresh[r].pc \in {"sent", "read"}
  \/ refresh[r].pc = "answered" /\ refresh[r].got = 0 /\ refresh[r].token \notin broken

\* An exchange that is heard, and has not revoked its token itself, is the only
\* one its tab ever made with it.
FirstOfItsTab ==
  \A r \in Calls :
    Heard(r) /\ Unserved(r) /\ refresh[r].token \notin lost =>
      TabOf[r] \notin by[refresh[r].token]

RefusedForGood ==
  \A r \in Calls :
    refresh[r].pc = "answered" /\ refresh[r].got = 0 /\ refresh[r].token \notin broken =>
      row[refresh[r].token] \in {"expired", "revoked"}

\* Where children of one token come from: one tab each.
Children ==
  \A k \in Pairs \ lost :
    /\ \A n \in Pairs : parent[n] = k => by[k] \cap Tabs # {}
    /\ \A n, m \in Pairs : n # m /\ parent[n] = k /\ parent[m] = k =>
         \E t, u \in Tabs : t # u /\ t \in by[k] /\ u \in by[k]
    /\ \A n \in Pairs, r \in Calls :
         parent[n] = k /\ refresh[r].pc = "saved" /\ refresh[r].token = k =>
           \E u \in Tabs : u # TabOf[r] /\ u \in by[k]

IInv ==
  /\ SessionsTypeOK /\ AccountComplete /\ RotatedIsRevoked /\ WaitersAreServed
  /\ Known /\ Exchanges /\ OneInFlight /\ Revokers /\ NewPairs /\ StoredIsCurrent
  /\ FirstOfItsTab /\ RefusedForGood /\ Children

\* The outcomes of refreshSession, and what every resolution of performRefresh
\* does to the browser, as the proofs below use them.
Joins(r, pc) ==
  /\ inFlight[TabOf[r]] # NoRequest
  /\ req' = [req EXCEPT ![r] = [pc |-> pc, on |-> inFlight[TabOf[r]]]]
  /\ UNCHANGED <<inFlight, refresh>>

Starts(r, pc) ==
  /\ inFlight[TabOf[r]] = NoRequest /\ refresh[r] = Quiet
  /\ stored \in Pairs /\ stored <= issued
  /\ req' = [req EXCEPT ![r] = [pc |-> pc, on |-> r]]
  /\ inFlight' = [inFlight EXCEPT ![TabOf[r]] = r]
  /\ refresh' = [refresh EXCEPT ![r] =
                   [pc |-> "sent", token |-> stored, heard |-> TRUE, got |-> 0]]

Wakes(r, store) ==
  /\ stored' \in {0, store}
  /\ inFlight' = [inFlight EXCEPT ![TabOf[r]] = NoRequest]
  /\ page' \in [Tabs -> {"login", "shell"}]
  /\ req' \in [Calls -> [pc : {"idle", "valid", "sent", "retry"},
                            on : Calls \cup {NoRequest}]]
  /\ \A q \in Calls :
       \/ req'[q] = Idle
       \/ req'[q] = [pc |-> "sent", on |-> NoRequest]
       \/ req'[q] = req[q] /\ req[q].on # r

RefreshType == [pc : {"none", "sent", "read", "saved", "answered"},
                token : 0..MaxPairs, heard : BOOLEAN, got : 0..MaxPairs]

RequestType == [pc : {"idle", "valid", "sent", "retry"},
                on : Calls \cup {NoRequest}]

FormType == [pc : FormPcs, got : 0..MaxPairs]

Others(r) == \A q \in Calls : q # r => refresh'[q] = refresh[q]

Answers(r) ==
  /\ Wakes(r, refresh[r].got)
  /\ refresh[r].pc = "answered" /\ refresh[r].heard
  /\ refresh' = [refresh EXCEPT ![r] = Quiet]
  /\ refresh'[r] = Quiet /\ Others(r)
  /\ UNCHANGED <<server, form, logout, lost, broken>>

Breaks(r) ==
  /\ Wakes(r, stored)
  /\ refresh[r].pc # "none" /\ refresh[r].heard /\ refresh[r].token \in Pairs
  /\ lost' = lost \cup {refresh[r].token}
  /\ refresh' = [refresh EXCEPT ![r].heard = FALSE]
  /\ ~refresh'[r].heard /\ Others(r)
  /\ \A q \in Calls : /\ refresh'[q].pc = refresh[q].pc
                         /\ refresh'[q].token = refresh[q].token
                         /\ refresh'[q].got = refresh[q].got
  /\ UNCHANGED <<server, form, logout, broken>>

\* The row of pair k is revoked, and x is one of those who did it.
Revokes(k, x) ==
  /\ k \in Pairs /\ row[k] # "free"
  /\ row' = [row EXCEPT ![k] = "revoked"]
  /\ by' \in [Pairs -> SUBSET (Tabs \cup {SignOut})]
  /\ by'[k] = by[k] \cup {x} /\ \A i \in Pairs : i # k => by'[i] = by[i]
  /\ \A i \in Pairs : by[i] \subseteq by'[i] /\ IsFiniteSet(by'[i])

Saves(r) ==
  /\ Revokes(refresh[r].token, TabOf[r])
  /\ refresh[r].pc = "read"
  /\ refresh' \in [Calls -> RefreshType]
  /\ refresh'[r] = [refresh[r] EXCEPT !.pc = "saved"] /\ Others(r)
  /\ refresh'[r].pc = "saved" /\ refresh'[r].token = refresh[r].token
  /\ refresh'[r].got = refresh[r].got
  /\ UNCHANGED <<account, staged, issued, parent, form, browser, logout, lost, broken>>

Issues(r, k) ==
  /\ refresh[r].pc = "saved" /\ refresh[r].token \in Pairs
  /\ k \in Pairs /\ k = issued + 1 /\ issued' = k
  /\ row' = [row EXCEPT ![k] = "live"]
  /\ parent' \in [Pairs -> 0..MaxPairs] /\ parent'[k] = refresh[r].token
  /\ \A n \in Pairs : n # k => parent'[n] = parent[n]
  /\ refresh' \in [Calls -> RefreshType] /\ Others(r)
  /\ refresh'[r].pc = "answered" /\ refresh'[r].token = refresh[r].token
  /\ refresh'[r].got = k /\ refresh'[r].heard = refresh[r].heard
  /\ UNCHANGED <<account, staged, by, form, browser, logout, lost, broken>>

\* A statement throws, and the tab is told so.
Throws(r) ==
  /\ refresh[r].pc # "none" /\ refresh[r].heard /\ refresh[r].token \in Pairs
  /\ broken' = broken \cup {refresh[r].token}
  /\ refresh' \in [Calls -> RefreshType] /\ Others(r)
  /\ refresh'[r].pc = "answered" /\ refresh'[r].token = refresh[r].token
  /\ refresh'[r].got = 0 /\ refresh'[r].heard
  /\ UNCHANGED <<account, staged, issued, row, parent, by, form, stored, page, inFlight, req,
                 logout, lost>>

\* The records the browser and the server keep of an exchange, and what an
\* action makes of them, have their types.
LEMMA RefreshTyped ==
  ASSUME NEW x \in RefreshType
  PROVE  /\ \A pc \in {"none", "sent", "read", "saved", "answered"} :
              [x EXCEPT !.pc = pc] \in RefreshType
         /\ [x EXCEPT !.heard = FALSE] \in RefreshType
         /\ \A k \in 0..MaxPairs : [x EXCEPT !.pc = "answered", !.got = k] \in RefreshType
         /\ Quiet \in RefreshType
<1>1. \A pc \in {"none", "sent", "read", "saved", "answered"} :
        [x EXCEPT !.pc = pc] \in RefreshType
  BY DEF RefreshType
<1>2. [x EXCEPT !.heard = FALSE] \in RefreshType
  BY DEF RefreshType
<1>3. \A k \in 0..MaxPairs : [x EXCEPT !.pc = "answered", !.got = k] \in RefreshType
  BY DEF RefreshType
<1>4. Quiet \in RefreshType
  BY SessionsAssumption DEF RefreshType, Quiet
<1> QED
  BY <1>1, <1>2, <1>3, <1>4

LEMMA RequestTyped ==
  ASSUME NEW x \in RequestType
  PROVE  /\ [x EXCEPT !.pc = "sent"] \in RequestType
         /\ Idle \in RequestType /\ [pc |-> "sent", on |-> NoRequest] \in RequestType
  BY DEF RequestType, Idle

LEMMA RefreshChanges ==
  ASSUME NEW r \in Calls, NEW x \in RefreshType,
         refresh \in [Calls -> RefreshType], refresh' = [refresh EXCEPT ![r] = x]
  PROVE  refresh' \in [Calls -> RefreshType] /\ refresh'[r] = x /\ Others(r)
  BY DEF Others

\* A request that needs a pair joins the refresh of its tab or starts one.
LEMMA SessionCases ==
  ASSUME IInv, NEW r \in Calls, NEW pc, RefreshSession(r, pc),
         stored # 0 \/ inFlight[TabOf[r]] # NoRequest
  PROVE  Joins(r, pc) \/ Starts(r, pc)
<1>1. CASE inFlight[TabOf[r]] # NoRequest
  BY <1>1 DEF RefreshSession, Joins
<1>2. CASE inFlight[TabOf[r]] = NoRequest
  <2>1. stored \in Pairs /\ stored <= issued
    BY <1>2 DEF IInv, SessionsTypeOK, Known, Pairs
  <2>2. refresh[r].pc = "none" /\ refresh[r] = Quiet
    BY <1>2 DEF RefreshSession, IInv, Exchanges
  <2> QED
    BY <1>2, <2>1, <2>2 DEF RefreshSession, Starts
<1> QED
  BY <1>1, <1>2

\* performRefresh wakes every request that waited for it, however it ends.
LEMMA ResolveWakes ==
  ASSUME IInv, NEW r \in Calls, NEW got, NEW store, Resolve(r, got, store)
  PROVE  Wakes(r, store)
<1> USE SessionsAssumption
<1>1. stored' \in {0, store} /\ inFlight' = [inFlight EXCEPT ![TabOf[r]] = NoRequest]
  BY DEF Resolve
<1>2. /\ page' \in [Tabs -> {"login", "shell"}]
      /\ \/ req' = [q \in Calls |-> IF req[q].on = r THEN Resumed(q, got) ELSE req[q]]
         \/ req' = [q \in Calls |-> IF TabOf[q] = TabOf[r] THEN Idle
                                      ELSE IF req[q].on = r THEN Resumed(q, got) ELSE req[q]]
  BY DEF Resolve, RedirectToLogin, IInv, SessionsTypeOK
<1>3. \A q \in Calls : Resumed(q, got) \in {Idle, [pc |-> "sent", on |-> NoRequest]}
  BY DEF Resumed
<1>4. \A q \in Calls :
       \/ req'[q] = Idle
       \/ req'[q] = [pc |-> "sent", on |-> NoRequest]
       \/ req'[q] = req[q] /\ req[q].on # r
  BY <1>2, <1>3
<1>5. req \in [Calls -> RequestType]
  BY DEF IInv, SessionsTypeOK, RequestType
<1>6. Idle \in RequestType /\ [pc |-> "sent", on |-> NoRequest] \in RequestType
  BY DEF Idle, RequestType
<1>7. \A q \in Calls : req'[q] \in RequestType
  BY <1>4, <1>5, <1>6
<1>8. req' \in [Calls -> RequestType]
  BY <1>2, <1>7, Zenon
<1> QED
  BY <1>1, <1>2, <1>4, <1>8 DEF Wakes, RequestType

\* The parts of the type invariant that the steps below use, with their
\* types kept folded.
LEMMA Typed ==
  ASSUME IInv
  PROVE  /\ refresh \in [Calls -> RefreshType] /\ req \in [Calls -> RequestType]
         /\ form \in [Tabs -> FormType]
         /\ by \in [Pairs -> SUBSET (Tabs \cup {SignOut})]
         /\ parent \in [Pairs -> 0..MaxPairs] /\ row \in [Pairs -> {"free", "live", "revoked", "expired"}]
         /\ issued \in 0..MaxPairs /\ \A k \in Pairs : row[k] = "free" <=> k > issued
         /\ \A k \in Pairs : IsFiniteSet(by[k])
  BY DEF IInv, SessionsTypeOK, RefreshType, RequestType, FormType, Revokers

LEMMA BrowserTyped ==
  ASSUME IInv
  PROVE  /\ stored \in 0..MaxPairs /\ inFlight \in [Tabs -> Calls \cup {NoRequest}]
         /\ logout \in [Tabs -> 0..MaxPairs]
  BY DEF IInv, SessionsTypeOK

\* An exchange presents a pair that has been issued.
LEMMA TokenIssued ==
  ASSUME IInv, NEW r \in Calls, refresh[r].pc # "none"
  PROVE  refresh[r].token \in Pairs /\ row[refresh[r].token] # "free"
<1>1. refresh[r].token \in 0..MaxPairs /\ refresh[r].token # 0 /\ refresh[r].token <= issued
  BY Typed DEF RefreshType, IInv, Known, Exchanges
<1> QED
  BY <1>1, Typed, SessionsAssumption DEF Pairs

\* What the actions on refresh tokens do, in the form the steps below use
\* it.
LEMMA RevokesGrow ==
  ASSUME IInv, NEW k \in Pairs, NEW x \in Tabs \cup {SignOut}, row[k] # "free",
         row' = [row EXCEPT ![k] = "revoked"], by' = [by EXCEPT ![k] = @ \cup {x}]
  PROVE  Revokes(k, x)
<1>1. by'[k] = by[k] \cup {x} /\ \A i \in Pairs : i # k => by'[i] = by[i]
  BY Typed
<1>2. by' \in [Pairs -> SUBSET (Tabs \cup {SignOut})]
  BY Typed
<1>3. IsFiniteSet(by[k] \cup {x})
  BY Typed, FS_AddElement
<1>4. \A i \in Pairs : by[i] \subseteq by'[i] /\ IsFiniteSet(by'[i])
  BY <1>1, <1>3, Typed
<1> QED
  BY <1>1, <1>2, <1>4 DEF Revokes

\* A step that hands nothing over to the browser leaves the pairs under way
\* undelivered.
LEMMA NewPairsKept ==
  ASSUME IInv, UNCHANGED refresh, stored' \in {0, stored},
         \A k \in Pairs : by'[k] \cap Tabs = by[k] \cap Tabs,
         \A t \in Tabs : form'[t].got \in {0, form[t].got}
  PROVE  NewPairs'
<1>1. /\ \A t \in Tabs : form[t].got # 0 => form[t].got \in Pairs
      /\ \A r \in Calls : refresh[r].got # 0 => refresh[r].got \in Pairs
  BY Typed, SessionsAssumption DEF FormType, RefreshType, Pairs
<1>2. ASSUME NEW k \in Pairs, Undelivered(k)
      PROVE  Undelivered(k)'
  BY <1>2, SessionsAssumption DEF Undelivered, Pairs
<1>3. NewPairs
  BY DEF IInv
<1> QED
  BY <1>1, <1>2, <1>3 DEF NewPairs

LEMMA AnswerWakes ==
  ASSUME IInv, NEW r \in Calls, RefreshAnswer(r)
  PROVE  Answers(r)
<1>1. Wakes(r, refresh[r].got)
  BY ResolveWakes DEF RefreshAnswer
<1>2. refresh' = [refresh EXCEPT ![r] = Quiet]
  BY DEF RefreshAnswer
<1>3. refresh' \in [Calls -> RefreshType] /\ refresh'[r] = Quiet /\ Others(r)
  BY <1>2, Typed, RefreshTyped, RefreshChanges
<1> QED
  BY <1>1, <1>3 DEF RefreshAnswer, Answers

LEMMA BreakWakes ==
  ASSUME IInv, NEW r \in Calls, RefreshBreaks(r)
  PROVE  Breaks(r)
<1>1. Wakes(r, stored)
  BY ResolveWakes DEF RefreshBreaks
<1>2. refresh' = [refresh EXCEPT ![r] = [refresh[r] EXCEPT !.heard = FALSE]]
  BY DEF RefreshBreaks
<1>3. /\ refresh' \in [Calls -> RefreshType] /\ Others(r)
      /\ refresh'[r] = [refresh[r] EXCEPT !.heard = FALSE]
  BY <1>2, Typed, RefreshTyped, RefreshChanges
<1>4. \A q \in Calls : /\ refresh'[q].pc = refresh[q].pc
                         /\ refresh'[q].token = refresh[q].token
                         /\ refresh'[q].got = refresh[q].got
  BY <1>3, Typed DEF RefreshType, Others
<1>5. ~refresh'[r].heard
  BY <1>3, Typed DEF RefreshType
<1>6. refresh[r].token \in Pairs
  BY TokenIssued DEF RefreshBreaks
<1> QED
  BY <1>1, <1>3, <1>4, <1>5, <1>6 DEF RefreshBreaks, Breaks

LEMMA SaveRevokes ==
  ASSUME IInv, NEW r \in Calls, RefreshSave(r)
  PROVE  Saves(r)
<1>1. refresh[r].token \in Pairs /\ row[refresh[r].token] # "free"
  BY TokenIssued DEF RefreshSave
<1>2. Revokes(refresh[r].token, TabOf[r])
  BY <1>1, RevokesGrow, SessionsAssumption DEF RefreshSave
<1>3. refresh' = [refresh EXCEPT ![r] = [refresh[r] EXCEPT !.pc = "saved"]]
  BY DEF RefreshSave
<1>4. /\ refresh' \in [Calls -> RefreshType] /\ Others(r)
      /\ refresh'[r] = [refresh[r] EXCEPT !.pc = "saved"]
  BY <1>3, Typed, RefreshTyped, RefreshChanges
<1>5. /\ refresh'[r].pc = "saved" /\ refresh'[r].token = refresh[r].token
      /\ refresh'[r].got = refresh[r].got
  BY <1>4, Typed DEF RefreshType
<1> QED
  BY <1>2, <1>4, <1>5 DEF RefreshSave, Saves

LEMMA IssueFollows ==
  ASSUME IInv, NEW r \in Calls, RefreshIssue(r)
  PROVE  \E k \in Pairs : Issues(r, k)
<1>1. PICK k \in Pairs :
            /\ IssueTokenPair(k, refresh[r].token)
            /\ refresh' = [refresh EXCEPT ![r].pc = "answered", ![r].got = k]
  BY DEF RefreshIssue
<1>2. /\ k = issued + 1 /\ issued' = k /\ row' = [row EXCEPT ![k] = "live"]
      /\ parent' = [parent EXCEPT ![k] = refresh[r].token]
  BY <1>1 DEF IssueTokenPair
<1>3. refresh' = [refresh EXCEPT ![r] = [refresh[r] EXCEPT !.pc = "answered", !.got = k]]
  BY <1>1, Typed
<1>4. /\ refresh' \in [Calls -> RefreshType] /\ Others(r)
      /\ refresh'[r] = [refresh[r] EXCEPT !.pc = "answered", !.got = k]
  <2>1. k \in 0..MaxPairs
    BY DEF Pairs
  <2>2. [refresh[r] EXCEPT !.pc = "answered", !.got = k] \in RefreshType
    BY <2>1, Typed, RefreshTyped
  <2> QED
    BY <1>3, <2>2, Typed, RefreshChanges
<1>5. /\ refresh'[r].pc = "answered" /\ refresh'[r].token = refresh[r].token
      /\ refresh'[r].got = k /\ refresh'[r].heard = refresh[r].heard
  BY <1>4, Typed DEF RefreshType
<1>6. refresh[r].token \in Pairs
  BY TokenIssued DEF RefreshIssue
<1>7. /\ parent' \in [Pairs -> 0..MaxPairs] /\ parent'[k] = refresh[r].token
      /\ \A n \in Pairs : n # k => parent'[n] = parent[n]
  BY <1>2, <1>6, Typed DEF Pairs
<1> QED
  BY <1>2, <1>4, <1>5, <1>6, <1>7 DEF RefreshIssue, Issues

LEMMA ThrowEnds ==
  ASSUME IInv, NEW r \in Calls, RefreshThrows(r)
  PROVE  Throws(r)
<1>1. refresh' = [refresh EXCEPT ![r] = [refresh[r] EXCEPT !.pc = "answered", !.got = 0]]
  BY Typed DEF RefreshThrows
<1>2. 0 \in 0..MaxPairs
  BY SessionsAssumption
<1>3. [refresh[r] EXCEPT !.pc = "answered", !.got = 0] \in RefreshType
  BY <1>2, Typed, RefreshTyped
<1>4. /\ refresh' \in [Calls -> RefreshType] /\ Others(r)
      /\ refresh'[r] = [refresh[r] EXCEPT !.pc = "answered", !.got = 0]
  BY <1>1, <1>3, Typed, RefreshChanges
<1>5. /\ refresh'[r].pc = "answered" /\ refresh'[r].token = refresh[r].token
      /\ refresh'[r].got = 0 /\ refresh'[r].heard = refresh[r].heard
  BY <1>4, Typed DEF RefreshType
<1>6. refresh[r].pc # "none"
  BY DEF RefreshThrows, IInv, Exchanges, Quiet
<1>7. refresh[r].token \in Pairs
  BY <1>6, TokenIssued
<1> QED
  BY <1>4, <1>5, <1>6, <1>7 DEF RefreshThrows, Throws, server, browser

LEMMA LogoutRevokes ==
  ASSUME IInv, NEW t \in Tabs, Logout(t)
  PROVE  Revokes(logout[t], SignOut)
<1>1. logout[t] \in Pairs /\ row[logout[t]] # "free"
  BY Typed, SessionsAssumption DEF IInv, SessionsTypeOK, Known, Logout, Pairs
<1> QED
  BY <1>1, RevokesGrow DEF Logout

-----------------------------------------------------------------------------
(* Each conjunct of the invariant is preserved by every action.            *)

LEMMA TypeStep == ASSUME IInv, [SessionsNext]_sessionVars PROVE SessionsTypeOK'
<1>h. SessionsTypeOK
  BY DEF IInv
<1> USE SessionsAssumption
<1>1. ASSUME NEW k \in Pairs, RefreshTokenExpires(k) PROVE SessionsTypeOK'
  BY <1>1, <1>h DEF RefreshTokenExpires, SessionsTypeOK, Pairs, server, tokens, browser, Idle,
     Quiet, NoForm, AccountRows, FormPcs
<1>2. ASSUME NEW t \in Tabs, RegisterCheck(t) PROVE SessionsTypeOK'
  <2>1. [form[t] EXCEPT !.pc = "checked"] \in FormType
    BY Typed DEF FormType, FormPcs
  <2>2. form' = [form EXCEPT ![t] = [form[t] EXCEPT !.pc = "checked"]]
    BY <1>2 DEF RegisterCheck
  <2>3. form' \in [Tabs -> FormType]
    BY <2>1, <2>2, Typed
  <2> QED
    BY <1>2, <2>3, <1>h DEF RegisterCheck, FormType, SessionsTypeOK, Pairs, server, tokens, browser,
       Idle, Quiet, NoForm, AccountRows, FormPcs
<1>3. ASSUME NEW t \in Tabs, RegisterInsertUser(t) PROVE SessionsTypeOK'
  <2>1. [form[t] EXCEPT !.pc = "writing"] \in FormType /\ NoForm \in FormType
    BY Typed DEF FormType, FormPcs, NoForm
  <2>2. form' \in [Tabs -> FormType]
    BY <1>3, <2>1, Typed DEF RegisterInsertUser
  <2>3. staged' \in [Tabs -> SUBSET AccountRows]
    BY <1>3, <1>h DEF RegisterInsertUser, AccountRows, SessionsTypeOK
  <2> QED
    BY <1>3, <2>2, <2>3, <1>h DEF RegisterInsertUser, FormType, SessionsTypeOK, Pairs, server,
       tokens, browser, Idle, Quiet, NoForm, AccountRows, FormPcs
<1>4. ASSUME NEW t \in Tabs, RegisterWrite(t) PROVE SessionsTypeOK'
  BY SMTT(30), <1>4, <1>h DEF RegisterWrite, SessionsTypeOK, Pairs, server, tokens, browser, Idle, Quiet,
     NoForm, AccountRows, FormPcs
<1>5. ASSUME NEW t \in Tabs, RegisterCommit(t) PROVE SessionsTypeOK'
  <2>1. [form[t] EXCEPT !.pc = "committed"] \in FormType
    BY Typed DEF FormType, FormPcs
  <2>2. form' = [form EXCEPT ![t] = [form[t] EXCEPT !.pc = "committed"]]
    BY <1>5 DEF RegisterCommit
  <2>3. form' \in [Tabs -> FormType]
    BY <2>1, <2>2, Typed
  <2> QED
    BY <1>5, <2>3, <1>h DEF RegisterCommit, FormType, SessionsTypeOK, Pairs, server, tokens,
       browser, Idle, Quiet, NoForm, AccountRows, FormPcs
<1>6. ASSUME NEW t \in Tabs, FormIssue(t) PROVE SessionsTypeOK'
  <2>1. PICK k \in Pairs : /\ IssueTokenPair(k, 0)
                           /\ form' = [form EXCEPT ![t] = [pc |-> "answered", got |-> k]]
    BY <1>6 DEF FormIssue
  <2>2. [pc |-> "answered", got |-> k] \in FormType
    BY DEF FormType, FormPcs, Pairs
  <2>3. form' \in [Tabs -> FormType]
    BY <2>1, <2>2, Typed
  <2>4. /\ issued' \in 0..MaxPairs /\ row' \in [Pairs -> {"free", "live", "revoked", "expired"}]
        /\ parent' \in [Pairs -> 0..MaxPairs] /\ \A n \in Pairs : row'[n] = "free" <=> n > issued'
    BY <2>1, Typed DEF IssueTokenPair, Pairs
  <2>5. UNCHANGED <<account, staged, by, stored, page, inFlight, req, refresh, logout, lost, broken>>
    BY <1>6 DEF FormIssue, browser
  <2> QED
    BY <2>3, <2>4, <2>5, <1>h DEF FormType, SessionsTypeOK
<1>7. ASSUME NEW t \in Tabs, FormAnswer(t) PROVE SessionsTypeOK'
  BY SMTT(30), <1>7, <1>h DEF FormAnswer, SessionsTypeOK, Pairs, server, tokens, browser, Idle, Quiet, NoForm,
     AccountRows, FormPcs
<1>8. ASSUME NEW t \in Tabs, FormBreaks(t) PROVE SessionsTypeOK'
  BY SMTT(30), <1>8, <1>h DEF FormBreaks, SessionsTypeOK, Pairs, server, tokens, browser, Idle, Quiet, NoForm,
     AccountRows, FormPcs
<1>9. ASSUME NEW t \in Tabs, OpenHome(t) PROVE SessionsTypeOK'
  BY <1>9, <1>h DEF OpenHome, SessionsTypeOK, Pairs, server, tokens, browser, Idle, Quiet, NoForm,
     AccountRows, FormPcs
<1>10. ASSUME NEW t \in Tabs, EndSession(t) PROVE SessionsTypeOK'
  BY <1>10, <1>h DEF EndSession, SessionsTypeOK, Pairs, server, tokens, browser, Idle, Quiet,
     NoForm, AccountRows, FormPcs
<1>11. ASSUME NEW t \in Tabs, Logout(t) PROVE SessionsTypeOK'
  <2>1. Revokes(logout[t], SignOut)
    BY <1>11, LogoutRevokes
  <2> QED
    BY SMTT(30), <1>11, <2>1, <1>h DEF Logout, Revokes, SessionsTypeOK, Pairs, server, tokens, browser, Idle,
       Quiet, NoForm, AccountRows, FormPcs
<1>12. ASSUME NEW t \in Tabs, LogoutLost(t) PROVE SessionsTypeOK'
  BY <1>12, <1>h DEF LogoutLost, SessionsTypeOK, Pairs, server, tokens, browser, Idle, Quiet,
     NoForm, AccountRows, FormPcs
<1>13. ASSUME NEW r \in Calls, SendRequest(r) PROVE SessionsTypeOK'
  <2>1. CASE req' = [req EXCEPT ![r].pc = "sent"] /\ UNCHANGED <<inFlight, refresh>>
    <3>1. req' = [req EXCEPT ![r] = [req[r] EXCEPT !.pc = "sent"]]
      BY <2>1
    <3>2. [req[r] EXCEPT !.pc = "sent"] \in RequestType
      BY Typed, RequestTyped
    <3>3. req' \in [Calls -> RequestType]
      BY <3>1, <3>2, Typed
    <3> QED
      BY <1>13, <2>1, <3>3, <1>h DEF SendRequest, RequestType, SessionsTypeOK, Pairs, server,
         tokens, browser, Idle, Quiet, NoForm, AccountRows, FormPcs
  <2>2. CASE Joins(r, "valid")
    BY <1>13, <2>2, <1>h DEF SendRequest, Joins, SessionsTypeOK, Pairs, server, tokens, browser,
       Idle, Quiet, NoForm, AccountRows, FormPcs
  <2>3. CASE Starts(r, "valid")
    BY SMTT(30), <1>13, <2>3, <1>h DEF SendRequest, Starts, SessionsTypeOK, Pairs, server, tokens, browser,
       Idle, Quiet, NoForm, AccountRows, FormPcs
  <2> QED
    BY <1>13, <2>1, <2>2, <2>3, SessionCases DEF SendRequest
<1>14. ASSUME NEW r \in Calls, RefreshRead(r) PROVE SessionsTypeOK'
  <2>1. PICK pc \in {"read", "answered"} : refresh' = [refresh EXCEPT ![r] = [refresh[r] EXCEPT !.pc = pc]]
    BY <1>14, Typed DEF RefreshRead
  <2>2. refresh' \in [Calls -> RefreshType]
    BY <2>1, Typed, RefreshTyped, RefreshChanges
  <2> QED
    BY <1>14, <2>2, <1>h DEF RefreshRead, RefreshType, SessionsTypeOK, Pairs, server, tokens,
       browser, Idle, Quiet, NoForm, AccountRows, FormPcs
<1>15. ASSUME NEW r \in Calls, RefreshSave(r) PROVE SessionsTypeOK'
  <2>1. Saves(r)
    BY <1>15, SaveRevokes
  <2> QED
    <3>1. /\ row' \in [Pairs -> {"free", "live", "revoked", "expired"}]
          /\ \A k \in Pairs : row'[k] = "free" <=> k > issued
      BY <2>1, Typed DEF Saves, Revokes
    <3>2. refresh' \in [Calls -> RefreshType] /\ by' \in [Pairs -> SUBSET (Tabs \cup {SignOut})]
      BY <2>1 DEF Saves, Revokes
    <3>3. UNCHANGED <<account, staged, issued, parent, form, stored, page, inFlight, req, logout, lost, broken>>
      BY <2>1 DEF Saves, browser
    <3> QED
      BY <3>1, <3>2, <3>3, <1>h DEF SessionsTypeOK, RefreshType
<1>16. ASSUME NEW r \in Calls, RefreshIssue(r) PROVE SessionsTypeOK'
  <2>1. PICK k \in Pairs : Issues(r, k)
    BY <1>16, IssueFollows
  <2> QED
    <3>1. /\ row' \in [Pairs -> {"free", "live", "revoked", "expired"}]
          /\ issued' \in 0..MaxPairs
          /\ \A i \in Pairs : row'[i] = "free" <=> i > issued'
      BY SMTT(30), <2>1, Typed DEF Issues, Pairs
    <3>2. refresh' \in [Calls -> RefreshType] /\ parent' \in [Pairs -> 0..MaxPairs]
      BY <2>1 DEF Issues
    <3>3. UNCHANGED <<account, staged, by, form, stored, page, inFlight, req, logout, lost, broken>>
      BY <2>1 DEF Issues, browser
    <3> QED
      BY <3>1, <3>2, <3>3, <1>h DEF SessionsTypeOK, RefreshType
<1>17. ASSUME NEW r \in Calls, RefreshAnswer(r) PROVE SessionsTypeOK'
  <2>1. Answers(r)
    BY <1>17, AnswerWakes
  <2>2. stored' \in 0..MaxPairs
    BY <2>1, Typed DEF Answers, Wakes, RefreshType
  <2>3. refresh' \in [Calls -> RefreshType]
    BY <2>1, Typed, RefreshTyped, RefreshChanges DEF Answers
  <2> QED
    BY <2>1, <2>2, <2>3, <1>h DEF Answers, Wakes, RefreshType, SessionsTypeOK, Pairs, server,
       tokens, browser, Idle, Quiet, NoForm, AccountRows, FormPcs
<1>18. ASSUME NEW r \in Calls, RefreshCrash(r) PROVE SessionsTypeOK'
  <2>1. refresh' \in [Calls -> RefreshType]
    BY <1>18, Typed, RefreshTyped, RefreshChanges DEF RefreshCrash
  <2> QED
    BY <1>18, <2>1, <1>h DEF RefreshCrash, RefreshType, SessionsTypeOK, Pairs, server, tokens,
       browser, Idle, Quiet, NoForm, AccountRows, FormPcs
<1>18a. ASSUME NEW r \in Calls, RefreshThrows(r) PROVE SessionsTypeOK'
  <2>1. Throws(r)
    BY <1>18a, ThrowEnds
  <2> QED
    BY <2>1, <1>h DEF Throws, RefreshType, SessionsTypeOK
<1>19. ASSUME NEW r \in Calls, RefreshUnheard(r) PROVE SessionsTypeOK'
  <2>1. refresh' \in [Calls -> RefreshType]
    BY <1>19, Typed, RefreshTyped, RefreshChanges DEF RefreshUnheard
  <2> QED
    BY <1>19, <2>1, <1>h DEF RefreshUnheard, RefreshType, SessionsTypeOK, Pairs, server, tokens,
       browser, Idle, Quiet, NoForm, AccountRows, FormPcs
<1>20. ASSUME NEW r \in Calls, RefreshBreaks(r) PROVE SessionsTypeOK'
  <2>1. Breaks(r)
    BY <1>20, BreakWakes
  <2>2. stored' \in 0..MaxPairs
    BY <2>1, <1>h DEF Breaks, Wakes, SessionsTypeOK
  <2>3. refresh' = [refresh EXCEPT ![r] = [refresh[r] EXCEPT !.heard = FALSE]]
    BY <2>1 DEF Breaks
  <2>4. refresh' \in [Calls -> RefreshType]
    BY <2>3, Typed, RefreshTyped, RefreshChanges
  <2>5. lost' \in SUBSET Pairs
    BY <2>1, <1>h DEF Breaks, SessionsTypeOK
  <2> QED
    BY <2>1, <2>2, <2>4, <2>5, <1>h DEF Breaks, Wakes, RefreshType, SessionsTypeOK, Pairs, server,
       tokens, browser, Idle, Quiet, NoForm, AccountRows, FormPcs
<1>21. ASSUME NEW r \in Calls, RequestAnswered(r) PROVE SessionsTypeOK'
  BY <1>21, <1>h DEF RequestAnswered, Settle, SessionsTypeOK, Pairs, server, tokens, browser, Idle,
     Quiet, NoForm, AccountRows, FormPcs
<1>22. ASSUME NEW r \in Calls, RequestUnauthorized(r) PROVE SessionsTypeOK'
  <2>1. CASE RedirectToLogin(TabOf[r], req) /\ UNCHANGED <<inFlight, refresh>>
    BY <1>22, <2>1, <1>h DEF RequestUnauthorized, RedirectToLogin, SessionsTypeOK, Pairs, server,
       tokens, browser, Idle, Quiet, NoForm, AccountRows, FormPcs
  <2>2. CASE Joins(r, "retry") /\ UNCHANGED page
    BY <1>22, <2>2, <1>h DEF RequestUnauthorized, Joins, SessionsTypeOK, Pairs, server, tokens,
       browser, Idle, Quiet, NoForm, AccountRows, FormPcs
  <2>3. CASE Starts(r, "retry") /\ UNCHANGED page
    <3>1. [pc |-> "sent", token |-> stored, heard |-> TRUE, got |-> 0] \in RefreshType
      BY <1>h DEF RefreshType, SessionsTypeOK
    <3>2. refresh' \in [Calls -> RefreshType]
      BY <2>3, <3>1, Typed DEF Starts
    <3>3. [pc |-> "retry", on |-> r] \in RequestType
      BY DEF RequestType
    <3>4. req' \in [Calls -> RequestType]
      BY <2>3, <3>3, Typed DEF Starts
    <3>5. inFlight' \in [Tabs -> Calls \cup {NoRequest}]
      BY <2>3, <1>h DEF Starts, SessionsTypeOK
    <3> QED
      BY <1>22, <3>2, <3>4, <3>5, <2>3, <1>h DEF RequestUnauthorized, RefreshType,
         RequestType, SessionsTypeOK, Pairs, server, tokens, browser, Idle, Quiet, NoForm, AccountRows,
         FormPcs
  <2> QED
    BY <1>22, <2>1, <2>2, <2>3, SessionCases DEF RequestUnauthorized
<1>23. ASSUME NEW r \in Calls, RequestFails(r) PROVE SessionsTypeOK'
  <2>1. req' = [req EXCEPT ![r] = Idle]
    BY <1>23 DEF RequestFails, Settle
  <2>2. req' \in [Calls -> RequestType]
    BY <2>1, Typed, RequestTyped
  <2>3. stored' \in 0..MaxPairs /\ page' \in [Tabs -> {"login", "shell"}]
    BY <1>23, <1>h DEF RequestFails, ShellGivesUp, SessionsTypeOK
  <2> QED
    BY <1>23, <2>2, <2>3, <1>h DEF RequestFails, RequestType, SessionsTypeOK, Pairs, server, tokens,
       browser, Idle, Quiet, NoForm, AccountRows, FormPcs
<1>24. ASSUME UNCHANGED sessionVars PROVE SessionsTypeOK'
  BY <1>24, <1>h DEF sessionVars, SessionsTypeOK, server, tokens, browser
  <1> QED   BY <1>1, <1>2, <1>3, <1>4, <1>5, <1>6, <1>7, <1>8, <1>9, <1>10, <1>11, <1>12,
     <1>13, <1>14, <1>15, <1>16, <1>17, <1>18, <1>18a, <1>19, <1>20, <1>21, <1>22, <1>23, <1>24 DEF
     SessionsNext, Form, RefreshCall, Request

LEMMA AccountStep == ASSUME IInv, [SessionsNext]_sessionVars PROVE AccountComplete'
<1>h. AccountComplete /\ SessionsTypeOK
  BY DEF IInv
<1> USE SessionsAssumption
<1>1. ASSUME NEW k \in Pairs, RefreshTokenExpires(k) PROVE AccountComplete'
  BY <1>1, <1>h DEF RefreshTokenExpires, AccountComplete, server, tokens, browser
<1>2. ASSUME NEW t \in Tabs, RegisterCheck(t) PROVE AccountComplete'
  BY <1>2, <1>h DEF RegisterCheck, AccountComplete, server, tokens, browser
<1>3. ASSUME NEW t \in Tabs, RegisterInsertUser(t) PROVE AccountComplete'
  BY <1>3, <1>h DEF RegisterInsertUser, AccountComplete, server, tokens, browser
<1>4. ASSUME NEW t \in Tabs, RegisterWrite(t) PROVE AccountComplete'
  BY <1>4, <1>h DEF RegisterWrite, AccountComplete, server, tokens, browser
<1>5. ASSUME NEW t \in Tabs, RegisterCommit(t) PROVE AccountComplete'
  BY <1>5, <1>h DEF RegisterCommit, AccountComplete, SessionsTypeOK, Pairs, server, tokens, browser,
     AccountRows
<1>6. ASSUME NEW t \in Tabs, FormIssue(t) PROVE AccountComplete'
  BY <1>6, <1>h DEF FormIssue, IssueTokenPair, AccountComplete, server, tokens, browser
<1>7. ASSUME NEW t \in Tabs, FormAnswer(t) PROVE AccountComplete'
  BY <1>7, <1>h DEF FormAnswer, AccountComplete, server, tokens, browser
<1>8. ASSUME NEW t \in Tabs, FormBreaks(t) PROVE AccountComplete'
  BY <1>8, <1>h DEF FormBreaks, AccountComplete, server, tokens, browser
<1>9. ASSUME NEW t \in Tabs, OpenHome(t) PROVE AccountComplete'
  BY <1>9, <1>h DEF OpenHome, AccountComplete, server, tokens, browser
<1>10. ASSUME NEW t \in Tabs, EndSession(t) PROVE AccountComplete'
  BY <1>10, <1>h DEF EndSession, AccountComplete, server, tokens, browser
<1>11. ASSUME NEW t \in Tabs, Logout(t) PROVE AccountComplete'
  BY <1>11, <1>h DEF Logout, AccountComplete, server, tokens, browser
<1>12. ASSUME NEW t \in Tabs, LogoutLost(t) PROVE AccountComplete'
  BY <1>12, <1>h DEF LogoutLost, AccountComplete, server, tokens, browser
<1>13. ASSUME NEW r \in Calls, SendRequest(r) PROVE AccountComplete'
  BY <1>13, <1>h DEF SendRequest, RefreshSession, AccountComplete, server, tokens, browser
<1>14. ASSUME NEW r \in Calls, RefreshRead(r) PROVE AccountComplete'
  BY <1>14, <1>h DEF RefreshRead, AccountComplete, server, tokens, browser
<1>15. ASSUME NEW r \in Calls, RefreshSave(r) PROVE AccountComplete'
  BY <1>15, <1>h DEF RefreshSave, AccountComplete, server, tokens, browser
<1>16. ASSUME NEW r \in Calls, RefreshIssue(r) PROVE AccountComplete'
  BY <1>16, <1>h DEF RefreshIssue, IssueTokenPair, AccountComplete, server, tokens, browser
<1>17. ASSUME NEW r \in Calls, RefreshAnswer(r) PROVE AccountComplete'
  BY <1>17, <1>h DEF RefreshAnswer, Resolve, RedirectToLogin, Resumed, AccountComplete,
     server, tokens, browser
<1>18. ASSUME NEW r \in Calls, RefreshCrash(r) PROVE AccountComplete'
  BY <1>18, <1>h DEF RefreshCrash, AccountComplete, server, tokens, browser
<1>18a. ASSUME NEW r \in Calls, RefreshThrows(r) PROVE AccountComplete'
  <2>1. Throws(r)
    BY <1>18a, ThrowEnds
  <2> QED
    BY <2>1, <1>h DEF Throws, AccountComplete
<1>19. ASSUME NEW r \in Calls, RefreshUnheard(r) PROVE AccountComplete'
  BY <1>19, <1>h DEF RefreshUnheard, AccountComplete, server, tokens, browser
<1>20. ASSUME NEW r \in Calls, RefreshBreaks(r) PROVE AccountComplete'
  BY <1>20, <1>h DEF RefreshBreaks, Resolve, RedirectToLogin, Resumed, AccountComplete,
     server, tokens, browser
<1>21. ASSUME NEW r \in Calls, RequestAnswered(r) PROVE AccountComplete'
  BY <1>21, <1>h DEF RequestAnswered, Settle, AccountComplete, server, tokens, browser
<1>22. ASSUME NEW r \in Calls, RequestUnauthorized(r) PROVE AccountComplete'
  BY <1>22, <1>h DEF RequestUnauthorized, RedirectToLogin, RefreshSession, AccountComplete,
     server, tokens, browser
<1>23. ASSUME NEW r \in Calls, RequestFails(r) PROVE AccountComplete'
  BY <1>23, <1>h DEF RequestFails, Settle, ShellGivesUp, AccountComplete, server, tokens, browser
<1>24. ASSUME UNCHANGED sessionVars PROVE AccountComplete'
  BY <1>24, <1>h DEF sessionVars, AccountComplete, server, tokens, browser
  <1> QED   BY <1>1, <1>2, <1>3, <1>4, <1>5, <1>6, <1>7, <1>8, <1>9, <1>10, <1>11, <1>12,
     <1>13, <1>14, <1>15, <1>16, <1>17, <1>18, <1>18a, <1>19, <1>20, <1>21, <1>22, <1>23, <1>24 DEF
     SessionsNext, Form, RefreshCall, Request

LEMMA RotatedStep == ASSUME IInv, [SessionsNext]_sessionVars PROVE RotatedIsRevoked'
<1>h. RotatedIsRevoked /\ Revokers /\ Known
  BY DEF IInv
<1> USE SessionsAssumption
<1>1. ASSUME NEW k \in Pairs, RefreshTokenExpires(k) PROVE RotatedIsRevoked'
  BY <1>1, <1>h, Typed, BrowserTyped DEF RefreshTokenExpires, RotatedIsRevoked, Revokers,
     Known, RefreshType, Pairs, server, tokens, browser, Idle, Quiet, NoForm
<1>2. ASSUME NEW t \in Tabs, RegisterCheck(t) PROVE RotatedIsRevoked'
  BY <1>2, <1>h DEF RegisterCheck, RotatedIsRevoked, RefreshType, server, tokens, browser
<1>3. ASSUME NEW t \in Tabs, RegisterInsertUser(t) PROVE RotatedIsRevoked'
  BY <1>3, <1>h DEF RegisterInsertUser, RotatedIsRevoked, RefreshType, server, tokens, browser
<1>4. ASSUME NEW t \in Tabs, RegisterWrite(t) PROVE RotatedIsRevoked'
  BY <1>4, <1>h DEF RegisterWrite, RotatedIsRevoked, RefreshType, server, tokens, browser
<1>5. ASSUME NEW t \in Tabs, RegisterCommit(t) PROVE RotatedIsRevoked'
  BY <1>5, <1>h DEF RegisterCommit, RotatedIsRevoked, RefreshType, server, tokens, browser
<1>6. ASSUME NEW t \in Tabs, FormIssue(t) PROVE RotatedIsRevoked'
  BY <1>6, <1>h, Typed, BrowserTyped DEF FormIssue, IssueTokenPair, RotatedIsRevoked,
     Revokers, Known, RefreshType, Pairs, server, tokens, browser, Idle, Quiet, NoForm
<1>7. ASSUME NEW t \in Tabs, FormAnswer(t) PROVE RotatedIsRevoked'
  BY <1>7, <1>h DEF FormAnswer, RotatedIsRevoked, RefreshType, server, tokens, browser
<1>8. ASSUME NEW t \in Tabs, FormBreaks(t) PROVE RotatedIsRevoked'
  BY <1>8, <1>h DEF FormBreaks, RotatedIsRevoked, RefreshType, server, tokens, browser
<1>9. ASSUME NEW t \in Tabs, OpenHome(t) PROVE RotatedIsRevoked'
  BY <1>9, <1>h DEF OpenHome, RotatedIsRevoked, RefreshType, server, tokens, browser
<1>10. ASSUME NEW t \in Tabs, EndSession(t) PROVE RotatedIsRevoked'
  BY <1>10, <1>h DEF EndSession, RotatedIsRevoked, RefreshType, server, tokens, browser
<1>11. ASSUME NEW t \in Tabs, Logout(t) PROVE RotatedIsRevoked'
  BY <1>11, <1>h, Typed, BrowserTyped DEF Logout, RotatedIsRevoked, Revokers, Known,
     RefreshType, Pairs, server, tokens, browser, Idle, Quiet, NoForm
<1>12. ASSUME NEW t \in Tabs, LogoutLost(t) PROVE RotatedIsRevoked'
  BY <1>12, <1>h DEF LogoutLost, RotatedIsRevoked, RefreshType, server, tokens, browser
<1>13. ASSUME NEW r \in Calls, SendRequest(r) PROVE RotatedIsRevoked'
  BY <1>13, <1>h DEF SendRequest, RefreshSession, RotatedIsRevoked, RefreshType, server,
     tokens, browser
<1>14. ASSUME NEW r \in Calls, RefreshRead(r) PROVE RotatedIsRevoked'
  BY <1>14, <1>h DEF RefreshRead, RotatedIsRevoked, RefreshType, server, tokens, browser
<1>15. ASSUME NEW r \in Calls, RefreshSave(r) PROVE RotatedIsRevoked'
  BY <1>15, <1>h, Typed, BrowserTyped DEF RefreshSave, RotatedIsRevoked, Revokers, Known,
     RefreshType, Pairs, server, tokens, browser, Idle, Quiet, NoForm
<1>16. ASSUME NEW r \in Calls, RefreshIssue(r) PROVE RotatedIsRevoked'
  BY <1>16, <1>h, Typed, BrowserTyped DEF RefreshIssue, IssueTokenPair, RotatedIsRevoked,
     Revokers, Known, RefreshType, Pairs, server, tokens, browser, Idle, Quiet, NoForm
<1>17. ASSUME NEW r \in Calls, RefreshAnswer(r) PROVE RotatedIsRevoked'
  BY <1>17, <1>h DEF RefreshAnswer, Resolve, RedirectToLogin, Resumed, RotatedIsRevoked,
     RefreshType, server, tokens, browser
<1>18. ASSUME NEW r \in Calls, RefreshCrash(r) PROVE RotatedIsRevoked'
  BY <1>18, <1>h DEF RefreshCrash, RotatedIsRevoked, RefreshType, server, tokens, browser
<1>18a. ASSUME NEW r \in Calls, RefreshThrows(r) PROVE RotatedIsRevoked'
  <2>1. Throws(r)
    BY <1>18a, ThrowEnds
  <2> QED
    BY <2>1, <1>h DEF Throws, RotatedIsRevoked
<1>19. ASSUME NEW r \in Calls, RefreshUnheard(r) PROVE RotatedIsRevoked'
  BY <1>19, <1>h DEF RefreshUnheard, RotatedIsRevoked, RefreshType, server, tokens, browser
<1>20. ASSUME NEW r \in Calls, RefreshBreaks(r) PROVE RotatedIsRevoked'
  BY <1>20, <1>h DEF RefreshBreaks, Resolve, RedirectToLogin, Resumed, RotatedIsRevoked,
     RefreshType, server, tokens, browser
<1>21. ASSUME NEW r \in Calls, RequestAnswered(r) PROVE RotatedIsRevoked'
  BY <1>21, <1>h DEF RequestAnswered, Settle, RotatedIsRevoked, RefreshType, server, tokens, browser
<1>22. ASSUME NEW r \in Calls, RequestUnauthorized(r) PROVE RotatedIsRevoked'
  BY <1>22, <1>h DEF RequestUnauthorized, RedirectToLogin, RefreshSession, RotatedIsRevoked,
     RefreshType, server, tokens, browser
<1>23. ASSUME NEW r \in Calls, RequestFails(r) PROVE RotatedIsRevoked'
  BY <1>23, <1>h DEF RequestFails, Settle, ShellGivesUp, RotatedIsRevoked, RefreshType,
     server, tokens, browser
<1>24. ASSUME UNCHANGED sessionVars PROVE RotatedIsRevoked'
  BY <1>24, <1>h DEF sessionVars, RotatedIsRevoked, RefreshType, server, tokens, browser
  <1> QED   BY <1>1, <1>2, <1>3, <1>4, <1>5, <1>6, <1>7, <1>8, <1>9, <1>10, <1>11, <1>12,
     <1>13, <1>14, <1>15, <1>16, <1>17, <1>18, <1>18a, <1>19, <1>20, <1>21, <1>22, <1>23, <1>24 DEF
     SessionsNext, Form, RefreshCall, Request

LEMMA WaitersStep == ASSUME IInv, [SessionsNext]_sessionVars PROVE WaitersAreServed'
<1>h. WaitersAreServed /\ OneInFlight
  BY DEF IInv
<1> USE SessionsAssumption
<1>1. ASSUME NEW k \in Pairs, RefreshTokenExpires(k) PROVE WaitersAreServed'
  BY <1>1, <1>h DEF RefreshTokenExpires, WaitersAreServed, Heard, RefreshType, RequestType,
     server, tokens, browser
<1>2. ASSUME NEW t \in Tabs, RegisterCheck(t) PROVE WaitersAreServed'
  BY <1>2, <1>h DEF RegisterCheck, WaitersAreServed, Heard, RefreshType, RequestType,
     server, tokens, browser
<1>3. ASSUME NEW t \in Tabs, RegisterInsertUser(t) PROVE WaitersAreServed'
  BY <1>3, <1>h DEF RegisterInsertUser, WaitersAreServed, Heard, RefreshType, RequestType,
     server, tokens, browser
<1>4. ASSUME NEW t \in Tabs, RegisterWrite(t) PROVE WaitersAreServed'
  BY <1>4, <1>h DEF RegisterWrite, WaitersAreServed, Heard, RefreshType, RequestType,
     server, tokens, browser
<1>5. ASSUME NEW t \in Tabs, RegisterCommit(t) PROVE WaitersAreServed'
  BY <1>5, <1>h DEF RegisterCommit, WaitersAreServed, Heard, RefreshType, RequestType,
     server, tokens, browser
<1>6. ASSUME NEW t \in Tabs, FormIssue(t) PROVE WaitersAreServed'
  BY <1>6, <1>h DEF FormIssue, IssueTokenPair, WaitersAreServed, Heard, RefreshType,
     RequestType, server, tokens, browser
<1>7. ASSUME NEW t \in Tabs, FormAnswer(t) PROVE WaitersAreServed'
  BY <1>7, <1>h DEF FormAnswer, WaitersAreServed, Heard, RefreshType, RequestType, server,
     tokens, browser
<1>8. ASSUME NEW t \in Tabs, FormBreaks(t) PROVE WaitersAreServed'
  BY <1>8, <1>h DEF FormBreaks, WaitersAreServed, Heard, RefreshType, RequestType, server,
     tokens, browser
<1>9. ASSUME NEW t \in Tabs, OpenHome(t) PROVE WaitersAreServed'
  BY <1>9, <1>h DEF OpenHome, WaitersAreServed, Heard, RefreshType, RequestType, server,
     tokens, browser
<1>10. ASSUME NEW t \in Tabs, EndSession(t) PROVE WaitersAreServed'
  BY <1>10, <1>h DEF EndSession, WaitersAreServed, Heard, RefreshType, RequestType, server,
     tokens, browser
<1>11. ASSUME NEW t \in Tabs, Logout(t) PROVE WaitersAreServed'
  BY <1>11, <1>h DEF Logout, WaitersAreServed, Heard, RefreshType, RequestType, server,
     tokens, browser
<1>12. ASSUME NEW t \in Tabs, LogoutLost(t) PROVE WaitersAreServed'
  BY <1>12, <1>h DEF LogoutLost, WaitersAreServed, Heard, RefreshType, RequestType, server,
     tokens, browser
<1>13. ASSUME NEW r \in Calls, SendRequest(r) PROVE WaitersAreServed'
  <2>1. CASE req' = [req EXCEPT ![r].pc = "sent"] /\ UNCHANGED <<inFlight, refresh>>
    BY <1>13, <2>1, <1>h, Typed, BrowserTyped DEF SendRequest, WaitersAreServed,
       OneInFlight, Heard, RefreshType, RequestType, Pairs, server, tokens, browser, Idle,
       Quiet, NoForm
  <2>2. CASE Joins(r, "valid")
    BY <1>13, <2>2, <1>h, Typed, BrowserTyped DEF SendRequest, Joins, WaitersAreServed,
       OneInFlight, Heard, RefreshType, RequestType, Pairs, server, tokens, browser, Idle,
       Quiet, NoForm
  <2>3. CASE Starts(r, "valid")
    BY <1>13, <2>3, <1>h, Typed, BrowserTyped DEF SendRequest, Starts, WaitersAreServed,
       OneInFlight, Heard, RefreshType, RequestType, Pairs, server, tokens, browser, Idle,
       Quiet, NoForm
  <2> QED
    BY <1>13, <2>1, <2>2, <2>3, SessionCases DEF SendRequest
<1>14. ASSUME NEW r \in Calls, RefreshRead(r) PROVE WaitersAreServed'
  BY <1>14, <1>h, Typed, BrowserTyped DEF RefreshRead, WaitersAreServed, OneInFlight, Heard,
     RefreshType, RequestType, Pairs, server, tokens, browser, Idle, Quiet, NoForm
<1>15. ASSUME NEW r \in Calls, RefreshSave(r) PROVE WaitersAreServed'
  BY <1>15, <1>h, Typed, BrowserTyped DEF RefreshSave, WaitersAreServed, OneInFlight, Heard,
     RefreshType, RequestType, Pairs, server, tokens, browser, Idle, Quiet, NoForm
<1>16. ASSUME NEW r \in Calls, RefreshIssue(r) PROVE WaitersAreServed'
  BY <1>16, <1>h, Typed, BrowserTyped DEF RefreshIssue, IssueTokenPair, WaitersAreServed,
     OneInFlight, Heard, RefreshType, RequestType, Pairs, server, tokens, browser, Idle, Quiet,
     NoForm
<1>17. ASSUME NEW r \in Calls, RefreshAnswer(r) PROVE WaitersAreServed'
  <2>1. Answers(r)
    BY <1>17, AnswerWakes
  <2> QED
    BY <2>1, <1>h, Typed, BrowserTyped DEF Answers, Wakes, Others, WaitersAreServed,
       OneInFlight, Heard, RefreshType, RequestType, Pairs, server, tokens, browser, Idle,
       Quiet, NoForm
<1>18. ASSUME NEW r \in Calls, RefreshCrash(r) PROVE WaitersAreServed'
  BY <1>18, <1>h, Typed, BrowserTyped DEF RefreshCrash, WaitersAreServed, OneInFlight,
     Heard, RefreshType, RequestType, Pairs, server, tokens, browser, Idle, Quiet, NoForm
<1>18a. ASSUME NEW r \in Calls, RefreshThrows(r) PROVE WaitersAreServed'
  <2>1. Throws(r)
    BY <1>18a, ThrowEnds
  <2> QED
    BY <2>1, <1>h, Typed, BrowserTyped DEF Throws, Others, WaitersAreServed
<1>19. ASSUME NEW r \in Calls, RefreshUnheard(r) PROVE WaitersAreServed'
  BY <1>19, <1>h, Typed, BrowserTyped DEF RefreshUnheard, WaitersAreServed, OneInFlight,
     Heard, RefreshType, RequestType, Pairs, server, tokens, browser, Idle, Quiet, NoForm
<1>20. ASSUME NEW r \in Calls, RefreshBreaks(r) PROVE WaitersAreServed'
  <2>1. Breaks(r)
    BY <1>20, BreakWakes
  <2> QED
    BY <2>1, <1>h, Typed, BrowserTyped DEF Breaks, Wakes, Others, WaitersAreServed,
       OneInFlight, Heard, RefreshType, RequestType, Pairs, server, tokens, browser, Idle,
       Quiet, NoForm
<1>21. ASSUME NEW r \in Calls, RequestAnswered(r) PROVE WaitersAreServed'
  BY <1>21, <1>h, Typed, BrowserTyped DEF RequestAnswered, Settle, WaitersAreServed,
     OneInFlight, Heard, RefreshType, RequestType, Pairs, server, tokens, browser, Idle, Quiet,
     NoForm
<1>22. ASSUME NEW r \in Calls, RequestUnauthorized(r) PROVE WaitersAreServed'
  <2>1. CASE RedirectToLogin(TabOf[r], req) /\ UNCHANGED <<inFlight, refresh>>
    BY <1>22, <2>1, <1>h, Typed, BrowserTyped DEF RequestUnauthorized, RedirectToLogin,
       WaitersAreServed, OneInFlight, Heard, RefreshType, RequestType, Pairs, server, tokens,
       browser, Idle, Quiet, NoForm
  <2>2. CASE Joins(r, "retry") /\ UNCHANGED page
    BY <1>22, <2>2, <1>h, Typed, BrowserTyped DEF RequestUnauthorized, Joins,
       WaitersAreServed, OneInFlight, Heard, RefreshType, RequestType, Pairs, server, tokens,
       browser, Idle, Quiet, NoForm
  <2>3. CASE Starts(r, "retry") /\ UNCHANGED page
    BY <1>22, <2>3, <1>h, Typed, BrowserTyped DEF RequestUnauthorized, Starts,
       WaitersAreServed, OneInFlight, Heard, RefreshType, RequestType, Pairs, server, tokens,
       browser, Idle, Quiet, NoForm
  <2> QED
    BY <1>22, <2>1, <2>2, <2>3, SessionCases DEF RequestUnauthorized
<1>23. ASSUME NEW r \in Calls, RequestFails(r) PROVE WaitersAreServed'
  BY <1>23, <1>h, Typed, BrowserTyped DEF RequestFails, Settle, ShellGivesUp,
     WaitersAreServed, OneInFlight, Heard, RefreshType, RequestType, Pairs, server, tokens,
     browser, Idle, Quiet, NoForm
<1>24. ASSUME UNCHANGED sessionVars PROVE WaitersAreServed'
  BY <1>24, <1>h DEF sessionVars, WaitersAreServed, Heard, RefreshType, RequestType, server,
     tokens, browser
  <1> QED   BY <1>1, <1>2, <1>3, <1>4, <1>5, <1>6, <1>7, <1>8, <1>9, <1>10, <1>11, <1>12,
     <1>13, <1>14, <1>15, <1>16, <1>17, <1>18, <1>18a, <1>19, <1>20, <1>21, <1>22, <1>23, <1>24 DEF
     SessionsNext, Form, RefreshCall, Request

LEMMA KnownStep == ASSUME IInv, [SessionsNext]_sessionVars PROVE Known'
<1>h. Known /\ SessionsTypeOK
  BY DEF IInv
<1> USE SessionsAssumption
<1>1. ASSUME NEW k \in Pairs, RefreshTokenExpires(k) PROVE Known'
  BY <1>1, <1>h DEF RefreshTokenExpires, Known, server, tokens, browser
<1>2. ASSUME NEW t \in Tabs, RegisterCheck(t) PROVE Known'
  BY <1>2, <1>h DEF RegisterCheck, Known, SessionsTypeOK, Pairs, server, tokens, browser, Idle,
     Quiet, NoForm
<1>3. ASSUME NEW t \in Tabs, RegisterInsertUser(t) PROVE Known'
  <2>1. CASE form' = [form EXCEPT ![t] = NoForm] /\ UNCHANGED staged
    BY <1>3, <2>1, <1>h DEF RegisterInsertUser, Known, SessionsTypeOK, Pairs, server, tokens,
       browser, Idle, Quiet, NoForm
  <2>2. CASE /\ staged' = [staged EXCEPT ![t] = {"user"}]
             /\ form' = [form EXCEPT ![t].pc = "writing"]
    BY <1>3, <2>2, <1>h DEF RegisterInsertUser, Known, SessionsTypeOK, Pairs, server, tokens,
       browser, Idle, Quiet, NoForm
  <2> QED
    BY <1>3, <2>1, <2>2 DEF RegisterInsertUser
<1>4. ASSUME NEW t \in Tabs, RegisterWrite(t) PROVE Known'
  BY <1>4, <1>h DEF RegisterWrite, Known, server, tokens, browser
<1>5. ASSUME NEW t \in Tabs, RegisterCommit(t) PROVE Known'
  BY <1>5, <1>h DEF RegisterCommit, Known, SessionsTypeOK, Pairs, server, tokens, browser, Idle,
     Quiet, NoForm
<1>6. ASSUME NEW t \in Tabs, FormIssue(t) PROVE Known'
  BY <1>6, <1>h DEF FormIssue, IssueTokenPair, Known, SessionsTypeOK, Pairs, server, tokens,
     browser, Idle, Quiet, NoForm
<1>7. ASSUME NEW t \in Tabs, FormAnswer(t) PROVE Known'
  BY <1>7, <1>h DEF FormAnswer, Known, SessionsTypeOK, Pairs, server, tokens, browser, Idle, Quiet, NoForm
<1>8. ASSUME NEW t \in Tabs, FormBreaks(t) PROVE Known'
  BY <1>8, <1>h DEF FormBreaks, Known, SessionsTypeOK, Pairs, server, tokens, browser, Idle, Quiet, NoForm
<1>9. ASSUME NEW t \in Tabs, OpenHome(t) PROVE Known'
  BY <1>9, <1>h DEF OpenHome, Known, server, tokens, browser
<1>10. ASSUME NEW t \in Tabs, EndSession(t) PROVE Known'
  BY <1>10, <1>h DEF EndSession, Known, SessionsTypeOK, Pairs, server, tokens, browser, Idle, Quiet, NoForm
<1>11. ASSUME NEW t \in Tabs, Logout(t) PROVE Known'
  BY <1>11, <1>h DEF Logout, Known, SessionsTypeOK, Pairs, server, tokens, browser, Idle, Quiet, NoForm
<1>12. ASSUME NEW t \in Tabs, LogoutLost(t) PROVE Known'
  BY <1>12, <1>h DEF LogoutLost, Known, SessionsTypeOK, Pairs, server, tokens, browser, Idle, Quiet, NoForm
<1>13. ASSUME NEW r \in Calls, SendRequest(r) PROVE Known'
  <2>1. CASE req' = [req EXCEPT ![r].pc = "sent"] /\ UNCHANGED <<inFlight, refresh>>
    BY <1>13, <2>1, <1>h DEF SendRequest, Known, SessionsTypeOK, Pairs, server, tokens, browser,
       Idle, Quiet, NoForm
  <2>2. CASE Joins(r, "valid")
    BY <1>13, <2>2, <1>h DEF SendRequest, Joins, Known, SessionsTypeOK, Pairs, server, tokens,
       browser, Idle, Quiet, NoForm
  <2>3. CASE Starts(r, "valid")
    BY <1>13, <2>3, <1>h DEF SendRequest, Starts, Known, SessionsTypeOK, Pairs, server, tokens,
       browser, Idle, Quiet, NoForm
  <2> QED
    BY <1>13, <2>1, <2>2, <2>3, SessionCases DEF SendRequest
<1>14. ASSUME NEW r \in Calls, RefreshRead(r) PROVE Known'
  BY <1>14, <1>h DEF RefreshRead, Known, SessionsTypeOK, Pairs, server, tokens, browser, Idle, Quiet, NoForm
<1>15. ASSUME NEW r \in Calls, RefreshSave(r) PROVE Known'
  BY <1>15, <1>h DEF RefreshSave, Known, SessionsTypeOK, Pairs, server, tokens, browser, Idle, Quiet, NoForm
<1>16. ASSUME NEW r \in Calls, RefreshIssue(r) PROVE Known'
  <2>1. PICK k \in Pairs : Issues(r, k)
    BY <1>16, IssueFollows
  <2>2. /\ k = issued + 1 /\ issued' = k /\ issued \in Nat /\ UNCHANGED <<stored, form, logout, by>>
        /\ \A q \in Calls : /\ refresh'[q].token = refresh[q].token
                            /\ refresh'[q].got \in {k, refresh[q].got}
        /\ \A n \in Pairs : parent'[n] \in {parent[n], refresh[r].token}
    BY <2>1, <1>h, Typed DEF Issues, Others, browser
  <2>3. /\ stored \in Nat /\ \A t \in Tabs : form[t].got \in Nat /\ logout[t] \in Nat
        /\ \A q \in Calls : refresh[q].token \in Nat /\ refresh[q].got \in Nat
        /\ \A n \in Pairs : parent[n] \in Nat /\ n \in Nat
    BY Typed, BrowserTyped DEF FormType, RefreshType, Pairs
  <2> QED
    BY <2>2, <2>3, <1>h DEF Known, Pairs
<1>17. ASSUME NEW r \in Calls, RefreshAnswer(r) PROVE Known'
  <2>1. Answers(r)
    BY <1>17, AnswerWakes
  <2> QED
    BY <2>1, <1>h DEF Answers, Wakes, Others, Known, SessionsTypeOK, Pairs, server, tokens, browser,
       Idle, Quiet, NoForm
<1>18. ASSUME NEW r \in Calls, RefreshCrash(r) PROVE Known'
  BY <1>18, <1>h DEF RefreshCrash, Known, SessionsTypeOK, Pairs, server, tokens, browser, Idle,
     Quiet, NoForm
<1>18a. ASSUME NEW r \in Calls, RefreshThrows(r) PROVE Known'
  <2>1. Throws(r)
    BY <1>18a, ThrowEnds
  <2> QED
    BY <2>1, <1>h, Typed, BrowserTyped DEF Throws, Others, Known
<1>19. ASSUME NEW r \in Calls, RefreshUnheard(r) PROVE Known'
  BY <1>19, <1>h DEF RefreshUnheard, Known, SessionsTypeOK, Pairs, server, tokens, browser, Idle,
     Quiet, NoForm
<1>20. ASSUME NEW r \in Calls, RefreshBreaks(r) PROVE Known'
  <2>1. Breaks(r)
    BY <1>20, BreakWakes
  <2> QED
    BY <2>1, <1>h DEF Breaks, Wakes, Others, Known, SessionsTypeOK, Pairs, server, tokens, browser,
       Idle, Quiet, NoForm
<1>21. ASSUME NEW r \in Calls, RequestAnswered(r) PROVE Known'
  BY <1>21, <1>h DEF RequestAnswered, Settle, Known, server, tokens, browser
<1>22. ASSUME NEW r \in Calls, RequestUnauthorized(r) PROVE Known'
  <2>1. CASE RedirectToLogin(TabOf[r], req) /\ UNCHANGED <<inFlight, refresh>>
    BY <1>22, <2>1, <1>h DEF RequestUnauthorized, RedirectToLogin, Known, SessionsTypeOK, Pairs,
       server, tokens, browser, Idle, Quiet, NoForm
  <2>2. CASE Joins(r, "retry") /\ UNCHANGED page
    BY <1>22, <2>2, <1>h DEF RequestUnauthorized, Joins, Known, SessionsTypeOK, Pairs, server,
       tokens, browser, Idle, Quiet, NoForm
  <2>3. CASE Starts(r, "retry") /\ UNCHANGED page
    BY <1>22, <2>3, <1>h DEF RequestUnauthorized, Starts, Known, SessionsTypeOK, Pairs, server,
       tokens, browser, Idle, Quiet, NoForm
  <2> QED
    BY <1>22, <2>1, <2>2, <2>3, SessionCases DEF RequestUnauthorized
<1>23. ASSUME NEW r \in Calls, RequestFails(r) PROVE Known'
  BY <1>23, <1>h DEF RequestFails, Settle, ShellGivesUp, Known, SessionsTypeOK, Pairs, server,
     tokens, browser, Idle, Quiet, NoForm
<1>24. ASSUME UNCHANGED sessionVars PROVE Known'
  BY <1>24, <1>h DEF sessionVars, Known, server, tokens, browser
  <1> QED   BY <1>1, <1>2, <1>3, <1>4, <1>5, <1>6, <1>7, <1>8, <1>9, <1>10, <1>11, <1>12,
     <1>13, <1>14, <1>15, <1>16, <1>17, <1>18, <1>18a, <1>19, <1>20, <1>21, <1>22, <1>23, <1>24 DEF
     SessionsNext, Form, RefreshCall, Request

LEMMA ExchangesStep == ASSUME IInv, [SessionsNext]_sessionVars PROVE Exchanges'
<1>h. Exchanges
  BY DEF IInv
<1> USE SessionsAssumption
<1>1. ASSUME NEW k \in Pairs, RefreshTokenExpires(k) PROVE Exchanges'
  BY <1>1, <1>h DEF RefreshTokenExpires, Exchanges, RefreshType, server, tokens, browser
<1>2. ASSUME NEW t \in Tabs, RegisterCheck(t) PROVE Exchanges'
  BY <1>2, <1>h DEF RegisterCheck, Exchanges, RefreshType, server, tokens, browser
<1>3. ASSUME NEW t \in Tabs, RegisterInsertUser(t) PROVE Exchanges'
  BY <1>3, <1>h DEF RegisterInsertUser, Exchanges, RefreshType, server, tokens, browser
<1>4. ASSUME NEW t \in Tabs, RegisterWrite(t) PROVE Exchanges'
  BY <1>4, <1>h DEF RegisterWrite, Exchanges, RefreshType, server, tokens, browser
<1>5. ASSUME NEW t \in Tabs, RegisterCommit(t) PROVE Exchanges'
  BY <1>5, <1>h DEF RegisterCommit, Exchanges, RefreshType, server, tokens, browser
<1>6. ASSUME NEW t \in Tabs, FormIssue(t) PROVE Exchanges'
  BY <1>6, <1>h DEF FormIssue, IssueTokenPair, Exchanges, RefreshType, server, tokens, browser
<1>7. ASSUME NEW t \in Tabs, FormAnswer(t) PROVE Exchanges'
  BY <1>7, <1>h DEF FormAnswer, Exchanges, RefreshType, server, tokens, browser
<1>8. ASSUME NEW t \in Tabs, FormBreaks(t) PROVE Exchanges'
  BY <1>8, <1>h DEF FormBreaks, Exchanges, RefreshType, server, tokens, browser
<1>9. ASSUME NEW t \in Tabs, OpenHome(t) PROVE Exchanges'
  BY <1>9, <1>h DEF OpenHome, Exchanges, RefreshType, server, tokens, browser
<1>10. ASSUME NEW t \in Tabs, EndSession(t) PROVE Exchanges'
  BY <1>10, <1>h DEF EndSession, Exchanges, RefreshType, server, tokens, browser
<1>11. ASSUME NEW t \in Tabs, Logout(t) PROVE Exchanges'
  BY <1>11, <1>h DEF Logout, Exchanges, RefreshType, server, tokens, browser
<1>12. ASSUME NEW t \in Tabs, LogoutLost(t) PROVE Exchanges'
  BY <1>12, <1>h DEF LogoutLost, Exchanges, RefreshType, server, tokens, browser
<1>13. ASSUME NEW r \in Calls, SendRequest(r) PROVE Exchanges'
  <2>1. CASE req' = [req EXCEPT ![r].pc = "sent"] /\ UNCHANGED <<inFlight, refresh>>
    BY <1>13, <2>1, <1>h, Typed, BrowserTyped DEF SendRequest, Exchanges, RefreshType,
       Pairs, server, tokens, browser, Idle, Quiet, NoForm
  <2>2. CASE Joins(r, "valid")
    BY <1>13, <2>2, <1>h, Typed, BrowserTyped DEF SendRequest, Joins, Exchanges,
       RefreshType, Pairs, server, tokens, browser, Idle, Quiet, NoForm
  <2>3. CASE Starts(r, "valid")
    BY <1>13, <2>3, <1>h, Typed, BrowserTyped DEF SendRequest, Starts, Exchanges,
       RefreshType, Pairs, server, tokens, browser, Idle, Quiet, NoForm
  <2> QED
    BY <1>13, <2>1, <2>2, <2>3, SessionCases DEF SendRequest
<1>14. ASSUME NEW r \in Calls, RefreshRead(r) PROVE Exchanges'
  BY <1>14, <1>h, Typed, BrowserTyped DEF RefreshRead, Exchanges, RefreshType, Pairs,
     server, tokens, browser, Idle, Quiet, NoForm
<1>15. ASSUME NEW r \in Calls, RefreshSave(r) PROVE Exchanges'
  BY <1>15, <1>h, Typed, BrowserTyped DEF RefreshSave, Exchanges, RefreshType, Pairs,
     server, tokens, browser, Idle, Quiet, NoForm
<1>16. ASSUME NEW r \in Calls, RefreshIssue(r) PROVE Exchanges'
  <2>1. PICK k \in Pairs : Issues(r, k)
    BY <1>16, IssueFollows
  <2> QED
    BY <2>1, <1>h, Typed, BrowserTyped DEF Issues, Others, Exchanges
<1>17. ASSUME NEW r \in Calls, RefreshAnswer(r) PROVE Exchanges'
  <2>1. Answers(r)
    BY <1>17, AnswerWakes
  <2> QED
    BY <2>1, <1>h, Typed, BrowserTyped DEF Answers, Wakes, Others, Exchanges, RefreshType,
       Pairs, server, tokens, browser, Idle, Quiet, NoForm
<1>18. ASSUME NEW r \in Calls, RefreshCrash(r) PROVE Exchanges'
  BY <1>18, <1>h, Typed, BrowserTyped DEF RefreshCrash, Exchanges, RefreshType, Pairs,
     server, tokens, browser, Idle, Quiet, NoForm
<1>18a. ASSUME NEW r \in Calls, RefreshThrows(r) PROVE Exchanges'
  <2>1. Throws(r)
    BY <1>18a, ThrowEnds
  <2> QED
    BY <2>1, <1>h, Typed, BrowserTyped DEF Throws, Others, Exchanges
<1>19. ASSUME NEW r \in Calls, RefreshUnheard(r) PROVE Exchanges'
  BY <1>19, <1>h, Typed, BrowserTyped DEF RefreshUnheard, Exchanges, RefreshType, Pairs,
     server, tokens, browser, Idle, Quiet, NoForm
<1>20. ASSUME NEW r \in Calls, RefreshBreaks(r) PROVE Exchanges'
  <2>1. Breaks(r)
    BY <1>20, BreakWakes
  <2>2. ASSUME NEW q \in Calls, q # r
        PROVE  refresh'[q] = refresh[q] /\ lost \subseteq lost'
    BY <2>1, <2>2 DEF Breaks, Others
  <2>3. /\ refresh'[r].pc = refresh[r].pc /\ refresh'[r].pc # "none"
        /\ refresh'[r].token = refresh[r].token /\ refresh'[r].got = refresh[r].got
        /\ refresh[r].token \in lost'
    BY <2>1 DEF Breaks
  <2> QED
    BY <2>2, <2>3, <1>h, Typed, BrowserTyped DEF Exchanges
<1>21. ASSUME NEW r \in Calls, RequestAnswered(r) PROVE Exchanges'
  BY <1>21, <1>h DEF RequestAnswered, Settle, Exchanges, RefreshType, server, tokens, browser
<1>22. ASSUME NEW r \in Calls, RequestUnauthorized(r) PROVE Exchanges'
  <2>1. CASE RedirectToLogin(TabOf[r], req) /\ UNCHANGED <<inFlight, refresh>>
    BY <1>22, <2>1, <1>h, Typed, BrowserTyped DEF RequestUnauthorized, RedirectToLogin,
       Exchanges, RefreshType, Pairs, server, tokens, browser, Idle, Quiet, NoForm
  <2>2. CASE Joins(r, "retry") /\ UNCHANGED page
    BY <1>22, <2>2, <1>h, Typed, BrowserTyped DEF RequestUnauthorized, Joins, Exchanges,
       RefreshType, Pairs, server, tokens, browser, Idle, Quiet, NoForm
  <2>3. CASE Starts(r, "retry") /\ UNCHANGED page
    BY <1>22, <2>3, <1>h, Typed, BrowserTyped DEF RequestUnauthorized, Starts, Exchanges,
       RefreshType, Pairs, server, tokens, browser, Idle, Quiet, NoForm
  <2> QED
    BY <1>22, <2>1, <2>2, <2>3, SessionCases DEF RequestUnauthorized
<1>23. ASSUME NEW r \in Calls, RequestFails(r) PROVE Exchanges'
  BY <1>23, <1>h DEF RequestFails, Settle, ShellGivesUp, Exchanges, RefreshType, server,
     tokens, browser
<1>24. ASSUME UNCHANGED sessionVars PROVE Exchanges'
  BY <1>24, <1>h DEF sessionVars, Exchanges, RefreshType, server, tokens, browser
  <1> QED   BY <1>1, <1>2, <1>3, <1>4, <1>5, <1>6, <1>7, <1>8, <1>9, <1>10, <1>11, <1>12,
     <1>13, <1>14, <1>15, <1>16, <1>17, <1>18, <1>18a, <1>19, <1>20, <1>21, <1>22, <1>23, <1>24 DEF
     SessionsNext, Form, RefreshCall, Request

LEMMA InFlightStep == ASSUME IInv, [SessionsNext]_sessionVars PROVE OneInFlight'
<1>h. OneInFlight
  BY DEF IInv
<1> USE SessionsAssumption
<1>1. ASSUME NEW k \in Pairs, RefreshTokenExpires(k) PROVE OneInFlight'
  BY <1>1, <1>h DEF RefreshTokenExpires, OneInFlight, Heard, RefreshType, server, tokens, browser
<1>2. ASSUME NEW t \in Tabs, RegisterCheck(t) PROVE OneInFlight'
  BY <1>2, <1>h DEF RegisterCheck, OneInFlight, Heard, RefreshType, server, tokens, browser
<1>3. ASSUME NEW t \in Tabs, RegisterInsertUser(t) PROVE OneInFlight'
  BY <1>3, <1>h DEF RegisterInsertUser, OneInFlight, Heard, RefreshType, server, tokens, browser
<1>4. ASSUME NEW t \in Tabs, RegisterWrite(t) PROVE OneInFlight'
  BY <1>4, <1>h DEF RegisterWrite, OneInFlight, Heard, RefreshType, server, tokens, browser
<1>5. ASSUME NEW t \in Tabs, RegisterCommit(t) PROVE OneInFlight'
  BY <1>5, <1>h DEF RegisterCommit, OneInFlight, Heard, RefreshType, server, tokens, browser
<1>6. ASSUME NEW t \in Tabs, FormIssue(t) PROVE OneInFlight'
  BY <1>6, <1>h DEF FormIssue, IssueTokenPair, OneInFlight, Heard, RefreshType, server,
     tokens, browser
<1>7. ASSUME NEW t \in Tabs, FormAnswer(t) PROVE OneInFlight'
  BY <1>7, <1>h DEF FormAnswer, OneInFlight, Heard, RefreshType, server, tokens, browser
<1>8. ASSUME NEW t \in Tabs, FormBreaks(t) PROVE OneInFlight'
  BY <1>8, <1>h DEF FormBreaks, OneInFlight, Heard, RefreshType, server, tokens, browser
<1>9. ASSUME NEW t \in Tabs, OpenHome(t) PROVE OneInFlight'
  BY <1>9, <1>h DEF OpenHome, OneInFlight, Heard, RefreshType, server, tokens, browser
<1>10. ASSUME NEW t \in Tabs, EndSession(t) PROVE OneInFlight'
  BY <1>10, <1>h DEF EndSession, OneInFlight, Heard, RefreshType, server, tokens, browser
<1>11. ASSUME NEW t \in Tabs, Logout(t) PROVE OneInFlight'
  BY <1>11, <1>h DEF Logout, OneInFlight, Heard, RefreshType, server, tokens, browser
<1>12. ASSUME NEW t \in Tabs, LogoutLost(t) PROVE OneInFlight'
  BY <1>12, <1>h DEF LogoutLost, OneInFlight, Heard, RefreshType, server, tokens, browser
<1>13. ASSUME NEW r \in Calls, SendRequest(r) PROVE OneInFlight'
  <2>1. CASE req' = [req EXCEPT ![r].pc = "sent"] /\ UNCHANGED <<inFlight, refresh>>
    BY <1>13, <2>1, <1>h, Typed, BrowserTyped DEF SendRequest, OneInFlight, Heard,
       RefreshType, Pairs, server, tokens, browser, Idle, Quiet, NoForm
  <2>2. CASE Joins(r, "valid")
    BY <1>13, <2>2, <1>h, Typed, BrowserTyped DEF SendRequest, Joins, OneInFlight, Heard,
       RefreshType, Pairs, server, tokens, browser, Idle, Quiet, NoForm
  <2>3. CASE Starts(r, "valid")
    BY <1>13, <2>3, <1>h, Typed, BrowserTyped DEF SendRequest, Starts, OneInFlight, Heard,
       RefreshType, Pairs, server, tokens, browser, Idle, Quiet, NoForm
  <2> QED
    BY <1>13, <2>1, <2>2, <2>3, SessionCases DEF SendRequest
<1>14. ASSUME NEW r \in Calls, RefreshRead(r) PROVE OneInFlight'
  BY <1>14, <1>h, Typed, BrowserTyped DEF RefreshRead, OneInFlight, Heard, RefreshType,
     Pairs, server, tokens, browser, Idle, Quiet, NoForm
<1>15. ASSUME NEW r \in Calls, RefreshSave(r) PROVE OneInFlight'
  BY <1>15, <1>h, Typed, BrowserTyped DEF RefreshSave, OneInFlight, Heard, RefreshType,
     Pairs, server, tokens, browser, Idle, Quiet, NoForm
<1>16. ASSUME NEW r \in Calls, RefreshIssue(r) PROVE OneInFlight'
  BY <1>16, <1>h, Typed, BrowserTyped DEF RefreshIssue, IssueTokenPair, OneInFlight, Heard,
     RefreshType, Pairs, server, tokens, browser, Idle, Quiet, NoForm
<1>17. ASSUME NEW r \in Calls, RefreshAnswer(r) PROVE OneInFlight'
  <2>1. Answers(r)
    BY <1>17, AnswerWakes
  <2> QED
    BY <2>1, <1>h, Typed, BrowserTyped DEF Answers, Wakes, Others, OneInFlight, Heard,
       RefreshType, Pairs, server, tokens, browser, Idle, Quiet, NoForm
<1>18. ASSUME NEW r \in Calls, RefreshCrash(r) PROVE OneInFlight'
  BY <1>18, <1>h, Typed, BrowserTyped DEF RefreshCrash, OneInFlight, Heard, RefreshType,
     Pairs, server, tokens, browser, Idle, Quiet, NoForm
<1>18a. ASSUME NEW r \in Calls, RefreshThrows(r) PROVE OneInFlight'
  <2>1. Throws(r)
    BY <1>18a, ThrowEnds
  <2> QED
    BY <2>1, <1>h, Typed, BrowserTyped DEF Throws, Others, OneInFlight, Heard
<1>19. ASSUME NEW r \in Calls, RefreshUnheard(r) PROVE OneInFlight'
  BY <1>19, <1>h, Typed, BrowserTyped DEF RefreshUnheard, OneInFlight, Heard, RefreshType,
     Pairs, server, tokens, browser, Idle, Quiet, NoForm
<1>20. ASSUME NEW r \in Calls, RefreshBreaks(r) PROVE OneInFlight'
  <2>1. Breaks(r)
    BY <1>20, BreakWakes
  <2> QED
    BY <2>1, <1>h, Typed, BrowserTyped DEF Breaks, Wakes, Others, OneInFlight, Heard,
       RefreshType, Pairs, server, tokens, browser, Idle, Quiet, NoForm
<1>21. ASSUME NEW r \in Calls, RequestAnswered(r) PROVE OneInFlight'
  BY <1>21, <1>h DEF RequestAnswered, Settle, OneInFlight, Heard, RefreshType, server,
     tokens, browser
<1>22. ASSUME NEW r \in Calls, RequestUnauthorized(r) PROVE OneInFlight'
  <2>1. CASE RedirectToLogin(TabOf[r], req) /\ UNCHANGED <<inFlight, refresh>>
    BY <1>22, <2>1, <1>h, Typed, BrowserTyped DEF RequestUnauthorized, RedirectToLogin,
       OneInFlight, Heard, RefreshType, Pairs, server, tokens, browser, Idle, Quiet, NoForm
  <2>2. CASE Joins(r, "retry") /\ UNCHANGED page
    BY <1>22, <2>2, <1>h, Typed, BrowserTyped DEF RequestUnauthorized, Joins, OneInFlight,
       Heard, RefreshType, Pairs, server, tokens, browser, Idle, Quiet, NoForm
  <2>3. CASE Starts(r, "retry") /\ UNCHANGED page
    BY <1>22, <2>3, <1>h, Typed, BrowserTyped DEF RequestUnauthorized, Starts, OneInFlight,
       Heard, RefreshType, Pairs, server, tokens, browser, Idle, Quiet, NoForm
  <2> QED
    BY <1>22, <2>1, <2>2, <2>3, SessionCases DEF RequestUnauthorized
<1>23. ASSUME NEW r \in Calls, RequestFails(r) PROVE OneInFlight'
  BY <1>23, <1>h DEF RequestFails, Settle, ShellGivesUp, OneInFlight, Heard, RefreshType,
     server, tokens, browser
<1>24. ASSUME UNCHANGED sessionVars PROVE OneInFlight'
  BY <1>24, <1>h DEF sessionVars, OneInFlight, Heard, RefreshType, server, tokens, browser
  <1> QED   BY <1>1, <1>2, <1>3, <1>4, <1>5, <1>6, <1>7, <1>8, <1>9, <1>10, <1>11, <1>12,
     <1>13, <1>14, <1>15, <1>16, <1>17, <1>18, <1>18a, <1>19, <1>20, <1>21, <1>22, <1>23, <1>24 DEF
     SessionsNext, Form, RefreshCall, Request

LEMMA RevokersStep == ASSUME IInv, [SessionsNext]_sessionVars PROVE Revokers'
<1>h. Revokers /\ Known /\ Exchanges
  BY DEF IInv
<1> USE SessionsAssumption, FS_EmptySet
<1>1. ASSUME NEW k \in Pairs, RefreshTokenExpires(k) PROVE Revokers'
  BY <1>1, <1>h, Typed, BrowserTyped DEF RefreshTokenExpires, Revokers, Known, Exchanges,
     RefreshType, Pairs, server, tokens, browser, Idle, Quiet, NoForm
<1>2. ASSUME NEW t \in Tabs, RegisterCheck(t) PROVE Revokers'
  BY <1>2, <1>h DEF RegisterCheck, Revokers, RefreshType, server, tokens, browser
<1>3. ASSUME NEW t \in Tabs, RegisterInsertUser(t) PROVE Revokers'
  BY <1>3, <1>h DEF RegisterInsertUser, Revokers, RefreshType, server, tokens, browser
<1>4. ASSUME NEW t \in Tabs, RegisterWrite(t) PROVE Revokers'
  BY <1>4, <1>h DEF RegisterWrite, Revokers, RefreshType, server, tokens, browser
<1>5. ASSUME NEW t \in Tabs, RegisterCommit(t) PROVE Revokers'
  BY <1>5, <1>h DEF RegisterCommit, Revokers, RefreshType, server, tokens, browser
<1>6. ASSUME NEW t \in Tabs, FormIssue(t) PROVE Revokers'
  BY <1>6, <1>h, Typed, BrowserTyped DEF FormIssue, IssueTokenPair, Revokers, Known,
     Exchanges, RefreshType, Pairs, server, tokens, browser, Idle, Quiet, NoForm
<1>7. ASSUME NEW t \in Tabs, FormAnswer(t) PROVE Revokers'
  BY <1>7, <1>h DEF FormAnswer, Revokers, RefreshType, server, tokens, browser
<1>8. ASSUME NEW t \in Tabs, FormBreaks(t) PROVE Revokers'
  BY <1>8, <1>h DEF FormBreaks, Revokers, RefreshType, server, tokens, browser
<1>9. ASSUME NEW t \in Tabs, OpenHome(t) PROVE Revokers'
  BY <1>9, <1>h DEF OpenHome, Revokers, RefreshType, server, tokens, browser
<1>10. ASSUME NEW t \in Tabs, EndSession(t) PROVE Revokers'
  BY <1>10, <1>h DEF EndSession, Revokers, RefreshType, server, tokens, browser
<1>11. ASSUME NEW t \in Tabs, Logout(t) PROVE Revokers'
  <2>1. Revokes(logout[t], SignOut)
    BY <1>11, LogoutRevokes
  <2>2. \A k \in Pairs : row'[k] = "revoked" => by'[k] # {}
    BY <2>1, <1>h, Typed, BrowserTyped DEF Revokers, Revokes
  <2>3. UNCHANGED refresh
    BY <1>11 DEF Logout
  <2>4. \A r \in Calls : refresh[r].pc = "saved" => refresh[r].token \in Pairs
    BY TokenIssued
  <2> QED
    BY <2>1, <2>2, <2>3, <2>4, <1>h, Typed, BrowserTyped DEF Revokers, Revokes
<1>12. ASSUME NEW t \in Tabs, LogoutLost(t) PROVE Revokers'
  BY <1>12, <1>h DEF LogoutLost, Revokers, RefreshType, server, tokens, browser
<1>13. ASSUME NEW r \in Calls, SendRequest(r) PROVE Revokers'
  <2>1. CASE req' = [req EXCEPT ![r].pc = "sent"] /\ UNCHANGED <<inFlight, refresh>>
    BY <1>13, <2>1, <1>h, Typed, BrowserTyped DEF SendRequest, Revokers, Known, Exchanges,
       RefreshType, Pairs, server, tokens, browser, Idle, Quiet, NoForm
  <2>2. CASE Joins(r, "valid")
    BY <1>13, <2>2, <1>h, Typed, BrowserTyped DEF SendRequest, Joins, Revokers, Known,
       Exchanges, RefreshType, Pairs, server, tokens, browser, Idle, Quiet, NoForm
  <2>3. CASE Starts(r, "valid")
    BY <1>13, <2>3, <1>h, Typed, BrowserTyped DEF SendRequest, Starts, Revokers, Known,
       Exchanges, RefreshType, Pairs, server, tokens, browser, Idle, Quiet, NoForm
  <2> QED
    BY <1>13, <2>1, <2>2, <2>3, SessionCases DEF SendRequest
<1>14. ASSUME NEW r \in Calls, RefreshRead(r) PROVE Revokers'
  BY <1>14, <1>h, Typed, BrowserTyped DEF RefreshRead, Revokers, Known, Exchanges,
     RefreshType, Pairs, server, tokens, browser, Idle, Quiet, NoForm
<1>15. ASSUME NEW r \in Calls, RefreshSave(r) PROVE Revokers'
  <2>1. Saves(r)
    BY <1>15, SaveRevokes
  <2>2. \A k \in Pairs : row'[k] = "revoked" => by'[k] # {}
    BY ZenonT(60), <2>1, <1>h, Typed, BrowserTyped DEF Saves, Revokes, Revokers
  <2>3. \A q \in Calls : refresh[q].pc = "saved" => refresh[q].token \in Pairs
    BY TokenIssued
  <2>4. ASSUME NEW q \in Calls, refresh'[q].pc = "saved"
        PROVE  row'[refresh'[q].token] = "revoked" /\ TabOf[q] \in by'[refresh'[q].token]
    <3>1. CASE q = r
      BY <3>1, <2>1, Typed DEF Saves, Revokes
    <3>2. CASE q # r
      <4>1. refresh'[q] = refresh[q] /\ refresh[q].pc = "saved"
        BY <3>2, <2>1, <2>4 DEF Saves, Others
      <4> QED
        BY <4>1, <2>1, <2>3, <1>h, Typed, BrowserTyped DEF Saves, Revokes, Revokers
    <3> QED
      BY <3>1, <3>2
  <2> QED
    BY <2>1, <2>2, <2>4 DEF Saves, Revokes, Revokers
<1>16. ASSUME NEW r \in Calls, RefreshIssue(r) PROVE Revokers'
  BY <1>16, <1>h, Typed, BrowserTyped DEF RefreshIssue, IssueTokenPair, Revokers, Known,
     Exchanges, RefreshType, Pairs, server, tokens, browser, Idle, Quiet, NoForm
<1>17. ASSUME NEW r \in Calls, RefreshAnswer(r) PROVE Revokers'
  <2>1. Answers(r)
    BY <1>17, AnswerWakes
  <2> QED
    BY <2>1, <1>h, Typed, BrowserTyped DEF Answers, Others, Revokers, Known, Exchanges,
       RefreshType, Pairs, server, tokens, browser, Idle, Quiet, NoForm
<1>18. ASSUME NEW r \in Calls, RefreshCrash(r) PROVE Revokers'
  BY <1>18, <1>h, Typed, BrowserTyped DEF RefreshCrash, Revokers, Known, Exchanges,
     RefreshType, Pairs, server, tokens, browser, Idle, Quiet, NoForm
<1>18a. ASSUME NEW r \in Calls, RefreshThrows(r) PROVE Revokers'
  <2>1. Throws(r)
    BY <1>18a, ThrowEnds
  <2> QED
    BY <2>1, <1>h, Typed, BrowserTyped DEF Throws, Others, Revokers
<1>19. ASSUME NEW r \in Calls, RefreshUnheard(r) PROVE Revokers'
  BY <1>19, <1>h, Typed, BrowserTyped DEF RefreshUnheard, Revokers, Known, Exchanges,
     RefreshType, Pairs, server, tokens, browser, Idle, Quiet, NoForm
<1>20. ASSUME NEW r \in Calls, RefreshBreaks(r) PROVE Revokers'
  <2>1. Breaks(r)
    BY <1>20, BreakWakes
  <2> QED
    BY <2>1, <1>h, Typed, BrowserTyped DEF Breaks, Others, Revokers, Known, Exchanges,
       RefreshType, Pairs, server, tokens, browser, Idle, Quiet, NoForm
<1>21. ASSUME NEW r \in Calls, RequestAnswered(r) PROVE Revokers'
  BY <1>21, <1>h DEF RequestAnswered, Settle, Revokers, RefreshType, server, tokens, browser
<1>22. ASSUME NEW r \in Calls, RequestUnauthorized(r) PROVE Revokers'
  <2>1. CASE RedirectToLogin(TabOf[r], req) /\ UNCHANGED <<inFlight, refresh>>
    BY <1>22, <2>1, <1>h, Typed, BrowserTyped DEF RequestUnauthorized, RedirectToLogin,
       Revokers, Known, Exchanges, RefreshType, Pairs, server, tokens, browser, Idle, Quiet,
       NoForm
  <2>2. CASE Joins(r, "retry") /\ UNCHANGED page
    BY <1>22, <2>2, <1>h, Typed, BrowserTyped DEF RequestUnauthorized, Joins, Revokers,
       Known, Exchanges, RefreshType, Pairs, server, tokens, browser, Idle, Quiet, NoForm
  <2>3. CASE Starts(r, "retry") /\ UNCHANGED page
    BY <1>22, <2>3, <1>h, Typed, BrowserTyped DEF RequestUnauthorized, Starts, Revokers,
       Known, Exchanges, RefreshType, Pairs, server, tokens, browser, Idle, Quiet, NoForm
  <2> QED
    BY <1>22, <2>1, <2>2, <2>3, SessionCases DEF RequestUnauthorized
<1>23. ASSUME NEW r \in Calls, RequestFails(r) PROVE Revokers'
  BY <1>23, <1>h DEF RequestFails, Settle, ShellGivesUp, Revokers, RefreshType, server,
     tokens, browser
<1>24. ASSUME UNCHANGED sessionVars PROVE Revokers'
  BY <1>24, <1>h DEF sessionVars, Revokers, RefreshType, server, tokens, browser
  <1> QED   BY <1>1, <1>2, <1>3, <1>4, <1>5, <1>6, <1>7, <1>8, <1>9, <1>10, <1>11, <1>12,
     <1>13, <1>14, <1>15, <1>16, <1>17, <1>18, <1>18a, <1>19, <1>20, <1>21, <1>22, <1>23, <1>24 DEF
     SessionsNext, Form, RefreshCall, Request

LEMMA NewPairsStep == ASSUME IInv, [SessionsNext]_sessionVars PROVE NewPairs'
<1>h. NewPairs /\ SessionsTypeOK /\ Known /\ Exchanges
  BY DEF IInv
<1> USE SessionsAssumption
<1>1. ASSUME NEW k \in Pairs, RefreshTokenExpires(k) PROVE NewPairs'
  BY <1>1, <1>h DEF RefreshTokenExpires, NewPairs, Undelivered, server, tokens, browser
<1>2. ASSUME NEW t \in Tabs, RegisterCheck(t) PROVE NewPairs'
  <2>1. \A u \in Tabs : form'[u].got \in {0, form[u].got}
    BY <1>2, Typed DEF RegisterCheck, FormType
  <2> QED
    BY <1>2, <2>1, NewPairsKept DEF RegisterCheck, server, tokens, browser
<1>3. ASSUME NEW t \in Tabs, RegisterInsertUser(t) PROVE NewPairs'
  <2>1. \A u \in Tabs : form'[u].got \in {0, form[u].got}
    <3>1. CASE form' = [form EXCEPT ![t] = NoForm]
      BY <3>1, Typed DEF FormType, NoForm
    <3>2. CASE form' = [form EXCEPT ![t].pc = "writing"]
      BY <3>2, Typed DEF FormType
    <3> QED
      BY <1>3, <3>1, <3>2 DEF RegisterInsertUser
  <2> QED
    BY <1>3, <2>1, NewPairsKept DEF RegisterInsertUser, tokens, browser
<1>4. ASSUME NEW t \in Tabs, RegisterWrite(t) PROVE NewPairs'
  BY <1>4, <1>h DEF RegisterWrite, NewPairs, Undelivered, server, tokens, browser
<1>5. ASSUME NEW t \in Tabs, RegisterCommit(t) PROVE NewPairs'
  <2>1. \A u \in Tabs : form'[u].got \in {0, form[u].got}
    BY <1>5, Typed DEF RegisterCommit, FormType
  <2> QED
    BY <1>5, <2>1, NewPairsKept DEF RegisterCommit, server, tokens, browser
<1>6. ASSUME NEW t \in Tabs, FormIssue(t) PROVE NewPairs'
  <2>1. PICK k \in Pairs : /\ k = issued + 1
                          /\ form' = [form EXCEPT ![t] = [pc |-> "answered", got |-> k]]
    BY <1>6 DEF FormIssue, IssueTokenPair
  <2>2. UNCHANGED <<stored, by, refresh>>
    BY <1>6 DEF FormIssue, browser
  <2>3. ASSUME NEW i \in Pairs, Undelivered(i)
        PROVE  Undelivered(i)'
    BY <2>2, <2>3 DEF Undelivered
  <2>4. Undelivered(k)'
    <3>1. k # stored /\ by[k] = {}
      BY <2>1, Typed, <1>h DEF Known, SessionsTypeOK
    <3>2. \A q \in Calls : refresh[q].token # k
      BY <2>1, Typed, <1>h DEF Known, RefreshType
    <3> QED
      BY <2>2, <3>1, <3>2 DEF Undelivered
  <2>5. /\ \A u \in Tabs : form[u].got # k /\ form[u].got \in 0..MaxPairs
        /\ \A q \in Calls : refresh[q].got # k /\ refresh[q].got \in 0..MaxPairs
    BY <2>1, Typed, <1>h DEF Known, RefreshType, FormType
  <2>6. form'[t].got = k /\ \A u \in Tabs : u # t => form'[u] = form[u]
    BY <2>1, Typed
  <2> QED
    BY <2>2, <2>3, <2>4, <2>5, <2>6, <1>h DEF NewPairs, Pairs
<1>7. ASSUME NEW t \in Tabs, FormAnswer(t) PROVE NewPairs'
  BY <1>7, <1>h DEF FormAnswer, NewPairs, SessionsTypeOK, Known, Exchanges, Undelivered, Pairs,
     server, tokens, browser, Idle, Quiet, NoForm
<1>8. ASSUME NEW t \in Tabs, FormBreaks(t) PROVE NewPairs'
  <2>1. \A u \in Tabs : form'[u].got \in {0, form[u].got}
    BY <1>8, Typed DEF FormBreaks, FormType, NoForm
  <2> QED
    BY <1>8, <2>1, NewPairsKept DEF FormBreaks, server, tokens, browser
<1>9. ASSUME NEW t \in Tabs, OpenHome(t) PROVE NewPairs'
  BY <1>9, <1>h DEF OpenHome, NewPairs, Undelivered, server, tokens, browser
<1>10. ASSUME NEW t \in Tabs, EndSession(t) PROVE NewPairs'
  BY <1>10, NewPairsKept DEF EndSession, server, tokens, browser
<1>11. ASSUME NEW t \in Tabs, Logout(t) PROVE NewPairs'
  <2>1. Revokes(logout[t], SignOut)
    BY <1>11, LogoutRevokes
  <2>2. \A k \in Pairs : by'[k] \cap Tabs = by[k] \cap Tabs
    BY <2>1 DEF Revokes
  <2> QED
    BY <1>11, <2>2, NewPairsKept DEF Logout, browser
<1>12. ASSUME NEW t \in Tabs, LogoutLost(t) PROVE NewPairs'
  BY <1>12, <1>h DEF LogoutLost, NewPairs, Undelivered, server, tokens, browser
<1>13. ASSUME NEW r \in Calls, SendRequest(r) PROVE NewPairs'
  <2>1. CASE req' = [req EXCEPT ![r].pc = "sent"] /\ UNCHANGED <<inFlight, refresh>>
    BY <1>13, <2>1, NewPairsKept DEF SendRequest, server, tokens
  <2>2. CASE Joins(r, "valid")
    BY <1>13, <2>2, NewPairsKept DEF SendRequest, Joins, server, tokens
  <2>3. CASE Starts(r, "valid")
    BY <1>13, <2>3, <1>h DEF SendRequest, Starts, NewPairs, SessionsTypeOK, Known, Exchanges,
       Undelivered, Pairs, server, tokens, browser, Idle, Quiet, NoForm
  <2> QED
    BY <1>13, <2>1, <2>2, <2>3, SessionCases DEF SendRequest
<1>14. ASSUME NEW r \in Calls, RefreshRead(r) PROVE NewPairs'
  BY SMTT(30), <1>14, <1>h DEF RefreshRead, NewPairs, SessionsTypeOK, Known, Exchanges, Undelivered, Pairs,
     server, tokens, browser, Idle, Quiet, NoForm
<1>15. ASSUME NEW r \in Calls, RefreshSave(r) PROVE NewPairs'
  BY SMTT(30), <1>15, <1>h DEF RefreshSave, NewPairs, SessionsTypeOK, Known, Exchanges, Undelivered, Pairs,
     server, tokens, browser, Idle, Quiet, NoForm
<1>16. ASSUME NEW r \in Calls, RefreshIssue(r) PROVE NewPairs'
  <2>1. PICK k \in Pairs : Issues(r, k)
    BY <1>16, IssueFollows
  <2>2. ASSUME NEW i \in Pairs, Undelivered(i)
        PROVE  Undelivered(i)'
    BY <2>1, <2>2 DEF Issues, Others, Undelivered, browser
  <2>3. Undelivered(k)'
    <3>1. k # stored /\ by[k] = {}
      BY <2>1, Typed, <1>h DEF Issues, Known, SessionsTypeOK
    <3>2. \A q \in Calls : refresh[q].token # k
      BY <2>1, Typed, <1>h DEF Issues, Known, RefreshType
    <3> QED
      BY <2>1, <3>1, <3>2 DEF Issues, Others, Undelivered, browser
  <2>4. /\ \A u \in Tabs : form[u].got # k /\ form[u].got \in 0..MaxPairs
        /\ \A q \in Calls : refresh[q].got # k /\ refresh[q].got \in 0..MaxPairs
    BY <2>1, Typed, <1>h DEF Issues, Known, RefreshType, FormType
  <2>5. UNCHANGED form /\ refresh'[r].got = k /\ \A q \in Calls : q # r => refresh'[q] = refresh[q]
    BY <2>1 DEF Issues, Others
  <2> QED
    BY <2>2, <2>3, <2>4, <2>5, <1>h DEF NewPairs, Pairs
<1>17. ASSUME NEW r \in Calls, RefreshAnswer(r) PROVE NewPairs'
  <2>1. Answers(r)
    BY <1>17, AnswerWakes
  <2>2. ASSUME NEW k \in Pairs, Undelivered(k), k # refresh[r].got
        PROVE  Undelivered(k)'
    BY <2>1, <2>2 DEF Answers, Wakes, Others, Undelivered, Quiet, Pairs, server, tokens
  <2> QED
    BY <2>1, <2>2, <1>h DEF Answers, Others, Quiet, NewPairs, SessionsTypeOK, Pairs
<1>18. ASSUME NEW r \in Calls, RefreshCrash(r) PROVE NewPairs'
  BY SMTT(30), <1>18, <1>h DEF RefreshCrash, NewPairs, SessionsTypeOK, Known, Exchanges, Undelivered, Pairs,
     server, tokens, browser, Idle, Quiet, NoForm
<1>18a. ASSUME NEW r \in Calls, RefreshThrows(r) PROVE NewPairs'
  <2>1. Throws(r)
    BY <1>18a, ThrowEnds
  <2> QED
    <3>1. \A q \in Calls : refresh'[q].got \in {0, refresh[q].got} /\ refresh'[q].token = refresh[q].token
      BY <2>1 DEF Throws, Others
    <3>2. ASSUME NEW k \in Pairs, Undelivered(k) PROVE Undelivered(k)'
      BY <2>1, <3>1, <3>2 DEF Throws, Undelivered
    <3>3. form' = form
      BY <2>1 DEF Throws
    <3>4. /\ \A t \in Tabs : form[t].got # 0 => form[t].got \in Pairs
          /\ \A q \in Calls : refresh[q].got # 0 => refresh[q].got \in Pairs
      BY Typed, SessionsAssumption DEF FormType, RefreshType, Pairs
    <3>5. NewPairs
      BY <1>h
    <3> QED
      BY <3>1, <3>2, <3>3, <3>4, <3>5 DEF NewPairs
<1>19. ASSUME NEW r \in Calls, RefreshUnheard(r) PROVE NewPairs'
  BY SMTT(30), <1>19, <1>h DEF RefreshUnheard, NewPairs, SessionsTypeOK, Known, Exchanges, Undelivered, Pairs,
     server, tokens, browser, Idle, Quiet, NoForm
<1>20. ASSUME NEW r \in Calls, RefreshBreaks(r) PROVE NewPairs'
  <2>1. Breaks(r)
    BY <1>20, BreakWakes
  <2>2. ASSUME NEW k \in Pairs, Undelivered(k)
        PROVE  Undelivered(k)'
    BY <2>1, <2>2 DEF Breaks, Wakes, Undelivered, Pairs, server, tokens
  <2> QED
    BY SMTT(30), <2>1, <2>2, <1>h DEF Breaks, NewPairs, SessionsTypeOK, Pairs
<1>21. ASSUME NEW r \in Calls, RequestAnswered(r) PROVE NewPairs'
  BY <1>21, <1>h DEF RequestAnswered, Settle, NewPairs, Undelivered, server, tokens, browser
<1>22. ASSUME NEW r \in Calls, RequestUnauthorized(r) PROVE NewPairs'
  <2>1. CASE RedirectToLogin(TabOf[r], req) /\ UNCHANGED <<inFlight, refresh>>
    BY <1>22, <2>1, NewPairsKept DEF RequestUnauthorized, server, tokens
  <2>2. CASE Joins(r, "retry") /\ UNCHANGED page
    BY <1>22, <2>2, NewPairsKept DEF RequestUnauthorized, Joins, server, tokens
  <2>3. CASE Starts(r, "retry") /\ UNCHANGED page
    BY <1>22, <2>3, <1>h DEF RequestUnauthorized, Starts, NewPairs, SessionsTypeOK, Known,
       Exchanges, Undelivered, Pairs, server, tokens, browser, Idle, Quiet, NoForm
  <2> QED
    BY <1>22, <2>1, <2>2, <2>3, SessionCases DEF RequestUnauthorized
<1>23. ASSUME NEW r \in Calls, RequestFails(r) PROVE NewPairs'
  BY <1>23, NewPairsKept DEF RequestFails, ShellGivesUp, server, tokens, browser
<1>24. ASSUME UNCHANGED sessionVars PROVE NewPairs'
  BY <1>24, <1>h DEF sessionVars, NewPairs, Undelivered, server, tokens, browser
  <1> QED   BY <1>1, <1>2, <1>3, <1>4, <1>5, <1>6, <1>7, <1>8, <1>9, <1>10, <1>11, <1>12,
     <1>13, <1>14, <1>15, <1>16, <1>17, <1>18, <1>18a, <1>19, <1>20, <1>21, <1>22, <1>23, <1>24 DEF
     SessionsNext, Form, RefreshCall, Request

LEMMA StoredStep == ASSUME IInv, [SessionsNext]_sessionVars PROVE StoredIsCurrent'
<1>h. StoredIsCurrent /\ NewPairs /\ Exchanges /\ OneInFlight /\ Known
  BY DEF IInv
<1> USE SessionsAssumption
<1>1. ASSUME NEW k \in Pairs, RefreshTokenExpires(k) PROVE StoredIsCurrent'
  BY <1>1, <1>h DEF RefreshTokenExpires, StoredIsCurrent, Heard, Undelivered, RefreshType,
     server, tokens, browser
<1>2. ASSUME NEW t \in Tabs, RegisterCheck(t) PROVE StoredIsCurrent'
  BY <1>2, <1>h DEF RegisterCheck, StoredIsCurrent, Heard, Undelivered, RefreshType, server,
     tokens, browser
<1>3. ASSUME NEW t \in Tabs, RegisterInsertUser(t) PROVE StoredIsCurrent'
  BY <1>3, <1>h DEF RegisterInsertUser, StoredIsCurrent, Heard, Undelivered, RefreshType,
     server, tokens, browser
<1>4. ASSUME NEW t \in Tabs, RegisterWrite(t) PROVE StoredIsCurrent'
  BY <1>4, <1>h DEF RegisterWrite, StoredIsCurrent, Heard, Undelivered, RefreshType, server,
     tokens, browser
<1>5. ASSUME NEW t \in Tabs, RegisterCommit(t) PROVE StoredIsCurrent'
  BY <1>5, <1>h DEF RegisterCommit, StoredIsCurrent, Heard, Undelivered, RefreshType,
     server, tokens, browser
<1>6. ASSUME NEW t \in Tabs, FormIssue(t) PROVE StoredIsCurrent'
  BY <1>6, <1>h DEF FormIssue, IssueTokenPair, StoredIsCurrent, Heard, Undelivered,
     RefreshType, server, tokens, browser
<1>7. ASSUME NEW t \in Tabs, FormAnswer(t) PROVE StoredIsCurrent'
  BY <1>7, <1>h, Typed, BrowserTyped DEF FormAnswer, StoredIsCurrent, NewPairs, Exchanges,
     OneInFlight, Known, Heard, Undelivered, RefreshType, Pairs, server, tokens, browser, Idle,
     Quiet, NoForm
<1>8. ASSUME NEW t \in Tabs, FormBreaks(t) PROVE StoredIsCurrent'
  BY <1>8, <1>h DEF FormBreaks, StoredIsCurrent, Heard, Undelivered, RefreshType, server,
     tokens, browser
<1>9. ASSUME NEW t \in Tabs, OpenHome(t) PROVE StoredIsCurrent'
  BY <1>9, <1>h DEF OpenHome, StoredIsCurrent, Heard, Undelivered, RefreshType, server,
     tokens, browser
<1>10. ASSUME NEW t \in Tabs, EndSession(t) PROVE StoredIsCurrent'
  BY <1>10, <1>h, Typed, BrowserTyped DEF EndSession, StoredIsCurrent, NewPairs, Exchanges,
     OneInFlight, Known, Heard, Undelivered, RefreshType, Pairs, server, tokens, browser, Idle,
     Quiet, NoForm
<1>11. ASSUME NEW t \in Tabs, Logout(t) PROVE StoredIsCurrent'
  BY <1>11, <1>h, Typed, BrowserTyped DEF Logout, StoredIsCurrent, NewPairs, Exchanges,
     OneInFlight, Known, Heard, Undelivered, RefreshType, Pairs, server, tokens, browser, Idle,
     Quiet, NoForm
<1>12. ASSUME NEW t \in Tabs, LogoutLost(t) PROVE StoredIsCurrent'
  BY <1>12, <1>h DEF LogoutLost, StoredIsCurrent, Heard, Undelivered, RefreshType, server,
     tokens, browser
<1>13. ASSUME NEW r \in Calls, SendRequest(r) PROVE StoredIsCurrent'
  <2>1. CASE req' = [req EXCEPT ![r].pc = "sent"] /\ UNCHANGED <<inFlight, refresh>>
    BY <1>13, <2>1, <1>h, Typed, BrowserTyped DEF SendRequest, StoredIsCurrent, NewPairs,
       Exchanges, OneInFlight, Known, Heard, Undelivered, RefreshType, Pairs, server, tokens,
       browser, Idle, Quiet, NoForm
  <2>2. CASE Joins(r, "valid")
    BY <1>13, <2>2, <1>h, Typed, BrowserTyped DEF SendRequest, Joins, StoredIsCurrent,
       NewPairs, Exchanges, OneInFlight, Known, Heard, Undelivered, RefreshType, Pairs, server,
       tokens, browser, Idle, Quiet, NoForm
  <2>3. CASE Starts(r, "valid")
    BY <1>13, <2>3, <1>h, Typed, BrowserTyped DEF SendRequest, Starts, StoredIsCurrent,
       NewPairs, Exchanges, OneInFlight, Known, Heard, Undelivered, RefreshType, Pairs, server,
       tokens, browser, Idle, Quiet, NoForm
  <2> QED
    BY <1>13, <2>1, <2>2, <2>3, SessionCases DEF SendRequest
<1>14. ASSUME NEW r \in Calls, RefreshRead(r) PROVE StoredIsCurrent'
  <2>1. refresh[r].pc = "sent" /\ UNCHANGED <<stored, by, lost>> /\ \A q \in Calls : q # r => refresh'[q] = refresh[q]
    BY <1>14, Typed DEF RefreshRead, server, browser
  <2> QED
    BY <2>1, <1>h DEF StoredIsCurrent, Heard
<1>15. ASSUME NEW r \in Calls, RefreshSave(r) PROVE StoredIsCurrent'
  BY <1>15, <1>h, Typed, BrowserTyped DEF RefreshSave, StoredIsCurrent, NewPairs, Exchanges,
     OneInFlight, Known, Heard, Undelivered, RefreshType, Pairs, server, tokens, browser, Idle,
     Quiet, NoForm
<1>16. ASSUME NEW r \in Calls, RefreshIssue(r) PROVE StoredIsCurrent'
  <2>1. PICK k \in Pairs : Issues(r, k)
    BY <1>16, IssueFollows
  <2>2. UNCHANGED <<stored, by, lost, broken>>
    BY <2>1 DEF Issues, browser
  <2>3. \A q \in Calls : q # r => refresh'[q] = refresh[q]
    BY <2>1 DEF Issues, Others
  <2>4. /\ refresh'[r].token = refresh[r].token /\ refresh'[r].heard = refresh[r].heard
        /\ refresh'[r].pc = "answered" /\ refresh'[r].got # 0
    BY <2>1 DEF Issues, Pairs
  <2> QED
    BY <2>1, <2>2, <2>3, <2>4, <1>h, Typed, BrowserTyped DEF StoredIsCurrent, Heard, Issues
<1>17. ASSUME NEW r \in Calls, RefreshAnswer(r) PROVE StoredIsCurrent'
  <2>1. Answers(r)
    BY <1>17, AnswerWakes
  <2> QED
    BY <2>1, <1>h, Typed, BrowserTyped DEF Answers, Wakes, Others, StoredIsCurrent,
       NewPairs, Exchanges, OneInFlight, Known, Heard, Undelivered, RefreshType, Pairs, server,
       tokens, browser, Idle, Quiet, NoForm
<1>18. ASSUME NEW r \in Calls, RefreshCrash(r) PROVE StoredIsCurrent'
  BY <1>18, <1>h, Typed, BrowserTyped DEF RefreshCrash, StoredIsCurrent, NewPairs,
     Exchanges, OneInFlight, Known, Heard, Undelivered, RefreshType, Pairs, server, tokens,
     browser, Idle, Quiet, NoForm
<1>18a. ASSUME NEW r \in Calls, RefreshThrows(r) PROVE StoredIsCurrent'
  <2>1. Throws(r)
    BY <1>18a, ThrowEnds
  <2> QED
    BY <2>1, <1>h, Typed, BrowserTyped DEF Throws, Others, StoredIsCurrent, Heard
<1>19. ASSUME NEW r \in Calls, RefreshUnheard(r) PROVE StoredIsCurrent'
  BY <1>19, <1>h, Typed, BrowserTyped DEF RefreshUnheard, StoredIsCurrent, NewPairs,
     Exchanges, OneInFlight, Known, Heard, Undelivered, RefreshType, Pairs, server, tokens,
     browser, Idle, Quiet, NoForm
<1>20. ASSUME NEW r \in Calls, RefreshBreaks(r) PROVE StoredIsCurrent'
  <2>1. Breaks(r)
    BY <1>20, BreakWakes
  <2> QED
    BY <2>1, <1>h, Typed, BrowserTyped DEF Breaks, Wakes, Others, StoredIsCurrent, NewPairs,
       Exchanges, OneInFlight, Known, Heard, Undelivered, RefreshType, Pairs, server, tokens,
       browser, Idle, Quiet, NoForm
<1>21. ASSUME NEW r \in Calls, RequestAnswered(r) PROVE StoredIsCurrent'
  BY <1>21, <1>h DEF RequestAnswered, Settle, StoredIsCurrent, Heard, Undelivered,
     RefreshType, server, tokens, browser
<1>22. ASSUME NEW r \in Calls, RequestUnauthorized(r) PROVE StoredIsCurrent'
  <2>1. CASE RedirectToLogin(TabOf[r], req) /\ UNCHANGED <<inFlight, refresh>>
    BY <1>22, <2>1, <1>h, Typed, BrowserTyped DEF RequestUnauthorized, RedirectToLogin,
       StoredIsCurrent, NewPairs, Exchanges, OneInFlight, Known, Heard, Undelivered,
       RefreshType, Pairs, server, tokens, browser, Idle, Quiet, NoForm
  <2>2. CASE Joins(r, "retry") /\ UNCHANGED page
    BY <1>22, <2>2, <1>h, Typed, BrowserTyped DEF RequestUnauthorized, Joins,
       StoredIsCurrent, NewPairs, Exchanges, OneInFlight, Known, Heard, Undelivered,
       RefreshType, Pairs, server, tokens, browser, Idle, Quiet, NoForm
  <2>3. CASE Starts(r, "retry") /\ UNCHANGED page
    BY <1>22, <2>3, <1>h, Typed, BrowserTyped DEF RequestUnauthorized, Starts,
       StoredIsCurrent, NewPairs, Exchanges, OneInFlight, Known, Heard, Undelivered,
       RefreshType, Pairs, server, tokens, browser, Idle, Quiet, NoForm
  <2> QED
    BY <1>22, <2>1, <2>2, <2>3, SessionCases DEF RequestUnauthorized
<1>23. ASSUME NEW r \in Calls, RequestFails(r) PROVE StoredIsCurrent'
  BY <1>23, <1>h, Typed, BrowserTyped DEF RequestFails, Settle, ShellGivesUp,
     StoredIsCurrent, NewPairs, Exchanges, OneInFlight, Known, Heard, Undelivered, RefreshType,
     Pairs, server, tokens, browser, Idle, Quiet, NoForm
<1>24. ASSUME UNCHANGED sessionVars PROVE StoredIsCurrent'
  BY <1>24, <1>h DEF sessionVars, StoredIsCurrent, Heard, Undelivered, RefreshType, server, tokens, browser
  <1> QED   BY <1>1, <1>2, <1>3, <1>4, <1>5, <1>6, <1>7, <1>8, <1>9, <1>10, <1>11, <1>12,
     <1>13, <1>14, <1>15, <1>16, <1>17, <1>18, <1>18a, <1>19, <1>20, <1>21, <1>22, <1>23, <1>24 DEF
     SessionsNext, Form, RefreshCall, Request

LEMMA FirstStep == ASSUME IInv, [SessionsNext]_sessionVars PROVE FirstOfItsTab'
<1>h. FirstOfItsTab /\ StoredIsCurrent /\ Exchanges /\ OneInFlight
  BY DEF IInv
<1> USE SessionsAssumption
<1>1. ASSUME NEW k \in Pairs, RefreshTokenExpires(k) PROVE FirstOfItsTab'
  BY <1>1, <1>h DEF RefreshTokenExpires, FirstOfItsTab, Heard, Unserved, RefreshType,
     server, tokens, browser
<1>2. ASSUME NEW t \in Tabs, RegisterCheck(t) PROVE FirstOfItsTab'
  BY <1>2, <1>h DEF RegisterCheck, FirstOfItsTab, Heard, Unserved, RefreshType, server,
     tokens, browser
<1>3. ASSUME NEW t \in Tabs, RegisterInsertUser(t) PROVE FirstOfItsTab'
  BY <1>3, <1>h DEF RegisterInsertUser, FirstOfItsTab, Heard, Unserved, RefreshType, server,
     tokens, browser
<1>4. ASSUME NEW t \in Tabs, RegisterWrite(t) PROVE FirstOfItsTab'
  BY <1>4, <1>h DEF RegisterWrite, FirstOfItsTab, Heard, Unserved, RefreshType, server,
     tokens, browser
<1>5. ASSUME NEW t \in Tabs, RegisterCommit(t) PROVE FirstOfItsTab'
  BY <1>5, <1>h DEF RegisterCommit, FirstOfItsTab, Heard, Unserved, RefreshType, server,
     tokens, browser
<1>6. ASSUME NEW t \in Tabs, FormIssue(t) PROVE FirstOfItsTab'
  BY <1>6, <1>h DEF FormIssue, IssueTokenPair, FirstOfItsTab, Heard, Unserved, RefreshType,
     server, tokens, browser
<1>7. ASSUME NEW t \in Tabs, FormAnswer(t) PROVE FirstOfItsTab'
  BY <1>7, <1>h DEF FormAnswer, FirstOfItsTab, Heard, Unserved, RefreshType, server, tokens, browser
<1>8. ASSUME NEW t \in Tabs, FormBreaks(t) PROVE FirstOfItsTab'
  BY <1>8, <1>h DEF FormBreaks, FirstOfItsTab, Heard, Unserved, RefreshType, server, tokens, browser
<1>9. ASSUME NEW t \in Tabs, OpenHome(t) PROVE FirstOfItsTab'
  BY <1>9, <1>h DEF OpenHome, FirstOfItsTab, Heard, Unserved, RefreshType, server, tokens, browser
<1>10. ASSUME NEW t \in Tabs, EndSession(t) PROVE FirstOfItsTab'
  BY <1>10, <1>h DEF EndSession, FirstOfItsTab, Heard, Unserved, RefreshType, server,
     tokens, browser
<1>11. ASSUME NEW t \in Tabs, Logout(t) PROVE FirstOfItsTab'
  BY <1>11, <1>h, Typed, BrowserTyped DEF Logout, FirstOfItsTab, StoredIsCurrent, Exchanges,
     OneInFlight, Heard, Unserved, RefreshType, Pairs, server, tokens, browser, Idle, Quiet,
     NoForm
<1>12. ASSUME NEW t \in Tabs, LogoutLost(t) PROVE FirstOfItsTab'
  BY <1>12, <1>h DEF LogoutLost, FirstOfItsTab, Heard, Unserved, RefreshType, server,
     tokens, browser
<1>13. ASSUME NEW r \in Calls, SendRequest(r) PROVE FirstOfItsTab'
  <2>1. CASE req' = [req EXCEPT ![r].pc = "sent"] /\ UNCHANGED <<inFlight, refresh>>
    BY <1>13, <2>1, <1>h, Typed, BrowserTyped DEF SendRequest, FirstOfItsTab,
       StoredIsCurrent, Exchanges, OneInFlight, Heard, Unserved, RefreshType, Pairs, server,
       tokens, browser, Idle, Quiet, NoForm
  <2>2. CASE Joins(r, "valid")
    BY <1>13, <2>2, <1>h, Typed, BrowserTyped DEF SendRequest, Joins, FirstOfItsTab,
       StoredIsCurrent, Exchanges, OneInFlight, Heard, Unserved, RefreshType, Pairs, server,
       tokens, browser, Idle, Quiet, NoForm
  <2>3. CASE Starts(r, "valid")
    BY <1>13, <2>3, <1>h, Typed, BrowserTyped DEF SendRequest, Starts, FirstOfItsTab,
       StoredIsCurrent, Exchanges, OneInFlight, Heard, Unserved, RefreshType, Pairs, server,
       tokens, browser, Idle, Quiet, NoForm
  <2> QED
    BY <1>13, <2>1, <2>2, <2>3, SessionCases DEF SendRequest
<1>14. ASSUME NEW r \in Calls, RefreshRead(r) PROVE FirstOfItsTab'
  BY <1>14, <1>h, Typed, BrowserTyped DEF RefreshRead, FirstOfItsTab, StoredIsCurrent,
     Exchanges, OneInFlight, Heard, Unserved, RefreshType, Pairs, server, tokens, browser,
     Idle, Quiet, NoForm
<1>15. ASSUME NEW r \in Calls, RefreshSave(r) PROVE FirstOfItsTab'
  BY <1>15, <1>h, Typed, BrowserTyped DEF RefreshSave, FirstOfItsTab, StoredIsCurrent,
     Exchanges, OneInFlight, Heard, Unserved, RefreshType, Pairs, server, tokens, browser,
     Idle, Quiet, NoForm
<1>16. ASSUME NEW r \in Calls, RefreshIssue(r) PROVE FirstOfItsTab'
  BY <1>16, <1>h, Typed, BrowserTyped DEF RefreshIssue, IssueTokenPair, FirstOfItsTab,
     StoredIsCurrent, Exchanges, OneInFlight, Heard, Unserved, RefreshType, Pairs, server,
     tokens, browser, Idle, Quiet, NoForm
<1>17. ASSUME NEW r \in Calls, RefreshAnswer(r) PROVE FirstOfItsTab'
  <2>1. Answers(r)
    BY <1>17, AnswerWakes
  <2> QED
    BY <2>1, <1>h, Typed, BrowserTyped DEF Answers, Wakes, Others, FirstOfItsTab,
       StoredIsCurrent, Exchanges, OneInFlight, Heard, Unserved, RefreshType, Pairs, server,
       tokens, browser, Idle, Quiet, NoForm
<1>18. ASSUME NEW r \in Calls, RefreshCrash(r) PROVE FirstOfItsTab'
  BY <1>18, <1>h, Typed, BrowserTyped DEF RefreshCrash, FirstOfItsTab, StoredIsCurrent,
     Exchanges, OneInFlight, Heard, Unserved, RefreshType, Pairs, server, tokens, browser,
     Idle, Quiet, NoForm
<1>18a. ASSUME NEW r \in Calls, RefreshThrows(r) PROVE FirstOfItsTab'
  <2>1. Throws(r)
    BY <1>18a, ThrowEnds
  <2> QED
    BY <2>1, <1>h, Typed, BrowserTyped DEF Throws, Others, FirstOfItsTab, Heard, Unserved
<1>19. ASSUME NEW r \in Calls, RefreshUnheard(r) PROVE FirstOfItsTab'
  BY <1>19, <1>h, Typed, BrowserTyped DEF RefreshUnheard, FirstOfItsTab, StoredIsCurrent,
     Exchanges, OneInFlight, Heard, Unserved, RefreshType, Pairs, server, tokens, browser,
     Idle, Quiet, NoForm
<1>20. ASSUME NEW r \in Calls, RefreshBreaks(r) PROVE FirstOfItsTab'
  <2>1. Breaks(r)
    BY <1>20, BreakWakes
  <2> QED
    BY <2>1, <1>h, Typed, BrowserTyped DEF Breaks, Wakes, Others, FirstOfItsTab,
       StoredIsCurrent, Exchanges, OneInFlight, Heard, Unserved, RefreshType, Pairs, server,
       tokens, browser, Idle, Quiet, NoForm
<1>21. ASSUME NEW r \in Calls, RequestAnswered(r) PROVE FirstOfItsTab'
  BY <1>21, <1>h DEF RequestAnswered, Settle, FirstOfItsTab, Heard, Unserved, RefreshType,
     server, tokens, browser
<1>22. ASSUME NEW r \in Calls, RequestUnauthorized(r) PROVE FirstOfItsTab'
  <2>1. CASE RedirectToLogin(TabOf[r], req) /\ UNCHANGED <<inFlight, refresh>>
    BY <1>22, <2>1, <1>h, Typed, BrowserTyped DEF RequestUnauthorized, RedirectToLogin,
       FirstOfItsTab, StoredIsCurrent, Exchanges, OneInFlight, Heard, Unserved, RefreshType,
       Pairs, server, tokens, browser, Idle, Quiet, NoForm
  <2>2. CASE Joins(r, "retry") /\ UNCHANGED page
    BY <1>22, <2>2, <1>h, Typed, BrowserTyped DEF RequestUnauthorized, Joins, FirstOfItsTab,
       StoredIsCurrent, Exchanges, OneInFlight, Heard, Unserved, RefreshType, Pairs, server,
       tokens, browser, Idle, Quiet, NoForm
  <2>3. CASE Starts(r, "retry") /\ UNCHANGED page
    BY <1>22, <2>3, <1>h, Typed, BrowserTyped DEF RequestUnauthorized, Starts,
       FirstOfItsTab, StoredIsCurrent, Exchanges, OneInFlight, Heard, Unserved, RefreshType,
       Pairs, server, tokens, browser, Idle, Quiet, NoForm
  <2> QED
    BY <1>22, <2>1, <2>2, <2>3, SessionCases DEF RequestUnauthorized
<1>23. ASSUME NEW r \in Calls, RequestFails(r) PROVE FirstOfItsTab'
  BY <1>23, <1>h DEF RequestFails, Settle, ShellGivesUp, FirstOfItsTab, Heard, Unserved,
     RefreshType, server, tokens, browser
<1>24. ASSUME UNCHANGED sessionVars PROVE FirstOfItsTab'
  BY <1>24, <1>h DEF sessionVars, FirstOfItsTab, Heard, Unserved, RefreshType, server, tokens, browser
  <1> QED   BY <1>1, <1>2, <1>3, <1>4, <1>5, <1>6, <1>7, <1>8, <1>9, <1>10, <1>11, <1>12,
     <1>13, <1>14, <1>15, <1>16, <1>17, <1>18, <1>18a, <1>19, <1>20, <1>21, <1>22, <1>23, <1>24 DEF
     SessionsNext, Form, RefreshCall, Request

LEMMA RefusedStep == ASSUME IInv, [SessionsNext]_sessionVars PROVE RefusedForGood'
<1>h. RefusedForGood /\ Known /\ Exchanges
  BY DEF IInv
<1> USE SessionsAssumption
<1>1. ASSUME NEW k \in Pairs, RefreshTokenExpires(k) PROVE RefusedForGood'
  BY <1>1, <1>h, Typed, BrowserTyped DEF RefreshTokenExpires, RefusedForGood, Known,
     Exchanges, RefreshType, Pairs, server, tokens, browser, Idle, Quiet, NoForm
<1>2. ASSUME NEW t \in Tabs, RegisterCheck(t) PROVE RefusedForGood'
  BY <1>2, <1>h DEF RegisterCheck, RefusedForGood, RefreshType, server, tokens, browser
<1>3. ASSUME NEW t \in Tabs, RegisterInsertUser(t) PROVE RefusedForGood'
  BY <1>3, <1>h DEF RegisterInsertUser, RefusedForGood, RefreshType, server, tokens, browser
<1>4. ASSUME NEW t \in Tabs, RegisterWrite(t) PROVE RefusedForGood'
  BY <1>4, <1>h DEF RegisterWrite, RefusedForGood, RefreshType, server, tokens, browser
<1>5. ASSUME NEW t \in Tabs, RegisterCommit(t) PROVE RefusedForGood'
  BY <1>5, <1>h DEF RegisterCommit, RefusedForGood, RefreshType, server, tokens, browser
<1>6. ASSUME NEW t \in Tabs, FormIssue(t) PROVE RefusedForGood'
  BY <1>6, <1>h, Typed, BrowserTyped DEF FormIssue, IssueTokenPair, RefusedForGood, Known,
     Exchanges, RefreshType, Pairs, server, tokens, browser, Idle, Quiet, NoForm
<1>7. ASSUME NEW t \in Tabs, FormAnswer(t) PROVE RefusedForGood'
  BY <1>7, <1>h DEF FormAnswer, RefusedForGood, RefreshType, server, tokens, browser
<1>8. ASSUME NEW t \in Tabs, FormBreaks(t) PROVE RefusedForGood'
  BY <1>8, <1>h DEF FormBreaks, RefusedForGood, RefreshType, server, tokens, browser
<1>9. ASSUME NEW t \in Tabs, OpenHome(t) PROVE RefusedForGood'
  BY <1>9, <1>h DEF OpenHome, RefusedForGood, RefreshType, server, tokens, browser
<1>10. ASSUME NEW t \in Tabs, EndSession(t) PROVE RefusedForGood'
  BY <1>10, <1>h DEF EndSession, RefusedForGood, RefreshType, server, tokens, browser
<1>11. ASSUME NEW t \in Tabs, Logout(t) PROVE RefusedForGood'
  BY <1>11, <1>h, Typed, BrowserTyped DEF Logout, RefusedForGood, Known, Exchanges,
     RefreshType, Pairs, server, tokens, browser, Idle, Quiet, NoForm
<1>12. ASSUME NEW t \in Tabs, LogoutLost(t) PROVE RefusedForGood'
  BY <1>12, <1>h DEF LogoutLost, RefusedForGood, RefreshType, server, tokens, browser
<1>13. ASSUME NEW r \in Calls, SendRequest(r) PROVE RefusedForGood'
  <2>1. CASE req' = [req EXCEPT ![r].pc = "sent"] /\ UNCHANGED <<inFlight, refresh>>
    BY <1>13, <2>1, <1>h, Typed, BrowserTyped DEF SendRequest, RefusedForGood, Known,
       Exchanges, RefreshType, Pairs, server, tokens, browser, Idle, Quiet, NoForm
  <2>2. CASE Joins(r, "valid")
    BY <1>13, <2>2, <1>h, Typed, BrowserTyped DEF SendRequest, Joins, RefusedForGood, Known,
       Exchanges, RefreshType, Pairs, server, tokens, browser, Idle, Quiet, NoForm
  <2>3. CASE Starts(r, "valid")
    BY <1>13, <2>3, <1>h, Typed, BrowserTyped DEF SendRequest, Starts, RefusedForGood,
       Known, Exchanges, RefreshType, Pairs, server, tokens, browser, Idle, Quiet, NoForm
  <2> QED
    BY <1>13, <2>1, <2>2, <2>3, SessionCases DEF SendRequest
<1>14. ASSUME NEW r \in Calls, RefreshRead(r) PROVE RefusedForGood'
  BY <1>14, <1>h, Typed, BrowserTyped DEF RefreshRead, RefusedForGood, Known, Exchanges,
     RefreshType, Pairs, server, tokens, browser, Idle, Quiet, NoForm
<1>15. ASSUME NEW r \in Calls, RefreshSave(r) PROVE RefusedForGood'
  BY <1>15, <1>h, Typed, BrowserTyped DEF RefreshSave, RefusedForGood, Known, Exchanges,
     RefreshType, Pairs, server, tokens, browser, Idle, Quiet, NoForm
<1>16. ASSUME NEW r \in Calls, RefreshIssue(r) PROVE RefusedForGood'
  BY <1>16, <1>h, Typed, BrowserTyped DEF RefreshIssue, IssueTokenPair, RefusedForGood,
     Known, Exchanges, RefreshType, Pairs, server, tokens, browser, Idle, Quiet, NoForm
<1>17. ASSUME NEW r \in Calls, RefreshAnswer(r) PROVE RefusedForGood'
  <2>1. Answers(r)
    BY <1>17, AnswerWakes
  <2> QED
    BY <2>1, <1>h, Typed, BrowserTyped DEF Answers, Wakes, Others, RefusedForGood, Known,
       Exchanges, RefreshType, Pairs, server, tokens, browser, Idle, Quiet, NoForm
<1>18. ASSUME NEW r \in Calls, RefreshCrash(r) PROVE RefusedForGood'
  BY <1>18, <1>h, Typed, BrowserTyped DEF RefreshCrash, RefusedForGood, Known, Exchanges,
     RefreshType, Pairs, server, tokens, browser, Idle, Quiet, NoForm
<1>18a. ASSUME NEW r \in Calls, RefreshThrows(r) PROVE RefusedForGood'
  <2>1. Throws(r)
    BY <1>18a, ThrowEnds
  <2> QED
    BY <2>1, <1>h, Typed, BrowserTyped DEF Throws, Others, RefusedForGood
<1>19. ASSUME NEW r \in Calls, RefreshUnheard(r) PROVE RefusedForGood'
  BY <1>19, <1>h, Typed, BrowserTyped DEF RefreshUnheard, RefusedForGood, Known, Exchanges,
     RefreshType, Pairs, server, tokens, browser, Idle, Quiet, NoForm
<1>20. ASSUME NEW r \in Calls, RefreshBreaks(r) PROVE RefusedForGood'
  <2>1. Breaks(r)
    BY <1>20, BreakWakes
  <2> QED
    BY <2>1, <1>h, Typed, BrowserTyped DEF Breaks, Others, RefusedForGood, Known, Exchanges,
       RefreshType, Pairs, server, tokens, browser, Idle, Quiet, NoForm
<1>21. ASSUME NEW r \in Calls, RequestAnswered(r) PROVE RefusedForGood'
  BY <1>21, <1>h DEF RequestAnswered, Settle, RefusedForGood, RefreshType, server, tokens, browser
<1>22. ASSUME NEW r \in Calls, RequestUnauthorized(r) PROVE RefusedForGood'
  <2>1. CASE RedirectToLogin(TabOf[r], req) /\ UNCHANGED <<inFlight, refresh>>
    BY <1>22, <2>1, <1>h, Typed, BrowserTyped DEF RequestUnauthorized, RedirectToLogin,
       RefusedForGood, Known, Exchanges, RefreshType, Pairs, server, tokens, browser, Idle,
       Quiet, NoForm
  <2>2. CASE Joins(r, "retry") /\ UNCHANGED page
    BY <1>22, <2>2, <1>h, Typed, BrowserTyped DEF RequestUnauthorized, Joins,
       RefusedForGood, Known, Exchanges, RefreshType, Pairs, server, tokens, browser, Idle,
       Quiet, NoForm
  <2>3. CASE Starts(r, "retry") /\ UNCHANGED page
    BY <1>22, <2>3, <1>h, Typed, BrowserTyped DEF RequestUnauthorized, Starts,
       RefusedForGood, Known, Exchanges, RefreshType, Pairs, server, tokens, browser, Idle,
       Quiet, NoForm
  <2> QED
    BY <1>22, <2>1, <2>2, <2>3, SessionCases DEF RequestUnauthorized
<1>23. ASSUME NEW r \in Calls, RequestFails(r) PROVE RefusedForGood'
  BY <1>23, <1>h DEF RequestFails, Settle, ShellGivesUp, RefusedForGood, RefreshType,
     server, tokens, browser
<1>24. ASSUME UNCHANGED sessionVars PROVE RefusedForGood'
  BY <1>24, <1>h DEF sessionVars, RefusedForGood, RefreshType, server, tokens, browser
  <1> QED   BY <1>1, <1>2, <1>3, <1>4, <1>5, <1>6, <1>7, <1>8, <1>9, <1>10, <1>11, <1>12,
     <1>13, <1>14, <1>15, <1>16, <1>17, <1>18, <1>18a, <1>19, <1>20, <1>21, <1>22, <1>23, <1>24 DEF
     SessionsNext, Form, RefreshCall, Request

LEMMA ChildrenStep == ASSUME IInv, [SessionsNext]_sessionVars PROVE Children'
<1>h. Children /\ Revokers /\ Exchanges /\ OneInFlight /\ FirstOfItsTab /\ Known
  BY DEF IInv
<1> USE SessionsAssumption
<1>1. ASSUME NEW k \in Pairs, RefreshTokenExpires(k) PROVE Children'
  BY <1>1, <1>h DEF RefreshTokenExpires, Children, Heard, Unserved, RefreshType, server,
     tokens, browser
<1>2. ASSUME NEW t \in Tabs, RegisterCheck(t) PROVE Children'
  BY <1>2, <1>h DEF RegisterCheck, Children, Heard, Unserved, RefreshType, server, tokens, browser
<1>3. ASSUME NEW t \in Tabs, RegisterInsertUser(t) PROVE Children'
  BY <1>3, <1>h DEF RegisterInsertUser, Children, Heard, Unserved, RefreshType, server,
     tokens, browser
<1>4. ASSUME NEW t \in Tabs, RegisterWrite(t) PROVE Children'
  BY <1>4, <1>h DEF RegisterWrite, Children, Heard, Unserved, RefreshType, server, tokens, browser
<1>5. ASSUME NEW t \in Tabs, RegisterCommit(t) PROVE Children'
  BY <1>5, <1>h DEF RegisterCommit, Children, Heard, Unserved, RefreshType, server, tokens, browser
<1>6. ASSUME NEW t \in Tabs, FormIssue(t) PROVE Children'
  BY SMTT(30), <1>6, <1>h, Typed, BrowserTyped DEF FormIssue, IssueTokenPair, Children, Revokers,
     Exchanges, OneInFlight, FirstOfItsTab, Known, Heard, Unserved, RefreshType, Pairs, server,
     tokens, browser, Idle, Quiet, NoForm
<1>7. ASSUME NEW t \in Tabs, FormAnswer(t) PROVE Children'
  BY <1>7, <1>h DEF FormAnswer, Children, Heard, Unserved, RefreshType, server, tokens, browser
<1>8. ASSUME NEW t \in Tabs, FormBreaks(t) PROVE Children'
  BY <1>8, <1>h DEF FormBreaks, Children, Heard, Unserved, RefreshType, server, tokens, browser
<1>9. ASSUME NEW t \in Tabs, OpenHome(t) PROVE Children'
  BY <1>9, <1>h DEF OpenHome, Children, Heard, Unserved, RefreshType, server, tokens, browser
<1>10. ASSUME NEW t \in Tabs, EndSession(t) PROVE Children'
  BY <1>10, <1>h DEF EndSession, Children, Heard, Unserved, RefreshType, server, tokens, browser
<1>11. ASSUME NEW t \in Tabs, Logout(t) PROVE Children'
  BY <1>11, <1>h, Typed, BrowserTyped DEF Logout, Children, Revokers, Exchanges,
     OneInFlight, FirstOfItsTab, Known, Heard, Unserved, RefreshType, Pairs, server, tokens,
     browser, Idle, Quiet, NoForm
<1>12. ASSUME NEW t \in Tabs, LogoutLost(t) PROVE Children'
  BY <1>12, <1>h DEF LogoutLost, Children, Heard, Unserved, RefreshType, server, tokens, browser
<1>13. ASSUME NEW r \in Calls, SendRequest(r) PROVE Children'
  <2>1. CASE req' = [req EXCEPT ![r].pc = "sent"] /\ UNCHANGED <<inFlight, refresh>>
    BY <1>13, <2>1, <1>h, Typed, BrowserTyped DEF SendRequest, Children, Revokers,
       Exchanges, OneInFlight, FirstOfItsTab, Known, Heard, Unserved, RefreshType, Pairs,
       server, tokens, browser, Idle, Quiet, NoForm
  <2>2. CASE Joins(r, "valid")
    BY SMTT(30), <1>13, <2>2, <1>h, Typed, BrowserTyped DEF SendRequest, Joins, Children, Revokers,
       Exchanges, OneInFlight, FirstOfItsTab, Known, Heard, Unserved, RefreshType, Pairs,
       server, tokens, browser, Idle, Quiet, NoForm
  <2>3. CASE Starts(r, "valid")
    BY <1>13, <2>3, <1>h, Typed, BrowserTyped DEF SendRequest, Starts, Children, Revokers,
       Exchanges, OneInFlight, FirstOfItsTab, Known, Heard, Unserved, RefreshType, Pairs,
       server, tokens, browser, Idle, Quiet, NoForm
  <2> QED
    BY <1>13, <2>1, <2>2, <2>3, SessionCases DEF SendRequest
<1>14. ASSUME NEW r \in Calls, RefreshRead(r) PROVE Children'
  BY <1>14, <1>h, Typed, BrowserTyped DEF RefreshRead, Children, Revokers, Exchanges,
     OneInFlight, FirstOfItsTab, Known, Heard, Unserved, RefreshType, Pairs, server, tokens,
     browser, Idle, Quiet, NoForm
<1>15. ASSUME NEW r \in Calls, RefreshSave(r) PROVE Children'
  <2>1. Saves(r)
    BY <1>15, SaveRevokes
  <2>2. UNCHANGED <<parent, lost, broken>> /\ \A k \in Pairs : by[k] \subseteq by'[k]
    BY <2>1 DEF Saves, Revokes
  <2>3. refresh[r].token \notin lost => TabOf[r] \notin by[refresh[r].token]
    BY <2>1, <1>h, Typed, BrowserTyped DEF Saves, Revokes, FirstOfItsTab, Exchanges, Heard, Unserved
  <2>4. ASSUME NEW k \in Pairs \ lost, NEW n \in Pairs, NEW q \in Calls,
               parent[n] = k, refresh'[q].pc = "saved", refresh'[q].token = k
        PROVE  \E u \in Tabs : u # TabOf[q] /\ u \in by'[k]
    <3>1. CASE q = r
      <4>1. PICK u \in Tabs : u \in by[k]
        BY <2>4, <1>h, Typed, BrowserTyped DEF Children
      <4>2. k = refresh[r].token
        BY <3>1, <2>1, <2>4 DEF Saves
      <4> QED
        BY <4>1, <4>2, <3>1, <2>2, <2>3
    <3>2. CASE q # r
      <4>1. refresh[q].pc = "saved" /\ refresh[q].token = k
        BY <3>2, <2>1, <2>4 DEF Saves, Others
      <4>2. PICK u \in Tabs : u # TabOf[q] /\ u \in by[k]
        BY <4>1, <2>4, <1>h, Typed, BrowserTyped DEF Children
      <4> QED
        BY <4>2, <2>2
    <3> QED
      BY <3>1, <3>2
  <2>5. ASSUME NEW k \in Pairs \ lost, NEW n \in Pairs, parent[n] = k
        PROVE  by'[k] \cap Tabs # {}
    BY <2>2, <2>5, <1>h, Typed, BrowserTyped DEF Children
  <2>6. ASSUME NEW k \in Pairs \ lost, NEW n \in Pairs, NEW m \in Pairs,
               n # m, parent[n] = k, parent[m] = k
        PROVE  \E t, u \in Tabs : t # u /\ t \in by'[k] /\ u \in by'[k]
    <3>1. PICK t \in Tabs, u \in Tabs : t # u /\ t \in by[k] /\ u \in by[k]
      BY <2>6, <1>h, Typed, BrowserTyped DEF Children
    <3> QED
      BY <3>1, <2>2
  <2> QED
    BY <2>2, <2>4, <2>5, <2>6 DEF Children
<1>16. ASSUME NEW r \in Calls, RefreshIssue(r) PROVE Children'
  <2>1. PICK k \in Pairs : Issues(r, k)
    BY <1>16, IssueFollows
  <2>2. UNCHANGED <<by, lost, broken>> /\ refresh[r].pc = "saved" /\ refresh[r].token \in Pairs
    BY <2>1 DEF Issues
  <2>3. TabOf[r] \in by[refresh[r].token] /\ TabOf[r] \in Tabs
    BY <2>2, <1>h, Typed, BrowserTyped DEF Revokers
  <2>4. parent'[k] = refresh[r].token /\ \A n \in Pairs : n # k => parent'[n] = parent[n]
    BY <2>1 DEF Issues
  <2>5. ASSUME NEW i \in Pairs \ lost, NEW n \in Pairs, parent'[n] = i
        PROVE  by[i] \cap Tabs # {}
    BY <2>2, <2>3, <2>4, <2>5, <1>h, Typed, BrowserTyped DEF Children
  <2>6. ASSUME NEW n \in Pairs, n # k, refresh[r].token \notin lost, parent[n] = refresh[r].token
        PROVE  \E u \in Tabs : u # TabOf[r] /\ u \in by[refresh[r].token]
    BY <2>2, <2>6, <1>h, Typed, BrowserTyped DEF Children
  <2>7. ASSUME NEW i \in Pairs \ lost, NEW n \in Pairs, NEW m \in Pairs,
               n # m, parent'[n] = i, parent'[m] = i
        PROVE  \E t, u \in Tabs : t # u /\ t \in by[i] /\ u \in by[i]
    <3>1. CASE n # k /\ m # k
      <4>1. parent[n] = i /\ parent[m] = i
        BY <3>1, <2>4, <2>7
      <4> QED
        BY <4>1, <2>7, <1>h, Typed, BrowserTyped DEF Children
    <3>2. CASE n = k \/ m = k
      <4>1. i = refresh[r].token
        BY <3>2, <2>4, <2>7
      <4>2. PICK u \in Tabs : u # TabOf[r] /\ u \in by[refresh[r].token]
        BY <3>2, <4>1, <2>4, <2>6, <2>7
      <4> QED
        BY <4>1, <4>2, <2>3
    <3> QED
      BY <3>1, <3>2
  <2>8. ASSUME NEW i \in Pairs \ lost, NEW n \in Pairs, NEW q \in Calls,
               parent'[n] = i, refresh'[q].pc = "saved", refresh'[q].token = i
         PROVE  \E u \in Tabs : u # TabOf[q] /\ u \in by[i]
    <3>1. q # r /\ refresh[q].pc = "saved" /\ refresh[q].token = i
      BY <2>1, <2>8 DEF Issues, Others
    <3>2. CASE n # k
      <4>1. parent[n] = i
        BY <3>2, <2>4, <2>8
      <4> QED
        BY <4>1, <3>1, <2>8, <1>h, Typed, BrowserTyped DEF Children
    <3>3. CASE n = k
      <4>1. i = refresh[r].token
        BY <3>3, <2>4, <2>8
      <4>2. Heard(q) /\ Heard(r)
        BY <4>1, <3>1, <2>2, <2>8, <1>h, Typed, BrowserTyped DEF Exchanges, Heard
      <4>3. TabOf[q] # TabOf[r]
        BY <4>2, <3>1, <1>h, Typed, BrowserTyped DEF OneInFlight
      <4> QED
        BY <4>1, <4>3, <2>3
    <3> QED
      BY <3>2, <3>3
  <2> QED
    BY <2>2, <2>5, <2>7, <2>8 DEF Children
<1>17. ASSUME NEW r \in Calls, RefreshAnswer(r) PROVE Children'
  <2>1. Answers(r)
    BY <1>17, AnswerWakes
  <2> QED
    BY <2>1, <1>h, Typed, BrowserTyped DEF Answers, Wakes, Others, Children, Revokers,
       Exchanges, OneInFlight, FirstOfItsTab, Known, Heard, Unserved, RefreshType, Pairs,
       server, tokens, browser, Idle, Quiet, NoForm
<1>18. ASSUME NEW r \in Calls, RefreshCrash(r) PROVE Children'
  BY <1>18, <1>h, Typed, BrowserTyped DEF RefreshCrash, Children, Revokers, Exchanges,
     OneInFlight, FirstOfItsTab, Known, Heard, Unserved, RefreshType, Pairs, server, tokens,
     browser, Idle, Quiet, NoForm
<1>18a. ASSUME NEW r \in Calls, RefreshThrows(r) PROVE Children'
  <2>1. Throws(r)
    BY <1>18a, ThrowEnds
  <2> QED
    BY <2>1, <1>h, Typed, BrowserTyped DEF Throws, Others, Children
<1>19. ASSUME NEW r \in Calls, RefreshUnheard(r) PROVE Children'
  BY <1>19, <1>h, Typed, BrowserTyped DEF RefreshUnheard, Children, Revokers, Exchanges,
     OneInFlight, FirstOfItsTab, Known, Heard, Unserved, RefreshType, Pairs, server, tokens,
     browser, Idle, Quiet, NoForm
<1>20. ASSUME NEW r \in Calls, RefreshBreaks(r) PROVE Children'
  <2>1. Breaks(r)
    BY <1>20, BreakWakes
  <2> QED
    BY SMTT(30), <2>1, <1>h, Typed, BrowserTyped DEF Breaks, Others, Children, Revokers, Exchanges,
       OneInFlight, FirstOfItsTab, Known, Heard, Unserved, RefreshType, Pairs, server, tokens,
       browser, Idle, Quiet, NoForm
<1>21. ASSUME NEW r \in Calls, RequestAnswered(r) PROVE Children'
  BY <1>21, <1>h DEF RequestAnswered, Settle, Children, Heard, Unserved, RefreshType,
     server, tokens, browser
<1>22. ASSUME NEW r \in Calls, RequestUnauthorized(r) PROVE Children'
  <2>1. CASE RedirectToLogin(TabOf[r], req) /\ UNCHANGED <<inFlight, refresh>>
    BY <1>22, <2>1, <1>h, Typed, BrowserTyped DEF RequestUnauthorized, RedirectToLogin,
       Children, Revokers, Exchanges, OneInFlight, FirstOfItsTab, Known, Heard, Unserved,
       RefreshType, Pairs, server, tokens, browser, Idle, Quiet, NoForm
  <2>2. CASE Joins(r, "retry") /\ UNCHANGED page
    BY SMTT(30), <1>22, <2>2, <1>h, Typed, BrowserTyped DEF RequestUnauthorized, Joins, Children,
       Revokers, Exchanges, OneInFlight, FirstOfItsTab, Known, Heard, Unserved, RefreshType,
       Pairs, server, tokens, browser, Idle, Quiet, NoForm
  <2>3. CASE Starts(r, "retry") /\ UNCHANGED page
    BY <1>22, <2>3, <1>h, Typed, BrowserTyped DEF RequestUnauthorized, Starts, Children,
       Revokers, Exchanges, OneInFlight, FirstOfItsTab, Known, Heard, Unserved, RefreshType,
       Pairs, server, tokens, browser, Idle, Quiet, NoForm
  <2> QED
    BY <1>22, <2>1, <2>2, <2>3, SessionCases DEF RequestUnauthorized
<1>23. ASSUME NEW r \in Calls, RequestFails(r) PROVE Children'
  BY <1>23, <1>h DEF RequestFails, Settle, ShellGivesUp, Children, Heard, Unserved,
     RefreshType, server, tokens, browser
<1>24. ASSUME UNCHANGED sessionVars PROVE Children'
  BY <1>24, <1>h DEF sessionVars, Children, Heard, Unserved, RefreshType, server, tokens, browser
  <1> QED   BY <1>1, <1>2, <1>3, <1>4, <1>5, <1>6, <1>7, <1>8, <1>9, <1>10, <1>11, <1>12,
     <1>13, <1>14, <1>15, <1>16, <1>17, <1>18, <1>18a, <1>19, <1>20, <1>21, <1>22, <1>23, <1>24 DEF
     SessionsNext, Form, RefreshCall, Request
-----------------------------------------------------------------------------
LEMMA InvariantStarts == SessionsInit => IInv
<1> SUFFICES ASSUME SessionsInit PROVE IInv
  OBVIOUS
<1> USE SessionsAssumption DEF SessionsInit, Idle, Quiet, NoForm, Pairs
<1>1. SessionsTypeOK
  BY DEF SessionsTypeOK, AccountRows, FormPcs
<1>2. AccountComplete /\ RotatedIsRevoked /\ WaitersAreServed /\ Known /\ Exchanges /\ OneInFlight
  BY DEF AccountComplete, RotatedIsRevoked, WaitersAreServed, Known, Exchanges, OneInFlight, Heard
<1>3. Revokers /\ NewPairs /\ StoredIsCurrent /\ FirstOfItsTab /\ RefusedForGood /\ Children
  BY FS_EmptySet DEF Revokers, NewPairs, StoredIsCurrent, FirstOfItsTab, RefusedForGood,
     Children, Heard
<1> QED
  BY <1>1, <1>2, <1>3 DEF IInv

LEMMA InvariantStep == IInv /\ [SessionsNext]_sessionVars => IInv'
  BY TypeStep, AccountStep, RotatedStep, WaitersStep, KnownStep, ExchangesStep, InFlightStep,
     RevokersStep, NewPairsStep, StoredStep, FirstStep, RefusedStep, ChildrenStep DEF IInv

LEMMA OwnSession == IInv => KeepsOwnSession
<1> SUFFICES ASSUME IInv, NEW r \in Calls,
                    refresh[r].pc = "answered", refresh[r].heard, refresh[r].got = 0,
                    row[refresh[r].token] # "expired", refresh[r].token \notin lost \cup broken
             PROVE  ~(by[refresh[r].token] \subseteq {TabOf[r]})
  BY DEF KeepsOwnSession
<1>1. refresh[r].token \in Pairs
  BY TokenIssued
<1>2. row[refresh[r].token] = "revoked"
  BY DEF IInv, RefusedForGood
<1>3. by[refresh[r].token] # {}
  BY <1>1, <1>2 DEF IInv, Revokers
<1>4. TabOf[r] \notin by[refresh[r].token]
  BY DEF IInv, FirstOfItsTab, Heard, Unserved
<1> QED
  BY <1>3, <1>4

\* A set with no two members has at most one; one with two has more.
LEMMA AtMostOne ==
  ASSUME NEW S, IsFiniteSet(S), \A x, y \in S : x = y
  PROVE  Cardinality(S) <= 1
<1>1. CASE S = {}
  BY <1>1, FS_EmptySet
<1>2. CASE S # {}
  <2>1. PICK x : x \in S
    BY <1>2
  <2>2. S = {x}
    BY <2>1
  <2> QED
    BY <2>2, FS_Singleton
<1> QED
  BY <1>1, <1>2

LEMMA MoreThanOne ==
  ASSUME NEW S, IsFiniteSet(S), NEW x \in S, NEW y \in S, x # y
  PROVE  Cardinality(S) > 1
<1>1. {x} \subseteq S /\ {x} # S
  OBVIOUS
<1>2. IsFiniteSet({x}) /\ Cardinality({x}) = 1
  BY FS_Singleton
<1>3. Cardinality(S) \in Nat
  BY FS_CardinalityType
<1>4. Cardinality({x}) <= Cardinality(S) /\ Cardinality({x}) # Cardinality(S)
  BY <1>1, FS_Subset
<1> QED
  BY <1>2, <1>3, <1>4

LEMMA ForksExplained == IInv => ForkIsExplained
<1> SUFFICES ASSUME IInv, NEW k \in Pairs, k \notin lost
             PROVE  \/ Cardinality({n \in Pairs : parent[n] = k}) <= 1
                    \/ Cardinality(by[k] \ {SignOut}) > 1
  BY DEF ForkIsExplained
<1> DEFINE S == {n \in Pairs : parent[n] = k}
<1>1. CASE \A n, m \in S : n = m
  <2>1. IsFiniteSet(Pairs)
    BY FS_Interval, SessionsAssumption DEF Pairs
  <2>2. IsFiniteSet(S)
    BY <2>1, FS_Subset
  <2> QED
    BY <1>1, <2>2, AtMostOne
<1>2. CASE ~ \A n, m \in S : n = m
  <2>1. PICK t \in Tabs, u \in Tabs : t # u /\ t \in by[k] /\ u \in by[k]
    BY <1>2 DEF IInv, Children
  <2>2. t \in by[k] \ {SignOut} /\ u \in by[k] \ {SignOut}
    BY <2>1, SessionsAssumption
  <2>3. IsFiniteSet(by[k] \ {SignOut})
    BY Typed, FS_Subset
  <2> QED
    BY <2>1, <2>2, <2>3, MoreThanOne
<1> QED
  BY <1>1, <1>2

LEMMA InvariantHolds == SessionsSpec => []IInv
  BY InvariantStarts, InvariantStep, PTL DEF SessionsSpec

\* An account is whole or absent, an exchanged refresh token is dead, and one
\* token becomes two sessions only by the doing of two tabs or of a lost answer,
\* for any number of tabs, calls and pairs.
THEOREM TokensAlwaysRotate == SessionsSpec => []TokensRotate
<1>1. IInv => TokensRotate
  BY ForksExplained DEF TokensRotate, IInv
<1> QED
  BY <1>1, InvariantHolds, PTL

\* No tab loses its session to a race of its own requests: a refresh that ends
\* without a pair means that the token expired, was signed out or used elsewhere,
\* that an answer was lost, or that the server failed.
THEOREM SessionIsKept == SessionsSpec => []KeepsOwnSession
  BY OwnSession, InvariantHolds, PTL

\* A request that joined a refresh waits for one that is under way in its tab and
\* still has a listener, so no request waits for ever on a promise nobody settles.
THEOREM NobodyWaitsInVain == SessionsSpec => []WaitersAreServed
<1>1. IInv => WaitersAreServed
  BY DEF IInv
<1> QED
  BY <1>1, InvariantHolds, PTL
=============================================================================
