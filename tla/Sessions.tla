------------------------------ MODULE Sessions ------------------------------
(***************************************************************************)
(* One account, its refresh tokens and the browser that holds them.       *)
(*                                                                         *)
(* The server (auth.service.ts) creates the account in one transaction and *)
(* issues token pairs; refresh() reads the presented token's row, revokes  *)
(* it and issues a new pair in separate statements.  The browser           *)
(* (session.ts, client.ts, DashboardShell.tsx) keeps one pair in the       *)
(* localStorage that all its tabs share, while the promise that merges     *)
(* concurrent refreshes (inFlight) belongs to one tab.                     *)
(*                                                                         *)
(* A pair is a number, in the order of issue; 0 is "no pair".              *)
(***************************************************************************)
EXTENDS Naturals, FiniteSets

CONSTANTS Calls,     \* the HTTP requests a tab can have under way
          Tabs,         \* the tabs of the browser
          TabOf,        \* the tab each request belongs to
          Me,           \* those that are the dashboard's GET /auth/me
          NoRequest,    \* "no refresh in flight"
          SignOut,      \* the revoker that is not a tab: POST /auth/logout
          MaxPairs,     \* bound: pairs issued; no request starts after the last
          MaxSignIns,   \* bound: those issued by a form
          MaxLost       \* bound: tokens whose refresh loses its answer or fails

ASSUME SessionsAssumption ==
  /\ TabOf \in [Calls -> Tabs]
  /\ NoRequest \notin Calls
  /\ Me \subseteq Calls
  /\ SignOut \notin Tabs
  /\ MaxPairs \in Nat \ {0} /\ MaxSignIns \in Nat
  /\ MaxLost \in Nat

Pairs == 1..MaxPairs

VARIABLES
  account,   \* the rows of the account that are committed
  staged,    \* the rows each tab's open sign-up transaction has written
  form,      \* the exchange of each tab's sign-in or sign-up form
  issued,    \* the number of pairs issued
  row,       \* the refresh token's row: "free", "live", "revoked", "expired"
  parent,    \* history: the pair a refresh exchanged for this one, or 0
  by,        \* history: who revoked the row
  stored,    \* localStorage: the pair the tabs share, or 0
  page,      \* what each tab shows: "login" or "shell" (the dashboard)
  inFlight,  \* the request whose performRefresh each tab awaits
  refresh,   \* the exchange with POST /auth/refresh a request started
  req,       \* the requests
  logout,    \* the pair of each tab's POST /auth/logout under way, or 0
  lost,      \* history: the pairs whose refresh lost its answer
  broken     \* history: the pairs whose refresh was answered with an error

server  == <<account, staged, issued, row, parent, by>>
tokens  == <<issued, row, parent>>
browser == <<stored, page, inFlight, req>>
sessionVars == <<server, form, browser, refresh, logout, lost, broken>>

AccountRows == {"user", "workspace", "membership", "quota"}
FormPcs == {"idle", "checked", "writing", "committed", "answered"}
Idle    == [pc |-> "idle", on |-> NoRequest]
Quiet   == [pc |-> "none", token |-> 0, heard |-> FALSE, got |-> 0]
NoForm  == [pc |-> "idle", got |-> 0]

SessionsTypeOK ==
  /\ account \in SUBSET AccountRows
  /\ staged \in [Tabs -> SUBSET AccountRows]
  /\ form \in [Tabs -> [pc : FormPcs, got : 0..MaxPairs]]
  /\ issued \in 0..MaxPairs
  /\ row \in [Pairs -> {"free", "live", "revoked", "expired"}]
  /\ parent \in [Pairs -> 0..MaxPairs]
  /\ by \in [Pairs -> SUBSET (Tabs \cup {SignOut})]
  /\ stored \in 0..MaxPairs
  /\ page \in [Tabs -> {"login", "shell"}]
  /\ inFlight \in [Tabs -> Calls \cup {NoRequest}]
  /\ refresh \in [Calls -> [pc : {"none", "sent", "read", "saved", "answered"},
                               token : 0..MaxPairs, heard : BOOLEAN, got : 0..MaxPairs]]
  /\ req \in [Calls -> [pc : {"idle", "valid", "sent", "retry"},
                           on : Calls \cup {NoRequest}]]
  /\ logout \in [Tabs -> 0..MaxPairs]
  /\ lost \in SUBSET Pairs /\ broken \in SUBSET Pairs
  /\ \A k \in Pairs : row[k] = "free" <=> k > issued

SessionsInit ==
  /\ account = {} /\ staged = [t \in Tabs |-> {}]
  /\ form = [t \in Tabs |-> NoForm]
  /\ issued = 0 /\ row = [k \in Pairs |-> "free"]
  /\ parent = [k \in Pairs |-> 0]
  /\ by = [k \in Pairs |-> {}]
  /\ stored = 0 /\ page = [t \in Tabs |-> "login"]
  /\ inFlight = [t \in Tabs |-> NoRequest]
  /\ refresh = [r \in Calls |-> Quiet] /\ req = [r \in Calls |-> Idle]
  /\ logout = [t \in Tabs |-> 0]
  /\ lost = {} /\ broken = {}

-----------------------------------------------------------------------------
(* The server's token pairs.                                               *)

\* issueTokenPair: two JWTs and the hash of the refresh token.
IssueTokenPair(k, from) ==
  /\ k = issued + 1 /\ k \in Pairs
  /\ issued' = k
  /\ row' = [row EXCEPT ![k] = "live"]
  /\ parent' = [parent EXCEPT ![k] = from]

\* Seven days pass: the JWT and the row's expiresAt lapse together.  Only the
\* pair the browser still holds matters.
RefreshTokenExpires(k) ==
  /\ row[k] = "live" /\ stored = k
  /\ row' = [row EXCEPT ![k] = "expired"]
  /\ UNCHANGED <<account, staged, issued, parent, by, form, browser, refresh, logout, lost, broken>>

-----------------------------------------------------------------------------
(* The sign-in and sign-up forms.                                          *)

\* register: no user with this email yet.
RegisterCheck(t) ==
  /\ page[t] = "login" /\ form[t].pc = "idle" /\ account = {}
  /\ form' = [form EXCEPT ![t].pc = "checked"]
  /\ UNCHANGED <<server, browser, refresh, logout, lost, broken>>

\* The transaction inserts the user first, against the unique email: the
\* later of two sign-ups waits for the earlier and fails when that commits.
RegisterInsertUser(t) ==
  /\ form[t].pc = "checked"
  /\ IF "user" \in account
     THEN form' = [form EXCEPT ![t] = NoForm] /\ UNCHANGED staged
     ELSE /\ \A u \in Tabs : staged[u] = {}
          /\ staged' = [staged EXCEPT ![t] = {"user"}]
          /\ form' = [form EXCEPT ![t].pc = "writing"]
  /\ UNCHANGED <<account, tokens, by, browser, refresh, logout, lost, broken>>

\* manager.save(Workspace), manager.save(Membership), quota.createTrial.
RegisterWrite(t) ==
  /\ form[t].pc = "writing"
  /\ \E next \in AccountRows \ staged[t] :
       /\ next = "membership" => "workspace" \in staged[t]
       /\ next = "quota" => "membership" \in staged[t]
       /\ staged' = [staged EXCEPT ![t] = @ \cup {next}]
  /\ UNCHANGED <<account, tokens, by, form, browser, refresh, logout, lost, broken>>

RegisterCommit(t) ==
  /\ form[t].pc = "writing" /\ staged[t] = AccountRows
  /\ account' = account \cup staged[t]
  /\ staged' = [staged EXCEPT ![t] = {}]
  /\ form' = [form EXCEPT ![t].pc = "committed"]
  /\ UNCHANGED <<tokens, by, browser, refresh, logout, lost, broken>>

\* login finds the user and compares the password, register has committed:
\* both end in issueTokenPair.
FormIssue(t) ==
  /\ \/ form[t].pc = "committed"
     \/ page[t] = "login" /\ form[t].pc = "idle" /\ "user" \in account
  /\ \A u \in Tabs : form[u].pc # "checked"   \* a sign-up that lost fails first
  /\ Cardinality({k \in 1..issued : parent[k] = 0}) < MaxSignIns
  /\ \E k \in Pairs :
       /\ IssueTokenPair(k, 0)
       /\ form' = [form EXCEPT ![t] = [pc |-> "answered", got |-> k]]
  /\ UNCHANGED <<account, staged, by, browser, refresh, logout, lost, broken>>

\* setSession(await login(...)) and router.push: the dashboard opens.
FormAnswer(t) ==
  /\ form[t].pc = "answered"
  /\ stored' = form[t].got
  /\ page' = [page EXCEPT ![t] = "shell"]
  /\ form' = [form EXCEPT ![t] = NoForm]
  /\ UNCHANGED <<server, inFlight, req, refresh, logout, lost, broken>>

\* The exchange breaks at any point: an open transaction rolls back, what is
\* committed stays, the form shows an error.
FormBreaks(t) ==
  /\ form[t].pc # "idle"
  /\ staged' = [staged EXCEPT ![t] = {}]
  /\ form' = [form EXCEPT ![t] = NoForm]
  /\ UNCHANGED <<account, tokens, by, browser, refresh, logout, lost, broken>>

-----------------------------------------------------------------------------
(* POST /auth/refresh.                                                     *)

\* verifyAsync and findOne: a missing, revoked or expired row is refused.
RefreshRead(r) ==
  /\ refresh[r].pc = "sent"
  /\ issued < MaxPairs
  /\ refresh' = [refresh EXCEPT ![r].pc =
                   IF row[refresh[r].token] = "live" THEN "read" ELSE "answered"]
  /\ UNCHANGED <<server, form, browser, logout, lost, broken>>

\* Mutant of RefreshSave: the new pair is issued before the old row is revoked.
RefreshIssuesFirst(r) ==
  /\ refresh[r].pc = "read"
  /\ \E k \in Pairs :
       /\ IssueTokenPair(k, refresh[r].token)
       /\ refresh' = [refresh EXCEPT ![r].pc = "answered", ![r].got = k]
  /\ UNCHANGED <<account, staged, by, form, browser, logout, lost, broken>>

\* storedToken.revokedAt = new Date(); save: by id, whatever the row says now.
RefreshSave(r) ==
  /\ refresh[r].pc = "read"
  /\ row' = [row EXCEPT ![refresh[r].token] = "revoked"]
  /\ by' = [by EXCEPT ![refresh[r].token] = @ \cup {TabOf[r]}]
  /\ refresh' = [refresh EXCEPT ![r].pc = "saved"]
  /\ UNCHANGED <<account, staged, issued, parent, form, browser, logout, lost, broken>>

RefreshIssue(r) ==
  /\ refresh[r].pc = "saved"
  /\ \E k \in Pairs :
       /\ IssueTokenPair(k, refresh[r].token)
       /\ refresh' = [refresh EXCEPT ![r].pc = "answered", ![r].got = k]
  /\ UNCHANGED <<account, staged, by, form, browser, logout, lost, broken>>

\* A statement of the call throws (its commit may have reached the database all
\* the same): the tab hears a 500.
RefreshThrows(r) ==
  /\ refresh[r].heard
  /\ refresh[r].pc \in {"sent", "read", "saved"} \/ refresh[r].got # 0
  /\ Cardinality(lost \cup broken) < MaxLost
  /\ broken' = broken \cup {refresh[r].token}
  /\ refresh' = [refresh EXCEPT ![r].pc = "answered", ![r].got = 0]
  /\ UNCHANGED <<server, form, browser, logout, lost>>

\* The server stops between two statements of the call, or one throws, and
\* nobody listens any more.
RefreshCrash(r) ==
  /\ refresh[r].pc \in {"sent", "read", "saved"} /\ ~refresh[r].heard
  /\ refresh' = [refresh EXCEPT ![r] = Quiet]
  /\ UNCHANGED <<server, form, browser, logout, lost, broken>>

RefreshUnheard(r) ==
  /\ refresh[r].pc = "answered" /\ ~refresh[r].heard
  /\ refresh' = [refresh EXCEPT ![r] = Quiet]
  /\ UNCHANGED <<server, form, browser, logout, lost, broken>>

-----------------------------------------------------------------------------
(* session.ts and client.ts in a tab.                                      *)

\* Mutant of RefreshSession: every request starts a refresh of its own.
RefreshAlone(r, pc) ==
  /\ refresh[r].pc = "none" /\ stored # 0
  /\ req' = [req EXCEPT ![r] = [pc |-> pc, on |-> r]]
  /\ inFlight' = [inFlight EXCEPT ![TabOf[r]] = r]
  /\ refresh' = [refresh EXCEPT ![r] =
                   [pc |-> "sent", token |-> stored, heard |-> TRUE, got |-> 0]]

\* refreshSession: join the refresh in flight or start one.
RefreshSession(r, pc) ==
  LET t == TabOf[r]
      owner == IF inFlight[t] = NoRequest THEN r ELSE inFlight[t]
  IN /\ req' = [req EXCEPT ![r] = [pc |-> pc, on |-> owner]]
     /\ IF inFlight[t] # NoRequest
        THEN UNCHANGED <<inFlight, refresh>>
        ELSE /\ refresh[r].pc = "none"
             /\ inFlight' = [inFlight EXCEPT ![t] = r]
             /\ refresh' = [refresh EXCEPT ![r] =
                  [pc |-> "sent", token |-> stored, heard |-> TRUE, got |-> 0]]

\* redirectToLogin loads a new document: what the tab had under way is gone.
RedirectToLogin(t, q) ==
  /\ page' = [page EXCEPT ![t] = "login"]
  /\ req' = [r \in Calls |-> IF TabOf[r] = t THEN Idle ELSE q[r]]

\* request(): a stored pair makes it refreshable; getValidAccessToken refreshes
\* when the access token has expired or will in 30 s, and sends it otherwise.
\* The age of an access token is left open, here and when it arrives.  Without
\* a stored pair the request goes out with no token and fails.
SendRequest(r) ==
  /\ page[TabOf[r]] = "shell" /\ req[r].pc = "idle" /\ stored # 0
  /\ issued < MaxPairs
  /\ \/ req' = [req EXCEPT ![r].pc = "sent"] /\ UNCHANGED <<inFlight, refresh>>
     \/ RefreshSession(r, "valid")
  /\ UNCHANGED <<server, form, stored, page, logout, lost, broken>>

\* Mutant of Resumed: the requests that joined a refresh miss its failure.
ResumedByOwner(r, got) ==
  IF got # 0 THEN Idle
  ELSE IF req[r].on # r THEN req[r] ELSE [pc |-> "sent", on |-> NoRequest]

\* A request that waited for performRefresh goes out with the new pair, which
\* the server accepts: it was issued a moment ago.  Without one, a request
\* that waits in getValidAccessToken goes out with what is stored.
Resumed(r, got) == IF got # 0 THEN Idle ELSE [pc |-> "sent", on |-> NoRequest]

\* performRefresh resolves and wakes every request of the tab that awaits it.
\* A 401 with no new pair sends the tab to the login page; if the request was
\* the dashboard's me(), the session is cleared as well.
Resolve(r, got, store) ==
  LET t == TabOf[r]
      woken == [q \in Calls |-> IF req[q].on = r THEN Resumed(q, got) ELSE req[q]]
      refused == {q \in Calls : req[q].on = r /\ req[q].pc = "retry" /\ got = 0}
  IN /\ stored' = IF refused \cap Me # {} THEN 0 ELSE store
     /\ inFlight' = [inFlight EXCEPT ![t] = NoRequest]
     /\ IF refused # {}
        THEN RedirectToLogin(t, woken)
        ELSE req' = woken /\ UNCHANGED page

\* Any answer but 200 clears the session, whatever pair is stored by now.
RefreshAnswer(r) ==
  /\ refresh[r].pc = "answered" /\ refresh[r].heard
  /\ Resolve(r, refresh[r].got, refresh[r].got)
  /\ refresh' = [refresh EXCEPT ![r] = Quiet]
  /\ UNCHANGED <<server, form, logout, lost, broken>>

\* The connection breaks: fetch rejects and performRefresh returns null; the
\* server may carry on with the call or never see it.
RefreshBreaks(r) ==
  /\ refresh[r].pc # "none" /\ refresh[r].heard
  /\ Cardinality(lost \cup broken) < MaxLost
  /\ lost' = lost \cup {refresh[r].token}
  /\ refresh' = [refresh EXCEPT ![r].heard = FALSE]
  /\ Resolve(r, 0, stored)
  /\ UNCHANGED <<server, form, logout, broken>>

\* DashboardShell's me() failed: clearSession and a client-side navigation.
ShellGivesUp(r) ==
  /\ stored' = 0
  /\ page' = [page EXCEPT ![TabOf[r]] = "login"]

Settle(r) == req' = [req EXCEPT ![r] = Idle]

\* JwtAuthGuard looks at the access token's signature and expiry only.
RequestAnswered(r) ==
  /\ req[r].pc = "sent"
  /\ Settle(r)
  /\ UNCHANGED <<server, form, stored, page, inFlight, refresh, logout, lost, broken>>

\* The first 401 of a request refreshes once; with nothing stored any more
\* there is nothing to refresh with and the tab goes to the login page.
RequestUnauthorized(r) ==
  /\ req[r].pc = "sent"
  /\ IF stored = 0 /\ inFlight[TabOf[r]] = NoRequest
     THEN RedirectToLogin(TabOf[r], req) /\ UNCHANGED <<inFlight, refresh>>
     ELSE RefreshSession(r, "retry") /\ UNCHANGED page
  /\ UNCHANGED <<server, form, stored, logout, lost, broken>>

\* No connection: the caller gets an ApiError.
RequestFails(r) ==
  /\ req[r].pc = "sent"
  /\ IF r \in Me THEN ShellGivesUp(r) ELSE UNCHANGED <<stored, page>>
  /\ Settle(r)
  /\ UNCHANGED <<server, form, inFlight, refresh, logout, lost, broken>>

\* The user opens the console in the tab: with a stored token HomePage goes to
\* the dashboard.
OpenHome(t) ==
  /\ page[t] = "login" /\ form[t].pc = "idle" /\ stored # 0
  /\ page' = [page EXCEPT ![t] = "shell"]
  /\ UNCHANGED <<server, form, stored, inFlight, req, refresh, logout, lost, broken>>

\* handleLogout: endSession clears the store first, then tells the server.
EndSession(t) ==
  /\ page[t] = "shell" /\ \A u \in Tabs : logout[u] = 0   \* bound: one at a time
  /\ logout' = [logout EXCEPT ![t] = stored]
  /\ stored' = 0
  /\ page' = [page EXCEPT ![t] = "login"]
  /\ UNCHANGED <<server, form, inFlight, req, refresh, lost, broken>>

\* AuthService.logout: an UPDATE by the token's hash.
Logout(t) ==
  /\ logout[t] # 0
  /\ row' = [row EXCEPT ![logout[t]] = "revoked"]
  /\ by' = [by EXCEPT ![logout[t]] = @ \cup {SignOut}]
  /\ logout' = [logout EXCEPT ![t] = 0]
  /\ UNCHANGED <<account, staged, issued, parent, form, browser, refresh, lost, broken>>

\* endSession swallows the error of a call that never arrives.
LogoutLost(t) ==
  /\ logout[t] # 0
  /\ logout' = [logout EXCEPT ![t] = 0]
  /\ UNCHANGED <<server, form, browser, refresh, lost, broken>>

-----------------------------------------------------------------------------
Form(t) ==
  \/ RegisterCheck(t) \/ RegisterInsertUser(t) \/ RegisterWrite(t)
  \/ RegisterCommit(t) \/ FormIssue(t) \/ FormAnswer(t)
  \/ FormBreaks(t)

RefreshCall(r) ==
  \/ RefreshRead(r) \/ RefreshSave(r) \/ RefreshIssue(r) \/ RefreshAnswer(r)
  \/ RefreshThrows(r) \/ RefreshCrash(r) \/ RefreshUnheard(r)

Request(r) == RequestAnswered(r) \/ RequestUnauthorized(r) \/ RequestFails(r)

SessionsNext ==
  \/ \E k \in Pairs : RefreshTokenExpires(k)
  \/ \E t \in Tabs : Form(t) \/ OpenHome(t) \/ EndSession(t) \/ Logout(t) \/ LogoutLost(t)
  \/ \E r \in Calls :
       SendRequest(r) \/ RefreshCall(r) \/ RefreshBreaks(r) \/ Request(r)

SessionsSpec == SessionsInit /\ [][SessionsNext]_sessionVars

-----------------------------------------------------------------------------
\* An account is all of its rows or none: a workspace that exists without its
\* quota rows would answer without limit and without charge.
AccountComplete == account \in {{}, AccountRows}

\* A refresh token that was exchanged is dead, even when the server stopped
\* between revoking it and issuing the pair that replaces it.
RotatedIsRevoked ==
  \A k \in Pairs : parent[k] # 0 => row[parent[k]] = "revoked"

\* The requests a tab has under way never cost it its session by themselves: a
\* refresh ends without a pair (which clears the store) only if the token expired,
\* was signed out, was used by another tab or by a refresh whose answer was lost,
\* or if the server failed, which the tab does not tell from a refusal.
KeepsOwnSession ==
  \A r \in Calls :
    LET k == refresh[r].token
    IN refresh[r].pc = "answered" /\ refresh[r].heard /\ refresh[r].got = 0
         => \/ row[k] = "expired" \/ k \in lost \/ k \in broken
            \/ ~(by[k] \subseteq {TabOf[r]})

\* Two pairs issued for one refresh token are the doing of two tabs, or of a
\* second try after a lost answer: within a tab, refreshes are merged.
ForkIsExplained ==
  \A k \in Pairs :
    \/ Cardinality({n \in Pairs : parent[n] = k}) <= 1
    \/ Cardinality(by[k] \ {SignOut}) > 1
    \/ k \in lost

\* What the documentation says of a refresh token (docs/phases/02-auth-rbac.md:123):
\* it is usable once.
TokenUsedOnce == \A k \in Pairs : Cardinality({n \in Pairs : parent[n] = k}) <= 1

\* No request waits for a refresh that will not wake it: what it waits for is
\* under way, in its own tab, and still has a listener.
WaitersAreServed ==
  \A r \in Calls :
    IF req[r].pc \in {"valid", "retry"}
    THEN /\ req[r].on \in Calls /\ TabOf[req[r].on] = TabOf[r]
         /\ refresh[req[r].on].pc # "none" /\ refresh[req[r].on].heard
    ELSE req[r].on = NoRequest

\* Tokens rotate: an account is whole, an exchanged token is dead, and one token
\* becomes two sessions only by the doing of two tabs or of a lost answer.
TokensRotate == SessionsTypeOK /\ AccountComplete /\ RotatedIsRevoked /\ ForkIsExplained
=============================================================================
