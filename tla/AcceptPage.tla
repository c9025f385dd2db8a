----------------------------- MODULE AcceptPage -----------------------------
(***************************************************************************)
(* The page behind an invitation's link (AcceptInvitation.tsx): it reads    *)
(* the token from the URL fragment, previews the invitation, finds out who  *)
(* is looking, and accepts -- as the one signed in, by signing in, or with  *)
(* a new account.                                                          *)
(*                                                                         *)
(* A second link opened in the same tab changes only the fragment: the page *)
(* starts again while the calls of the first link may still be under way.  *)
(* A call goes out, is served, and its answer arrives or is lost; whatever  *)
(* the handler does then is one step.  The server is what Invitations says  *)
(* of it, one step per call.                                               *)
(*                                                                         *)
(* Left out: the fields of the forms and what is wrong with them, and other *)
(* tabs (module Sessions).                                                 *)
(***************************************************************************)
EXTENDS Naturals

CONSTANTS Links, Guests,  \* the links, and the addresses they were sent to
          Invitee,
          NoLink, NoOne,
          MaxVisits       \* bound: times a link is opened in the tab

ASSUME AcceptPageAssumption ==
  /\ Invitee \in [Links -> Guests]
  /\ NoLink \notin Links /\ NoOne \notin Guests /\ MaxVisits \in Nat

VARIABLES
  linkState, \* what a link finds: "unknown" once a resend replaced it
  accounts,  \* the addresses with an account
  admitted,  \* who joined by each link
  signedIn,  \* whose session the browser stores
  visit,     \* how many links this tab has opened
  at,        \* the page's state
  underway,  \* the requests under way
  crossed    \* history: a link was opened while calls of another were under way

world == <<linkState, accounts, admitted>>
acceptVars == <<world, signedIn, visit, at, underway, crossed>>

Statuses == {"pending", "accepted", "closed", "unknown"}
Accepting == {"login", "accept", "signup"}
Handled == Accepting \cup {"reread"}

\* visit: the one the call was made in.  seen: the invitation the page showed.
Call == [op : Handled \cup {"preview", "me"}, visit : 0..MaxVisits, link : Links,
         seen : Links, as : Guests \cup {NoOne},
         reply : Statuses \cup {"none", "done", "refused", "forbidden", "broken"}, exists : BOOLEAN]

AcceptTypeOK ==
  /\ linkState \in [Links -> Statuses]
  /\ accounts \subseteq Guests
  /\ admitted \in [Links -> Guests \cup {NoOne}]
  /\ signedIn \in Guests \cup {NoOne}
  /\ visit \in 0..MaxVisits
  /\ at \in [token : Links \cup {NoLink}, load : {"loading", "missing", "invalid", "ready"},
             shown : Links \cup {NoLink}, status : Statuses, exists : BOOLEAN,
             viewer : {"checking", "match", "other", "out"}, step : 0..2,
             joined : Links \cup {NoLink}, busy : BOOLEAN]
  /\ underway \subseteq Call
  /\ crossed \in BOOLEAN
  \* The second step is one of an invitation that was there.
  /\ at.step = 1 => at.load \in {"ready", "invalid"}

\* The page before its first effect has run.
BlankPage == [token |-> NoLink, load |-> "loading", shown |-> NoLink, status |-> "unknown",
          exists |-> FALSE, viewer |-> "checking", step |-> 0, joined |-> NoLink, busy |-> FALSE]

AcceptInit ==
  /\ linkState = [l \in Links |-> "pending"]
  /\ accounts \in SUBSET Guests
  /\ admitted = [l \in Links |-> NoOne]
  /\ signedIn \in accounts \cup {NoOne}
  /\ visit = 0 /\ at = BlankPage /\ underway = {} /\ crossed = FALSE

CallTo(op, link, seen, as) ==
  [op |-> op, visit |-> visit, link |-> link, seen |-> seen, as |-> as,
   reply |-> "none", exists |-> FALSE]

-----------------------------------------------------------------------------
\* The server and the network.

\* acceptAsExistingUser, acceptWithSignup: who joins by call c, if anyone.
Joiner(c) ==
  IF \/ linkState[c.link] # "pending"
     \/ c.op = "accept" /\ c.as # Invitee[c.link]
     \/ c.op = "signup" /\ Invitee[c.link] \in accounts
  THEN NoOne ELSE Invitee[c.link]

AnswerTo(c) ==
  CASE c.op \in {"preview", "reread"} -> linkState[c.link]
    [] c.op = "me" -> "done"
    [] c.op = "login" -> IF c.as \in accounts THEN "done" ELSE "forbidden"
    [] c.op = "accept" /\ linkState[c.link] # "unknown" /\ c.as # Invitee[c.link] -> "forbidden"
    [] OTHER -> IF Joiner(c) = NoOne THEN "refused" ELSE "done"

Serve(c) ==
  LET j == IF c.op \in {"accept", "signup"} THEN Joiner(c) ELSE NoOne
  IN /\ c.reply = "none"
     /\ IF j = NoOne THEN UNCHANGED world
        ELSE /\ linkState' = [linkState EXCEPT ![c.link] = "accepted"]
             /\ admitted' = [admitted EXCEPT ![c.link] = j]
             /\ accounts' = accounts \cup {j}
     /\ underway' = (underway \ {c}) \cup
          {[c EXCEPT !.reply = AnswerTo(c), !.exists = Invitee[c.link] \in accounts]}
     /\ UNCHANGED <<signedIn, visit, at, crossed>>

\* A request or its answer is lost; for "me", the stored token may be stale.
Break(c) ==
  /\ c.reply # "broken"
  /\ underway' = (underway \ {c}) \cup {[c EXCEPT !.reply = "broken", !.exists = FALSE]}
  /\ UNCHANGED <<world, signedIn, visit, at, crossed>>

\* Revoked or expired; or replaced by a resend.
Closes(l) ==
  /\ linkState[l] = "pending"
  /\ \E s \in {"closed", "unknown"} : linkState' = [linkState EXCEPT ![l] = s]
  /\ UNCHANGED <<accounts, admitted, signedIn, visit, at, underway, crossed>>

-----------------------------------------------------------------------------
\* The page.

Loading(l) == IF l = NoLink THEN "missing" ELSE "loading"

\* Mutant of Started: the viewer is not looked at again.
StartedKnown(l) ==
  [BlankPage EXCEPT !.token = l, !.load = Loading(l), !.busy = at.busy, !.viewer = at.viewer]

\* start() leaves alone only the busy flag.
Started(l) ==
  [BlankPage EXCEPT !.token = l, !.load = Loading(l), !.busy = at.busy]

\* On mount and on every hashchange.
Start(l) ==
  /\ visit < MaxVisits /\ at.token # l
  /\ visit' = visit + 1
  /\ at' = Started(l)
  /\ underway' = underway \cup
       (IF l = NoLink THEN {} ELSE {[CallTo("preview", l, l, NoOne) EXCEPT !.visit = visit + 1]})
  /\ crossed' = (crossed \/ underway # {})
  /\ UNCHANGED <<world, signedIn>>

\* A preview is shown, and the effect on it asks who is signed in: nobody, or
\* the server is asked.
Show(c, others, page) ==
  IF c.reply \in {"broken", "unknown"}
  THEN at' = [page EXCEPT !.load = "invalid"] /\ underway' = others
  ELSE LET shown == [page EXCEPT !.load = "ready", !.shown = c.link, !.status = c.reply,
                                 !.exists = c.exists]
       IN IF signedIn = NoOne
          THEN at' = [shown EXCEPT !.viewer = "out"] /\ underway' = others
          ELSE at' = shown /\ underway' = others \cup {CallTo("me", c.link, c.link, signedIn)}

Previewed(c) ==
  /\ c.op = "preview" /\ c.reply # "none"
  /\ Show(c, underway \ {c}, at)
  /\ UNCHANGED <<world, signedIn, visit, crossed>>

\* identifyViewer's answer: a session that does not work is cleared.
Identified(c) ==
  /\ c.op = "me" /\ c.reply # "none"
  /\ underway' = underway \ {c}
  /\ IF c.reply = "broken" THEN signedIn' = NoOne /\ at' = [at EXCEPT !.viewer = "out"]
     ELSE /\ at' = [at EXCEPT !.viewer = IF c.as = Invitee[c.link] THEN "match" ELSE "other"]
          /\ UNCHANGED signedIn
  /\ UNCHANGED <<world, visit, crossed>>

\* The second step of a pending invitation.
Offering(viewer) ==
  at.load = "ready" /\ at.status = "pending" /\ at.step = 1 /\ at.viewer = viewer

Continue ==
  /\ at.load = "ready" /\ at.status = "pending" /\ at.step = 0
  /\ at' = [at EXCEPT !.step = 1]
  /\ UNCHANGED <<world, signedIn, visit, underway, crossed>>

Back ==
  /\ at.load = "ready" /\ at.status = "pending" /\ at.step = 1 /\ ~at.busy
  /\ at' = [at EXCEPT !.step = 0]
  /\ UNCHANGED <<world, signedIn, visit, underway, crossed>>

Presses(op, as) ==
  /\ ~at.busy /\ at.token # NoLink
  /\ at' = [at EXCEPT !.busy = TRUE]
  /\ underway' = underway \cup {CallTo(op, at.token, at.shown, as)}
  /\ UNCHANGED <<world, signedIn, visit, crossed>>

AcceptSignedIn == Offering("match") /\ Presses("accept", signedIn)

\* The address is that of the invitation shown, the token that of the link.
SignInAndAccept == Offering("out") /\ at.exists /\ Presses("login", Invitee[at.shown])

CreateAccountAndAccept == Offering("out") /\ ~at.exists /\ Presses("signup", NoOne)

SignOutForThisInvite ==
  /\ Offering("other")
  /\ signedIn' = NoOne
  /\ at' = [at EXCEPT !.viewer = "out"]
  /\ UNCHANGED <<world, visit, underway, crossed>>

\* finish()
Finished(link) == [at EXCEPT !.joined = link, !.step = 2, !.busy = FALSE]

\* handleFailure: what ended the flow at the server is read again.
Fails(c) ==
  IF c.reply = "refused"
  THEN /\ underway' = (underway \ {c}) \cup {[c EXCEPT !.op = "reread", !.reply = "none"]}
       /\ UNCHANGED at
  ELSE underway' = underway \ {c} /\ at' = [at EXCEPT !.busy = FALSE]

\* signInAndAccept goes on with the token it was called with.
LoggedIn(c) ==
  /\ c.op = "login" /\ c.reply # "none"
  /\ IF c.reply # "done" THEN Fails(c) /\ UNCHANGED signedIn
     ELSE /\ signedIn' = c.as
          /\ underway' = (underway \ {c}) \cup {[c EXCEPT !.op = "accept", !.reply = "none"]}
          /\ UNCHANGED at
  /\ UNCHANGED <<world, visit, crossed>>

Accepted(c) ==
  /\ c.op \in {"accept", "signup"} /\ c.reply # "none"
  /\ IF c.reply = "done" THEN at' = Finished(c.link) /\ underway' = underway \ {c} ELSE Fails(c)
  /\ signedIn' = IF c.op = "signup" /\ c.reply = "done" THEN Invitee[c.link] ELSE signedIn
  /\ UNCHANGED <<world, visit, crossed>>

Reread(c) ==
  /\ c.op = "reread" /\ c.reply # "none"
  /\ Show(c, underway \ {c}, [at EXCEPT !.busy = FALSE])
  /\ UNCHANGED <<world, signedIn, visit, crossed>>

AcceptNext ==
  \/ \E c \in underway : \/ Serve(c) \/ Break(c)
                      \/ Previewed(c) \/ Identified(c) \/ LoggedIn(c) \/ Accepted(c) \/ Reread(c)
  \/ \E l \in Links : Closes(l) \/ Start(l)
  \/ Start(NoLink) \/ Continue \/ Back
  \/ AcceptSignedIn \/ SignInAndAccept \/ CreateAccountAndAccept \/ SignOutForThisInvite

AcceptSpec == AcceptInit /\ [][AcceptNext]_acceptVars

-----------------------------------------------------------------------------
\* The buttons are locked exactly while an acceptance, or the look at what
\* became of it, is under way, and there is one at a time even when another link
\* is opened meanwhile.
BusyIsTrue ==
  /\ at.busy <=> \E c \in underway : c.op \in Handled
  /\ \A c, d \in underway : c.op \in Handled /\ d.op \in Handled => c = d

\* "You're in" is said of a link by which the invited address has joined, and,
\* unless links crossed, to a browser signed in as that address.
JoinedIsReal ==
  at.joined # NoLink =>
    /\ admitted[at.joined] = Invitee[at.joined]
    /\ ~crossed => signedIn = Invitee[at.joined]

\* One accepts what one sees: the invitation shown, the viewer found and the
\* acceptance under way are those of the link in the address bar, unless that
\* link was opened while the calls of an earlier one were under way.
OneAcceptsWhatOneSees ==
  ~crossed =>
    /\ at.load = "ready" => at.shown = at.token
    /\ at.viewer = "match" => signedIn = Invitee[at.token]
    /\ \A c \in underway : c.link = at.token /\ c.seen = c.link

\* The page behind a link accepts what it shows, once, and says what came of it.
AcceptanceIsHonest == AcceptTypeOK /\ BusyIsTrue /\ JoinedIsReal /\ OneAcceptsWhatOneSees
=============================================================================
