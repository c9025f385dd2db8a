----------------------------- MODULE InviteDialog -----------------------------
(***************************************************************************)
(* The dialog that invites somebody (InviteDialog.tsx in a Modal): three     *)
(* steps the member drives, then the delivery of the email, polled once a    *)
(* second.  The effect that polls starts anew with every invitation object   *)
(* it is given, so with every answer.                                      *)
(*                                                                         *)
(* Left out: what each role may do, and the name of the workspace.          *)
(***************************************************************************)
EXTENDS Integers, Sequences

CONSTANTS Addresses, Malformed,   \* what is typed; what EMAIL_SHAPE does not match
          NoAddress,
          PollLimit,              \* POLL_LIMIT
          MaxInvites              \* bound: invitations created

ASSUME DialogAssumption ==
  /\ Malformed \subseteq Addresses /\ NoAddress \notin Addresses
  /\ PollLimit \in Nat \ {0} /\ MaxInvites \in Nat \ {0}

VARIABLES
  invites,    \* the rows, by id: the address, what became of the email
  form,       \* open, step, email and error
  creating,   \* the call of createInvitation: 0 is none, then its answer
  invitation, \* the dialog's copy of the row
  effect,     \* the polling effect: whether it runs, its attempts
  polling,    \* its calls: the answer once it is made up
  gaveUp,     \* trackingGaveUp
  watched,    \* history: seconds the dialog has shown the email queued
  carried     \* history: gaveUp was set for an invitation shown before

inviteVars == <<invites, form, creating, invitation, effect, polling, gaveUp, watched, carried>>

Mail == {"queued", "sent", "failed"}
NoInvitation == [id |-> 0, mail |-> "queued"]
Created(i) == [id |-> i, mail |-> "queued"]
Idle == [on |-> FALSE, attempts |-> 0]

InviteTypeOK ==
  /\ DOMAIN invites \subseteq 1..MaxInvites
  /\ \A i \in DOMAIN invites : invites[i].email \in Addresses \ Malformed /\ invites[i].mail \in Mail
  /\ form.open \in BOOLEAN /\ form.step \in 0..3 /\ form.email \in Addresses \cup {NoAddress}
  /\ form.error \in {"none", "malformed", "conflict", "forbidden", "other"}
  /\ creating \in {"no", "sent", "done", "conflict", "forbidden"}
  /\ invitation.id \in 0..MaxInvites /\ invitation.mail \in Mail
  /\ effect \in [on : BOOLEAN, attempts : 0..PollLimit]
  /\ \A a \in polling : a.id \in 0..MaxInvites /\ a.mail \in Mail \cup {"unknown"}
  /\ gaveUp \in BOOLEAN /\ watched \in 0..PollLimit + 1
  /\ carried \in BOOLEAN
  \* The last step has an invitation; only the review can be sent, and no dialog is
  \* closed while it is.
  /\ form.step = 3 => invitation.id # 0
  /\ creating # "no" => form.open /\ form.step = 2
  /\ effect.on => form.step = 3 /\ invitation.mail = "queued"

Blank == [open |-> FALSE, step |-> 0, email |-> NoAddress, error |-> "none"]

InviteInit ==
  /\ invites = <<>> /\ form = Blank /\ creating = "no"
  /\ invitation = NoInvitation /\ effect = Idle /\ polling = {} /\ gaveUp = FALSE
  /\ watched = 0 /\ carried = FALSE

-----------------------------------------------------------------------------
\* The backend.

Pending == {invites[i].email : i \in DOMAIN invites}

\* create; the dialog's member may have been demoted meanwhile.
ServeCreate ==
  /\ creating = "sent"
  /\ \/ /\ form.email \notin Pending /\ Len(invites) < MaxInvites
        /\ invites' = Append(invites, [email |-> form.email, mail |-> "queued"])
        /\ creating' = "done"
     \/ form.email \in Pending /\ creating' = "conflict" /\ UNCHANGED invites
     \/ creating' = "forbidden" /\ UNCHANGED invites
  /\ UNCHANGED <<form, invitation, effect, polling, gaveUp, watched, carried>>

\* The mail worker; nobody sends these invitations again.
Delivers(i) ==
  /\ invites[i].mail = "queued"
  /\ \E m \in {"sent", "failed"} : invites' = [invites EXCEPT ![i].mail = m]
  /\ UNCHANGED <<form, creating, invitation, effect, polling, gaveUp, watched, carried>>

\* getInvitation.
ServePoll(a) ==
  /\ a.mail = "unknown"
  /\ polling' = (polling \ {a}) \cup {[a EXCEPT !.mail = invites[a.id].mail]}
  /\ UNCHANGED <<invites, form, creating, invitation, effect, gaveUp, watched, carried>>

-----------------------------------------------------------------------------
\* The dialog.

\* Mutant of Tracks: the calls of the effect before are not aborted.
TracksOn(step, inv) ==
  /\ effect' = [on |-> step = 3 /\ inv.id # 0 /\ inv.mail = "queued", attempts |-> 0]
  /\ UNCHANGED polling

\* The effect for another step or invitation object: its cleanup stops the timer
\* and aborts what is under way.
Tracks(step, inv) ==
  /\ effect' = [on |-> step = 3 /\ inv.id # 0 /\ inv.mail = "queued", attempts |-> 0]
  /\ polling' = {}

Spent == effect.attempts = PollLimit

\* What the cleanup aborts ends in the catch; past the limit it gives up, even for
\* what is shown next.
GivesUpLate == polling # {} /\ Spent

\* reset.
Reset(open) ==
  /\ form' = [Blank EXCEPT !.open = open]
  /\ invitation' = NoInvitation /\ gaveUp' = GivesUpLate
  /\ Tracks(0, NoInvitation)
  /\ watched' = 0 /\ carried' = GivesUpLate

Open ==
  /\ ~form.open
  /\ Reset(TRUE)
  /\ UNCHANGED <<invites, creating>>

InviteAnother ==
  /\ form.open /\ form.step = 3
  /\ Reset(TRUE)
  /\ UNCHANGED <<invites, creating>>

\* onClose, while it is dismissible; the effect goes on.
CloseInvite ==
  /\ form.open /\ creating = "no"
  /\ form' = [form EXCEPT !.open = FALSE]
  /\ UNCHANGED <<invites, creating, invitation, effect, polling, gaveUp, watched, carried>>

TypeAddress(e) ==
  /\ form.open /\ form.step = 0 /\ e # form.email
  /\ form' = [form EXCEPT !.email = e]
  /\ UNCHANGED <<invites, creating, invitation, effect, polling, gaveUp, watched, carried>>

NextStep ==
  /\ form.open /\ form.step < 2 /\ (form.step = 0 => form.email # NoAddress)
  /\ form' = IF form.step = 0 /\ form.email \in Malformed
             THEN [form EXCEPT !.error = "malformed"]
             ELSE [form EXCEPT !.step = @ + 1, !.error = "none"]
  /\ UNCHANGED <<invites, creating, invitation, effect, polling, gaveUp, watched, carried>>

BackStep ==
  /\ form.open /\ form.step \in {1, 2} /\ creating = "no"
  /\ form' = [form EXCEPT !.step = @ - 1]
  /\ UNCHANGED <<invites, creating, invitation, effect, polling, gaveUp, watched, carried>>

Send ==
  /\ form.open /\ form.step = 2 /\ creating = "no"
  /\ creating' = "sent" /\ form' = [form EXCEPT !.error = "none"]
  /\ UNCHANGED <<invites, invitation, effect, polling, gaveUp, watched, carried>>

Sent ==
  /\ creating = "done"
  /\ creating' = "no"
  /\ invitation' = Created(Len(invites)) /\ form' = [form EXCEPT !.step = 3]
  /\ Tracks(3, Created(Len(invites)))
  /\ watched' = 0
  /\ UNCHANGED <<invites, gaveUp, carried>>

\* A conflict is about the address, a refusal about the role; the call or its answer
\* may be lost.
SendFails ==
  /\ creating # "no"
  /\ \E e \in {"conflict", "forbidden", "other"} :
       /\ e # "other" => creating = e
       /\ form' = [form EXCEPT !.error = e, !.step = CASE e = "conflict" -> 0
                                                       [] e = "forbidden" -> 1 [] OTHER -> 2]
  /\ creating' = "no"
  /\ UNCHANGED <<invites, invitation, effect, polling, gaveUp, watched, carried>>

\* The timer, once a second; calls alike are one.
Tick ==
  /\ effect.on /\ effect.attempts < PollLimit
  /\ effect' = [effect EXCEPT !.attempts = @ + 1]
  /\ polling' = polling \cup {[id |-> invitation.id, mail |-> "unknown"]}
  /\ watched' = IF watched > PollLimit THEN watched ELSE watched + 1
  /\ UNCHANGED <<invites, form, creating, invitation, gaveUp, carried>>

\* An answer is shown; the effect starts anew, its attempts with it.
Polled(a) ==
  /\ a.mail # "unknown"
  /\ invitation' = [id |-> a.id, mail |-> a.mail]
  /\ gaveUp' = (gaveUp \/ Spent)
  /\ Tracks(form.step, [id |-> a.id, mail |-> a.mail])
  /\ UNCHANGED <<invites, form, creating, watched, carried>>

\* The next tick tries again, up to the limit.
PollFailed(a) ==
  /\ polling' = polling \ {a}
  /\ gaveUp' = (gaveUp \/ Spent)
  /\ UNCHANGED <<invites, form, creating, invitation, effect, watched, carried>>

InviteNext ==
  \/ Open \/ CloseInvite \/ InviteAnother \/ NextStep \/ BackStep \/ Send \/ Sent \/ SendFails
  \/ \E e \in Addresses : TypeAddress(e)
  \/ ServeCreate \/ \E i \in DOMAIN invites : Delivers(i)
  \/ Tick \/ \E a \in polling : ServePoll(a) \/ Polled(a) \/ PollFailed(a)

InviteSpec == InviteInit /\ [][InviteNext]_inviteVars

-----------------------------------------------------------------------------
\* The last step is about the invitation the dialog has just created, and never
\* shows an outcome its email did not have, whatever was asked for others before.
ShowsItsOwn ==
  form.step = 3 =>
    /\ invitation.id = Len(invites) /\ invites[invitation.id].email = form.email
    /\ invitation.mail # "queued" => invites[invitation.id].mail = invitation.mail

\* As long as the email is shown as queued it is asked for, or the dialog says that
\* it gave up.
WatchedOrGivenUp ==
  form.step = 3 /\ invitation.mail = "queued" =>
    gaveUp \/ polling # {} \/ (effect.on /\ effect.attempts < PollLimit)

\* "Still queued after ... seconds" is not said before; only polls aborted past
\* their limit make it be said of the next invitation at once.
GivesUpInTime == gaveUp /\ form.step = 3 => watched >= PollLimit \/ carried

\* The dialog follows the email of the invitation it has just created, to its outcome
\* or to its limit.
DialogFollowsItsOwn == InviteTypeOK /\ ShowsItsOwn /\ WatchedOrGivenUp /\ GivesUpInTime
=============================================================================
