------------------------- MODULE InvitationContract -------------------------
(***************************************************************************)
(* What the invitations of a workspace promise, as if each operation were  *)
(* one indivisible step: an invitation is issued to one address, its link  *)
(* may be replaced or withdrawn while it is pending, and it admits that    *)
(* address once, by the link that is valid at that moment.                 *)
(***************************************************************************)
EXTENDS Naturals, Sequences

CONSTANTS Ids, Emails, None

VARIABLES
  phase,       \* Ids -> none, pending, accepted, revoked
  addressee,   \* Ids -> whom it was issued to
  link,        \* Ids -> which of its links is valid
  admitted     \* Ids -> <<who came in, by which link>>, in turn

cvars == <<phase, addressee, link, admitted>>

CInit ==
  /\ phase = [i \in Ids |-> "none"]
  /\ addressee = [i \in Ids |-> None]
  /\ link = [i \in Ids |-> 0]
  /\ admitted = [i \in Ids |-> <<>>]

Issue(i, e) ==
  /\ phase[i] = "none"
  /\ \A j \in Ids : phase[j] = "pending" => addressee[j] # e
  /\ phase' = [phase EXCEPT ![i] = "pending"]
  /\ addressee' = [addressee EXCEPT ![i] = e]
  /\ link' = [link EXCEPT ![i] = 1]
  /\ UNCHANGED admitted

Replace(i) ==
  /\ phase[i] = "pending"
  /\ link' = [link EXCEPT ![i] = @ + 1]
  /\ UNCHANGED <<phase, addressee, admitted>>

Withdraw(i) ==
  /\ phase[i] = "pending"
  /\ phase' = [phase EXCEPT ![i] = "revoked"]
  /\ UNCHANGED <<addressee, link, admitted>>

Admit(i) ==
  /\ phase[i] = "pending"
  /\ phase' = [phase EXCEPT ![i] = "accepted"]
  /\ admitted' = [admitted EXCEPT ![i] = Append(@, <<addressee[i], link[i]>>)]
  /\ UNCHANGED <<addressee, link>>

CNext ==
  \E i \in Ids : (\E e \in Emails : Issue(i, e)) \/ Replace(i) \/ Withdraw(i) \/ Admit(i)

CSpec == CInit /\ [][CNext]_cvars
==============================================================================
