--------------------------- MODULE HandoffContract ---------------------------
(***************************************************************************)
(* What the handoff and member operations promise, as if each of them were *)
(* one indivisible step: no requests, no locks, no waiting.  Module        *)
(* Handoff, with its transactions and row locks, implements this.          *)
(***************************************************************************)
CONSTANTS Users, Sessions, NoUser

VARIABLES role, status, claimedBy

cvars == <<role, status, claimedBy>>

Member(u) == role[u] # "none"

\* u may stop being an owner: it is none, or it is not the only one.
MayStepDown(u) == role[u] # "owner" \/ \E v \in Users \ {u} : role[v] = "owner"

Release(u) ==
  LET held == {s \in Sessions : status[s] = "claimed" /\ claimedBy[s] = u} IN
  /\ status' = [s \in Sessions |-> IF s \in held THEN "escalated" ELSE status[s]]
  /\ claimedBy' = [s \in Sessions |-> IF s \in held THEN NoUser ELSE claimedBy[s]]

CInit ==
  /\ role \in [Users -> {"owner", "agent", "viewer", "none"}]
  /\ \E u \in Users : role[u] = "owner"
  /\ status = [s \in Sessions |-> "absent"]
  /\ claimedBy = [s \in Sessions |-> NoUser]

EscalateSession(s) ==
  /\ status[s] = "absent"
  /\ status' = [status EXCEPT ![s] = "escalated"]
  /\ UNCHANGED <<role, claimedBy>>

ClaimSession(u, s) ==
  /\ Member(u) /\ status[s] = "escalated"
  /\ status' = [status EXCEPT ![s] = "claimed"]
  /\ claimedBy' = [claimedBy EXCEPT ![s] = u]
  /\ UNCHANGED role

ResolveSession(s) ==
  /\ status[s] = "claimed"
  /\ status' = [status EXCEPT ![s] = "resolved"]
  /\ UNCHANGED <<role, claimedBy>>

JoinAs(u, g) ==
  /\ ~Member(u)
  /\ role' = [role EXCEPT ![u] = g]
  /\ UNCHANGED <<status, claimedBy>>

SetRole(u, g) ==
  /\ Member(u)
  /\ g = "owner" \/ MayStepDown(u)
  /\ role' = [role EXCEPT ![u] = g]
  /\ IF g = "viewer" THEN Release(u) ELSE UNCHANGED <<status, claimedBy>>

EndMembership(u) ==
  /\ Member(u) /\ MayStepDown(u)
  /\ role' = [role EXCEPT ![u] = "none"]
  /\ Release(u)

TransferOwnership(a, u) ==
  /\ a # u /\ role[a] = "owner" /\ Member(u)
  /\ role' = [role EXCEPT ![u] = "owner", ![a] = "agent"]
  /\ UNCHANGED <<status, claimedBy>>

CNext ==
  \/ \E s \in Sessions : EscalateSession(s) \/ ResolveSession(s)
  \/ \E u \in Users, s \in Sessions : ClaimSession(u, s)
  \/ \E u \in Users, g \in {"owner", "agent", "viewer"} : JoinAs(u, g) \/ SetRole(u, g)
  \/ \E u \in Users : EndMembership(u)
  \/ \E a, u \in Users : TransferOwnership(a, u)

CSpec == CInit /\ [][CNext]_cvars
==============================================================================
