--------------------------- MODULE MCInvitations ---------------------------
(***************************************************************************)
(* Invitations with small sets: one address is invited, perhaps twice, and *)
(* the links may be opened by someone else who has an account.  Requests   *)
(* are interchangeable.                                                    *)
(***************************************************************************)
EXTENDS Invitations, FiniteSets, TLC

CONSTANTS i1, i2, agent, viewer, bob, MaxEmails, MaxTrouble, MaxFailures

MCIds  == {i1, i2}
MCTags == MCIds \X (1..MaxSends)

Symmetry == Permutations(Requests)

\* Bounds on the emails sent, on the outcomes and workers lost, on the reports in waiting.
Small ==
  /\ bob \in account
  /\ \A i \in Ids : inv[i].email # bob
  /\ \A r \in Requests : req[r].op = "insert" =>
       /\ req[r].email # bob
       /\ req[r].role = IF req[r].id = i1 THEN agent ELSE viewer
  /\ Cardinality({t \in Tags : t[2] <= inv[t[1]].send}) <= MaxEmails
  /\ Cardinality(failures) <= MaxFailures
  /\ Cardinality(untold) + Cardinality({t \in Tags : jobs[t].stalls > 0}) <= MaxTrouble
==============================================================================
