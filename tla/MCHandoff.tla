------------------------------ MODULE MCHandoff ------------------------------
(* Handoff with small sets; users, sessions and request slots are            *)
(* interchangeable, so the safety runs may use symmetry.                     *)
EXTENDS Handoff, TLC

Symmetry == Permutations(Users) \cup Permutations(Sessions) \cup Permutations(Requests)
==============================================================================
