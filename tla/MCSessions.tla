---- MODULE MCSessions ----
(* Two tabs of one browser: two requests at a time in the first, one in the
   second.                                                                 *)
EXTENDS Sessions, TLC

CONSTANTS tab1, tab2, a1, a2, b1

TabsDef == {tab1, tab2}
CallsDef == {a1, a2, b1}
MeDef == {b1}
CallSymmetry == Permutations({a1, a2})
TabOfDef == [r \in CallsDef |-> IF r = b1 THEN tab2 ELSE tab1]

=============================================================================
