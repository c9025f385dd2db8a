-------------------------- MODULE MCDocumentPipeline --------------------------
(* DocumentPipeline with small sets: every upload is of the same file. *)
EXTENDS DocumentPipeline, FiniteSets, TLC

CONSTANT TheFile

SameFile == [d \in Docs |-> TheFile]

Symmetry == Permutations(Docs) \cup Permutations(Workers)

\* One disturbance in a behaviour: a stall, a crash, or a second upload, which
\* is explored where nothing throws and jobs run one after the other.
OneDisturbance ==
  LET uploads == Cardinality({d \in Docs : upload[d] # "new"}) IN
    /\ stalls + crashes + uploads <= 2
    /\ uploads = 2 => /\ cutShort = {} /\ \A j \in Jobs : made[j] = 0
                      /\ Cardinality({w \in Workers : task[w] # NoTask}) <= 1
==============================================================================
