------------------------------ MODULE MCAnswers ------------------------------
(* What an answer is made from and what is charged for it, with small sets: the
   metering of the questions (AnswerMeter), the cutting of a document into
   chunks (Chunking), the ranking of the chunks (Retrieval) and the page that
   adds up the meter (UsageReport).  A behaviour shows one of the four.
   Messages and turns are interchangeable.  Crashes are the only way to lose
   units without end; losing more than the whole allowance is impossible, so
   the metering needs no further bound.                                     *)
EXTENDS AnswerMeter, Chunking, Retrieval, UsageReport, TLC

TuningsDef == {[target |-> 4, overlap |-> 1, window |-> 2],
               [target |-> 3, overlap |-> 3, window |-> 2],
               [target |-> 6, overlap |-> 1, window |-> 4]}

Symmetry == Permutations(Turns) \cup Permutations(Messages)

VARIABLE kind

OneOfThem ==
  /\ kind \in {"meter", "chunking", "retrieval", "usage"}
  /\ IF kind = "chunking" THEN TRUE ELSE text = <<>> /\ tuning = CHOOSE t \in Tunings : TRUE
  /\ IF kind = "retrieval" THEN TRUE
     ELSE distance = [c \in ChunkIds |-> 0] /\ score = [c \in ChunkIds |-> 0]
  /\ Init /\ ChunkInit /\ RetrievalInit /\ UsageInit

OneStep ==
  \/ /\ kind = "meter" /\ Next
     /\ UNCHANGED <<kind, chunkVars, retrievalVars, usageVars>>
  \/ /\ kind = "chunking" /\ ChunkNext
     /\ UNCHANGED <<kind, vars, retrievalVars, usageVars>>
  \/ /\ kind = "retrieval" /\ RetrievalNext
     /\ UNCHANGED <<kind, vars, chunkVars, usageVars>>
  \/ /\ kind = "usage" /\ UsageNext
     /\ UNCHANGED <<kind, vars, chunkVars, retrievalVars>>

AnswersSpec == OneOfThem /\ [][OneStep]_<<kind, vars, chunkVars, retrievalVars, usageVars>>
==============================================================================
