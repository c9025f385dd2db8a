-------------------------- MODULE AnswerMeterProofs --------------------------
(***************************************************************************)
(* Proofs about AnswerMeter for any allowance and any number of concurrent *)
(* turns and messages.  The books balance because a turn enters and leaves *)
(* Holding exactly when a counter moves with it; the bounds on what is     *)
(* billed then follow from the range of the counter.                       *)
(* And about the Playground, which shows what became of its questions, for  *)
(* any number of turns and of answers.                                     *)
(* And about Chunking, for texts of any length and any sizes of which the  *)
(* window is smaller than a chunk.                                         *)
(* And about Retrieval, for any number of chunks, any pool that is not too  *)
(* large for the damping of the fusion, and any number of results.         *)
(* And about UsageReport, for any period, range, length of a day and events. *)
(***************************************************************************)
EXTENDS AnswerMeter, Retrieval, Chunking, UsageReport, Playground, SequenceTheorems, FiniteSetTheorems, TLAPS

IInv == TypeOK /\ BooksBalance

\* Holding is finite, so its cardinality is a number.
LEMMA HoldingFinite == IsFiniteSet(Holding) /\ Cardinality(Holding) \in Nat
<1>1. Holding \subseteq Turns
  BY DEF Holding
<1>2. IsFiniteSet(Holding)
  BY <1>1, FS_Subset, MeterAssumption
<1> QED
  BY <1>2, FS_CardinalityType

\* A turn that takes a unit.
LEMMA HoldingGrows ==
  ASSUME NEW t \in Turns, t \notin Holding, Holding' = Holding \cup {t}
  PROVE  Cardinality(Holding)' = Cardinality(Holding) + 1
BY HoldingFinite, FS_AddElement

\* A turn that parts with its unit.
LEMMA HoldingShrinks ==
  ASSUME NEW t \in Turns, t \in Holding, Holding' = Holding \ {t}
  PROVE  Cardinality(Holding)' = Cardinality(Holding) - 1
BY HoldingFinite, FS_RemoveElement

\* Types: every action keeps every variable in its set.
LEMMA TypeStep == TypeOK /\ [Next]_vars => TypeOK'
<1> SUFFICES ASSUME TypeOK, [Next]_vars PROVE TypeOK'
  OBVIOUS
<1> USE MeterAssumption DEF TypeOK, ledger, Goto, Finish, PCs, Outcomes, Billable
<1>1. ASSUME NEW t \in Turns, Receive(t) PROVE TypeOK'
  BY <1>1 DEF Receive
<1>2. ASSUME NEW t \in Turns, FindReplay(t) PROVE TypeOK'
  BY <1>2 DEF FindReplay
<1>3. ASSUME NEW t \in Turns, Reserve(t) PROVE TypeOK'
  BY <1>3 DEF Reserve
<1>4. ASSUME NEW t \in Turns, RefuseReservation(t) PROVE TypeOK'
  BY <1>4 DEF RefuseReservation
<1>5. ASSUME NEW t \in Turns, Produce(t) PROVE TypeOK'
  BY <1>5 DEF Produce
<1>6. ASSUME NEW t \in Turns, Persist(t) PROVE TypeOK'
  BY <1>6 DEF Persist, Log, Answered
<1>7. ASSUME NEW t \in Turns, PersistFails(t) PROVE TypeOK'
  BY <1>7 DEF PersistFails
<1>8. ASSUME NEW t \in Turns, EscalateUnanswered(t) PROVE TypeOK'
  BY <1>8 DEF EscalateUnanswered, Log
<1>9. ASSUME NEW t \in Turns, Refund(t) PROVE TypeOK'
  BY <1>9 DEF Refund
<1>10. ASSUME NEW t \in Turns, StatementFails(t) PROVE TypeOK'
  BY <1>10 DEF StatementFails
<1>11. CASE Crash
  BY <1>11, HoldingFinite DEF Crash
<1>12. CASE PeriodEnds
  BY <1>12 DEF PeriodEnds
<1>13. CASE UNCHANGED vars
  BY <1>13 DEF vars
<1> QED
  BY <1>1, <1>2, <1>3, <1>4, <1>5, <1>6, <1>7, <1>8, <1>9, <1>10, <1>11, <1>12, <1>13 DEF Next, Step

\* The books: every action that moves a counter moves a turn with it.
LEMMA BooksStep == TypeOK /\ BooksBalance /\ [Next]_vars => BooksBalance'
<1> SUFFICES ASSUME TypeOK, BooksBalance, [Next]_vars PROVE BooksBalance'
  OBVIOUS
<1>numbers. Cardinality(Holding) \in Nat
  BY HoldingFinite
<1>same. ASSUME Holding' = Holding, UNCHANGED <<used, billed, leaked>> PROVE BooksBalance'
  BY <1>same DEF BooksBalance
<1> USE DEF ledger, Goto, Finish
<1>1. ASSUME NEW t \in Turns, Receive(t) PROVE BooksBalance'
  BY <1>1, <1>same DEF Receive, TypeOK, Holding
<1>2. ASSUME NEW t \in Turns, FindReplay(t) PROVE BooksBalance'
  BY <1>2, <1>same DEF FindReplay, TypeOK, Holding
<1>3. ASSUME NEW t \in Turns, Reserve(t) PROVE BooksBalance'
  <2>1. t \notin Holding /\ Holding' = Holding \cup {t}
    BY <1>3 DEF Reserve, TypeOK, Holding
  <2> QED
    BY <1>3, <1>numbers, <2>1, HoldingGrows DEF Reserve, BooksBalance, TypeOK
<1>4. ASSUME NEW t \in Turns, RefuseReservation(t) PROVE BooksBalance'
  BY <1>4, <1>same DEF RefuseReservation, TypeOK, Holding
<1>5. ASSUME NEW t \in Turns, Produce(t) PROVE BooksBalance'
  BY <1>5, <1>same DEF Produce, TypeOK, Holding
<1>6. ASSUME NEW t \in Turns, Persist(t) PROVE BooksBalance'
  <2>1. CASE outcome[t] \in Billable
    <3>1. t \in Holding /\ Holding' = Holding \ {t} /\ billed' = billed + 1
      BY <1>6, <2>1 DEF Persist, TypeOK, Holding
    <3>2. Cardinality(Holding)' = Cardinality(Holding) - 1
      BY <3>1, HoldingShrinks
    <3> QED
      BY <1>6, <1>numbers, <3>1, <3>2 DEF Persist, BooksBalance, TypeOK
  <2>2. CASE outcome[t] \notin Billable
    BY <1>6, <2>2, <1>same DEF Persist, TypeOK, Holding
  <2> QED
    BY <2>1, <2>2
<1>7. ASSUME NEW t \in Turns, PersistFails(t) PROVE BooksBalance'
  BY <1>7, <1>same DEF PersistFails, TypeOK, Holding
<1>8. ASSUME NEW t \in Turns, EscalateUnanswered(t) PROVE BooksBalance'
  BY <1>8, <1>same DEF EscalateUnanswered, TypeOK, Holding
<1>9. ASSUME NEW t \in Turns, Refund(t) PROVE BooksBalance'
  <2>1. t \in Holding /\ Holding' = Holding \ {t}
    BY <1>9 DEF Refund, TypeOK, Holding
  <2>2. Cardinality(Holding) >= 1
    BY <2>1, HoldingFinite, FS_EmptySet
  <2>3. used' = used - 1
    BY <1>9, <1>numbers, <2>2 DEF Refund, BooksBalance, TypeOK
  <2>4. Cardinality(Holding)' = Cardinality(Holding) - 1
    BY <2>1, HoldingShrinks
  <2> QED
    BY <1>9, <1>numbers, <2>3, <2>4 DEF Refund, BooksBalance, TypeOK
<1>10. ASSUME NEW t \in Turns, StatementFails(t) PROVE BooksBalance'
  <2>1. CASE pc[t] = "refunding"
    <3>1. t \in Holding /\ Holding' = Holding \ {t} /\ leaked' = leaked + 1
      BY <1>10, <2>1 DEF StatementFails, TypeOK, Holding
    <3>2. Cardinality(Holding)' = Cardinality(Holding) - 1
      BY <3>1, HoldingShrinks
    <3> QED
      BY <1>10, <1>numbers, <3>1, <3>2 DEF StatementFails, BooksBalance, TypeOK
  <2>2. CASE pc[t] # "refunding"
    BY <1>10, <2>2, <1>same DEF StatementFails, TypeOK, Holding
  <2> QED
    BY <2>1, <2>2
<1>11. CASE Crash
  <2>1. Holding' = {}
    BY <1>11 DEF Crash, Holding
  <2>2. Cardinality(Holding)' = 0
    BY <2>1, FS_EmptySet
  <2> QED
    BY <1>11, <1>numbers, <2>2 DEF Crash, BooksBalance, TypeOK
<1>12. CASE PeriodEnds
  BY <1>12, <1>same DEF PeriodEnds, Holding
<1>13. CASE UNCHANGED vars
  BY <1>13, <1>same DEF vars, Holding
<1> QED
  BY <1>1, <1>2, <1>3, <1>4, <1>5, <1>6, <1>7, <1>8, <1>9, <1>10, <1>11, <1>12, <1>13 DEF Next, Step

LEMMA InitIInv == Init => IInv
<1> SUFFICES ASSUME Init PROVE IInv
  OBVIOUS
<1>1. TypeOK
  BY MeterAssumption DEF Init, TypeOK, PCs
<1>2. Holding = {}
  BY DEF Init, Holding
<1>3. BooksBalance
  BY <1>2, FS_EmptySet DEF Init, BooksBalance
<1> QED
  BY <1>1, <1>3 DEF IInv

LEMMA Invariance == Spec => []IInv
<1>1. IInv /\ [Next]_vars => IInv'
  BY TypeStep, BooksStep DEF IInv
<1> QED
  BY <1>1, InitIInv, PTL DEF Spec

\* Every variable keeps its type, and the counter its range (the CHECK on
\* workspace_quotas.used never has to fire).
THEOREM TypeCorrect == Spec => []TypeOK
<1>1. IInv => TypeOK
  BY DEF IInv
<1> QED
  BY <1>1, Invariance, PTL

\* Every reserved unit is accounted for: billed, leaked, or still held by a turn.
THEOREM BooksAlwaysBalance == Spec => []BooksBalance
<1>1. IInv => BooksBalance
  BY DEF IInv
<1> QED
  BY <1>1, Invariance, PTL

\* No interleaving of turns, failures and crashes bills more than the allowance.
THEOREM AllowanceRespected == Spec => []NeverOverspent
<1>1. IInv => NeverOverspent
  BY HoldingFinite, MeterAssumption DEF IInv, TypeOK, BooksBalance, NeverOverspent
<1> QED
  BY <1>1, Invariance, PTL

\* The counter is never behind the meter.
THEOREM DriftIsOneSided == Spec => []CounterCoversMeter
<1>1. IInv => CounterCoversMeter
  BY HoldingFinite, MeterAssumption DEF IInv, TypeOK, BooksBalance, CounterCoversMeter
<1> QED
  BY <1>1, Invariance, PTL

\* A stored answer is final, and no duplicate of its message is ever billed.
THEOREM DuplicatesAreFree == Spec => ChargedOnce
<1> DEFINE Once == \A m \in Messages : stored[m] # "none" =>
       /\ stored'[m] = stored[m]
       /\ \A t \in Turns : message[t] = m /\ pc[t] # "idle" /\ pc'[t] = "idle" => billed' = billed
<1>1. ASSUME TypeOK, [Next]_vars PROVE [Once]_vars
  <2> SUFFICES ASSUME NEW m \in Messages, stored[m] # "none", ~UNCHANGED vars
               PROVE  /\ stored'[m] = stored[m]
                      /\ \A t \in Turns : message[t] = m /\ pc[t] # "idle" /\ pc'[t] = "idle"
                                            => billed' = billed
    OBVIOUS
  <2> USE <1>1, MeterAssumption DEF ledger, TypeOK
  <2>1. ASSUME NEW t \in Turns, Persist(t), message[t] # m
        PROVE  /\ stored'[m] = stored[m]
               /\ \A u \in Turns \ {t} : pc'[u] = pc[u]
    BY <2>1 DEF Persist, Finish, Goto
  <2>2. ASSUME NEW t \in Turns, Persist(t) PROVE message[t] # m
    BY <2>2 DEF Persist, Answered
  <2>3. ASSUME NEW t \in Turns, Step(t), ~Persist(t) PROVE stored' = stored /\ billed' = billed
    BY <2>3 DEF Step, Receive, FindReplay, Reserve, RefuseReservation, Produce, PersistFails,
                EscalateUnanswered, Refund, StatementFails
  <2>4. CASE Crash \/ PeriodEnds
    BY <2>4 DEF Crash, PeriodEnds
  <2>5. ASSUME NEW t \in Turns, Step(t)
        PROVE  /\ stored'[m] = stored[m]
               /\ \A u \in Turns : message[u] = m /\ pc[u] # "idle" /\ pc'[u] = "idle" => billed' = billed
    BY <2>1, <2>2, <2>3, <2>5
  <2> QED
    BY <2>4, <2>5 DEF Next
<1>2. IInv => TypeOK
  BY DEF IInv
<1> QED
  BY <1>1, <1>2, Invariance, PTL DEF Spec, ChargedOnce

\* The whole: the accounts balance for any number of turns, messages and units.
THEOREM AccountsAlwaysBalance == Spec => []AccountsBalance
<1>1. TypeOK /\ BooksBalance /\ NeverOverspent /\ CounterCoversMeter => AccountsBalance
  BY DEF AccountsBalance
<1> QED
  BY <1>1, TypeCorrect, BooksAlwaysBalance, AllowanceRespected, DriftIsOneSided, PTL

-----------------------------------------------------------------------------
(* Every set of numbers that has a member has a least one, and a greatest if  *)
(* it is bounded.                                                           *)

LEMMA LeastExists ==
  ASSUME NEW D, D \subseteq Nat, D # {}
  PROVE  \E x \in D : \A y \in D : x <= y
<1> DEFINE R == OpToRel(<, Nat)
<1>1. IsWellFoundedOn(R, Nat)
  BY NatLessThanWellFounded
<1>2. ASSUME NEW x \in Nat, NEW y \in Nat, y < x PROVE <<y, x>> \in R
  BY <1>2 DEF OpToRel
<1> HIDE DEF R
<1>3. PICK x \in D : \A y \in D : ~(<<y, x>> \in R)
  BY ONLY <1>1, D \subseteq Nat, D # {}, WFMin
<1>4. ASSUME NEW y \in D PROVE x <= y
  <2>1. x \in Nat /\ y \in Nat
    OBVIOUS
  <2>2. ~(y < x)
    BY <1>2, <1>3, <2>1
  <2> QED
    BY <2>1, <2>2
<1> QED
  BY <1>4

LEMMA LatestExists ==
  ASSUME NEW n \in Nat, NEW T \in SUBSET (0..n), T # {}
  PROVE  \E t \in T : \A u \in T : u <= t
<1> DEFINE D == {n - t : t \in T}
<1>1. \A t \in T : t \in Int /\ 0 <= t /\ t <= n
  OBVIOUS
<1>2. D \subseteq Nat
  BY <1>1
<1>3. D # {}
  <2>1. PICK t : t \in T
    OBVIOUS
  <2>2. n - t \in D
    BY <2>1
  <2> QED
    BY <2>2
<1>4. PICK x \in D : \A y \in D : x <= y
  <2> HIDE DEF D
  <2> QED
    BY <1>2, <1>3, LeastExists
<1>5. PICK t \in T : x = n - t
  OBVIOUS
<1>6. ASSUME NEW u \in T PROVE u <= t
  <2>1. n - t <= n - u
    BY <1>4, <1>5
  <2> QED
    BY <1>1, <1>5, <2>1
<1> QED
  BY <1>6

-----------------------------------------------------------------------------
(* The playground.                                                          *)

ShownTurns == [result : 0..MaxAsked, error : BOOLEAN]
AskCalls == [turn : 1..MaxTurns, row : 0..MaxAsked]

PlaygroundTypes ==
  /\ asked \in Seq(1..MaxTurns) /\ Len(asked) <= MaxAsked
  /\ thread \in Seq(ShownTurns) /\ Len(thread) <= MaxTurns
  /\ pending \in BOOLEAN /\ asking \subseteq AskCalls /\ retried \in BOOLEAN
  /\ adrift \in [1..MaxTurns -> 0..MaxAdrift] /\ late \subseteq DOMAIN asked

\* One question at a time; its answer, once it is made up, is the last one that was
\* not late.
OneQuestion ==
  /\ \A a, b \in asking : a = b
  /\ pending <=> asking # {}
  /\ \A a \in asking :
       /\ a.turn \in DOMAIN thread
       /\ a.row # 0 => /\ a.row \in DOMAIN asked \ late /\ asked[a.row] = a.turn
                       /\ \A k \in DOMAIN asked \ late : k <= a.row

TurnsWait ==
  \A t \in DOMAIN thread :
    /\ (thread[t].result = 0 /\ ~thread[t].error) <=> \E a \in asking : a.turn = t
    /\ thread[t].error => thread[t].result = 0

OwnAnswers ==
  \A t \in DOMAIN thread : thread[t].result # 0 =>
    /\ thread[t].result \in DOMAIN asked \ late /\ asked[thread[t].result] = t
    /\ \A k \in DOMAIN asked \ late : asked[k] = t => k <= thread[t].result

\* Unless some question was sent again, the last turn is the one that is asked.
InOrder ==
  retried \/
    /\ \A k, l \in DOMAIN asked \ late : k < l => asked[k] < asked[l]
    /\ \A k \in DOMAIN asked \ late : asked[k] <= Len(thread)
    /\ \A a \in asking :
         /\ a.turn = Len(thread)
         /\ a.row = 0 => \A k \in DOMAIN asked \ late : asked[k] < Len(thread)

\* The playground's inductive invariant.
PlaygroundInv == PlaygroundTypes /\ OneQuestion /\ TurnsWait /\ OwnAnswers /\ InOrder

\* The last turn of a screen that shows an answer.
LastOf(th) ==
  LET T == {t \in DOMAIN th : th[t].result # 0}
  IN  IF T = {} THEN 0 ELSE CHOOSE t \in T : \A u \in T : u <= t

LEMMA LastOfIs ==
  ASSUME NEW th \in Seq(ShownTurns)
  PROVE  /\ LastOf(th) # 0 => LastOf(th) \in DOMAIN th /\ th[LastOf(th)].result # 0
         /\ \A t \in DOMAIN th : th[t].result # 0 => LastOf(th) # 0 /\ t <= LastOf(th)
<1> DEFINE T == {t \in DOMAIN th : th[t].result # 0}
<1>1. LastOf(th) = IF T = {} THEN 0 ELSE CHOOSE t \in T : \A u \in T : u <= t
  BY DEF LastOf
<1>d. DOMAIN th = 1..Len(th) /\ Len(th) \in Nat
  OBVIOUS
<1>2. ASSUME T # {} PROVE \E t \in T : \A u \in T : u <= t
  <2>2. T \in SUBSET (0..Len(th))
    BY <1>d
  <2> HIDE DEF T
  <2> QED
    BY <1>2, <1>d, <2>2, LatestExists
<1>3. CASE T = {}
  BY <1>1, <1>3
<1>4. CASE T # {}
  <2>1. LastOf(th) \in T /\ \A u \in T : u <= LastOf(th)
    BY <1>1, <1>2, <1>4
  <2> QED
    BY <1>d, <2>1
<1> QED
  BY <1>3, <1>4

LEMMA PlaygroundInitInv == PlaygroundInit => PlaygroundInv
<1> SUFFICES ASSUME PlaygroundInit PROVE PlaygroundInv
  OBVIOUS
<1>1. asked = <<>> /\ thread = <<>> /\ pending = FALSE /\ asking = {} /\ retried = FALSE
      /\ adrift = [t \in 1..MaxTurns |-> 0] /\ late = {}
  BY DEF PlaygroundInit
<1>2. MaxTurns \in Nat /\ MaxAsked \in Nat /\ MaxAdrift \in Nat
  BY PlaygroundAssumption DEF PlaygroundAssumption
<1>3. <<>> \in Seq(1..MaxTurns) /\ <<>> \in Seq(ShownTurns) /\ Len(<<>>) = 0 /\ DOMAIN <<>> = {}
  BY EmptySeq
<1>4. PlaygroundTypes
  <2>1. asked \in Seq(1..MaxTurns) /\ Len(asked) <= MaxAsked
    BY <1>1, <1>2, <1>3
  <2>2. thread \in Seq(ShownTurns) /\ Len(thread) <= MaxTurns
    BY <1>1, <1>2, <1>3
  <2>3. /\ pending \in BOOLEAN /\ asking \subseteq AskCalls
        /\ retried \in BOOLEAN /\ late \subseteq DOMAIN asked
    BY <1>1
  <2>4. adrift \in [1..MaxTurns -> 0..MaxAdrift]
    BY <1>1, <1>2
  <2> QED
    BY <2>1, <2>2, <2>3, <2>4 DEF PlaygroundTypes
<1> QED
  BY <1>1, <1>3, <1>4 DEF PlaygroundInv, OneQuestion, TurnsWait, OwnAnswers, InOrder

LEMMA PlaygroundInvImplies == PlaygroundInv => PlaygroundTypeOK /\ TurnsShowTheirOwn
<1> SUFFICES ASSUME PlaygroundInv PROVE PlaygroundTypeOK /\ TurnsShowTheirOwn
  OBVIOUS
<1>h. PlaygroundTypes /\ OneQuestion /\ TurnsWait /\ OwnAnswers /\ InOrder
  BY DEF PlaygroundInv
<1>1. PlaygroundTypeOK
  <2>1. Cardinality(asking) <= 1
    <3>1. CASE asking = {}
      BY <3>1, FS_EmptySet
    <3>2. CASE asking # {}
      <4>1. PICK a \in asking : TRUE
        BY <3>2
      <4>2. \A b \in asking : b = a
        BY <1>h, <4>1 DEF OneQuestion
      <4>3. asking = {a}
        BY <4>1, <4>2
      <4>4. Cardinality({a}) = 1
        BY FS_Singleton
      <4> QED
        BY <4>3, <4>4
    <3> QED
      BY <3>1, <3>2
  <2> QED
    BY <1>h, <2>1 DEF PlaygroundTypeOK, PlaygroundTypes, OneQuestion, TurnsWait, ShownTurns, AskCalls
<1>2. TurnsShowTheirOwn
  BY <1>h DEF TurnsShowTheirOwn, OwnAnswers, InOrder
<1> QED
  BY <1>1, <1>2

\* What a step may do to the screen: a turn that shows an answer keeps it.
KeepsAnswers ==
  LastTurn # 0 => LastTurn' >= LastTurn /\ thread'[LastTurn].result = thread[LastTurn].result

LEMMA PlaygroundStep ==
  ASSUME PlaygroundInv, [PlaygroundNext]_playgroundVars
  PROVE  PlaygroundInv' /\ KeepsAnswers
<1>h. PlaygroundTypes /\ OneQuestion /\ TurnsWait /\ OwnAnswers /\ InOrder
  BY DEF PlaygroundInv
<1>c. MaxTurns \in Nat /\ MaxAsked \in Nat /\ MaxAdrift \in Nat
  BY PlaygroundAssumption DEF PlaygroundAssumption
<1>d. /\ DOMAIN thread = 1..Len(thread) /\ Len(thread) \in Nat /\ \A t \in DOMAIN thread : thread[t] \in ShownTurns
      /\ DOMAIN asked = 1..Len(asked) /\ Len(asked) \in Nat /\ \A k \in DOMAIN asked : asked[k] \in 1..MaxTurns
  <2>1. thread \in Seq(ShownTurns) /\ asked \in Seq(1..MaxTurns)
    BY <1>h DEF PlaygroundTypes
  <2>2. DOMAIN thread = 1..Len(thread) /\ Len(thread) \in Nat /\ DOMAIN asked = 1..Len(asked) /\ Len(asked) \in Nat
    BY <2>1
  <2>3. ASSUME NEW t \in DOMAIN thread PROVE thread[t] \in ShownTurns
    BY <2>1, <2>2, ElementOfSeq
  <2>4. ASSUME NEW k \in DOMAIN asked PROVE asked[k] \in 1..MaxTurns
    BY <2>1, <2>2, ElementOfSeq
  <2> QED
    BY <2>2, <2>3, <2>4
\* What was shown stays shown.
<1>l. ASSUME thread' \in Seq(ShownTurns),
             \A t \in DOMAIN thread : thread[t].result # 0 => t \in DOMAIN thread' /\ thread'[t] = thread[t]
      PROVE  KeepsAnswers
  <2>1. LastTurn = LastOf(thread) /\ LastTurn' = LastOf(thread')
    BY DEF LastTurn, LastOf
  <2>2. LastTurn # 0 => /\ LastTurn \in DOMAIN thread /\ thread[LastTurn].result # 0
                        /\ LastTurn \in DOMAIN thread' /\ thread'[LastTurn] = thread[LastTurn]
    BY <1>h, <1>l, <2>1, LastOfIs DEF PlaygroundTypes
  <2>3. LastTurn # 0 => LastTurn <= LastTurn'
    BY <1>l, <2>1, <2>2, LastOfIs
  <2>4. LastTurn # 0 => LastTurn \in Nat
    BY <1>d, <2>2
  <2>5. LastTurn # 0 => LastTurn' \in Nat
    <3>1. DOMAIN thread' = 1..Len(thread') /\ Len(thread') \in Nat
      BY <1>l
    <3>2. LastTurn # 0 => LastOf(thread') # 0
      BY <1>l, <2>2, LastOfIs
    <3>3. LastTurn # 0 => LastOf(thread') \in DOMAIN thread'
      BY <1>l, <3>2, LastOfIs
    <3> QED
      BY <2>1, <3>1, <3>3
  <2> QED
    BY <2>2, <2>3, <2>4, <2>5 DEF KeepsAnswers
<1>w. Waiting \in ShownTurns /\ Waiting.result = 0 /\ ~Waiting.error
  BY <1>c DEF Waiting, ShownTurns
<1>1. CASE Submit
  <2> DEFINE n == Len(thread) + 1
             a == [turn |-> n, row |-> 0]
  <2>1. /\ ~pending /\ Len(thread) < MaxTurns /\ pending' = TRUE /\ thread' = Append(thread, Waiting)
        /\ asking' = asking \cup {a} /\ UNCHANGED <<asked, adrift, late, retried>>
    BY <1>1 DEF Submit
  <2>2. asking = {} /\ asking' = {a}
    BY <1>h, <2>1 DEF OneQuestion
  <2>3. /\ thread' \in Seq(ShownTurns) /\ Len(thread') = n /\ DOMAIN thread' = 1..n /\ thread'[n] = Waiting
        /\ \A t \in DOMAIN thread : thread'[t] = thread[t]
    BY <1>h, <1>w, <1>d, <2>1, AppendProperties DEF PlaygroundTypes
  <2>4. a \in AskCalls /\ a.turn = n /\ a.row = 0
    BY <1>c, <1>d, <2>1 DEF AskCalls
  <2> HIDE DEF a
  <2>5. PlaygroundTypes'
    <3>1. thread' \in Seq(ShownTurns) /\ Len(thread') <= MaxTurns
      BY <1>c, <1>d, <2>1, <2>3
    <3>2. asking' \subseteq AskCalls
      BY <2>2, <2>4
    <3>3. UNCHANGED <<asked, adrift, late, retried>> /\ pending' \in BOOLEAN
      BY <2>1
    <3> QED
      BY <1>h, <3>1, <3>2, <3>3 DEF PlaygroundTypes
  <2>6. OneQuestion'
    BY <1>d, <2>1, <2>2, <2>3, <2>4 DEF OneQuestion
  <2>7. TurnsWait'
    <3>1. ASSUME NEW t \in DOMAIN thread'
          PROVE  /\ (thread'[t].result = 0 /\ ~thread'[t].error) <=> \E b \in asking' : b.turn = t
                 /\ thread'[t].error => thread'[t].result = 0
      <4>1. CASE t = n
        BY <1>w, <2>2, <2>3, <2>4, <4>1
      <4>2. CASE t # n
        <5>1. t \in DOMAIN thread /\ thread'[t] = thread[t]
          BY <1>d, <2>3, <3>1, <4>2
        <5> QED
          BY <1>h, <2>2, <2>4, <4>2, <5>1 DEF TurnsWait
      <4> QED
        BY <4>1, <4>2
    <3> QED
      BY <3>1 DEF TurnsWait
  <2>8. OwnAnswers'
    <3>1. ASSUME NEW t \in DOMAIN thread', thread'[t].result # 0
          PROVE  t \in DOMAIN thread /\ thread'[t] = thread[t]
      BY <1>d, <1>w, <2>3, <3>1
    <3> QED
      BY <1>h, <2>1, <3>1 DEF OwnAnswers
  <2>9. InOrder'
    <3>1. CASE retried
      BY <2>1, <3>1 DEF InOrder
    <3>2. CASE ~retried
      <4>1. \A k \in DOMAIN asked \ late : asked[k] \in Int /\ asked[k] <= Len(thread)
        BY <1>h, <1>c, <1>d, <3>2 DEF InOrder
      <4>2. \A k \in DOMAIN asked \ late : asked[k] < n
        BY <1>d, <4>1
      <4>3. \A k \in DOMAIN asked \ late : asked[k] <= n
        BY <1>d, <4>1
      <4> QED
        BY <1>h, <2>1, <2>2, <2>3, <2>4, <3>2, <4>2, <4>3 DEF InOrder
    <3> QED
      BY <1>h, <3>1, <3>2 DEF PlaygroundTypes
  <2>10. KeepsAnswers
    BY <1>l, <1>d, <2>3
  <2> QED
    BY <2>5, <2>6, <2>7, <2>8, <2>9, <2>10 DEF PlaygroundInv
\* One turn is replaced.
<1>p. ASSUME NEW t \in DOMAIN thread, NEW new \in ShownTurns, thread' = [thread EXCEPT ![t] = new]
      PROVE  /\ thread' \in Seq(ShownTurns) /\ Len(thread') = Len(thread) /\ DOMAIN thread' = DOMAIN thread
             /\ thread'[t] = new /\ \A u \in DOMAIN thread : u # t => thread'[u] = thread[u]
  BY <1>h, <1>p, ExceptSeq DEF PlaygroundTypes
<1>2. ASSUME NEW t \in DOMAIN thread, Retry(t) PROVE PlaygroundInv' /\ KeepsAnswers
  <2> DEFINE a == [turn |-> t, row |-> 0]
  <2>1. /\ thread[t].error /\ ~pending /\ pending' = TRUE /\ retried' = TRUE
        /\ thread' = [thread EXCEPT ![t] = Waiting] /\ asking' = asking \cup {a}
        /\ UNCHANGED <<asked, adrift, late>>
    BY <1>2 DEF Retry
  <2>2. asking = {} /\ asking' = {a}
    BY <1>h, <2>1 DEF OneQuestion
  <2>3. /\ thread' \in Seq(ShownTurns) /\ Len(thread') = Len(thread) /\ DOMAIN thread' = DOMAIN thread
        /\ thread'[t] = Waiting /\ \A u \in DOMAIN thread : u # t => thread'[u] = thread[u]
    BY <1>p, <1>w, <2>1
  <2>4. a \in AskCalls /\ a.turn = t /\ a.row = 0
    BY <1>h, <1>c, <1>d DEF AskCalls, PlaygroundTypes
  <2> HIDE DEF a
  <2>5. PlaygroundTypes'
    BY <1>h, <2>1, <2>2, <2>3, <2>4 DEF PlaygroundTypes
  <2>6. OneQuestion'
    BY <2>1, <2>2, <2>3, <2>4 DEF OneQuestion
  <2>7. TurnsWait'
    BY <1>h, <1>w, <2>2, <2>3, <2>4 DEF TurnsWait
  <2>8. OwnAnswers'
    BY <1>h, <1>w, <2>1, <2>3 DEF OwnAnswers
  <2>9. InOrder'
    BY <2>1 DEF InOrder
  <2>10. thread[t].result = 0
    BY <1>h, <2>1 DEF TurnsWait
  <2>11. KeepsAnswers
    BY <1>l, <2>3, <2>10
  <2> QED
    BY <2>5, <2>6, <2>7, <2>8, <2>9, <2>11 DEF PlaygroundInv
<1>a. ASSUME NEW a \in asking
      PROVE  /\ a \in AskCalls /\ a.turn \in DOMAIN thread /\ asking \ {a} = {} /\ pending
             /\ thread[a.turn].result = 0 /\ ~thread[a.turn].error /\ thread[a.turn] \in ShownTurns
  BY <1>h, <1>d DEF PlaygroundTypes, OneQuestion, TurnsWait
<1>3. ASSUME NEW a \in asking, Answers(a) PROVE PlaygroundInv' /\ KeepsAnswers
  <2> DEFINE n == Len(asked) + 1
  <2>b. PICK b : b = [a EXCEPT !.row = n]
    OBVIOUS
  <2>1. /\ a.row = 0 /\ Len(asked) < MaxAsked /\ asking' = {b} /\ asked' = Append(asked, a.turn)
        /\ UNCHANGED <<thread, pending, adrift, late, retried>>
    BY <1>3, <1>a, <2>b DEF Answers
  <2>2. b \in AskCalls /\ b.turn = a.turn /\ b.row = n
    BY <1>a, <1>c, <1>d, <2>1, <2>b DEF AskCalls
  <2>3. a.turn \in 1..MaxTurns
    BY <1>a DEF AskCalls
  <2>4. /\ asked' \in Seq(1..MaxTurns) /\ Len(asked') = n /\ DOMAIN asked' = 1..n /\ asked'[n] = a.turn
        /\ \A k \in DOMAIN asked : asked'[k] = asked[k]
    BY <1>h, <1>d, <2>1, <2>3, AppendProperties DEF PlaygroundTypes
  <2>k. /\ n \in DOMAIN asked' \ late /\ late' = late /\ n \in Nat
        /\ DOMAIN asked \ late \subseteq DOMAIN asked' \ late
        /\ \A k \in DOMAIN asked' \ late : k # n => k \in DOMAIN asked \ late /\ k < n
    BY <1>h, <1>d, <2>1, <2>4 DEF PlaygroundTypes
  <2> HIDE DEF n
  <2>5. PlaygroundTypes'
    <3>1. asked' \in Seq(1..MaxTurns) /\ Len(asked') <= MaxAsked
      BY <1>c, <1>d, <2>1, <2>4 DEF n
    <3>2. asking' \subseteq AskCalls
      BY <2>1, <2>2
    <3>3. UNCHANGED <<thread, pending, adrift, late, retried>>
      BY <2>1
    <3>4. late' \subseteq DOMAIN asked'
      BY <1>h, <1>d, <2>4, <3>3 DEF PlaygroundTypes, n
    <3> QED
      BY <1>h, <3>1, <3>2, <3>3, <3>4 DEF PlaygroundTypes
  <2>6. OneQuestion'
    <3>1. \A k \in DOMAIN asked' \ late : k <= n
      BY <1>d, <2>4, <2>k
    <3>2. asking' = {b} /\ b.turn \in DOMAIN thread' /\ pending'
      BY <1>a, <2>1, <2>2
    <3> QED
      BY <2>2, <2>4, <2>k, <3>1, <3>2 DEF OneQuestion
  <2>7. TurnsWait'
    <3>1. asking = {a}
      BY <1>a
    <3> QED
      BY <1>h, <2>1, <2>2, <3>1 DEF TurnsWait
  <2>8. OwnAnswers'
    <3>1. ASSUME NEW t \in DOMAIN thread, thread[t].result # 0
          PROVE  /\ thread[t].result \in DOMAIN asked' \ late /\ asked'[thread[t].result] = t
                 /\ \A k \in DOMAIN asked' \ late : asked'[k] = t => k <= thread[t].result
      <4>1. t # a.turn
        BY <1>a, <3>1
      <4>2. /\ thread[t].result \in DOMAIN asked \ late /\ asked[thread[t].result] = t
            /\ \A k \in DOMAIN asked \ late : asked[k] = t => k <= thread[t].result
        BY <1>h, <3>1 DEF OwnAnswers
      <4>3. ASSUME NEW k \in DOMAIN asked' \ late, asked'[k] = t PROVE k \in DOMAIN asked \ late
        BY <2>4, <2>k, <4>1, <4>3
      <4> QED
        BY <2>4, <2>k, <4>2, <4>3
    <3> QED
      BY <2>1, <2>k, <3>1 DEF OwnAnswers
  <2>9. InOrder'
    <3>1. CASE retried
      BY <2>1, <3>1 DEF InOrder
    <3>2. CASE ~retried
      <4>1. /\ \A k, l \in DOMAIN asked \ late : k < l => asked[k] < asked[l]
            /\ \A k \in DOMAIN asked \ late : asked[k] < Len(thread)
        BY <1>h, <2>1, <3>2 DEF InOrder
      <4>t. a.turn = Len(thread)
        BY <1>h, <3>2 DEF InOrder
      <4>2. ASSUME NEW k \in DOMAIN asked' \ late, NEW l \in DOMAIN asked' \ late, k < l
            PROVE  asked'[k] < asked'[l]
        <5>1. k # n
          BY <1>d, <2>4, <2>k, <4>2
        <5>2. CASE l = n
          BY <2>4, <2>k, <4>1, <4>t, <5>1, <5>2
        <5>3. CASE l # n
          BY <2>4, <2>k, <4>1, <4>2, <5>1, <5>3
        <5> QED
          BY <5>2, <5>3
      <4>3. ASSUME NEW k \in DOMAIN asked' \ late PROVE asked'[k] <= Len(thread)
        <5>1. CASE k = n
          BY <1>d, <2>4, <4>t, <5>1
        <5>2. CASE k # n
          <6>1. k \in DOMAIN asked \ late /\ asked[k] \in Int
            BY <1>c, <1>d, <2>k, <4>3, <5>2
          <6> QED
            BY <1>d, <2>4, <4>1, <6>1
        <5> QED
          BY <5>1, <5>2
      <4>4. b.row # 0
        BY <1>d, <2>2 DEF n
      <4> QED
        BY <2>1, <2>2, <2>k, <4>t, <4>2, <4>3, <4>4 DEF InOrder
    <3> QED
      BY <1>h, <3>1, <3>2 DEF PlaygroundTypes
  <2>10. KeepsAnswers
    BY <1>l, <1>h, <2>1 DEF PlaygroundTypes
  <2> QED
    BY <2>5, <2>6, <2>7, <2>8, <2>9, <2>10 DEF PlaygroundInv
\* An answer, or an error, lands in its turn.
<1>4. ASSUME NEW a \in asking, NEW new \in ShownTurns, thread' = [thread EXCEPT ![a.turn] = new],
             asking' = asking \ {a}, pending' = FALSE, UNCHANGED <<asked, late, retried>>,
             adrift' \in [1..MaxTurns -> 0..MaxAdrift],
             new.error \/ new.result # 0, new.error => new.result = 0,
             new.result # 0 => new.result = a.row
      PROVE  PlaygroundInv' /\ KeepsAnswers
  <2>1. asking' = {}
    BY <1>a, <1>4
  <2>2. /\ thread' \in Seq(ShownTurns) /\ Len(thread') = Len(thread) /\ DOMAIN thread' = DOMAIN thread
        /\ thread'[a.turn] = new /\ \A u \in DOMAIN thread : u # a.turn => thread'[u] = thread[u]
    BY <1>a, <1>p, <1>4
  <2>3. PlaygroundTypes'
    BY <1>h, <1>4, <2>1, <2>2 DEF PlaygroundTypes
  <2>4. OneQuestion'
    BY <1>4, <2>1 DEF OneQuestion
  <2>5. TurnsWait'
    <3>1. asking = {a}
      BY <1>a
    <3> QED
      BY <1>h, <1>4, <2>1, <2>2, <3>1 DEF TurnsWait
  <2>6. OwnAnswers'
    <3>1. ASSUME new.result # 0
          PROVE  /\ new.result \in DOMAIN asked \ late /\ asked[new.result] = a.turn
                 /\ \A k \in DOMAIN asked \ late : k <= new.result
      <4>1. a.row # 0 /\ new.result = a.row
        BY <1>4, <3>1
      <4> QED
        BY <1>h, <4>1 DEF OneQuestion
    <3> QED
      BY <1>h, <1>4, <2>2, <3>1 DEF OwnAnswers
  <2>7. InOrder'
    BY <1>h, <1>4, <2>1, <2>2 DEF InOrder
  <2>8. KeepsAnswers
    BY <1>a, <1>l, <2>2
  <2> QED
    BY <2>3, <2>4, <2>5, <2>6, <2>7, <2>8 DEF PlaygroundInv
<1>5. ASSUME NEW a \in asking, AnswerLands(a) PROVE PlaygroundInv' /\ KeepsAnswers
  <2> DEFINE new == [result |-> a.row, error |-> FALSE]
  <2>1. /\ a.row # 0 /\ thread' = [thread EXCEPT ![a.turn] = new]
        /\ asking' = asking \ {a} /\ pending' = FALSE /\ UNCHANGED <<asked, adrift, late, retried>>
    BY <1>5 DEF AnswerLands, Lands
  <2>2. new \in ShownTurns /\ new.result = a.row /\ ~new.error
    BY <1>a DEF ShownTurns, AskCalls
  <2>3. adrift' \in [1..MaxTurns -> 0..MaxAdrift]
    BY <1>h, <2>1 DEF PlaygroundTypes
  <2> HIDE DEF new
  <2> QED
    BY <1>4, <2>1, <2>2, <2>3
<1>6. ASSUME NEW a \in asking, AskFails(a) PROVE PlaygroundInv' /\ KeepsAnswers
  <2> DEFINE new == [thread[a.turn] EXCEPT !.error = TRUE]
  <2>1. /\ thread' = [thread EXCEPT ![a.turn] = new]
        /\ asking' = asking \ {a} /\ pending' = FALSE /\ UNCHANGED <<asked, late, retried>>
    BY <1>6 DEF AskFails, Lands
  <2>2. new \in ShownTurns /\ new.result = 0 /\ new.error
    BY <1>a DEF ShownTurns
  <2>3. adrift' \in [1..MaxTurns -> 0..MaxAdrift]
    <3>1. CASE adrift' = adrift
      BY <1>h, <3>1 DEF PlaygroundTypes
    <3>2. CASE adrift[a.turn] < MaxAdrift /\ adrift' = [adrift EXCEPT ![a.turn] = @ + 1]
      <4>1. a.turn \in 1..MaxTurns /\ adrift[a.turn] + 1 \in 0..MaxAdrift
        BY <1>h, <1>a, <1>c, <3>2 DEF PlaygroundTypes, AskCalls
      <4> QED
        BY <1>h, <3>2, <4>1 DEF PlaygroundTypes
    <3> QED
      BY <1>6, <3>1, <3>2 DEF AskFails
  <2> HIDE DEF new
  <2> QED
    BY <1>4, <2>1, <2>2, <2>3
\* A row that nobody listens for counts nowhere.
<1>8. ASSUME NEW t \in 1..MaxTurns, AnswersLate(t) PROVE PlaygroundInv' /\ KeepsAnswers
  <2> DEFINE n == Len(asked) + 1
  <2>1. /\ adrift[t] > 0 /\ Len(asked) < MaxAsked /\ adrift' = [adrift EXCEPT ![t] = @ - 1]
        /\ asked' = Append(asked, t) /\ late' = late \cup {n} /\ UNCHANGED <<thread, pending, asking, retried>>
    BY <1>8 DEF AnswersLate
  <2>2. /\ asked' \in Seq(1..MaxTurns) /\ Len(asked') = n /\ DOMAIN asked' = 1..n
        /\ \A k \in DOMAIN asked : asked'[k] = asked[k]
    BY <1>h, <1>d, <2>1, AppendProperties DEF PlaygroundTypes
  <2>3. DOMAIN asked' \ late' = DOMAIN asked \ late
    BY <1>h, <1>d, <2>1, <2>2 DEF PlaygroundTypes
  <2>4. PlaygroundTypes'
    <3>1. adrift' \in [1..MaxTurns -> 0..MaxAdrift]
      <4>1. adrift[t] - 1 \in 0..MaxAdrift
        BY <1>h, <1>c, <2>1 DEF PlaygroundTypes
      <4> QED
        BY <1>h, <2>1, <4>1 DEF PlaygroundTypes
    <3>2. Len(asked') <= MaxAsked /\ late' \subseteq DOMAIN asked'
      BY <1>h, <1>c, <1>d, <2>1, <2>2 DEF PlaygroundTypes
    <3> HIDE DEF n
    <3> QED
      BY <1>h, <2>1, <2>2, <3>1, <3>2 DEF PlaygroundTypes
  <2> HIDE DEF n
  <2>5. OneQuestion'
    BY <1>h, <2>1, <2>2, <2>3 DEF OneQuestion
  <2>6. TurnsWait'
    BY <1>h, <2>1 DEF TurnsWait
  <2>7. OwnAnswers'
    BY <1>h, <2>1, <2>2, <2>3 DEF OwnAnswers
  <2>8. InOrder'
    BY <1>h, <2>1, <2>2, <2>3 DEF InOrder
  <2>9. KeepsAnswers
    BY <1>l, <1>h, <2>1 DEF PlaygroundTypes
  <2> QED
    BY <2>4, <2>5, <2>6, <2>7, <2>8, <2>9 DEF PlaygroundInv
<1>7. CASE UNCHANGED playgroundVars
  <2>1. UNCHANGED <<asked, thread, pending, asking, adrift, late, retried>>
    BY <1>7 DEF playgroundVars
  <2>2. PlaygroundInv'
    BY <1>h, <2>1 DEF PlaygroundInv, PlaygroundTypes, OneQuestion, TurnsWait, OwnAnswers, InOrder
  <2> QED
    BY <1>h, <1>l, <2>1, <2>2 DEF PlaygroundTypes
<1> QED
  BY <1>1, <1>2, <1>3, <1>5, <1>6, <1>7, <1>8 DEF PlaygroundNext

\* A turn of the playground shows an answer to its own question, the latest one the
\* page listened for, and the inspector never goes back to an earlier turn
\* (PlaygroundPage.tsx), whichever calls the server answers after the page gave them
\* up, for any number of turns and of answers.
THEOREM PlaygroundAlwaysTells == PlaygroundSpec => PlaygroundTells
<1>1. PlaygroundInit => PlaygroundInv
  BY PlaygroundInitInv
<1>2. PlaygroundInv /\ [PlaygroundNext]_playgroundVars => PlaygroundInv'
  BY PlaygroundStep
<1>3. PlaygroundInv => PlaygroundTypeOK /\ TurnsShowTheirOwn
  BY PlaygroundInvImplies
<1>4. PlaygroundInv /\ [PlaygroundNext]_playgroundVars => [KeepsAnswers]_playgroundVars
  BY PlaygroundStep
<1> QED
  BY <1>1, <1>2, <1>3, <1>4, PTL DEF PlaygroundSpec, PlaygroundTells, InspectorKeepsShowing, KeepsAnswers

-----------------------------------------------------------------------------
(* Cutting a text into chunks.                                              *)

LEMMA MinIs ==
  ASSUME NEW S \in SUBSET Nat, S # {}
  PROVE  Min(S) \in S /\ \A y \in S : Min(S) <= y
<1>1. \E x \in S : \A y \in S : x <= y
  BY LeastExists
<1> QED
  BY <1>1 DEF Min

LEMMA MaxIs ==
  ASSUME NEW n \in Nat, NEW S \in SUBSET (0..n), S # {}
  PROVE  Max(S) \in S /\ \A y \in S : y <= Max(S)
<1>1. \E x \in S : \A y \in S : y <= x
  BY LatestExists
<1>2. \A x, y \in S : y <= x <=> x >= y
  OBVIOUS
<1>3. \E x \in S : \A y \in S : x >= y
  BY <1>1, <1>2
<1>4. Max(S) \in S /\ \A y \in S : Max(S) >= y
  BY <1>3 DEF Max
<1> QED
  BY <1>2, <1>4

\* What the loop works with; a window is smaller than the target.
LEMMA TuningIs ==
  ASSUME tuning \in Tunings
  PROVE  /\ tuning.target \in Nat \ {0} /\ tuning.overlap \in Nat /\ tuning.window \in Nat
         /\ tuning.window < tuning.target
BY ChunkingAssumption DEF ChunkingAssumption, Tuning

\* The text without the blanks around it.
LEMMA TextIs ==
  ASSUME text \in Seq(Chars), Letters # {}
  PROVE  TextStart \in Nat /\ TextEnd \in Nat /\ TextStart < TextEnd /\ TextEnd <= Len(text)
<1> DEFINE n == Len(text)
<1>1. n \in Nat
  OBVIOUS
<1>2. Letters \in SUBSET (0..n) /\ Letters \in SUBSET Nat /\ \A i \in Letters : i < n
  BY <1>1 DEF Letters, Offsets
<1> HIDE DEF n
<1>3. Min(Letters) \in Letters /\ \A y \in Letters : Min(Letters) <= y
  BY <1>2, MinIs
<1>4. Max(Letters) \in Letters /\ \A y \in Letters : y <= Max(Letters)
  BY <1>1, <1>2, MaxIs
<1>5. Min(Letters) <= Max(Letters) /\ Max(Letters) < n
  BY <1>2, <1>3, <1>4
<1>6. Min(Letters) \in Nat /\ Max(Letters) \in Nat
  BY <1>2, <1>3, <1>4
<1> QED
  BY <1>1, <1>5, <1>6 DEF TextStart, TextEnd, n

\* The last of the marks has a cut: no other sentence ends behind it.
LEMMA SentenceCutIs ==
  ASSUME NEW lo \in Nat, NEW hi \in Nat, SentenceMarks(lo, hi) # {}
  PROVE  /\ SentenceCut(lo, hi) \in Nat /\ lo < SentenceCut(lo, hi) /\ SentenceCut(lo, hi) <= hi
         /\ At(SentenceCut(lo, hi) - 1) \in Spaces
<1> DEFINE M == {m \in SentenceMarks(lo, hi) : SentenceCuts(m, hi) # {}}
<1>1. /\ SentenceMarks(lo, hi) \in SUBSET (0..hi)
      /\ \A m \in SentenceMarks(lo, hi) :
           m \in Nat /\ lo <= m /\ m <= hi - 2 /\ At(m) = "." /\ At(m + 1) \in Spaces
  BY DEF SentenceMarks
<1>2. PICK l \in SentenceMarks(lo, hi) : \A m \in SentenceMarks(lo, hi) : m <= l
  BY <1>1, LatestExists
<1>3. PICK d : d = l + 2
  OBVIOUS
<1>c. d \in SentenceCuts(l, hi)
  <2>1. d \in (l + 2)..hi
    BY <1>1, <1>3
  <2>2. ASSUME NEW i \in (l + 1)..(d - 1) PROVE At(i) \in Spaces
    <3>1. i = l + 1
      BY <1>1, <1>3
    <3> QED
      BY <1>1, <3>1
  <2>3. ~SeesAnother(d, hi)
    <3>1. SUFFICES ASSUME NEW j \in SentenceMarks(d, hi) PROVE FALSE
      BY DEF SeesAnother
    <3>2. j \in SentenceMarks(lo, hi) /\ j > l
      BY <1>1, <1>3, <3>1 DEF SentenceMarks
    <3> QED
      BY <1>1, <1>2, <3>2
  <2> QED
    BY <2>1, <2>2, <2>3 DEF SentenceCuts
<1>4. M # {} /\ M \in SUBSET Nat
  BY <1>1, <1>c
<1>5. Min(M) \in M
  <2> HIDE DEF M
  <2> QED
    BY <1>4, MinIs
<1>6. PICK m \in SentenceMarks(lo, hi) : m = Min(M) /\ SentenceCuts(m, hi) # {}
  BY <1>5
<1>7. /\ SentenceCuts(m, hi) \in SUBSET (0..hi)
      /\ \A c \in SentenceCuts(m, hi) : c \in Nat /\ m + 2 <= c /\ c <= hi /\ c - 1 \in (m + 1)..(c - 1)
      /\ \A c \in SentenceCuts(m, hi) : \A i \in (m + 1)..(c - 1) : At(i) \in Spaces
  BY <1>1 DEF SentenceCuts
<1>8. Max(SentenceCuts(m, hi)) \in SentenceCuts(m, hi)
  BY <1>6, <1>7, MaxIs
<1>9. SentenceCut(lo, hi) = Max(SentenceCuts(m, hi))
  BY <1>6 DEF SentenceCut
<1>10. PICK c \in SentenceCuts(m, hi) : c = SentenceCut(lo, hi)
  BY <1>8, <1>9
<1>11. c \in Nat /\ lo < c /\ c <= hi /\ At(c - 1) \in Spaces
  BY <1>1, <1>7
<1> QED
  BY <1>10, <1>11

\* A cut is between two words if its window allows.
BetweenWords(start, cut) ==
  LET hi == start + tuning.target
      lo == SearchFloor(start, hi)
  IN BlanksIn(lo, hi) # {} \/ ParagraphBreaks(lo, hi) # {} =>
       At(cut - 1) \in Spaces \/ (At(cut) = "n" /\ At(cut + 1) = "n")

\* A cut is within the window.
LEMMA SnapIs ==
  ASSUME NEW start \in Nat, NEW hi \in Nat, tuning \in Tunings, hi = start + tuning.target
  PROVE  /\ SnapToBoundary(start, hi) \in Nat /\ SnapToBoundary(start, hi) <= hi
         /\ hi - tuning.window <= SnapToBoundary(start, hi)
         /\ BetweenWords(start, SnapToBoundary(start, hi))
<1>t. /\ tuning.target \in Nat \ {0} /\ tuning.window \in Nat /\ tuning.window < tuning.target
  BY TuningIs
<1>s. PICK lo, e : lo = SearchFloor(start, hi) /\ e = SnapToBoundary(start, hi)
  OBVIOUS
<1>1. lo \in Nat /\ lo = hi - tuning.window /\ lo <= hi
  <2> DEFINE d == hi - tuning.window
  <2>1. hi >= tuning.window /\ d \in Nat /\ start < d /\ d <= hi
    BY <1>t
  <2> HIDE DEF d
  <2>2. {start, d} \in SUBSET (0..d) /\ {start, d} # {}
    BY <2>1
  <2>3. Max({start, d}) \in {start, d} /\ \A y \in {start, d} : y <= Max({start, d})
    BY <2>1, <2>2, MaxIs
  <2>4. Max({start, d}) = d
    BY <2>1, <2>3
  <2> QED
    BY <1>s, <2>1, <2>4 DEF SearchFloor, d
<1>2. /\ ParagraphBreaks(lo, hi) \in SUBSET (0..hi)
      /\ \A i \in ParagraphBreaks(lo, hi) : i \in Nat /\ lo <= i /\ i <= hi /\ At(i) = "n" /\ At(i + 1) = "n"
  BY <1>1 DEF ParagraphBreaks
<1>3. /\ BlanksIn(lo, hi) \in SUBSET (0..hi)
      /\ \A i \in BlanksIn(lo, hi) : i \in Nat /\ lo <= i /\ i + 1 <= hi /\ At(i) \in Spaces
  <2>1. \A i \in lo..(hi - 1) : i \in Nat /\ lo <= i /\ i + 1 <= hi /\ i \in 0..hi
    BY <1>1
  <2>2. \A i \in BlanksIn(lo, hi) : i \in lo..(hi - 1) /\ At(i) \in Spaces
    BY Zenon DEF BlanksIn, Spaces
  <2> QED
    BY <2>1, <2>2
<1>4. e = IF ParagraphBreaks(lo, hi) # {} THEN Max(ParagraphBreaks(lo, hi))
          ELSE IF SentenceMarks(lo, hi) # {} THEN SentenceCut(lo, hi)
          ELSE IF BlanksIn(lo, hi) # {} THEN Max(BlanksIn(lo, hi)) + 1 ELSE hi
  BY <1>s DEF SnapToBoundary, Latest
<1> SUFFICES e \in Nat /\ e <= hi /\ lo <= e
             /\ (BlanksIn(lo, hi) # {} \/ ParagraphBreaks(lo, hi) # {} =>
                   At(e - 1) \in Spaces \/ (At(e) = "n" /\ At(e + 1) = "n"))
  BY <1>s, <1>1 DEF BetweenWords
<1>5. CASE ParagraphBreaks(lo, hi) # {}
  <2>1. Max(ParagraphBreaks(lo, hi)) \in ParagraphBreaks(lo, hi)
    BY <1>2, <1>5, MaxIs
  <2> QED
    BY <1>2, <1>4, <1>5, <2>1
<1>6. CASE ParagraphBreaks(lo, hi) = {} /\ SentenceMarks(lo, hi) # {}
  <2>1. /\ SentenceCut(lo, hi) \in Nat /\ lo < SentenceCut(lo, hi) /\ SentenceCut(lo, hi) <= hi
        /\ At(SentenceCut(lo, hi) - 1) \in Spaces
    BY <1>1, <1>6, SentenceCutIs
  <2>2. e = SentenceCut(lo, hi)
    BY <1>4, <1>6
  <2> QED
    BY <1>1, <2>1, <2>2
<1>7. CASE ParagraphBreaks(lo, hi) = {} /\ SentenceMarks(lo, hi) = {} /\ BlanksIn(lo, hi) # {}
  <2>1. PICK i \in BlanksIn(lo, hi) : i = Max(BlanksIn(lo, hi))
    BY <1>3, <1>7, MaxIs
  <2>2. e = i + 1
    BY <1>4, <1>7, <2>1
  <2>3. i \in Nat /\ lo <= i /\ i + 1 <= hi /\ At(i) \in Spaces
    BY <1>3
  <2>4. e - 1 = i /\ e \in Nat /\ e <= hi /\ lo <= e
    BY <1>1, <2>2, <2>3
  <2> QED
    BY <2>3, <2>4
<1>8. CASE ParagraphBreaks(lo, hi) = {} /\ SentenceMarks(lo, hi) = {} /\ BlanksIn(lo, hi) = {}
  BY <1>1, <1>4, <1>8
<1> QED
  BY <1>5, <1>6, <1>7, <1>8

\* Where the next chunk ends.
LEMMA ChunkEndIs ==
  ASSUME text \in Seq(Chars), Letters # {}, tuning \in Tunings, cursor \in Nat, cursor < TextEnd
  PROVE  /\ ChunkEnd \in Nat /\ cursor < ChunkEnd /\ ChunkEnd <= TextEnd
         /\ ChunkEnd - cursor <= tuning.target
         /\ ChunkEnd # TextEnd =>
              ChunkEnd - cursor >= tuning.target - tuning.window /\ BetweenWords(cursor, ChunkEnd)
<1>t. /\ tuning.target \in Nat \ {0} /\ tuning.window \in Nat /\ tuning.window < tuning.target
      /\ TextEnd \in Nat
  BY TuningIs, TextIs
<1> DEFINE hi == cursor + tuning.target
           e == Min({hi, TextEnd})
<1>0. hi \in Nat
  BY <1>t
<1>1. /\ ChunkEnd = IF e = TextEnd THEN TextEnd ELSE SnapToBoundary(cursor, e)
      /\ e \in {hi, TextEnd} /\ e <= hi /\ e <= TextEnd
  <2>1. {hi, TextEnd} \in SUBSET Nat /\ {hi, TextEnd} # {}
    BY <1>t, <1>0
  <2>2. e \in {hi, TextEnd} /\ \A y \in {hi, TextEnd} : e <= y
    <3> HIDE DEF hi
    <3> QED
      BY <2>1, MinIs
  <2> QED
    BY <2>2 DEF ChunkEnd
<1> HIDE DEF e
<1>2. CASE e = TextEnd
  BY <1>t, <1>1, <1>2
<1>3. CASE e # TextEnd
  <2>1. e = hi /\ hi < TextEnd /\ hi \in Nat
    BY <1>t, <1>1, <1>3
  <2>2. /\ SnapToBoundary(cursor, hi) \in Nat /\ SnapToBoundary(cursor, hi) <= hi
        /\ hi - tuning.window <= SnapToBoundary(cursor, hi)
        /\ BetweenWords(cursor, SnapToBoundary(cursor, hi))
    BY <2>1, SnapIs
  <2>3. ChunkEnd = SnapToBoundary(cursor, hi)
    BY <1>1, <1>3, <2>1
  <2> QED
    BY <1>t, <2>1, <2>2, <2>3, SMTT(30)
<1> QED
  BY <1>2, <1>3

\* A chunk as it is pushed: one that does not end the text has its full size.
GoodChunks ==
  {c \in Chunk :
     /\ c.charStart < c.charEnd /\ c.charEnd <= TextEnd
     /\ c.charEnd - c.charStart <= tuning.target
     /\ c.charEnd # TextEnd =>
          /\ c.charEnd - c.charStart >= tuning.target - tuning.window
          /\ BetweenWords(c.charStart, c.charEnd)}

\* Where the loop goes on after a chunk.
Follows ==
  {p \in Chunk \X Nat :
     /\ p[1].charEnd # TextEnd /\ p[1].charStart < p[2] /\ p[2] <= p[1].charEnd
     /\ tuning.target - tuning.window > tuning.overlap => p[1].charEnd - p[2] = tuning.overlap}

ChunkTypes ==
  /\ text \in Seq(Chars) /\ Len(text) <= MaxLength /\ tuning \in Tunings
  /\ chunks \in Seq(Chunk) /\ cursor \in 0..MaxLength /\ done \in BOOLEAN

\* Every chunk is longer than the overlap; what a chunk has at least that is new.
WellTuned == tuning.target - tuning.window > tuning.overlap
Fresh == tuning.target - tuning.window - tuning.overlap

\* The loop goes on within the text, after the last chunk; it stops at the text's end.
\* What lies behind it grows with the chunks.
LoopInv ==
  /\ ~done => /\ cursor < TextEnd
              /\ chunks = <<>> => cursor = TextStart
              /\ chunks # <<>> => TextEnd - TextStart > tuning.target /\ <<chunks[Len(chunks)], cursor>> \in Follows
              /\ Len(chunks) <= cursor - TextStart
              /\ WellTuned => Len(chunks) * Fresh <= cursor - TextStart
  /\ done => chunks # <<>> /\ chunks[Len(chunks)].charEnd = TextEnd

ChunksInv ==
  /\ chunks # <<>> => /\ chunks[1].charStart = TextStart
                      /\ Len(chunks) <= TextEnd - TextStart
                      /\ WellTuned => (Len(chunks) - 1) * Fresh < TextEnd - TextStart
  /\ \A i \in DOMAIN chunks : chunks[i] \in GoodChunks
  /\ \A i \in DOMAIN chunks : i < Len(chunks) => <<chunks[i], chunks[i + 1].charStart>> \in Follows

\* The inductive invariant of the loop.
ChunkInv ==
  /\ ChunkTypes
  /\ Letters = {} => chunks = <<>>
  /\ Letters # {} => LoopInv /\ ChunksInv

LEMMA ChunkInitInv == ChunkInit => ChunkInv
<1> SUFFICES ASSUME ChunkInit PROVE ChunkInv
  OBVIOUS
<1>1. /\ tuning \in Tunings /\ chunks = <<>> /\ done = FALSE
      /\ cursor = IF Letters = {} THEN 0 ELSE TextStart
  BY DEF ChunkInit
<1>2. MaxLength \in Nat
  BY ChunkingAssumption DEF ChunkingAssumption
<1>3. text \in Seq(Chars) /\ Len(text) <= MaxLength /\ Len(text) \in Nat
  <2>1. PICK n \in 0..MaxLength : text \in [1..n -> Chars]
    BY DEF ChunkInit
  <2> HIDE DEF Chars
  <2> QED
    BY <1>2, <2>1
<1>4. <<>> \in Seq(Chunk) /\ DOMAIN <<>> = {}
  BY EmptySeq
<1>5. Letters # {} => TextStart \in Nat /\ TextEnd \in Nat /\ TextStart < TextEnd /\ TextEnd <= Len(text)
  BY <1>3, TextIs
<1>6. cursor \in 0..MaxLength
  BY <1>1, <1>2, <1>3, <1>5
<1>7. ChunkTypes
  BY <1>1, <1>3, <1>4, <1>6 DEF ChunkTypes
<1>8. Letters # {} => LoopInv
  <2>1. Letters # {} => cursor = TextStart /\ Len(chunks) = 0 /\ TextStart \in Nat
    BY <1>1, <1>5
  <2>2. WellTuned => Fresh \in Nat
    BY <1>1, TuningIs DEF WellTuned, Fresh
  <2>3. \A s \in Nat : 0 * s = 0
    OBVIOUS
  <2> QED
    BY <1>1, <1>5, <2>1, <2>2, <2>3 DEF LoopInv
<1> QED
  BY <1>1, <1>4, <1>7, <1>8 DEF ChunkInv, ChunksInv

LEMMA ChunkInvImplies == ChunkInv => ChunksAreSound
<1> SUFFICES ASSUME ChunkInv PROVE ChunksAreSound
  OBVIOUS
<1>h. ChunkTypes /\ (Letters = {} => chunks = <<>>) /\ (Letters # {} => LoopInv /\ ChunksInv)
  BY DEF ChunkInv
<1>d. DOMAIN chunks = 1..Len(chunks) /\ Len(chunks) \in Nat /\ \A i \in DOMAIN chunks : chunks[i] \in Chunk
  BY <1>h DEF ChunkTypes
<1>t. /\ tuning.target \in Nat /\ tuning.overlap \in Nat /\ tuning.window \in Nat
  BY <1>h, TuningIs DEF ChunkTypes
<1>e. DOMAIN <<>> = {}
  BY EmptySeq
<1>g. ASSUME NEW i \in DOMAIN chunks
      PROVE  /\ Letters # {} /\ chunks[i] \in GoodChunks
             /\ i < Len(chunks) => i + 1 \in DOMAIN chunks /\ <<chunks[i], chunks[i + 1].charStart>> \in Follows
  <2>1. Letters # {}
    BY <1>h, <1>e
  <2>2. i < Len(chunks) => i + 1 \in DOMAIN chunks
    BY <1>d
  <2> QED
    BY <1>h, <2>1, <2>2 DEF ChunksInv
<1>1. ChunkTypeOK
  <2>1. \A i \in DOMAIN chunks : chunks[i].charStart < chunks[i].charEnd
    BY <1>g DEF GoodChunks
  <2> QED
    BY <1>h, <2>1 DEF ChunkTypeOK, ChunkTypes
<1>2. ChunksCoverTheText
  <2> SUFFICES ASSUME done, Letters # {}
               PROVE  /\ chunks # <<>>
                      /\ chunks[1].charStart = TextStart /\ chunks[Len(chunks)].charEnd = TextEnd
                      /\ \A i \in 1..(Len(chunks) - 1) :
                           /\ chunks[i].charStart < chunks[i + 1].charStart
                           /\ chunks[i + 1].charStart <= chunks[i].charEnd
    BY DEF ChunksCoverTheText
  <2>1. \A i \in 1..(Len(chunks) - 1) : i \in DOMAIN chunks /\ i < Len(chunks)
    BY <1>d
  <2>2. \A i \in 1..(Len(chunks) - 1) : <<chunks[i], chunks[i + 1].charStart>> \in Follows
    BY <1>g, <2>1
  <2> QED
    BY <1>h, <2>2 DEF LoopInv, ChunksInv, Follows
<1>3. ChunksAreSized
  <2> SUFFICES ASSUME NEW i \in DOMAIN chunks
               PROVE  LET size == chunks[i].charEnd - chunks[i].charStart
                      IN /\ size <= tuning.target
                         /\ i < Len(chunks) =>
                              /\ size >= tuning.target - tuning.window
                              /\ tuning.target - tuning.window > tuning.overlap =>
                                   chunks[i].charEnd - chunks[i + 1].charStart = tuning.overlap
    BY DEF ChunksAreSized
  <2> QED
    BY <1>g DEF GoodChunks, Follows
<1>4. WordsStayWhole
  <2>1. \A i \in DOMAIN chunks : chunks[i].charEnd # TextEnd => BetweenWords(chunks[i].charStart, chunks[i].charEnd)
    BY <1>g DEF GoodChunks
  <2> QED
    BY <2>1 DEF WordsStayWhole, BetweenWords
<1>5. ChunksAreFew
  BY <1>h, <1>e DEF ChunksInv, ChunksAreFew, WellTuned, Fresh
<1> QED
  BY <1>1, <1>2, <1>3, <1>4, <1>5 DEF ChunksAreSound

LEMMA ChunkStep ==
  ASSUME ChunkInv, [ChunkNext]_chunkVars
  PROVE  ChunkInv'
<1>h. ChunkTypes /\ (Letters = {} => chunks = <<>>) /\ (Letters # {} => LoopInv /\ ChunksInv)
  BY DEF ChunkInv
<1>d. DOMAIN chunks = 1..Len(chunks) /\ Len(chunks) \in Nat /\ cursor \in Nat
  BY <1>h, ChunkingAssumption DEF ChunkTypes, ChunkingAssumption
<1>m. MaxLength \in Nat
  BY ChunkingAssumption DEF ChunkingAssumption
<1>t. /\ tuning.target \in Nat \ {0} /\ tuning.overlap \in Nat /\ tuning.window \in Nat
      /\ tuning.window < tuning.target
  BY <1>h, TuningIs DEF ChunkTypes
\* The inputs stay, and with them what is said of a chunk.
<1>s. ASSUME UNCHANGED <<text, tuning>>
      PROVE  /\ Letters' = Letters /\ TextStart' = TextStart /\ TextEnd' = TextEnd
             /\ GoodChunks' = GoodChunks /\ Follows' = Follows
             /\ WellTuned' = WellTuned /\ Fresh' = Fresh
  <2>1. Letters' = Letters
    BY <1>s DEF Letters, Offsets, At
  <2>2. TextStart' = TextStart /\ TextEnd' = TextEnd
    BY <2>1 DEF TextStart, TextEnd
  <2>3. ASSUME NEW a, NEW b PROVE BetweenWords(a, b)' <=> BetweenWords(a, b)
    BY <1>s DEF BetweenWords, SearchFloor, BlanksIn, ParagraphBreaks, At
  <2>4. ASSUME NEW c \in Chunk PROVE BetweenWords(c.charStart, c.charEnd)' <=> BetweenWords(c.charStart, c.charEnd)
    BY <2>3
  <2>5. GoodChunks' = GoodChunks
    BY <1>s, <2>2, <2>4 DEF GoodChunks
  <2>6. Follows' = Follows
    BY <1>s, <2>2 DEF Follows
  <2>7. WellTuned' = WellTuned /\ Fresh' = Fresh
    BY <1>s DEF WellTuned, Fresh
  <2> QED
    BY <2>1, <2>2, <2>5, <2>6, <2>7
\* One chunk more takes as much more of the text.
<1>f. WellTuned => /\ Fresh \in Nat /\ 0 * Fresh = 0
                   /\ \A n \in Nat : (n + 1) * Fresh = n * Fresh + Fresh /\ n * Fresh \in Nat
  <2>1. \A n, s \in Nat : 0 * s = 0 /\ (n + 1) * s = n * s + s /\ n * s \in Nat
    OBVIOUS
  <2>2. WellTuned => Fresh \in Nat
    BY <1>t DEF WellTuned, Fresh
  <2> HIDE DEF WellTuned, Fresh
  <2> QED
    BY <2>1, <2>2
<1>1. CASE NoChunks
  <2>1. Letters = {} /\ done' = TRUE /\ UNCHANGED <<text, tuning, chunks, cursor>>
    BY <1>1 DEF NoChunks
  <2>2. ChunkTypes'
    BY <1>h, <2>1 DEF ChunkTypes
  <2> QED
    BY <1>h, <1>s, <2>1, <2>2 DEF ChunkInv
<1>2. CASE OneChunk
  <2> DEFINE c == [charStart |-> TextStart, charEnd |-> TextEnd]
  <2>1. /\ Letters # {} /\ TextEnd - TextStart <= tuning.target /\ chunks' = <<c>>
        /\ done' = TRUE /\ UNCHANGED <<text, tuning, cursor>>
    BY <1>2 DEF OneChunk
  <2>2. TextStart \in Nat /\ TextEnd \in Nat /\ TextStart < TextEnd /\ TextEnd <= MaxLength
    BY <1>h, <1>m, <2>1, TextIs DEF ChunkTypes
  <2>3. PICK k : k = c
    OBVIOUS
  <2>4. k \in Chunk /\ k.charStart = TextStart /\ k.charEnd = TextEnd
    BY <1>m, <2>2, <2>3 DEF Chunk
  <2>5. /\ chunks' \in Seq(Chunk) /\ chunks' # <<>> /\ Len(chunks') = 1 /\ DOMAIN chunks' = {1} /\ chunks'[1] = k
    BY <2>1, <2>3, <2>4
  <2>6. k \in GoodChunks
    BY <2>1, <2>2, <2>4 DEF GoodChunks
  <2>7. ChunkTypes'
    BY <1>h, <2>1, <2>5 DEF ChunkTypes
  <2>8. ChunksInv'
    <3>1. Len(chunks') <= TextEnd' - TextStart'
      BY <1>s, <2>1, <2>2, <2>5
    <3>2. WellTuned' => (Len(chunks') - 1) * Fresh' < TextEnd' - TextStart'
      <4>1. Len(chunks') - 1 = 0
        BY <2>5
      <4>2. WellTuned' => (Len(chunks') - 1) * Fresh' = 0
        BY <1>s, <1>f, <2>1, <4>1
      <4> QED
        BY <1>s, <2>1, <2>2, <4>2
    <3> QED
      BY <1>s, <2>1, <2>4, <2>5, <2>6, <3>1, <3>2 DEF ChunksInv
  <2>9. LoopInv'
    BY <1>s, <2>1, <2>4, <2>5 DEF LoopInv
  <2> QED
    BY <1>s, <2>1, <2>7, <2>8, <2>9 DEF ChunkInv
<1>3. CASE PushChunk
  <2>e. PICK e : e = ChunkEnd
    OBVIOUS
  <2> DEFINE c == [charStart |-> cursor, charEnd |-> e]
             n == Len(chunks) + 1
  <2>1. /\ ~done /\ Letters # {} /\ TextEnd - TextStart > tuning.target /\ UNCHANGED <<text, tuning>>
        /\ chunks' = Append(chunks, c) /\ done' = (e >= TextEnd)
        /\ cursor' = IF e >= TextEnd THEN cursor ELSE NextCursor(e)
    BY <1>3, <2>e DEF PushChunk
  <2>2. TextStart \in Nat /\ TextEnd \in Nat /\ TextStart < TextEnd /\ TextEnd <= MaxLength
    BY <1>h, <1>m, <2>1, TextIs DEF ChunkTypes
  <2>3. LoopInv /\ ChunksInv /\ cursor < TextEnd
    BY <1>h, <2>1 DEF LoopInv
  <2>4. /\ e \in Nat /\ cursor < e /\ e <= TextEnd /\ e - cursor <= tuning.target
        /\ e # TextEnd => e - cursor >= tuning.target - tuning.window /\ BetweenWords(cursor, e)
    BY <1>h, <1>d, <2>1, <2>3, <2>e, ChunkEndIs DEF ChunkTypes
  <2>k. PICK k : k = c
    OBVIOUS
  <2>5. k \in Chunk /\ k.charStart = cursor /\ k.charEnd = e
    BY <1>d, <1>m, <2>2, <2>4, <2>k DEF Chunk
  <2>6. k \in GoodChunks
    BY <2>4, <2>5 DEF GoodChunks
  <2>7. /\ chunks' \in Seq(Chunk) /\ chunks' # <<>> /\ Len(chunks') = n /\ DOMAIN chunks' = 1..n /\ chunks'[n] = k
        /\ \A i \in DOMAIN chunks : chunks'[i] = chunks[i]
    BY <1>h, <1>d, <2>1, <2>k, <2>5, AppendProperties DEF ChunkTypes
  <2>8. done' = (e = TextEnd)
    BY <2>1, <2>2, <2>4
  <2>9. ASSUME e # TextEnd
        PROVE  cursor' \in Nat /\ cursor' > cursor /\ cursor' < TextEnd /\ <<k, cursor'>> \in Follows
    <3> DEFINE S == {cursor + 1} \cup {x \in {e - tuning.overlap} : e >= tuning.overlap}
    <3>1. S \in SUBSET (0..e) /\ S # {} /\ cursor + 1 \in S
          /\ (e >= tuning.overlap => e - tuning.overlap \in S)
          /\ \A x \in S : x = cursor + 1 \/ x = e - tuning.overlap
      BY <1>d, <1>t, <2>4
    <3>2. Max(S) \in S /\ \A y \in S : y <= Max(S)
      <4> HIDE DEF S
      <4> QED
        BY <2>4, <3>1, MaxIs
    <3>3. cursor' = Max(S)
      BY <2>1, <2>2, <2>4, <2>9 DEF NextCursor
    <3> HIDE DEF S
    <3>4. cursor' \in Nat /\ cursor + 1 <= cursor' /\ cursor' <= e
      <4>1. cursor' \in 0..e
        BY <3>1, <3>2, <3>3
      <4>2. cursor + 1 <= cursor'
        BY <3>1, <3>2, <3>3
      <4> QED
        BY <2>4, <4>1, <4>2
    <3>5. ASSUME tuning.target - tuning.window > tuning.overlap PROVE e - cursor' = tuning.overlap
      <4>1. e - cursor > tuning.overlap
        BY <1>d, <1>t, <2>4, <2>9, <3>5
      <4>2. e >= tuning.overlap /\ e - tuning.overlap > cursor
        BY <1>d, <1>t, <2>4, <4>1
      <4>3. e - tuning.overlap \in S
        BY <3>1, <4>2
      <4>4. cursor' >= e - tuning.overlap
        BY <3>2, <3>3, <4>3, <1>t, <2>4, <3>4
      <4>5. cursor' = cursor + 1 \/ cursor' = e - tuning.overlap
        BY <3>1, <3>2, <3>3
      <4> QED
        BY <1>d, <1>t, <2>4, <4>2, <4>4, <4>5
    <3> QED
      BY <1>d, <2>2, <2>4, <2>5, <2>9, <3>4, <3>5 DEF Follows
  <2>u. PICK u : u = Len(chunks) * Fresh
    OBVIOUS
  <2>v. WellTuned => u \in Nat /\ n * Fresh = u + Fresh /\ u <= cursor - TextStart
    BY <1>d, <1>f, <2>1, <2>3, <2>u DEF LoopInv
  <2>w. Len(chunks) <= cursor - TextStart
    BY <2>1, <2>3 DEF LoopInv
  <2>x. n - 1 = Len(chunks)
    BY <1>d
  <2>10. cursor' \in 0..MaxLength /\ (~done' => cursor' > cursor)
    <3>1. CASE e = TextEnd
      BY <1>h, <2>1, <2>2, <2>8, <3>1 DEF ChunkTypes
    <3>2. CASE e # TextEnd
      <4>1. cursor' \in Nat /\ cursor' > cursor /\ cursor' < TextEnd
        BY <2>9, <3>2
      <4> QED
        BY <1>m, <2>2, <4>1
    <3> QED
      BY <3>1, <3>2
  <2>11. ChunkTypes'
    BY <1>h, <2>1, <2>7, <2>10, <2>8 DEF ChunkTypes
  <2>12. LoopInv'
    <3>1. ASSUME ~done' PROVE e # TextEnd /\ cursor' < TextEnd /\ <<k, cursor'>> \in Follows'
      <4>1. e # TextEnd
        BY <2>8, <3>1
      <4>2. PICK x : x = cursor'
        OBVIOUS
      <4>3. cursor' < TextEnd /\ <<k, x>> \in Follows
        BY <2>9, <4>1, <4>2
      <4>4. <<k, x>> \in Follows'
        BY <1>s, <2>1, <4>3
      <4> QED
        BY <4>1, <4>2, <4>3, <4>4 DEF Follows
    <3>2. done' => chunks'[n].charEnd = TextEnd
      BY <2>5, <2>7, <2>8
    <3>3. ASSUME ~done' PROVE n <= cursor' - TextStart /\ (WellTuned => n * Fresh <= cursor' - TextStart)
      <4>1. /\ e # TextEnd /\ cursor' \in Nat /\ cursor' > cursor /\ <<k, cursor'>> \in Follows
        BY <2>8, <2>9, <3>3
      <4>2. n <= cursor' - TextStart
        BY <1>d, <2>2, <2>w, <4>1
      <4>3. WellTuned => e - cursor' = tuning.overlap
        BY <2>5, <4>1 DEF Follows, WellTuned
      <4>4. WellTuned => cursor' - cursor >= Fresh
        <5>1. PICK v, g, w, o : v = cursor' /\ g = tuning.target /\ w = tuning.window /\ o = tuning.overlap
          OBVIOUS
        <5>2. v \in Int /\ g \in Int /\ w \in Int /\ o \in Int /\ e \in Int /\ cursor \in Int
          BY <1>d, <1>t, <2>4, <4>1, <5>1
        <5>3. e - cursor >= g - w /\ (WellTuned => e - v = o)
          BY <2>4, <4>1, <4>3, <5>1
        <5>4. WellTuned => v - cursor >= g - w - o
          BY ONLY <5>2, <5>3
        <5> QED
          BY <5>1, <5>4 DEF Fresh
      <4>5. WellTuned => u + Fresh <= cursor' - TextStart
        <5>1. PICK f, v : f = Fresh /\ v = cursor'
          OBVIOUS
        <5>2. WellTuned => u \in Int /\ f \in Int /\ v \in Int /\ cursor \in Int /\ TextStart \in Int
          BY <1>d, <1>f, <2>2, <2>v, <4>1, <5>1
        <5>3. WellTuned => u <= cursor - TextStart /\ v - cursor >= f
          BY <2>v, <4>4, <5>1
        <5>4. WellTuned => u + f <= v - TextStart
          BY ONLY <5>2, <5>3
        <5> QED
          BY <5>1, <5>4
      <4> QED
        BY <2>v, <4>2, <4>5
    <3>4. /\ chunks' # <<>> /\ Len(chunks') = n /\ chunks'[n] = k
          /\ TextEnd' = TextEnd /\ TextStart' = TextStart /\ Fresh' = Fresh /\ WellTuned' = WellTuned /\ tuning' = tuning
      BY <1>s, <2>1, <2>7
    <3>5. TextEnd - TextStart > tuning.target
      BY <2>1
    <3> QED
      BY <3>1, <3>2, <3>3, <3>4, <3>5 DEF LoopInv
  <2>13. ChunksInv'
    <3>1. chunks'[1].charStart = TextStart
      <4>1. CASE chunks = <<>>
        BY <2>1, <2>3, <2>5, <2>7, <4>1 DEF LoopInv
      <4>2. CASE chunks # <<>>
        <5>1. 1 \in DOMAIN chunks
          BY <1>h, <1>d, <4>2 DEF ChunkTypes
        <5> QED
          BY <2>3, <2>7, <4>2, <5>1 DEF ChunksInv
      <4> QED
        BY <4>1, <4>2
    <3>2. ASSUME NEW i \in DOMAIN chunks' PROVE chunks'[i] \in GoodChunks'
      <4>1. PICK x : x = chunks'[i]
        OBVIOUS
      <4>2. x \in GoodChunks
        <5>1. CASE i = n
          BY <2>6, <2>7, <4>1, <5>1
        <5>2. CASE i # n
          <6>1. i \in DOMAIN chunks
            BY <1>d, <2>7, <5>2
          <6> QED
            BY <2>3, <2>7, <4>1, <6>1 DEF ChunksInv
        <5> QED
          BY <5>1, <5>2
      <4>3. x \in GoodChunks'
        BY <1>s, <2>1, <4>2
      <4> QED
        BY <4>1, <4>3
    <3>3. ASSUME NEW i \in DOMAIN chunks', i < n
          PROVE  <<chunks'[i], chunks'[i + 1].charStart>> \in Follows'
      <4>1. PICK x, y : x = chunks'[i + 1].charStart /\ y = chunks'[i]
        OBVIOUS
      <4>2. i \in DOMAIN chunks /\ y = chunks[i]
        BY <1>d, <2>7, <3>3, <4>1
      <4>3. <<y, x>> \in Follows
        <5>1. CASE i + 1 = n
          <6>1. x = cursor /\ i = Len(chunks) /\ chunks # <<>>
            BY <1>d, <2>5, <2>7, <3>3, <4>1, <4>2, <5>1
          <6> QED
            BY <2>1, <2>3, <4>2, <6>1 DEF LoopInv
        <5>2. CASE i + 1 # n
          <6>1. i + 1 \in DOMAIN chunks /\ i < Len(chunks)
            BY <1>d, <2>7, <3>3, <5>2
          <6>2. x = chunks[i + 1].charStart
            BY <2>7, <4>1, <6>1
          <6> QED
            BY <2>3, <4>2, <6>1, <6>2 DEF ChunksInv
        <5> QED
          BY <5>1, <5>2
      <4>4. <<y, x>> \in Follows'
        BY <1>s, <2>1, <4>3
      <4> QED
        BY <4>1, <4>4
    <3>4. n <= TextEnd - TextStart
      BY <1>d, <2>2, <2>4, <2>w
    <3>5. WellTuned => (n - 1) * Fresh < TextEnd - TextStart
      BY <1>d, <2>2, <2>4, <2>u, <2>v, <2>x
    <3> QED
      BY <1>s, <2>1, <2>7, <3>1, <3>2, <3>3, <3>4, <3>5 DEF ChunksInv
  <2> QED
    BY <1>s, <2>1, <2>10, <2>11, <2>12, <2>13 DEF ChunkInv
<1>4. CASE UNCHANGED chunkVars
  <2>1. UNCHANGED <<text, tuning, chunks, cursor, done>>
    BY <1>4 DEF chunkVars
  <2>2. ChunkTypes'
    BY <1>h, <2>1 DEF ChunkTypes
  <2>3. Letters # {} => LoopInv'
    BY <1>h, <1>s, <2>1 DEF LoopInv
  <2>4. Letters # {} => ChunksInv'
    BY <1>h, <1>s, <2>1 DEF ChunksInv
  <2> QED
    BY <1>h, <1>s, <1>4, <2>1, <2>2, <2>3, <2>4 DEF ChunkInv
<1> QED
  BY <1>1, <1>2, <1>3, <1>4 DEF ChunkNext, NoChunks, OneChunk

\* The chunks of every text cover it, in pieces of the promised size, cut between
\* words, and the loop ends, with no more chunks than the bound, however chunkText
\* is tuned.
THEOREM ChunksAlwaysSound == ChunkSpec => []ChunksAreSound
<1>1. ChunkInit => ChunkInv
  BY ChunkInitInv
<1>2. ChunkInv /\ [ChunkNext]_chunkVars => ChunkInv'
  BY ChunkStep
<1>3. ChunkInv => ChunksAreSound
  BY ChunkInvImplies
<1> QED
  BY <1>1, <1>2, <1>3, PTL DEF ChunkSpec

-----------------------------------------------------------------------------
(* The fusion of two searches.                                              *)

\* What ROW_NUMBER() and LIMIT leave of a search: the first places, each once.
GoodRank(rank) ==
  /\ DOMAIN rank \subseteq ChunkIds
  /\ \A c \in DOMAIN rank : rank[c] \in 1..Pool
  /\ {rank[c] : c \in DOMAIN rank} = 1..Cardinality(DOMAIN rank)

\* A place in the pool counts for less than twice another.
LEMMA PoolIsSmall ==
  ASSUME NEW n \in 1..Pool, NEW m \in 1..Pool
  PROVE  /\ RrfK \in Nat \ {0} /\ RrfK + n \in Nat /\ RrfK + n > 0
         /\ RrfK + n < (RrfK + m) + (RrfK + m)
BY RetrievalAssumption DEF RetrievalAssumption

\* A larger factor makes a larger product.
LEMMA Multiplied ==
  ASSUME NEW x \in Nat, NEW y \in Nat, x < y, NEW k \in Nat, k > 0
  PROVE  x * k < y * k /\ k * x < k * y /\ x * k \in Nat /\ y * k \in Nat
<1>1. PICK d \in Nat : y = x + d /\ d > 0
  <2>1. y - x \in Nat /\ y - x > 0 /\ y = x + (y - x)
    OBVIOUS
  <2> QED
    BY <2>1
<1>2. d * k \in Nat /\ d * k > 0
  BY <1>1
<1>3. y * k = x * k + d * k /\ k * y = y * k /\ k * x = x * k /\ x * k \in Nat
  BY <1>1
<1> QED
  BY <1>2, <1>3

\* Two places in the pool are worth more than any one.
LEMMA TwoBeatOne ==
  ASSUME NEW x \in Nat, NEW y \in Nat, NEW z \in Nat, x > 0, y > 0, x < z + z, y < z + z
  PROVE  (y + x) * z > x * y
<1>1. y * x < y * (z + z) /\ x * y < x * (z + z)
  BY Multiplied
<1> DEFINE p == x * z
           q == y * z
           r == x * y
<1>2. p \in Nat /\ q \in Nat /\ r \in Nat /\ y * x = r /\ y * (z + z) = q + q /\ x * (z + z) = p + p
  OBVIOUS
<1>3. (y + x) * z = q + p
  OBVIOUS
<1> HIDE DEF p, q, r
<1>4. q + p > r
  BY <1>1, <1>2
<1> QED
  BY <1>3, <1>4 DEF r

\* Two places are worth more than two that are behind them.
LEMMA TwoBeatTwo ==
  ASSUME NEW x \in Nat, NEW y \in Nat, NEW s \in Nat, NEW t \in Nat,
         x > 0, y > 0, x < s, y < t
  PROVE  (y + x) * (s * t) > (t + s) * (x * y)
<1>1. x * s \in Nat /\ x * s > 0 /\ y * t \in Nat /\ y * t > 0
  BY Multiplied
<1>2. y * (x * s) < t * (x * s) /\ x * (y * t) < s * (y * t)
  BY <1>1, Multiplied
<1>3. y * (x * s) + x * (y * t) = (t + s) * (x * y)
  OBVIOUS
<1>4. t * (x * s) + s * (y * t) = (y + x) * (s * t)
  OBVIOUS
<1>5. /\ y * (x * s) \in Nat /\ t * (x * s) \in Nat
      /\ x * (y * t) \in Nat /\ s * (y * t) \in Nat
  BY <1>1
<1> QED
  BY <1>2, <1>3, <1>4, <1>5

\* The rank a search gives is good.
LEMMA RankedAre ==
  ASSUME NEW hits \in SUBSET ChunkIds, NEW row \in [hits -> 1..Cardinality(hits)],
         \A a, b \in hits : a # b => row[a] # row[b]
  PROVE  GoodRank([c \in {d \in hits : row[d] <= Pool} |-> row[c]])
<1> DEFINE n == Cardinality(hits)
           kept == {d \in hits : row[d] <= Pool}
           rank == [c \in kept |-> row[c]]
<1>0. NumChunks \in Nat /\ Pool \in Nat \ {0}
  BY RetrievalAssumption DEF RetrievalAssumption
<1>1. IsFiniteSet(hits) /\ n \in Nat
  <2>1. IsFiniteSet(1..NumChunks)
    BY <1>0, FS_Interval
  <2>2. IsFiniteSet(hits)
    BY <2>1, FS_Subset DEF ChunkIds
  <2> QED
    BY <2>2, FS_CardinalityType
<1>2. IsFiniteSet(1..n) /\ Cardinality(1..n) = n
  BY <1>1, FS_Interval
<1>3. row \in Injection(hits, 1..n)
  BY DEF Injection, IsInjective
<1>4. row \in Surjection(hits, 1..n)
  BY <1>1, <1>2, <1>3, FS_Injection
<1>5. \A i \in 1..n : \E c \in hits : row[c] = i
  BY <1>4 DEF Surjection
<1> DEFINE m == IF n < Pool THEN n ELSE Pool
<1>6. m \in Nat /\ m <= n /\ m <= Pool /\ \A i \in 1..n : i <= Pool <=> i <= m
  BY <1>0, <1>1
<1>7. DOMAIN rank = kept /\ \A c \in kept : rank[c] = row[c]
  OBVIOUS
<1>8. \A c \in kept : rank[c] \in 1..m
  BY <1>6, <1>7
<1>9. \A i \in 1..m : \E c \in kept : rank[c] = i
  <2> SUFFICES ASSUME NEW i \in 1..m PROVE \E c \in kept : rank[c] = i
    OBVIOUS
  <2>1. i \in 1..n /\ i <= Pool
    BY <1>1, <1>6
  <2>2. PICK c \in hits : row[c] = i
    BY <1>5, <2>1
  <2> QED
    BY <1>7, <2>1, <2>2
<1> HIDE DEF rank
<1>10. rank \in Bijection(kept, 1..m)
  <2>1. rank \in [kept -> 1..m]
    BY <1>8 DEF rank
  <2>2. \A a, b \in kept : rank[a] = rank[b] => a = b
    BY <1>7
  <2>3. rank \in Injection(kept, 1..m)
    BY <2>1, <2>2 DEF Injection, IsInjective
  <2>4. rank \in Surjection(kept, 1..m)
    BY <2>1, <1>9 DEF Surjection
  <2> QED
    BY <2>3, <2>4 DEF Bijection
<1>11. IsFiniteSet(kept) /\ Cardinality(kept) = m
  <2>1. IsFiniteSet(kept)
    BY <1>1, FS_Subset
  <2>2. ExistsBijection(kept, 1..m)
    BY <1>10 DEF ExistsBijection
  <2>3. Cardinality(1..m) = Cardinality(kept)
    BY <2>1, <2>2, FS_Bijection
  <2>4. Cardinality(1..m) = m
    BY <1>6, FS_Interval
  <2> QED
    BY <2>1, <2>3, <2>4
<1>12. {rank[c] : c \in kept} = 1..m
  BY <1>8, <1>9
<1>13. \A c \in kept : rank[c] \in 1..Pool
  BY <1>6, <1>8, <1>0
<1>14. GoodRank(rank)
  BY <1>7, <1>11, <1>12, <1>13 DEF GoodRank
<1> QED
  BY <1>14 DEF rank

-----------------------------------------------------------------------------
\* What a chunk scores: its places in the two lists.
LEMMA ScoreIs ==
  ASSUME NEW v, NEW kw, GoodRank(v), GoodRank(kw), NEW c
  PROVE  /\ c \in DOMAIN v => RrfK + v[c] \in Nat
         /\ c \in DOMAIN kw => RrfK + kw[c] \in Nat
         /\ c \in DOMAIN v /\ c \in DOMAIN kw =>
              Rrf(v, kw, c) = <<(RrfK + kw[c]) + (RrfK + v[c]), (RrfK + v[c]) * (RrfK + kw[c])>>
         /\ c \in DOMAIN v /\ c \notin DOMAIN kw => Rrf(v, kw, c) = <<1, RrfK + v[c]>>
         /\ c \notin DOMAIN v /\ c \in DOMAIN kw => Rrf(v, kw, c) = <<1, RrfK + kw[c]>>
<1>1. RrfK \in Nat /\ Pool \in Nat
  BY RetrievalAssumption DEF RetrievalAssumption
<1>2. c \in DOMAIN v => RrfK + v[c] \in Nat
  BY <1>1 DEF GoodRank
<1>3. c \in DOMAIN kw => RrfK + kw[c] \in Nat
  BY <1>1 DEF GoodRank
<1>4. ASSUME c \in DOMAIN v, c \in DOMAIN kw
      PROVE  Rrf(v, kw, c) = <<(RrfK + kw[c]) + (RrfK + v[c]), (RrfK + v[c]) * (RrfK + kw[c])>>
  <2>1. PICK x \in Nat, y \in Nat : x = RrfK + v[c] /\ y = RrfK + kw[c]
    BY <1>2, <1>3, <1>4
  <2>2. Fraction(v, c) = <<1, x>> /\ Fraction(kw, c) = <<1, y>>
    BY <1>4, <2>1 DEF Fraction
  <2>3. Rrf(v, kw, c) = <<y + x, x * y>>
    BY <2>2 DEF Rrf, Plus
  <2> QED
    BY <2>1, <2>3
<1>5. ASSUME c \in DOMAIN v, c \notin DOMAIN kw
      PROVE  Rrf(v, kw, c) = <<1, RrfK + v[c]>>
  <2>1. PICK x \in Nat : x = RrfK + v[c]
    BY <1>2, <1>5
  <2>2. Fraction(v, c) = <<1, x>> /\ Fraction(kw, c) = <<0, 1>>
    BY <1>5, <2>1 DEF Fraction
  <2>3. Rrf(v, kw, c) = <<1, x>>
    BY <2>2 DEF Rrf, Plus
  <2> QED
    BY <2>1, <2>3
<1>6. ASSUME c \notin DOMAIN v, c \in DOMAIN kw
      PROVE  Rrf(v, kw, c) = <<1, RrfK + kw[c]>>
  <2>1. PICK y \in Nat : y = RrfK + kw[c]
    BY <1>3, <1>6
  <2>2. Fraction(v, c) = <<0, 1>> /\ Fraction(kw, c) = <<1, y>>
    BY <1>6, <2>1 DEF Fraction
  <2>3. Rrf(v, kw, c) = <<1, y>>
    BY <2>2 DEF Rrf, Plus
  <2> QED
    BY <2>1, <2>3
<1> QED
  BY <1>2, <1>3, <1>4, <1>5, <1>6

\* c is ahead of d in every list that has d.
Dominates(v, kw, c, d) ==
  /\ d \in DOMAIN v => c \in DOMAIN v /\ v[c] < v[d]
  /\ d \in DOMAIN kw => c \in DOMAIN kw /\ kw[c] < kw[d]

InBoth(v, kw, c) == c \in DOMAIN v /\ c \in DOMAIN kw

\* A larger score goes first.
LEMMA LargerFirst ==
  ASSUME NEW v, NEW kw, NEW c, NEW d, NEW p \in Nat, NEW q \in Nat, NEW r \in Nat, NEW s \in Nat,
         Rrf(v, kw, c) = <<p, q>>, Rrf(v, kw, d) = <<r, s>>, p * s > r * q
  PROVE  ~Better(v, kw, d, c)
<1>1. Greater(Rrf(v, kw, d), Rrf(v, kw, c)) <=> r * q > p * s
  BY DEF Greater
<1>2. Equal(Rrf(v, kw, d), Rrf(v, kw, c)) <=> r * q = p * s
  BY DEF Equal
<1>3. r * q \in Nat /\ p * s \in Nat
  OBVIOUS
<1> QED
  BY <1>1, <1>2, <1>3 DEF Better

\* What both searches found goes before what one found.
LEMMA BothGoFirst ==
  ASSUME NEW v, NEW kw, GoodRank(v), GoodRank(kw), NEW c, NEW d \in Fused(v, kw),
         InBoth(v, kw, c), ~InBoth(v, kw, d)
  PROVE  ~Better(v, kw, d, c)
<1>1. v[c] \in 1..Pool /\ kw[c] \in 1..Pool
  BY DEF InBoth, GoodRank
<1>2. PICK n \in 1..Pool : Rrf(v, kw, d) = <<1, RrfK + n>>
  <2>1. CASE d \in DOMAIN v
    BY <2>1, ScoreIs DEF GoodRank, InBoth
  <2>2. CASE d \in DOMAIN kw
    BY <2>2, ScoreIs DEF GoodRank, InBoth
  <2> QED
    BY <2>1, <2>2 DEF Fused
<1>3. PICK x \in Nat, y \in Nat, z \in Nat : x = RrfK + v[c] /\ y = RrfK + kw[c] /\ z = RrfK + n
  BY <1>1, <1>2, PoolIsSmall
<1>4. x > 0 /\ y > 0 /\ x < z + z /\ y < z + z
  BY <1>1, <1>2, <1>3, PoolIsSmall
<1>5. Rrf(v, kw, c) = <<y + x, x * y>> /\ Rrf(v, kw, d) = <<1, z>>
  BY <1>2, <1>3, ScoreIs DEF InBoth
<1>6. (y + x) * z > x * y
  BY ONLY <1>4, TwoBeatOne
<1>7. y + x \in Nat /\ x * y \in Nat /\ 1 * (x * y) = x * y
  OBVIOUS
<1> QED
  BY <1>5, <1>6, <1>7, LargerFirst

\* What is ahead in every list goes first.
LEMMA AheadGoesFirst ==
  ASSUME NEW v, NEW kw, GoodRank(v), GoodRank(kw), NEW c \in Fused(v, kw), NEW d \in Fused(v, kw),
         Dominates(v, kw, c, d)
  PROVE  ~Better(v, kw, d, c)
<1>0. RrfK \in Nat
  BY RetrievalAssumption DEF RetrievalAssumption
<1>1. CASE InBoth(v, kw, c) /\ ~InBoth(v, kw, d)
  BY <1>1, BothGoFirst
<1>2. CASE InBoth(v, kw, d)
  <2>1. /\ v[c] \in 1..Pool /\ kw[c] \in 1..Pool /\ v[d] \in 1..Pool /\ kw[d] \in 1..Pool
        /\ v[c] < v[d] /\ kw[c] < kw[d] /\ InBoth(v, kw, c)
    BY <1>2 DEF InBoth, GoodRank, Dominates
  <2>2. PICK x \in Nat, y \in Nat, s \in Nat, t \in Nat :
          x = RrfK + v[c] /\ y = RrfK + kw[c] /\ s = RrfK + v[d] /\ t = RrfK + kw[d]
    BY <2>1, PoolIsSmall
  <2>3. x > 0 /\ y > 0 /\ x < s /\ y < t
    BY <1>0, <2>1, <2>2
  <2>4. Rrf(v, kw, c) = <<y + x, x * y>> /\ Rrf(v, kw, d) = <<t + s, s * t>>
    BY <1>2, <2>1, <2>2, ScoreIs DEF InBoth
  <2>5. (y + x) * (s * t) > (t + s) * (x * y)
    BY ONLY <2>3, TwoBeatTwo
  <2>6. y + x \in Nat /\ x * y \in Nat /\ t + s \in Nat /\ s * t \in Nat
    OBVIOUS
  <2> QED
    BY <2>4, <2>5, <2>6, LargerFirst
<1>3. CASE ~InBoth(v, kw, c) /\ ~InBoth(v, kw, d)
  <2>1. PICK n \in 1..Pool, m \in 1..Pool :
          n < m /\ Rrf(v, kw, c) = <<1, RrfK + n>> /\ Rrf(v, kw, d) = <<1, RrfK + m>>
    <3>1. CASE d \in DOMAIN v
      <4>1. c \in DOMAIN v /\ c \notin DOMAIN kw /\ d \notin DOMAIN kw /\ v[c] < v[d]
        BY <1>3, <3>1 DEF InBoth, Dominates
      <4> QED
        BY <3>1, <4>1, ScoreIs DEF GoodRank
    <3>2. CASE d \in DOMAIN kw
      <4>1. c \in DOMAIN kw /\ c \notin DOMAIN v /\ d \notin DOMAIN v /\ kw[c] < kw[d]
        BY <1>3, <3>2 DEF InBoth, Dominates
      <4> QED
        BY <3>2, <4>1, ScoreIs DEF GoodRank
    <3> QED
      BY <3>1, <3>2 DEF Fused
  <2>2. PICK x \in Nat, z \in Nat : x = RrfK + n /\ z = RrfK + m
    BY <2>1, PoolIsSmall
  <2>3. 1 * z > 1 * x
    BY <1>0, <2>1, <2>2
  <2> QED
    BY <2>1, <2>2, <2>3, LargerFirst
<1> QED
  BY <1>1, <1>2, <1>3

\* Nothing goes before itself.
LEMMA NotBeforeItself ==
  ASSUME NEW v, NEW kw, GoodRank(v), GoodRank(kw), NEW c \in Fused(v, kw)
  PROVE  ~Better(v, kw, c, c)
<1>1. PICK p \in Nat, q \in Nat : Rrf(v, kw, c) = <<p, q>>
  <2>1. CASE InBoth(v, kw, c)
    <3>1. RrfK + v[c] \in Nat /\ RrfK + kw[c] \in Nat
      BY <2>1, ScoreIs DEF InBoth
    <3>2. PICK x \in Nat, y \in Nat : x = RrfK + v[c] /\ y = RrfK + kw[c]
      BY <3>1
    <3>3. Rrf(v, kw, c) = <<y + x, x * y>>
      BY <2>1, <3>2, ScoreIs DEF InBoth
    <3>4. y + x \in Nat /\ x * y \in Nat
      OBVIOUS
    <3> QED
      BY <3>3, <3>4
  <2>2. CASE ~InBoth(v, kw, c)
    BY <2>2, ScoreIs DEF Fused, InBoth
  <2> QED
    BY <2>1, <2>2
<1>2. ~Greater(Rrf(v, kw, c), Rrf(v, kw, c))
  <2>1. p * q \in Nat
    OBVIOUS
  <2>2. Greater(Rrf(v, kw, c), Rrf(v, kw, c)) <=> p * q > p * q
    BY <1>1 DEF Greater
  <2> QED
    BY <2>1, <2>2
<1>3. c \in Nat
  BY RetrievalAssumption DEF Fused, GoodRank, ChunkIds, RetrievalAssumption
<1> QED
  BY <1>2, <1>3 DEF Better

-----------------------------------------------------------------------------
\* What the outer LIMIT keeps of an order: its first places.
LEMMA BestIs ==
  ASSUME NEW F, NEW n \in Nat, NEW rows \in [1..n -> F]
  PROVE  /\ Best(rows) \in Seq(F)
         /\ Len(Best(rows)) = IF n < K THEN n ELSE K
         /\ \A i \in 1..Len(Best(rows)) : Best(rows)[i] = rows[i]
<1>0. K \in Nat \ {0}
  BY RetrievalAssumption DEF RetrievalAssumption
<1>1. rows \in Seq(F) /\ Len(rows) = n
  OBVIOUS
<1> DEFINE m == IF n < K THEN n ELSE K
<1>2. m \in Nat /\ m <= n
  BY <1>0
<1>3. Min({K, n}) = m
  <2>1. m \in {K, n} /\ \A y \in {K, n} : m <= y
    BY <1>0
  <2>2. \A x \in {K, n} : (\A y \in {K, n} : x <= y) => x = m
    BY <1>0
  <2> HIDE DEF m
  <2> QED
    BY <2>1, <2>2 DEF Min
<1>4. Best(rows) = SubSeq(rows, 1, m)
  BY <1>1, <1>3 DEF Best
<1> HIDE DEF m
<1>5. \A i \in 1..m : rows[i] \in F
  BY <1>2
<1>6. /\ SubSeq(rows, 1, m) \in Seq(F)
      /\ Len(SubSeq(rows, 1, m)) = IF 1 <= m THEN m - 1 + 1 ELSE 0
      /\ \A i \in 1..(m - 1 + 1) : SubSeq(rows, 1, m)[i] = rows[1 + i - 1]
  <2>1. 1 \in Int /\ m \in Int
    BY <1>2
  <2> QED
    BY ONLY <1>5, <2>1, SubSeqProperties
<1>7. Len(Best(rows)) = m
  BY <1>2, <1>4, <1>6
<1>8. \A i \in 1..m : Best(rows)[i] = rows[i]
  <2> SUFFICES ASSUME NEW i \in 1..m PROVE Best(rows)[i] = rows[i]
    OBVIOUS
  <2>1. i \in 1..(m - 1 + 1) /\ 1 + i - 1 = i
    BY <1>2
  <2> QED
    BY <1>4, <1>6, <2>1
<1> QED
  BY <1>4, <1>6, <1>7, <1>8 DEF m

\* A search that any order of its results by score makes fair.
LEMMA FusionIs ==
  ASSUME NEW v, NEW kw, GoodRank(v), GoodRank(kw), NEW rows \in InOrderOf(v, kw),
         vectorRank' = v, keywordRank' = kw, found' = Best(rows)
  PROVE  /\ found' \in Seq(ChunkIds) /\ Len(found') <= K /\ IsInjective(found')
         /\ BothListsWin' /\ NoneBetterLeftOut'
<1> DEFINE F == Fused(v, kw)
           n == Cardinality(F)
<1>0. NumChunks \in Nat /\ K \in Nat \ {0}
  BY RetrievalAssumption DEF RetrievalAssumption
<1>1. F \subseteq ChunkIds
  BY DEF Fused, GoodRank
<1>2. IsFiniteSet(F) /\ n \in Nat
  <2>1. IsFiniteSet(ChunkIds)
    BY <1>0, FS_Interval DEF ChunkIds
  <2>2. IsFiniteSet(F)
    BY <1>1, <2>1, FS_Subset
  <2> QED
    BY <2>2, FS_CardinalityType
<1>3. /\ rows \in [1..n -> F]
      /\ \A i, j \in 1..n : i < j => Better(v, kw, rows[i], rows[j])
  BY DEF InOrderOf
<1>4. \A i, j \in 1..n : rows[i] = rows[j] => i = j
  <2> SUFFICES ASSUME NEW i \in 1..n, NEW j \in 1..n, rows[i] = rows[j], i # j PROVE FALSE
    OBVIOUS
  <2>1. rows[i] \in F
    BY <1>3
  <2>2. ~Better(v, kw, rows[i], rows[i])
    BY <2>1, NotBeforeItself
  <2>3. i < j \/ j < i
    BY <1>2
  <2> QED
    BY <1>3, <2>2, <2>3
<1> HIDE DEF n
<1>5. \A c \in F : \E i \in 1..n : rows[i] = c
  <2>1. rows \in Injection(1..n, F)
    BY <1>3, <1>4 DEF Injection, IsInjective
  <2>2. Cardinality(1..n) = Cardinality(F)
    BY <1>2, FS_Interval DEF n
  <2>3. rows \in Surjection(1..n, F)
    BY <1>2, <2>1, <2>2, FS_Injection
  <2> QED
    BY <2>3 DEF Surjection
<1> HIDE DEF F
<1> DEFINE m == IF n < K THEN n ELSE K
<1>6. /\ found' \in Seq(F) /\ Len(found') = m
      /\ \A i \in 1..m : found'[i] = rows[i]
  BY <1>2, <1>3, BestIs
<1>7. m \in Nat /\ m <= n /\ m <= K /\ DOMAIN found' = 1..m
  BY <1>0, <1>2, <1>6
<1> HIDE DEF m
<1>8. \A i, j \in 1..m : found'[i] = found'[j] => i = j
  BY <1>2, <1>4, <1>6, <1>7
<1>9. found' \in Seq(ChunkIds)
  <2>1. \A i \in 1..Len(found') : found'[i] \in ChunkIds
    BY <1>1, <1>6
  <2>2. found' = [i \in 1..m |-> found'[i]]
    BY <1>6, <1>7
  <2>3. found' \in [1..m -> ChunkIds]
    BY <1>6, <2>1, <2>2
  <2> QED
    BY <1>7, <2>3
<1>10. BothListsWin'
  <2> SUFFICES ASSUME NEW i \in 1..m, NEW j \in 1..m,
                      InBoth(v, kw, found'[i]), ~InBoth(v, kw, found'[j])
               PROVE  i < j
    BY <1>7 DEF BothListsWin, InBoth
  <2>1. i \in 1..n /\ j \in 1..n /\ found'[i] = rows[i] /\ found'[j] = rows[j]
    BY <1>2, <1>6, <1>7
  <2>2. rows[i] \in F /\ rows[j] \in F
    BY <1>3, <2>1
  <2>3. ~Better(v, kw, rows[j], rows[i])
    BY <2>1, <2>2, BothGoFirst DEF F
  <2>4. i # j
    OBVIOUS
  <2>5. ~(j < i)
    BY <1>3, <2>1, <2>3
  <2> QED
    BY <2>4, <2>5, <1>7
<1>11. NoneBetterLeftOut'
  <2>1. Returned' = {found'[i] : i \in 1..m} /\ Ranked' = F
    BY <1>7 DEF Returned, Ranked, F, Fused
  <2>2. Cardinality(Returned') = m
    <3> DEFINE R == {found'[i] : i \in 1..m}
               f == [i \in 1..m |-> found'[i]]
    <3>1. f \in Bijection(1..m, R)
      <4>1. f \in [1..m -> R] /\ \A i \in 1..m : f[i] = found'[i]
        OBVIOUS
      <4>2. \A r \in R : \E i \in 1..m : f[i] = r
        BY <4>1
      <4>3. \A i, j \in 1..m : f[i] = f[j] => i = j
        BY <1>8, <4>1
      <4> HIDE DEF f, R
      <4> QED
        BY <4>1, <4>2, <4>3 DEF Bijection, Injection, Surjection, IsInjective
    <3>2. IsFiniteSet(1..m) /\ Cardinality(1..m) = m
      BY <1>7, FS_Interval
    <3> HIDE DEF f, R
    <3>3. ExistsBijection(1..m, R)
      BY <3>1 DEF ExistsBijection
    <3>4. Cardinality(R) = m
      BY <3>2, <3>3, FS_Bijection
    <3> QED
      BY <2>1, <3>4 DEF R
  <2>3. Cardinality(Returned') = IF Cardinality(Ranked') < K THEN Cardinality(Ranked') ELSE K
    BY <2>1, <2>2 DEF m, n
  <2>4. ASSUME NEW c \in F, c \notin Returned', NEW d \in Returned', Dominates(v, kw, c, d)
        PROVE  FALSE
    <3>1. PICK q \in 1..m : d = found'[q]
      BY <2>1, <2>4
    <3>2. PICK p \in 1..n : rows[p] = c
      BY <1>5, <2>4
    <3>3. d = rows[q] /\ q \in 1..n
      BY <1>2, <1>6, <1>7, <3>1
    <3>4. p \notin 1..m
      BY <1>6, <2>1, <2>4, <3>2
    <3>5. q < p
      BY <1>2, <1>7, <3>2, <3>4
    <3>6. Better(v, kw, d, c)
      BY <1>3, <3>2, <3>3, <3>5
    <3>7. d \in Fused(v, kw) /\ c \in Fused(v, kw)
      BY <1>3, <3>3, <2>4 DEF F
    <3> QED
      BY <2>4, <3>6, <3>7, AheadGoesFirst
  <2>5. \A c \in Ranked' \ Returned', d \in Returned' :
          ~(/\ d \in DOMAIN v => c \in DOMAIN v /\ v[c] < v[d]
            /\ d \in DOMAIN kw => c \in DOMAIN kw /\ kw[c] < kw[d])
    BY <2>1, <2>4 DEF Dominates
  <2> QED
    BY <2>3, <2>5 DEF NoneBetterLeftOut
<1>12. IsInjective(found')
  BY <1>7, <1>8 DEF IsInjective
<1> QED
  BY <1>6, <1>7, <1>9, <1>10, <1>11, <1>12

LEMMA FairStart == RetrievalInit => FusionIsFair
<1> SUFFICES ASSUME RetrievalInit PROVE FusionIsFair
  OBVIOUS
<1>0. K \in Nat \ {0} /\ NumChunks \in Nat
  BY RetrievalAssumption DEF RetrievalAssumption
<1>1. /\ vectorRank = <<>> /\ keywordRank = <<>> /\ found = <<>>
      /\ DOMAIN vectorRank = {} /\ DOMAIN keywordRank = {} /\ DOMAIN found = {}
  BY DEF RetrievalInit
<1>2. Cardinality({}) = 0 /\ 1..0 = {}
  BY FS_EmptySet
<1>3. RetrievalTypeOK
  <2>1. {vectorRank[c] : c \in {}} = {} /\ {keywordRank[c] : c \in {}} = {}
    OBVIOUS
  <2>2. found \in Seq(ChunkIds) /\ Len(found) <= K /\ IsInjective(found)
    BY <1>0, <1>1 DEF IsInjective
  <2> QED
    BY <1>1, <1>2, <2>1, <2>2 DEF RetrievalTypeOK, RetrievalInit
<1>4. BothListsWin
  BY <1>1 DEF BothListsWin
<1>5. NoneBetterLeftOut
  <2>1. Returned = {} /\ Ranked = {}
    BY <1>1 DEF Returned, Ranked
  <2> QED
    BY <1>0, <1>2, <2>1 DEF NoneBetterLeftOut
<1> QED
  BY <1>3, <1>4, <1>5 DEF FusionIsFair

LEMMA FairStep == FusionIsFair /\ [RetrievalNext]_retrievalVars => FusionIsFair'
<1> SUFFICES ASSUME FusionIsFair, [RetrievalNext]_retrievalVars PROVE FusionIsFair'
  OBVIOUS
<1>1. CASE Retrieve
  <2>1. PICK v \in RankedBy(Embedded, Closer), kw \in RankedBy(Matching, Likelier) :
          /\ vectorRank' = v /\ keywordRank' = kw
          /\ \E rows \in InOrderOf(v, kw) : found' = Best(rows)
    BY <1>1 DEF Retrieve
  <2>2. PICK rows \in InOrderOf(v, kw) : found' = Best(rows)
    BY <2>1
  <2>3. distance' = distance /\ score' = score
    BY <1>1 DEF Retrieve
  <2>4. Embedded \in SUBSET ChunkIds /\ Matching \in SUBSET ChunkIds
    BY DEF Embedded, Matching
  <2>5. GoodRank(v)
    <3>1. PICK row \in [Embedded -> 1..Cardinality(Embedded)] :
            /\ v = [c \in {d \in Embedded : row[d] <= Pool} |-> row[c]]
            /\ \A a, b \in Embedded : a # b => row[a] # row[b]
      BY <2>1 DEF RankedBy
    <3> QED
      BY <2>4, <3>1, RankedAre
  <2>6. GoodRank(kw)
    <3>1. PICK row \in [Matching -> 1..Cardinality(Matching)] :
            /\ kw = [c \in {d \in Matching : row[d] <= Pool} |-> row[c]]
            /\ \A a, b \in Matching : a # b => row[a] # row[b]
      BY <2>1 DEF RankedBy
    <3> QED
      BY <2>4, <3>1, RankedAre
  <2>7. /\ found' \in Seq(ChunkIds) /\ Len(found') <= K /\ IsInjective(found')
        /\ BothListsWin' /\ NoneBetterLeftOut'
    BY <2>1, <2>2, <2>5, <2>6, FusionIs
  <2>8. RetrievalTypeOK'
    BY <2>1, <2>3, <2>5, <2>6, <2>7 DEF FusionIsFair, RetrievalTypeOK, GoodRank
  <2> QED
    BY <2>7, <2>8 DEF FusionIsFair
<1>2. CASE UNCHANGED retrievalVars
  BY <1>2 DEF retrievalVars, FusionIsFair, RetrievalTypeOK, BothListsWin, NoneBetterLeftOut,
              Returned, Ranked
<1> QED
  BY <1>1, <1>2 DEF RetrievalNext

\* The fusion of retrieval.service.ts is fair to both searches, for any number of
\* chunks, any pool and any K: what both found comes before what one found, the
\* results are as many as asked for, and none is left out for one that is behind it
\* in every list.  It rests on the pool being less than two larger than RRF_K.
THEOREM FusionIsAlwaysFair == RetrievalSpec => []FusionIsFair
BY FairStart, FairStep, PTL DEF RetrievalSpec

-----------------------------------------------------------------------------
(* The usage report: the parameters and the days.                           *)

\* The least of two.
LEMMA LesserIs ==
  ASSUME NEW a \in Int, NEW b \in Int
  PROVE  Min({a, b}) = IF a <= b THEN a ELSE b
<1> DEFINE m == IF a <= b THEN a ELSE b
<1>1. m \in {a, b} /\ \A y \in {a, b} : m <= y
  OBVIOUS
<1>2. \A x \in {a, b} : (\A y \in {a, b} : x <= y) => x = m
  OBVIOUS
<1> QED
  BY <1>1, <1>2 DEF Min

\* The parameters are numbers.
LEMMA UsageIs ==
  /\ PeriodStart \in Nat /\ PeriodEnd \in Nat /\ PeriodLimit \in Nat /\ DefaultRange \in Nat
  /\ MaxRange \in Nat /\ LastUnit \in Nat /\ MaxEvents \in Nat
  /\ DayLength \in Nat /\ DayLength > 0 /\ Limited \in BOOLEAN
BY UsageAssumption

\* A larger number of days is at least as long.
LEMMA DaysAreLong ==
  ASSUME NEW p \in Int, NEW q \in Int, NEW n \in Nat, p <= q
  PROVE  p * n <= q * n
<1>1. q - p \in Nat
  OBVIOUS
<1>2. (q - p) * n \in Nat /\ (q - p) * n = q * n - p * n
  BY <1>1
<1> QED
  BY <1>2

\* The units of a day are next to each other.
LEMMA DaysFollow ==
  ASSUME NEW u \in Nat, NEW v \in Nat, u <= v
  PROVE  Day(u) \in Nat /\ Day(v) \in Nat /\ Day(u) <= Day(v)
<1> DEFINE p == u \div DayLength
           q == v \div DayLength
<1>1. DayLength \in Nat /\ DayLength > 0
  BY UsageIs
<1>2. p \in Nat /\ p * DayLength <= u /\ u < p * DayLength + DayLength
  BY <1>1
<1>3. q \in Nat /\ q * DayLength <= v /\ v < q * DayLength + DayLength
  BY <1>1
<1> HIDE DEF p, q
<1>4. SUFFICES ASSUME q < p PROVE FALSE
  <2>1. Day(u) = p /\ Day(v) = q
    BY DEF Day, p, q
  <2> QED
    BY <1>2, <1>3, <2>1
<1>5. (q + 1) * DayLength <= p * DayLength
  BY <1>1, <1>2, <1>3, <1>4, DaysAreLong
<1>6. (q + 1) * DayLength = q * DayLength + DayLength /\ p * DayLength \in Int /\ q * DayLength \in Int
  BY <1>1, <1>2, <1>3
<1> QED
  BY <1>1, <1>2, <1>3, <1>5, <1>6

-----------------------------------------------------------------------------
(* What is on record.                                                       *)

\* The types, and the shape of a report.
UsageTypes ==
  /\ time \in Dates /\ {quotaUsed, running, owed, lost} \subseteq 0..PeriodLimit
  /\ events \in Seq(Event) /\ Len(events) <= MaxEvents
  /\ stirred \in BOOLEAN
  /\ report \in [step : {"none", "quota", "totals", "done", "rejected"},
                  input : (Dates \cup {NoDate}) \X (Dates \cup {NoDate}),
                  used : Nat, running : Nat, from : Nat, to : Nat,
                  billable : Nat, answers : Nat, chunks : Nat, daily : {report.daily}]

\* Nothing is recorded ahead of its time.
NothingEarly == \A i \in DOMAIN events : events[i].at <= time

\* The answers that are charged to the period.
Charged ==
  {i \in DOMAIN events : /\ events[i].metric = "answer" /\ events[i].billable
                         /\ PeriodStart <= events[i].at /\ events[i].at < PeriodEnd}

\* Each unit that is used is charged, reserved, owed or lost.
UnitsBalance ==
  IF Limited THEN quotaUsed = Cardinality(Charged) + running + owed + lost
  ELSE quotaUsed = 0 /\ running = 0 /\ owed = 0 /\ lost = 0

\* As long as nothing is stirred, what was read is what is.
StillTrue ==
  /\ report.step \in {"quota", "totals", "done"} /\ ~stirred =>
       report.used = quotaUsed /\ report.running = running + owed + lost
  /\ report.step \in {"totals", "done"} =>
       /\ report.from < report.to /\ report.to - report.from <= MaxRange
       /\ Limited /\ report.input = <<NoDate, NoDate>> =>
            report.from = PeriodStart /\ report.to = PeriodEnd
  /\ report.step \in {"totals", "done"} /\ ~stirred =>
       /\ report.billable = Bills(Within(report.from, report.to, "answer"))
       /\ report.answers = Cardinality(Within(report.from, report.to, "answer"))
       /\ report.chunks = Cardinality(Within(report.from, report.to, "chunk_embedded"))

UsageInv == UsageTypes /\ NothingEarly /\ UnitsBalance /\ StillTrue /\ DailyAddsUp

\* The events are finitely many.
LEMMA EventsAre ==
  ASSUME UsageTypes
  PROVE  /\ DOMAIN events = 1..Len(events) /\ Len(events) \in 0..MaxEvents
         /\ IsFiniteSet(DOMAIN events) /\ Cardinality(DOMAIN events) <= MaxEvents
         /\ \A i \in DOMAIN events : events[i] \in Event /\ events[i].at \in 0..LastUnit
<1>1. DOMAIN events = 1..Len(events) /\ Len(events) \in Nat /\ Len(events) <= MaxEvents
  BY DEF UsageTypes
<1>2. IsFiniteSet(1..Len(events)) /\ Cardinality(1..Len(events)) = Len(events)
  <2>1. 1 \in Int /\ Len(events) \in Int
    BY <1>1
  <2>2. /\ IsFiniteSet(1..Len(events))
        /\ Cardinality(1..Len(events)) = IF 1 > Len(events) THEN 0 ELSE Len(events) - 1 + 1
    BY <2>1, FS_Interval
  <2> QED
    BY ONLY <1>1, <2>2
<1>3. ASSUME NEW i \in DOMAIN events PROVE events[i] \in Event /\ events[i].at \in 0..LastUnit
  <2>1. events[i] \in Event
    BY <1>3 DEF UsageTypes
  <2> QED
    BY <2>1 DEF Event, Dates
<1> QED
  BY <1>1, <1>2, <1>3, UsageIs

\* Some of them are no more than all.
LEMMA SomeEvents ==
  ASSUME UsageTypes, NEW S \in SUBSET DOMAIN events
  PROVE  IsFiniteSet(S) /\ Cardinality(S) \in 0..MaxEvents
<1>1. IsFiniteSet(S) /\ Cardinality(S) <= Cardinality(DOMAIN events)
  BY EventsAre, FS_Subset
<1> QED
  BY <1>1, EventsAre, FS_CardinalityType, UsageIs

\* Counted day by day, events are all counted, if their days are among the days.
LEMMA SumIs ==
  ASSUME UsageTypes, NEW S \in SUBSET DOMAIN events, NEW figures,
         \A i \in S : Day(events[i].at) \in DOMAIN figures,
         \A d \in DOMAIN figures : figures[d] = Cardinality({i \in S : Day(events[i].at) = d})
  PROVE  AddsUp(figures, Cardinality(S))
<1> DEFINE on(d) == {i \in S : Day(events[i].at) = d}
           before(d) == {i \in S : Day(events[i].at) < d}
           last == Day(LastUnit) + 1
           count == [d \in 0..last |-> Cardinality(before(d))]
<1>1. Day(LastUnit) \in Nat /\ last \in Nat
  BY UsageIs, DaysFollow
<1>2. ASSUME NEW i \in S PROVE Day(events[i].at) \in Nat /\ Day(events[i].at) < last
  <2>1. events[i].at \in Nat /\ LastUnit \in Nat /\ events[i].at <= LastUnit
    BY EventsAre, UsageIs
  <2>2. Day(events[i].at) \in Nat /\ Day(events[i].at) <= Day(LastUnit)
    BY <2>1, DaysFollow
  <2> QED
    BY <1>1, <2>2
<1>3. ASSUME NEW d \in Nat
      PROVE  /\ IsFiniteSet(before(d)) /\ Cardinality(before(d)) \in 0..MaxEvents
             /\ IsFiniteSet(on(d)) /\ Cardinality(on(d)) \in Nat
  <2>1. before(d) \in SUBSET DOMAIN events /\ on(d) \in SUBSET DOMAIN events
    OBVIOUS
  <2> QED
    BY <2>1, SomeEvents, UsageIs
<1>4. count \in [0..last -> 0..MaxEvents]
  <2>1. ASSUME NEW d \in 0..last PROVE Cardinality(before(d)) \in 0..MaxEvents
    <3>1. d \in Nat
      BY <1>1, <2>1
    <3> QED
      BY <3>1, <1>3
  <2> HIDE DEF before
  <2> QED
    BY <2>1
<1>5. count[0] = 0
  <2>1. before(0) = {}
    BY <1>2
  <2>2. Cardinality(before(0)) = 0
    BY <2>1, FS_EmptySet
  <2> QED
    BY <1>1, <2>2
<1>6. count[last] = Cardinality(S)
  <2>1. before(last) = S
    BY <1>2
  <2> QED
    BY <1>1, <2>1
<1>7. ASSUME NEW d \in 0..Day(LastUnit)
      PROVE  count[d + 1] = count[d] + (IF d \in DOMAIN figures THEN figures[d] ELSE 0)
  <2>1. d \in Nat /\ d \in 0..last /\ d + 1 \in 0..last
    BY <1>1
  <2>2. before(d + 1) = before(d) \cup on(d) /\ before(d) \cap on(d) = {}
    BY <2>1, <1>2
  <2>3. Cardinality(before(d + 1)) = Cardinality(before(d)) + Cardinality(on(d)) - Cardinality(before(d) \cap on(d))
    <3> HIDE DEF before, on
    <3> QED
      BY <2>1, <2>2, <1>3, FS_Union
  <2>4. Cardinality(before(d) \cap on(d)) = 0
    BY <2>2, FS_EmptySet
  <2>5. Cardinality(on(d)) = IF d \in DOMAIN figures THEN figures[d] ELSE 0
    <3>1. CASE d \in DOMAIN figures
      BY <3>1
    <3>2. CASE d \notin DOMAIN figures
      <4>1. on(d) = {}
        BY <3>2
      <4> QED
        BY <3>2, <4>1, FS_EmptySet
    <3> QED
      BY <3>1, <3>2
  <2>6. count[d + 1] = Cardinality(before(d + 1)) /\ count[d] = Cardinality(before(d))
    BY <2>1
  <2> HIDE DEF before, on, count
  <2> QED
    BY <2>1, <2>3, <2>4, <2>5, <2>6, <1>3
<1> HIDE DEF count, before, on
<1>8. \E sum \in [0..last -> 0..MaxEvents] :
        /\ sum[0] = 0 /\ sum[last] = Cardinality(S)
        /\ \A d \in 0..Day(LastUnit) :
             sum[d + 1] = sum[d] + (IF d \in DOMAIN figures THEN figures[d] ELSE 0)
  BY <1>4, <1>5, <1>6, <1>7
<1> QED
  BY <1>8 DEF AddsUp

\* What an event adds.
LEMMA RecordedIs ==
  ASSUME UsageTypes, NothingEarly, Len(events) < MaxEvents, time' = time,
         NEW metric \in {"answer", "chunk_embedded"}, NEW billable \in BOOLEAN,
         Recorded(metric, billable)
  PROVE  /\ events' \in Seq(Event) /\ Len(events') <= MaxEvents
         /\ NothingEarly'
         /\ Cardinality(Charged') =
              Cardinality(Charged) + (IF metric = "answer" /\ billable /\ InPeriod(time) THEN 1 ELSE 0)
<1> DEFINE e == [at |-> time, metric |-> metric, billable |-> billable]
           n == Len(events) + 1
           counts == metric = "answer" /\ billable /\ InPeriod(time)
<1>1. events \in Seq(Event) /\ e \in Event /\ events' = Append(events, e) /\ Len(events) \in Nat
  BY DEF UsageTypes, Event, Recorded
<1>2. events' \in Seq(Event) /\ Len(events') = n /\ DOMAIN events' = 1..n
  BY <1>1
<1>3. DOMAIN events = 1..Len(events) /\ n \notin DOMAIN events /\ DOMAIN events' = DOMAIN events \cup {n}
  BY <1>1, <1>2
<1>4. events'[n] = e /\ \A i \in DOMAIN events : events'[i] = events[i]
  BY <1>1
<1>5. e.at = time /\ e.metric = metric /\ e.billable = billable
  OBVIOUS
<1>6. NothingEarly'
  <2> SUFFICES ASSUME NEW i \in DOMAIN events' PROVE events'[i].at <= time
    BY DEF NothingEarly
  <2>1. time <= time
    BY DEF UsageTypes, Dates
  <2> QED
    BY <1>3, <1>4, <1>5, <2>1 DEF NothingEarly
<1>7. Charged' = IF counts THEN Charged \cup {n} ELSE Charged
  <2> HIDE DEF e, n
  <2>1. ASSUME NEW i \in DOMAIN events PROVE i \in DOMAIN events' /\ (i \in Charged' <=> i \in Charged)
    BY <1>3, <1>4, <2>1 DEF Charged
  <2>2. n \in DOMAIN events' /\ (n \in Charged' <=> counts)
    BY <1>3, <1>4, <1>5 DEF Charged, InPeriod
  <2>3. Charged \subseteq DOMAIN events /\ Charged' \subseteq DOMAIN events'
    BY DEF Charged
  <2> HIDE DEF counts
  <2>4. ASSUME NEW i PROVE i \in Charged' <=> i \in (IF counts THEN Charged \cup {n} ELSE Charged)
    BY <1>3, <2>1, <2>2, <2>3
  <2> QED
    BY <2>4
<1>8. IsFiniteSet(Charged) /\ Cardinality(Charged) \in Nat /\ n \notin Charged
  <2>1. Charged \in SUBSET DOMAIN events
    BY DEF Charged
  <2> QED
    BY <1>3, <2>1, SomeEvents, UsageIs
<1>9. Cardinality(Charged') = Cardinality(Charged) + (IF counts THEN 1 ELSE 0)
  <2>1. Cardinality(Charged \cup {n}) = Cardinality(Charged) + 1
    BY <1>8, FS_AddElement
  <2> HIDE DEF counts, n
  <2> QED
    BY <1>7, <1>8, <2>1
<1>10. Len(events') <= MaxEvents
  BY <1>1, <1>2, UsageIs
<1> QED
  BY <1>2, <1>6, <1>9, <1>10

\* What is charged are so many units.
LEMMA ChargedAre == ASSUME UsageTypes PROVE Cardinality(Charged) \in Nat
<1>1. Charged \in SUBSET DOMAIN events
  BY DEF Charged
<1> QED
  BY <1>1, SomeEvents, UsageIs

\* A report's range begins and ends with numbers.
LEMMA RangeIs ==
  ASSUME UsageTypes, NEW input \in (Dates \cup {NoDate}) \X (Dates \cup {NoDate})
  PROVE  /\ ResolveRange(input)[1] \in Nat /\ ResolveRange(input)[2] \in Nat
         /\ input = <<NoDate, NoDate>> /\ Limited =>
              ResolveRange(input)[1] = PeriodStart /\ ResolveRange(input)[2] = PeriodEnd
<1>1. time \in Nat /\ Dates \subseteq Nat
  BY DEF UsageTypes, Dates
<1>2. input[1] \in Dates \cup {NoDate} /\ input[2] \in Dates \cup {NoDate}
  OBVIOUS
<1>3. CASE input = <<NoDate, NoDate>> /\ Limited
  BY <1>3, UsageIs DEF ResolveRange
<1>4. CASE ~(input = <<NoDate, NoDate>> /\ Limited)
  <2> DEFINE to == IF input[2] # NoDate THEN input[2] ELSE time
  <2>1. to \in Nat
    BY <1>1, <1>2
  <2>2. Back(to) \in Nat
    <3> HIDE DEF to
    <3> QED
      BY <2>1, UsageIs DEF Back
  <2>3. ResolveRange(input) = <<IF input[1] # NoDate THEN input[1] ELSE Back(to), to>>
    BY <1>4 DEF ResolveRange
  <2> HIDE DEF to
  <2>4. (IF input[1] # NoDate THEN input[1] ELSE Back(to)) \in Nat
    BY <1>1, <1>2, <2>2
  <2> QED
    BY <1>4, <2>1, <2>3, <2>4
<1> QED
  BY <1>3, <1>4

-----------------------------------------------------------------------------
(* The steps.                                                               *)

LEMMA UsageStart == UsageInit => UsageInv
<1> SUFFICES ASSUME UsageInit PROVE UsageInv
  OBVIOUS
<1>1. /\ time = 0 /\ quotaUsed = 0 /\ events = <<>> /\ running = 0 /\ owed = 0 /\ lost = 0
      /\ report = NoReport /\ stirred = FALSE
  BY DEF UsageInit
<1>2. report.step = "none" /\ report.daily = <<>>
  BY <1>1 DEF NoReport
<1>3. UsageTypes
  <2>1. <<>> \in Seq(Event) /\ Len(<<>>) = 0
    OBVIOUS
  <2>2. 0 \in Dates /\ NoDate \in Dates \cup {NoDate}
    BY UsageIs DEF Dates
  <2>3. {quotaUsed, running, owed, lost} \subseteq 0..PeriodLimit
    BY <1>1, UsageIs
  <2>4. report \in [step : {"none", "quota", "totals", "done", "rejected"},
                    input : (Dates \cup {NoDate}) \X (Dates \cup {NoDate}),
                    used : Nat, running : Nat, from : Nat, to : Nat,
                    billable : Nat, answers : Nat, chunks : Nat, daily : {report.daily}]
    BY <1>1, <1>2, <2>2 DEF NoReport
  <2>5. events \in Seq(Event) /\ Len(events) <= MaxEvents /\ stirred \in BOOLEAN /\ time \in Dates
    <3>1. events \in Seq(Event)
      BY <1>1, <2>1
    <3>2. Len(events) <= MaxEvents
      BY <1>1, <2>1, UsageIs
    <3>3. stirred \in BOOLEAN /\ time \in Dates
      BY <1>1, <2>2
    <3> QED
      BY <3>1, <3>2, <3>3
  <2> QED
    BY <2>3, <2>4, <2>5 DEF UsageTypes
<1>4. Charged = {} /\ Cardinality(Charged) = 0
  BY <1>1, FS_EmptySet DEF Charged
<1>5. NothingEarly
  BY <1>1 DEF NothingEarly
<1>6. UnitsBalance
  BY <1>1, <1>4 DEF UnitsBalance
<1>7. StillTrue
  BY <1>2 DEF StillTrue
<1>8. DailyAddsUp
  BY <1>2 DEF DailyAddsUp
<1> QED
  BY <1>3, <1>5, <1>6, <1>7, <1>8 DEF UsageInv

\* A step that leaves the report and the events alone, and stirs, or changes nothing
\* that a report reads.
LEMMA OthersKeep ==
  ASSUME UsageInv, report' = report,
         stirred' \/ UNCHANGED <<events, quotaUsed, running, owed, lost, stirred>>
  PROVE  StillTrue' /\ DailyAddsUp'
<1> USE DEF UsageInv
<1>1. CASE stirred'
  BY <1>1 DEF StillTrue, DailyAddsUp
<1>2. CASE UNCHANGED <<events, quotaUsed, running, owed, lost, stirred>>
  <2>1. \A from, to, metric : Within(from, to, metric)' = Within(from, to, metric)
    BY <1>2 DEF Within
  <2>2. StillTrue'
    BY <1>2, <2>1 DEF StillTrue, Bills, Within
  <2>3. DailyAddsUp'
    BY <1>2 DEF DailyAddsUp
  <2> QED
    BY <2>2, <2>3
<1> QED
  BY <1>1, <1>2

\* The units are moved from one place to another.
LEMMA UnitsMove ==
  ASSUME UsageInv,
         \/ TimePasses \/ ReserveUnit \/ AnswerFails \/ RefundUnit \/ HandOver
         \/ RecordChunk \/ LoseUnit
         \/ \E billable \in BOOLEAN : RecordAnswer(billable)
  PROVE  UsageTypes' /\ NothingEarly' /\ UnitsBalance'
<1> USE DEF UsageInv
<1>0. Cardinality(Charged) \in Nat
  BY ChargedAre
<1> DEFINE c == Cardinality(Charged)
<1>a. /\ time \in Dates /\ events \in Seq(Event) /\ Len(events) <= MaxEvents /\ stirred \in BOOLEAN
      /\ quotaUsed \in 0..PeriodLimit /\ running \in 0..PeriodLimit
      /\ owed \in 0..PeriodLimit /\ lost \in 0..PeriodLimit
  BY DEF UsageTypes
<1>b. ASSUME report' = report, time' \in Dates, events' \in Seq(Event), Len(events') <= MaxEvents,
             stirred' \in BOOLEAN, quotaUsed' \in 0..PeriodLimit, running' \in 0..PeriodLimit,
             owed' \in 0..PeriodLimit, lost' \in 0..PeriodLimit
      PROVE  UsageTypes'
  BY <1>b DEF UsageTypes
<1>c. ASSUME events' = events PROVE Charged' = Charged /\ Cardinality(Charged') = c
  BY <1>c DEF Charged
<1>d. ASSUME events' = events, time' = time PROVE NothingEarly'
  BY <1>d DEF NothingEarly
<1> HIDE DEF c
<1>1. ASSUME TimePasses PROVE UsageTypes' /\ NothingEarly' /\ UnitsBalance'
  <2>1. /\ time' = time + 1 /\ time < LastUnit
        /\ UNCHANGED <<quotaUsed, events, running, owed, lost, report, stirred>>
    BY <1>1 DEF TimePasses
  <2>2. time' \in Dates /\ time <= time'
    BY <1>a, <2>1, UsageIs DEF Dates
  <2>3. UsageTypes'
    BY <1>a, <1>b, <2>1, <2>2
  <2>4. NothingEarly'
    <3> SUFFICES ASSUME NEW i \in DOMAIN events PROVE events[i].at <= time'
      BY <2>1 DEF NothingEarly
    <3>1. events[i].at \in Nat /\ events[i].at <= time /\ time \in Nat
      BY EventsAre, <1>a, UsageIs DEF NothingEarly, Dates
    <3> QED
      BY <2>1, <3>1
  <2>5. UnitsBalance'
    BY <1>c, <2>1 DEF UnitsBalance, c
  <2> QED
    BY <2>3, <2>4, <2>5
<1>2. ASSUME ReserveUnit PROVE UsageTypes' /\ NothingEarly' /\ UnitsBalance'
  <2>1. /\ Limited /\ quotaUsed < PeriodLimit /\ quotaUsed' = quotaUsed + 1 /\ running' = running + 1
        /\ stirred' = TRUE /\ UNCHANGED <<time, events, owed, lost, report>>
    BY <1>2 DEF ReserveUnit
  <2>2. quotaUsed = c + running + owed + lost
    BY <2>1 DEF UnitsBalance, c
  <2>3. quotaUsed' \in 0..PeriodLimit /\ running' \in 0..PeriodLimit
    BY <1>0, <1>a, <2>1, <2>2, UsageIs DEF c
  <2>4. UsageTypes'
    BY <1>a, <1>b, <2>1, <2>3
  <2>5. UnitsBalance'
    <3>1. c \in Nat
      BY <1>0 DEF c
    <3>2. quotaUsed' = c + running' + owed' + lost'
      BY <1>a, <2>1, <2>2, <3>1
    <3> QED
      BY <1>c, <2>1, <3>2 DEF UnitsBalance
  <2> QED
    BY <1>d, <2>1, <2>4, <2>5
<1>3. ASSUME NEW billable \in BOOLEAN, RecordAnswer(billable)
      PROVE  UsageTypes' /\ NothingEarly' /\ UnitsBalance'
  <2>1. /\ Len(events) < MaxEvents /\ (Limited => running > 0) /\ Recorded("answer", billable)
        /\ running' = IF Limited THEN running - 1 ELSE 0
        /\ owed' = IF Limited /\ ~billable THEN owed + 1 ELSE owed
        /\ lost' = IF Limited /\ billable /\ ~InPeriod(time) THEN lost + 1 ELSE lost
        /\ stirred' = TRUE /\ UNCHANGED <<time, quotaUsed, report>>
    BY <1>3 DEF RecordAnswer
  <2>2. /\ events' \in Seq(Event) /\ Len(events') <= MaxEvents /\ NothingEarly'
        /\ Cardinality(Charged') = c + (IF billable /\ InPeriod(time) THEN 1 ELSE 0)
    BY <2>1, RecordedIs DEF c
  <2>3. c \in Nat
    BY <1>0 DEF c
  <2>4. CASE Limited
    <3>1. quotaUsed = c + running + owed + lost
      BY <2>4 DEF UnitsBalance, c
    <3>2. /\ running' = running - 1 /\ running > 0
          /\ owed' = IF billable THEN owed ELSE owed + 1
          /\ lost' = IF billable /\ ~InPeriod(time) THEN lost + 1 ELSE lost
      BY <2>1, <2>4
    <3>3. /\ running' \in 0..PeriodLimit /\ owed' \in 0..PeriodLimit /\ lost' \in 0..PeriodLimit
          /\ quotaUsed' = Cardinality(Charged') + running' + owed' + lost'
      BY <1>a, <2>1, <2>2, <2>3, <3>1, <3>2, UsageIs
    <3>4. UsageTypes'
      BY <1>a, <1>b, <2>1, <2>2, <3>3
    <3>5. UnitsBalance'
      BY <2>4, <3>3 DEF UnitsBalance
    <3> QED
      BY <2>2, <3>4, <3>5
  <2>5. CASE ~Limited
    <3>1. running' = 0 /\ owed' = owed /\ lost' = lost
      BY <2>1, <2>5
    <3>2. UsageTypes'
      BY <1>a, <1>b, <2>1, <2>2, <3>1, UsageIs
    <3>3. UnitsBalance'
      BY <2>1, <2>5, <3>1 DEF UnitsBalance
    <3> QED
      BY <2>2, <3>2, <3>3
  <2> QED
    BY <2>4, <2>5
<1>4. ASSUME AnswerFails PROVE UsageTypes' /\ NothingEarly' /\ UnitsBalance'
  <2>1. /\ running > 0 /\ running' = running - 1 /\ owed' = owed + 1 /\ stirred' = TRUE
        /\ UNCHANGED <<time, quotaUsed, events, lost, report>>
    BY <1>4 DEF AnswerFails
  <2>2. Limited /\ quotaUsed = c + running + owed + lost
    BY <1>a, <2>1 DEF UnitsBalance, c
  <2>3. /\ running' \in 0..PeriodLimit /\ owed' \in 0..PeriodLimit
        /\ quotaUsed' = c + running' + owed' + lost'
    BY <1>0, <1>a, <2>1, <2>2, UsageIs DEF c
  <2>4. UsageTypes'
    BY <1>a, <1>b, <2>1, <2>3
  <2>5. UnitsBalance'
    BY <1>c, <2>1, <2>2, <2>3 DEF UnitsBalance
  <2> QED
    BY <1>d, <2>1, <2>4, <2>5
<1>5. ASSUME RefundUnit PROVE UsageTypes' /\ NothingEarly' /\ UnitsBalance'
  <2>1. /\ owed > 0 /\ owed' = owed - 1 /\ quotaUsed' = IF quotaUsed > 0 THEN quotaUsed - 1 ELSE quotaUsed
        /\ stirred' = TRUE /\ UNCHANGED <<time, events, running, lost, report>>
    BY <1>5 DEF RefundUnit
  <2>2. Limited /\ quotaUsed = c + running + owed + lost
    BY <1>a, <2>1 DEF UnitsBalance, c
  <2>3. quotaUsed > 0 /\ quotaUsed' = quotaUsed - 1
    <3>1. c \in Nat
      BY <1>0 DEF c
    <3> QED
      BY <1>a, <2>1, <2>2, <3>1
  <2>4. /\ quotaUsed' \in 0..PeriodLimit /\ owed' \in 0..PeriodLimit
        /\ quotaUsed' = c + running' + owed' + lost'
    <3>1. c \in Nat
      BY <1>0 DEF c
    <3> QED
      BY <1>a, <2>1, <2>2, <2>3, <3>1, UsageIs
  <2>5. UsageTypes'
    BY <1>a, <1>b, <2>1, <2>4
  <2>6. UnitsBalance'
    BY <1>c, <2>1, <2>2, <2>4 DEF UnitsBalance
  <2> QED
    BY <1>d, <2>1, <2>5, <2>6
<1>6. ASSUME RecordChunk PROVE UsageTypes' /\ NothingEarly' /\ UnitsBalance'
  <2>1. /\ Len(events) < MaxEvents /\ Recorded("chunk_embedded", TRUE) /\ stirred' = TRUE
        /\ UNCHANGED <<time, quotaUsed, running, owed, lost, report>>
    BY <1>6 DEF RecordChunk
  <2>2. /\ events' \in Seq(Event) /\ Len(events') <= MaxEvents /\ NothingEarly'
        /\ Cardinality(Charged') = c + 0
    BY <2>1, RecordedIs DEF c
  <2>3. UsageTypes'
    BY <1>a, <1>b, <2>1, <2>2
  <2>4. Cardinality(Charged') = c
    BY <1>0, <2>2 DEF c
  <2>5. UnitsBalance'
    BY <2>1, <2>4 DEF UnitsBalance, c
  <2> QED
    BY <2>2, <2>3, <2>5
<1>7. ASSUME LoseUnit PROVE UsageTypes' /\ NothingEarly' /\ UnitsBalance'
  <2>1. /\ \/ running > 0 /\ running' = running - 1 /\ owed' = owed
           \/ owed > 0 /\ owed' = owed - 1 /\ running' = running
        /\ lost' = lost + 1 /\ stirred' = TRUE /\ UNCHANGED <<time, quotaUsed, events, report>>
    BY <1>7 DEF LoseUnit
  <2>2. Limited /\ quotaUsed = c + running + owed + lost
    BY <1>a, <2>1 DEF UnitsBalance, c
  <2>3. /\ running' \in 0..PeriodLimit /\ owed' \in 0..PeriodLimit /\ lost' \in 0..PeriodLimit
        /\ quotaUsed' = c + running' + owed' + lost'
    <3>0. c \in Nat
      BY <1>0 DEF c
    <3>1. CASE running > 0 /\ running' = running - 1 /\ owed' = owed
      BY <1>a, <2>1, <2>2, <3>0, <3>1, UsageIs
    <3>2. CASE owed > 0 /\ owed' = owed - 1 /\ running' = running
      BY <1>a, <2>1, <2>2, <3>0, <3>2, UsageIs
    <3> QED
      BY <2>1, <3>1, <3>2
  <2>4. UsageTypes'
    BY <1>a, <1>b, <2>1, <2>3
  <2>5. UnitsBalance'
    BY <1>c, <2>1, <2>2, <2>3 DEF UnitsBalance
  <2> QED
    BY <1>d, <2>1, <2>4, <2>5
<1>8. ASSUME HandOver PROVE UsageTypes' /\ NothingEarly' /\ UnitsBalance'
  <2>1. /\ Len(events) < MaxEvents /\ Recorded("answer", FALSE) /\ stirred' = TRUE
        /\ UNCHANGED <<time, quotaUsed, running, owed, lost, report>>
    BY <1>8 DEF HandOver
  <2>2. /\ events' \in Seq(Event) /\ Len(events') <= MaxEvents /\ NothingEarly'
        /\ Cardinality(Charged') = c + 0
    BY <2>1, RecordedIs DEF c
  <2>3. UsageTypes'
    BY <1>a, <1>b, <2>1, <2>2
  <2>4. Cardinality(Charged') = c
    BY <1>0, <2>2 DEF c
  <2>5. UnitsBalance'
    BY <2>1, <2>4 DEF UnitsBalance, c
  <2> QED
    BY <2>2, <2>3, <2>5
<1> QED
  BY <1>1, <1>2, <1>3, <1>4, <1>5, <1>6, <1>7, <1>8

\* A day's figures in a report.
LEMMA DaysAre ==
  ASSUME UsageInv, report.step = "totals", NEW metric \in {"answer", "chunk_embedded"}
  PROVE  LET days == {d \in 0..Day(LastUnit) : Day(report.from) <= d /\ d <= LastDay(report.to)}
             S == Within(report.from, report.to, metric)
         IN  /\ S \in SUBSET DOMAIN events
             /\ \A i \in S : Day(events[i].at) \in days
<1> DEFINE days == {d \in 0..Day(LastUnit) : Day(report.from) <= d /\ d <= LastDay(report.to)}
           S == Within(report.from, report.to, metric)
<1>1. S \in SUBSET DOMAIN events
  BY DEF Within
<1>2. ASSUME NEW i \in S PROVE Day(events[i].at) \in days
  <2>1. i \in DOMAIN events /\ report.from <= events[i].at /\ events[i].at < report.to
    BY <1>2 DEF Within
  <2>2. events[i].at \in Nat /\ events[i].at <= LastUnit /\ events[i].at <= time
    BY <2>1, EventsAre, UsageIs DEF UsageInv, NothingEarly
  <2>3. report.from \in Nat /\ report.to \in Nat /\ time \in Nat
    BY UsageIs DEF UsageInv, UsageTypes, Dates
  <2>4. report.to - 1 \in Nat /\ events[i].at <= report.to - 1
    BY <2>1, <2>2, <2>3
  <2> DEFINE latest == Min({report.to - 1, time})
  <2>5. latest \in Nat /\ events[i].at <= latest
    <3>1. latest = IF report.to - 1 <= time THEN report.to - 1 ELSE time
      BY <2>3, <2>4, LesserIs
    <3> HIDE DEF latest
    <3> QED
      BY <2>2, <2>3, <2>4, <3>1
  <2>6. LastDay(report.to) = Day(latest)
    BY DEF LastDay
  <2> HIDE DEF latest
  <2>7. Day(events[i].at) \in Nat /\ Day(events[i].at) <= Day(latest)
    BY <2>2, <2>5, DaysFollow
  <2>8. Day(events[i].at) <= Day(LastUnit) /\ Day(LastUnit) \in Nat
    BY <2>2, UsageIs, DaysFollow
  <2>9. Day(report.from) <= Day(events[i].at)
    BY <2>1, <2>2, <2>3, DaysFollow
  <2> QED
    BY <2>6, <2>7, <2>8, <2>9
<1> QED
  BY <1>1, <1>2

LEMMA UsageStep == UsageInv /\ [UsageNext]_usageVars => UsageInv'
<1> SUFFICES ASSUME UsageInv, [UsageNext]_usageVars PROVE UsageInv'
  OBVIOUS
<1>1. CASE \/ TimePasses \/ ReserveUnit \/ AnswerFails \/ RefundUnit \/ HandOver
           \/ RecordChunk \/ LoseUnit
           \/ \E billable \in BOOLEAN : RecordAnswer(billable)
  <2>1. UsageTypes' /\ NothingEarly' /\ UnitsBalance'
    BY <1>1, UnitsMove
  <2>2. report' = report /\ (stirred' \/ UNCHANGED <<events, quotaUsed, running, owed, lost, stirred>>)
    BY <1>1 DEF TimePasses, ReserveUnit, AnswerFails, RefundUnit, HandOver, RecordChunk,
                LoseUnit, RecordAnswer
  <2>3. StillTrue' /\ DailyAddsUp'
    BY <2>2, OthersKeep
  <2> QED
    BY <2>1, <2>3 DEF UsageInv
<1> DEFINE alone == UNCHANGED <<time, quotaUsed, events, running, owed, lost>>
<1>2. ASSUME alone, stirred' \in BOOLEAN,
             report' \in [step : {"none", "quota", "totals", "done", "rejected"},
                  input : (Dates \cup {NoDate}) \X (Dates \cup {NoDate}),
                  used : Nat, running : Nat, from : Nat, to : Nat,
                  billable : Nat, answers : Nat, chunks : Nat, daily : {report'.daily}]
      PROVE  UsageTypes' /\ NothingEarly' /\ UnitsBalance'
  <2>1. UsageTypes'
    BY <1>2 DEF UsageInv, UsageTypes
  <2>2. NothingEarly'
    BY <1>2 DEF UsageInv, NothingEarly
  <2>3. UnitsBalance'
    <3>1. Charged' = Charged
      BY <1>2 DEF Charged
    <3> QED
      BY <1>2, <3>1 DEF UsageInv, UnitsBalance
  <2> QED
    BY <2>1, <2>2, <2>3
<1>3. ASSUME alone, NEW from, NEW to, NEW metric
      PROVE  Within(from, to, metric)' = Within(from, to, metric)
  BY <1>3 DEF Within
<1>4. UsageTypes /\ StillTrue /\ DailyAddsUp
  BY DEF UsageInv
<1>r. report \in [step : {"none", "quota", "totals", "done", "rejected"},
                  input : (Dates \cup {NoDate}) \X (Dates \cup {NoDate}),
                  used : Nat, running : Nat, from : Nat, to : Nat,
                  billable : Nat, answers : Nat, chunks : Nat, daily : {report.daily}]
  BY <1>4 DEF UsageTypes
<1>5. ASSUME NEW f \in Dates \cup {NoDate}, NEW t \in Dates \cup {NoDate}, ReadQuota(<<f, t>>)
      PROVE  UsageInv'
  <2>1. /\ report' = [NoReport EXCEPT !.step = "quota", !.input = <<f, t>>, !.used = quotaUsed,
                                      !.running = running + owed + lost]
        /\ stirred' = FALSE /\ alone
    BY <1>5 DEF ReadQuota
  <2>2. /\ report'.step = "quota" /\ report'.used = quotaUsed /\ report'.running = running + owed + lost
    BY <2>1 DEF NoReport
  <2>3. quotaUsed \in Nat /\ running + owed + lost \in Nat
    BY <1>4 DEF UsageTypes
  <2>4. report' \in [step : {"none", "quota", "totals", "done", "rejected"},
                  input : (Dates \cup {NoDate}) \X (Dates \cup {NoDate}),
                  used : Nat, running : Nat, from : Nat, to : Nat,
                  billable : Nat, answers : Nat, chunks : Nat, daily : {report'.daily}]
    BY <2>1, <2>3 DEF NoReport
  <2>5. UsageTypes' /\ NothingEarly' /\ UnitsBalance'
    BY <1>2, <2>1, <2>4
  <2>6. StillTrue'
    BY <2>1, <2>2 DEF StillTrue
  <2>7. DailyAddsUp'
    BY <2>2 DEF DailyAddsUp
  <2> QED
    BY <2>5, <2>6, <2>7 DEF UsageInv
<1>6. ASSUME ReadTotals PROVE UsageInv'
  <2> DEFINE range == ResolveRange(report.input)
             answers == Within(range[1], range[2], "answer")
             embedded == Within(range[1], range[2], "chunk_embedded")
  <2>1. /\ report.step = "quota" /\ alone /\ stirred' = stirred
        /\ report' = IF Rejected(range) THEN [report EXCEPT !.step = "rejected"]
                     ELSE [report EXCEPT !.step = "totals", !.from = range[1], !.to = range[2],
                             !.billable = Bills(answers), !.answers = Cardinality(answers),
                             !.chunks = Cardinality(embedded)]
    BY <1>6 DEF ReadTotals
  <2>2. /\ report.input \in (Dates \cup {NoDate}) \X (Dates \cup {NoDate})
        /\ range[1] \in Nat /\ range[2] \in Nat
        /\ report.input = <<NoDate, NoDate>> /\ Limited => range[1] = PeriodStart /\ range[2] = PeriodEnd
    BY <1>4, <1>r, RangeIs
  <2>3. Bills(answers) \in Nat /\ Cardinality(answers) \in Nat /\ Cardinality(embedded) \in Nat
    <3>1. /\ {i \in answers : events[i].billable} \in SUBSET DOMAIN events
          /\ answers \in SUBSET DOMAIN events /\ embedded \in SUBSET DOMAIN events
      BY DEF Within
    <3> HIDE DEF answers, embedded
    <3> QED
      BY <1>4, <3>1, SomeEvents, UsageIs DEF Bills
  <2>4. stirred' \in BOOLEAN
    BY <2>1, <1>4 DEF UsageTypes
  <2>5. CASE Rejected(range)
    <3> HIDE DEF range
    <3>1. report' = [report EXCEPT !.step = "rejected"]
      BY <2>1, <2>5
    <3>2. report'.step = "rejected" /\ report'.daily = report.daily
      BY <1>r, <3>1
    <3>3. report' \in [step : {"none", "quota", "totals", "done", "rejected"},
                  input : (Dates \cup {NoDate}) \X (Dates \cup {NoDate}),
                  used : Nat, running : Nat, from : Nat, to : Nat,
                  billable : Nat, answers : Nat, chunks : Nat, daily : {report'.daily}]
      BY <1>r, <3>1, <3>2
    <3>4. StillTrue' /\ DailyAddsUp'
      BY <3>2 DEF StillTrue, DailyAddsUp
    <3> QED
      BY <1>2, <2>1, <2>4, <3>3, <3>4 DEF UsageInv
  <2>6. CASE ~Rejected(range)
    <3>1. range[1] < range[2] /\ range[2] - range[1] <= MaxRange
      <4> HIDE DEF range
      <4> QED
        BY <2>2, <2>6, UsageIs DEF Rejected
    <3> HIDE DEF range, answers, embedded
    <3>3. report' = [report EXCEPT !.step = "totals", !.from = range[1], !.to = range[2],
                             !.billable = Bills(answers), !.answers = Cardinality(answers),
                             !.chunks = Cardinality(embedded)]
      BY <2>1, <2>6
    <3>4. /\ report'.step = "totals" /\ report'.from = range[1] /\ report'.to = range[2]
          /\ report'.billable = Bills(answers) /\ report'.answers = Cardinality(answers)
          /\ report'.chunks = Cardinality(embedded) /\ report'.used = report.used
          /\ report'.running = report.running /\ report'.input = report.input
          /\ report'.daily = report.daily
      BY <1>r, <3>3
    <3>5. report' \in [step : {"none", "quota", "totals", "done", "rejected"},
                  input : (Dates \cup {NoDate}) \X (Dates \cup {NoDate}),
                  used : Nat, running : Nat, from : Nat, to : Nat,
                  billable : Nat, answers : Nat, chunks : Nat, daily : {report'.daily}]
      BY <1>r, <2>2, <2>3, <3>3, <3>4
    <3>6. /\ Bills(Within(report.from, report.to, "answer"))' = Bills(answers)
          /\ Within(report.from, report.to, "answer")' = answers
          /\ Within(report.from, report.to, "chunk_embedded")' = embedded
      BY <2>1, <3>4 DEF answers, embedded, Within, Bills
    <3>7. StillTrue'
      BY <1>4, <2>1, <2>2, <3>1, <3>4, <3>6 DEF StillTrue
    <3>8. DailyAddsUp'
      BY <3>4 DEF DailyAddsUp
    <3> QED
      BY <1>2, <2>1, <2>4, <3>5, <3>7, <3>8 DEF UsageInv
  <2> QED
    BY <2>5, <2>6
<1>7. ASSUME ReadDaily PROVE UsageInv'
  <2> DEFINE days == {d \in 0..Day(LastUnit) : Day(report.from) <= d /\ d <= LastDay(report.to)}
             within(metric) == Within(report.from, report.to, metric)
             on(d, metric) == {i \in within(metric) : Day(events[i].at) = d}
             daily == [d \in days |-> [answers |-> Cardinality(on(d, "answer")),
                                       billable |-> Bills(on(d, "answer")),
                                       chunks |-> Cardinality(on(d, "chunk_embedded"))]]
             bills == {i \in within("answer") : events[i].billable}
  <2>1. /\ report.step = "totals" /\ alone /\ stirred' = stirred
        /\ report' = [report EXCEPT !.step = "done", !.daily = daily]
    BY <1>7 DEF ReadDaily
  <2>2. /\ within("answer") \in SUBSET DOMAIN events
        /\ \A i \in within("answer") : Day(events[i].at) \in days
    BY <2>1, DaysAre
  <2>3. /\ within("chunk_embedded") \in SUBSET DOMAIN events
        /\ \A i \in within("chunk_embedded") : Day(events[i].at) \in days
    BY <2>1, DaysAre
  <2>4. /\ DOMAIN daily = days
        /\ \A d \in days : /\ daily[d].answers = Cardinality(on(d, "answer"))
                           /\ daily[d].billable = Bills(on(d, "answer"))
                           /\ daily[d].chunks = Cardinality(on(d, "chunk_embedded"))
    <3> HIDE DEF days, on
    <3> QED
      OBVIOUS
  <2> HIDE DEF days, within, daily
  <2>5. AddsUp([d \in DOMAIN daily |-> daily[d].answers], Cardinality(within("answer")))
    <3> DEFINE figures == [d \in DOMAIN daily |-> daily[d].answers]
    <3>1. /\ DOMAIN figures = days
          /\ \A d \in days : figures[d] = Cardinality({i \in within("answer") : Day(events[i].at) = d})
      BY <2>4
    <3> HIDE DEF figures
    <3>2. AddsUp(figures, Cardinality(within("answer")))
      BY <1>4, <2>2, <3>1, SumIs
    <3> QED
      BY <3>2 DEF figures
  <2>6. AddsUp([d \in DOMAIN daily |-> daily[d].billable], Cardinality(bills))
    <3> DEFINE figures == [d \in DOMAIN daily |-> daily[d].billable]
    <3>1. ASSUME NEW d \in days
          PROVE  figures[d] = Cardinality({i \in bills : Day(events[i].at) = d})
      <4>1. {i \in on(d, "answer") : events[i].billable} = {i \in bills : Day(events[i].at) = d}
        OBVIOUS
      <4>2. figures[d] = Bills(on(d, "answer"))
        BY <2>4
      <4> QED
        BY <4>1, <4>2 DEF Bills
    <3>2. DOMAIN figures = days /\ bills \in SUBSET DOMAIN events
      BY <2>2, <2>4
    <3>3. \A i \in bills : Day(events[i].at) \in days
      BY <2>2
    <3> HIDE DEF figures, bills
    <3>4. AddsUp(figures, Cardinality(bills))
      BY <1>4, <3>1, <3>2, <3>3, SumIs
    <3> QED
      BY <3>4 DEF figures
  <2>7. AddsUp([d \in DOMAIN daily |-> daily[d].chunks], Cardinality(within("chunk_embedded")))
    <3> DEFINE figures == [d \in DOMAIN daily |-> daily[d].chunks]
    <3>1. /\ DOMAIN figures = days
          /\ \A d \in days : figures[d] = Cardinality({i \in within("chunk_embedded") : Day(events[i].at) = d})
      BY <2>4
    <3> HIDE DEF figures
    <3>2. AddsUp(figures, Cardinality(within("chunk_embedded")))
      BY <1>4, <2>3, <3>1, SumIs
    <3> QED
      BY <3>2 DEF figures
  <2>8. /\ report'.step = "done" /\ report'.daily = daily /\ report'.from = report.from
        /\ report'.to = report.to /\ report'.billable = report.billable /\ report'.answers = report.answers
        /\ report'.chunks = report.chunks /\ report'.used = report.used
        /\ report'.running = report.running /\ report'.input = report.input
    BY <1>r, <2>1
  <2>9. report' \in [step : {"none", "quota", "totals", "done", "rejected"},
                  input : (Dates \cup {NoDate}) \X (Dates \cup {NoDate}),
                  used : Nat, running : Nat, from : Nat, to : Nat,
                  billable : Nat, answers : Nat, chunks : Nat, daily : {report'.daily}]
    BY <1>r, <2>1, <2>8
  <2>10. stirred' \in BOOLEAN
    BY <2>1, <1>4 DEF UsageTypes
  <2>11. /\ Within(report.from, report.to, "answer")' = within("answer")
         /\ Within(report.from, report.to, "chunk_embedded")' = within("chunk_embedded")
         /\ Bills(Within(report.from, report.to, "answer"))' = Cardinality(bills)
         /\ Bills(within("answer")) = Cardinality(bills)
    BY <2>1, <2>8 DEF within, Within, Bills
  <2>12. ~stirred => /\ report.billable = Cardinality(bills)
                     /\ report.answers = Cardinality(within("answer"))
                     /\ report.chunks = Cardinality(within("chunk_embedded"))
    BY <1>4, <2>1, <2>11 DEF StillTrue, within
  <2>13. StillTrue'
    BY <1>4, <2>1, <2>8, <2>11, <2>12 DEF StillTrue
  <2>14. DailyAddsUp'
    BY <2>1, <2>5, <2>6, <2>7, <2>8, <2>12 DEF DailyAddsUp
  <2> QED
    BY <1>2, <2>1, <2>9, <2>10, <2>13, <2>14 DEF UsageInv
<1>8. CASE UNCHANGED usageVars
  <2>1. alone /\ UNCHANGED <<report, stirred>>
    BY <1>8 DEF usageVars
  <2>2. UsageTypes' /\ NothingEarly' /\ UnitsBalance'
    BY <1>2, <1>4, <1>r, <2>1 DEF UsageTypes
  <2>3. StillTrue' /\ DailyAddsUp'
    BY <2>1, OthersKeep
  <2> QED
    BY <2>2, <2>3 DEF UsageInv
<1> QED
  BY <1>1, <1>5, <1>6, <1>7, <1>8 DEF UsageNext

LEMMA UsageTells == UsageInv => ReportAgrees
<1> SUFFICES ASSUME UsageInv PROVE ReportAgrees
  OBVIOUS
<1>1. UsageTypes /\ StillTrue /\ DailyAddsUp /\ UnitsBalance
  BY DEF UsageInv
<1>2. UsageTypeOK
  <2>1. report.step \in {"none", "quota", "totals", "done", "rejected"}
    BY <1>1 DEF UsageTypes
  <2> QED
    BY <1>1, <2>1 DEF UsageTypes, UsageTypeOK, StillTrue
<1>3. BarAgreesWithPage
  <2> SUFFICES ASSUME report.step \in {"totals", "done"}, ~stirred, Limited, report.input = <<NoDate, NoDate>>
               PROVE  report.used = report.billable + report.running
    BY DEF BarAgreesWithPage
  <2>1. /\ report.used = quotaUsed /\ report.running = running + owed + lost
        /\ report.from = PeriodStart /\ report.to = PeriodEnd
        /\ report.billable = Bills(Within(report.from, report.to, "answer"))
    BY <1>1 DEF StillTrue
  <2>2. {i \in Within(PeriodStart, PeriodEnd, "answer") : events[i].billable} = Charged
    BY DEF Within, Charged
  <2>3. report.billable = Cardinality(Charged)
    BY <2>1, <2>2 DEF Bills
  <2>4. quotaUsed = Cardinality(Charged) + running + owed + lost
    BY <1>1 DEF UnitsBalance
  <2>5. Cardinality(Charged) \in Nat /\ running \in Nat /\ owed \in Nat /\ lost \in Nat
    BY <1>1, ChargedAre DEF UsageTypes
  <2> QED
    BY <2>1, <2>3, <2>4, <2>5
<1> QED
  BY <1>1, <1>2, <1>3 DEF ReportAgrees

\* In every reachable state a report whose statements saw the same events agrees with
\* itself and with the quota bar: the days add up to the totals, and what the bar shows
\* beyond the billable answers is still reserved, owed or lost (usage.service.ts).
THEOREM ReportAlwaysAgrees == UsageSpec => []ReportAgrees
<1>1. UsageInit => UsageInv
  BY UsageStart
<1>2. UsageInv /\ [UsageNext]_usageVars => UsageInv'
  BY UsageStep
<1>3. UsageInv => ReportAgrees
  BY UsageTells
<1> QED
  BY <1>1, <1>2, <1>3, PTL DEF UsageSpec
==============================================================================
