------------------------------ MODULE Playground ------------------------------
(***************************************************************************)
(* The AI playground (PlaygroundPage.tsx): one question at a time, each in    *)
(* a turn of its own that shows its answer, that it waits (ChatTurn.tsx), or  *)
(* an error with a Retry; and the inspector, which explains the last answer.  *)
(*                                                                         *)
(* A call whose connection is lost is over for the page only: nothing stops   *)
(* AnswerService, which stores its answer when it has made it up, after a     *)
(* Retry's or a later turn's if it comes to that.                           *)
(*                                                                         *)
(* Left out: what an answer says, and whether it comes from the cache.       *)
(***************************************************************************)
EXTENDS Integers, Sequences, FiniteSets

CONSTANTS MaxTurns, MaxAsked,  \* bounds: turns on the screen, answers made up
          MaxAdrift            \* bound: calls of a turn that run on unheard

ASSUME PlaygroundAssumption ==
  {MaxTurns, MaxAsked} \subseteq Nat \ {0} /\ MaxAdrift \in Nat

VARIABLES
  asked,  \* the session's conversation rows, as they were committed: whose turn
  thread, \* on the screen: the row that is its result (0 is null), its error
  pending,
  asking, \* calls of ask: whose turn, its answer's row once it is made up
  adrift, \* the calls of each turn that the page gave up and the server did not
  late,   \* history: the rows such calls stored
  retried \* history: some turn was sent again

playgroundVars == <<asked, thread, pending, asking, adrift, late, retried>>

PlaygroundTypeOK ==
  /\ asked \in Seq(1..MaxTurns) /\ Len(asked) <= MaxAsked
  /\ thread \in Seq([result : 0..MaxAsked, error : BOOLEAN]) /\ Len(thread) <= MaxTurns
  /\ pending \in BOOLEAN /\ asking \subseteq [turn : 1..MaxTurns, row : 0..MaxAsked]
  /\ adrift \in [1..MaxTurns -> 0..MaxAdrift] /\ late \subseteq DOMAIN asked
  /\ retried \in BOOLEAN
  \* One question at a time, and a turn waits as long as its question is under way.
  /\ Cardinality(asking) <= 1 /\ (pending <=> asking # {})
  /\ \A t \in DOMAIN thread :
       (thread[t].result = 0 /\ ~thread[t].error) <=> \E a \in asking : a.turn = t

PlaygroundInit ==
  /\ asked = <<>> /\ thread = <<>> /\ pending = FALSE /\ asking = {}
  /\ adrift = [t \in 1..MaxTurns |-> 0] /\ late = {} /\ retried = FALSE

-----------------------------------------------------------------------------
Waiting == [result |-> 0, error |-> FALSE]

\* submit: typed, or one of the suggestions.
Submit ==
  /\ ~pending /\ Len(thread) < MaxTurns
  /\ pending' = TRUE
  /\ thread' = Append(thread, Waiting)
  /\ asking' = asking \cup {[turn |-> Len(thread) + 1, row |-> 0]}
  /\ UNCHANGED <<asked, adrift, late, retried>>

\* Offered by a turn that failed.
Retry(t) ==
  /\ thread[t].error /\ ~pending
  /\ pending' = TRUE /\ retried' = TRUE
  /\ thread' = [thread EXCEPT ![t] = Waiting]
  /\ asking' = asking \cup {[turn |-> t, row |-> 0]}
  /\ UNCHANGED <<asked, adrift, late>>

\* AnswerService: one row for every question that reaches it, also for one sent
\* again, for which it gets no key.
Answers(a) ==
  /\ a.row = 0 /\ Len(asked) < MaxAsked
  /\ asked' = Append(asked, a.turn)
  /\ asking' = (asking \ {a}) \cup {[a EXCEPT !.row = Len(asked) + 1]}
  /\ UNCHANGED <<thread, pending, adrift, late, retried>>

\* Nobody listens to this one any more.
AnswersLate(t) ==
  /\ adrift[t] > 0 /\ Len(asked) < MaxAsked
  /\ adrift' = [adrift EXCEPT ![t] = @ - 1]
  /\ asked' = Append(asked, t) /\ late' = late \cup {Len(asked) + 1}
  /\ UNCHANGED <<thread, pending, asking, retried>>

\* Mutant of Lands: by place, not by id.
LandsLast(t, new) == [thread EXCEPT ![Len(thread)] = new]

\* A turn's contents are replaced.
Lands(t, new) == [thread EXCEPT ![t] = new]

AnswerLands(a) ==
  /\ a.row # 0
  /\ thread' = Lands(a.turn, [result |-> a.row, error |-> FALSE])
  /\ asking' = asking \ {a} /\ pending' = FALSE
  /\ UNCHANGED <<asked, adrift, late, retried>>

\* The allowance is used up, a limit is hit, the call or its answer is lost; or the
\* connection, while the server goes on.
AskFails(a) ==
  /\ thread' = Lands(a.turn, [thread[a.turn] EXCEPT !.error = TRUE])
  /\ asking' = asking \ {a} /\ pending' = FALSE
  /\ \/ UNCHANGED adrift
     \/ /\ a.row = 0 /\ adrift[a.turn] < MaxAdrift
        /\ adrift' = [adrift EXCEPT ![a.turn] = @ + 1]
  /\ UNCHANGED <<asked, late, retried>>

PlaygroundNext ==
  \/ Submit \/ \E t \in DOMAIN thread : Retry(t)
  \/ \E a \in asking : Answers(a) \/ AnswerLands(a) \/ AskFails(a)
  \/ \E t \in 1..MaxTurns : AnswersLate(t)

PlaygroundSpec == PlaygroundInit /\ [][PlaygroundNext]_playgroundVars

-----------------------------------------------------------------------------
\* What the inspector is given: the last turn on the screen that has an answer.
LastTurn ==
  LET T == {t \in DOMAIN thread : thread[t].result # 0}
  IN  IF T = {} THEN 0 ELSE CHOOSE t \in T : \A u \in T : u <= t

\* A turn shows an answer to its own question, and no later one was made up while
\* the page listened; unless some question was sent again, those answers are in the
\* order of the turns.  What a call stored after the page had given it up is the
\* exception: the session's history has it, and the screen does not.
TurnsShowTheirOwn ==
  /\ \A t \in DOMAIN thread : thread[t].result # 0 =>
       /\ asked[thread[t].result] = t /\ thread[t].result \notin late
       /\ \A k \in DOMAIN asked \ late : asked[k] = t => k <= thread[t].result
  /\ retried \/ \A k, l \in DOMAIN asked \ late : k < l => asked[k] < asked[l]

\* "The inspector should keep showing the previous retrieval while the next question
\* is still running, rather than blanking out" (PlaygroundPage.tsx:77-78): it never
\* goes back to an earlier turn, and a turn that it shows keeps its answer.
InspectorKeepsShowing ==
  [][LastTurn # 0 => /\ LastTurn' >= LastTurn
                     /\ thread'[LastTurn].result = thread[LastTurn].result]_playgroundVars

\* What the playground shows of an answer belongs to that answer.
PlaygroundTells == [](PlaygroundTypeOK /\ TurnsShowTheirOwn) /\ InspectorKeepsShowing
=============================================================================
