----------------------------- MODULE MCServices ------------------------------
(* Services beside the database, with small sets.  The users of Redis: the answer
   cache and its locks (AnswerCache), the login throttle (FixedWindow) and the
   token buckets of the questions and of the widget (TokenBucket); their keys are
   different.  And the sign-in behind the throttle (Sessions).  A behaviour
   exercises one of them.  Turns, document operations and the calls of a tab are
   interchangeable.                                                         *)
EXTENDS AnswerCache, FixedWindow, TokenBucket, MCSessions

\* Bound on the commands a silent Redis has yet to execute.
ShortBacklog == Len(backlog) <= 3

CONSTANTS anas, ANAS, api, theRedis, visitor, site, ask

NormalizeDef == [s \in {anas, ANAS} |-> anas]
SpellingsDef == {anas, ANAS}
EmailsDef == {anas}
InstancesDef == {api}
OwnDef == {visitor}
BucketsDef == {visitor, site, ask}
CapacityDef == [b \in BucketsDef |-> CASE b = site -> 8 [] b = ask -> 6 [] OTHER -> 4]
RateDef == [b \in BucketsDef |-> CASE b = site -> 4 [] b = ask -> 3 [] OTHER -> 2]

Symmetry == Permutations(Requests) \cup Permutations(Changers) \cup CallSymmetry

\* Two of the three calls of the tabs are under way at a time.
TwoCalls == Cardinality({r \in Calls : req'[r] # Idle \/ refresh'[r] # Quiet}) <= 2

VARIABLE kind

OneOfThem ==
  /\ kind \in {"answers", "logins", "questions", "widget", "sessions"}
  /\ Init /\ WindowInit /\ BucketInit /\ SessionsInit
  /\ subject[2] = IF kind = "widget" THEN site ELSE ask
  /\ kind \in {"answers", "logins", "sessions"} => subject[1] = theRedis

OneStep ==
  \/ kind = "answers" /\ Next /\ UNCHANGED <<kind, winVars, bucketVars, sessionVars>>
  \/ kind = "logins" /\ WindowNext /\ UNCHANGED <<kind, vars, bucketVars, sessionVars>>
  \/ kind = "questions" /\ AskNext /\ UNCHANGED <<kind, vars, winVars, sessionVars>>
  \/ kind = "widget" /\ WidgetNext /\ UNCHANGED <<kind, vars, winVars, sessionVars>>
  \/ kind = "sessions" /\ SessionsNext /\ TwoCalls /\ UNCHANGED <<kind, vars, winVars, bucketVars>>

ServicesSpec == OneOfThem /\ [][OneStep]_<<kind, vars, winVars, bucketVars, sessionVars>>
==============================================================================
