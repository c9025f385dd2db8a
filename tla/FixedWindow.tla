----------------------------- MODULE FixedWindow -----------------------------
(***************************************************************************)
(* The fixed-window limiter (fixed-window-rate-limiter.ts) behind the login *)
(* throttle (login-throttle.guard.ts).  Redis counts the hits of a key with *)
(* one script; when its answer does not come in time the API instance counts *)
(* in its own memory, and the script may still run later.                  *)
(***************************************************************************)
EXTENDS Naturals, LimiterPlaces

CONSTANTS Spellings,    \* the ways an email can be typed
          Emails,       \* the emails, as normalizeEmail writes them
          Normalize,    \* normalizeEmail: trimmed and in lower case
          Limit, Window,
          MaxLate       \* bound: scripts under way after their timeout, per key

ASSUME FixedWindowAssumption ==
  /\ Normalize \in [Spellings -> Emails]
  /\ Limit \in Nat /\ Window \in Nat \ {0}
  /\ MaxLate \in Nat

VARIABLES
  second,   \* the time
  window,   \* per place and key: the count, and when it starts again
  lateHits, \* per key: scripts that timed out and have not run
  watched,  \* observer: the moment from which it watches, or NotYet
  passed    \* observer: per place and key, hits let through since then

winVars == <<second, window, lateHits, watched, passed>>

Closed == [count |-> 0, resetAt |-> 0]

WindowTypeOK ==
  /\ second \in 0..Horizon
  /\ window \in [Places -> [Emails -> [count : 0..(Limit + 1), resetAt : 0..(Horizon + Window)]]]
  /\ lateHits \in [Emails -> 0..MaxLate]
  /\ watched \in 0..NotYet
  /\ passed \in [Places -> [Emails -> Nat]]
  \* Every count ends: no key is locked out for good, however often it is hit.
  /\ \A p \in Places, e \in Emails :
       window[p][e].count > 0 => window[p][e].resetAt \in 1..(second + Window)

WindowInit ==
  /\ second = 0
  /\ window = [p \in Places |-> [e \in Emails |-> Closed]]
  /\ lateHits = [e \in Emails |-> 0]
  /\ watched = NotYet /\ passed = [p \in Places |-> [e \in Emails |-> 0]]

\* A window that is over counts as none: Redis expires the key, and hitLocal
\* starts again (its sweep of a large map drops the same entries).
Open(w) == IF w.resetAt <= second THEN Closed ELSE w

\* Counts past the limit are all alike.
OneMore(n) == IF n > Limit THEN n ELSE n + 1

\* Mutant of Counted: every hit starts the window again from zero.
CountedAnew(w) == [count |-> 1, resetAt |-> second + Window]

\* INCR and, on the first hit, EXPIRE, in one script; hitLocal does the same.
Counted(w) ==
  IF Open(w).count = 0 THEN [count |-> 1, resetAt |-> second + Window]
  ELSE [Open(w) EXCEPT !.count = OneMore(@)]

\* Counts a hit of e at place p and lets it through up to the limit.  The
\* observer notes those let through.
Hit(p, e) ==
  LET w == Counted(window[p][e])
  IN /\ window' = [window EXCEPT ![p][e] = w]
     /\ passed' = IF watched # NotYet /\ w.count <= Limit
                  THEN [passed EXCEPT ![p][e] = @ + 1] ELSE passed

\* The guard's key, for one client address: the normalised email, whatever was
\* typed; a body without one counts under a key of its own.
Key(s) == Normalize[s]

\* Redis answers within 250 ms.
Attempt(s) ==
  /\ Hit(Shared, Key(s))
  /\ UNCHANGED <<second, lateHits, watched>>

\* It does not: the instance counts, and the script may still be under way.
AttemptDegraded(i, s) ==
  /\ Hit(i, Key(s))
  /\ \/ lateHits[Key(s)] < MaxLate /\ lateHits' = [lateHits EXCEPT ![Key(s)] = @ + 1]
     \/ UNCHANGED lateHits
  /\ UNCHANGED <<second, watched>>

\* A script that had timed out runs: it counts, and nobody reads its answer.
LateHit(e) ==
  /\ lateHits[e] > 0
  /\ window' = [window EXCEPT ![Shared][e] = Counted(@)]
  /\ lateHits' = [lateHits EXCEPT ![e] = @ - 1]
  /\ UNCHANGED <<second, watched, passed>>

WindowTick ==
  /\ second < Horizon
  /\ second' = second + 1
  /\ window' = [p \in Places |-> [e \in Emails |->
                  IF window[p][e].resetAt <= second + 1 THEN Closed ELSE window[p][e]]]
  /\ UNCHANGED <<lateHits, watched, passed>>

\* The observer starts watching.
Watch ==
  /\ watched = NotYet
  /\ watched' = second
  /\ UNCHANGED <<second, window, lateHits, passed>>

WindowNext ==
  \/ \E s \in Spellings : Attempt(s) \/ \E i \in Instances : AttemptDegraded(i, s)
  \/ \E e \in Emails : LateHit(e)
  \/ WindowTick \/ Watch

WindowSpec == WindowInit /\ [][WindowNext]_winVars

-----------------------------------------------------------------------------
\* The boundary burst is the worst: in any stretch of one window's length a
\* place lets an email through at most twice the limit, however it is typed,
\* also when scripts run late; so N instances and Redis let through at most
\* N + 1 times that.
TwiceTheLimit ==
  watched # NotYet /\ second < watched + Window =>
    \A p \in Places, e \in Emails : passed[p][e] <= 2 * Limit

\* A window that is open ends when it was going to: hits, late scripts
\* included, neither prolong a lockout nor cut it short.
NeverProlonged ==
  [][\A p \in Places, e \in Emails :
       window[p][e].count > 0 /\ window'[p][e].count > 0
         /\ second' < window[p][e].resetAt
       => window'[p][e].resetAt = window[p][e].resetAt
          /\ window'[p][e].count >= window[p][e].count]_winVars

\* A lockout is as strict and as long as it was announced, in Redis and in an
\* instance that stands in for it.
WindowsHold == [](WindowTypeOK /\ TwiceTheLimit) /\ NeverProlonged
=============================================================================
