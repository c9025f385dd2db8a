----------------------------- MODULE TokenBucket -----------------------------
(***************************************************************************)
(* The token buckets (token-bucket-rate-limiter.ts) and the guards that use *)
(* them: one bucket per workspace for questions (ask-rate-limit.guard.ts),  *)
(* and for the widget one per visitor and one per site, both of which must  *)
(* have a token (widget-rate-limit.guard.ts).                              *)
(*                                                                         *)
(* Redis keeps the shared buckets on its own clock.  When it does not       *)
(* answer in time the instance uses a bucket of its own on its own clock,   *)
(* which may be set back; the script may still run later.                  *)
(***************************************************************************)
EXTENDS Integers, LimiterPlaces

CONSTANTS Buckets,      \* the keys
          Own,          \* the visitors' buckets, a subset
          Site, Ask,    \* the site's bucket and a workspace's
          Capacity,     \* per bucket, in parts of a token
          Rate,         \* parts of a token per tick, per bucket
          Cost,         \* parts in a token
          MaxSteps      \* bound: times an instance's clock is set back

ASSUME TokenBucketAssumption ==
  /\ Buckets = Own \cup {Site, Ask} /\ Site # Ask /\ {Site, Ask} \cap Own = {}
  /\ Capacity \in [Buckets -> Nat] /\ Rate \in [Buckets -> Nat \ {0}]
  /\ Cost \in Nat \ {0} /\ \A b \in Buckets : Cost <= Capacity[b]
  /\ MaxSteps \in Nat

VARIABLES
  now,       \* the time, on Redis's clock
  behind,    \* how far each place's clock is behind it
  level,     \* per place and bucket: tokens, the time they were counted
             \* and, in Redis, the time the key expires
  waiting,   \* the visitors whose message has its own token and not the site's
  late,      \* the buckets with a script that timed out and has not run
  since,     \* observer: the moment from which it watches, or NotYet
  subject,   \* observer: the place and the bucket it watches
  granted,   \* observer: tokens granted since then
  promised,  \* observer: when Redis told a refused caller to come back, or 0
  unspent    \* history: messages the visitors' buckets allowed, less the
             \* tokens drawn from the site's shared bucket

bucketVars == <<now, behind, level, waiting, late, since, subject, granted, promised, unspent>>

Min2(a, b) == IF a < b THEN a ELSE b
Max2(a, b) == IF a < b THEN b ELSE a
CeilDiv(a, b) == (a + b - 1) \div b

Clock(p) == now - behind[p]
Full(b, at) == [tokens |-> Capacity[b], ts |-> at, ttl |-> 0]

\* Mutant of Ttl: the time to earn one token.
TtlOfToken(b) == CeilDiv(Cost, Rate[b])

\* ttlMs: once it would be full again a bucket is as good as new.
Ttl(b) == CeilDiv(Capacity[b], Rate[b]) + 1

BucketTypeOK ==
  /\ now \in 0..Horizon
  /\ behind \in [Places -> 0..MaxSteps] /\ behind[Shared] = 0
  /\ waiting \in SUBSET Own /\ late \in SUBSET Buckets
  /\ since \in 0..NotYet
  /\ subject \in Places \X Buckets
  /\ granted \in Nat /\ promised \in Nat /\ unspent \in Int
  /\ \A p \in Places, b \in Buckets : level[p][b].tokens <= Capacity[b]
  \* The shared buckets never owe anything; a local one may, after its clock
  \* was set back.
  /\ \A b \in Buckets : level[Shared][b].tokens >= 0

BucketInit ==
  /\ now = 0 /\ behind = [p \in Places |-> 0]
  /\ level = [p \in Places |-> [b \in Buckets |-> Full(b, 0)]]
  /\ waiting = {} /\ late = {}
  /\ since = NotYet /\ subject \in Places \X Buckets
  /\ granted = 0 /\ promised = 0 /\ unspent = 0

\* The tokens of a bucket at this moment.  TAKE never counts time backwards;
\* takeLocal has no such guard.
Refilled(p, b) ==
  LET l == level[p][b]
      t == Clock(p) - l.ts
  IN Min2(Capacity[b], l.tokens + (IF p = Shared THEN Max2(0, t) ELSE t) * Rate[b])

Allows(p, b) == Refilled(p, b) >= Cost

\* The bucket after a take, granted or refused.
Taken(p, b) ==
  [tokens |-> Refilled(p, b) - (IF Allows(p, b) THEN Cost ELSE 0), ts |-> Clock(p),
   ttl |-> IF p = Shared THEN now + Ttl(b) ELSE 0]

\* retryAfterMs of a refusal.
RetryAfter(p, b) == CeilDiv(Cost - Refilled(p, b), Rate[b])

\* What the observer notes of an answer.
Noted(p, b) ==
  IF <<p, b>> # subject THEN UNCHANGED <<granted, promised>>
  ELSE IF Allows(p, b)
  THEN granted' = (IF since # NotYet THEN granted + 1 ELSE granted) /\ promised' = 0
  ELSE promised' = (IF p = Shared THEN now + RetryAfter(p, b) ELSE 0) /\ UNCHANGED granted

\* take(): at Redis when it answers in time, else at the instance, and then
\* the script may still be under way.
Take(p, b) ==
  /\ level' = [level EXCEPT ![p][b] = Taken(p, b)]
  /\ Noted(p, b)
  /\ IF p = Shared THEN UNCHANGED late ELSE late' \in {late, late \cup {b}}

\* A token of the site's shared bucket, if it has one.
Draws(p) == IF p = Shared /\ Allows(p, Site) THEN 1 ELSE 0

\* AskRateLimitGuard.
Question(p) ==
  /\ Take(p, Ask) /\ UNCHANGED unspent
  /\ UNCHANGED <<now, behind, waiting, since, subject>>

\* WidgetRateLimitGuard: the visitor's own bucket first.
MessageOwn(p, v) ==
  /\ v \notin waiting
  /\ Take(p, v)
  /\ waiting' = IF Allows(p, v) THEN waiting \cup {v} ELSE waiting
  /\ unspent' = IF Allows(p, v) THEN unspent + 1 ELSE unspent
  /\ UNCHANGED <<now, behind, since, subject>>

\* Then the site's; refused there, the message is dropped and the visitor's
\* own token is gone.
MessageSite(p, v) ==
  /\ v \in waiting
  /\ Take(p, Site)
  /\ waiting' = waiting \ {v}
  /\ unspent' = unspent - Draws(p)
  /\ UNCHANGED <<now, behind, since, subject>>

\* A script that had timed out runs: a token may go that nobody used.
LateTake(b) ==
  /\ b \in late
  /\ level' = [level EXCEPT ![Shared][b] = Taken(Shared, b)]
  /\ Noted(Shared, b)
  /\ unspent' = IF b = Site THEN unspent - Draws(Shared) ELSE unspent
  /\ late' = late \ {b}
  /\ UNCHANGED <<now, behind, waiting, since, subject>>

\* Redis forgets the buckets whose time is up.
BucketTick ==
  /\ now < Horizon
  /\ now' = now + 1
  /\ level' = [level EXCEPT ![Shared] = [b \in Buckets |->
                 IF @[b].ttl # 0 /\ @[b].ttl <= now + 1 THEN Full(b, now + 1) ELSE @[b]]]
  /\ UNCHANGED <<behind, waiting, late, since, subject, granted, promised, unspent>>

\* The operating system sets an instance's clock back.
ClockSetBack(i) ==
  /\ behind[i] < MaxSteps
  /\ behind' = [behind EXCEPT ![i] = @ + 1]
  /\ UNCHANGED <<now, level, waiting, late, since, subject, granted, promised, unspent>>

Observe ==
  /\ since = NotYet
  /\ since' = now
  /\ UNCHANGED <<now, behind, level, waiting, late, subject, granted, promised, unspent>>

Passes ==
  BucketTick \/ Observe \/ \E i \in Instances : ClockSetBack(i)

\* The calls of the question endpoint.
AskNext == LateTake(Ask) \/ Passes \/ \E p \in Places : Question(p)

\* Those of the widget's gateway.
WidgetNext ==
  \/ Passes \/ \E b \in Own \cup {Site} : LateTake(b)
  \/ \E p \in Places, v \in Own : MessageOwn(p, v) \/ MessageSite(p, v)

BucketNext == AskNext \/ WidgetNext

BucketSpec == BucketInit /\ [][BucketNext]_bucketVars

-----------------------------------------------------------------------------
\* "A sustained rate plus a deliberate, capped burst": from any moment on, no
\* place grants more than a full bucket and what has been earned since, also
\* when keys expire, scripts run late or an instance's clock is set back.
BurstAndRate ==
  since # NotYet =>
    granted * Cost <= Capacity[subject[2]] + (now - since) * Rate[subject[2]]

\* A visitor whose own messages are refused spends nothing of the site's.
SiteIsShielded == unspent >= 0

\* A refusal's Retry-After is true: at that time, if nobody was served in
\* between, the shared bucket has a token.
RetryIsHonest ==
  promised # 0 /\ now >= promised => Allows(Shared, subject[2])

\* The buckets keep their rate and their promises to visitors.
BucketsHold == BucketTypeOK /\ BurstAndRate /\ SiteIsShielded /\ RetryIsHonest
=============================================================================
