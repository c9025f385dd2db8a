----------------------------- MODULE AnswerCache -----------------------------
(***************************************************************************)
(* One question in one workspace: the turns that ask it, the cached answer *)
(* and its lock in Redis (answer-cache.service.ts, AnswerService.produce   *)
(* and runPipeline), and the changes to the documents it is answered from. *)
(*                                                                         *)
(* The knowledge base is a number that grows with every change retrieval   *)
(* can see, and an answer is the number it was generated from.  A cache    *)
(* key differs only in the knowledge version it was built with, so entries *)
(* and locks are functions of the version.                                 *)
(*                                                                         *)
(* Redis may stop answering.  A command then times out for its caller and  *)
(* is still executed, in order, when Redis goes on (with-timeout.ts:1-4),  *)
(* or is refused by a broken connection.                                   *)
(*                                                                         *)
(* Left out: turns with history, which never touch the cache, and the      *)
(* shadow tier, which is measured and never served.                        *)
(* Bounds: MaxChanges changes of the knowledge base and as many versions.  *)
(***************************************************************************)
EXTENDS Naturals, Sequences

CONSTANTS
  Requests,    \* turns asking the question; each also stands for its lock token
  Changers,    \* document operations that change chunks and then bump the version
  Nobody, NoAnswer,
  MaxChanges

ASSUME CacheAssumption ==
  Nobody \notin Requests /\ NoAnswer \notin Nat /\ MaxChanges \in Nat

VARIABLES
  content,    \* what retrieval finds now
  version,    \* workspaces.knowledge_version
  base,       \* history: the content when each version came into being
  owing,      \* operations that changed content and have not bumped yet
  entries,    \* Redis: version -> cached answer
  lock,       \* Redis: version -> token
  redis,      \* "up" or "frozen"
  backlog,    \* commands sent to Redis and not executed yet
  pc,
  key,        \* the version read by getIdentity
  answer,     \* what the request will reply
  hold,       \* LockOutcome of acquire
  overdue,    \* history: requests whose lock ran out while they worked
  dropped     \* history: requests whose release never reached Redis

knowledge == <<content, version, base, owing>>
store     == <<entries, lock, redis, backlog>>
turns     == <<pc, key, answer, hold>>
history   == <<overdue, dropped>>
vars      == <<knowledge, store, turns, history>>

Versions == 0..MaxChanges
Answers  == 0..MaxChanges
Commands == [op: {"set", "acquire", "release"}, key: Versions, token: Requests,
             value: Answers \cup {NoAnswer}]

TypeOK ==
  /\ content \in Answers
  /\ version \in Versions
  /\ base \in [Versions -> Answers]
  /\ owing \subseteq Changers
  /\ entries \in [Versions -> Answers \cup {NoAnswer}]
  /\ lock \in [Versions -> Requests \cup {Nobody}]
  /\ redis \in {"up", "frozen"}
  /\ backlog \in Seq(Commands)
  /\ pc \in [Requests -> {"idle", "look", "acquire", "wait", "probe", "retrieve",
                          "generate", "store", "reply"}]
  /\ key \in [Requests -> Versions]
  /\ answer \in [Requests -> Answers \cup {NoAnswer}]
  /\ hold \in [Requests -> {"none", "acquired", "unavailable"}]
  /\ overdue \subseteq Requests
  /\ dropped \subseteq Requests

Init ==
  /\ content = 0
  /\ version = 0
  /\ base = [v \in Versions |-> 0]
  /\ owing = {}
  /\ entries = [v \in Versions |-> NoAnswer]
  /\ lock = [v \in Versions |-> Nobody]
  /\ redis = "up"
  /\ backlog = <<>>
  /\ pc = [r \in Requests |-> "idle"]
  /\ key = [r \in Requests |-> 0]
  /\ answer = [r \in Requests |-> NoAnswer]
  /\ hold = [r \in Requests |-> "none"]
  /\ overdue = {}
  /\ dropped = {}

(***************************************************************************)
(* Documents: the chunks change in one statement, the version in another.  *)
(***************************************************************************)
Change(c) ==
  /\ content < MaxChanges
  /\ content' = content + 1
  /\ owing' = owing \cup {c}
  /\ UNCHANGED <<version, base, store, turns, history>>

BumpKnowledgeVersion(c) ==
  /\ c \in owing /\ version < MaxChanges
  /\ version' = version + 1
  /\ base' = [base EXCEPT ![version + 1] = content]
  /\ owing' = owing \ {c}
  /\ UNCHANGED <<content, store, turns, history>>

(***************************************************************************)
(* Redis.                                                                  *)
(***************************************************************************)
Responsive == redis = "up" /\ backlog = <<>>

Command(op, r) == [op |-> op, key |-> key[r], token |-> r, value |-> answer[r]]

Freeze == redis = "up" /\ redis' = "frozen" /\ UNCHANGED <<knowledge, entries, lock, backlog, turns, history>>
Thaw   == redis = "frozen" /\ redis' = "up" /\ UNCHANGED <<knowledge, entries, lock, backlog, turns, history>>

\* Mutant of Execute: a release deletes the lock whoever owns it.
ExecuteDel(c) ==
  /\ entries' = IF c.op = "set" THEN [entries EXCEPT ![c.key] = c.value] ELSE entries
  /\ lock' = CASE c.op = "acquire" /\ lock[c.key] = Nobody -> [lock EXCEPT ![c.key] = c.token]
               [] c.op = "release" -> [lock EXCEPT ![c.key] = Nobody]
               [] OTHER -> lock

\* SET, SET NX and RELEASE_IF_OWNED.
Execute(c) ==
  /\ entries' = IF c.op = "set" THEN [entries EXCEPT ![c.key] = c.value] ELSE entries
  /\ lock' = CASE c.op = "acquire" /\ lock[c.key] = Nobody -> [lock EXCEPT ![c.key] = c.token]
               [] c.op = "release" /\ lock[c.key] = c.token -> [lock EXCEPT ![c.key] = Nobody]
               [] OTHER -> lock

CatchUp ==
  /\ redis = "up" /\ backlog # <<>>
  /\ Execute(Head(backlog))
  /\ backlog' = Tail(backlog)
  /\ UNCHANGED <<knowledge, redis, turns, history>>

ExpireEntry(v) ==
  /\ entries[v] # NoAnswer
  /\ entries' = [entries EXCEPT ![v] = NoAnswer]
  /\ UNCHANGED <<knowledge, lock, redis, backlog, turns, history>>

\* LOCK_TTL_MS is over.
ExpireLock(v) ==
  /\ lock[v] # Nobody
  /\ overdue' = overdue \cup {lock[v]}
  /\ lock' = [lock EXCEPT ![v] = Nobody]
  /\ UNCHANGED <<knowledge, entries, redis, backlog, turns, dropped>>

(***************************************************************************)
(* A turn without history (AnswerService.produce, runPipeline).            *)
(***************************************************************************)
Goto(r, label) == pc' = [pc EXCEPT ![r] = label]

\* A token is a fresh UUID: a slot is used again when nothing is left of it.
Forgotten(r) ==
  /\ \A v \in Versions : lock[v] # r
  /\ \A i \in 1..Len(backlog) : backlog[i].token # r

GetIdentity(r) ==
  /\ pc[r] = "idle" /\ Forgotten(r)
  /\ key' = [key EXCEPT ![r] = version]
  /\ answer' = [answer EXCEPT ![r] = NoAnswer]
  /\ hold' = [hold EXCEPT ![r] = "none"]
  /\ overdue' = overdue \ {r}
  /\ dropped' = dropped \ {r}
  /\ Goto(r, "look")
  /\ UNCHANGED <<knowledge, store>>

\* answerCache.get: the entry, or a miss when there is none or Redis is silent.
Read(r, onHit, onMiss) ==
  LET found == IF Responsive THEN entries[key[r]] ELSE NoAnswer IN
  /\ answer' = [answer EXCEPT ![r] = found]
  /\ Goto(r, IF found # NoAnswer THEN onHit ELSE onMiss)
  /\ UNCHANGED <<knowledge, store, key, hold, history>>

Look(r) == pc[r] = "look" /\ Read(r, "reply", "acquire")

Acquire(r) ==
  /\ pc[r] = "acquire"
  /\ \/ /\ Responsive /\ lock[key[r]] = Nobody
        /\ lock' = [lock EXCEPT ![key[r]] = r]
        /\ hold' = [hold EXCEPT ![r] = "acquired"]
        /\ Goto(r, "retrieve")
        /\ UNCHANGED backlog
     \/ /\ Responsive /\ lock[key[r]] # Nobody
        /\ Goto(r, "wait")
        /\ UNCHANGED <<lock, hold, backlog>>
     \/ /\ ~Responsive
        /\ backlog' \in {Append(backlog, Command("acquire", r)), backlog}
        /\ hold' = [hold EXCEPT ![r] = "unavailable"]
        /\ Goto(r, "retrieve")
        /\ UNCHANGED lock
  /\ UNCHANGED <<knowledge, entries, redis, key, answer, history>>

\* waitForEntry reads the entry, then asks whether the lock is still held.
Poll(r) == pc[r] = "wait" /\ Read(r, "reply", "probe")

Probe(r) ==
  /\ pc[r] = "probe"
  /\ Goto(r, IF Responsive /\ lock[key[r]] # Nobody THEN "wait" ELSE "retrieve")
  /\ UNCHANGED <<knowledge, store, key, answer, hold, history>>

\* MAX_WAIT_MS is over.
GiveUpWaiting(r) ==
  /\ pc[r] = "wait"
  /\ Goto(r, "retrieve")
  /\ UNCHANGED <<knowledge, store, key, answer, hold, history>>

\* One SQL statement reads the chunks the answer is generated from.
Retrieve(r) ==
  /\ pc[r] = "retrieve"
  /\ answer' = [answer EXCEPT ![r] = content]
  /\ Goto(r, "generate")
  /\ UNCHANGED <<knowledge, store, key, hold, history>>

\* An answer is cached; a refusal, an escalation or an error is not.
Generate(r) ==
  /\ pc[r] = "generate"
  /\ Goto(r, "store") \/ Goto(r, "reply")
  /\ UNCHANGED <<knowledge, store, key, answer, hold, history>>

\* Mutant of Store: the key is built from the version at the time of writing.
StoreUnderLatest(r) ==
  /\ pc[r] = "store"
  /\ IF Responsive THEN entries' = [entries EXCEPT ![version] = answer[r]] /\ UNCHANGED backlog
                   ELSE UNCHANGED <<entries, backlog>>
  /\ Goto(r, "reply")
  /\ UNCHANGED <<knowledge, lock, redis, key, answer, hold, history>>

Store(r) ==
  /\ pc[r] = "store"
  /\ IF Responsive THEN entries' = [entries EXCEPT ![key[r]] = answer[r]] /\ UNCHANGED backlog
                   ELSE /\ backlog' \in {Append(backlog, Command("set", r)), backlog}
                        /\ UNCHANGED entries
  /\ Goto(r, "reply")
  /\ UNCHANGED <<knowledge, lock, redis, key, answer, hold, history>>

\* The turn is persisted (or fails) and, in the finally block, its lock released,
\* also when acquire only timed out: the release queues behind the late SET NX.
Reply(r) ==
  /\ pc[r] = "reply"
  /\ \/ /\ hold[r] = "none"
        /\ UNCHANGED <<entries, lock, backlog, dropped>>
     \/ /\ hold[r] # "none" /\ Responsive
        /\ Execute(Command("release", r))
        /\ UNCHANGED <<backlog, dropped>>
     \/ /\ hold[r] # "none" /\ ~Responsive
        /\ \/ backlog' = Append(backlog, Command("release", r)) /\ UNCHANGED dropped
           \/ dropped' = dropped \cup {r} /\ UNCHANGED backlog
        /\ UNCHANGED <<entries, lock>>
  /\ Goto(r, "idle")
  /\ UNCHANGED <<knowledge, redis, key, answer, hold, overdue>>

\* The process dies: its turns and operations stop where they are.
Crash ==
  /\ pc' = [r \in Requests |-> "idle"]
  /\ dropped' = dropped \cup {r \in Requests : pc[r] # "idle"}
  /\ owing' = {}
  /\ UNCHANGED <<content, version, base, store, key, answer, hold, overdue>>

RequestStep(r) ==
  \/ GetIdentity(r) \/ Look(r) \/ Acquire(r) \/ Poll(r) \/ Probe(r) \/ GiveUpWaiting(r)
  \/ Retrieve(r) \/ Generate(r) \/ Store(r) \/ Reply(r)

Next ==
  \/ \E c \in Changers : Change(c) \/ BumpKnowledgeVersion(c)
  \/ Freeze \/ Thaw \/ CatchUp
  \/ \E v \in Versions : ExpireEntry(v) \/ ExpireLock(v)
  \/ \E r \in Requests : RequestStep(r)
  \/ Crash

Spec == Init /\ [][Next]_vars

(***************************************************************************)
(* Properties.                                                             *)
(***************************************************************************)

\* A question asked after a change was announced by its bump is never answered,
\* from the cache or otherwise, with what was there before that change: every
\* answer, entry and late write is at least as new as the version of its key.
AnswersNotOutdated ==
  /\ \A v \in Versions : entries[v] # NoAnswer => entries[v] >= base[v]
  /\ \A r \in Requests : answer[r] # NoAnswer => answer[r] >= base[key[r]]
  /\ \A i \in 1..Len(backlog) :
       backlog[i].op = "set" => backlog[i].value >= base[backlog[i].key]

Working(r) == pc[r] \in {"retrieve", "generate", "store", "reply"}

\* Two turns generate the same answer under one lock only if it ran out on one of
\* them: no release ever takes away the lock of another turn.
SingleFlight ==
  \A p, q \in Requests :
    /\ Working(p) /\ hold[p] = "acquired"
    /\ Working(q) /\ hold[q] = "acquired"
    /\ key[p] = key[q]
    => p = q \/ p \in overdue \/ q \in overdue

\* A lock nobody is working under is about to be deleted, unless the release was
\* refused or its process died, which is what the lock's lifetime is for.
LocksAreOwned ==
  \A v \in Versions : lock[v] # Nobody =>
    \/ Working(lock[v]) /\ hold[lock[v]] # "none" /\ key[lock[v]] = v
    \/ \E i \in 1..Len(backlog) :
         backlog[i].op = "release" /\ backlog[i].token = lock[v] /\ backlog[i].key = v
    \/ lock[v] \in dropped

\* A lock belongs to one turn, is given up by that turn only, and is not left behind.
LocksAreKept == TypeOK /\ SingleFlight /\ LocksAreOwned
==============================================================================
