---------------------------- MODULE RedisProofs ----------------------------
(***************************************************************************)
(* Proofs about the users of Redis: the answer cache and its locks         *)
(* (AnswerCache), for any number of turns and of document operations; the  *)
(* login throttle (FixedWindow) and the token buckets (TokenBucket), for   *)
(* any number of API instances, keys and late scripts.                     *)
(***************************************************************************)
EXTENDS AnswerCache, FixedWindow, TokenBucket, SequenceTheorems, FiniteSetTheorems, TLAPS

-----------------------------------------------------------------------------
(* Types.                                                                   *)

LEMMA InitTypes == Init => TypeOK
BY CacheAssumption DEF Init, TypeOK, Versions, Answers

\* What a request sends is a well-formed command.
LEMMA CommandType ==
  ASSUME TypeOK, NEW r \in Requests, NEW op \in {"set", "acquire", "release"}
  PROVE  Command(op, r) \in Commands
BY DEF TypeOK, Command, Commands

\* Executing a command keeps the types of the cache and of the locks.
LEMMA ExecuteTypes ==
  ASSUME TypeOK, NEW c \in Commands, Execute(c)
  PROVE  /\ entries' \in [Versions -> Answers \cup {NoAnswer}]
         /\ lock' \in [Versions -> Requests \cup {Nobody}]
BY DEF TypeOK, Commands, Execute

LEMMA RequestTypes ==
  ASSUME TypeOK, NEW r \in Requests, RequestStep(r)
  PROVE  TypeOK'
<1> USE DEF TypeOK, Goto, knowledge, store, history
<1>1. CASE GetIdentity(r)
  BY <1>1 DEF GetIdentity
<1>2. CASE Look(r) \/ Poll(r)
  BY <1>2 DEF Look, Poll, Read
<1>3. CASE Acquire(r)
  <2>1. Command("acquire", r) \in Commands
    BY CommandType
  <2>2. backlog' \in Seq(Commands)
    <3>1. backlog' = Append(backlog, Command("acquire", r)) \/ backlog' = backlog
      BY <1>3 DEF Acquire, Responsive
    <3> QED  BY <2>1, <3>1, AppendProperties
  <2>3. lock' \in [Versions -> Requests \cup {Nobody}]
    BY <1>3 DEF Acquire
  <2>4. hold' \in [Requests -> {"none", "acquired", "unavailable"}]
    BY <1>3 DEF Acquire
  <2>5. pc' = [pc EXCEPT ![r] = "retrieve"] \/ pc' = [pc EXCEPT ![r] = "wait"]
    BY <1>3 DEF Acquire
  <2> QED  BY <1>3, <2>2, <2>3, <2>4, <2>5 DEF Acquire
<1>4. CASE Probe(r) \/ GiveUpWaiting(r) \/ Generate(r)
  BY <1>4 DEF Probe, GiveUpWaiting, Generate
<1>5. CASE Retrieve(r)
  BY <1>5 DEF Retrieve
<1>6. CASE Store(r)
  <2>1. Command("set", r) \in Commands
    BY CommandType
  <2>2. backlog' = Append(backlog, Command("set", r)) \/ backlog' = backlog
    BY <1>6 DEF Store, Responsive
  <2>3. backlog' \in Seq(Commands)
    BY <2>1, <2>2, AppendProperties
  <2>4. entries' \in [Versions -> Answers \cup {NoAnswer}]
    BY <1>6 DEF Store, Responsive
  <2> QED  BY <1>6, <2>3, <2>4 DEF Store
<1>7. CASE Reply(r)
  <2>1. Command("release", r) \in Commands
    BY CommandType
  <2>2. CASE hold[r] # "none" /\ Execute(Command("release", r)) /\ UNCHANGED <<backlog, dropped>>
    <3>1. /\ entries' \in [Versions -> Answers \cup {NoAnswer}]
          /\ lock' \in [Versions -> Requests \cup {Nobody}]
      BY <2>1, <2>2, ExecuteTypes
    <3> QED  BY <1>7, <2>2, <3>1 DEF Reply
  <2>3. CASE /\ UNCHANGED <<entries, lock>>
             /\ \/ UNCHANGED <<backlog, dropped>>
                \/ backlog' = Append(backlog, Command("release", r)) /\ UNCHANGED dropped
                \/ dropped' = dropped \cup {r} /\ UNCHANGED backlog
    <3>1. backlog' = Append(backlog, Command("release", r)) \/ backlog' = backlog
      BY <2>3
    <3>2. backlog' \in Seq(Commands)
      BY <2>1, <3>1, AppendProperties
    <3>3. dropped' \subseteq Requests
      BY <2>3
    <3> QED  BY <1>7, <2>3, <3>2, <3>3 DEF Reply
  <2> QED  BY <1>7, <2>2, <2>3 DEF Reply, Responsive
<1> QED
  BY <1>1, <1>2, <1>3, <1>4, <1>5, <1>6, <1>7 DEF RequestStep

LEMMA NextTypes == TypeOK /\ [Next]_vars => TypeOK'
<1> SUFFICES ASSUME TypeOK, [Next]_vars PROVE TypeOK'
  OBVIOUS
<1>1. CASE UNCHANGED vars
  BY <1>1 DEF TypeOK, vars, knowledge, store, turns, history
<1>2. ASSUME NEW c \in Changers, Change(c) PROVE TypeOK'
  <2>1. content \in 0..MaxChanges /\ content < MaxChanges /\ content' = content + 1
    BY <1>2 DEF TypeOK, Change, Answers
  <2>2. content' \in Answers
    BY <2>1, CacheAssumption DEF Answers
  <2>3. owing' \subseteq Changers
    BY <1>2 DEF TypeOK, Change
  <2> QED  BY <1>2, <2>2, <2>3 DEF TypeOK, Change, store, turns, history
<1>8. ASSUME NEW c \in Changers, BumpKnowledgeVersion(c) PROVE TypeOK'
  <2>1. version' \in Versions
    BY <1>8, CacheAssumption DEF TypeOK, BumpKnowledgeVersion, Versions
  <2>2. base' \in [Versions -> Answers]
    BY <1>8 DEF TypeOK, BumpKnowledgeVersion
  <2> QED  BY <1>8, <2>1, <2>2 DEF TypeOK, BumpKnowledgeVersion, store, turns, history
<1>3. CASE Freeze \/ Thaw
  BY <1>3 DEF TypeOK, Freeze, Thaw, knowledge, turns, history
<1>4. CASE CatchUp
  <2>1. Head(backlog) \in Commands /\ Tail(backlog) \in Seq(Commands)
    BY <1>4 DEF CatchUp, TypeOK
  <2>2. /\ entries' \in [Versions -> Answers \cup {NoAnswer}]
        /\ lock' \in [Versions -> Requests \cup {Nobody}]
    BY <1>4, <2>1, ExecuteTypes DEF CatchUp
  <2> QED  BY <1>4, <2>1, <2>2 DEF TypeOK, CatchUp, knowledge, turns, history
<1>5. ASSUME NEW v \in Versions, ExpireEntry(v) \/ ExpireLock(v)
      PROVE  TypeOK'
  BY <1>5 DEF TypeOK, ExpireEntry, ExpireLock, knowledge, turns, history
<1>6. CASE \E r \in Requests : RequestStep(r)
  BY <1>6, RequestTypes
<1>7. CASE Crash
  BY <1>7 DEF TypeOK, Crash, store
<1> QED
  BY <1>1, <1>2, <1>3, <1>4, <1>5, <1>6, <1>7, <1>8 DEF Next

\* Types and ranges of the cache, its locks and the turns, for any number of turns.
THEOREM TypeCorrect == Spec => []TypeOK
<1> QED  BY InitTypes, NextTypes, PTL DEF Spec

-----------------------------------------------------------------------------
(* The ages of answers: every key in use names a version that exists, and   *)
(* what is found now is at least as new as any version.                     *)

Ages ==
  /\ \A v \in Versions : v <= version => base[v] <= content
  /\ \A v \in Versions : entries[v] # NoAnswer => v <= version
  /\ \A r \in Requests : key[r] <= version
  /\ \A r \in Requests : pc[r] \in {"generate", "store"} => answer[r] # NoAnswer
  /\ \A i \in 1..Len(backlog) :
       backlog[i].key <= version /\ (backlog[i].op = "set" => backlog[i].value # NoAnswer)
  /\ AnswersNotOutdated

\* A command that may be sent to Redis without making anything outdated.
Sound(c) ==
  /\ c \in Commands /\ c.key <= version
  /\ c.op = "set" => c.value # NoAnswer /\ c.value >= base[c.key]

LEMMA AppendedCommands ==
  ASSUME TypeOK, NEW c \in Commands, backlog' = Append(backlog, c)
  PROVE  /\ Len(backlog) \in Nat /\ Len(backlog') = Len(backlog) + 1
         /\ \A i \in 1..Len(backlog) : backlog'[i] = backlog[i]
         /\ backlog'[Len(backlog) + 1] = c
BY AppendProperties DEF TypeOK

LEMMA CommandsSent ==
  ASSUME TypeOK, NEW i \in 1..Len(backlog)
  PROVE  /\ backlog[i] \in Commands
         /\ backlog[i].token \in Requests
         /\ backlog[i].key \in Versions
<1>1. backlog[i] \in Commands
  BY ElementOfSeq DEF TypeOK
<1> QED  BY <1>1 DEF Commands

LEMMA ExecutedCommand ==
  ASSUME TypeOK, CatchUp
  PROVE  /\ Len(backlog) \in Nat \ {0} /\ Len(backlog') = Len(backlog) - 1
         /\ \A i \in 1..Len(backlog') : backlog'[i] = backlog[i + 1]
         /\ Head(backlog) = backlog[1] /\ backlog[1] \in Commands
         /\ Execute(backlog[1])
BY HeadTailProperties DEF TypeOK, CatchUp

\* Sending a sound command keeps the backlog sound.
LEMMA SoundBacklog ==
  ASSUME TypeOK, Ages, UNCHANGED knowledge, NEW c, Sound(c), backlog' = Append(backlog, c)
  PROVE  \A i \in 1..Len(backlog') :
           /\ backlog'[i].key <= version
           /\ backlog'[i].op = "set" => backlog'[i].value # NoAnswer /\ backlog'[i].value >= base[backlog'[i].key]
<1>1. /\ Len(backlog) \in Nat /\ Len(backlog') = Len(backlog) + 1
      /\ \A i \in 1..Len(backlog) : backlog'[i] = backlog[i]
      /\ backlog'[Len(backlog) + 1] = c
  BY AppendedCommands DEF Sound
<1> SUFFICES ASSUME NEW i \in 1..Len(backlog')
    PROVE  /\ backlog'[i].key <= version
           /\ backlog'[i].op = "set" => backlog'[i].value # NoAnswer /\ backlog'[i].value >= base[backlog'[i].key]
  OBVIOUS
<1>2. CASE i \in 1..Len(backlog)
  BY <1>1, <1>2 DEF Ages, AnswersNotOutdated
<1>3. CASE i = Len(backlog) + 1
  BY <1>1, <1>3 DEF Sound
<1> QED  BY <1>1, <1>2, <1>3

LEMMA RequestAges ==
  ASSUME TypeOK, Ages, NEW r \in Requests, RequestStep(r)
  PROVE  Ages'
<1>k. /\ UNCHANGED knowledge
      /\ \A v \in Versions : v \in Nat
      /\ version \in Nat /\ content \in Nat
  <2>1. UNCHANGED knowledge
    BY DEF RequestStep, GetIdentity, Look, Poll, Read, Acquire, Probe, GiveUpWaiting, Retrieve, Generate, Store, Reply
  <2> QED  BY <2>1, CacheAssumption DEF TypeOK, Versions, Answers
<1>1. CASE GetIdentity(r)
  <2>1. /\ \A q \in Requests : key'[q] <= version
        /\ \A q \in Requests : answer'[q] # NoAnswer => q # r /\ answer'[q] = answer[q] /\ key'[q] = key[q]
        /\ \A q \in Requests : pc'[q] \in {"generate", "store"} => q # r /\ pc'[q] = pc[q] /\ answer'[q] = answer[q]
    BY <1>1, <1>k DEF GetIdentity, Goto, TypeOK, Ages
  <2> QED  BY <1>1, <1>k, <2>1 DEF GetIdentity, Ages, AnswersNotOutdated, knowledge, store
<1>2. CASE Look(r) \/ Poll(r)
  <2>1. PICK found \in {entries[key[r]], NoAnswer} : answer' = [answer EXCEPT ![r] = found]
    BY <1>2 DEF Look, Poll, Read, Responsive
  <2>2. \A q \in Requests : pc'[q] \in {"generate", "store"} => q # r /\ pc'[q] = pc[q]
    BY <1>2 DEF Look, Poll, Read, Goto, TypeOK
  <2>3. UNCHANGED <<store, key>>
    BY <1>2 DEF Look, Poll, Read
  <2> QED  BY <1>k, <2>1, <2>2, <2>3 DEF TypeOK, Ages, AnswersNotOutdated, knowledge, store
<1>3. CASE Acquire(r)
  <2>1. Command("acquire", r) \in Commands
    BY CommandType
  <2>2. Sound(Command("acquire", r))
    BY <2>1 DEF Sound, Command, Ages
  <2>3. UNCHANGED <<entries, key, answer>>
    BY <1>3 DEF Acquire
  <2>4. \A q \in Requests : pc'[q] \in {"generate", "store"} => pc'[q] = pc[q]
    BY <1>3 DEF Acquire, Goto, TypeOK, Responsive
  <2>5. backlog' = Append(backlog, Command("acquire", r)) \/ backlog' = backlog
    BY <1>3 DEF Acquire, Responsive
  <2>6. CASE backlog' = Append(backlog, Command("acquire", r))
    BY <1>k, <2>2, <2>3, <2>4, <2>6, SoundBacklog DEF TypeOK, Ages, AnswersNotOutdated, knowledge
  <2>7. CASE backlog' = backlog
    BY <1>k, <2>3, <2>4, <2>7 DEF TypeOK, Ages, AnswersNotOutdated, knowledge
  <2> QED  BY <2>5, <2>6, <2>7
<1>4. CASE Probe(r) \/ GiveUpWaiting(r) \/ Generate(r)
  <2>1. UNCHANGED <<knowledge, store, key, answer>>
    BY <1>4 DEF Probe, GiveUpWaiting, Generate
  <2>2. \A q \in Requests : pc'[q] \in {"generate", "store"} => pc[q] \in {"generate", "store"}
    BY <1>4 DEF Probe, GiveUpWaiting, Generate, Goto, TypeOK
  <2> QED  BY <2>1, <2>2 DEF Ages, AnswersNotOutdated, knowledge, store
<1>5. CASE Retrieve(r)
  <2>1. answer' = [answer EXCEPT ![r] = content] /\ UNCHANGED <<knowledge, store, key>>
    BY <1>5 DEF Retrieve
  <2>2. base[key[r]] <= content /\ content # NoAnswer /\ content \in Nat /\ base[key[r]] \in Nat
    <3>1. key[r] \in Versions /\ base[key[r]] \in Answers /\ content \in Answers
      BY DEF TypeOK
    <3>2. base[key[r]] <= content
      BY <3>1 DEF Ages
    <3>3. Answers \subseteq Nat
      BY CacheAssumption DEF Answers
    <3> QED
      BY <3>1, <3>2, <3>3, CacheAssumption
  <2>3. \A q \in Requests : pc'[q] \in {"generate", "store"} => q = r \/ pc'[q] = pc[q]
    BY <1>5 DEF Retrieve, Goto, TypeOK
  <2> QED  BY <2>1, <2>2, <2>3 DEF TypeOK, Ages, AnswersNotOutdated, knowledge, store
<1>6. CASE Store(r)
  <2>1. answer[r] # NoAnswer /\ answer[r] >= base[key[r]] /\ key[r] <= version
    BY <1>6 DEF Store, Ages, AnswersNotOutdated
  <2>2. Sound(Command("set", r))
    BY <2>1, CommandType DEF Sound, Command
  <2>3. UNCHANGED <<key, answer>>
    BY <1>6 DEF Store
  <2>4. \A q \in Requests : pc'[q] \in {"generate", "store"} => pc'[q] = pc[q]
    BY <1>6 DEF Store, Goto, TypeOK
  <2>5. CASE entries' = [entries EXCEPT ![key[r]] = answer[r]] /\ UNCHANGED backlog
    BY <1>k, <2>1, <2>3, <2>4, <2>5 DEF TypeOK, Ages, AnswersNotOutdated, knowledge
  <2>6. CASE backlog' = Append(backlog, Command("set", r)) /\ UNCHANGED entries
    BY <1>k, <2>2, <2>3, <2>4, <2>6, SoundBacklog DEF TypeOK, Ages, AnswersNotOutdated, knowledge
  <2>7. CASE UNCHANGED <<backlog, entries>>
    BY <1>k, <2>3, <2>4, <2>7 DEF TypeOK, Ages, AnswersNotOutdated, knowledge
  <2> QED  BY <1>6, <2>5, <2>6, <2>7 DEF Store, Responsive
<1>7. CASE Reply(r)
  <2>1. Command("release", r) \in Commands
    BY CommandType
  <2>2. Sound(Command("release", r))
    BY <2>1 DEF Sound, Command, Ages
  <2>3. UNCHANGED <<key, answer, entries>>
    BY <1>7 DEF Reply, Execute, Command
  <2>4. \A q \in Requests : pc'[q] \in {"generate", "store"} => pc'[q] = pc[q]
    BY <1>7 DEF Reply, Goto, TypeOK
  <2>5. CASE backlog' = Append(backlog, Command("release", r))
    BY <1>k, <2>2, <2>3, <2>4, <2>5, SoundBacklog DEF TypeOK, Ages, AnswersNotOutdated, knowledge
  <2>6. CASE UNCHANGED backlog
    BY <1>k, <2>3, <2>4, <2>6 DEF TypeOK, Ages, AnswersNotOutdated, knowledge
  <2> QED  BY <1>7, <2>5, <2>6 DEF Reply
<1> QED
  BY <1>1, <1>2, <1>3, <1>4, <1>5, <1>6, <1>7 DEF RequestStep

LEMMA NextAges == TypeOK /\ Ages /\ [Next]_vars => Ages'
<1> SUFFICES ASSUME TypeOK, Ages, [Next]_vars PROVE Ages'
  OBVIOUS
<1>n. /\ version \in Nat /\ content \in Nat
      /\ \A v \in Versions : v \in Nat /\ base[v] \in Nat
      /\ \A r \in Requests : key[r] \in Nat
  BY CacheAssumption DEF TypeOK, Versions, Answers
<1>1. CASE UNCHANGED vars
  BY <1>1 DEF Ages, AnswersNotOutdated, vars, knowledge, store, turns
<1>2. ASSUME NEW c \in Changers, Change(c) PROVE Ages'
  BY <1>2, <1>n DEF Ages, AnswersNotOutdated, Change, store, turns
<1>3. ASSUME NEW c \in Changers, BumpKnowledgeVersion(c) PROVE Ages'
  <2>1. /\ version' = version + 1
        /\ \A v \in Versions : v <= version => base'[v] = base[v]
        /\ version + 1 \in Versions /\ base'[version + 1] = content
        /\ UNCHANGED <<content, entries, backlog, pc, key, answer>>
    BY <1>3, <1>n, CacheAssumption DEF BumpKnowledgeVersion, TypeOK, Versions, store, turns
  <2>8. \A i \in 1..Len(backlog) : backlog[i].key \in Versions
    BY CommandsSent
  <2>3. (\A v \in Versions : v <= version => base[v] <= content)'
    BY <1>n, <2>1 DEF Ages
  <2>4. (\A v \in Versions : entries[v] # NoAnswer => v <= version /\ entries[v] >= base[v])'
    BY <1>n, <2>1 DEF Ages, AnswersNotOutdated
  <2>5. (\A r \in Requests : key[r] <= version /\ (answer[r] # NoAnswer => answer[r] >= base[key[r]]))'
    BY <1>n, <2>1 DEF Ages, AnswersNotOutdated, TypeOK
  <2>6. (\A i \in 1..Len(backlog) :
           /\ backlog[i].key <= version
           /\ backlog[i].op = "set" => backlog[i].value # NoAnswer /\ backlog[i].value >= base[backlog[i].key])'
    <3> SUFFICES ASSUME NEW i \in 1..Len(backlog)
        PROVE  /\ backlog[i].key <= version'
               /\ backlog[i].op = "set" => backlog[i].value # NoAnswer /\ backlog[i].value >= base'[backlog[i].key]
      BY <2>1
    <3>1. backlog[i].key <= version /\ backlog[i].key \in Versions
      BY <2>8 DEF Ages
    <3>2. backlog[i].key <= version'
      BY <1>n, <2>1, <3>1
    <3> QED  BY <2>1, <3>1, <3>2 DEF Ages, AnswersNotOutdated
  <2>7. (\A r \in Requests : pc[r] \in {"generate", "store"} => answer[r] # NoAnswer)'
    BY <2>1 DEF Ages
  <2> QED  BY <2>3, <2>4, <2>5, <2>6, <2>7 DEF Ages, AnswersNotOutdated
<1>4. CASE Freeze \/ Thaw
  BY <1>4 DEF Ages, AnswersNotOutdated, Freeze, Thaw, knowledge, turns
<1>5. CASE CatchUp
  <2>1. /\ Len(backlog) \in Nat \ {0} /\ Len(backlog') = Len(backlog) - 1
        /\ \A i \in 1..Len(backlog') : backlog'[i] = backlog[i + 1]
        /\ backlog[1] \in Commands /\ Execute(backlog[1])
    BY <1>5, ExecutedCommand
  <2>2. UNCHANGED <<content, version, base, pc, key, answer>>
    BY <1>5 DEF CatchUp, knowledge, turns
  <2>3. \A i \in 1..Len(backlog') : i + 1 \in 1..Len(backlog) /\ backlog'[i] = backlog[i + 1]
    BY <2>1
  <2>4. (\A i \in 1..Len(backlog) :
           /\ backlog[i].key <= version
           /\ backlog[i].op = "set" => backlog[i].value # NoAnswer /\ backlog[i].value >= base[backlog[i].key])'
    BY <2>2, <2>3 DEF Ages, AnswersNotOutdated
  <2>5. 1 \in 1..Len(backlog)
    BY <2>1
  <2>6. (\A v \in Versions : entries[v] # NoAnswer => v <= version /\ entries[v] >= base[v])'
    BY <2>1, <2>2, <2>5 DEF Execute, Ages, AnswersNotOutdated, TypeOK, Commands
  <2> QED  BY <2>2, <2>4, <2>6 DEF Ages, AnswersNotOutdated
<1>6. ASSUME NEW v \in Versions, ExpireEntry(v) \/ ExpireLock(v) PROVE Ages'
  BY <1>6 DEF TypeOK, Ages, AnswersNotOutdated, ExpireEntry, ExpireLock, knowledge, turns
<1>7. CASE \E r \in Requests : RequestStep(r)
  BY <1>7, RequestAges
<1>8. CASE Crash
  BY <1>8 DEF TypeOK, Ages, AnswersNotOutdated, Crash, store
<1> QED
  BY <1>1, <1>2, <1>3, <1>4, <1>5, <1>6, <1>7, <1>8 DEF Next

\* An answer given for a key is never older than the version the key names: once a
\* change has been announced by its bump, no later question is answered from before it.
THEOREM NeverOutdated == Spec => []AnswersNotOutdated
<1>1. Init => Ages
  BY CacheAssumption DEF Init, Ages, AnswersNotOutdated, Versions
<1>2. Ages => AnswersNotOutdated
  BY DEF Ages
<1> QED  BY <1>1, <1>2, InitTypes, NextTypes, NextAges, PTL DEF Spec

-----------------------------------------------------------------------------
(* The locks.  A turn that acquired the lock owns it until the lock expires;*)
(* a lock, or a SET NX still to be executed, is accounted for by the turn   *)
(* working under it, by a release behind it, or by a release that was lost. *)

Accounted(r, v, i) ==
  \/ Working(r) /\ hold[r] # "none" /\ key[r] = v
  \/ \E j \in 1..Len(backlog) :
       i < j /\ backlog[j].op = "release" /\ backlog[j].token = r /\ backlog[j].key = v
  \/ r \in dropped

Locks ==
  /\ \A r \in Requests : pc[r] \in {"look", "acquire", "wait", "probe"} => hold[r] = "none"
  /\ \A r \in Requests : Working(r) /\ hold[r] = "acquired" /\ r \notin overdue => lock[key[r]] = r
  /\ \A i \in 1..Len(backlog) : backlog[i].op = "release" => pc[backlog[i].token] = "idle"
  /\ \A i \in 1..Len(backlog) :
       backlog[i].op = "acquire" => Accounted(backlog[i].token, backlog[i].key, i)
  /\ \A v \in Versions : lock[v] # Nobody => Accounted(lock[v], v, 0)

LEMMA LocksImply == TypeOK /\ Locks => SingleFlight /\ LocksAreOwned
<1> SUFFICES ASSUME TypeOK, Locks PROVE SingleFlight /\ LocksAreOwned
  OBVIOUS
<1>1. SingleFlight
  BY DEF Locks, SingleFlight
<1>2. LocksAreOwned
  BY DEF Locks, LocksAreOwned, Accounted
<1> QED  BY <1>1, <1>2

\* A step that leaves locks, commands and holds alone, and in which turns only
\* begin to work without a hold.
LEMMA QuietStep ==
  ASSUME TypeOK, Locks,
         UNCHANGED <<lock, backlog, hold, key, overdue, dropped>>,
         \A q \in Requests :
           /\ pc'[q] = "idle" <=> pc[q] = "idle"
           /\ pc'[q] \in {"look", "acquire", "wait", "probe"} => hold[q] = "none"
           /\ Working(q) => Working(q)'
           /\ Working(q)' => Working(q) \/ hold[q] = "none"
  PROVE  Locks'
<1>1. \A q \in Requests, v \in Versions, i \in Nat : Accounted(q, v, i) => Accounted(q, v, i)'
  BY DEF Accounted
<1>2. \A i \in 1..Len(backlog) : backlog[i].token \in Requests /\ backlog[i].key \in Versions
  BY CommandsSent
<1>3. \A v \in Versions : lock[v] # Nobody => lock[v] \in Requests
  BY DEF TypeOK
<1> QED  BY <1>1, <1>2, <1>3 DEF Locks

\* A step that appends a command of r, r alone moving.
LEMMA AppendStep ==
  ASSUME TypeOK, Locks, NEW r \in Requests, NEW c \in Commands,
         backlog' = Append(backlog, c), c.token = r, c.key = key[r],
         UNCHANGED <<lock, key, overdue, dropped>>,
         \A q \in Requests \ {r} : pc'[q] = pc[q] /\ hold'[q] = hold[q],
         pc[r] # "idle",
         pc'[r] \notin {"look", "acquire", "wait", "probe"},
         Working(r)' /\ hold'[r] = "acquired" => Working(r) /\ hold[r] = "acquired",
         Working(r) /\ hold[r] # "none" => (Working(r)' /\ hold'[r] # "none") \/ c.op = "release",
         c.op = "acquire" => Working(r)' /\ hold'[r] # "none",
         c.op = "release" => pc'[r] = "idle"
  PROVE  Locks'
<1>1. /\ Len(backlog) \in Nat /\ Len(backlog') = Len(backlog) + 1
      /\ \A i \in 1..Len(backlog) : backlog'[i] = backlog[i] /\ i \in 1..Len(backlog')
      /\ backlog'[Len(backlog) + 1] = c /\ Len(backlog) + 1 \in 1..Len(backlog')
  BY AppendedCommands
<1>2. \A i \in 1..Len(backlog) : backlog[i].token \in Requests /\ backlog[i].key \in Versions
  BY CommandsSent
<1>3. \A v \in Versions : lock[v] # Nobody => lock[v] \in Requests
  BY DEF TypeOK
<1>4. ASSUME NEW q \in Requests, NEW v \in Versions, NEW i \in 0..Len(backlog), Accounted(q, v, i)
      PROVE  Accounted(q, v, i)'
  <2>1. CASE Working(q) /\ hold[q] # "none" /\ key[q] = v
    <3>1. CASE q # r
      BY <2>1, <3>1 DEF Accounted, Working
    <3>2. CASE q = r /\ c.op = "release"
      <4>1. i < Len(backlog) + 1
        BY <1>1
      <4> QED  BY <1>1, <2>1, <3>2, <4>1 DEF Accounted
    <3>3. CASE q = r /\ c.op # "release"
      BY <2>1, <3>3 DEF Accounted
    <3> QED  BY <3>1, <3>2, <3>3
  <2>2. CASE \E j \in 1..Len(backlog) :
               i < j /\ backlog[j].op = "release" /\ backlog[j].token = q /\ backlog[j].key = v
    BY <1>1, <2>2 DEF Accounted
  <2>3. CASE q \in dropped
    BY <2>3 DEF Accounted
  <2> QED  BY <1>4, <2>1, <2>2, <2>3 DEF Accounted
<1>5. (\A q \in Requests : pc[q] \in {"look", "acquire", "wait", "probe"} => hold[q] = "none")'
  BY DEF Locks
<1>6. (\A q \in Requests : Working(q) /\ hold[q] = "acquired" /\ q \notin overdue => lock[key[q]] = q)'
  <2> SUFFICES ASSUME NEW q \in Requests, Working(q)', hold'[q] = "acquired", q \notin overdue
               PROVE  lock[key[q]] = q
    OBVIOUS
  <2>1. Working(q) /\ hold[q] = "acquired"
    BY DEF Working
  <2> QED  BY <2>1 DEF Locks
<1>7. (\A i \in 1..Len(backlog) : backlog[i].op = "release" => pc[backlog[i].token] = "idle")'
  <2> SUFFICES ASSUME NEW i \in 1..Len(backlog'), backlog'[i].op = "release"
               PROVE  pc'[backlog'[i].token] = "idle"
    OBVIOUS
  <2>1. CASE i \in 1..Len(backlog)
    <3>1. pc[backlog[i].token] = "idle" /\ backlog[i].token \in Requests
      BY <1>1, <1>2, <2>1 DEF Locks
    <3> QED  BY <1>1, <2>1, <3>1
  <2>2. CASE i = Len(backlog) + 1
    BY <1>1, <2>2
  <2> QED  BY <1>1, <2>1, <2>2
<1>8. (\A i \in 1..Len(backlog) : backlog[i].op = "acquire" => Accounted(backlog[i].token, backlog[i].key, i))'
  <2> SUFFICES ASSUME NEW i \in 1..Len(backlog'), backlog'[i].op = "acquire"
               PROVE  Accounted(backlog[i].token, backlog[i].key, i)'
    OBVIOUS
  <2>1. CASE i \in 1..Len(backlog)
    <3>1. Accounted(backlog[i].token, backlog[i].key, i)
      BY <1>1, <2>1 DEF Locks
    <3> DEFINE q == backlog[i].token
               v == backlog[i].key
    <3>2. q \in Requests /\ v \in Versions /\ i \in 0..Len(backlog)
      BY <1>1, <1>2, <2>1
    <3>3. Accounted(q, v, i) => (\/ Working(q)' /\ hold'[q] # "none" /\ key'[q] = v
                                 \/ \E j \in 1..Len(backlog') : i < j /\ backlog'[j].op = "release"
                                      /\ backlog'[j].token = q /\ backlog'[j].key = v
                                 \/ q \in dropped')
      BY SMTT(30), <1>4, <3>2 DEF Accounted
    <3>4. backlog'[i].token = q /\ backlog'[i].key = v
      BY <1>1, <2>1
    <3> HIDE DEF q, v
    <3> QED  BY <3>1, <3>3, <3>4 DEF Accounted, q, v
  <2>2. CASE i = Len(backlog) + 1
    <3>1. backlog'[i] = c /\ c.op = "acquire"
      BY <1>1, <2>2
    <3> QED  BY <3>1 DEF Accounted
  <2> QED  BY <1>1, <2>1, <2>2
<1>9. (\A v \in Versions : lock[v] # Nobody => Accounted(lock[v], v, 0))'
  <2> SUFFICES ASSUME NEW v \in Versions, lock'[v] # Nobody
               PROVE  Accounted(lock[v], v, 0)'
    OBVIOUS
  <2>1. lock[v] \in Requests /\ 0 \in 0..Len(backlog) /\ Accounted(lock[v], v, 0)
    BY <1>1, <1>3 DEF Locks
  <2>2. \/ Working(lock[v])' /\ hold'[lock[v]] # "none" /\ key'[lock[v]] = v
        \/ \E j \in 1..Len(backlog') : 0 < j /\ backlog'[j].op = "release"
              /\ backlog'[j].token = lock[v] /\ backlog'[j].key = v
        \/ lock[v] \in dropped'
    BY <1>4, <2>1 DEF Accounted
  <2> QED  BY <2>2 DEF Accounted
<1> QED  BY <1>5, <1>6, <1>7, <1>8, <1>9 DEF Locks

\* A step that changes one lock, while no command or other turn is disturbed.
LEMMA LockStep ==
  ASSUME TypeOK, Locks, NEW r \in Requests, NEW v \in Versions,
         v = key[r], UNCHANGED <<backlog, key, overdue, dropped>>,
         backlog = <<>>,
         \A w \in Versions \ {v} : lock'[w] = lock[w],
         lock' \in [Versions -> Requests \cup {Nobody}],
         \A q \in Requests \ {r} : pc'[q] = pc[q] /\ hold'[q] = hold[q],
         pc'[r] \notin {"look", "acquire", "wait", "probe"},
         \/ lock[v] = Nobody /\ lock'[v] = r /\ Working(r)' /\ hold'[r] = "acquired"
         \/ ~Working(r)' /\ lock'[v] # r /\ (lock'[v] = lock[v] \/ (lock[v] = r /\ lock'[v] = Nobody))
  PROVE  Locks'
<1>1. \A i \in 1..Len(backlog) : FALSE
  BY EmptySeq
<1>2. \A w \in Versions : lock[w] = r => w = v \/ r \in dropped
  <2> SUFFICES ASSUME NEW w \in Versions, lock[w] = r PROVE w = v \/ r \in dropped
    OBVIOUS
  <2>1. Accounted(r, w, 0)
    BY CacheAssumption DEF Locks
  <2> QED  BY <1>1, <2>1 DEF Accounted
<1>3. (\A q \in Requests : pc[q] \in {"look", "acquire", "wait", "probe"} => hold[q] = "none")'
  BY DEF Locks
<1>4. (\A q \in Requests : Working(q) /\ hold[q] = "acquired" /\ q \notin overdue => lock[key[q]] = q)'
  <2> SUFFICES ASSUME NEW q \in Requests, Working(q)', hold'[q] = "acquired", q \notin overdue
               PROVE  lock'[key[q]] = q
    OBVIOUS
  <2>1. CASE q = r
    BY <2>1
  <2>2. CASE q # r
    <3>1. lock[key[q]] = q /\ key[q] \in Versions
      BY <2>2 DEF Locks, Working, TypeOK
    <3> QED  BY <2>2, <3>1, CacheAssumption
  <2> QED  BY <2>1, <2>2
<1>5. (\A w \in Versions : lock[w] # Nobody => Accounted(lock[w], w, 0))'
  <2> SUFFICES ASSUME NEW w \in Versions, lock'[w] # Nobody
               PROVE  Accounted(lock[w], w, 0)'
    OBVIOUS
  <2>1. CASE lock'[w] = r
    <3>1. (w = v /\ Working(r)' /\ hold'[r] = "acquired") \/ (w # v /\ lock[w] = r)
      BY <2>1
    <3> QED  BY <1>2, <2>1, <3>1 DEF Accounted
  <2>2. CASE lock'[w] # r
    <3>1. lock[w] = lock'[w] /\ lock[w] \in Requests
      BY <2>2 DEF TypeOK
    <3>2. Accounted(lock[w], w, 0)
      BY <3>1, CacheAssumption DEF Locks
    <3>3. (Working(lock[w])' /\ hold'[lock[w]] # "none" /\ key[lock[w]] = w) \/ lock[w] \in dropped
      BY <1>1, <2>2, <3>1, <3>2 DEF Accounted, Working
    <3> QED  BY <3>1, <3>3 DEF Accounted
  <2> QED  BY <2>1, <2>2
<1> QED  BY <1>1, <1>3, <1>4, <1>5 DEF Locks

LEMMA RequestLocks ==
  ASSUME TypeOK, Locks, NEW r \in Requests, RequestStep(r)
  PROVE  Locks'
<1>1. CASE GetIdentity(r)
  <2>1. /\ \A v \in Versions : lock[v] # r
        /\ \A i \in 1..Len(backlog) : backlog[i].token # r
        /\ UNCHANGED <<lock, backlog>>
        /\ \A q \in Requests \ {r} : pc'[q] = pc[q] /\ key'[q] = key[q] /\ hold'[q] = hold[q]
        /\ \A q \in Requests \ {r} : (q \in overdue <=> q \in overdue') /\ (q \in dropped <=> q \in dropped')
        /\ pc'[r] = "look" /\ hold'[r] = "none"
    BY <1>1 DEF GetIdentity, Forgotten, Goto, TypeOK, store
  <2>2. \A q \in Requests \ {r}, v \in Versions, i \in Nat : Accounted(q, v, i) => Accounted(q, v, i)'
    BY <2>1 DEF Accounted, Working
  <2>3. \A i \in 1..Len(backlog) : backlog[i].token \in Requests \ {r} /\ backlog[i].key \in Versions
    BY <2>1, CommandsSent
  <2>4. \A v \in Versions : lock[v] # Nobody => lock[v] \in Requests \ {r}
    BY <2>1 DEF TypeOK
  <2> QED  BY <2>1, <2>2, <2>3, <2>4 DEF Locks, Working
<1>2. CASE Look(r) \/ Poll(r) \/ Probe(r) \/ GiveUpWaiting(r)
  <2>1. /\ UNCHANGED <<lock, backlog, hold, key, overdue, dropped>>
        /\ \A q \in Requests \ {r} : pc'[q] = pc[q]
        /\ pc[r] \in {"look", "wait", "probe"}
        /\ pc'[r] \in {"acquire", "wait", "probe", "reply", "retrieve"}
    BY <1>2 DEF Look, Poll, Read, Probe, GiveUpWaiting, Goto, TypeOK, store, history
  <2>2. hold[r] = "none"
    BY <2>1 DEF Locks
  <2> QED  BY <2>1, <2>2, QuietStep DEF Locks, Working
<1>3. CASE Retrieve(r) \/ Generate(r)
  <2>1. /\ UNCHANGED <<lock, backlog, hold, key, overdue, dropped>>
        /\ \A q \in Requests \ {r} : pc'[q] = pc[q]
        /\ pc[r] \in {"retrieve", "generate"}
        /\ pc'[r] \in {"generate", "store", "reply"}
    BY <1>3 DEF Retrieve, Generate, Goto, TypeOK, store, history
  <2> QED  BY <2>1, QuietStep DEF Locks, Working
<1>4. CASE Acquire(r)
  <2>0. pc[r] = "acquire" /\ hold[r] = "none" /\ key[r] \in Versions
    BY <1>4 DEF Acquire, Locks, TypeOK
  <2>1. /\ UNCHANGED <<key, overdue, dropped>>
        /\ \A q \in Requests \ {r} : pc'[q] = pc[q] /\ hold'[q] = hold[q]
    BY <1>4 DEF Acquire, Goto, TypeOK, history
  <2>2. CASE Responsive /\ lock[key[r]] = Nobody /\ lock' = [lock EXCEPT ![key[r]] = r]
             /\ hold' = [hold EXCEPT ![r] = "acquired"] /\ Goto(r, "retrieve") /\ UNCHANGED backlog
    <3>1. /\ backlog = <<>> /\ pc'[r] = "retrieve" /\ hold'[r] = "acquired" /\ lock'[key[r]] = r
          /\ \A w \in Versions \ {key[r]} : lock'[w] = lock[w]
          /\ lock' \in [Versions -> Requests \cup {Nobody}] /\ Working(r)'
      BY <2>0, <2>2 DEF Responsive, Goto, TypeOK, Working
    <3> QED  BY <2>0, <2>1, <2>2, <3>1, LockStep
  <2>3. CASE Goto(r, "wait") /\ UNCHANGED <<lock, hold, backlog>>
    <3>1. pc'[r] = "wait"
      BY <2>3 DEF Goto, TypeOK
    <3> QED  BY <2>0, <2>1, <2>3, <3>1, QuietStep DEF Locks, Working
  <2>4. CASE hold' = [hold EXCEPT ![r] = "unavailable"] /\ Goto(r, "retrieve") /\ UNCHANGED lock
             /\ backlog' \in {Append(backlog, Command("acquire", r)), backlog}
    <3>1. pc'[r] = "retrieve" /\ hold'[r] = "unavailable"
      BY <2>4 DEF Goto, TypeOK
    <3>2. CASE backlog' = Append(backlog, Command("acquire", r))
      <4>1. Command("acquire", r) \in Commands
        BY CommandType
      <4>2. /\ Command("acquire", r).op = "acquire" /\ Command("acquire", r).token = r
            /\ Command("acquire", r).key = key[r]
        BY DEF Command
      <4> QED  BY <2>0, <2>1, <2>4, <3>1, <3>2, <4>1, <4>2, AppendStep DEF Working
    <3>3. CASE backlog' = backlog
      <4>1. \A q \in Requests, v \in Versions, i \in Nat : Accounted(q, v, i) => Accounted(q, v, i)'
        BY <2>0, <2>1, <3>1, <3>3 DEF Accounted, Working
      <4>2. \A i \in 1..Len(backlog) : backlog[i].token \in Requests /\ backlog[i].key \in Versions
        BY CommandsSent
      <4>3. \A v \in Versions : lock[v] # Nobody => lock[v] \in Requests
        BY DEF TypeOK
      <4>4. \A q \in Requests : Working(q)' /\ hold'[q] = "acquired" => Working(q) /\ hold[q] = "acquired"
        BY <2>1, <3>1 DEF Working
      <4>5. \A q \in Requests : pc[q] = "idle" => pc'[q] = "idle"
        BY <2>0, <2>1
      <4>6. \A q \in Requests : pc'[q] \in {"look", "acquire", "wait", "probe"} => hold'[q] = "none"
        BY <2>1, <3>1 DEF Locks
      <4> QED  BY <2>1, <2>4, <3>3, <4>1, <4>2, <4>3, <4>4, <4>5, <4>6 DEF Locks
    <3> QED  BY <2>4, <3>2, <3>3
  <2> QED  BY <1>4, <2>2, <2>3, <2>4 DEF Acquire, Responsive
<1>5. CASE Store(r)
  <2>1. /\ UNCHANGED <<lock, hold, key, overdue, dropped>>
        /\ \A q \in Requests \ {r} : pc'[q] = pc[q]
        /\ pc[r] = "store" /\ pc'[r] = "reply"
    BY <1>5 DEF Store, Goto, TypeOK, history
  <2>2. CASE backlog' = Append(backlog, Command("set", r))
    <3>1. Command("set", r) \in Commands
      BY CommandType
    <3>2. /\ Command("set", r).op = "set" /\ Command("set", r).token = r
          /\ Command("set", r).key = key[r]
      BY DEF Command
    <3> QED  BY <2>1, <2>2, <3>1, <3>2, AppendStep DEF Working
  <2>3. CASE backlog' = backlog
    BY <2>1, <2>3, QuietStep DEF Locks, Working
  <2> QED  BY <1>5, <2>2, <2>3 DEF Store, Responsive
<1>6. CASE Reply(r)
  <2>1. /\ UNCHANGED <<hold, key, overdue>>
        /\ \A q \in Requests \ {r} : pc'[q] = pc[q]
        /\ pc[r] = "reply" /\ pc'[r] = "idle" /\ key[r] \in Versions
    BY <1>6 DEF Reply, Goto, TypeOK
  <2>2. CASE hold[r] # "none" /\ Responsive /\ Execute(Command("release", r)) /\ UNCHANGED <<backlog, dropped>>
    <3>1. IF lock[key[r]] = r THEN lock' = [lock EXCEPT ![key[r]] = Nobody] ELSE lock' = lock
      BY <2>2 DEF Execute, Command
    <3>2. /\ \A w \in Versions \ {key[r]} : lock'[w] = lock[w]
          /\ lock' \in [Versions -> Requests \cup {Nobody}]
          /\ lock'[key[r]] # r
          /\ lock'[key[r]] = lock[key[r]] \/ (lock[key[r]] = r /\ lock'[key[r]] = Nobody)
      BY <2>1, <3>1, CacheAssumption DEF TypeOK
    <3>3. backlog = <<>> /\ ~Working(r)'
      BY <2>1, <2>2 DEF Responsive, Working
    <3> QED  BY <2>1, <2>2, <3>2, <3>3, LockStep
  <2>3. CASE backlog' = Append(backlog, Command("release", r)) /\ UNCHANGED <<lock, dropped>>
    <3>1. Command("release", r) \in Commands
      BY CommandType
    <3>2. /\ Command("release", r).op = "release" /\ Command("release", r).token = r
          /\ Command("release", r).key = key[r]
      BY DEF Command
    <3> QED  BY <2>1, <2>3, <3>1, <3>2, AppendStep DEF Working
  <2>4. CASE /\ hold[r] = "none" \/ r \in dropped'
             /\ \A q \in Requests : q \in dropped => q \in dropped'
             /\ UNCHANGED <<lock, backlog>>
    <3>1. \A q \in Requests, v \in Versions, i \in Nat : Accounted(q, v, i) => Accounted(q, v, i)'
      BY <2>1, <2>4 DEF Accounted, Working
    <3>2. \A i \in 1..Len(backlog) : backlog[i].token \in Requests /\ backlog[i].key \in Versions
      BY CommandsSent
    <3>3. \A v \in Versions : lock[v] # Nobody => lock[v] \in Requests
      BY DEF TypeOK
    <3>4. \A q \in Requests : Working(q)' => Working(q)
      BY <2>1 DEF Working
    <3> QED  BY <2>1, <2>4, <3>1, <3>2, <3>3, <3>4 DEF Locks
  <2> QED  BY <1>6, <2>2, <2>3, <2>4 DEF Reply, Responsive
<1> QED
  BY <1>1, <1>2, <1>3, <1>4, <1>5, <1>6 DEF RequestStep

\* Executing the head of the backlog: the lock it takes is accounted for by what
\* is behind it, and the lock it deletes is its own.
LEMMA CatchUpLocks == TypeOK /\ Locks /\ CatchUp => Locks'
<1> SUFFICES ASSUME TypeOK, Locks, CatchUp PROVE Locks'
  OBVIOUS
<1> DEFINE c == backlog[1]
<1>1. /\ Len(backlog) \in Nat \ {0} /\ Len(backlog') = Len(backlog) - 1
      /\ \A i \in 1..Len(backlog') : backlog'[i] = backlog[i + 1] /\ i + 1 \in 1..Len(backlog)
      /\ c \in Commands /\ Execute(c) /\ 1 \in 1..Len(backlog)
  BY ExecutedCommand
<1>2. UNCHANGED <<pc, key, hold, overdue, dropped>>
  BY DEF CatchUp, turns, history
<1>3. \A i \in 1..Len(backlog) : backlog[i].token \in Requests /\ backlog[i].key \in Versions
  BY CommandsSent
<1>4. ASSUME NEW q \in Requests, NEW v \in Versions, NEW i \in Nat, Accounted(q, v, i),
             i > 0 \/ ~(c.op = "release" /\ c.token = q /\ c.key = v)
      PROVE  \/ Working(q) /\ hold[q] # "none" /\ key[q] = v
             \/ \E j \in 1..Len(backlog') :
                  i < j + 1 /\ backlog'[j].op = "release" /\ backlog'[j].token = q /\ backlog'[j].key = v
             \/ q \in dropped
  <2>1. CASE \E j \in 1..Len(backlog) :
               i < j /\ backlog[j].op = "release" /\ backlog[j].token = q /\ backlog[j].key = v
    <3>1. PICK j \in 1..Len(backlog) :
                 i < j /\ backlog[j].op = "release" /\ backlog[j].token = q /\ backlog[j].key = v
      BY <2>1
    <3>2. j # 1
      BY <1>4, <3>1
    <3>3. j - 1 \in 1..Len(backlog') /\ (j - 1) + 1 = j
      BY <1>1, <3>1, <3>2
    <3>4. backlog'[j - 1] = backlog[j]
      BY <1>1, <3>3
    <3> QED  BY <3>1, <3>3, <3>4
  <2> QED  BY <1>4, <2>1 DEF Accounted
<1>5. \A q \in Requests : Working(q)' = Working(q)
  BY <1>2 DEF Working
<1>6. (\A i \in 1..Len(backlog) : backlog[i].op = "acquire" => Accounted(backlog[i].token, backlog[i].key, i))'
  <2> SUFFICES ASSUME NEW i \in 1..Len(backlog'), backlog'[i].op = "acquire"
               PROVE  Accounted(backlog[i].token, backlog[i].key, i)'
    OBVIOUS
  <2> DEFINE q == backlog[i + 1].token
             v == backlog[i + 1].key
  <2>1. q \in Requests /\ v \in Versions /\ backlog'[i].token = q /\ backlog'[i].key = v
    BY <1>1, <1>3
  <2>2. Accounted(q, v, i + 1) /\ i + 1 > 0 /\ i + 1 \in Nat
    BY <1>1 DEF Locks
  <2>3. \/ Working(q) /\ hold[q] # "none" /\ key[q] = v
        \/ \E j \in 1..Len(backlog') :
             i + 1 < j + 1 /\ backlog'[j].op = "release" /\ backlog'[j].token = q /\ backlog'[j].key = v
        \/ q \in dropped
    <3> HIDE DEF q, v
    <3> QED  BY <1>4, <2>1, <2>2
  <2>4. \A j \in 1..Len(backlog') : i + 1 < j + 1 => i < j
    BY <1>1
  <2> HIDE DEF q, v
  <2> QED  BY <1>2, <1>5, <2>1, <2>3, <2>4 DEF Accounted
<1>7. /\ c.token \in Requests /\ c.key \in Versions
      /\ c.op = "acquire" => Accounted(c.token, c.key, 1)
      /\ c.op = "release" => pc[c.token] = "idle"
  BY <1>1, <1>3 DEF Locks
<1>8. (\A v \in Versions : lock[v] # Nobody => Accounted(lock[v], v, 0))'
  <2> SUFFICES ASSUME NEW v \in Versions, lock'[v] # Nobody
               PROVE  Accounted(lock[v], v, 0)'
    OBVIOUS
  <2>1. CASE lock'[v] = lock[v] /\ ~(c.op = "release" /\ c.token = lock[v] /\ c.key = v)
    <3> DEFINE q == lock[v]
    <3>1. q \in Requests /\ Accounted(q, v, 0) /\ lock'[v] = q
      BY <2>1 DEF TypeOK, Locks
    <3> HIDE DEF q
    <3>2. \/ Working(q) /\ hold[q] # "none" /\ key[q] = v
          \/ \E j \in 1..Len(backlog') :
               0 < j + 1 /\ backlog'[j].op = "release" /\ backlog'[j].token = q /\ backlog'[j].key = v
          \/ q \in dropped
      BY <1>4, <2>1, <3>1 DEF q
    <3>3. \A j \in 1..Len(backlog') : 0 < j
      BY <1>1
    <3> QED  BY <1>2, <1>5, <3>1, <3>2, <3>3 DEF Accounted
  <2>2. CASE c.op = "acquire" /\ c.key = v /\ lock[v] = Nobody /\ lock'[v] = c.token
    <3> DEFINE q == c.token
    <3>1. q \in Requests /\ Accounted(q, v, 1) /\ lock'[v] = q
      BY <1>7, <2>2
    <3> HIDE DEF q
    <3>2. \/ Working(q) /\ hold[q] # "none" /\ key[q] = v
          \/ \E j \in 1..Len(backlog') :
               1 < j + 1 /\ backlog'[j].op = "release" /\ backlog'[j].token = q /\ backlog'[j].key = v
          \/ q \in dropped
      BY <1>4, <3>1
    <3>3. \A j \in 1..Len(backlog') : 0 < j
      BY <1>1
    <3> QED  BY <1>2, <1>5, <3>1, <3>2, <3>3 DEF Accounted
  <2>3. c.op = "release" /\ c.token = lock[v] /\ c.key = v => lock'[v] = Nobody
    BY <1>1 DEF Execute, TypeOK
  <2>4. \/ lock'[v] = lock[v]
        \/ c.op = "acquire" /\ c.key = v /\ lock[v] = Nobody /\ lock'[v] = c.token
        \/ lock'[v] = Nobody
    <3> HIDE DEF c
    <3> QED  BY <1>1, <1>7 DEF Execute, TypeOK
  <2> QED  BY <2>1, <2>2, <2>3, <2>4
<1>9. (\A q \in Requests : Working(q) /\ hold[q] = "acquired" /\ q \notin overdue => lock[key[q]] = q)'
  <2> SUFFICES ASSUME NEW q \in Requests, Working(q), hold[q] = "acquired", q \notin overdue
               PROVE  lock'[key[q]] = q
    BY <1>2, <1>5
  <2>1. lock[key[q]] = q /\ key[q] \in Versions /\ pc[q] # "idle"
    BY DEF Locks, TypeOK, Working
  <2>2. ~(c.op = "release" /\ c.token = q)
    BY <1>7, <2>1
  <2> HIDE DEF c
  <2> QED  BY <1>1, <2>1, <2>2, CacheAssumption DEF Execute, TypeOK
<1>10. (\A i \in 1..Len(backlog) : backlog[i].op = "release" => pc[backlog[i].token] = "idle")'
  BY <1>1, <1>2 DEF Locks
<1>11. (\A q \in Requests : pc[q] \in {"look", "acquire", "wait", "probe"} => hold[q] = "none")'
  BY <1>2 DEF Locks
<1> QED  BY <1>6, <1>8, <1>9, <1>10, <1>11 DEF Locks

LEMMA NextLocks == TypeOK /\ Locks /\ [Next]_vars => Locks'
<1> SUFFICES ASSUME TypeOK, Locks, [Next]_vars PROVE Locks'
  OBVIOUS
<1>1. CASE UNCHANGED <<lock, backlog, pc, key, hold, overdue, dropped>>
  BY <1>1, QuietStep DEF Locks, Working
<1>2. CASE UNCHANGED vars
  BY <1>1, <1>2 DEF vars, store, turns, history
<1>3. ASSUME NEW d \in Changers, Change(d) \/ BumpKnowledgeVersion(d) PROVE Locks'
  BY <1>1, <1>3 DEF Change, BumpKnowledgeVersion, store, turns, history
<1>4. CASE Freeze \/ Thaw
  BY <1>1, <1>4 DEF Freeze, Thaw, turns, history
<1>5. CASE CatchUp
  BY <1>5, CatchUpLocks
<1>6. ASSUME NEW v \in Versions, ExpireEntry(v) PROVE Locks'
  BY <1>1, <1>6 DEF ExpireEntry, turns, history
<1>7. ASSUME NEW v \in Versions, ExpireLock(v) PROVE Locks'
  <2>1. /\ overdue' = overdue \cup {lock[v]} /\ lock' = [lock EXCEPT ![v] = Nobody]
        /\ UNCHANGED <<backlog, pc, key, hold, dropped>>
    BY <1>7 DEF ExpireLock, turns
  <2>2. \A q \in Requests, w \in Versions, i \in Nat : Accounted(q, w, i) => Accounted(q, w, i)'
    BY <2>1 DEF Accounted, Working
  <2>3. \A i \in 1..Len(backlog) : backlog[i].token \in Requests /\ backlog[i].key \in Versions
    BY CommandsSent
  <2>4. \A w \in Versions : lock'[w] # Nobody => lock'[w] = lock[w] /\ lock[w] \in Requests
    BY <2>1 DEF TypeOK
  <2>5. \A q \in Requests : Working(q)' = Working(q)
    BY <2>1 DEF Working
  <2>6. (\A q \in Requests : Working(q) /\ hold[q] = "acquired" /\ q \notin overdue => lock[key[q]] = q)'
    BY <2>1, <2>5 DEF Locks, TypeOK
  <2> QED  BY <2>1, <2>2, <2>3, <2>4, <2>6 DEF Locks
<1>8. CASE \E r \in Requests : RequestStep(r)
  BY <1>8, RequestLocks
<1>9. CASE Crash
  <2>1. /\ \A q \in Requests : pc'[q] = "idle" /\ (Working(q) \/ q \in dropped => q \in dropped')
        /\ UNCHANGED <<lock, backlog, key, hold, overdue>>
    BY <1>9 DEF Crash, store, Working
  <2>2. \A q \in Requests, w \in Versions, i \in Nat : Accounted(q, w, i) => Accounted(q, w, i)'
    BY <2>1 DEF Accounted
  <2>3. \A i \in 1..Len(backlog) : backlog[i].token \in Requests /\ backlog[i].key \in Versions
    BY CommandsSent
  <2>4. \A w \in Versions : lock[w] # Nobody => lock[w] \in Requests
    BY DEF TypeOK
  <2> QED  BY <2>1, <2>2, <2>3, <2>4 DEF Locks, Working
<1> QED
  BY <1>2, <1>3, <1>4, <1>5, <1>6, <1>7, <1>8, <1>9 DEF Next

LEMMA InitLocks == Init => Locks
<1> SUFFICES ASSUME Init PROVE Locks
  OBVIOUS
<1>1. \A i \in 1..Len(backlog) : FALSE
  BY EmptySeq DEF Init
<1> QED  BY <1>1 DEF Init, Locks, Working

\* No release deletes another turn's lock: two turns generate the same answer under
\* an acquired lock only if it ran out on one of them.
THEOREM OneFlight == Spec => []SingleFlight
BY InitTypes, NextTypes, InitLocks, NextLocks, LocksImply, PTL DEF Spec

\* No lock is left behind but by a release that was lost.
THEOREM NoLockLeftBehind == Spec => []LocksAreOwned
BY InitTypes, NextTypes, InitLocks, NextLocks, LocksImply, PTL DEF Spec

\* The whole: locks are kept for any number of requests, versions and late commands.
THEOREM LocksAlwaysKept == Spec => []LocksAreKept
<1>1. TypeOK /\ SingleFlight /\ LocksAreOwned => LocksAreKept
  BY DEF LocksAreKept
<1> QED
  BY <1>1, TypeCorrect, OneFlight, NoLockLeftBehind, PTL

-----------------------------------------------------------------------------
(* The login throttle.  A place counts the hits of a key in windows; what    *)
(* the observer has seen pass is bounded by what the windows that overlap    *)
(* its stretch can hold, and a stretch of one window's length overlaps two.  *)

WindowRecords == [count : 0..(Limit + 1), resetAt : 0..(Horizon + Window)]

\* A window of which something was counted is not over.
Running(w, t) == w.count > 0 => w.resetAt > t /\ w.resetAt <= t + Window

\* What a place has let through for a key since the observer began at o:
\* nothing before; then, while the window that was open at that moment lasts,
\* no more than it has counted; after it, the limit; and with a second window
\* on top, what that one has counted.
Seen(w, n, t, o) ==
  /\ o = NotYet => n = 0
  /\ o # NotYet /\ t < o + Window =>
       /\ w.count = 0 => n <= Limit
       /\ w.count > 0 /\ w.resetAt < o + Window => n <= Limit /\ n <= w.count
       /\ w.count > 0 /\ w.resetAt >= o + Window => n <= 2 * Limit /\ n <= Limit + w.count

KeyInv(w, n, t, o) == w \in WindowRecords /\ n \in Nat /\ Running(w, t) /\ Seen(w, n, t, o)

Clocks ==
  /\ second \in 0..Horizon /\ watched \in 0..NotYet
  /\ watched # NotYet => watched <= second
  /\ lateHits \in [Emails -> 0..MaxLate]

\* The windows' inductive invariant.
WindowInv ==
  /\ Clocks
  /\ window \in [Places -> [Emails -> WindowRecords]]
  /\ passed \in [Places -> [Emails -> Nat]]
  /\ \A p \in Places, e \in Emails : KeyInv(window[p][e], passed[p][e], second, watched)

\* Nothing but a hit, a late script and the time changes a window, and each
\* keeps the end of one that runs.
KeepsItsEnd(w, v, t) ==
  w.count > 0 /\ v.count > 0 /\ t < w.resetAt => v.resetAt = w.resetAt /\ v.count >= w.count

LEMMA WindowInvImplies == WindowInv => WindowTypeOK /\ TwiceTheLimit
<1> SUFFICES ASSUME WindowInv PROVE WindowTypeOK /\ TwiceTheLimit
  OBVIOUS
<1>a. Limit \in Nat /\ Window \in Nat \ {0} /\ Horizon \in Nat
  BY FixedWindowAssumption, PlacesAssumption
<1>1. ASSUME NEW p \in Places, NEW e \in Emails
      PROVE  /\ window[p][e].count > 0 => window[p][e].resetAt \in 1..(second + Window)
             /\ watched # NotYet /\ second < watched + Window => passed[p][e] <= 2 * Limit
  <2>1. KeyInv(window[p][e], passed[p][e], second, watched) /\ Clocks
    BY DEF WindowInv
  <2> QED
    BY <1>a, <2>1 DEF KeyInv, WindowRecords, Running, Seen, Clocks
<1> QED
  BY <1>1 DEF WindowInv, Clocks, WindowTypeOK, WindowRecords, TwiceTheLimit

\* A hit on a window that runs is counted in it; else it starts one.
LEMMA CountedWindow ==
  ASSUME WindowInv, NEW w \in WindowRecords, Running(w, second)
  PROVE  /\ Counted(w) \in WindowRecords
         /\ w.count = 0 => Counted(w).count = 1 /\ Counted(w).resetAt = second + Window
         /\ w.count > 0 => /\ Counted(w).resetAt = w.resetAt
                           /\ Counted(w).count = IF w.count > Limit THEN w.count ELSE w.count + 1
<1>a. Limit \in Nat /\ Window \in Nat \ {0} /\ Horizon \in Nat /\ second \in 0..Horizon
  BY FixedWindowAssumption, PlacesAssumption DEF WindowInv, Clocks
<1>1. CASE w.count = 0
  <2>1. Open(w).count = 0
    BY <1>1 DEF Open, Closed
  <2> QED
    BY <1>a, <1>1, <2>1 DEF Counted, WindowRecords
<1>2. CASE w.count # 0
  <2>1. w.count > 0 /\ w.resetAt > second /\ w.count \in Nat /\ w.resetAt \in Nat /\ w.count <= Limit + 1
    BY <1>a, <1>2 DEF WindowRecords, Running
  <2>2. Open(w) = w
    BY <1>a, <2>1 DEF Open
  <2> QED
    BY <1>a, <1>2, <2>1, <2>2 DEF Counted, OneMore, WindowRecords
<1> QED
  BY <1>1, <1>2

\* The next four lemmas are about one key at a place: a hit on a window that
\* runs, the first hit of one, the time, and the observer's beginning.
LEMMA HitKey ==
  ASSUME NEW t \in Nat, NEW o \in Nat, o # NotYet => o <= t,
         NEW w, NEW n, KeyInv(w, n, t, o), w.count > 0,
         NEW v \in WindowRecords, v.resetAt = w.resetAt,
         v.count = IF w.count > Limit THEN w.count ELSE w.count + 1,
         NEW m \in Nat, m = n \/ (m = n + 1 /\ o # NotYet /\ v.count <= Limit)
  PROVE  KeyInv(v, m, t, o)
<1>a. Limit \in Nat /\ Window \in Nat \ {0}
  BY FixedWindowAssumption
<1>1. PICK c, r, d : c = w.count /\ r = w.resetAt /\ d = v.count
  OBVIOUS
<1>2. c \in Nat /\ r \in Nat /\ d \in Nat /\ n \in Nat
  BY <1>1, <1>a, PlacesAssumption DEF KeyInv, WindowRecords
<1>3. c > 0 /\ d = (IF c > Limit THEN c ELSE c + 1) /\ v.resetAt = r
  BY <1>1
<1>4. /\ r > t /\ r <= t + Window
      /\ o = NotYet => n = 0
      /\ o # NotYet /\ t < o + Window =>
           /\ r < o + Window => n <= Limit /\ n <= c
           /\ r >= o + Window => n <= 2 * Limit /\ n <= Limit + c
  BY <1>1, <1>3 DEF KeyInv, Running, Seen
<1>5. o = NotYet => m = 0
  BY <1>4
<1>6. ASSUME o # NotYet, t < o + Window
      PROVE  /\ r < o + Window => m <= Limit /\ m <= d
             /\ r >= o + Window => m <= 2 * Limit /\ m <= Limit + d
  <2>1. (m = n) \/ (m = n + 1 /\ d <= Limit)
    BY <1>1
  <2>2. d >= c /\ (d <= Limit => d = c + 1)
    BY <1>a, <1>2, <1>3
  <2> QED
    BY <1>a, <1>2, <1>4, <1>6, <2>1, <2>2
<1>7. d > 0
  BY <1>2, <1>3, <1>a
<1> QED
  BY <1>1, <1>3, <1>4, <1>5, <1>6, <1>7 DEF KeyInv, Running, Seen

LEMMA FirstHitKey ==
  ASSUME NEW t \in Nat, NEW o \in Nat, o # NotYet => o <= t,
         NEW w, NEW n, KeyInv(w, n, t, o), w.count = 0,
         NEW v \in WindowRecords, v.resetAt = t + Window, v.count = 1,
         NEW m \in Nat, m = n \/ (m = n + 1 /\ o # NotYet /\ v.count <= Limit)
  PROVE  KeyInv(v, m, t, o)
<1>a. Limit \in Nat /\ Window \in Nat \ {0}
  BY FixedWindowAssumption
<1>1. /\ n \in Nat
      /\ o = NotYet => n = 0
      /\ o # NotYet /\ t < o + Window => n <= Limit
  BY DEF KeyInv, Seen
<1>2. v.count > 0 /\ v.resetAt > t /\ v.resetAt <= t + Window
  BY <1>a
<1>3. o = NotYet => m = 0
  BY <1>1
<1>4. o # NotYet => t + Window >= o + Window
  BY <1>a
<1>5. o # NotYet /\ t < o + Window => m <= 2 * Limit /\ m <= Limit + 1
  <2>1. m = n \/ (m = n + 1 /\ 1 <= Limit)
    OBVIOUS
  <2> QED
    BY <1>a, <1>1, <2>1
<1>6. o # NotYet => ~(v.resetAt < o + Window)
  BY <1>a, <1>4
<1> QED
  BY <1>2, <1>3, <1>5, <1>6 DEF KeyInv, Running, Seen

LEMMA TickedKey ==
  ASSUME NEW t \in Nat, NEW o \in Nat, o # NotYet => o <= t,
         NEW w, NEW n, KeyInv(w, n, t, o),
         NEW v, v = IF w.resetAt <= t + 1 THEN Closed ELSE w
  PROVE  KeyInv(v, n, t + 1, o) /\ KeepsItsEnd(w, v, t + 1)
<1>a. Limit \in Nat /\ Window \in Nat \ {0} /\ Horizon \in Nat
  BY FixedWindowAssumption, PlacesAssumption
<1>1. w.count \in Nat /\ w.resetAt \in Nat /\ w \in WindowRecords /\ n \in Nat
  BY <1>a DEF KeyInv, WindowRecords
<1>2. CASE w.resetAt <= t + 1
  <2>1. v = Closed /\ v \in WindowRecords /\ v.count = 0
    BY <1>2, <1>a DEF Closed, WindowRecords
  <2>2. w.count > 0 /\ o # NotYet /\ t + 1 < o + Window => w.resetAt < o + Window
    BY <1>1, <1>2, <1>a
  <2>3. /\ o = NotYet => n = 0
        /\ o # NotYet /\ t < o + Window =>
             /\ w.count = 0 => n <= Limit
             /\ w.count > 0 /\ w.resetAt < o + Window => n <= Limit
    BY DEF KeyInv, Seen
  <2>4. o # NotYet /\ t + 1 < o + Window => n <= Limit
    BY <1>1, <1>a, <2>2, <2>3
  <2>5. ~(v.count > 0)
    BY <2>1
  <2> QED
    BY <1>1, <2>1, <2>3, <2>4, <2>5 DEF KeyInv, Running, Seen, KeepsItsEnd
<1>3. CASE ~(w.resetAt <= t + 1)
  <2>1. v = w
    BY <1>3
  <2>2. w.count > 0 => w.resetAt > t + 1 /\ w.resetAt <= (t + 1) + Window
    BY <1>a, <1>1, <1>3 DEF KeyInv, Running
  <2>3. o # NotYet /\ t + 1 < o + Window => t < o + Window
    BY <1>a
  <2>4. Seen(w, n, t + 1, o)
    BY <2>3 DEF KeyInv, Seen
  <2> QED
    BY <1>1, <2>1, <2>2, <2>4 DEF KeyInv, Running, KeepsItsEnd
<1> QED
  BY <1>2, <1>3

LEMMA WatchedKey ==
  ASSUME NEW t \in Nat, NEW w, NEW n, KeyInv(w, n, t, NotYet), t # NotYet
  PROVE  KeyInv(w, n, t, t)
BY FixedWindowAssumption, PlacesAssumption DEF KeyInv, Seen, WindowRecords

\* A window that is hit keeps its invariant, whether the hit was let through
\* and noted or nobody read the answer.
LEMMA CountedKey ==
  ASSUME WindowInv, NEW w, NEW n, KeyInv(w, n, second, watched), NEW m \in Nat,
         m = n \/ (m = n + 1 /\ watched # NotYet /\ Counted(w).count <= Limit)
  PROVE  KeyInv(Counted(w), m, second, watched)
<1>1. second \in Nat /\ watched \in Nat /\ (watched # NotYet => watched <= second)
  BY PlacesAssumption DEF WindowInv, Clocks, NotYet
<1>2. w \in WindowRecords /\ Running(w, second) /\ w.count \in Nat
  BY FixedWindowAssumption DEF KeyInv, WindowRecords
<1>3. /\ Counted(w) \in WindowRecords
      /\ w.count = 0 => Counted(w).count = 1 /\ Counted(w).resetAt = second + Window
      /\ w.count > 0 => /\ Counted(w).resetAt = w.resetAt
                        /\ Counted(w).count = IF w.count > Limit THEN w.count ELSE w.count + 1
  BY <1>2, CountedWindow
<1>4. CASE w.count = 0
  BY <1>1, <1>3, <1>4, FirstHitKey
<1>5. CASE w.count > 0
  BY <1>1, <1>3, <1>5, HitKey
<1> QED
  BY <1>2, <1>4, <1>5

\* A hit changes one window and at most one note.
LEMMA HitStep ==
  ASSUME WindowInv, NEW p \in Places, NEW e \in Emails, Hit(p, e),
         UNCHANGED <<second, watched>>
  PROVE  /\ window' \in [Places -> [Emails -> WindowRecords]]
         /\ passed' \in [Places -> [Emails -> Nat]]
         /\ window'[p][e] = Counted(window[p][e])
         /\ \A q \in Places, f \in Emails : q # p \/ f # e =>
              window'[q][f] = window[q][f] /\ passed'[q][f] = passed[q][f]
         /\ \A q \in Places, f \in Emails : KeyInv(window'[q][f], passed'[q][f], second, watched)
<1>1. /\ window \in [Places -> [Emails -> WindowRecords]]
      /\ passed \in [Places -> [Emails -> Nat]]
      /\ \A q \in Places, f \in Emails : KeyInv(window[q][f], passed[q][f], second, watched)
  BY DEF WindowInv
<1>2. Counted(window[p][e]) \in WindowRecords
  BY <1>1, CountedWindow DEF KeyInv
<1>3. window' = [window EXCEPT ![p][e] = Counted(window[p][e])]
  BY DEF Hit
<1>4. \/ passed' = passed
      \/ /\ passed' = [passed EXCEPT ![p][e] = @ + 1]
         /\ watched # NotYet /\ Counted(window[p][e]).count <= Limit
  BY DEF Hit
<1>5. window' \in [Places -> [Emails -> WindowRecords]]
  BY <1>1, <1>2, <1>3
<1>6. passed' \in [Places -> [Emails -> Nat]]
  <2>1. CASE passed' = passed
    BY <1>1, <2>1
  <2>2. CASE passed' = [passed EXCEPT ![p][e] = @ + 1]
    <3>1. passed[p] \in [Emails -> Nat] /\ passed[p][e] \in Nat
      BY <1>1
    <3>2. [passed[p] EXCEPT ![e] = @ + 1] \in [Emails -> Nat]
      BY <3>1
    <3> QED
      BY <1>1, <2>2, <3>2
  <2> QED
    BY <1>4, <2>1, <2>2
<1>7. window'[p][e] = Counted(window[p][e])
  BY <1>1, <1>3
<1>8. \A q \in Places, f \in Emails : q # p \/ f # e =>
        window'[q][f] = window[q][f] /\ passed'[q][f] = passed[q][f]
  BY <1>1, <1>3, <1>4
<1>9. KeyInv(window'[p][e], passed'[p][e], second, watched)
  <2>1. /\ passed'[p][e] \in Nat
        /\ \/ passed'[p][e] = passed[p][e]
           \/ passed'[p][e] = passed[p][e] + 1 /\ watched # NotYet /\ Counted(window[p][e]).count <= Limit
    BY <1>1, <1>4, <1>6
  <2> QED
    BY <1>1, <1>7, <2>1, CountedKey
<1> QED
  BY <1>1, <1>5, <1>6, <1>7, <1>8, <1>9

LEMMA WindowStep ==
  ASSUME WindowInv, [WindowNext]_winVars
  PROVE  /\ WindowInv'
         /\ \A p \in Places, e \in Emails : KeepsItsEnd(window[p][e], window'[p][e], second')
<1>a. Limit \in Nat /\ Window \in Nat \ {0} /\ Horizon \in Nat /\ MaxLate \in Nat
      /\ Normalize \in [Spellings -> Emails]
  BY FixedWindowAssumption, PlacesAssumption
<1>b. /\ Clocks
      /\ window \in [Places -> [Emails -> WindowRecords]]
      /\ passed \in [Places -> [Emails -> Nat]]
      /\ \A p \in Places, e \in Emails : KeyInv(window[p][e], passed[p][e], second, watched)
  BY DEF WindowInv
<1>c. Shared \in Places /\ \A i \in Instances : i \in Places
  BY DEF Places
\* The windows that a step leaves alone.
<1>d. ASSUME NEW w \in WindowRecords PROVE KeepsItsEnd(w, w, second')
  BY <1>a DEF KeepsItsEnd, WindowRecords
<1>e. ASSUME NEW w, Running(w, second), w \in WindowRecords
      PROVE  KeepsItsEnd(w, Counted(w), second')
  <2>1. /\ Counted(w) \in WindowRecords
        /\ w.count > 0 => /\ Counted(w).resetAt = w.resetAt
                          /\ Counted(w).count = IF w.count > Limit THEN w.count ELSE w.count + 1
    BY <1>e, CountedWindow
  <2> QED
    BY <1>a, <1>e, <2>1 DEF KeepsItsEnd, WindowRecords
<1>1. ASSUME NEW p \in Places, NEW e \in Emails, Hit(p, e), UNCHANGED <<second, watched>>,
             lateHits' \in [Emails -> 0..MaxLate]
      PROVE  WindowInv' /\ \A q \in Places, f \in Emails : KeepsItsEnd(window[q][f], window'[q][f], second')
  <2>1. /\ window' \in [Places -> [Emails -> WindowRecords]]
        /\ passed' \in [Places -> [Emails -> Nat]]
        /\ window'[p][e] = Counted(window[p][e])
        /\ \A q \in Places, f \in Emails : q # p \/ f # e =>
             window'[q][f] = window[q][f] /\ passed'[q][f] = passed[q][f]
        /\ \A q \in Places, f \in Emails : KeyInv(window'[q][f], passed'[q][f], second, watched)
    BY <1>1, HitStep
  <2>2. ASSUME NEW q \in Places, NEW f \in Emails
        PROVE  KeepsItsEnd(window[q][f], window'[q][f], second')
    <3>1. KeyInv(window[q][f], passed[q][f], second, watched)
      BY <1>b
    <3>2. window'[q][f] = window[q][f] \/ window'[q][f] = Counted(window[q][f])
      BY <2>1
    <3> QED
      BY <3>1, <3>2, <1>d, <1>e DEF KeyInv
  <2>3. ASSUME NEW q \in Places, NEW f \in Emails
        PROVE  KeyInv(window[q][f], passed[q][f], second, watched)'
    <3>1. KeyInv(window'[q][f], passed'[q][f], second, watched)
      BY <2>1
    <3> QED
      BY <3>1, <1>1 DEF KeyInv, Running, Seen
  <2>4. Clocks'
    BY <1>b, <1>1 DEF Clocks
  <2> QED
    BY <2>1, <2>2, <2>3, <2>4 DEF WindowInv, WindowRecords
<1>2. CASE \E s \in Spellings : Attempt(s)
  <2>1. PICK s \in Spellings : Attempt(s)
    BY <1>2
  <2>2. Key(s) \in Emails
    BY <1>a DEF Key
  <2>3. lateHits' \in [Emails -> 0..MaxLate] /\ Hit(Shared, Key(s)) /\ UNCHANGED <<second, watched>>
    BY <1>b, <2>1 DEF Attempt, Clocks
  <2> QED
    BY <1>1, <1>c, <2>2, <2>3
<1>3. CASE \E s \in Spellings : \E i \in Instances : AttemptDegraded(i, s)
  <2>1. PICK s \in Spellings, i \in Instances : AttemptDegraded(i, s)
    BY <1>3
  <2>2. Key(s) \in Emails
    BY <1>a DEF Key
  <2>3. lateHits' \in [Emails -> 0..MaxLate]
    BY <1>a, <1>b, <2>1, <2>2 DEF AttemptDegraded, Clocks
  <2>4. Hit(i, Key(s)) /\ UNCHANGED <<second, watched>>
    BY <2>1 DEF AttemptDegraded
  <2> QED
    BY <1>1, <1>c, <2>2, <2>3, <2>4
<1>4. CASE \E e \in Emails : LateHit(e)
  <2>1. PICK e \in Emails : LateHit(e)
    BY <1>4
  <2>2. KeyInv(window[Shared][e], passed[Shared][e], second, watched)
    BY <1>b, <1>c
  <2>3. Counted(window[Shared][e]) \in WindowRecords
    BY <2>2, CountedWindow DEF KeyInv
  <2>4. /\ window' = [window EXCEPT ![Shared][e] = Counted(window[Shared][e])]
        /\ lateHits' = [lateHits EXCEPT ![e] = @ - 1] /\ lateHits[e] > 0
        /\ UNCHANGED <<second, watched, passed>>
    BY <2>1 DEF LateHit
  <2>5. window' \in [Places -> [Emails -> WindowRecords]]
    BY <1>b, <1>c, <2>3, <2>4
  <2>6. ASSUME NEW q \in Places, NEW f \in Emails
        PROVE  \/ window'[q][f] = window[q][f]
               \/ window'[q][f] = Counted(window[q][f])
    BY <1>b, <1>c, <2>4
  <2>7. Clocks'
    BY <1>a, <1>b, <2>4 DEF Clocks
  <2>8. ASSUME NEW q \in Places, NEW f \in Emails
        PROVE  KeyInv(window[q][f], passed[q][f], second, watched)' /\ KeepsItsEnd(window[q][f], window'[q][f], second')
    <3>1. KeyInv(window[q][f], passed[q][f], second, watched)
      BY <1>b
    <3>2. KeyInv(Counted(window[q][f]), passed[q][f], second, watched)
      BY <3>1, CountedKey DEF KeyInv
    <3>3. KeyInv(window'[q][f], passed[q][f], second, watched)
      BY <2>6, <3>1, <3>2
    <3>4. KeyInv(window[q][f], passed[q][f], second, watched)'
      BY <3>3, <2>4 DEF KeyInv, Running, Seen
    <3>5. KeepsItsEnd(window[q][f], window'[q][f], second')
      BY <2>6, <3>1, <1>d, <1>e DEF KeyInv
    <3> QED
      BY <3>4, <3>5
  <2> QED
    BY <1>b, <2>4, <2>5, <2>7, <2>8 DEF WindowInv, WindowRecords
<1>5. CASE WindowTick
  <2>1. /\ second < Horizon /\ second' = second + 1
        /\ window' = [p \in Places |-> [e \in Emails |->
                        IF window[p][e].resetAt <= second + 1 THEN Closed ELSE window[p][e]]]
        /\ UNCHANGED <<lateHits, watched, passed>>
    BY <1>5 DEF WindowTick
  <2>2. Closed \in WindowRecords /\ Closed.count = 0
    BY <1>a DEF Closed, WindowRecords
  <2>3. Clocks'
    BY <1>a, <1>b, <2>1 DEF Clocks, NotYet
  <2>4. window' \in [Places -> [Emails -> WindowRecords]]
    BY <1>b, <2>1, <2>2
  <2>5. ASSUME NEW q \in Places, NEW f \in Emails
        PROVE  KeyInv(window[q][f], passed[q][f], second, watched)' /\ KeepsItsEnd(window[q][f], window'[q][f], second')
    <3>1. window'[q][f] = IF window[q][f].resetAt <= second + 1 THEN Closed ELSE window[q][f]
      BY <2>1
    <3>2. second \in Nat /\ watched \in Nat /\ (watched # NotYet => watched <= second)
      BY <1>a, <1>b DEF Clocks, NotYet
    <3>3. /\ KeyInv(window'[q][f], passed[q][f], second + 1, watched)
          /\ KeepsItsEnd(window[q][f], window'[q][f], second + 1)
      BY <1>b, <3>1, <3>2, TickedKey
    <3> QED
      BY <2>1, <3>3 DEF KeyInv, Running, Seen, NotYet, WindowRecords
  <2> QED
    BY <1>b, <2>1, <2>3, <2>4, <2>5 DEF WindowInv, WindowRecords
<1>6. CASE Watch
  <2>1. watched = NotYet /\ watched' = second /\ UNCHANGED <<second, window, lateHits, passed>>
    BY <1>6 DEF Watch
  <2>2. Clocks'
    BY <1>a, <1>b, <2>1 DEF Clocks, NotYet
  <2>3. ASSUME NEW q \in Places, NEW f \in Emails
        PROVE  KeyInv(window[q][f], passed[q][f], second, watched)' /\ KeepsItsEnd(window[q][f], window'[q][f], second')
    <3>1. KeyInv(window[q][f], passed[q][f], second, watched)
      BY <1>b
    <3>2. second \in Nat /\ second # NotYet
      BY <1>a, <1>b DEF Clocks, NotYet
    <3>3. KeyInv(window[q][f], passed[q][f], second, second)
      BY <2>1, <3>1, <3>2, WatchedKey
    <3>5. KeyInv(window[q][f], passed[q][f], second, watched)'
      BY <2>1, <3>3 DEF KeyInv, Running, Seen, NotYet, WindowRecords
    <3> QED
      BY <1>d, <2>1, <3>1, <3>5 DEF KeyInv
  <2> QED
    BY <1>b, <2>1, <2>2, <2>3 DEF WindowInv, WindowRecords
<1>7. CASE UNCHANGED winVars
  <2>1. UNCHANGED <<second, window, lateHits, watched, passed>>
    BY <1>7 DEF winVars
  <2>2. WindowInv'
    BY <2>1 DEF WindowInv, Clocks, KeyInv, Running, Seen, WindowRecords
  <2> QED
    BY <1>b, <1>d, <2>1, <2>2
<1> QED
  BY <1>2, <1>3, <1>4, <1>5, <1>6, <1>7 DEF WindowNext

LEMMA WindowInitInv == WindowInit => WindowInv
<1> SUFFICES ASSUME WindowInit PROVE WindowInv
  OBVIOUS
<1>a. Limit \in Nat /\ Window \in Nat \ {0} /\ Horizon \in Nat /\ MaxLate \in Nat
  BY FixedWindowAssumption, PlacesAssumption
<1>1. Closed \in WindowRecords /\ Closed.count = 0
  BY <1>a DEF Closed, WindowRecords
<1>2. Clocks
  BY <1>a DEF WindowInit, Clocks, NotYet
<1>3. ASSUME NEW p \in Places, NEW e \in Emails PROVE KeyInv(window[p][e], passed[p][e], second, watched)
  <2>1. window[p][e] = Closed /\ passed[p][e] = 0
    BY DEF WindowInit
  <2> QED
    BY <1>a, <1>1, <2>1 DEF KeyInv, Running, Seen, WindowInit
<1> QED
  BY <1>1, <1>2, <1>3 DEF WindowInit, WindowInv

\* A lockout is as strict and as long as it was announced (hit, hitLocal and
\* the script of fixed-window-rate-limiter.ts): in any stretch of one window a
\* place lets an email through at most twice the limit, and a window ends when
\* it was going to, for any number of instances, spellings and late scripts.
THEOREM ThrottleHolds == WindowSpec => WindowsHold
<1>1. WindowInit => WindowInv
  BY WindowInitInv
<1>2. WindowInv /\ [WindowNext]_winVars => WindowInv'
  BY WindowStep
<1>3. WindowInv => WindowTypeOK /\ TwiceTheLimit
  BY WindowInvImplies
<1>4. WindowInv /\ [WindowNext]_winVars =>
        [\A p \in Places, e \in Emails :
           window[p][e].count > 0 /\ window'[p][e].count > 0
             /\ second' < window[p][e].resetAt
           => window'[p][e].resetAt = window[p][e].resetAt
              /\ window'[p][e].count >= window[p][e].count]_winVars
  BY WindowStep DEF KeepsItsEnd
<1> QED
  BY <1>1, <1>2, <1>3, <1>4, PTL DEF WindowSpec, WindowsHold, NeverProlonged

-----------------------------------------------------------------------------
(* The token buckets.  What a bucket has granted and what it still holds    *)
(* never exceed a full bucket and what was earned since: a take moves       *)
(* tokens from the second to the first, and time adds at the rate.          *)

Levels == [tokens : Int, ts : Int, ttl : Nat]

\* What Refilled(p, b) makes of a level l that was counted d ago.
Refill(l, b, d) == Min2(Capacity[b], l.tokens + d * Rate[b])

\* A shared bucket never owes; it was counted in the past; and a tick before
\* its key expires it is full.
SharedLevel(l, b, t) ==
  /\ l.tokens >= 0 /\ l.ts <= t
  /\ l.ttl # 0 => l.tokens + (l.ttl - 1 - l.ts) * Rate[b] >= Capacity[b]

BucketTypes ==
  /\ now \in 0..Horizon
  /\ behind \in [Places -> 0..MaxSteps] /\ behind[Shared] = 0
  /\ waiting \in SUBSET Own /\ late \in SUBSET Buckets
  /\ since \in 0..NotYet
  /\ subject \in Places \X Buckets
  /\ granted \in Nat /\ promised \in Nat /\ unspent \in Int
  /\ level \in [Places -> [Buckets -> Levels]]

LevelsHold ==
  /\ \A p \in Places, b \in Buckets : level[p][b].tokens <= Capacity[b]
  /\ \A b \in Buckets : SharedLevel(level[Shared][b], b, now)

\* What the observed bucket has granted, and holds.
Balance ==
  /\ since = NotYet => granted = 0
  /\ since # NotYet =>
       /\ since <= now
       /\ granted * Cost <= Capacity[subject[2]] + (now - since) * Rate[subject[2]]
       /\ granted * Cost + Refilled(subject[1], subject[2])
            <= Capacity[subject[2]] + (now - since) * Rate[subject[2]]

\* A refused caller's token is there or will have been earned by then.
Promise ==
  promised # 0 =>
    /\ subject[1] = Shared
    /\ \/ Refilled(Shared, subject[2]) >= Cost
       \/ Refilled(Shared, subject[2]) + (promised - now) * Rate[subject[2]] >= Cost

\* The messages a visitor's bucket allowed pay for the tokens that are drawn
\* of the site's, or will be.
Shield ==
  /\ IsFiniteSet(waiting)
  /\ unspent >= Cardinality(waiting) + (IF Site \in late THEN 1 ELSE 0)

\* The buckets' inductive invariant.
BucketInv == BucketTypes /\ LevelsHold /\ Balance /\ Promise /\ Shield

LEMMA BucketConstants ==
  /\ Horizon \in Nat /\ MaxSteps \in Nat /\ Cost \in Nat /\ Cost > 0
  /\ Shared \in Places /\ Site \in Buckets /\ Ask \in Buckets /\ Own \subseteq Buckets
  /\ Site \notin Own /\ Site # Ask /\ \A i \in Instances : i \in Places /\ i # Shared
  /\ \A b \in Buckets : /\ Capacity[b] \in Nat /\ Rate[b] \in Nat /\ Rate[b] > 0
                        /\ Cost <= Capacity[b]
BY TokenBucketAssumption, PlacesAssumption DEF Places

-----------------------------------------------------------------------------
(* Arithmetic.                                                             *)

\* A rounded-up quotient, times the divisor, is no less than the dividend.
LEMMA CeilDivBound ==
  ASSUME NEW a \in Int, NEW b \in Nat \ {0}
  PROVE  CeilDiv(a, b) \in Int /\ CeilDiv(a, b) * b >= a
<1>1. PICK q : q = (a + b - 1) \div b
  OBVIOUS
<1>2. q \in Int /\ a + b - 1 < q * b + b
  BY <1>1
<1> QED
  BY <1>1, <1>2 DEF CeilDiv

LEMMA PositiveFactor ==
  ASSUME NEW q \in Int, NEW b \in Nat, q * b > 0
  PROVE  q > 0
OBVIOUS

\* A longer time earns no less.
LEMMA Longer ==
  ASSUME NEW m \in Int, NEW n \in Int, m <= n, NEW r \in Nat
  PROVE  m * r <= n * r
OBVIOUS

LEMMA RefillTypes ==
  ASSUME NEW b \in Buckets, NEW l \in Levels, NEW d \in Int
  PROVE  /\ Refill(l, b, d) \in Int /\ Refill(l, b, d) <= Capacity[b]
         /\ d >= 0 /\ l.tokens >= 0 => Refill(l, b, d) >= 0
<1>1. PICK k, r, cap : k = l.tokens /\ r = Rate[b] /\ cap = Capacity[b]
  OBVIOUS
<1>2. k \in Int /\ r \in Nat /\ cap \in Nat
  BY <1>1, BucketConstants DEF Levels
<1>3. d * r \in Int /\ (d >= 0 => d * r >= 0)
  BY <1>2
<1>4. Refill(l, b, d) = Min2(cap, k + d * r)
  BY <1>1 DEF Refill
<1> QED
  BY <1>1, <1>2, <1>3, <1>4 DEF Min2

\* A tick earns the rate, or fills the bucket.
LEMMA RefillTick ==
  ASSUME NEW b \in Buckets, NEW l \in Levels, NEW d \in Int
  PROVE  /\ Refill(l, b, d + 1) <= Refill(l, b, d) + Rate[b]
         /\ \/ Refill(l, b, d + 1) = Capacity[b]
            \/ Refill(l, b, d + 1) = Refill(l, b, d) + Rate[b]
<1>1. PICK k, r, cap : k = l.tokens /\ r = Rate[b] /\ cap = Capacity[b]
  OBVIOUS
<1>2. k \in Int /\ r \in Nat /\ cap \in Nat
  BY <1>1, BucketConstants DEF Levels
<1>3. Refill(l, b, d) = Min2(cap, k + d * r) /\ Refill(l, b, d + 1) = Min2(cap, k + (d + 1) * r)
  BY <1>1 DEF Refill
<1>4. (d + 1) * r = d * r + r /\ d * r \in Int
  BY <1>2
<1> QED
  BY <1>1, <1>2, <1>3, <1>4 DEF Min2

\* An instance's clock that is set back earns nothing.
LEMMA RefillBack ==
  ASSUME NEW b \in Buckets, NEW l \in Levels, NEW d \in Int
  PROVE  Refill(l, b, d - 1) <= Refill(l, b, d)
<1>1. PICK e \in Int : e = d - 1
  OBVIOUS
<1>2. Refill(l, b, e + 1) = Capacity[b] \/ Refill(l, b, e + 1) = Refill(l, b, e) + Rate[b]
  BY <1>1, RefillTick
<1>3. Refill(l, b, e) \in Int /\ Refill(l, b, e) <= Capacity[b] /\ e + 1 = d
  BY <1>1, RefillTypes
<1> QED
  BY <1>1, <1>2, <1>3, BucketConstants

\* A bucket that was just counted holds what was counted.
LEMMA RefillNow ==
  ASSUME NEW b \in Buckets, NEW l \in Levels, l.tokens <= Capacity[b]
  PROVE  Refill(l, b, 0) = l.tokens
<1>1. 0 * Rate[b] = 0
  BY BucketConstants
<1> QED
  BY <1>1, BucketConstants DEF Levels, Refill, Min2

\* A bucket whose key is about to expire is full.
LEMMA RefillExpires ==
  ASSUME NEW b \in Buckets, NEW l \in Levels, NEW t \in Nat, SharedLevel(l, b, t),
         l.ttl # 0, l.ttl <= t + 1
  PROVE  Refill(l, b, t - l.ts) = Capacity[b]
<1>1. PICK k, r, cap, d, e : /\ k = l.tokens /\ r = Rate[b] /\ cap = Capacity[b]
                             /\ d = t - l.ts /\ e = l.ttl - 1 - l.ts
  OBVIOUS
<1>2. k \in Int /\ r \in Nat /\ cap \in Nat /\ d \in Int /\ d >= 0 /\ e \in Int /\ e <= d
  BY <1>1, BucketConstants DEF Levels, SharedLevel
<1>3. k + e * r >= cap
  BY <1>1 DEF SharedLevel
<1>4. e * r <= d * r /\ e * r \in Int /\ d * r \in Int
  BY <1>2, Longer
<1>5. Refill(l, b, t - l.ts) = Min2(cap, k + d * r)
  BY <1>1 DEF Refill
<1>6. PICK x, y : x = e * r /\ y = d * r
  OBVIOUS
<1>7. x \in Int /\ y \in Int /\ x <= y /\ k + x >= cap
  BY <1>3, <1>4, <1>6
<1>8. Min2(cap, k + y) = cap
  BY <1>2, <1>7 DEF Min2
<1> QED
  BY <1>1, <1>5, <1>6, <1>8

LEMMA ClockTypes ==
  ASSUME BucketTypes, NEW p \in Places
  PROVE  /\ Clock(p) \in Int /\ Clock(Shared) = now /\ now \in Nat
         /\ \A b \in Buckets : level[p][b] \in Levels
BY BucketConstants DEF BucketTypes, Clock

\* Before a step and after it.
LEMMA RefilledIs ==
  ASSUME NEW p \in Places, NEW b \in Buckets
  PROVE  /\ /\ level[p][b] \in Levels /\ Clock(p) \in Int
            /\ p = Shared => level[p][b].ts <= Clock(p)
            => Refilled(p, b) = Refill(level[p][b], b, Clock(p) - level[p][b].ts)
         /\ /\ level'[p][b] \in Levels /\ Clock(p)' \in Int
            /\ p = Shared => level'[p][b].ts <= Clock(p)'
            => Refilled(p, b)' = Refill(level'[p][b], b, Clock(p)' - level'[p][b].ts)
BY DEF Refilled, Refill, Max2, Levels

LEMMA RefilledNow ==
  ASSUME BucketTypes, LevelsHold, NEW p \in Places, NEW b \in Buckets
  PROVE  /\ Refilled(p, b) = Refill(level[p][b], b, Clock(p) - level[p][b].ts)
         /\ Refilled(p, b) \in Int /\ Refilled(p, b) <= Capacity[b]
         /\ p = Shared => Refilled(p, b) >= 0
<1>1. level[p][b] \in Levels /\ Clock(p) \in Int /\ Clock(Shared) = now
  BY ClockTypes
<1>2. p = Shared => level[p][b].ts <= Clock(p) /\ level[p][b].tokens >= 0
  BY <1>1 DEF LevelsHold, SharedLevel
<1>3. PICK d : d = Clock(p) - level[p][b].ts
  OBVIOUS
<1>4. d \in Int /\ (p = Shared => d >= 0)
  BY <1>1, <1>2, <1>3 DEF Levels
<1>5. Refilled(p, b) = Refill(level[p][b], b, d)
  BY <1>1, <1>2, <1>3, RefilledIs
<1> QED
  BY <1>1, <1>2, <1>3, <1>4, <1>5, RefillTypes

-----------------------------------------------------------------------------
(* A take, wherever it is counted.                                         *)

\* Only the bucket taken from changes, and it holds what was left.
LEMMA TakenLevel ==
  ASSUME BucketTypes, LevelsHold, NEW p \in Places, NEW b \in Buckets,
         level' = [level EXCEPT ![p][b] = Taken(p, b)], UNCHANGED <<now, behind>>
  PROVE  /\ level' \in [Places -> [Buckets -> Levels]]
         /\ LevelsHold'
         /\ Refilled(p, b) \in Int /\ Refilled(p, b) <= Capacity[b]
         /\ Refilled(p, b)' = Refilled(p, b) - (IF Allows(p, b) THEN Cost ELSE 0)
         /\ \A q \in Places, c \in Buckets : q # p \/ c # b => Refilled(q, c)' = Refilled(q, c)
<1>a. /\ Cost \in Nat /\ Cost > 0 /\ Capacity[b] \in Nat /\ Rate[b] \in Nat /\ Rate[b] > 0
      /\ Cost <= Capacity[b] /\ Shared \in Places
  BY BucketConstants
<1>b. level \in [Places -> [Buckets -> Levels]] /\ now \in Nat
  BY ClockTypes DEF BucketTypes
<1>c. Clock(p) \in Int /\ Clock(Shared) = now /\ level[p][b] \in Levels
  BY ClockTypes
<1>1. /\ Refilled(p, b) \in Int /\ Refilled(p, b) <= Capacity[b]
      /\ p = Shared => Refilled(p, b) >= 0
  BY RefilledNow
<1>2. PICK k : k = Refilled(p, b) - (IF Allows(p, b) THEN Cost ELSE 0)
  OBVIOUS
<1>3. k \in Int /\ k <= Capacity[b] /\ (p = Shared => k >= 0)
  BY <1>a, <1>1, <1>2 DEF Allows
<1>4. Ttl(b) \in Nat /\ Ttl(b) # 0 /\ (Ttl(b) - 1) * Rate[b] >= Capacity[b]
  <2>1. CeilDiv(Capacity[b], Rate[b]) \in Int /\ CeilDiv(Capacity[b], Rate[b]) * Rate[b] >= Capacity[b]
    BY <1>a, CeilDivBound
  <2>2. CeilDiv(Capacity[b], Rate[b]) > 0
    BY <1>a, <2>1, PositiveFactor
  <2>3. Ttl(b) - 1 = CeilDiv(Capacity[b], Rate[b])
    BY <2>1 DEF Ttl
  <2> QED
    BY <2>1, <2>2, <2>3 DEF Ttl
<1>5. PICK l : l = Taken(p, b)
  OBVIOUS
<1>6. /\ l \in Levels /\ l.tokens = k /\ l.ts = Clock(p)
      /\ l.ttl = IF p = Shared THEN now + Ttl(b) ELSE 0
  BY <1>b, <1>c, <1>2, <1>3, <1>4, <1>5 DEF Taken, Levels
<1>7. level' = [level EXCEPT ![p][b] = l]
  BY <1>5
<1>8. level' \in [Places -> [Buckets -> Levels]]
  <2>1. [level[p] EXCEPT ![b] = l] \in [Buckets -> Levels]
    BY <1>b, <1>6
  <2> QED
    BY <1>b, <1>7, <2>1
<1>9. level'[p][b] = l /\ \A q \in Places, c \in Buckets : q # p \/ c # b => level'[q][c] = level[q][c]
  BY <1>b, <1>7
<1>10. p = Shared => SharedLevel(l, b, now)
  <2> SUFFICES ASSUME p = Shared PROVE SharedLevel(l, b, now)
    OBVIOUS
  <2>1. l.tokens >= 0 /\ l.ts = now /\ l.ttl = now + Ttl(b)
    BY <1>3, <1>6, <1>c
  <2>2. l.ttl - 1 - l.ts = Ttl(b) - 1
    BY <1>b, <1>4, <2>1
  <2>3. l.tokens + (Ttl(b) - 1) * Rate[b] >= Capacity[b]
    <3>1. PICK x : x = (Ttl(b) - 1) * Rate[b]
      OBVIOUS
    <3>2. x \in Int /\ x >= Capacity[b]
      BY <1>a, <1>4, <3>1
    <3> QED
      BY <1>3, <1>6, <1>a, <2>1, <3>1, <3>2
  <2> QED
    BY <1>b, <2>1, <2>2, <2>3 DEF SharedLevel
<1>11. LevelsHold'
  <2>1. ASSUME NEW q \in Places, NEW c \in Buckets PROVE level'[q][c].tokens <= Capacity[c]
    BY <1>3, <1>6, <1>9 DEF LevelsHold
  <2>2. ASSUME NEW c \in Buckets PROVE SharedLevel(level'[Shared][c], c, now)
    BY <1>a, <1>9, <1>10 DEF LevelsHold
  <2> QED
    BY <2>1, <2>2 DEF LevelsHold
<1>12. Refilled(p, b)' = k
  <2>1. Clock(p)' = Clock(p) /\ l.ts - l.ts = 0 /\ l.ts <= l.ts
    BY <1>6, <1>c DEF Clock
  <2>2. Refill(l, b, 0) = l.tokens
    BY <1>3, <1>6, RefillNow
  <2>3. Refilled(p, b)' = Refill(l, b, l.ts - l.ts)
    BY <1>6, <1>9, <1>c, <2>1, RefilledIs
  <2> QED
    BY <1>6, <2>1, <2>2, <2>3
<1>13. ASSUME NEW q \in Places, NEW c \in Buckets, q # p \/ c # b
       PROVE  Refilled(q, c)' = Refilled(q, c)
  <2>1. Clock(q)' = Clock(q) /\ level'[q][c] = level[q][c]
    BY <1>9, <1>13 DEF Clock
  <2> QED
    BY <2>1 DEF Refilled
<1> QED
  BY <1>1, <1>2, <1>8, <1>11, <1>12, <1>13

\* The observer's notes stay true.
LEMMA TakenNotes ==
  ASSUME BucketTypes, LevelsHold, Balance, Promise, NEW p \in Places, NEW b \in Buckets,
         level' = [level EXCEPT ![p][b] = Taken(p, b)], Noted(p, b),
         UNCHANGED <<now, behind, since, subject>>
  PROVE  /\ granted' \in Nat /\ promised' \in Nat
         /\ Balance' /\ Promise'
<1>a. /\ Cost \in Nat /\ Cost > 0 /\ Shared \in Places
      /\ \A c \in Buckets : Capacity[c] \in Nat /\ Rate[c] \in Nat /\ Rate[c] > 0
  BY BucketConstants
<1>b. PICK q \in Places, c \in Buckets : subject = <<q, c>>
  BY DEF BucketTypes
<1>c. /\ subject[1] = q /\ subject[2] = c /\ subject' = subject
      /\ now \in Nat /\ now' = now /\ since' = since /\ since \in Nat
      /\ granted \in Nat /\ promised \in Nat
  BY <1>b, PlacesAssumption DEF BucketTypes, NotYet
<1>d. /\ Refilled(p, b) \in Int /\ Refilled(p, b) <= Capacity[b]
      /\ Refilled(p, b)' = Refilled(p, b) - (IF Allows(p, b) THEN Cost ELSE 0)
      /\ \A r \in Places, d \in Buckets : r # p \/ d # b => Refilled(r, d)' = Refilled(r, d)
  BY TakenLevel
<1>1. CASE <<p, b>> # subject
  <2>1. UNCHANGED <<granted, promised>>
    BY <1>1 DEF Noted
  <2>2. Refilled(q, c)' = Refilled(q, c)
    BY <1>1, <1>b, <1>d
  <2>3. Balance'
    BY <1>c, <2>1, <2>2 DEF Balance, NotYet
  <2>4. Promise'
    BY <1>c, <2>1, <2>2 DEF Promise
  <2> QED
    BY <1>c, <2>1, <2>3, <2>4
<1>2. CASE <<p, b>> = subject
  <2>1. p = q /\ b = c
    BY <1>2, <1>b
  <2>2. PICK n, room, x, y : /\ n = Refilled(p, b) /\ y = Refilled(p, b)'
                            /\ room = Capacity[c] + (now - since) * Rate[c]
                            /\ x = granted * Cost
    OBVIOUS
  <2>3. n \in Int /\ room \in Int /\ x \in Int
    BY <1>a, <1>c, <1>d, <2>2
  <2>4. since # NotYet => since <= now /\ x <= room /\ x + n <= room
    BY <1>c, <2>1, <2>2 DEF Balance
  <2>5. since = NotYet => granted = 0
    BY DEF Balance
  <2>6. CASE Allows(p, b)
    <3>1. promised' = 0 /\ granted' = IF since # NotYet THEN granted + 1 ELSE granted
      BY <1>2, <2>6 DEF Noted
    <3>2. n >= Cost /\ y = n - Cost
      BY <1>d, <2>2, <2>6 DEF Allows
    <3>3. since # NotYet => granted' * Cost = x + Cost
      BY <1>a, <1>c, <2>2, <3>1
    <3>4. since # NotYet => granted' * Cost <= room /\ granted' * Cost + y <= room
      BY <1>a, <2>3, <2>4, <3>2, <3>3
    <3>5. Balance'
      BY <1>c, <2>1, <2>2, <2>4, <2>5, <3>1, <3>4 DEF Balance, NotYet
    <3> QED
      BY <1>c, <3>1, <3>5 DEF Promise
  <2>7. CASE ~Allows(p, b)
    <3>1. /\ granted' = granted
          /\ promised' = IF p = Shared THEN now + RetryAfter(p, b) ELSE 0
      BY <1>2, <2>7 DEF Noted
    <3>2. y = n /\ n < Cost
      BY <1>a, <1>d, <2>2, <2>7, <2>3 DEF Allows
    <3>3. /\ RetryAfter(p, b) \in Int /\ RetryAfter(p, b) * Rate[b] >= Cost - n
      <4>1. Rate[b] \in Nat \ {0} /\ Cost - n \in Int
        BY <1>a, <2>3
      <4>2. RetryAfter(p, b) = CeilDiv(Cost - n, Rate[b])
        BY <2>2 DEF RetryAfter
      <4> QED
        BY <4>1, <4>2, CeilDivBound
    <3>4. RetryAfter(p, b) > 0
      <4>1. PICK k, r : k = RetryAfter(p, b) /\ r = Rate[b]
        OBVIOUS
      <4>2. k \in Int /\ r \in Nat /\ k * r > 0
        <5>1. PICK z : z = k * r
          OBVIOUS
        <5>2. z \in Int /\ z >= Cost - n
          BY <1>a, <3>3, <4>1, <5>1
        <5> QED
          BY <1>a, <2>3, <3>2, <3>3, <4>1, <5>1, <5>2
      <4> QED
        BY <4>1, <4>2, PositiveFactor
    <3>5. Balance'
      BY <1>c, <2>1, <2>2, <2>4, <2>5, <3>1, <3>2 DEF Balance, NotYet
    <3>6. Promise'
      <4>1. CASE p # Shared
        BY <3>1, <4>1 DEF Promise
      <4>2. CASE p = Shared
        <5>1. promised' - now = RetryAfter(p, b)
          BY <1>c, <3>1, <3>3, <4>2
        <5>2. n + RetryAfter(p, b) * Rate[b] >= Cost
          <6>1. PICK z : z = RetryAfter(p, b) * Rate[b]
            OBVIOUS
          <6>2. z \in Int /\ z >= Cost - n
            BY <1>a, <3>3, <6>1
          <6> QED
            BY <1>a, <2>3, <6>1, <6>2
        <5> QED
          BY <1>c, <2>1, <2>2, <3>2, <4>2, <5>1, <5>2 DEF Promise
      <4> QED
        BY <4>1, <4>2
    <3> QED
      BY <1>c, <3>1, <3>3, <3>4, <3>5, <3>6
  <2> QED
    BY <2>6, <2>7
<1> QED
  BY <1>1, <1>2

-----------------------------------------------------------------------------
(* The time, Redis's and the instances'.                                   *)

LEMMA TickKeeps ==
  ASSUME BucketTypes, LevelsHold, Balance, Promise, BucketTick
  PROVE  BucketTypes' /\ LevelsHold' /\ Balance' /\ Promise'
<1>a. /\ Horizon \in Nat /\ Cost \in Nat /\ Cost > 0 /\ Shared \in Places
      /\ \A c \in Buckets : /\ Capacity[c] \in Nat /\ Rate[c] \in Nat /\ Rate[c] > 0
                            /\ Cost <= Capacity[c]
  BY BucketConstants
<1>b. /\ now < Horizon /\ now' = now + 1
      /\ level' = [level EXCEPT ![Shared] = [b \in Buckets |->
                     IF level[Shared][b].ttl # 0 /\ level[Shared][b].ttl <= now + 1
                     THEN Full(b, now + 1) ELSE level[Shared][b]]]
      /\ UNCHANGED <<behind, waiting, late, since, subject, granted, promised, unspent>>
  BY DEF BucketTick
<1>c. /\ now \in Nat /\ since \in Nat /\ granted \in Nat /\ promised \in Nat
      /\ level \in [Places -> [Buckets -> Levels]]
  BY PlacesAssumption DEF BucketTypes, NotYet
<1>1. ASSUME NEW b \in Buckets
      PROVE  /\ Full(b, now + 1) \in Levels /\ Full(b, now + 1).tokens = Capacity[b]
             /\ Full(b, now + 1).ts = now + 1 /\ Full(b, now + 1).ttl = 0
  BY <1>a, <1>c DEF Full, Levels
<1>2. level' \in [Places -> [Buckets -> Levels]]
  BY <1>a, <1>b, <1>c, <1>1
<1>3. ASSUME NEW p \in Places, NEW b \in Buckets
      PROVE  \/ level'[p][b] = level[p][b]
             \/ /\ p = Shared /\ level'[p][b] = Full(b, now + 1)
                /\ level[p][b].ttl # 0 /\ level[p][b].ttl <= now + 1
  BY <1>a, <1>b, <1>c
<1>4. BucketTypes'
  BY <1>a, <1>b, <1>c, <1>2 DEF BucketTypes
<1>5. LevelsHold'
  <2>1. ASSUME NEW p \in Places, NEW b \in Buckets PROVE level'[p][b].tokens <= Capacity[b]
    BY <1>a, <1>1, <1>3 DEF LevelsHold
  <2>2. ASSUME NEW b \in Buckets PROVE SharedLevel(level'[Shared][b], b, now + 1)
    <3>1. SharedLevel(level[Shared][b], b, now) /\ level[Shared][b] \in Levels
      BY <1>a, <1>c DEF LevelsHold
    <3>2. SharedLevel(level[Shared][b], b, now + 1)
      BY <1>c, <3>1 DEF SharedLevel, Levels
    <3>3. SharedLevel(Full(b, now + 1), b, now + 1)
      BY <1>a, <1>c, <1>1 DEF SharedLevel
    <3> QED
      BY <1>a, <1>3, <3>2, <3>3
  <2> QED
    BY <1>b, <2>1, <2>2 DEF LevelsHold
\* A bucket that is forgotten was full.
<1>6. ASSUME NEW p \in Places, NEW b \in Buckets
      PROVE  /\ Refilled(p, b) \in Int /\ Refilled(p, b)' \in Int
             /\ Refilled(p, b)' <= Refilled(p, b) + Rate[b]
             /\ p = Shared => \/ Refilled(p, b)' = Capacity[b]
                              \/ Refilled(p, b)' = Refilled(p, b) + Rate[b]
  <2>1. /\ Clock(p) \in Int /\ level[p][b] \in Levels /\ Clock(Shared) = now
        /\ Clock(p)' = Clock(p) + 1
    <3>1. Clock(p) \in Int /\ level[p][b] \in Levels /\ Clock(Shared) = now
      BY ClockTypes
    <3>2. behind[p] \in Int
      BY <1>a, BucketConstants DEF BucketTypes
    <3> QED
      BY <1>b, <1>c, <3>1, <3>2 DEF Clock
  <2>2. p = Shared => level[p][b].ts <= Clock(p)
    BY <2>1 DEF LevelsHold, SharedLevel
  <2>3. CASE level'[p][b] = level[p][b]
    <3>1. PICK d : d = Clock(p) - level[p][b].ts
      OBVIOUS
    <3>2. d \in Int /\ Clock(p)' - level'[p][b].ts = d + 1 /\ Clock(p)' \in Int
      BY <2>1, <2>3, <3>1 DEF Levels
    <3>3. p = Shared => level'[p][b].ts <= Clock(p)'
      BY <2>1, <2>2, <2>3 DEF Levels
    <3>4. Refilled(p, b) = Refill(level[p][b], b, d)
      BY <3>1, RefilledNow
    <3>5. Refilled(p, b)' = Refill(level[p][b], b, d + 1)
      BY <2>1, <2>3, <3>2, <3>3, RefilledIs
    <3>6. Refill(level[p][b], b, d) \in Int /\ Refill(level[p][b], b, d + 1) \in Int
      BY <2>1, <3>2, RefillTypes
    <3> QED
      BY <2>1, <3>2, <3>4, <3>5, <3>6, RefillTick
  <2>4. CASE /\ p = Shared /\ level'[p][b] = Full(b, now + 1)
             /\ level[p][b].ttl # 0 /\ level[p][b].ttl <= now + 1
    <3>1. Refilled(p, b) = Capacity[b]
      <4>1. SharedLevel(level[p][b], b, now)
        BY <2>4 DEF LevelsHold
      <4>2. Refill(level[p][b], b, now - level[p][b].ts) = Capacity[b]
        BY <1>c, <2>1, <2>4, <4>1, RefillExpires
      <4> QED
        BY <2>1, <2>4, <4>2, RefilledNow
    <3>2. Refilled(p, b)' = Capacity[b]
      <4>1. PICK l : l = Full(b, now + 1)
        OBVIOUS
      <4>2. l \in Levels /\ l.tokens = Capacity[b] /\ l.ts = now + 1 /\ l.tokens <= Capacity[b]
        BY <1>1, <1>a, <4>1
      <4>3. Refill(l, b, 0) = l.tokens
        BY <4>2, RefillNow
      <4>4. /\ Clock(p)' \in Int /\ Clock(p)' = now + 1 /\ level'[p][b] = l
            /\ l.ts <= Clock(p)' /\ Clock(p)' - l.ts = 0
        BY <1>c, <2>1, <2>4, <4>1, <4>2
      <4>5. Refilled(p, b)' = Refill(l, b, Clock(p)' - l.ts)
        BY <4>2, <4>4, RefilledIs
      <4> QED
        BY <4>2, <4>3, <4>4, <4>5
    <3> QED
      BY <1>a, <3>1, <3>2
  <2> QED
    BY <1>3, <2>3, <2>4
<1>d. PICK q \in Places, c \in Buckets : subject = <<q, c>>
  BY DEF BucketTypes
<1>e. subject[1] = q /\ subject[2] = c
  BY <1>d
<1>7. Balance'
  <2> SUFFICES ASSUME since # NotYet
               PROVE  /\ since <= now'
                      /\ granted * Cost <= Capacity[c] + (now' - since) * Rate[c]
                      /\ granted * Cost + Refilled(q, c)'
                           <= Capacity[c] + (now' - since) * Rate[c]
    <3>1. since = NotYet => granted = 0
      BY DEF Balance
    <3> QED
      BY <1>b, <1>e, <3>1 DEF Balance, NotYet
  <2>1. PICK x, room, r, n, m : /\ x = granted * Cost /\ r = Rate[c]
                                /\ room = Capacity[c] + (now - since) * Rate[c]
                                /\ n = Refilled(q, c) /\ m = Refilled(q, c)'
    OBVIOUS
  <2>2. x \in Int /\ r \in Nat /\ room \in Int /\ n \in Int /\ m \in Int
    BY <1>a, <1>c, <1>6, <2>1
  <2>3. since <= now /\ x <= room /\ x + n <= room /\ m <= n + r
    BY <1>e, <1>6, <2>1 DEF Balance
  <2>4. Capacity[c] + (now + 1 - since) * Rate[c] = room + r
    BY <1>a, <1>c, <2>1
  <2> QED
    BY <1>b, <1>c, <2>1, <2>2, <2>3, <2>4
<1>8. Promise'
  <2> SUFFICES ASSUME promised # 0
               PROVE  /\ q = Shared
                      /\ \/ Refilled(Shared, c)' >= Cost
                         \/ Refilled(Shared, c)' + (promised - (now + 1)) * Rate[c] >= Cost
    BY <1>b, <1>e DEF Promise
  <2>1. PICK r, n, m, t : /\ r = Rate[c] /\ n = Refilled(Shared, c) /\ m = Refilled(Shared, c)'
                          /\ t = promised - now
    OBVIOUS
  <2>2. r \in Nat /\ n \in Int /\ m \in Int /\ t \in Int
    BY <1>a, <1>c, <1>6, <2>1
  <2>3. q = Shared /\ (n >= Cost \/ n + t * r >= Cost)
    BY <1>e, <2>1 DEF Promise
  <2>4. m = Capacity[c] \/ m = n + r
    BY <1>a, <1>6, <2>1
  <2>5. promised - (now + 1) = t - 1 /\ (t - 1) * r = t * r - r
    BY <1>c, <2>1, <2>2
  <2>6. CASE m = Capacity[c]
    BY <1>a, <2>1, <2>3, <2>6
  <2>7. CASE m = n + r
    <3>1. PICK z : z = t * r
      OBVIOUS
    <3>2. z \in Int
      BY <2>2, <3>1
    <3> QED
      BY <1>a, <2>1, <2>2, <2>3, <2>5, <2>7, <3>1, <3>2
  <2> QED
    BY <2>4, <2>6, <2>7
<1> QED
  BY <1>4, <1>5, <1>7, <1>8

LEMMA SetBackKeeps ==
  ASSUME BucketTypes, LevelsHold, Balance, Promise, NEW i \in Instances, ClockSetBack(i)
  PROVE  BucketTypes' /\ LevelsHold' /\ Balance' /\ Promise'
<1>a. i \in Places /\ i # Shared /\ Shared \in Places /\ MaxSteps \in Nat
  BY BucketConstants
<1>b. /\ behind[i] < MaxSteps /\ behind' = [behind EXCEPT ![i] = @ + 1]
      /\ UNCHANGED <<now, level, waiting, late, since, subject, granted, promised, unspent>>
  BY DEF ClockSetBack
<1>c. behind \in [Places -> 0..MaxSteps] /\ now \in Nat /\ behind[Shared] = 0
  BY PlacesAssumption DEF BucketTypes
<1>1. BucketTypes'
  <2>1. behind' \in [Places -> 0..MaxSteps] /\ behind'[Shared] = 0
    BY <1>a, <1>b, <1>c
  <2> QED
    BY <1>b, <2>1 DEF BucketTypes
<1>2. LevelsHold'
  BY <1>b DEF LevelsHold, SharedLevel
<1>3. ASSUME NEW p \in Places, NEW b \in Buckets
      PROVE  /\ Refilled(p, b) \in Int /\ Refilled(p, b)' \in Int
             /\ Refilled(p, b)' <= Refilled(p, b)
             /\ p = Shared => Refilled(p, b)' = Refilled(p, b)
  <2>1. Clock(p) \in Int /\ level[p][b] \in Levels
    BY ClockTypes
  <2>2. p # i => Clock(p)' = Clock(p)
    BY <1>b, <1>c DEF Clock
  <2>3. p = i => Clock(p)' = Clock(p) - 1
    BY <1>b, <1>c DEF Clock
  <2>4. CASE p # i
    <3>1. Refilled(p, b)' = Refilled(p, b)
      BY <1>b, <2>2, <2>4 DEF Refilled
    <3>2. Refilled(p, b) \in Int
      BY RefilledNow
    <3> QED
      BY <3>1, <3>2
  <2>5. CASE p = i
    <3>1. PICK d : d = Clock(p) - level[p][b].ts
      OBVIOUS
    <3>2. d \in Int /\ Clock(p)' - level[p][b].ts = d - 1 /\ Clock(p)' \in Int
      BY <2>1, <2>3, <2>5, <3>1 DEF Levels
    <3>3. Refilled(p, b) = Refill(level[p][b], b, d)
      BY <3>1, RefilledNow
    <3>4. Refilled(p, b)' = Refill(level[p][b], b, d - 1)
      BY <1>a, <1>b, <2>1, <2>5, <3>2, RefilledIs
    <3>5. Refill(level[p][b], b, d) \in Int /\ Refill(level[p][b], b, d - 1) \in Int
      BY <2>1, <3>2, RefillTypes
    <3> QED
      BY <1>a, <2>1, <2>5, <3>2, <3>3, <3>4, <3>5, RefillBack
  <2> QED
    BY <2>4, <2>5
<1>d. PICK q \in Places, c \in Buckets : subject = <<q, c>>
  BY DEF BucketTypes
<1>e. subject[1] = q /\ subject[2] = c
  BY <1>d
<1>4. Balance'
  <2> SUFFICES ASSUME since # NotYet
               PROVE  granted * Cost + Refilled(q, c)'
                           <= Capacity[c] + (now - since) * Rate[c]
    BY <1>b, <1>e DEF Balance, NotYet
  <2>1. PICK x, room, n, m : /\ x = granted * Cost
                             /\ room = Capacity[c] + (now - since) * Rate[c]
                             /\ n = Refilled(q, c) /\ m = Refilled(q, c)'
    OBVIOUS
  <2>2. x \in Int /\ room \in Int /\ n \in Int /\ m \in Int /\ m <= n
    BY <1>c, <1>3, <2>1, BucketConstants, PlacesAssumption DEF BucketTypes, NotYet
  <2>3. x + n <= room
    BY <1>e, <2>1 DEF Balance
  <2> QED
    BY <2>1, <2>2, <2>3
<1>5. Promise'
  BY <1>a, <1>b, <1>d, <1>e, <1>3 DEF Promise
<1> QED
  BY <1>1, <1>2, <1>4, <1>5

LEMMA ObserveKeeps ==
  ASSUME BucketTypes, LevelsHold, Balance, Promise, Observe
  PROVE  BucketTypes' /\ LevelsHold' /\ Balance' /\ Promise'
<1>a. /\ since = NotYet /\ since' = now
      /\ UNCHANGED <<now, behind, level, waiting, late, subject, granted, promised, unspent>>
  BY DEF Observe
<1>b. now \in Nat /\ now \in 0..Horizon /\ Horizon \in Nat
  BY PlacesAssumption DEF BucketTypes
<1>1. BucketTypes' /\ LevelsHold' /\ Promise'
  BY <1>a, <1>b DEF BucketTypes, LevelsHold, SharedLevel, Promise, Refilled, Clock, NotYet
<1>2. PICK q \in Places, c \in Buckets : subject = <<q, c>>
  BY DEF BucketTypes
<1>3. Refilled(q, c)' = Refilled(q, c)
  BY <1>a DEF Refilled, Clock
<1>4. Refilled(q, c) \in Int /\ Refilled(q, c) <= Capacity[c]
  BY RefilledNow
<1>5. granted = 0 /\ 0 * Cost = 0 /\ (now - now) * Rate[c] = 0 /\ Capacity[c] \in Nat
  BY <1>a, <1>b, BucketConstants DEF Balance
<1> QED
  BY <1>a, <1>b, <1>1, <1>2, <1>3, <1>4, <1>5 DEF Balance, NotYet

-----------------------------------------------------------------------------
(* The calls.                                                              *)

\* Every call takes from one bucket, at one place, and changes of the rest
\* only who waits, what is late and the tally of the site's tokens.
LEMMA CallKeeps ==
  ASSUME BucketTypes, LevelsHold, Balance, Promise, NEW p \in Places, NEW b \in Buckets,
         level' = [level EXCEPT ![p][b] = Taken(p, b)], Noted(p, b),
         UNCHANGED <<now, behind, since, subject>>,
         waiting' \in SUBSET Own, late' \in SUBSET Buckets, unspent' \in Int, Shield'
  PROVE  BucketInv'
<1>1. level' \in [Places -> [Buckets -> Levels]] /\ LevelsHold'
  BY TakenLevel
<1>2. granted' \in Nat /\ promised' \in Nat /\ Balance' /\ Promise'
  BY TakenNotes
<1>3. BucketTypes'
  BY <1>1, <1>2 DEF BucketTypes
<1> QED
  BY <1>1, <1>2, <1>3 DEF BucketInv

LEMMA BucketStep ==
  ASSUME BucketInv, [BucketNext]_bucketVars
  PROVE  BucketInv'
<1>a. BucketTypes /\ LevelsHold /\ Balance /\ Promise /\ Shield
  BY DEF BucketInv
<1>b. /\ Shared \in Places /\ Site \in Buckets /\ Ask \in Buckets /\ Own \subseteq Buckets
      /\ Site \notin Own /\ Site # Ask /\ \A i \in Instances : i \in Places /\ i # Shared
  BY BucketConstants
<1>c. waiting \in SUBSET Own /\ late \in SUBSET Buckets /\ unspent \in Int
  BY <1>a DEF BucketTypes
<1>d. IsFiniteSet(waiting) /\ Cardinality(waiting) \in Nat
  BY <1>a, FS_CardinalityType DEF Shield
<1>e. unspent >= Cardinality(waiting) + (IF Site \in late THEN 1 ELSE 0)
  BY <1>a DEF Shield
<1>1. ASSUME NEW p \in Places, Question(p) PROVE BucketInv'
  <2>1. /\ level' = [level EXCEPT ![p][Ask] = Taken(p, Ask)] /\ Noted(p, Ask)
        /\ late' = late \/ late' = late \cup {Ask}
        /\ UNCHANGED <<now, behind, since, subject, waiting, unspent>>
    BY <1>1 DEF Question, Take
  <2>2. Site \in late' <=> Site \in late
    BY <1>b, <2>1
  <2>3. Shield'
    BY <1>d, <1>e, <2>1, <2>2 DEF Shield
  <2>4. late' \in SUBSET Buckets /\ waiting' \in SUBSET Own /\ unspent' \in Int
    BY <1>b, <1>c, <2>1
  <2> QED
    BY <1>a, <1>b, <2>1, <2>3, <2>4, CallKeeps
<1>2. ASSUME NEW p \in Places, NEW v \in Own, MessageOwn(p, v) PROVE BucketInv'
  <2>1. /\ v \notin waiting /\ v \in Buckets /\ v # Site
        /\ level' = [level EXCEPT ![p][v] = Taken(p, v)] /\ Noted(p, v)
        /\ late' = late \/ late' = late \cup {v}
        /\ waiting' = IF Allows(p, v) THEN waiting \cup {v} ELSE waiting
        /\ unspent' = IF Allows(p, v) THEN unspent + 1 ELSE unspent
        /\ UNCHANGED <<now, behind, since, subject>>
    BY <1>2, <1>b DEF MessageOwn, Take
  <2>2. Site \in late' <=> Site \in late
    BY <2>1
  <2>3. /\ IsFiniteSet(waiting \cup {v})
        /\ Cardinality(waiting \cup {v}) = Cardinality(waiting) + 1
    BY <1>d, <2>1, FS_AddElement
  <2>4. Shield'
    <3>1. CASE Allows(p, v)
      BY <1>c, <1>d, <1>e, <2>1, <2>2, <2>3, <3>1 DEF Shield
    <3>2. CASE ~Allows(p, v)
      BY <1>d, <1>e, <2>1, <2>2, <3>2 DEF Shield
    <3> QED
      BY <3>1, <3>2
  <2>5. late' \in SUBSET Buckets /\ waiting' \in SUBSET Own /\ unspent' \in Int
    BY <1>b, <1>c, <2>1
  <2> QED
    BY <1>a, <2>1, <2>4, <2>5, CallKeeps
<1>3. ASSUME NEW p \in Places, NEW v \in Own, MessageSite(p, v) PROVE BucketInv'
  <2>1. /\ v \in waiting
        /\ level' = [level EXCEPT ![p][Site] = Taken(p, Site)] /\ Noted(p, Site)
        /\ IF p = Shared THEN late' = late ELSE late' = late \/ late' = late \cup {Site}
        /\ waiting' = waiting \ {v} /\ unspent' = unspent - Draws(p)
        /\ UNCHANGED <<now, behind, since, subject>>
    BY <1>3 DEF MessageSite, Take
  <2>2. /\ IsFiniteSet(waiting \ {v})
        /\ Cardinality(waiting \ {v}) = Cardinality(waiting) - 1
    BY <1>d, <2>1, FS_RemoveElement
  <2>3. Draws(p) \in {0, 1} /\ (p # Shared => Draws(p) = 0)
    BY DEF Draws
  <2>4. Shield'
    <3>1. CASE p = Shared
      BY <1>c, <1>d, <1>e, <2>1, <2>2, <2>3, <3>1 DEF Shield
    <3>2. CASE p # Shared
      BY <1>c, <1>d, <1>e, <2>1, <2>2, <2>3, <3>2 DEF Shield
    <3> QED
      BY <3>1, <3>2
  <2>5. late' \in SUBSET Buckets /\ waiting' \in SUBSET Own /\ unspent' \in Int
    BY <1>b, <1>c, <2>1, <2>3
  <2> QED
    BY <1>a, <1>b, <2>1, <2>4, <2>5, CallKeeps
<1>4. ASSUME NEW b \in Buckets, LateTake(b) PROVE BucketInv'
  <2>1. /\ b \in late
        /\ level' = [level EXCEPT ![Shared][b] = Taken(Shared, b)] /\ Noted(Shared, b)
        /\ unspent' = IF b = Site THEN unspent - Draws(Shared) ELSE unspent
        /\ late' = late \ {b}
        /\ UNCHANGED <<now, behind, waiting, since, subject>>
    BY <1>4 DEF LateTake
  <2>2. Draws(Shared) \in {0, 1}
    BY DEF Draws
  <2>3. Shield'
    <3>1. CASE b = Site
      BY <1>c, <1>d, <1>e, <2>1, <2>2, <3>1 DEF Shield
    <3>2. CASE b # Site
      <4>1. Site \in late' <=> Site \in late
        BY <2>1, <3>2
      <4> QED
        BY <1>d, <1>e, <2>1, <3>2, <4>1 DEF Shield
    <3> QED
      BY <3>1, <3>2
  <2>4. late' \in SUBSET Buckets /\ waiting' \in SUBSET Own /\ unspent' \in Int
    BY <1>c, <2>1, <2>2
  <2> QED
    BY <1>a, <1>b, <2>1, <2>3, <2>4, CallKeeps
<1>5. CASE Passes
  <2>1. BucketTypes' /\ LevelsHold' /\ Balance' /\ Promise'
    BY <1>a, <1>5, TickKeeps, ObserveKeeps, SetBackKeeps DEF Passes
  <2>2. UNCHANGED <<waiting, late, unspent>>
    BY <1>5 DEF Passes, BucketTick, Observe, ClockSetBack
  <2>3. Shield'
    BY <1>a, <2>2 DEF Shield
  <2> QED
    BY <2>1, <2>3 DEF BucketInv
<1>6. CASE UNCHANGED bucketVars
  <2>1. UNCHANGED <<now, behind, level, waiting, late, since, subject, granted, promised, unspent>>
    BY <1>6 DEF bucketVars
  <2>2. BucketTypes' /\ LevelsHold'
    BY <1>a, <2>1 DEF BucketTypes, LevelsHold, SharedLevel
  <2>3. Balance' /\ Promise' /\ Shield'
    BY <1>a, <2>1 DEF Balance, Promise, Shield, Refilled, Clock
  <2> QED
    BY <2>2, <2>3 DEF BucketInv
<1> QED
  BY <1>1, <1>2, <1>3, <1>4, <1>5, <1>6, <1>b DEF BucketNext, AskNext, WidgetNext

LEMMA BucketInitInv == BucketInit => BucketInv
<1> SUFFICES ASSUME BucketInit PROVE BucketInv
  OBVIOUS
<1>a. /\ Horizon \in Nat /\ MaxSteps \in Nat /\ Shared \in Places
      /\ \A b \in Buckets : Capacity[b] \in Nat /\ Rate[b] \in Nat
  BY BucketConstants
<1>1. \A b \in Buckets : /\ Full(b, 0) \in Levels /\ Full(b, 0).tokens = Capacity[b]
                         /\ Full(b, 0).ts = 0 /\ Full(b, 0).ttl = 0
  BY <1>a DEF Full, Levels
<1>2. \A p \in Places, b \in Buckets : level[p][b] = Full(b, 0)
  BY DEF BucketInit
<1>3. BucketTypes
  BY <1>a, <1>1 DEF BucketInit, BucketTypes, NotYet
<1>4. LevelsHold
  BY <1>a, <1>1, <1>2 DEF BucketInit, LevelsHold, SharedLevel
<1>5. Balance /\ Promise
  BY <1>a DEF BucketInit, Balance, Promise
<1>6. Shield
  BY FS_EmptySet DEF BucketInit, Shield
<1> QED
  BY <1>3, <1>4, <1>5, <1>6 DEF BucketInv

LEMMA BucketInvImplies == BucketInv => BucketsHold
<1> SUFFICES ASSUME BucketInv PROVE BucketsHold
  OBVIOUS
<1>a. BucketTypes /\ LevelsHold /\ Balance /\ Promise /\ Shield
  BY DEF BucketInv
<1>1. BucketTypeOK
  BY <1>a DEF BucketTypes, LevelsHold, SharedLevel, BucketTypeOK
<1>2. BurstAndRate
  BY <1>a DEF Balance, BurstAndRate
<1>3. SiteIsShielded
  <2>1. Cardinality(waiting) \in Nat /\ unspent \in Int
    BY <1>a, FS_CardinalityType DEF Shield, BucketTypes
  <2> QED
    BY <1>a, <2>1 DEF Shield, SiteIsShielded
<1>4. RetryIsHonest
  <2> SUFFICES ASSUME promised # 0, now >= promised PROVE Allows(Shared, subject[2])
    BY DEF RetryIsHonest
  <2>1. PICK q \in Places, c \in Buckets : subject = <<q, c>>
    BY <1>a DEF BucketTypes
  <2>2. /\ Refilled(Shared, c) \in Int /\ Cost \in Nat /\ Rate[c] \in Nat
        /\ now \in Nat /\ promised \in Nat
    BY <1>a, RefilledNow, ClockTypes, BucketConstants DEF BucketTypes
  <2>3. PICK n, z : n = Refilled(Shared, c) /\ z = (promised - now) * Rate[c]
    OBVIOUS
  <2>4. z \in Int /\ z <= 0
    <3>1. (promised - now) * Rate[c] <= 0 * Rate[c]
      BY <2>2, Longer
    <3> QED
      BY <2>2, <2>3, <3>1
  <2>5. n >= Cost \/ n + z >= Cost
    BY <1>a, <2>1, <2>3 DEF Promise
  <2> QED
    BY <2>1, <2>2, <2>3, <2>4, <2>5 DEF Allows
<1> QED
  BY <1>1, <1>2, <1>3, <1>4 DEF BucketsHold

\* The buckets keep their rate and their promises (TokenBucketRateLimiter.take,
\* takeLocal and the guards): no place ever grants more than a full bucket and
\* what was earned, a visitor whose own bucket refuses spends nothing of the
\* site's, and a Retry-After is true, for any number of instances, visitors and
\* late scripts, whatever the capacities and the rates.
THEOREM BucketsAlwaysHold == BucketSpec => []BucketsHold
<1>1. BucketInit => BucketInv
  BY BucketInitInv
<1>2. BucketInv /\ [BucketNext]_bucketVars => BucketInv'
  BY BucketStep
<1>3. BucketInv => BucketsHold
  BY BucketInvImplies
<1> QED
  BY <1>1, <1>2, <1>3, PTL DEF BucketSpec
=============================================================================
