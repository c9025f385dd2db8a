----------------------------- MODULE AnswerMeter -----------------------------
(***************************************************************************)
(* What one workspace is allowed and what it is charged for: the trial's   *)
(* allowance (quota.service.ts), the usage meter (usage-meter.service.ts)  *)
(* and the frame of AnswerService.answer around them -- replay lookup,     *)
(* reservation, work, the transaction that writes the conversation and its *)
(* usage event, refund -- with the gateway's fallback when the allowance   *)
(* is gone.                                                                *)
(*                                                                         *)
(* Turns are handled concurrently; each database statement or transaction  *)
(* is one step.  Any of them may fail, and the process may die between any *)
(* two.  How the answer is found is left to other modules: here the work   *)
(* ends with one of the three statuses or an exception.                    *)
(***************************************************************************)
EXTENDS Naturals, FiniteSets

CONSTANTS
  Turns,      \* slots for turns in flight
  Messages,   \* messages that carry an idempotency key
  NoKey,      \* a message without one
  Allowance   \* workspace_quotas.allowance

ASSUME MeterAssumption ==
  IsFiniteSet(Turns) /\ NoKey \notin Messages /\ Allowance \in Nat \ {0}

VARIABLES
  period,     \* "open" until period_end has passed
  used,       \* workspace_quotas.used
  billed,     \* billable usage events written
  leaked,     \* history: units reserved and never billed nor refunded
  stored,     \* message -> status of the conversation row with its key
  logged,     \* history: message -> conversation rows written for it
  pc,         \* how far each turn has got
  message,    \* the message each turn answers
  outcome     \* the status its work ended with

vars == <<period, used, billed, leaked, stored, logged, pc, message, outcome>>

Billable == {"answered", "refused"}
Outcomes == Billable \cup {"escalated"}
PCs      == {"idle", "received", "admitted", "reserved", "drafted", "refunding", "overQuota"}

TypeOK ==
  /\ period \in {"open", "ended"}
  /\ used \in 0..Allowance
  /\ billed \in Nat /\ leaked \in Nat
  /\ stored \in [Messages -> Outcomes \cup {"none"}]
  /\ logged \in [Messages -> {"never", "once", "again"}]
  /\ pc \in [Turns -> PCs]
  /\ message \in [Turns -> Messages \cup {NoKey}]
  /\ outcome \in [Turns -> Outcomes \cup {"none"}]

Init ==
  /\ period = "open"
  /\ used = 0 /\ billed = 0 /\ leaked = 0
  /\ stored = [m \in Messages |-> "none"]
  /\ logged = [m \in Messages |-> "never"]
  /\ pc = [t \in Turns |-> "idle"]
  /\ message = [t \in Turns |-> NoKey]
  /\ outcome = [t \in Turns |-> "none"]

\* The turns that have taken a unit which is neither billed nor given back.
Holding == {t \in Turns : pc[t] \in {"reserved", "drafted", "refunding"}}

Answered(m) == m # NoKey /\ stored[m] # "none"

Goto(t, label) == pc' = [pc EXCEPT ![t] = label]

\* The turn is over: answered, refused or failed.
Finish(t) ==
  /\ pc' = [pc EXCEPT ![t] = "idle"]
  /\ message' = [message EXCEPT ![t] = NoKey]
  /\ outcome' = [outcome EXCEPT ![t] = "none"]

ledger == <<period, used, billed, leaked, stored, logged>>

\* A message, new or sent again by a client that never saw its answer.
Receive(t) ==
  /\ pc[t] = "idle"
  /\ \E m \in Messages \cup {NoKey} : message' = [message EXCEPT ![t] = m]
  /\ Goto(t, "received")
  /\ UNCHANGED <<ledger, outcome>>

\* findReplay: a stored answer is returned as it is.
FindReplay(t) ==
  /\ pc[t] = "received"
  /\ IF Answered(message[t]) THEN Finish(t) ELSE Goto(t, "admitted") /\ UNCHANGED <<message, outcome>>
  /\ UNCHANGED ledger

\* One conditional UPDATE: the row lock serialises turns that want the last unit.
Reserve(t) ==
  /\ pc[t] = "admitted"
  /\ period = "open" /\ used < Allowance
  /\ used' = used + 1
  /\ Goto(t, "reserved")
  /\ UNCHANGED <<period, billed, leaked, stored, logged, message, outcome>>

\* No current row with a unit left: 402 for a REST caller; the widget's visitor
\* is handed to a human instead.
RefuseReservation(t) ==
  /\ pc[t] = "admitted"
  /\ period = "ended" \/ used >= Allowance
  /\ \/ Finish(t)
     \/ Goto(t, "overQuota") /\ UNCHANGED <<message, outcome>>
  /\ UNCHANGED ledger

\* produce: cache or pipeline, which ends with a status or an exception.
Produce(t) ==
  /\ pc[t] = "reserved"
  /\ \/ \E o \in Outcomes : outcome' = [outcome EXCEPT ![t] = o] /\ Goto(t, "drafted")
     \/ Goto(t, "refunding") /\ UNCHANGED outcome
  /\ UNCHANGED <<ledger, message>>

\* A conversation row, with or without a key, and its usage event.
Log(m) == logged' = IF m = NoKey THEN logged
                    ELSE [logged EXCEPT ![m] = IF @ = "never" THEN "once" ELSE "again"]

\* Mutant of Persist: there is no unique constraint on the idempotency key.
PersistUnconstrained(t) ==
  LET m == message[t] IN
  /\ pc[t] = "drafted"
  /\ stored' = IF m = NoKey THEN stored ELSE [stored EXCEPT ![m] = outcome[t]]
  /\ Log(m)
  /\ IF outcome[t] \in Billable THEN billed' = billed + 1 /\ Finish(t)
     ELSE Goto(t, "refunding") /\ UNCHANGED <<billed, message, outcome>>
  /\ UNCHANGED <<period, used, leaked>>

\* persistAndReturn commits the row and its event together.  An escalation then
\* goes to the queue, which changes nothing here, and its unit is refunded
\* whether or not that worked.
Persist(t) ==
  LET m == message[t] IN
  /\ pc[t] = "drafted" /\ ~Answered(m)
  /\ stored' = IF m = NoKey THEN stored ELSE [stored EXCEPT ![m] = outcome[t]]
  /\ Log(m)
  /\ IF outcome[t] \in Billable THEN billed' = billed + 1 /\ Finish(t)
     ELSE Goto(t, "refunding") /\ UNCHANGED <<billed, message, outcome>>
  /\ UNCHANGED <<period, used, leaked>>

\* Mutant of PersistFails: a replayed result is returned without a refund.
PersistFailsUnrefunded(t) ==
  /\ pc[t] = "drafted"
  /\ IF Answered(message[t]) THEN Finish(t) ELSE Goto(t, "refunding") /\ UNCHANGED <<message, outcome>>
  /\ UNCHANGED ledger

\* The transaction fails, or the key was stored by a concurrent turn in the
\* meantime and that turn's answer is returned as a replay.
PersistFails(t) ==
  /\ pc[t] = "drafted"
  /\ Goto(t, "refunding")
  /\ UNCHANGED <<ledger, message, outcome>>

\* escalateUnanswered passes no key, so nothing recognises the message later.
EscalateUnanswered(t) ==
  /\ pc[t] = "overQuota"
  /\ Log(message[t])
  /\ Finish(t)
  /\ UNCHANGED <<period, used, billed, leaked, stored>>

Refund(t) ==
  /\ pc[t] = "refunding"
  /\ used' = IF used > 0 THEN used - 1 ELSE used
  /\ Finish(t)
  /\ UNCHANGED <<period, billed, leaked, stored, logged>>

\* A statement outside the persist transaction fails: the request ends there,
\* and a unit whose refund failed is not given back by anyone.
StatementFails(t) ==
  /\ pc[t] \in {"received", "admitted", "overQuota", "refunding"}
  /\ leaked' = IF pc[t] = "refunding" THEN leaked + 1 ELSE leaked
  /\ Finish(t)
  /\ UNCHANGED <<period, used, billed, stored, logged>>

Crash ==
  /\ \E t \in Turns : pc[t] # "idle"
  /\ leaked' = leaked + Cardinality(Holding)
  /\ pc' = [t \in Turns |-> "idle"]
  /\ message' = [t \in Turns |-> NoKey]
  /\ outcome' = [t \in Turns |-> "none"]
  /\ UNCHANGED <<period, used, billed, stored, logged>>

PeriodEnds ==
  /\ period = "open"
  /\ period' = "ended"
  /\ UNCHANGED <<used, billed, leaked, stored, logged, pc, message, outcome>>

Step(t) ==
  \/ Receive(t)
  \/ FindReplay(t)
  \/ Reserve(t)
  \/ RefuseReservation(t)
  \/ Produce(t)
  \/ Persist(t)
  \/ PersistFails(t)
  \/ EscalateUnanswered(t)
  \/ Refund(t)
  \/ StatementFails(t)

Next == (\E t \in Turns : Step(t)) \/ Crash \/ PeriodEnds

Spec == Init /\ [][Next]_vars

(***************************************************************************)
(* Properties.                                                             *)
(***************************************************************************)

\* The books balance: every unit taken is billed, lost to a crash or a failed
\* refund, or in the hands of a turn that will bill it or give it back.
BooksBalance == used = billed + leaked + Cardinality(Holding)

\* However many turns race for the last units and however many of them fail,
\* the answers billed and those still under way fit the allowance.
NeverOverspent == billed + Cardinality(Holding) <= Allowance

\* "the drift only ever errs toward refusing slightly early, never toward an
\* unbilled answer" (1790790000000-CreateWorkspaceQuotas.ts:8-9): the counter
\* is never behind the meter.
CounterCoversMeter == billed <= used

\* A message that has its answer keeps it and is never billed again, whatever
\* duplicates of it are being worked on.
ChargedOnce ==
  [][\A m \in Messages : stored[m] # "none" =>
       /\ stored'[m] = stored[m]
       /\ \A t \in Turns : message[t] = m /\ pc[t] # "idle" /\ pc'[t] = "idle" => billed' = billed]_vars

\* The accounts of a workspace are right whatever fails between a reservation and
\* its bill: every unit is accounted for, the allowance covers what is billed, and
\* the counter is never behind the meter.
AccountsBalance == TypeOK /\ BooksBalance /\ NeverOverspent /\ CounterCoversMeter
==============================================================================
