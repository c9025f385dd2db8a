----------------------------- MODULE EmailQueue -----------------------------
(***************************************************************************)
(* The email queue (src/Backend/src/email): a job per message, delivered   *)
(* at least once by a worker that retries and that may die at any point.   *)
(* A job is named by the tag of its message, which a feature chooses so    *)
(* that it is told what became of that message and of no other.            *)
(*                                                                         *)
(* BullMQ is external: it keeps the attempts a job has used, hands a job   *)
(* whose worker died to another one, and gives up on a job that loses its  *)
(* worker more than MaxStalls times, whatever attempts it has left.  What  *)
(* onFailed reports is written by an event handler that runs after the job *)
(* was moved, so it may be late, and it dies with its process.  A retry is  *)
(* reported for its error text only, so it is no event here.               *)
(***************************************************************************)
EXTENDS Naturals

CONSTANTS Tags, MaxAttempts, MaxStalls

ASSUME QueueAssumption == MaxAttempts \in Nat \ {0} /\ MaxStalls \in Nat

VARIABLES
  jobs,     \* tag -> [at, made, stalls]
  inbox,    \* tags of the messages a mail server accepted
  failures  \* tags whose last attempt failed and of which onFailed has yet to tell

queue == <<jobs, inbox, failures>>

NoJob == [at |-> "none", made |-> 0, stalls |-> 0]

QueueTypeOK ==
  /\ jobs \in [Tags -> [at: {"none", "queued", "accepted", "reported"},
                        made: 0..(MaxAttempts - 1), stalls: 0..MaxStalls]]
  /\ inbox \subseteq Tags
  /\ failures \subseteq Tags

QueueInit ==
  /\ jobs = [t \in Tags |-> NoJob]
  /\ inbox = {}
  /\ failures = {}

Add(t) ==
  /\ jobs' = [jobs EXCEPT ![t] = [NoJob EXCEPT !.at = "queued"]]
  /\ UNCHANGED <<inbox, failures>>

\* process: the mail server takes the message; nothing is recorded yet.
Send(t) ==
  /\ jobs[t].at = "queued"
  /\ jobs' = [jobs EXCEPT ![t].at = "accepted"]
  /\ inbox' = inbox \cup {t}
  /\ UNCHANGED failures

\* process calls report({status: 'sent'}), which never throws, and returns.
ReportSent(t) ==
  /\ jobs[t].at = "accepted"
  /\ jobs' = [jobs EXCEPT ![t].at = "reported"]
  /\ UNCHANGED <<inbox, failures>>

Complete(t) ==
  /\ jobs[t].at = "reported"
  /\ jobs' = [jobs EXCEPT ![t] = NoJob]
  /\ UNCHANGED <<inbox, failures>>

\* The send throws: the job waits for its next attempt, or is over.
SendFails(t) ==
  /\ jobs[t].at = "queued"
  /\ LET final == jobs[t].made + 1 >= MaxAttempts IN
     /\ jobs' = [jobs EXCEPT ![t] = IF final THEN NoJob ELSE [jobs[t] EXCEPT !.made = jobs[t].made + 1]]
     /\ failures' = IF final THEN failures \cup {t} ELSE failures
  /\ UNCHANGED inbox

GivesUp(t) == jobs[t].stalls = MaxStalls

\* The worker dies on the job.  When BullMQ gives up, onFailed sees a job that
\* has attempts left: it reports a retry, and none comes.
Stall(t) ==
  /\ jobs[t].at # "none"
  /\ jobs' = [jobs EXCEPT ![t] = IF GivesUp(t) THEN NoJob
                                 ELSE [jobs[t] EXCEPT !.at = "queued", !.stalls = jobs[t].stalls + 1]]
  /\ UNCHANGED <<inbox, failures>>

\* onFailed runs after the last attempt of a job, or its process is gone.
OnFailed(t) ==
  /\ t \in failures
  /\ failures' = failures \ {t}
  /\ UNCHANGED <<jobs, inbox>>
==============================================================================
