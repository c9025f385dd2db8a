--------------------------- MODULE DocumentPipeline ---------------------------
(***************************************************************************)
(* The documents of one workspace from upload to search: the requests that *)
(* upload and remove them (documents.service.ts), the two queues and their *)
(* workers (document-processing.processor.ts, document-embedding.          *)
(* processor.ts), what is billed for embeddings, and whether answers       *)
(* cached so far may be older than what retrieval finds.                   *)
(*                                                                         *)
(* A job is a kind of work on a document.  The queue hands a job to one    *)
(* worker at a time, but a worker whose lock on the job ran out goes on    *)
(* running beside the one the job is given to next ("a real, observed      *)
(* case", document-processing.processor.ts:120).  What such a worker       *)
(* reports to the queue is ignored; what it does to the tables is not.     *)
(*                                                                         *)
(* Bounds: MaxStalls jobs taken from a live worker, MaxCrashes restarts.   *)
(***************************************************************************)
EXTENDS Naturals

CONSTANTS
  Docs,         \* uploads: the row and the storage key each would create
  FileOf,       \* the content hash of what is uploaded
  Workers, Nobody, NoTask,
  ChunkCount,   \* chunks of a document's text
  Attempts,     \* attempts of a processing job
  MaxStalls, MaxCrashes

Kinds == {"process", "embed"}
Jobs  == Kinds \X Docs

ASSUME PipelineAssumption ==
  /\ Nobody \notin Workers /\ NoTask \notin Jobs
  /\ ChunkCount \in Nat \ {0} /\ Attempts \in Nat \ {0}
  /\ MaxStalls \in Nat /\ MaxCrashes \in Nat

VARIABLES
  status,      \* documents.status, or "absent" when there is no row
  stored,      \* storage keys on disk
  upload,      \* how far the request that uploads a document has got
  removal,     \* the same for the request that removes it
  generation,  \* how often a document's chunks have been replaced
  embedded,    \* the present chunks that have an embedding
  charged,     \* usage events: a chunk's document, generation and index
  cache,       \* "stale" when a change has not been followed by a version bump
  job,         \* the queues
  holder,      \* the worker whose lock on the job is valid
  made,        \* attempts made
  task, pc,    \* what a worker runs
  seen, todo,  \* the chunks an embedding run has listed
  failing,     \* documents whose onFailed handler has yet to run
  stalls, crashes,
  queued,      \* history: documents an embedding job was ever added for
  late,        \* history: documents whose chunks were replaced after that
  overrun,     \* history: documents a job of which was taken from a live worker
  cutShort     \* history: documents an operation on which was interrupted for good

tables  == <<status, stored, generation, embedded, charged, cache>>
requests == <<upload, removal>>
queues  == <<job, holder, made>>
runs    == <<task, pc, seen, todo>>
history == <<queued, late, overrun, cutShort>>
vars    == <<tables, requests, queues, runs, failing, stalls, crashes, history>>

Chunks == 1..ChunkCount
Limit(kind) == IF kind = "process" THEN Attempts ELSE 1   \* embedding jobs set no attempts

TypeOK ==
  /\ status \in [Docs -> {"absent", "uploaded", "processing", "ready", "failed"}]
  /\ stored \subseteq Docs
  /\ upload \in [Docs -> {"new", "saving", "inserting", "cleaning", "queueing", "over"}]
  /\ removal \in [Docs -> {"none", "unfiling", "unrowing", "announcing"}]
  /\ generation \in [Docs -> Nat]
  /\ embedded \in [Docs -> SUBSET Chunks]
  /\ charged \subseteq Docs \X Nat \X Chunks
  /\ cache \in {"fresh", "stale"}
  /\ job \in [Jobs -> {"none", "waiting", "active", "finished"}]
  /\ holder \in [Jobs -> Workers \cup {Nobody}]
  /\ made \in [Jobs -> 0..Attempts]
  /\ task \in [Workers -> Jobs \cup {NoTask}]
  /\ pc \in [Workers -> {"load", "mark", "read", "reject", "replace", "bump", "queue",
                         "list", "embed", "finish"}]
  /\ seen \in [Workers -> Nat]
  /\ todo \in [Workers -> SUBSET Chunks]
  /\ failing \subseteq Docs
  /\ stalls \in 0..MaxStalls /\ crashes \in 0..MaxCrashes
  /\ queued \subseteq Docs /\ late \subseteq Docs /\ overrun \subseteq Docs /\ cutShort \subseteq Docs

Init ==
  /\ status = [d \in Docs |-> "absent"]
  /\ stored = {}
  /\ upload = [d \in Docs |-> "new"]
  /\ removal = [d \in Docs |-> "none"]
  /\ generation = [d \in Docs |-> 0]
  /\ embedded = [d \in Docs |-> {}]
  /\ charged = {}
  /\ cache = "fresh"
  /\ job = [j \in Jobs |-> "none"]
  /\ holder = [j \in Jobs |-> Nobody]
  /\ made = [j \in Jobs |-> 0]
  /\ task = [w \in Workers |-> NoTask]
  /\ pc = [w \in Workers |-> "load"]
  /\ seen = [w \in Workers |-> 0]
  /\ todo = [w \in Workers |-> {}]
  /\ failing = {}
  /\ stalls = 0 /\ crashes = 0
  /\ queued = {} /\ late = {} /\ overrun = {} /\ cutShort = {}

(***************************************************************************)
(* Requests: upload and remove.                                            *)
(***************************************************************************)
Uploading(d, from, to) == upload[d] = from /\ upload' = [upload EXCEPT ![d] = to] /\ UNCHANGED removal
Removing(d, from, to)  == removal[d] = from /\ removal' = [removal EXCEPT ![d] = to] /\ UNCHANGED upload

Twin(d) == \E e \in Docs : status[e] # "absent" /\ FileOf[e] = FileOf[d]

\* The same file is refused (409) while a row with its hash exists.
Upload(d) ==
  /\ Uploading(d, "new", "saving") /\ ~Twin(d)
  /\ UNCHANGED <<tables, queues, runs, failing, stalls, crashes, history>>

SaveFile(d) ==
  /\ Uploading(d, "saving", "inserting")
  /\ stored' = stored \cup {d}
  /\ UNCHANGED <<status, generation, embedded, charged, cache, queues, runs, failing, stalls,
               crashes, history>>

\* The unique constraint on the hash decides between two uploads of one file.
InsertRow(d) ==
  /\ Uploading(d, "inserting", "queueing") /\ ~Twin(d)
  /\ status' = [status EXCEPT ![d] = "uploaded"]
  /\ UNCHANGED <<stored, generation, embedded, charged, cache, queues, runs, failing, stalls,
               crashes, history>>

\* Mutant of InsertRefused: the file of a refused upload is left behind.
InsertRefusedKeepingFile(d) ==
  /\ Uploading(d, "inserting", "over")
  /\ UNCHANGED <<tables, queues, runs, failing, stalls, crashes, history>>

\* By the constraint or for any other reason.
InsertRefused(d) ==
  /\ Uploading(d, "inserting", "cleaning")
  /\ UNCHANGED <<tables, queues, runs, failing, stalls, crashes, history>>

CleanUp(d) ==
  /\ Uploading(d, "cleaning", "over")
  /\ stored' = stored \ {d}
  /\ UNCHANGED <<status, generation, embedded, charged, cache, queues, runs, failing, stalls,
               crashes, history>>

Enqueue(d) ==
  /\ Uploading(d, "queueing", "over")
  /\ job' = [job EXCEPT ![<<"process", d>>] = "waiting"]
  /\ UNCHANGED <<tables, holder, made, runs, failing, stalls, crashes, history>>

\* The row is listed, and can be removed, from its insertion on.
Remove(d) ==
  /\ Removing(d, "none", "unfiling") /\ status[d] # "absent"
  /\ UNCHANGED <<tables, queues, runs, failing, stalls, crashes, history>>

DeleteFile(d) ==
  /\ Removing(d, "unfiling", "unrowing")
  /\ stored' = stored \ {d}
  /\ UNCHANGED <<status, generation, embedded, charged, cache, queues, runs, failing, stalls,
               crashes, history>>

\* The row and, by cascade, its chunks.
DeleteRow(d) ==
  /\ Removing(d, "unrowing", "announcing")
  /\ status' = [status EXCEPT ![d] = "absent"]
  /\ embedded' = [embedded EXCEPT ![d] = {}]
  /\ cache' = IF generation[d] > 0 THEN "stale" ELSE cache
  /\ UNCHANGED <<stored, generation, charged, queues, runs, failing, stalls, crashes, history>>

BumpAfterRemoval(d) ==
  /\ Removing(d, "announcing", "none")
  /\ cache' = "fresh"
  /\ UNCHANGED <<status, stored, generation, embedded, charged, queues, runs, failing, stalls,
               crashes, history>>

\* Neither request undoes or repeats what it did before a step that throws: the
\* storage, the database or the queue may, at each.
RequestThrows(d) ==
  /\ \/ Uploading(d, "saving", "over") \/ Uploading(d, "cleaning", "over") \/ Uploading(d, "queueing", "over")
     \/ \E step \in {"unfiling", "unrowing", "announcing"} : Removing(d, step, "none")
  /\ cutShort' = cutShort \cup {d}
  /\ UNCHANGED <<tables, queues, runs, failing, stalls, crashes, queued, late, overrun>>

(***************************************************************************)
(* Workers.                                                                *)
(***************************************************************************)
Kind(w) == task[w][1]
Doc(w)  == task[w][2]
At(w, kind, label) == task[w] # NoTask /\ Kind(w) = kind /\ pc[w] = label
Goto(w, label) == pc' = [pc EXCEPT ![w] = label]
SetStatus(d, s) == status' = IF status[d] = "absent" THEN status ELSE [status EXCEPT ![d] = s]

Take(w, j) ==
  /\ task[w] = NoTask /\ job[j] = "waiting"
  /\ job' = [job EXCEPT ![j] = "active"]
  /\ holder' = [holder EXCEPT ![j] = w]
  /\ task' = [task EXCEPT ![w] = j]
  /\ Goto(w, "load")
  /\ seen' = [seen EXCEPT ![w] = 0]
  /\ todo' = [todo EXCEPT ![w] = {}]
  /\ UNCHANGED <<tables, requests, made, failing, stalls, crashes, history>>

\* A job for a document that is gone, ready or failed is a no-op.
Load(w) ==
  /\ task[w] # NoTask /\ pc[w] = "load"
  /\ Goto(w, IF status[Doc(w)] \in {"absent", "ready", "failed"} THEN "finish"
             ELSE IF Kind(w) = "process" THEN "mark" ELSE "list")
  /\ UNCHANGED <<tables, requests, queues, task, seen, todo, failing, stalls, crashes, history>>

Mark(w) ==
  /\ At(w, "process", "mark")
  /\ SetStatus(Doc(w), "processing")
  /\ Goto(w, "read")
  /\ UNCHANGED <<stored, requests, generation, embedded, charged, cache, queues, task, seen, todo,
               failing, stalls, crashes, history>>

\* The file is read and its text extracted; there may be none.
ReadFile(w) ==
  /\ At(w, "process", "read") /\ Doc(w) \in stored
  /\ Goto(w, "replace") \/ Goto(w, "reject")
  /\ UNCHANGED <<tables, requests, queues, task, seen, todo, failing, stalls, crashes, history>>

RejectEmpty(w) ==
  /\ At(w, "process", "reject")
  /\ SetStatus(Doc(w), "failed")
  /\ Goto(w, "finish")
  /\ UNCHANGED <<stored, requests, generation, embedded, charged, cache, queues, task, seen, todo,
               failing, stalls, crashes, history>>

\* Delete-then-insert in one transaction; the foreign key needs the row.
ReplaceChunks(w) ==
  /\ At(w, "process", "replace") /\ status[Doc(w)] # "absent"
  /\ generation' = [generation EXCEPT ![Doc(w)] = @ + 1]
  /\ embedded' = [embedded EXCEPT ![Doc(w)] = {}]
  /\ cache' = "stale"
  /\ late' = IF Doc(w) \in queued THEN late \cup {Doc(w)} ELSE late
  /\ Goto(w, "bump")
  /\ UNCHANGED <<status, stored, requests, charged, queues, task, seen, todo, failing, stalls,
               crashes, queued, overrun, cutShort>>

\* Mutant of Bump: the version is left as it was.
BumpNothing(w) ==
  /\ task[w] # NoTask /\ pc[w] = "bump"
  /\ Goto(w, IF Kind(w) = "process" THEN "queue" ELSE "finish")
  /\ UNCHANGED <<tables, requests, queues, task, seen, todo, failing, stalls, crashes, history>>

\* After replacing the chunks, and after the document became ready.
Bump(w) ==
  /\ task[w] # NoTask /\ pc[w] = "bump"
  /\ cache' = "fresh"
  /\ Goto(w, IF Kind(w) = "process" THEN "queue" ELSE "finish")
  /\ UNCHANGED <<status, stored, requests, generation, embedded, charged, queues, task, seen,
               todo, failing, stalls, crashes, history>>

\* The embedding job's id is that of the processing job: adding it again while
\* the queue still has it does nothing, and a finished one is forgotten.
QueueEmbedding(w) ==
  /\ At(w, "process", "queue")
  /\ LET j == <<"embed", Doc(w)>> IN
       /\ job' = IF job[j] = "none" THEN [job EXCEPT ![j] = "waiting"] ELSE job
       /\ made' = IF job[j] = "none" THEN [made EXCEPT ![j] = 0] ELSE made
  /\ queued' = queued \cup {Doc(w)}
  /\ Goto(w, "finish")
  /\ UNCHANGED <<tables, requests, holder, task, seen, todo, failing, stalls, crashes, late,
               overrun, cutShort>>

\* Mutant of ListChunks: only the first chunk is listed.
ListFirstChunk(w) ==
  /\ At(w, "embed", "list")
  /\ seen' = [seen EXCEPT ![w] = generation[Doc(w)]]
  /\ todo' = [todo EXCEPT ![w] = {1} \ embedded[Doc(w)]]
  /\ Goto(w, "embed")
  /\ UNCHANGED <<tables, requests, queues, task, failing, stalls, crashes, history>>

ListChunks(w) ==
  /\ At(w, "embed", "list")
  /\ seen' = [seen EXCEPT ![w] = generation[Doc(w)]]
  /\ todo' = [todo EXCEPT ![w] = IF status[Doc(w)] = "absent" THEN {} ELSE Chunks \ embedded[Doc(w)]]
  /\ Goto(w, "embed")
  /\ UNCHANGED <<tables, requests, queues, task, failing, stalls, crashes, history>>

\* The chunk row the run listed still exists and has no embedding yet.
Fills(w, i) ==
  /\ status[Doc(w)] # "absent"
  /\ generation[Doc(w)] = seen[w]
  /\ i \notin embedded[Doc(w)]

\* Mutant of EmbedChunk: the event is recorded whether or not a row was filled.
EmbedAndCharge(w) ==
  /\ At(w, "embed", "embed")
  /\ \E i \in todo[w] :
       /\ \A k \in todo[w] : i <= k
       /\ todo' = [todo EXCEPT ![w] = @ \ {i}]
       /\ embedded' = IF Fills(w, i) THEN [embedded EXCEPT ![Doc(w)] = @ \cup {i}] ELSE embedded
       /\ charged' = charged \cup {<<Doc(w), seen[w], i>>}
       /\ cache' = IF Fills(w, i) THEN "stale" ELSE cache
  /\ UNCHANGED <<status, stored, requests, generation, queues, task, pc, seen, failing, stalls,
               crashes, history>>

\* embed() and saveAndMeter for the next chunk listed.
EmbedChunk(w) ==
  /\ At(w, "embed", "embed")
  /\ \E i \in todo[w] :
       /\ \A k \in todo[w] : i <= k
       /\ todo' = [todo EXCEPT ![w] = @ \ {i}]
       /\ IF Fills(w, i)
          THEN /\ embedded' = [embedded EXCEPT ![Doc(w)] = @ \cup {i}]
               /\ charged' = charged \cup {<<Doc(w), seen[w], i>>}
               /\ cache' = "stale"
          ELSE UNCHANGED <<embedded, charged, cache>>
  /\ UNCHANGED <<status, stored, requests, generation, queues, task, pc, seen, failing, stalls,
               crashes, history>>

BecomeReady(w) ==
  /\ At(w, "embed", "embed") /\ todo[w] = {}
  /\ SetStatus(Doc(w), "ready")
  /\ Goto(w, "bump")
  /\ UNCHANGED <<stored, requests, generation, embedded, charged, cache, queues, task, seen, todo,
               failing, stalls, crashes, history>>

\* What remains of a job that is over: embedding jobs are removed.
Over(kind) == IF kind = "process" THEN "finished" ELSE "none"

\* The queue hears of the end of a run from the worker that holds the job.
Complete(w) ==
  /\ task[w] # NoTask /\ pc[w] = "finish"
  /\ IF holder[task[w]] = w
     THEN /\ job' = [job EXCEPT ![task[w]] = Over(Kind(w))]
          /\ holder' = [holder EXCEPT ![task[w]] = Nobody]
     ELSE UNCHANGED <<job, holder>>
  /\ task' = [task EXCEPT ![w] = NoTask]
  /\ UNCHANGED <<tables, requests, made, pc, seen, todo, failing, stalls, crashes, history>>

\* Mutant of Throw: a job out of attempts is dropped without its handler.
ThrowQuietly(w) ==
  LET j == task[w] IN
  /\ j # NoTask /\ pc[w] # "finish"
  /\ IF holder[j] = w
     THEN /\ made' = [made EXCEPT ![j] = @ + 1]
          /\ holder' = [holder EXCEPT ![j] = Nobody]
          /\ job' = [job EXCEPT ![j] = IF made[j] + 1 < Limit(Kind(w)) THEN "waiting" ELSE Over(Kind(w))]
     ELSE UNCHANGED <<made, holder, job>>
  /\ task' = [task EXCEPT ![w] = NoTask]
  /\ UNCHANGED <<tables, requests, pc, seen, todo, failing, stalls, crashes, history>>

\* Any step may throw: the storage, the database, the provider, Redis.  The job is
\* retried, or is out of attempts and its onFailed handler will run.
Throw(w) ==
  LET j == task[w] IN
  /\ j # NoTask /\ pc[w] # "finish"
  /\ IF holder[j] = w
     THEN /\ made' = [made EXCEPT ![j] = @ + 1]
          /\ holder' = [holder EXCEPT ![j] = Nobody]
          /\ IF made[j] + 1 < Limit(Kind(w))
             THEN job' = [job EXCEPT ![j] = "waiting"] /\ UNCHANGED failing
             ELSE job' = [job EXCEPT ![j] = Over(Kind(w))] /\ failing' = failing \cup {Doc(w)}
     ELSE UNCHANGED <<made, holder, job, failing>>
  /\ task' = [task EXCEPT ![w] = NoTask]
  /\ UNCHANGED <<tables, requests, pc, seen, todo, stalls, crashes, history>>

OnFailed(d) ==
  /\ d \in failing
  /\ failing' = failing \ {d}
  /\ SetStatus(d, "failed")
  /\ UNCHANGED <<stored, requests, generation, embedded, charged, cache, queues, runs, stalls,
               crashes, history>>

(***************************************************************************)
(* The queue's stall detection and the process.                            *)
(***************************************************************************)

\* The lock of a live worker runs out: its job is given out again.
Stall(j) ==
  /\ job[j] = "active" /\ holder[j] # Nobody /\ stalls < MaxStalls
  /\ stalls' = stalls + 1
  /\ job' = [job EXCEPT ![j] = "waiting"]
  /\ holder' = [holder EXCEPT ![j] = Nobody]
  /\ overrun' = overrun \cup {j[2]}
  /\ UNCHANGED <<tables, requests, made, runs, failing, crashes, queued, late, cutShort>>

\* The same for a job whose worker died.
Recover(j) ==
  /\ job[j] = "active" /\ holder[j] = Nobody
  /\ job' = [job EXCEPT ![j] = "waiting"]
  /\ UNCHANGED <<tables, requests, holder, made, runs, failing, stalls, crashes, history>>

AtRest(d) == upload[d] \in {"new", "over"} /\ removal[d] = "none"

Crash ==
  /\ crashes < MaxCrashes
  /\ crashes' = crashes + 1
  /\ upload' = [d \in Docs |-> IF upload[d] = "new" THEN "new" ELSE "over"]
  /\ removal' = [d \in Docs |-> "none"]
  /\ cutShort' = cutShort \cup failing \cup {d \in Docs : ~AtRest(d)}
                   \cup {d \in Docs : \E w \in Workers : task[w] # NoTask /\ pc[w] = "bump" /\ Doc(w) = d}
  /\ holder' = [j \in Jobs |-> Nobody]
  /\ task' = [w \in Workers |-> NoTask]
  /\ failing' = {}
  /\ UNCHANGED <<status, stored, generation, embedded, charged, cache, job, made, pc, seen, todo,
               stalls, queued, late, overrun>>

UploadStep(d)  == SaveFile(d) \/ InsertRow(d) \/ InsertRefused(d) \/ CleanUp(d) \/ Enqueue(d)
RemovalStep(d) == DeleteFile(d) \/ DeleteRow(d) \/ BumpAfterRemoval(d)

RequestStep(d) == Upload(d) \/ Remove(d) \/ UploadStep(d) \/ RemovalStep(d) \/ RequestThrows(d)

WorkerStep(w) ==
  \/ Load(w) \/ Mark(w) \/ ReadFile(w) \/ RejectEmpty(w) \/ ReplaceChunks(w) \/ Bump(w) \/ QueueEmbedding(w)
  \/ ListChunks(w) \/ EmbedChunk(w) \/ BecomeReady(w) \/ Complete(w) \/ Throw(w)

Next ==
  \/ \E d \in Docs : RequestStep(d) \/ OnFailed(d)
  \/ \E w \in Workers : WorkerStep(w)
  \/ \E w \in Workers, j \in Jobs : Take(w, j)
  \/ \E j \in Jobs : Stall(j) \/ Recover(j)
  \/ Crash

Spec == Init /\ [][Next]_vars

\* Requests, workers and event handlers keep running, the queue hands out what is
\* waiting and checks for stalls.  Nobody has to upload or remove anything.
Fairness ==
  /\ \A w \in Workers : WF_vars(WorkerStep(w)) /\ WF_vars(\E j \in Jobs : Take(w, j))
  /\ \A d \in Docs : WF_vars(UploadStep(d)) /\ WF_vars(RemovalStep(d)) /\ WF_vars(OnFailed(d))
  /\ \A j \in Jobs : WF_vars(Recover(j))

FairSpec == Spec /\ Fairness

(***************************************************************************)
(* Properties.                                                             *)
(***************************************************************************)

\* A ready document is searchable as a whole, unless its chunks were replaced after
\* its embedding job had been added.
ReadyIsWhole ==
  \A d \in Docs : status[d] = "ready" /\ d \notin late => embedded[d] = Chunks

\* A usage event is recorded exactly when a chunk is filled, and once, whatever runs
\* meet on it: never for a chunk another run filled or a re-run replaced.
ChargedWhenFilled ==
  [][/\ \A event \in charged' \ charged :
          event[2] = generation[event[1]] /\ event[3] \in embedded'[event[1]] \ embedded[event[1]]
     /\ \A d \in Docs : \A i \in embedded'[d] \ embedded[d] :
          <<d, generation[d], i>> \in charged' \ charged]_vars

\* The files on disk are those of the rows, except while a request is between the
\* two or was cut short there.
FilesMatchRows ==
  \A d \in Docs : AtRest(d) /\ d \notin cutShort => (d \in stored <=> status[d] # "absent")

AtWork(d) ==
  \/ \E kind \in Kinds : job[<<kind, d>>] \in {"waiting", "active"}
  \/ d \in failing

\* What interrupted runs leave behind: a request or handler cut short, a job run by two
\* workers at once, a processing run repeated after its embedding job was added.
Disturbed == cutShort \cup overrun \cup late

\* A document that is not ready, failed or gone is still being worked on.
NoneForgotten ==
  \A d \in Docs : status[d] \in {"uploaded", "processing"} /\ AtRest(d) /\ d \notin Disturbed => AtWork(d)

\* A change that was not followed by a bump is about to be, or belongs to a document
\* that is in progress or failed.
StaleIsExplained ==
  cache = "stale" =>
    \/ \E w \in Workers : task[w] # NoTask /\ pc[w] = "bump"
    \/ \E d \in Docs : \/ removal[d] = "announcing"
                       \/ status[d] \in {"processing", "failed"}
                       \/ d \in failing \cup Disturbed

\* An uploaded document ends up ready, failed or removed.
Settles ==
  \A d \in Docs :
    status[d] \in {"uploaded", "processing"} ~>
      status[d] \in {"absent", "ready", "failed"} \/ d \in Disturbed

\* "Every chunk is now visible to vector search too" (document-embedding.processor.ts:77).
ReadyIsSearchable ==
  \A d \in Docs : status[d] = "ready" => embedded[d] = Chunks

\* Nothing is forgotten: a document in progress is being worked on, and a change
\* searches can see is about to reach the cache, but for what was cut short.
NothingIsForgotten == TypeOK /\ NoneForgotten /\ StaleIsExplained
==============================================================================
