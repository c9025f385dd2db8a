------------------------ MODULE DocumentPipelineProofs ------------------------
(* Proofs about DocumentPipeline for any documents, workers and bounds, and about
   the page that shows the documents (DocumentsScreen). *)
EXTENDS DocumentPipeline, DocumentsScreen, FiniteSetTheorems, WellFoundedInduction, TLAPS

(***************************************************************************)
(* Types, and the queues: what bounds the attempts.                        *)
(***************************************************************************)

\* What a worker runs is a job: a kind of work on a document.
LEMMA TaskIsJob ==
  ASSUME TypeOK, NEW w \in Workers, task[w] # NoTask
  PROVE  task[w] \in Jobs /\ Kind(w) \in Kinds /\ Doc(w) \in Docs /\ task[w] = <<Kind(w), Doc(w)>>
BY DEF TypeOK, Jobs, Kind, Doc

\* A job has an attempt left as long as it waits or runs, and nothing is queued or
\* run for a document before its upload is over.
QueueInv ==
  /\ \A j \in Jobs : holder[j] # Nobody => job[j] = "active"
  /\ \A j \in Jobs : job[j] \in {"waiting", "active"} => made[j] < Limit(j[1])
  /\ \A j \in Jobs : job[j] # "none" => upload[j[2]] = "over"
  /\ \A d \in Docs : upload[d] # "over" => made[<<"process", d>>] = 0
  /\ \A w \in Workers : task[w] # NoTask => upload[Doc(w)] = "over"

\* Every step keeps the types; a retry has an attempt left.
LEMMA TypesKept == TypeOK /\ QueueInv /\ [Next]_vars => TypeOK'
<1> SUFFICES ASSUME TypeOK, QueueInv, [Next]_vars PROVE TypeOK'
  OBVIOUS
<1> USE PipelineAssumption
<1>1. ASSUME NEW d \in Docs, Upload(d) PROVE TypeOK'
  BY <1>1 DEF TypeOK, Upload, Uploading, tables, requests, queues, runs, history
<1>2. ASSUME NEW d \in Docs, SaveFile(d) PROVE TypeOK'
  BY <1>2 DEF TypeOK, SaveFile, Uploading, tables, requests, queues, runs, history
<1>3. ASSUME NEW d \in Docs, InsertRow(d) PROVE TypeOK'
  BY <1>3 DEF TypeOK, InsertRow, Uploading, tables, requests, queues, runs, history
<1>4. ASSUME NEW d \in Docs, InsertRefused(d) PROVE TypeOK'
  BY <1>4 DEF TypeOK, InsertRefused, Uploading, tables, requests, queues, runs, history
<1>5. ASSUME NEW d \in Docs, CleanUp(d) PROVE TypeOK'
  BY <1>5 DEF TypeOK, CleanUp, Uploading, tables, requests, queues, runs, history
<1>6. ASSUME NEW d \in Docs, Enqueue(d) PROVE TypeOK'
  BY <1>6 DEF TypeOK, Enqueue, Uploading, Jobs, Kinds, tables, requests, queues, runs, history
<1>7. ASSUME NEW d \in Docs, Remove(d) PROVE TypeOK'
  BY <1>7 DEF TypeOK, Remove, Removing, tables, requests, queues, runs, history
<1>8. ASSUME NEW d \in Docs, DeleteFile(d) PROVE TypeOK'
  BY <1>8 DEF TypeOK, DeleteFile, Removing, tables, requests, queues, runs, history
<1>9. ASSUME NEW d \in Docs, DeleteRow(d) PROVE TypeOK'
  BY <1>9 DEF TypeOK, DeleteRow, Removing, tables, requests, queues, runs, history
<1>10. ASSUME NEW d \in Docs, BumpAfterRemoval(d) PROVE TypeOK'
  BY <1>10 DEF TypeOK, BumpAfterRemoval, Removing, tables, requests, queues, runs, history
<1>11. ASSUME NEW d \in Docs, RequestThrows(d) PROVE TypeOK'
  BY <1>11 DEF TypeOK, RequestThrows, Uploading, Removing, tables, requests, queues, runs, history
<1>12. ASSUME NEW d \in Docs, OnFailed(d) PROVE TypeOK'
  BY <1>12 DEF TypeOK, OnFailed, SetStatus, tables, requests, queues, runs, history
<1>13. ASSUME NEW w \in Workers, Load(w) PROVE TypeOK'
  BY <1>13, TaskIsJob DEF TypeOK, Load, Kind, Doc, Goto, tables, requests, queues, runs, history
<1>14. ASSUME NEW w \in Workers, Mark(w) PROVE TypeOK'
  BY <1>14, TaskIsJob DEF TypeOK, Mark, At, Kind, Doc, Goto, SetStatus, tables, requests, queues,
     runs, history
<1>15. ASSUME NEW w \in Workers, ReadFile(w) PROVE TypeOK'
  BY <1>15, TaskIsJob DEF TypeOK, ReadFile, At, Kind, Doc, Goto, tables, requests, queues, runs,
     history
<1>16. ASSUME NEW w \in Workers, RejectEmpty(w) PROVE TypeOK'
  BY <1>16, TaskIsJob DEF TypeOK, RejectEmpty, At, Kind, Doc, Goto, SetStatus, tables, requests,
     queues, runs, history
<1>17. ASSUME NEW w \in Workers, ReplaceChunks(w) PROVE TypeOK'
  BY <1>17, TaskIsJob DEF TypeOK, ReplaceChunks, At, Kind, Doc, Goto, tables, requests, queues,
     runs, history
<1>18. ASSUME NEW w \in Workers, Bump(w) PROVE TypeOK'
  BY <1>18, TaskIsJob DEF TypeOK, Bump, Kind, Goto, tables, requests, queues, runs, history
<1>19. ASSUME NEW w \in Workers, QueueEmbedding(w) PROVE TypeOK'
  BY <1>19, TaskIsJob DEF TypeOK, QueueEmbedding, At, Kind, Doc, Goto, Jobs, Kinds, tables,
     requests, queues, runs, history
<1>20. ASSUME NEW w \in Workers, ListChunks(w) PROVE TypeOK'
  BY <1>20, TaskIsJob DEF TypeOK, ListChunks, At, Kind, Doc, Goto, tables, requests, queues, runs,
     history
<1>21. ASSUME NEW w \in Workers, EmbedChunk(w) PROVE TypeOK'
  BY <1>21, TaskIsJob DEF TypeOK, EmbedChunk, At, Kind, Doc, Fills, tables, requests, queues,
     runs, history
<1>22. ASSUME NEW w \in Workers, BecomeReady(w) PROVE TypeOK'
  BY <1>22, TaskIsJob DEF TypeOK, BecomeReady, At, Kind, Doc, Goto, SetStatus, tables, requests,
     queues, runs, history
<1>23. ASSUME NEW w \in Workers, Complete(w) PROVE TypeOK'
  BY <1>23, TaskIsJob DEF TypeOK, Complete, Kind, Over, tables, requests, queues, runs, history
<1>24. ASSUME NEW w \in Workers, Throw(w) PROVE TypeOK'
  <2>1. task[w] \in Jobs /\ Doc(w) \in Docs /\ Kind(w) = task[w][1]
    BY <1>24, TaskIsJob DEF Throw, Kind
  <2>2. holder[task[w]] = w => made[task[w]] + 1 \in 0..Attempts
    BY <2>1 DEF TypeOK, QueueInv, Limit, Jobs, Kinds
  <2> QED
    BY <1>24, <2>1, <2>2 DEF TypeOK, Throw, Over, tables, requests, history
<1>25. ASSUME NEW w \in Workers, NEW j \in Jobs, Take(w, j) PROVE TypeOK'
  BY <1>25 DEF TypeOK, Take, Goto, tables, requests, queues, runs, history
<1>26. ASSUME NEW j \in Jobs, Stall(j) PROVE TypeOK'
  BY <1>26 DEF TypeOK, Stall, Jobs, tables, requests, queues, runs, history
<1>27. ASSUME NEW j \in Jobs, Recover(j) PROVE TypeOK'
  BY <1>27 DEF TypeOK, Recover, tables, requests, queues, runs, history
<1>28. CASE Crash
  BY <1>28, TaskIsJob DEF TypeOK, Crash, AtRest, Doc, tables, requests, queues, runs, history
<1>29. CASE UNCHANGED vars
  BY <1>29 DEF TypeOK, vars, tables, requests, queues, runs, history
<1>30. QED
  BY <1>1, <1>2, <1>3, <1>4, <1>5, <1>6, <1>7, <1>8, <1>9, <1>10, <1>11, <1>12, <1>13, <1>14,
     <1>15, <1>16, <1>17, <1>18, <1>19, <1>20, <1>21, <1>22, <1>23, <1>24, <1>25, <1>26, <1>27,
     <1>28, <1>29 DEF Next, RequestStep, UploadStep, RemovalStep, WorkerStep

\* Every step keeps the queues in order.
LEMMA QueueKept == TypeOK /\ QueueInv /\ [Next]_vars => QueueInv'
<1> SUFFICES ASSUME TypeOK, QueueInv, [Next]_vars PROVE QueueInv'
  OBVIOUS
<1> USE PipelineAssumption
<1>1. ASSUME NEW d \in Docs, Upload(d) PROVE QueueInv'
  BY <1>1 DEF TypeOK, QueueInv, Jobs, Kinds, Limit, Doc, Upload, Uploading, tables, requests,
     queues, runs, history
<1>2. ASSUME NEW d \in Docs, SaveFile(d) PROVE QueueInv'
  BY <1>2 DEF TypeOK, QueueInv, Jobs, Kinds, Limit, Doc, SaveFile, Uploading, tables, requests,
     queues, runs, history
<1>3. ASSUME NEW d \in Docs, InsertRow(d) PROVE QueueInv'
  BY <1>3 DEF TypeOK, QueueInv, Jobs, Kinds, Limit, Doc, InsertRow, Uploading, tables, requests,
     queues, runs, history
<1>4. ASSUME NEW d \in Docs, InsertRefused(d) PROVE QueueInv'
  BY <1>4 DEF TypeOK, QueueInv, Jobs, Kinds, Limit, Doc, InsertRefused, Uploading, tables,
     requests, queues, runs, history
<1>5. ASSUME NEW d \in Docs, CleanUp(d) PROVE QueueInv'
  BY <1>5 DEF TypeOK, QueueInv, Jobs, Kinds, Limit, Doc, CleanUp, Uploading, tables, requests,
     queues, runs, history
<1>6. ASSUME NEW d \in Docs, Enqueue(d) PROVE QueueInv'
  BY <1>6 DEF TypeOK, QueueInv, Jobs, Kinds, Limit, Doc, Enqueue, Uploading, tables, requests,
     queues, runs, history
<1>7. ASSUME NEW d \in Docs, Remove(d) PROVE QueueInv'
  BY <1>7 DEF TypeOK, QueueInv, Jobs, Kinds, Limit, Doc, Remove, Removing, tables, requests,
     queues, runs, history
<1>8. ASSUME NEW d \in Docs, DeleteFile(d) PROVE QueueInv'
  BY <1>8 DEF TypeOK, QueueInv, Jobs, Kinds, Limit, Doc, DeleteFile, Removing, tables, requests,
     queues, runs, history
<1>9. ASSUME NEW d \in Docs, DeleteRow(d) PROVE QueueInv'
  BY <1>9 DEF TypeOK, QueueInv, Jobs, Kinds, Limit, Doc, DeleteRow, Removing, tables, requests,
     queues, runs, history
<1>10. ASSUME NEW d \in Docs, BumpAfterRemoval(d) PROVE QueueInv'
  BY <1>10 DEF TypeOK, QueueInv, Jobs, Kinds, Limit, Doc, BumpAfterRemoval, Removing, tables,
     requests, queues, runs, history
<1>11. ASSUME NEW d \in Docs, RequestThrows(d) PROVE QueueInv'
  BY <1>11 DEF TypeOK, QueueInv, Jobs, Kinds, Limit, Doc, RequestThrows, Uploading, Removing,
     tables, requests, queues, runs, history
<1>12. ASSUME NEW d \in Docs, OnFailed(d) PROVE QueueInv'
  BY <1>12 DEF TypeOK, QueueInv, Jobs, Kinds, Limit, Doc, OnFailed, SetStatus, tables, requests,
     queues, runs, history
<1>13. ASSUME NEW w \in Workers, Load(w) PROVE QueueInv'
  BY <1>13, TaskIsJob DEF TypeOK, QueueInv, Jobs, Kinds, Limit, Doc, Load, Kind, Goto, tables,
     requests, queues, runs, history
<1>14. ASSUME NEW w \in Workers, Mark(w) PROVE QueueInv'
  BY <1>14, TaskIsJob DEF TypeOK, QueueInv, Jobs, Kinds, Limit, Doc, Mark, At, Kind, Goto,
     SetStatus, tables, requests, queues, runs, history
<1>15. ASSUME NEW w \in Workers, ReadFile(w) PROVE QueueInv'
  BY <1>15, TaskIsJob DEF TypeOK, QueueInv, Jobs, Kinds, Limit, Doc, ReadFile, At, Kind, Goto,
     tables, requests, queues, runs, history
<1>16. ASSUME NEW w \in Workers, RejectEmpty(w) PROVE QueueInv'
  BY <1>16, TaskIsJob DEF TypeOK, QueueInv, Jobs, Kinds, Limit, Doc, RejectEmpty, At, Kind, Goto,
     SetStatus, tables, requests, queues, runs, history
<1>17. ASSUME NEW w \in Workers, ReplaceChunks(w) PROVE QueueInv'
  BY <1>17, TaskIsJob DEF TypeOK, QueueInv, Jobs, Kinds, Limit, Doc, ReplaceChunks, At, Kind,
     Goto, tables, requests, queues, runs, history
<1>18. ASSUME NEW w \in Workers, Bump(w) PROVE QueueInv'
  BY <1>18, TaskIsJob DEF TypeOK, QueueInv, Jobs, Kinds, Limit, Doc, Bump, Kind, Goto, tables,
     requests, queues, runs, history
<1>19. ASSUME NEW w \in Workers, QueueEmbedding(w) PROVE QueueInv'
  <2>1. task[w] \in Jobs /\ Doc(w) = task[w][2] /\ Doc(w) \in Docs /\ Kind(w) = task[w][1] /\ upload[Doc(w)] = "over"
    BY <1>19, TaskIsJob DEF QueueInv, QueueEmbedding, At, Kind, Doc
  <2>2. (\A j \in Jobs : holder[j] # Nobody => job[j] = "active")'
    BY <1>19, <2>1 DEF TypeOK, QueueInv, QueueEmbedding, At, Jobs, Kinds, Limit, Doc, tables,
       requests
  <2>3. (\A j \in Jobs : job[j] \in {"waiting", "active"} => made[j] < Limit(j[1]))'
    BY <1>19, <2>1 DEF TypeOK, QueueInv, QueueEmbedding, At, Jobs, Kinds, Limit, Doc, tables,
       requests
  <2>4. (\A j \in Jobs : job[j] # "none" => upload[j[2]] = "over")'
    BY <1>19, <2>1 DEF TypeOK, QueueInv, QueueEmbedding, At, Jobs, Kinds, Limit, Doc, tables,
       requests
  <2>5. (\A d \in Docs : upload[d] # "over" => made[<<"process", d>>] = 0)'
    BY <1>19, <2>1 DEF TypeOK, QueueInv, QueueEmbedding, At, Jobs, Kinds, Limit, Doc, tables,
       requests
  <2>6. (\A v \in Workers : task[v] # NoTask => upload[Doc(v)] = "over")'
    BY <1>19, <2>1 DEF TypeOK, QueueInv, QueueEmbedding, At, Jobs, Kinds, Limit, Doc, tables,
       requests
  <2> QED
    BY <2>2, <2>3, <2>4, <2>5, <2>6 DEF QueueInv
<1>20. ASSUME NEW w \in Workers, ListChunks(w) PROVE QueueInv'
  BY <1>20, TaskIsJob DEF TypeOK, QueueInv, Jobs, Kinds, Limit, Doc, ListChunks, At, Kind, Goto,
     tables, requests, queues, runs, history
<1>21. ASSUME NEW w \in Workers, EmbedChunk(w) PROVE QueueInv'
  BY <1>21, TaskIsJob DEF TypeOK, QueueInv, Jobs, Kinds, Limit, Doc, EmbedChunk, At, Kind, Fills,
     tables, requests, queues, runs, history
<1>22. ASSUME NEW w \in Workers, BecomeReady(w) PROVE QueueInv'
  BY <1>22, TaskIsJob DEF TypeOK, QueueInv, Jobs, Kinds, Limit, Doc, BecomeReady, At, Kind, Goto,
     SetStatus, tables, requests, queues, runs, history
<1>23. ASSUME NEW w \in Workers, Complete(w) PROVE QueueInv'
  BY <1>23, TaskIsJob DEF TypeOK, QueueInv, Jobs, Kinds, Limit, Doc, Complete, Kind, Over, tables,
     requests, queues, runs, history
<1>24. ASSUME NEW w \in Workers, Throw(w) PROVE QueueInv'
  <2>1. task[w] \in Jobs /\ Doc(w) = task[w][2] /\ Doc(w) \in Docs /\ Kind(w) = task[w][1] /\ upload[Doc(w)] = "over"
    BY <1>24, TaskIsJob DEF QueueInv, Throw, At, Kind, Doc
  <2>2. (\A j \in Jobs : holder[j] # Nobody => job[j] = "active")'
    BY <1>24, <2>1 DEF TypeOK, QueueInv, Throw, Jobs, Kinds, Limit, Kind, Over, Doc, tables,
       requests
  <2>3. (\A j \in Jobs : job[j] \in {"waiting", "active"} => made[j] < Limit(j[1]))'
    BY <1>24, <2>1 DEF TypeOK, QueueInv, Throw, Jobs, Kinds, Limit, Kind, Over, Doc, tables,
       requests
  <2>4. (\A j \in Jobs : job[j] # "none" => upload[j[2]] = "over")'
    BY <1>24, <2>1 DEF TypeOK, QueueInv, Throw, Jobs, Kinds, Limit, Kind, Over, Doc, tables,
       requests
  <2>5. (\A d \in Docs : upload[d] # "over" => made[<<"process", d>>] = 0)'
    BY <1>24, <2>1 DEF TypeOK, QueueInv, Throw, Jobs, Kinds, Limit, Kind, Over, Doc, tables,
       requests
  <2>6. (\A v \in Workers : task[v] # NoTask => upload[Doc(v)] = "over")'
    BY <1>24, <2>1 DEF TypeOK, QueueInv, Throw, Jobs, Kinds, Limit, Kind, Over, Doc, tables,
       requests
  <2> QED
    BY <2>2, <2>3, <2>4, <2>5, <2>6 DEF QueueInv
<1>25. ASSUME NEW w \in Workers, NEW j \in Jobs, Take(w, j) PROVE QueueInv'
  BY <1>25 DEF TypeOK, QueueInv, Jobs, Kinds, Limit, Doc, Take, Goto, tables, requests, queues,
     runs, history
<1>26. ASSUME NEW j \in Jobs, Stall(j) PROVE QueueInv'
  BY <1>26 DEF TypeOK, QueueInv, Jobs, Kinds, Limit, Doc, Stall, tables, requests, queues, runs,
     history
<1>27. ASSUME NEW j \in Jobs, Recover(j) PROVE QueueInv'
  BY <1>27 DEF TypeOK, QueueInv, Jobs, Kinds, Limit, Doc, Recover, tables, requests, queues, runs,
     history
<1>28. CASE Crash
  BY <1>28, TaskIsJob DEF TypeOK, QueueInv, Jobs, Kinds, Limit, Doc, Crash, AtRest, tables,
     requests, queues, runs, history
<1>29. CASE UNCHANGED vars
  BY <1>29 DEF TypeOK, QueueInv, Jobs, Kinds, Limit, Doc, vars, tables, requests, queues, runs,
     history
<1>30. QED
  BY <1>1, <1>2, <1>3, <1>4, <1>5, <1>6, <1>7, <1>8, <1>9, <1>10, <1>11, <1>12, <1>13, <1>14,
     <1>15, <1>16, <1>17, <1>18, <1>19, <1>20, <1>21, <1>22, <1>23, <1>24, <1>25, <1>26, <1>27,
     <1>28, <1>29 DEF Next, RequestStep, UploadStep, RemovalStep, WorkerStep

(***************************************************************************)
(* What a ready document's chunks are.                                     *)
(***************************************************************************)

\* An embedding job, a run of it and the status it sets show that one was added.  A run
\* has listed every chunk that has no embedding, unless the chunks were replaced since.
ChunksInv ==
  /\ \A d \in queued : upload[d] = "over"
  /\ \A d \in Docs : job[<<"embed", d>>] # "none" => d \in queued
  /\ \A w \in Workers : task[w] # NoTask /\ Kind(w) = "embed" => Doc(w) \in queued
  /\ \A d \in Docs : status[d] = "ready" => d \in queued
  /\ \A w \in Workers : At(w, "embed", "embed") /\ Doc(w) \notin late /\ status[Doc(w)] # "absent" =>
       seen[w] = generation[Doc(w)] /\ Chunks \ embedded[Doc(w)] \subseteq todo[w]

PipelineInv == TypeOK /\ QueueInv /\ ChunksInv /\ ReadyIsWhole

\* Every step keeps what runs know of the chunks.
LEMMA ChunksKept == PipelineInv /\ [Next]_vars => ChunksInv'
<1> SUFFICES ASSUME PipelineInv, [Next]_vars PROVE ChunksInv'
  OBVIOUS
<1> USE PipelineAssumption DEF PipelineInv
<1>1. ASSUME NEW d \in Docs, Upload(d) PROVE ChunksInv'
  BY <1>1 DEF TypeOK, QueueInv, ChunksInv, Jobs, Kinds, Kind, Doc, At, Upload, Uploading, tables,
     requests, queues, runs, history
<1>2. ASSUME NEW d \in Docs, SaveFile(d) PROVE ChunksInv'
  BY <1>2 DEF TypeOK, QueueInv, ChunksInv, Jobs, Kinds, Kind, Doc, At, SaveFile, Uploading,
     tables, requests, queues, runs, history
<1>3. ASSUME NEW d \in Docs, InsertRow(d) PROVE ChunksInv'
  BY <1>3 DEF TypeOK, QueueInv, ChunksInv, Jobs, Kinds, Kind, Doc, At, InsertRow, Uploading,
     tables, requests, queues, runs, history
<1>4. ASSUME NEW d \in Docs, InsertRefused(d) PROVE ChunksInv'
  BY <1>4 DEF TypeOK, QueueInv, ChunksInv, Jobs, Kinds, Kind, Doc, At, InsertRefused, Uploading,
     tables, requests, queues, runs, history
<1>5. ASSUME NEW d \in Docs, CleanUp(d) PROVE ChunksInv'
  BY <1>5 DEF TypeOK, QueueInv, ChunksInv, Jobs, Kinds, Kind, Doc, At, CleanUp, Uploading, tables,
     requests, queues, runs, history
<1>6. ASSUME NEW d \in Docs, Enqueue(d) PROVE ChunksInv'
  BY <1>6 DEF TypeOK, QueueInv, ChunksInv, Jobs, Kinds, Kind, Doc, At, Enqueue, Uploading, tables,
     requests, queues, runs, history
<1>7. ASSUME NEW d \in Docs, Remove(d) PROVE ChunksInv'
  BY <1>7 DEF TypeOK, QueueInv, ChunksInv, Jobs, Kinds, Kind, Doc, At, Remove, Removing, tables,
     requests, queues, runs, history
<1>8. ASSUME NEW d \in Docs, DeleteFile(d) PROVE ChunksInv'
  BY <1>8 DEF TypeOK, QueueInv, ChunksInv, Jobs, Kinds, Kind, Doc, At, DeleteFile, Removing,
     tables, requests, queues, runs, history
<1>9. ASSUME NEW d \in Docs, DeleteRow(d) PROVE ChunksInv'
  BY <1>9 DEF TypeOK, QueueInv, ChunksInv, Jobs, Kinds, Kind, Doc, At, DeleteRow, Removing,
     tables, requests, queues, runs, history
<1>10. ASSUME NEW d \in Docs, BumpAfterRemoval(d) PROVE ChunksInv'
  BY <1>10 DEF TypeOK, QueueInv, ChunksInv, Jobs, Kinds, Kind, Doc, At, BumpAfterRemoval,
     Removing, tables, requests, queues, runs, history
<1>11. ASSUME NEW d \in Docs, RequestThrows(d) PROVE ChunksInv'
  BY <1>11 DEF TypeOK, QueueInv, ChunksInv, Jobs, Kinds, Kind, Doc, At, RequestThrows, Uploading,
     Removing, tables, requests, queues, runs, history
<1>12. ASSUME NEW d \in Docs, OnFailed(d) PROVE ChunksInv'
  BY <1>12 DEF TypeOK, QueueInv, ChunksInv, Jobs, Kinds, Kind, Doc, At, OnFailed, SetStatus,
     tables, requests, queues, runs, history
<1>13. ASSUME NEW w \in Workers, Load(w) PROVE ChunksInv'
  BY <1>13, TaskIsJob DEF TypeOK, QueueInv, ChunksInv, Jobs, Kinds, Kind, Doc, At, Load, Goto,
     tables, requests, queues, runs, history
<1>14. ASSUME NEW w \in Workers, Mark(w) PROVE ChunksInv'
  BY <1>14, TaskIsJob DEF TypeOK, QueueInv, ChunksInv, Jobs, Kinds, Kind, Doc, At, Mark, Goto,
     SetStatus, tables, requests, queues, runs, history
<1>15. ASSUME NEW w \in Workers, ReadFile(w) PROVE ChunksInv'
  BY <1>15, TaskIsJob DEF TypeOK, QueueInv, ChunksInv, Jobs, Kinds, Kind, Doc, At, ReadFile, Goto,
     tables, requests, queues, runs, history
<1>16. ASSUME NEW w \in Workers, RejectEmpty(w) PROVE ChunksInv'
  BY <1>16, TaskIsJob DEF TypeOK, QueueInv, ChunksInv, Jobs, Kinds, Kind, Doc, At, RejectEmpty,
     Goto, SetStatus, tables, requests, queues, runs, history
<1>17. ASSUME NEW w \in Workers, ReplaceChunks(w) PROVE ChunksInv'
  BY <1>17, TaskIsJob DEF TypeOK, QueueInv, ChunksInv, Jobs, Kinds, Kind, Doc, At, ReplaceChunks,
     Goto, tables, requests, queues, runs, history
<1>18. ASSUME NEW w \in Workers, Bump(w) PROVE ChunksInv'
  BY <1>18, TaskIsJob DEF TypeOK, QueueInv, ChunksInv, Jobs, Kinds, Kind, Doc, At, Bump, Goto,
     tables, requests, queues, runs, history
<1>19. ASSUME NEW w \in Workers, QueueEmbedding(w) PROVE ChunksInv'
  BY <1>19, TaskIsJob DEF TypeOK, QueueInv, ChunksInv, Jobs, Kinds, Kind, Doc, At, QueueEmbedding,
     Goto, tables, requests, queues, runs, history
<1>20. ASSUME NEW w \in Workers, ListChunks(w) PROVE ChunksInv'
  BY <1>20, TaskIsJob DEF TypeOK, QueueInv, ChunksInv, Jobs, Kinds, Kind, Doc, At, ListChunks,
     Goto, tables, requests, queues, runs, history
<1>21. ASSUME NEW w \in Workers, EmbedChunk(w) PROVE ChunksInv'
  BY <1>21, TaskIsJob DEF TypeOK, QueueInv, ChunksInv, Jobs, Kinds, Kind, Doc, At, EmbedChunk,
     Fills, tables, requests, queues, runs, history
<1>22. ASSUME NEW w \in Workers, BecomeReady(w) PROVE ChunksInv'
  BY <1>22, TaskIsJob DEF TypeOK, QueueInv, ChunksInv, Jobs, Kinds, Kind, Doc, At, BecomeReady,
     Goto, SetStatus, tables, requests, queues, runs, history
<1>23. ASSUME NEW w \in Workers, Complete(w) PROVE ChunksInv'
  BY <1>23, TaskIsJob DEF TypeOK, QueueInv, ChunksInv, Jobs, Kinds, Kind, Doc, At, Complete, Over,
     tables, requests, queues, runs, history
<1>24. ASSUME NEW w \in Workers, Throw(w) PROVE ChunksInv'
  BY <1>24, TaskIsJob DEF TypeOK, QueueInv, ChunksInv, Jobs, Kinds, Kind, Doc, At, Throw, Over,
     Limit, tables, requests, queues, runs, history
<1>25. ASSUME NEW w \in Workers, NEW j \in Jobs, Take(w, j) PROVE ChunksInv'
  BY <1>25 DEF TypeOK, QueueInv, ChunksInv, Jobs, Kinds, Kind, Doc, At, Take, Goto, tables,
     requests, queues, runs, history
<1>26. ASSUME NEW j \in Jobs, Stall(j) PROVE ChunksInv'
  BY <1>26 DEF TypeOK, QueueInv, ChunksInv, Jobs, Kinds, Kind, Doc, At, Stall, tables, requests,
     queues, runs, history
<1>27. ASSUME NEW j \in Jobs, Recover(j) PROVE ChunksInv'
  BY <1>27 DEF TypeOK, QueueInv, ChunksInv, Jobs, Kinds, Kind, Doc, At, Recover, tables, requests,
     queues, runs, history
<1>28. CASE Crash
  BY <1>28, TaskIsJob DEF TypeOK, QueueInv, ChunksInv, Jobs, Kinds, Kind, Doc, At, Crash, AtRest,
     tables, requests, queues, runs, history
<1>29. CASE UNCHANGED vars
  BY <1>29 DEF TypeOK, QueueInv, ChunksInv, Jobs, Kinds, Kind, Doc, At, vars, tables, requests,
     queues, runs, history
<1>30. QED
  BY <1>1, <1>2, <1>3, <1>4, <1>5, <1>6, <1>7, <1>8, <1>9, <1>10, <1>11, <1>12, <1>13, <1>14,
     <1>15, <1>16, <1>17, <1>18, <1>19, <1>20, <1>21, <1>22, <1>23, <1>24, <1>25, <1>26, <1>27,
     <1>28, <1>29 DEF Next, RequestStep, UploadStep, RemovalStep, WorkerStep

\* Every step keeps ready documents whole.
LEMMA WholeKept == PipelineInv /\ [Next]_vars => ReadyIsWhole'
<1> SUFFICES ASSUME PipelineInv, [Next]_vars PROVE ReadyIsWhole'
  OBVIOUS
<1> USE PipelineAssumption DEF PipelineInv
<1>1. ASSUME NEW d \in Docs, Upload(d) PROVE ReadyIsWhole'
  BY <1>1 DEF TypeOK, ChunksInv, ReadyIsWhole, Kind, Doc, At, Upload, Uploading, tables, requests,
     queues, runs, history
<1>2. ASSUME NEW d \in Docs, SaveFile(d) PROVE ReadyIsWhole'
  BY <1>2 DEF TypeOK, ChunksInv, ReadyIsWhole, Kind, Doc, At, SaveFile, Uploading, tables,
     requests, queues, runs, history
<1>3. ASSUME NEW d \in Docs, InsertRow(d) PROVE ReadyIsWhole'
  BY <1>3 DEF TypeOK, ChunksInv, ReadyIsWhole, Kind, Doc, At, InsertRow, Uploading, tables,
     requests, queues, runs, history
<1>4. ASSUME NEW d \in Docs, InsertRefused(d) PROVE ReadyIsWhole'
  BY <1>4 DEF TypeOK, ChunksInv, ReadyIsWhole, Kind, Doc, At, InsertRefused, Uploading, tables,
     requests, queues, runs, history
<1>5. ASSUME NEW d \in Docs, CleanUp(d) PROVE ReadyIsWhole'
  BY <1>5 DEF TypeOK, ChunksInv, ReadyIsWhole, Kind, Doc, At, CleanUp, Uploading, tables,
     requests, queues, runs, history
<1>6. ASSUME NEW d \in Docs, Enqueue(d) PROVE ReadyIsWhole'
  BY <1>6 DEF TypeOK, ChunksInv, ReadyIsWhole, Kind, Doc, At, Enqueue, Uploading, Jobs, Kinds,
     tables, requests, queues, runs, history
<1>7. ASSUME NEW d \in Docs, Remove(d) PROVE ReadyIsWhole'
  BY <1>7 DEF TypeOK, ChunksInv, ReadyIsWhole, Kind, Doc, At, Remove, Removing, tables, requests,
     queues, runs, history
<1>8. ASSUME NEW d \in Docs, DeleteFile(d) PROVE ReadyIsWhole'
  BY <1>8 DEF TypeOK, ChunksInv, ReadyIsWhole, Kind, Doc, At, DeleteFile, Removing, tables,
     requests, queues, runs, history
<1>9. ASSUME NEW d \in Docs, DeleteRow(d) PROVE ReadyIsWhole'
  BY <1>9 DEF TypeOK, ChunksInv, ReadyIsWhole, Kind, Doc, At, DeleteRow, Removing, tables,
     requests, queues, runs, history
<1>10. ASSUME NEW d \in Docs, BumpAfterRemoval(d) PROVE ReadyIsWhole'
  BY <1>10 DEF TypeOK, ChunksInv, ReadyIsWhole, Kind, Doc, At, BumpAfterRemoval, Removing, tables,
     requests, queues, runs, history
<1>11. ASSUME NEW d \in Docs, RequestThrows(d) PROVE ReadyIsWhole'
  BY <1>11 DEF TypeOK, ChunksInv, ReadyIsWhole, Kind, Doc, At, RequestThrows, Uploading, Removing,
     tables, requests, queues, runs, history
<1>12. ASSUME NEW d \in Docs, OnFailed(d) PROVE ReadyIsWhole'
  BY <1>12 DEF TypeOK, ChunksInv, ReadyIsWhole, Kind, Doc, At, OnFailed, SetStatus, tables,
     requests, queues, runs, history
<1>13. ASSUME NEW w \in Workers, Load(w) PROVE ReadyIsWhole'
  BY <1>13, TaskIsJob DEF TypeOK, ChunksInv, ReadyIsWhole, Kind, Doc, At, Load, Goto, tables,
     requests, queues, runs, history
<1>14. ASSUME NEW w \in Workers, Mark(w) PROVE ReadyIsWhole'
  BY <1>14, TaskIsJob DEF TypeOK, ChunksInv, ReadyIsWhole, Kind, Doc, At, Mark, Goto, SetStatus,
     tables, requests, queues, runs, history
<1>15. ASSUME NEW w \in Workers, ReadFile(w) PROVE ReadyIsWhole'
  BY <1>15, TaskIsJob DEF TypeOK, ChunksInv, ReadyIsWhole, Kind, Doc, At, ReadFile, Goto, tables,
     requests, queues, runs, history
<1>16. ASSUME NEW w \in Workers, RejectEmpty(w) PROVE ReadyIsWhole'
  BY <1>16, TaskIsJob DEF TypeOK, ChunksInv, ReadyIsWhole, Kind, Doc, At, RejectEmpty, Goto,
     SetStatus, tables, requests, queues, runs, history
<1>17. ASSUME NEW w \in Workers, ReplaceChunks(w) PROVE ReadyIsWhole'
  BY <1>17, TaskIsJob DEF TypeOK, ChunksInv, ReadyIsWhole, Kind, Doc, At, ReplaceChunks, Goto,
     tables, requests, queues, runs, history
<1>18. ASSUME NEW w \in Workers, Bump(w) PROVE ReadyIsWhole'
  BY <1>18, TaskIsJob DEF TypeOK, ChunksInv, ReadyIsWhole, Kind, Doc, At, Bump, Goto, tables,
     requests, queues, runs, history
<1>19. ASSUME NEW w \in Workers, QueueEmbedding(w) PROVE ReadyIsWhole'
  BY <1>19, TaskIsJob DEF TypeOK, ChunksInv, ReadyIsWhole, Kind, Doc, At, QueueEmbedding, Goto,
     Jobs, Kinds, tables, requests, queues, runs, history
<1>20. ASSUME NEW w \in Workers, ListChunks(w) PROVE ReadyIsWhole'
  BY <1>20, TaskIsJob DEF TypeOK, ChunksInv, ReadyIsWhole, Kind, Doc, At, ListChunks, Goto,
     tables, requests, queues, runs, history
<1>21. ASSUME NEW w \in Workers, EmbedChunk(w) PROVE ReadyIsWhole'
  BY <1>21, TaskIsJob DEF TypeOK, ChunksInv, ReadyIsWhole, Kind, Doc, At, EmbedChunk, Fills,
     tables, requests, queues, runs, history
<1>22. ASSUME NEW w \in Workers, BecomeReady(w) PROVE ReadyIsWhole'
  <2>1. w \in Workers /\ Doc(w) \in Docs /\ late' = late /\ embedded' = embedded
    BY <1>22, TaskIsJob DEF BecomeReady, At, SetStatus, TypeOK, history
  <2>2. \A d \in Docs : d # Doc(w) => status'[d] = status[d]
    BY <1>22, <2>1 DEF BecomeReady, SetStatus, TypeOK
  <2>3. status[Doc(w)] # "absent" /\ Doc(w) \notin late => embedded[Doc(w)] = Chunks
    BY ZenonT(60), <1>22, <2>1 DEF BecomeReady, ChunksInv, TypeOK
  <2>4. status[Doc(w)] = "absent" => status' = status
    BY <1>22 DEF BecomeReady, SetStatus
  <2> QED
    BY <2>1, <2>2, <2>3, <2>4 DEF ReadyIsWhole
<1>23. ASSUME NEW w \in Workers, Complete(w) PROVE ReadyIsWhole'
  BY <1>23, TaskIsJob DEF TypeOK, ChunksInv, ReadyIsWhole, Kind, Doc, At, Complete, Over, tables,
     requests, queues, runs, history
<1>24. ASSUME NEW w \in Workers, Throw(w) PROVE ReadyIsWhole'
  BY <1>24, TaskIsJob DEF TypeOK, ChunksInv, ReadyIsWhole, Kind, Doc, At, Throw, Over, Limit,
     Jobs, Kinds, tables, requests, queues, runs, history
<1>25. ASSUME NEW w \in Workers, NEW j \in Jobs, Take(w, j) PROVE ReadyIsWhole'
  BY <1>25 DEF TypeOK, ChunksInv, ReadyIsWhole, Kind, Doc, At, Take, Goto, tables, requests,
     queues, runs, history
<1>26. ASSUME NEW j \in Jobs, Stall(j) PROVE ReadyIsWhole'
  BY <1>26 DEF TypeOK, ChunksInv, ReadyIsWhole, Kind, Doc, At, Stall, Jobs, tables, requests,
     queues, runs, history
<1>27. ASSUME NEW j \in Jobs, Recover(j) PROVE ReadyIsWhole'
  BY <1>27 DEF TypeOK, ChunksInv, ReadyIsWhole, Kind, Doc, At, Recover, tables, requests, queues,
     runs, history
<1>28. CASE Crash
  BY <1>28, TaskIsJob DEF TypeOK, ChunksInv, ReadyIsWhole, Kind, Doc, At, Crash, AtRest, tables,
     requests, queues, runs, history
<1>29. CASE UNCHANGED vars
  BY <1>29 DEF TypeOK, ChunksInv, ReadyIsWhole, Kind, Doc, At, vars, tables, requests, queues,
     runs, history
<1>30. QED
  BY <1>1, <1>2, <1>3, <1>4, <1>5, <1>6, <1>7, <1>8, <1>9, <1>10, <1>11, <1>12, <1>13, <1>14,
     <1>15, <1>16, <1>17, <1>18, <1>19, <1>20, <1>21, <1>22, <1>23, <1>24, <1>25, <1>26, <1>27,
     <1>28, <1>29 DEF Next, RequestStep, UploadStep, RemovalStep, WorkerStep

\* The four together are inductive.
LEMMA PipelineInvHolds == Spec => []PipelineInv
<1>1. Init => PipelineInv
  BY PipelineAssumption DEF Init, PipelineInv, TypeOK, QueueInv, ChunksInv, ReadyIsWhole, At,
     Jobs, Kinds
<1>2. PipelineInv /\ [Next]_vars => PipelineInv'
  BY TypesKept, QueueKept, ChunksKept, WholeKept DEF PipelineInv
<1>3. QED
  BY <1>1, <1>2, PTL DEF Spec

\* TypeOK holds in every reachable state: no job is attempted more often than it may be.
THEOREM TypeCorrect == Spec => []TypeOK
BY PipelineInvHolds, PTL DEF PipelineInv

\* A ready document is searchable as a whole unless its chunks were replaced after its
\* embedding job had been added, however runs of its jobs overlap, fail or are cut off.
THEOREM ReadyDocumentsAreWhole == Spec => []ReadyIsWhole
BY PipelineInvHolds, PTL DEF PipelineInv

(***************************************************************************)
(* Files and rows.                                                         *)
(***************************************************************************)

\* How far a request has got says whether there is a file and a row.
FilesInv ==
  \A d \in Docs \ cutShort :
    /\ upload[d] \in {"new", "saving"} => d \notin stored
    /\ upload[d] = "inserting" => d \in stored
    /\ upload[d] \in {"new", "saving", "inserting", "cleaning"} => status[d] = "absent" /\ removal[d] = "none"
    /\ removal[d] \in {"unrowing", "announcing"} => d \notin stored
    /\ removal[d] = "announcing" => status[d] = "absent"
    /\ upload[d] \in {"queueing", "over"} /\ removal[d] = "none" => (d \in stored <=> status[d] # "absent")

\* Every step keeps requests, files and rows in line.
LEMMA FilesKept == TypeOK /\ FilesInv /\ [Next]_vars => FilesInv'
<1> SUFFICES ASSUME TypeOK, FilesInv, [Next]_vars PROVE FilesInv'
  OBVIOUS
<1> USE PipelineAssumption
<1>1. ASSUME NEW d \in Docs, Upload(d) PROVE FilesInv'
  BY <1>1 DEF TypeOK, FilesInv, Upload, Uploading, tables, requests, queues, runs, history
<1>2. ASSUME NEW d \in Docs, SaveFile(d) PROVE FilesInv'
  BY <1>2 DEF TypeOK, FilesInv, SaveFile, Uploading, tables, requests, queues, runs, history
<1>3. ASSUME NEW d \in Docs, InsertRow(d) PROVE FilesInv'
  BY <1>3 DEF TypeOK, FilesInv, InsertRow, Uploading, tables, requests, queues, runs, history
<1>4. ASSUME NEW d \in Docs, InsertRefused(d) PROVE FilesInv'
  BY <1>4 DEF TypeOK, FilesInv, InsertRefused, Uploading, tables, requests, queues, runs, history
<1>5. ASSUME NEW d \in Docs, CleanUp(d) PROVE FilesInv'
  BY <1>5 DEF TypeOK, FilesInv, CleanUp, Uploading, tables, requests, queues, runs, history
<1>6. ASSUME NEW d \in Docs, Enqueue(d) PROVE FilesInv'
  BY <1>6 DEF TypeOK, FilesInv, Enqueue, Uploading, Jobs, Kinds, tables, requests, queues, runs,
     history
<1>7. ASSUME NEW d \in Docs, Remove(d) PROVE FilesInv'
  BY <1>7 DEF TypeOK, FilesInv, Remove, Removing, tables, requests, queues, runs, history
<1>8. ASSUME NEW d \in Docs, DeleteFile(d) PROVE FilesInv'
  BY <1>8 DEF TypeOK, FilesInv, DeleteFile, Removing, tables, requests, queues, runs, history
<1>9. ASSUME NEW d \in Docs, DeleteRow(d) PROVE FilesInv'
  BY <1>9 DEF TypeOK, FilesInv, DeleteRow, Removing, tables, requests, queues, runs, history
<1>10. ASSUME NEW d \in Docs, BumpAfterRemoval(d) PROVE FilesInv'
  BY <1>10 DEF TypeOK, FilesInv, BumpAfterRemoval, Removing, tables, requests, queues, runs, history
<1>11. ASSUME NEW d \in Docs, RequestThrows(d) PROVE FilesInv'
  BY <1>11 DEF TypeOK, FilesInv, RequestThrows, Uploading, Removing, tables, requests, queues,
     runs, history
<1>12. ASSUME NEW d \in Docs, OnFailed(d) PROVE FilesInv'
  BY <1>12 DEF TypeOK, FilesInv, OnFailed, SetStatus, tables, requests, queues, runs, history
<1>13. ASSUME NEW w \in Workers, Load(w) PROVE FilesInv'
  BY <1>13, TaskIsJob DEF TypeOK, FilesInv, Load, Kind, Doc, Goto, tables, requests, queues, runs,
     history
<1>14. ASSUME NEW w \in Workers, Mark(w) PROVE FilesInv'
  BY <1>14, TaskIsJob DEF TypeOK, FilesInv, Mark, At, Kind, Doc, Goto, SetStatus, tables,
     requests, queues, runs, history
<1>15. ASSUME NEW w \in Workers, ReadFile(w) PROVE FilesInv'
  BY <1>15, TaskIsJob DEF TypeOK, FilesInv, ReadFile, At, Kind, Doc, Goto, tables, requests,
     queues, runs, history
<1>16. ASSUME NEW w \in Workers, RejectEmpty(w) PROVE FilesInv'
  BY <1>16, TaskIsJob DEF TypeOK, FilesInv, RejectEmpty, At, Kind, Doc, Goto, SetStatus, tables,
     requests, queues, runs, history
<1>17. ASSUME NEW w \in Workers, ReplaceChunks(w) PROVE FilesInv'
  BY <1>17, TaskIsJob DEF TypeOK, FilesInv, ReplaceChunks, At, Kind, Doc, Goto, tables, requests,
     queues, runs, history
<1>18. ASSUME NEW w \in Workers, Bump(w) PROVE FilesInv'
  BY <1>18, TaskIsJob DEF TypeOK, FilesInv, Bump, Kind, Goto, tables, requests, queues, runs,
     history
<1>19. ASSUME NEW w \in Workers, QueueEmbedding(w) PROVE FilesInv'
  BY <1>19, TaskIsJob DEF TypeOK, FilesInv, QueueEmbedding, At, Kind, Doc, Goto, Jobs, Kinds,
     tables, requests, queues, runs, history
<1>20. ASSUME NEW w \in Workers, ListChunks(w) PROVE FilesInv'
  BY <1>20, TaskIsJob DEF TypeOK, FilesInv, ListChunks, At, Kind, Doc, Goto, tables, requests,
     queues, runs, history
<1>21. ASSUME NEW w \in Workers, EmbedChunk(w) PROVE FilesInv'
  BY <1>21, TaskIsJob DEF TypeOK, FilesInv, EmbedChunk, At, Kind, Doc, Fills, tables, requests,
     queues, runs, history
<1>22. ASSUME NEW w \in Workers, BecomeReady(w) PROVE FilesInv'
  BY <1>22, TaskIsJob DEF TypeOK, FilesInv, BecomeReady, At, Kind, Doc, Goto, SetStatus, tables,
     requests, queues, runs, history
<1>23. ASSUME NEW w \in Workers, Complete(w) PROVE FilesInv'
  BY <1>23, TaskIsJob DEF TypeOK, FilesInv, Complete, Kind, Over, tables, requests, queues, runs,
     history
<1>24. ASSUME NEW w \in Workers, Throw(w) PROVE FilesInv'
  BY <1>24, TaskIsJob DEF TypeOK, FilesInv, Throw, Kind, Doc, Over, Limit, Jobs, Kinds, tables,
     requests, queues, runs, history
<1>25. ASSUME NEW w \in Workers, NEW j \in Jobs, Take(w, j) PROVE FilesInv'
  BY <1>25 DEF TypeOK, FilesInv, Take, Goto, tables, requests, queues, runs, history
<1>26. ASSUME NEW j \in Jobs, Stall(j) PROVE FilesInv'
  BY <1>26 DEF TypeOK, FilesInv, Stall, Jobs, tables, requests, queues, runs, history
<1>27. ASSUME NEW j \in Jobs, Recover(j) PROVE FilesInv'
  BY <1>27 DEF TypeOK, FilesInv, Recover, tables, requests, queues, runs, history
<1>28. CASE Crash
  BY <1>28, TaskIsJob DEF TypeOK, FilesInv, Crash, AtRest, Doc, tables, requests, queues, runs,
     history
<1>29. CASE UNCHANGED vars
  BY <1>29 DEF TypeOK, FilesInv, vars, tables, requests, queues, runs, history
<1>30. QED
  BY <1>1, <1>2, <1>3, <1>4, <1>5, <1>6, <1>7, <1>8, <1>9, <1>10, <1>11, <1>12, <1>13, <1>14,
     <1>15, <1>16, <1>17, <1>18, <1>19, <1>20, <1>21, <1>22, <1>23, <1>24, <1>25, <1>26, <1>27,
     <1>28, <1>29 DEF Next, RequestStep, UploadStep, RemovalStep, WorkerStep

\* Files on disk and rows correspond whenever no request is between the two, for any
\* number of concurrent uploads of the same file.
THEOREM FilesFollowRows == Spec => []FilesMatchRows
<1>1. Init => FilesInv
  BY DEF Init, FilesInv
<1>2. TypeOK /\ FilesInv => FilesMatchRows
  BY DEF TypeOK, FilesInv, FilesMatchRows, AtRest
<1>3. QED
  BY <1>1, <1>2, FilesKept, TypeCorrect, PTL DEF Spec

(***************************************************************************)
(* What is charged.                                                        *)
(***************************************************************************)

\* Only chunks that were filled are charged; those of the present generation still are.
ChargeInv ==
  \A event \in charged :
    /\ event[1] \in queued /\ event[2] <= generation[event[1]]
    /\ event[2] = generation[event[1]] => event[3] \in embedded[event[1]] \/ status[event[1]] = "absent"

\* Every step keeps the events those of filled chunks.
LEMMA ChargeKept == PipelineInv /\ ChargeInv /\ [Next]_vars => ChargeInv'
<1> SUFFICES ASSUME PipelineInv, ChargeInv, [Next]_vars PROVE ChargeInv'
  OBVIOUS
<1> USE PipelineAssumption DEF PipelineInv
<1>1. ASSUME NEW d \in Docs, Upload(d) PROVE ChargeInv'
  BY <1>1 DEF TypeOK, ChunksInv, ChargeInv, Upload, Uploading, tables, requests, queues, runs,
     history
<1>2. ASSUME NEW d \in Docs, SaveFile(d) PROVE ChargeInv'
  BY <1>2 DEF TypeOK, ChunksInv, ChargeInv, SaveFile, Uploading, tables, requests, queues, runs,
     history
<1>3. ASSUME NEW d \in Docs, InsertRow(d) PROVE ChargeInv'
  BY <1>3 DEF TypeOK, ChunksInv, ChargeInv, InsertRow, Uploading, tables, requests, queues, runs,
     history
<1>4. ASSUME NEW d \in Docs, InsertRefused(d) PROVE ChargeInv'
  BY <1>4 DEF TypeOK, ChunksInv, ChargeInv, InsertRefused, Uploading, tables, requests, queues,
     runs, history
<1>5. ASSUME NEW d \in Docs, CleanUp(d) PROVE ChargeInv'
  BY <1>5 DEF TypeOK, ChunksInv, ChargeInv, CleanUp, Uploading, tables, requests, queues, runs,
     history
<1>6. ASSUME NEW d \in Docs, Enqueue(d) PROVE ChargeInv'
  BY <1>6 DEF TypeOK, ChunksInv, ChargeInv, Enqueue, Uploading, Jobs, Kinds, tables, requests,
     queues, runs, history
<1>7. ASSUME NEW d \in Docs, Remove(d) PROVE ChargeInv'
  BY <1>7 DEF TypeOK, ChunksInv, ChargeInv, Remove, Removing, tables, requests, queues, runs,
     history
<1>8. ASSUME NEW d \in Docs, DeleteFile(d) PROVE ChargeInv'
  BY <1>8 DEF TypeOK, ChunksInv, ChargeInv, DeleteFile, Removing, tables, requests, queues, runs,
     history
<1>9. ASSUME NEW d \in Docs, DeleteRow(d) PROVE ChargeInv'
  BY <1>9 DEF TypeOK, ChunksInv, ChargeInv, DeleteRow, Removing, tables, requests, queues, runs,
     history
<1>10. ASSUME NEW d \in Docs, BumpAfterRemoval(d) PROVE ChargeInv'
  BY <1>10 DEF TypeOK, ChunksInv, ChargeInv, BumpAfterRemoval, Removing, tables, requests, queues,
     runs, history
<1>11. ASSUME NEW d \in Docs, RequestThrows(d) PROVE ChargeInv'
  BY <1>11 DEF TypeOK, ChunksInv, ChargeInv, RequestThrows, Uploading, Removing, tables, requests,
     queues, runs, history
<1>12. ASSUME NEW d \in Docs, OnFailed(d) PROVE ChargeInv'
  BY <1>12 DEF TypeOK, ChunksInv, ChargeInv, OnFailed, SetStatus, tables, requests, queues, runs,
     history
<1>13. ASSUME NEW w \in Workers, Load(w) PROVE ChargeInv'
  BY <1>13, TaskIsJob DEF TypeOK, ChunksInv, ChargeInv, Load, Kind, Doc, Goto, tables, requests,
     queues, runs, history
<1>14. ASSUME NEW w \in Workers, Mark(w) PROVE ChargeInv'
  BY <1>14, TaskIsJob DEF TypeOK, ChunksInv, ChargeInv, Mark, At, Kind, Doc, Goto, SetStatus,
     tables, requests, queues, runs, history
<1>15. ASSUME NEW w \in Workers, ReadFile(w) PROVE ChargeInv'
  BY <1>15, TaskIsJob DEF TypeOK, ChunksInv, ChargeInv, ReadFile, At, Kind, Doc, Goto, tables,
     requests, queues, runs, history
<1>16. ASSUME NEW w \in Workers, RejectEmpty(w) PROVE ChargeInv'
  BY <1>16, TaskIsJob DEF TypeOK, ChunksInv, ChargeInv, RejectEmpty, At, Kind, Doc, Goto,
     SetStatus, tables, requests, queues, runs, history
<1>17. ASSUME NEW w \in Workers, ReplaceChunks(w) PROVE ChargeInv'
  BY <1>17, TaskIsJob DEF TypeOK, ChunksInv, ChargeInv, ReplaceChunks, At, Kind, Doc, Goto,
     tables, requests, queues, runs, history
<1>18. ASSUME NEW w \in Workers, Bump(w) PROVE ChargeInv'
  BY <1>18, TaskIsJob DEF TypeOK, ChunksInv, ChargeInv, Bump, Kind, Goto, tables, requests,
     queues, runs, history
<1>19. ASSUME NEW w \in Workers, QueueEmbedding(w) PROVE ChargeInv'
  BY <1>19, TaskIsJob DEF TypeOK, ChunksInv, ChargeInv, QueueEmbedding, At, Kind, Doc, Goto, Jobs,
     Kinds, tables, requests, queues, runs, history
<1>20. ASSUME NEW w \in Workers, ListChunks(w) PROVE ChargeInv'
  BY <1>20, TaskIsJob DEF TypeOK, ChunksInv, ChargeInv, ListChunks, At, Kind, Doc, Goto, tables,
     requests, queues, runs, history
<1>21. ASSUME NEW w \in Workers, EmbedChunk(w) PROVE ChargeInv'
  BY <1>21, TaskIsJob DEF TypeOK, ChunksInv, ChargeInv, EmbedChunk, At, Kind, Doc, Fills, tables,
     requests, queues, runs, history
<1>22. ASSUME NEW w \in Workers, BecomeReady(w) PROVE ChargeInv'
  BY <1>22, TaskIsJob DEF TypeOK, ChunksInv, ChargeInv, BecomeReady, At, Kind, Doc, Goto,
     SetStatus, tables, requests, queues, runs, history
<1>23. ASSUME NEW w \in Workers, Complete(w) PROVE ChargeInv'
  BY <1>23, TaskIsJob DEF TypeOK, ChunksInv, ChargeInv, Complete, Kind, Over, tables, requests,
     queues, runs, history
<1>24. ASSUME NEW w \in Workers, Throw(w) PROVE ChargeInv'
  BY <1>24, TaskIsJob DEF TypeOK, ChunksInv, ChargeInv, Throw, Kind, Doc, Over, Limit, Jobs,
     Kinds, tables, requests, queues, runs, history
<1>25. ASSUME NEW w \in Workers, NEW j \in Jobs, Take(w, j) PROVE ChargeInv'
  BY <1>25 DEF TypeOK, ChunksInv, ChargeInv, Take, Goto, tables, requests, queues, runs, history
<1>26. ASSUME NEW j \in Jobs, Stall(j) PROVE ChargeInv'
  BY <1>26 DEF TypeOK, ChunksInv, ChargeInv, Stall, Jobs, tables, requests, queues, runs, history
<1>27. ASSUME NEW j \in Jobs, Recover(j) PROVE ChargeInv'
  BY <1>27 DEF TypeOK, ChunksInv, ChargeInv, Recover, tables, requests, queues, runs, history
<1>28. CASE Crash
  BY <1>28, TaskIsJob DEF TypeOK, ChunksInv, ChargeInv, Crash, AtRest, Doc, tables, requests,
     queues, runs, history
<1>29. CASE UNCHANGED vars
  BY <1>29 DEF TypeOK, ChunksInv, ChargeInv, vars, tables, requests, queues, runs, history
<1>30. QED
  BY <1>1, <1>2, <1>3, <1>4, <1>5, <1>6, <1>7, <1>8, <1>9, <1>10, <1>11, <1>12, <1>13, <1>14,
     <1>15, <1>16, <1>17, <1>18, <1>19, <1>20, <1>21, <1>22, <1>23, <1>24, <1>25, <1>26, <1>27,
     <1>28, <1>29 DEF Next, RequestStep, UploadStep, RemovalStep, WorkerStep

\* What a step charges is what it fills.
Charging ==
  /\ \A event \in charged' \ charged :
       event[2] = generation[event[1]] /\ event[3] \in embedded'[event[1]] \ embedded[event[1]]
  /\ \A d \in Docs : \A i \in embedded'[d] \ embedded[d] :
       <<d, generation[d], i>> \in charged' \ charged

\* Only EmbedChunk fills and charges, and it does both or neither.
LEMMA StepCharges == PipelineInv /\ ChargeInv /\ [Next]_vars => Charging
<1> SUFFICES ASSUME PipelineInv, ChargeInv, [Next]_vars PROVE Charging
  OBVIOUS
<1> USE PipelineAssumption DEF PipelineInv
<1>1. ASSUME NEW d \in Docs, Upload(d) PROVE Charging
  BY <1>1 DEF TypeOK, ChargeInv, Charging, Upload, Uploading, tables, requests, queues, runs,
     history
<1>2. ASSUME NEW d \in Docs, SaveFile(d) PROVE Charging
  BY <1>2 DEF TypeOK, ChargeInv, Charging, SaveFile, Uploading, tables, requests, queues, runs,
     history
<1>3. ASSUME NEW d \in Docs, InsertRow(d) PROVE Charging
  BY <1>3 DEF TypeOK, ChargeInv, Charging, InsertRow, Uploading, tables, requests, queues, runs,
     history
<1>4. ASSUME NEW d \in Docs, InsertRefused(d) PROVE Charging
  BY <1>4 DEF TypeOK, ChargeInv, Charging, InsertRefused, Uploading, tables, requests, queues,
     runs, history
<1>5. ASSUME NEW d \in Docs, CleanUp(d) PROVE Charging
  BY <1>5 DEF TypeOK, ChargeInv, Charging, CleanUp, Uploading, tables, requests, queues, runs,
     history
<1>6. ASSUME NEW d \in Docs, Enqueue(d) PROVE Charging
  BY <1>6 DEF TypeOK, ChargeInv, Charging, Enqueue, Uploading, Jobs, Kinds, tables, requests,
     queues, runs, history
<1>7. ASSUME NEW d \in Docs, Remove(d) PROVE Charging
  BY <1>7 DEF TypeOK, ChargeInv, Charging, Remove, Removing, tables, requests, queues, runs, history
<1>8. ASSUME NEW d \in Docs, DeleteFile(d) PROVE Charging
  BY <1>8 DEF TypeOK, ChargeInv, Charging, DeleteFile, Removing, tables, requests, queues, runs,
     history
<1>9. ASSUME NEW d \in Docs, DeleteRow(d) PROVE Charging
  BY <1>9 DEF TypeOK, ChargeInv, Charging, DeleteRow, Removing, tables, requests, queues, runs,
     history
<1>10. ASSUME NEW d \in Docs, BumpAfterRemoval(d) PROVE Charging
  BY <1>10 DEF TypeOK, ChargeInv, Charging, BumpAfterRemoval, Removing, tables, requests, queues,
     runs, history
<1>11. ASSUME NEW d \in Docs, RequestThrows(d) PROVE Charging
  BY <1>11 DEF TypeOK, ChargeInv, Charging, RequestThrows, Uploading, Removing, tables, requests,
     queues, runs, history
<1>12. ASSUME NEW d \in Docs, OnFailed(d) PROVE Charging
  BY <1>12 DEF TypeOK, ChargeInv, Charging, OnFailed, SetStatus, tables, requests, queues, runs,
     history
<1>13. ASSUME NEW w \in Workers, Load(w) PROVE Charging
  BY <1>13, TaskIsJob DEF TypeOK, ChargeInv, Charging, Load, Kind, Doc, Goto, tables, requests,
     queues, runs, history
<1>14. ASSUME NEW w \in Workers, Mark(w) PROVE Charging
  BY <1>14, TaskIsJob DEF TypeOK, ChargeInv, Charging, Mark, At, Kind, Doc, Goto, SetStatus,
     tables, requests, queues, runs, history
<1>15. ASSUME NEW w \in Workers, ReadFile(w) PROVE Charging
  BY <1>15, TaskIsJob DEF TypeOK, ChargeInv, Charging, ReadFile, At, Kind, Doc, Goto, tables,
     requests, queues, runs, history
<1>16. ASSUME NEW w \in Workers, RejectEmpty(w) PROVE Charging
  BY <1>16, TaskIsJob DEF TypeOK, ChargeInv, Charging, RejectEmpty, At, Kind, Doc, Goto,
     SetStatus, tables, requests, queues, runs, history
<1>17. ASSUME NEW w \in Workers, ReplaceChunks(w) PROVE Charging
  BY <1>17, TaskIsJob DEF TypeOK, ChargeInv, Charging, ReplaceChunks, At, Kind, Doc, Goto, tables,
     requests, queues, runs, history
<1>18. ASSUME NEW w \in Workers, Bump(w) PROVE Charging
  BY <1>18, TaskIsJob DEF TypeOK, ChargeInv, Charging, Bump, Kind, Goto, tables, requests, queues,
     runs, history
<1>19. ASSUME NEW w \in Workers, QueueEmbedding(w) PROVE Charging
  BY <1>19, TaskIsJob DEF TypeOK, ChargeInv, Charging, QueueEmbedding, At, Kind, Doc, Goto, Jobs,
     Kinds, tables, requests, queues, runs, history
<1>20. ASSUME NEW w \in Workers, ListChunks(w) PROVE Charging
  BY <1>20, TaskIsJob DEF TypeOK, ChargeInv, Charging, ListChunks, At, Kind, Doc, Goto, tables,
     requests, queues, runs, history
<1>21. ASSUME NEW w \in Workers, EmbedChunk(w) PROVE Charging
  BY <1>21, TaskIsJob DEF TypeOK, ChargeInv, Charging, EmbedChunk, At, Kind, Doc, Fills, tables,
     requests, queues, runs, history
<1>22. ASSUME NEW w \in Workers, BecomeReady(w) PROVE Charging
  BY <1>22, TaskIsJob DEF TypeOK, ChargeInv, Charging, BecomeReady, At, Kind, Doc, Goto,
     SetStatus, tables, requests, queues, runs, history
<1>23. ASSUME NEW w \in Workers, Complete(w) PROVE Charging
  BY <1>23, TaskIsJob DEF TypeOK, ChargeInv, Charging, Complete, Kind, Over, tables, requests,
     queues, runs, history
<1>24. ASSUME NEW w \in Workers, Throw(w) PROVE Charging
  BY <1>24, TaskIsJob DEF TypeOK, ChargeInv, Charging, Throw, Kind, Doc, Over, Limit, Jobs, Kinds,
     tables, requests, queues, runs, history
<1>25. ASSUME NEW w \in Workers, NEW j \in Jobs, Take(w, j) PROVE Charging
  BY <1>25 DEF TypeOK, ChargeInv, Charging, Take, Goto, tables, requests, queues, runs, history
<1>26. ASSUME NEW j \in Jobs, Stall(j) PROVE Charging
  BY <1>26 DEF TypeOK, ChargeInv, Charging, Stall, Jobs, tables, requests, queues, runs, history
<1>27. ASSUME NEW j \in Jobs, Recover(j) PROVE Charging
  BY <1>27 DEF TypeOK, ChargeInv, Charging, Recover, tables, requests, queues, runs, history
<1>28. CASE Crash
  BY <1>28, TaskIsJob DEF TypeOK, ChargeInv, Charging, Crash, AtRest, Doc, tables, requests,
     queues, runs, history
<1>29. CASE UNCHANGED vars
  BY <1>29 DEF TypeOK, ChargeInv, Charging, vars, tables, requests, queues, runs, history
<1>30. QED
  BY <1>1, <1>2, <1>3, <1>4, <1>5, <1>6, <1>7, <1>8, <1>9, <1>10, <1>11, <1>12, <1>13, <1>14,
     <1>15, <1>16, <1>17, <1>18, <1>19, <1>20, <1>21, <1>22, <1>23, <1>24, <1>25, <1>26, <1>27,
     <1>28, <1>29 DEF Next, RequestStep, UploadStep, RemovalStep, WorkerStep

\* Every chunk that is filled is charged, once and by the step that fills it, for any
\* number of workers that meet on a document.
THEOREM ChargedOncePerChunk == Spec => ChargedWhenFilled
<1>1. Init => ChargeInv
  BY DEF Init, ChargeInv
<1>2. Charging => [Charging]_vars
  OBVIOUS
<1>3. Spec => [][Charging]_vars
  BY <1>1, <1>2, ChargeKept, StepCharges, PipelineInvHolds, PTL DEF Spec
<1>4. QED
  BY <1>3 DEF Charging, ChargedWhenFilled

(***************************************************************************)
(* Nothing is forgotten.                                                   *)
(***************************************************************************)

\* A run holds the lock on its job, unless the job was taken from it; a document is
\* marked before it is queued, queued once before its chunks are replaced again, and in
\* progress, failed or gone while its chunks are being embedded.
RunsInv ==
  /\ \A w \in Workers : task[w] # NoTask /\ Doc(w) \notin overrun => holder[task[w]] = w
  /\ \A d \in Docs : job[<<"embed", d>>] # "finished"
  /\ \A d \in Docs : upload[d] \notin {"queueing", "over"} => status[d] = "absent"
  /\ \A d \in queued : status[d] # "uploaded"
  /\ \A w \in Workers :
       task[w] # NoTask /\ Kind(w) = "process" /\ pc[w] \notin {"load", "mark", "finish"} =>
         status[Doc(w)] # "uploaded"
  /\ \A w \in Workers :
       task[w] # NoTask /\ Kind(w) = "process" /\ pc[w] \in {"bump", "queue"} /\ Doc(w) \notin Disturbed =>
         Doc(w) \notin queued
  /\ \A w \in Workers :
       task[w] # NoTask /\ Kind(w) = "embed" /\ pc[w] \in {"list", "embed"} /\ Doc(w) \notin Disturbed =>
         status[Doc(w)] \in {"processing", "failed", "absent"}

\* The run has nothing left to do for the document.
Concluded(w) == pc[w] = "finish" \/ (Kind(w) = "embed" /\ pc[w] = "bump")

\* There is a job on the document whose run, if it has one, has something left to do.
Pursued(kind, d) ==
  /\ job[<<kind, d>>] \in {"waiting", "active"}
  /\ \A w \in Workers : task[w] = <<kind, d>> => ~Concluded(w)

InHand ==
  \A d \in Docs :
    status[d] \in {"uploaded", "processing"} /\ upload[d] = "over" /\ d \notin Disturbed =>
      d \in failing \/ \E kind \in Kinds : Pursued(kind, d)

\* A row that is still there owes the cache a bump, or a removal is about to give it.
StaleHasCause ==
  cache = "stale" =>
    \/ \E w \in Workers : task[w] # NoTask /\ pc[w] = "bump" /\ status[Doc(w)] # "absent"
    \/ \E d \in Docs : \/ removal[d] = "announcing"
                       \/ status[d] \in {"processing", "failed"}
                       \/ d \in failing /\ status[d] # "absent"
                       \/ d \in Disturbed

ForgetInv == RunsInv /\ InHand /\ StaleHasCause

\* Every step keeps what a run's place says of its document.
LEMMA RunsKept == PipelineInv /\ RunsInv /\ [Next]_vars => RunsInv'
<1> SUFFICES ASSUME PipelineInv, RunsInv, [Next]_vars PROVE RunsInv'
  OBVIOUS
<1> USE PipelineAssumption DEF PipelineInv
<1>1. ASSUME NEW d \in Docs, Upload(d) PROVE RunsInv'
  BY <1>1, TaskIsJob DEF RunsInv, TypeOK, QueueInv, ChunksInv, Disturbed, Jobs, Kinds, Kind,
     Doc, Upload, Uploading, tables, requests, queues, runs, history
<1>2. ASSUME NEW d \in Docs, SaveFile(d) PROVE RunsInv'
  BY <1>2, TaskIsJob DEF RunsInv, TypeOK, QueueInv, ChunksInv, Disturbed, Jobs, Kinds, Kind,
     Doc, SaveFile, Uploading, tables, requests, queues, runs, history
<1>3. ASSUME NEW d \in Docs, InsertRow(d) PROVE RunsInv'
  BY <1>3, TaskIsJob DEF RunsInv, TypeOK, QueueInv, ChunksInv, Disturbed, Jobs, Kinds, Kind,
     Doc, InsertRow, Uploading, tables, requests, queues, runs, history
<1>4. ASSUME NEW d \in Docs, InsertRefused(d) PROVE RunsInv'
  BY <1>4, TaskIsJob DEF RunsInv, TypeOK, QueueInv, ChunksInv, Disturbed, Jobs, Kinds, Kind,
     Doc, InsertRefused, Uploading, tables, requests, queues, runs, history
<1>5. ASSUME NEW d \in Docs, CleanUp(d) PROVE RunsInv'
  BY <1>5, TaskIsJob DEF RunsInv, TypeOK, QueueInv, ChunksInv, Disturbed, Jobs, Kinds, Kind,
     Doc, CleanUp, Uploading, tables, requests, queues, runs, history
<1>6. ASSUME NEW d \in Docs, Enqueue(d) PROVE RunsInv'
  BY <1>6, TaskIsJob DEF RunsInv, TypeOK, QueueInv, ChunksInv, Disturbed, Jobs, Kinds, Kind,
     Doc, Enqueue, Uploading, tables, requests, queues, runs, history
<1>7. ASSUME NEW d \in Docs, Remove(d) PROVE RunsInv'
  BY <1>7 DEF RunsInv, Disturbed, Jobs, Kinds, Kind, Doc, Remove, Removing, tables, requests,
     queues, runs, history
<1>8. ASSUME NEW d \in Docs, DeleteFile(d) PROVE RunsInv'
  BY <1>8 DEF RunsInv, Disturbed, Jobs, Kinds, Kind, Doc, DeleteFile, Removing, tables,
     requests, queues, runs, history
<1>9. ASSUME NEW d \in Docs, DeleteRow(d) PROVE RunsInv'
  BY <1>9, TaskIsJob DEF RunsInv, TypeOK, QueueInv, ChunksInv, Disturbed, Jobs, Kinds, Kind,
     Doc, DeleteRow, Removing, tables, requests, queues, runs, history
<1>10. ASSUME NEW d \in Docs, BumpAfterRemoval(d) PROVE RunsInv'
  BY <1>10 DEF RunsInv, Disturbed, Jobs, Kinds, Kind, Doc, BumpAfterRemoval, Removing, tables,
     requests, queues, runs, history
<1>11. ASSUME NEW d \in Docs, RequestThrows(d) PROVE RunsInv'
  BY <1>11, TaskIsJob DEF RunsInv, TypeOK, QueueInv, ChunksInv, Disturbed, Jobs, Kinds, Kind,
     Doc, RequestThrows, Uploading, Removing, tables, requests, queues, runs, history
<1>12. ASSUME NEW d \in Docs, OnFailed(d) PROVE RunsInv'
  BY <1>12, TaskIsJob DEF RunsInv, TypeOK, QueueInv, ChunksInv, Disturbed, Jobs, Kinds, Kind,
     Doc, OnFailed, SetStatus, tables, requests, queues, runs, history
<1>13. ASSUME NEW w \in Workers, Load(w) PROVE RunsInv'
  BY <1>13, TaskIsJob DEF RunsInv, TypeOK, QueueInv, ChunksInv, Disturbed, Jobs, Kinds, Kind,
     Doc, Load, Goto, tables, requests, queues, runs, history
<1>14. ASSUME NEW w \in Workers, Mark(w) PROVE RunsInv'
  BY <1>14, TaskIsJob DEF RunsInv, TypeOK, QueueInv, ChunksInv, Disturbed, Jobs, Kinds, Kind,
     Doc, Mark, At, Goto, SetStatus, tables, requests, queues, runs, history
<1>15. ASSUME NEW w \in Workers, ReadFile(w) PROVE RunsInv'
  <2>1. /\ UNCHANGED <<status, upload, job, holder, task, queued, overrun, late, cutShort>>
        /\ \A v \in Workers : v # w => pc'[v] = pc[v]
        /\ task[w] # NoTask /\ Kind(w) = "process" /\ pc[w] = "read" /\ pc'[w] \in {"replace", "reject"}
    BY <1>15 DEF TypeOK, ReadFile, At, Goto, tables, requests, queues, history
  <2> QED
    BY <2>1 DEF RunsInv, Disturbed, Kind, Doc
<1>16. ASSUME NEW w \in Workers, RejectEmpty(w) PROVE RunsInv'
  BY <1>16, TaskIsJob DEF RunsInv, TypeOK, QueueInv, ChunksInv, Disturbed, Jobs, Kinds, Kind,
     Doc, RejectEmpty, At, Goto, SetStatus, tables, requests, queues, runs, history
<1>17. ASSUME NEW w \in Workers, ReplaceChunks(w) PROVE RunsInv'
  BY <1>17, TaskIsJob DEF RunsInv, TypeOK, QueueInv, ChunksInv, Disturbed, Jobs, Kinds, Kind,
     Doc, ReplaceChunks, At, Goto, tables, requests, queues, runs, history
<1>18. ASSUME NEW w \in Workers, Bump(w) PROVE RunsInv'
  BY <1>18, TaskIsJob DEF RunsInv, TypeOK, QueueInv, ChunksInv, Disturbed, Jobs, Kinds, Kind,
     Doc, Bump, Goto, tables, requests, queues, runs, history
<1>19. ASSUME NEW w \in Workers, QueueEmbedding(w) PROVE RunsInv'
  <2>1. /\ UNCHANGED <<status, upload, holder, task, overrun, late, cutShort>>
        /\ \A v \in Workers : v # w => pc'[v] = pc[v]
        /\ task[w] # NoTask /\ Kind(w) = "process" /\ pc[w] = "queue" /\ pc'[w] = "finish"
        /\ queued' = queued \cup {Doc(w)}
        /\ \A d \in Docs : job[<<"embed", d>>] # "finished" => job'[<<"embed", d>>] # "finished"
    BY <1>19 DEF TypeOK, QueueEmbedding, At, Goto, Jobs, Kinds, tables, requests, runs
  <2>2. \A v \in Workers : task[v] # NoTask /\ Kind(v) = "process" /\ Doc(v) = Doc(w)
                             /\ Doc(v) \notin overrun => v = w
    BY <2>1, TaskIsJob DEF RunsInv
  <2>3. Doc(w) \in Docs /\ status[Doc(w)] # "uploaded"
    BY <2>1, TaskIsJob DEF RunsInv
  <2> QED
    BY <2>1, <2>2, <2>3 DEF RunsInv, Disturbed, Kind, Doc
<1>20. ASSUME NEW w \in Workers, ListChunks(w) PROVE RunsInv'
  BY <1>20, TaskIsJob DEF RunsInv, TypeOK, QueueInv, ChunksInv, Disturbed, Jobs, Kinds, Kind,
     Doc, ListChunks, At, Goto, tables, requests, queues, runs, history
<1>21. ASSUME NEW w \in Workers, EmbedChunk(w) PROVE RunsInv'
  BY <1>21 DEF RunsInv, Disturbed, Jobs, Kinds, Kind, Doc, EmbedChunk, At, Fills, tables,
     requests, queues, runs, history
<1>22. ASSUME NEW w \in Workers, BecomeReady(w) PROVE RunsInv'
  <2>1. /\ UNCHANGED <<upload, job, holder, task, queued, overrun, late, cutShort>>
        /\ \A v \in Workers : v # w => pc'[v] = pc[v]
        /\ task[w] # NoTask /\ Kind(w) = "embed" /\ pc[w] = "embed" /\ pc'[w] = "bump"
        /\ \A d \in Docs : status'[d] = status[d] \/ (d = Doc(w) /\ status'[d] = "ready" /\ status[d] # "absent")
    BY <1>22 DEF TypeOK, BecomeReady, At, Goto, SetStatus, requests, queues, history
  <2>2. \A v \in Workers : task[v] # NoTask /\ Kind(v) = "embed" /\ Doc(v) = Doc(w)
                             /\ Doc(v) \notin overrun => v = w
    BY <2>1, TaskIsJob DEF RunsInv
  <2>3. \A v \in Workers : task[v] # NoTask => Doc(v) \in Docs
    BY TaskIsJob
  <2>4. queued \subseteq Docs
    BY DEF TypeOK
  <2> QED
    BY <2>1, <2>2, <2>3, <2>4 DEF RunsInv, Disturbed, Kind, Doc
<1>23. ASSUME NEW w \in Workers, Complete(w) PROVE RunsInv'
  BY <1>23, TaskIsJob DEF RunsInv, TypeOK, QueueInv, ChunksInv, Disturbed, Jobs, Kinds, Kind,
     Doc, Complete, Over, tables, requests, queues, runs, history
<1>24. ASSUME NEW w \in Workers, Throw(w) PROVE RunsInv'
  BY <1>24, TaskIsJob DEF RunsInv, TypeOK, QueueInv, ChunksInv, Disturbed, Jobs, Kinds, Kind,
     Doc, Throw, Over, Limit, tables, requests, queues, runs, history
<1>25. ASSUME NEW w \in Workers, NEW j \in Jobs, Take(w, j) PROVE RunsInv'
  BY <1>25, TaskIsJob DEF RunsInv, TypeOK, QueueInv, ChunksInv, Disturbed, Jobs, Kinds, Kind,
     Doc, Take, Goto, tables, requests, queues, runs, history
<1>26. ASSUME NEW j \in Jobs, Stall(j) PROVE RunsInv'
  BY <1>26, TaskIsJob DEF RunsInv, TypeOK, QueueInv, ChunksInv, Disturbed, Jobs, Kinds, Kind,
     Doc, Stall, tables, requests, queues, runs, history
<1>27. ASSUME NEW j \in Jobs, Recover(j) PROVE RunsInv'
  BY <1>27, TaskIsJob DEF RunsInv, TypeOK, QueueInv, ChunksInv, Disturbed, Jobs, Kinds, Kind,
     Doc, Recover, tables, requests, queues, runs, history
<1>28. CASE Crash
  BY <1>28, TaskIsJob DEF RunsInv, TypeOK, QueueInv, ChunksInv, Disturbed, Jobs, Kinds, Kind,
     Doc, Crash, AtRest, tables, requests, queues, runs, history
<1>29. CASE UNCHANGED vars
  BY <1>29 DEF RunsInv, Disturbed, Jobs, Kinds, Kind, Doc, vars, tables, requests, queues,
     runs, history
<1>30. QED
  BY <1>1, <1>2, <1>3, <1>4, <1>5, <1>6, <1>7, <1>8, <1>9, <1>10, <1>11, <1>12, <1>13, <1>14,
     <1>15, <1>16, <1>17, <1>18, <1>19, <1>20, <1>21, <1>22, <1>23, <1>24, <1>25, <1>26, <1>27,
     <1>28, <1>29 DEF Next, RequestStep, UploadStep, RemovalStep, WorkerStep

\* Every step leaves a document in progress in hand.
LEMMA InHandKept == PipelineInv /\ RunsInv /\ InHand /\ [Next]_vars => InHand'
<1> SUFFICES ASSUME PipelineInv, RunsInv, InHand, [Next]_vars PROVE InHand'
  OBVIOUS
<1> USE PipelineAssumption DEF PipelineInv
<1>1. ASSUME NEW d \in Docs, Upload(d) PROVE InHand'
  BY <1>1, TaskIsJob DEF InHand, RunsInv, TypeOK, QueueInv, ChunksInv, Disturbed, Pursued,
     Concluded, Jobs, Kinds, Kind, Doc, Upload, Uploading, tables, requests, queues, runs,
     history
<1>2. ASSUME NEW d \in Docs, SaveFile(d) PROVE InHand'
  BY <1>2, TaskIsJob DEF InHand, RunsInv, TypeOK, QueueInv, ChunksInv, Disturbed, Pursued,
     Concluded, Jobs, Kinds, Kind, Doc, SaveFile, Uploading, tables, requests, queues, runs,
     history
<1>3. ASSUME NEW d \in Docs, InsertRow(d) PROVE InHand'
  BY <1>3, TaskIsJob DEF InHand, RunsInv, TypeOK, QueueInv, ChunksInv, Disturbed, Pursued,
     Concluded, Jobs, Kinds, Kind, Doc, InsertRow, Uploading, tables, requests, queues, runs,
     history
<1>4. ASSUME NEW d \in Docs, InsertRefused(d) PROVE InHand'
  BY <1>4, TaskIsJob DEF InHand, RunsInv, TypeOK, QueueInv, ChunksInv, Disturbed, Pursued,
     Concluded, Jobs, Kinds, Kind, Doc, InsertRefused, Uploading, tables, requests, queues, runs,
     history
<1>5. ASSUME NEW d \in Docs, CleanUp(d) PROVE InHand'
  BY <1>5, TaskIsJob DEF InHand, RunsInv, TypeOK, QueueInv, ChunksInv, Disturbed, Pursued,
     Concluded, Jobs, Kinds, Kind, Doc, CleanUp, Uploading, tables, requests, queues, runs,
     history
<1>6. ASSUME NEW d \in Docs, Enqueue(d) PROVE InHand'
  BY <1>6, TaskIsJob DEF InHand, RunsInv, TypeOK, QueueInv, ChunksInv, Disturbed, Pursued,
     Concluded, Jobs, Kinds, Kind, Doc, Enqueue, Uploading, tables, requests, queues, runs,
     history
<1>7. ASSUME NEW d \in Docs, Remove(d) PROVE InHand'
  BY <1>7 DEF InHand, Disturbed, Pursued, Concluded, Jobs, Kinds, Kind, Doc, Remove, Removing,
     tables, requests, queues, runs, history
<1>8. ASSUME NEW d \in Docs, DeleteFile(d) PROVE InHand'
  BY <1>8 DEF InHand, Disturbed, Pursued, Concluded, Jobs, Kinds, Kind, Doc, DeleteFile,
     Removing, tables, requests, queues, runs, history
<1>9. ASSUME NEW d \in Docs, DeleteRow(d) PROVE InHand'
  BY <1>9, TaskIsJob DEF InHand, RunsInv, TypeOK, QueueInv, ChunksInv, Disturbed, Pursued,
     Concluded, Jobs, Kinds, Kind, Doc, DeleteRow, Removing, tables, requests, queues, runs,
     history
<1>10. ASSUME NEW d \in Docs, BumpAfterRemoval(d) PROVE InHand'
  BY <1>10 DEF InHand, Disturbed, Pursued, Concluded, Jobs, Kinds, Kind, Doc,
     BumpAfterRemoval, Removing, tables, requests, queues, runs, history
<1>11. ASSUME NEW d \in Docs, RequestThrows(d) PROVE InHand'
  BY <1>11, TaskIsJob DEF InHand, RunsInv, TypeOK, QueueInv, ChunksInv, Disturbed, Pursued,
     Concluded, Jobs, Kinds, Kind, Doc, RequestThrows, Uploading, Removing, tables, requests,
     queues, runs, history
<1>12. ASSUME NEW d \in Docs, OnFailed(d) PROVE InHand'
  BY <1>12, TaskIsJob DEF InHand, RunsInv, TypeOK, QueueInv, ChunksInv, Disturbed, Pursued,
     Concluded, Jobs, Kinds, Kind, Doc, OnFailed, SetStatus, tables, requests, queues, runs,
     history
<1>13. ASSUME NEW w \in Workers, Load(w) PROVE InHand'
  BY <1>13, TaskIsJob DEF InHand, RunsInv, TypeOK, QueueInv, ChunksInv, Disturbed, Pursued,
     Concluded, Jobs, Kinds, Kind, Doc, Load, Goto, tables, requests, queues, runs, history
<1>14. ASSUME NEW w \in Workers, Mark(w) PROVE InHand'
  <2>1. /\ UNCHANGED <<upload, job, holder, task, failing, overrun, late, cutShort>>
        /\ \A v \in Workers : v # w => pc'[v] = pc[v]
        /\ task[w] # NoTask /\ Kind(w) = "process" /\ pc'[w] = "read"
        /\ \A d \in Docs : status'[d] = status[d] \/ d = Doc(w)
    BY <1>14 DEF TypeOK, Mark, At, Goto, SetStatus, requests, queues, history
  <2>2. ASSUME Doc(w) \notin overrun
        PROVE  /\ job[<<"process", Doc(w)>>] = "active"
               /\ \A v \in Workers : task[v] = <<"process", Doc(w)>> => v = w
    <3>1. task[w] \in Jobs /\ task[w] = <<"process", Doc(w)>> /\ holder[task[w]] = w
      BY <2>1, <2>2, TaskIsJob DEF RunsInv
    <3>2. job[task[w]] = "active"
      BY <3>1, PipelineAssumption DEF QueueInv
    <3>3. \A v \in Workers : task[v] = task[w] => holder[task[w]] = v
      BY <2>1, <2>2, <3>1 DEF RunsInv, Doc
    <3> QED
      BY <3>1, <3>2, <3>3
  <2>3. Doc(w) \notin Disturbed => Pursued("process", Doc(w))'
    BY <2>1, <2>2 DEF Pursued, Concluded, Disturbed, Kind, Doc
  <2>4. \A d \in Docs, kind \in Kinds : Pursued(kind, d) => Pursued(kind, d)'
    BY <2>1 DEF Pursued, Concluded, Kind, Kinds
  <2> QED
    BY <2>1, <2>3, <2>4 DEF InHand, Disturbed, Doc, Kinds
<1>15. ASSUME NEW w \in Workers, ReadFile(w) PROVE InHand'
  <2>1. /\ UNCHANGED <<status, upload, job, task, failing, overrun, late, cutShort>>
        /\ \A v \in Workers : v # w => pc'[v] = pc[v]
        /\ Kind(w) = "process" /\ pc'[w] \in {"replace", "reject"}
    BY <1>15 DEF TypeOK, ReadFile, At, Goto, tables, requests, queues, history
  <2>2. \A d \in Docs, kind \in Kinds : Pursued(kind, d) => Pursued(kind, d)'
    BY <2>1 DEF Pursued, Concluded, Kind, Kinds
  <2> QED
    BY <2>1, <2>2 DEF InHand, Disturbed
<1>16. ASSUME NEW w \in Workers, RejectEmpty(w) PROVE InHand'
  BY <1>16, TaskIsJob DEF InHand, RunsInv, TypeOK, QueueInv, ChunksInv, Disturbed, Pursued,
     Concluded, Jobs, Kinds, Kind, Doc, RejectEmpty, At, Goto, SetStatus, tables, requests,
     queues, runs, history
<1>17. ASSUME NEW w \in Workers, ReplaceChunks(w) PROVE InHand'
  BY <1>17, TaskIsJob DEF InHand, RunsInv, TypeOK, QueueInv, ChunksInv, Disturbed, Pursued,
     Concluded, Jobs, Kinds, Kind, Doc, ReplaceChunks, At, Goto, tables, requests, queues, runs,
     history
<1>18. ASSUME NEW w \in Workers, Bump(w) PROVE InHand'
  BY <1>18, TaskIsJob DEF InHand, RunsInv, TypeOK, QueueInv, ChunksInv, Disturbed, Pursued,
     Concluded, Jobs, Kinds, Kind, Doc, Bump, Goto, tables, requests, queues, runs, history
<1>19. ASSUME NEW w \in Workers, QueueEmbedding(w) PROVE InHand'
  BY <1>19, TaskIsJob DEF InHand, RunsInv, TypeOK, QueueInv, ChunksInv, Disturbed, Pursued,
     Concluded, Jobs, Kinds, Kind, Doc, QueueEmbedding, At, Goto, tables, requests, queues, runs,
     history
<1>20. ASSUME NEW w \in Workers, ListChunks(w) PROVE InHand'
  BY <1>20, TaskIsJob DEF InHand, RunsInv, TypeOK, QueueInv, ChunksInv, Disturbed, Pursued,
     Concluded, Jobs, Kinds, Kind, Doc, ListChunks, At, Goto, tables, requests, queues, runs,
     history
<1>21. ASSUME NEW w \in Workers, EmbedChunk(w) PROVE InHand'
  BY <1>21 DEF InHand, Disturbed, Pursued, Concluded, Jobs, Kinds, Kind, Doc, EmbedChunk, At,
     Fills, tables, requests, queues, runs, history
<1>22. ASSUME NEW w \in Workers, BecomeReady(w) PROVE InHand'
  BY <1>22, TaskIsJob DEF InHand, RunsInv, TypeOK, QueueInv, ChunksInv, Disturbed, Pursued,
     Concluded, Jobs, Kinds, Kind, Doc, BecomeReady, At, Goto, SetStatus, tables, requests,
     queues, runs, history
<1>23. ASSUME NEW w \in Workers, Complete(w) PROVE InHand'
  <2>1. /\ UNCHANGED <<status, upload, pc, failing, overrun, late, cutShort>>
        /\ task[w] \in Jobs /\ task[w] = <<Kind(w), Doc(w)>> /\ Concluded(w)
        /\ \A j \in Jobs : j # task[w] => job'[j] = job[j]
        /\ task' = [task EXCEPT ![w] = NoTask]
    BY <1>23, TaskIsJob DEF TypeOK, Complete, Concluded, tables, requests, history
  <2>2. ASSUME NEW d \in Docs, NEW kind \in Kinds, Pursued(kind, d)
        PROVE  Pursued(kind, d)'
    <3>1. task[w] # <<kind, d>>
      BY <2>1, <2>2 DEF Pursued
    <3>2. job'[<<kind, d>>] = job[<<kind, d>>]
      BY <2>1, <3>1 DEF Jobs
    <3>3. \A v \in Workers : task'[v] = <<kind, d>> => task[v] = <<kind, d>> /\ v # w
      BY <2>1, <3>1, PipelineAssumption DEF TypeOK, Jobs
    <3> QED
      BY <2>1, <2>2, <3>2, <3>3 DEF Pursued, Concluded, Kind
  <2> QED
    BY <2>1, <2>2 DEF InHand, Disturbed
<1>24. ASSUME NEW w \in Workers, Throw(w) PROVE InHand'
  <2>1. /\ UNCHANGED <<status, upload, pc, overrun, late, cutShort>>
        /\ task[w] \in Jobs /\ task[w] = <<Kind(w), Doc(w)>> /\ Doc(w) \in Docs /\ Kind(w) \in Kinds
        /\ \A j \in Jobs : j # task[w] => job'[j] = job[j]
        /\ task' = [task EXCEPT ![w] = NoTask]
        /\ failing \subseteq failing'
    BY <1>24, TaskIsJob DEF TypeOK, Throw, tables, requests, history
  <2>2. \A v \in Workers : v # w => task'[v] = task[v]
    BY <2>1 DEF TypeOK
  <2>3. task'[w] = NoTask
    BY <2>1 DEF TypeOK
  <2>4. ASSUME NEW d \in Docs, NEW kind \in Kinds, Pursued(kind, d), task[w] # <<kind, d>>
        PROVE  Pursued(kind, d)'
    <3>1. job'[<<kind, d>>] = job[<<kind, d>>]
      BY <2>1, <2>4 DEF Jobs
    <3>2. \A v \in Workers : task'[v] = <<kind, d>> => task[v] = <<kind, d>> /\ v # w
      BY <2>2, <2>3, PipelineAssumption DEF Jobs
    <3> QED
      BY <2>1, <2>4, <3>1, <3>2 DEF Pursued, Concluded, Kind
  <2>5. ASSUME NEW d \in Docs, NEW kind \in Kinds, task[w] = <<kind, d>>, d \notin overrun
        PROVE  d \in failing' \/ Pursued(kind, d)'
    <3>1. holder[task[w]] = w /\ Doc(w) = d
      BY <1>24, <2>5 DEF RunsInv, Throw, Doc
    <3>2. d \in failing' \/ job'[task[w]] = "waiting"
      BY <1>24, <3>1, <2>1 DEF Throw, TypeOK
    <3>3. \A v \in Workers : task'[v] # task[w]
      <4>1. \A v \in Workers : task[v] = task[w] => holder[task[w]] = v
        BY <1>24, <2>5 DEF RunsInv, Doc, Throw
      <4> QED
        BY <4>1, <3>1, <2>1, <2>2, <2>3, PipelineAssumption
    <3> QED
      BY <3>2, <3>3, <2>5 DEF Pursued
  <2>6. \A d \in Docs : d \notin Disturbed /\ (d \in failing \/ \E kind \in Kinds : Pursued(kind, d)) =>
          d \in failing' \/ \E kind \in Kinds : Pursued(kind, d)'
    <3> SUFFICES ASSUME NEW d \in Docs, d \notin Disturbed, d \notin failing,
                        NEW kind \in Kinds, Pursued(kind, d)
                 PROVE  d \in failing' \/ \E k \in Kinds : Pursued(k, d)'
      BY <2>1
    <3>1. CASE task[w] # <<kind, d>>
      BY <3>1, <2>4
    <3>2. CASE task[w] = <<kind, d>>
      BY <3>2, <2>5 DEF Disturbed
    <3> QED
      BY <3>1, <3>2
  <2> QED
    BY <2>1, <2>6 DEF InHand, Disturbed
<1>25. ASSUME NEW w \in Workers, NEW j \in Jobs, Take(w, j) PROVE InHand'
  <2>1. /\ UNCHANGED <<status, upload, failing, overrun, late, cutShort>>
        /\ job' = [job EXCEPT ![j] = "active"] /\ job[j] = "waiting"
        /\ task'[w] = j /\ pc'[w] = "load"
        /\ \A v \in Workers : v # w => task'[v] = task[v] /\ pc'[v] = pc[v]
    BY <1>25 DEF TypeOK, Take, Goto, tables, requests, history
  <2>2. ASSUME NEW d \in Docs, NEW kind \in Kinds, Pursued(kind, d)
        PROVE  Pursued(kind, d)'
    <3>1. job'[<<kind, d>>] \in {"waiting", "active"}
      BY <2>1, <2>2 DEF Pursued, Jobs, TypeOK
    <3>2. ASSUME NEW v \in Workers, task'[v] = <<kind, d>>
          PROVE  ~Concluded(v)'
      <4>1. CASE v = w
        BY <4>1, <2>1 DEF Concluded
      <4>2. CASE v # w
        BY <4>2, <3>2, <2>1, <2>2 DEF Pursued, Concluded, Kind
      <4> QED
        BY <4>1, <4>2
    <3> QED
      BY <3>1, <3>2 DEF Pursued
  <2> QED
    BY <2>1, <2>2 DEF InHand, Disturbed
<1>26. ASSUME NEW j \in Jobs, Stall(j) PROVE InHand'
  BY <1>26, TaskIsJob DEF InHand, RunsInv, TypeOK, QueueInv, ChunksInv, Disturbed, Pursued,
     Concluded, Jobs, Kinds, Kind, Doc, Stall, tables, requests, queues, runs, history
<1>27. ASSUME NEW j \in Jobs, Recover(j) PROVE InHand'
  BY <1>27, TaskIsJob DEF InHand, RunsInv, TypeOK, QueueInv, ChunksInv, Disturbed, Pursued,
     Concluded, Jobs, Kinds, Kind, Doc, Recover, tables, requests, queues, runs, history
<1>28. CASE Crash
  BY <1>28, TaskIsJob DEF InHand, RunsInv, TypeOK, QueueInv, ChunksInv, Disturbed, Pursued,
     Concluded, Jobs, Kinds, Kind, Doc, Crash, AtRest, tables, requests, queues, runs, history
<1>29. CASE UNCHANGED vars
  BY <1>29 DEF InHand, Disturbed, Pursued, Concluded, Jobs, Kinds, Kind, Doc, vars, tables,
     requests, queues, runs, history
<1>30. QED
  BY <1>1, <1>2, <1>3, <1>4, <1>5, <1>6, <1>7, <1>8, <1>9, <1>10, <1>11, <1>12, <1>13, <1>14,
     <1>15, <1>16, <1>17, <1>18, <1>19, <1>20, <1>21, <1>22, <1>23, <1>24, <1>25, <1>26, <1>27,
     <1>28, <1>29 DEF Next, RequestStep, UploadStep, RemovalStep, WorkerStep

\* Every step keeps a cause for a stale cache.
LEMMA CauseKept == PipelineInv /\ RunsInv /\ StaleHasCause /\ [Next]_vars => StaleHasCause'
<1> SUFFICES ASSUME PipelineInv, RunsInv, StaleHasCause, [Next]_vars PROVE StaleHasCause'
  OBVIOUS
<1> USE PipelineAssumption DEF PipelineInv
<1>1. ASSUME NEW d \in Docs, Upload(d) PROVE StaleHasCause'
  BY <1>1 DEF StaleHasCause, Disturbed, Kinds, Kind, Doc, Upload, Uploading, tables, requests,
     queues, runs, history
<1>2. ASSUME NEW d \in Docs, SaveFile(d) PROVE StaleHasCause'
  BY <1>2 DEF StaleHasCause, Disturbed, Kinds, Kind, Doc, SaveFile, Uploading, tables,
     requests, queues, runs, history
<1>3. ASSUME NEW d \in Docs, InsertRow(d) PROVE StaleHasCause'
  <2>1. /\ UNCHANGED <<cache, task, pc, removal, failing, overrun, late, cutShort>>
        /\ upload[d] = "inserting" /\ status' = [status EXCEPT ![d] = "uploaded"]
    BY <1>3 DEF InsertRow, Uploading, runs, history
  <2>2. status[d] = "absent" /\ \A e \in Docs : status[e] # "absent" => status'[e] = status[e]
    BY <2>1 DEF RunsInv, TypeOK
  <2>3. \A v \in Workers : task[v] # NoTask => Doc(v) \in Docs
    BY TaskIsJob
  <2> QED
    BY <2>1, <2>2, <2>3 DEF StaleHasCause, Disturbed, Doc
<1>4. ASSUME NEW d \in Docs, InsertRefused(d) PROVE StaleHasCause'
  BY <1>4 DEF StaleHasCause, Disturbed, Kinds, Kind, Doc, InsertRefused, Uploading, tables,
     requests, queues, runs, history
<1>5. ASSUME NEW d \in Docs, CleanUp(d) PROVE StaleHasCause'
  BY <1>5 DEF StaleHasCause, Disturbed, Kinds, Kind, Doc, CleanUp, Uploading, tables,
     requests, queues, runs, history
<1>6. ASSUME NEW d \in Docs, Enqueue(d) PROVE StaleHasCause'
  BY <1>6 DEF StaleHasCause, Disturbed, Kinds, Kind, Doc, Enqueue, Uploading, tables,
     requests, queues, runs, history
<1>7. ASSUME NEW d \in Docs, Remove(d) PROVE StaleHasCause'
  BY <1>7, TaskIsJob DEF StaleHasCause, RunsInv, TypeOK, QueueInv, ChunksInv, Disturbed,
     Kinds, Kind, Doc, Remove, Removing, tables, requests, queues, runs, history
<1>8. ASSUME NEW d \in Docs, DeleteFile(d) PROVE StaleHasCause'
  BY <1>8, TaskIsJob DEF StaleHasCause, RunsInv, TypeOK, QueueInv, ChunksInv, Disturbed,
     Kinds, Kind, Doc, DeleteFile, Removing, tables, requests, queues, runs, history
<1>9. ASSUME NEW d \in Docs, DeleteRow(d) PROVE StaleHasCause'
  BY <1>9, TaskIsJob DEF StaleHasCause, RunsInv, TypeOK, QueueInv, ChunksInv, Disturbed,
     Kinds, Kind, Doc, DeleteRow, Removing, tables, requests, queues, runs, history
<1>10. ASSUME NEW d \in Docs, BumpAfterRemoval(d) PROVE StaleHasCause'
  BY <1>10, TaskIsJob DEF StaleHasCause, RunsInv, TypeOK, QueueInv, ChunksInv, Disturbed,
     Kinds, Kind, Doc, BumpAfterRemoval, Removing, tables, requests, queues, runs, history
<1>11. ASSUME NEW d \in Docs, RequestThrows(d) PROVE StaleHasCause'
  BY <1>11, TaskIsJob DEF StaleHasCause, RunsInv, TypeOK, QueueInv, ChunksInv, Disturbed,
     Kinds, Kind, Doc, RequestThrows, Uploading, Removing, tables, requests, queues, runs,
     history
<1>12. ASSUME NEW d \in Docs, OnFailed(d) PROVE StaleHasCause'
  BY <1>12, TaskIsJob DEF StaleHasCause, RunsInv, TypeOK, QueueInv, ChunksInv, Disturbed,
     Kinds, Kind, Doc, OnFailed, SetStatus, tables, requests, queues, runs, history
<1>13. ASSUME NEW w \in Workers, Load(w) PROVE StaleHasCause'
  BY <1>13, TaskIsJob DEF StaleHasCause, RunsInv, TypeOK, QueueInv, ChunksInv, Disturbed,
     Kinds, Kind, Doc, Load, Goto, tables, requests, queues, runs, history
<1>14. ASSUME NEW w \in Workers, Mark(w) PROVE StaleHasCause'
  BY <1>14, TaskIsJob DEF StaleHasCause, RunsInv, TypeOK, QueueInv, ChunksInv, Disturbed,
     Kinds, Kind, Doc, Mark, At, Goto, SetStatus, tables, requests, queues, runs, history
<1>15. ASSUME NEW w \in Workers, ReadFile(w) PROVE StaleHasCause'
  BY <1>15, TaskIsJob DEF StaleHasCause, RunsInv, TypeOK, QueueInv, ChunksInv, Disturbed,
     Kinds, Kind, Doc, ReadFile, At, Goto, tables, requests, queues, runs, history
<1>16. ASSUME NEW w \in Workers, RejectEmpty(w) PROVE StaleHasCause'
  BY <1>16, TaskIsJob DEF StaleHasCause, RunsInv, TypeOK, QueueInv, ChunksInv, Disturbed,
     Kinds, Kind, Doc, RejectEmpty, At, Goto, SetStatus, tables, requests, queues, runs, history
<1>17. ASSUME NEW w \in Workers, ReplaceChunks(w) PROVE StaleHasCause'
  BY <1>17, TaskIsJob DEF StaleHasCause, RunsInv, TypeOK, QueueInv, ChunksInv, Disturbed,
     Kinds, Kind, Doc, ReplaceChunks, At, Goto, tables, requests, queues, runs, history
<1>18. ASSUME NEW w \in Workers, Bump(w) PROVE StaleHasCause'
  BY <1>18, TaskIsJob DEF StaleHasCause, RunsInv, TypeOK, QueueInv, ChunksInv, Disturbed,
     Kinds, Kind, Doc, Bump, Goto, tables, requests, queues, runs, history
<1>19. ASSUME NEW w \in Workers, QueueEmbedding(w) PROVE StaleHasCause'
  BY <1>19, TaskIsJob DEF StaleHasCause, RunsInv, TypeOK, QueueInv, ChunksInv, Disturbed,
     Kinds, Kind, Doc, QueueEmbedding, At, Goto, tables, requests, queues, runs, history
<1>20. ASSUME NEW w \in Workers, ListChunks(w) PROVE StaleHasCause'
  BY <1>20, TaskIsJob DEF StaleHasCause, RunsInv, TypeOK, QueueInv, ChunksInv, Disturbed,
     Kinds, Kind, Doc, ListChunks, At, Goto, tables, requests, queues, runs, history
<1>21. ASSUME NEW w \in Workers, EmbedChunk(w) PROVE StaleHasCause'
  BY <1>21, TaskIsJob DEF StaleHasCause, RunsInv, TypeOK, QueueInv, ChunksInv, Disturbed,
     Kinds, Kind, Doc, EmbedChunk, At, Fills, tables, requests, queues, runs, history
<1>22. ASSUME NEW w \in Workers, BecomeReady(w) PROVE StaleHasCause'
  BY <1>22, TaskIsJob DEF StaleHasCause, RunsInv, TypeOK, QueueInv, ChunksInv, Disturbed,
     Kinds, Kind, Doc, BecomeReady, At, Goto, SetStatus, tables, requests, queues, runs, history
<1>23. ASSUME NEW w \in Workers, Complete(w) PROVE StaleHasCause'
  BY <1>23, TaskIsJob DEF StaleHasCause, RunsInv, TypeOK, QueueInv, ChunksInv, Disturbed,
     Kinds, Kind, Doc, Complete, Over, tables, requests, queues, runs, history
<1>24. ASSUME NEW w \in Workers, Throw(w) PROVE StaleHasCause'
  BY <1>24, TaskIsJob DEF StaleHasCause, RunsInv, TypeOK, QueueInv, ChunksInv, Disturbed,
     Kinds, Kind, Doc, Throw, Over, Limit, tables, requests, queues, runs, history
<1>25. ASSUME NEW w \in Workers, NEW j \in Jobs, Take(w, j) PROVE StaleHasCause'
  BY <1>25, TaskIsJob DEF StaleHasCause, RunsInv, TypeOK, QueueInv, ChunksInv, Disturbed,
     Kinds, Kind, Doc, Take, Goto, tables, requests, queues, runs, history
<1>26. ASSUME NEW j \in Jobs, Stall(j) PROVE StaleHasCause'
  BY <1>26, TaskIsJob DEF StaleHasCause, RunsInv, TypeOK, QueueInv, ChunksInv, Disturbed,
     Kinds, Kind, Doc, Stall, tables, requests, queues, runs, history
<1>27. ASSUME NEW j \in Jobs, Recover(j) PROVE StaleHasCause'
  BY <1>27 DEF StaleHasCause, Disturbed, Kinds, Kind, Doc, Recover, tables, requests, queues,
     runs, history
<1>28. CASE Crash
  BY <1>28, TaskIsJob DEF StaleHasCause, RunsInv, TypeOK, QueueInv, ChunksInv, Disturbed,
     Kinds, Kind, Doc, Crash, AtRest, tables, requests, queues, runs, history
<1>29. CASE UNCHANGED vars
  BY <1>29 DEF StaleHasCause, Disturbed, Kinds, Kind, Doc, vars, tables, requests, queues,
     runs, history
<1>30. QED
  BY <1>1, <1>2, <1>3, <1>4, <1>5, <1>6, <1>7, <1>8, <1>9, <1>10, <1>11, <1>12, <1>13, <1>14,
     <1>15, <1>16, <1>17, <1>18, <1>19, <1>20, <1>21, <1>22, <1>23, <1>24, <1>25, <1>26, <1>27,
     <1>28, <1>29 DEF Next, RequestStep, UploadStep, RemovalStep, WorkerStep

\* The invariant of the pipeline and that of what is owed are inductive together.
LEMMA ForgetInvHolds == Spec => [](PipelineInv /\ ForgetInv)
<1>1. Init => ForgetInv
  BY PipelineAssumption DEF Init, ForgetInv, RunsInv, InHand, StaleHasCause, Disturbed, Jobs, Kinds
<1>2. PipelineInv /\ ForgetInv /\ [Next]_vars => ForgetInv'
  BY RunsKept, InHandKept, CauseKept DEF ForgetInv
<1>3. QED
  BY <1>1, <1>2, PipelineInvHolds, PTL DEF Spec

\* No document in progress is without a job or a handler that will see to it, and a stale
\* cache is about to be bumped, but for what a crash, a stall or an error cut short.
THEOREM NothingForgotten == Spec => []NothingIsForgotten
<1>1. PipelineInv /\ RunsInv /\ InHand => NoneForgotten
  <2> SUFFICES ASSUME PipelineInv, RunsInv, InHand, NEW d \in Docs, d \notin Disturbed,
                      status[d] \in {"uploaded", "processing"}, AtRest(d)
               PROVE  AtWork(d)
    BY DEF NoneForgotten
  <2>1. upload[d] = "over"
    BY DEF AtRest, RunsInv
  <2> QED
    BY <2>1 DEF InHand, Pursued, AtWork
<1>2. StaleHasCause => StaleIsExplained
  BY DEF StaleHasCause, StaleIsExplained, Disturbed
<1>3. PipelineInv /\ ForgetInv => NothingIsForgotten
  BY <1>1, <1>2 DEF PipelineInv, ForgetInv, NothingIsForgotten
<1>4. QED
  BY <1>3, ForgetInvHolds, PTL

-----------------------------------------------------------------------------
(* The documents page.  A list of documents goes down in number, and one that *)
(* comes twice is in flight where it comes first; what is settled in it has   *)
(* settled.  An answer that is not old has the documents there are, and so    *)
(* has the page after it, but for an upload or a deletion whose answer is on   *)
(* its way and for what is shown in flight.                                  *)

DocRow == [doc : DocIds, status : InFlight \cup {"settled"}]

GoodRows(rows, lib, n) ==
  /\ rows \in Seq(DocRow)
  /\ \A i \in DOMAIN rows :
       /\ rows[i].doc \in 1..n
       /\ rows[i].status = "settled" => lib[rows[i].doc] \in {"settled", "none"}
  /\ \A i, j \in DOMAIN rows :
       i < j => \/ rows[i].doc > rows[j].doc
                \/ rows[i].doc = rows[j].doc /\ rows[i].status \in InFlight

HasDoc(rows, d) == \E i \in DOMAIN rows : rows[i].doc = d

\* All the documents of a library, and no others.
HasAll(rows, lib) == \A d \in DocIds : HasDoc(rows, d) <=> lib[d] # "none"

DocTypes ==
  /\ library \in [DocIds -> InFlight \cup {"none", "settled"}] /\ latest \in 0..Documents
  /\ \A d \in DocIds : d > latest => library[d] = "none"
  /\ loading \in BOOLEAN /\ missed \in BOOLEAN
  /\ calls \in SUBSET [served : BOOLEAN, rows : Seq(DocRow), old : BOOLEAN]
  /\ uploading \in {"no", "sent", "stored"}
  /\ uploading = "sent" => latest < Documents
  /\ uploading = "stored" => latest > 0
  /\ dialog \in 0..latest
  /\ deletion \in [doc : 0..latest, state : {"no", "sent", "done"}]
  /\ deletion.state # "no" => deletion.doc # 0
  /\ deletion.state = "done" => library[deletion.doc] = "none"

CallsTell ==
  /\ loading => calls # {}
  /\ \A c \in calls :
       c.served => /\ GoodRows(c.rows, library, latest)
                   /\ c.old \/ HasAll(c.rows, library)

\* What the page shows, unless it is known to be behind.
PageTells(rows, lib, n, up, gone) ==
  /\ \A d \in DocIds : lib[d] # "none" => HasDoc(rows, d) \/ (up = "stored" /\ d = n)
  /\ \A i \in DOMAIN rows :
       lib[rows[i].doc] = "none" =>
         \/ rows[i].status \in InFlight
         \/ gone.state = "done" /\ gone.doc = rows[i].doc

ShownTells ==
  /\ GoodRows(shown, library, latest)
  /\ ~missed /\ ~loading => PageTells(shown, library, latest, uploading, deletion)

PanelTells ==
  /\ panel \in [doc : 0..latest, of : 0..latest, answered : BOOLEAN]
  /\ panel.doc = ActiveDocument(shown)
  /\ panel.answered => panel.of = panel.doc
  /\ polls \in SUBSET [doc : 1..latest, live : BOOLEAN]
  /\ \A p \in polls : p.live => p.doc = panel.doc

DocumentsInv == DocTypes /\ CallsTell /\ ShownTells /\ PanelTells

LEMMA LeastExists ==
  ASSUME NEW D, D \subseteq Nat, D # {}
  PROVE  \E x \in D : \A y \in D : x <= y
<1> DEFINE R == OpToRel(<, Nat)
<1>1. IsWellFoundedOn(R, Nat)
  BY NatLessThanWellFounded
<1>2. ASSUME NEW x \in Nat, NEW y \in Nat, y < x PROVE <<y, x>> \in R
  BY <1>2 DEF OpToRel
<1> HIDE DEF R
<1>3. PICK x \in D : \A y \in D : ~(<<y, x>> \in R)
  BY ONLY <1>1, D \subseteq Nat, D # {}, WFMin
<1>4. ASSUME NEW y \in D PROVE x <= y
  <2>1. x \in Nat /\ y \in Nat
    OBVIOUS
  <2>2. ~(y < x)
    BY <1>2, <1>3, <2>1
  <2> QED
    BY <2>1, <2>2
<1> QED
  BY <1>4

LEMMA DocumentsIs == {Documents, ListCalls, ProgressCalls} \subseteq Nat \ {0} /\ DocIds = 1..Documents
BY ScreenAssumption DEF ScreenAssumption, DocIds

\* A list stays good while the documents in it settle or go, and more come.
LEMMA RowsStayGood ==
  ASSUME NEW rows, NEW lib, NEW lib2, NEW n \in Nat, NEW n2 \in Nat, n <= n2,
         GoodRows(rows, lib, n),
         \A d \in DocIds : lib[d] \in {"settled", "none"} /\ d <= n => lib2[d] \in {"settled", "none"}
  PROVE  GoodRows(rows, lib2, n2)
<1>1. \A i \in DOMAIN rows : rows[i] \in DocRow
  BY DEF GoodRows
<1>2. ASSUME NEW i \in DOMAIN rows
      PROVE  /\ rows[i].doc \in 1..n2
             /\ rows[i].status = "settled" => lib2[rows[i].doc] \in {"settled", "none"}
  <2>1. rows[i].doc \in 1..n /\ rows[i].doc \in DocIds
    BY <1>1 DEF GoodRows, DocRow
  <2> QED
    BY <2>1 DEF GoodRows
<1> QED
  BY <1>2 DEF GoodRows

\* documents.find: the first in flight, which has the largest number of them.
LEMMA ActiveIs ==
  ASSUME NEW rows, NEW lib, NEW n \in Nat, GoodRows(rows, lib, n)
  PROVE  /\ ActiveDocument(rows) \in 0..n
         /\ \A i \in DOMAIN rows : rows[i].status \in InFlight => rows[i].doc <= ActiveDocument(rows)
         /\ ActiveDocument(rows) # 0 => HasDoc(rows, ActiveDocument(rows))
<1> DEFINE active == {i \in DOMAIN rows : rows[i].status \in InFlight}
<1>1. CASE active = {}
  <2>1. ActiveDocument(rows) = 0
    BY <1>1 DEF ActiveDocument
  <2> QED
    BY <1>1, <2>1
<1>2. CASE active # {}
  <2>1. active \subseteq Nat /\ active \subseteq DOMAIN rows
    BY DEF GoodRows
  <2>2. \E x \in active : \A y \in active : x <= y
    BY <1>2, <2>1, LeastExists
  <2> DEFINE k == Min(active)
  <2>3. k \in active /\ \A y \in active : k <= y
    BY <2>2 DEF Min
  <2>4. ActiveDocument(rows) = rows[k].doc
    BY <1>2 DEF ActiveDocument
  <2>5. \A i \in active : rows[i].doc \in Int
    BY <2>1 DEF GoodRows
  <2> HIDE DEF k
  <2>6. ASSUME NEW i \in active PROVE rows[i].doc <= rows[k].doc
    <3>1. k < i \/ k = i
      BY <2>1, <2>3
    <3> QED
      BY <2>1, <2>3, <2>5, <3>1 DEF GoodRows
  <2>7. rows[k].doc \in 1..n
    BY <2>1, <2>3 DEF GoodRows
  <2> QED
    BY <2>1, <2>3, <2>4, <2>6, <2>7 DEF HasDoc
<1> QED
  BY <1>1, <1>2

\* The answer of the list has the documents there are, with their statuses.
LEMMA LibraryIs ==
  ASSUME library \in [DocIds -> InFlight \cup {"none", "settled"}], latest \in Nat,
         \A d \in DocIds : d > latest => library[d] = "none",
         NEW rows \in Library
  PROVE  GoodRows(rows, library, latest) /\ HasAll(rows, library)
<1> DEFINE n == Cardinality(Stored)
<1>1. IsFiniteSet(Stored) /\ n \in Nat
  <2> DEFINE S == {e \in DocIds : library[e] # "none"}
             f == [d \in S |-> [doc |-> d, status |-> library[d]]]
  <2>1. IsFiniteSet(DocIds)
    BY DocumentsIs, FS_Interval
  <2>2. IsFiniteSet(S)
    BY <2>1, FS_Subset
  <2>3. f \in Surjection(S, Stored)
    BY DEF Surjection, Stored
  <2>4. IsFiniteSet(Stored)
    BY <2>2, <2>3, FS_Surjection
  <2> QED
    BY <2>4, FS_CardinalityType
<1>2. /\ rows \in [1..n -> Stored]
      /\ \A i, j \in 1..n : i < j => rows[i].doc > rows[j].doc
  BY DEF Library
<1>3. ASSUME NEW r \in Stored
      PROVE  r \in DocRow /\ r.doc \in 1..latest /\ library[r.doc] = r.status /\ r.status # "none"
  <2>1. PICK d \in DocIds : library[d] # "none" /\ r = [doc |-> d, status |-> library[d]]
    BY <1>3 DEF Stored
  <2>2. d <= latest /\ d \in 1..Documents
    BY <2>1, DocumentsIs
  <2> QED
    BY <2>1, <2>2 DEF DocRow
<1> HIDE DEF n
<1>4. \A i \in 1..n : rows[i].doc \in Int
  BY <1>2, <1>3
<1>5. \A i, j \in 1..n : rows[i] = rows[j] => i = j
  <2> SUFFICES ASSUME NEW i \in 1..n, NEW j \in 1..n, rows[i] = rows[j], i # j PROVE FALSE
    OBVIOUS
  <2>1. i < j \/ j < i
    BY <1>1
  <2> QED
    BY <1>2, <1>4, <2>1
<1>6. \A r \in Stored : \E i \in 1..n : rows[i] = r
  <2>1. rows \in Injection(1..n, Stored)
    BY <1>2, <1>5 DEF Injection, IsInjective
  <2>2. Cardinality(1..n) = Cardinality(Stored)
    BY <1>1, FS_Interval DEF n
  <2>3. rows \in Surjection(1..n, Stored)
    BY <1>1, <2>1, <2>2, FS_Injection
  <2> QED
    BY <2>3 DEF Surjection
<1>7. GoodRows(rows, library, latest)
  <2>1. \A i \in 1..n : rows[i] \in DocRow
    BY <1>2, <1>3
  <2>2. rows \in Seq(DocRow)
    BY <1>1, <1>2, <2>1
  <2> QED
    BY <1>2, <1>3, <2>2 DEF GoodRows
<1>8. HasAll(rows, library)
  <2>1. ASSUME NEW d \in DocIds, library[d] # "none" PROVE HasDoc(rows, d)
    <3>1. [doc |-> d, status |-> library[d]] \in Stored
      BY <2>1 DEF Stored
    <3>2. PICK i \in 1..n : rows[i] = [doc |-> d, status |-> library[d]]
      BY <1>6, <3>1
    <3>3. rows[i].doc = d
      BY <3>2
    <3> QED
      BY <1>2, <3>3 DEF HasDoc
  <2>2. ASSUME NEW d \in DocIds, HasDoc(rows, d) PROVE library[d] # "none"
    <3>1. PICK i \in 1..n : rows[i].doc = d
      BY <1>2, <2>2 DEF HasDoc
    <3> QED
      BY <1>2, <1>3, <3>1
  <2> QED
    BY <2>1, <2>2 DEF HasAll
<1> QED
  BY <1>7, <1>8

\* prev.filter: the list without a document.
LEMMA WithoutIs ==
  ASSUME NEW rows, NEW lib, NEW n \in Nat, GoodRows(rows, lib, n), NEW d, NEW rest \in Without(rows, d)
  PROVE  /\ GoodRows(rest, lib, n)
         /\ \A e : HasDoc(rest, e) <=> HasDoc(rows, e) /\ e # d
         /\ \A i \in DOMAIN rest : \E j \in DOMAIN rows : rest[i] = rows[j] /\ rows[j].doc # d
<1> DEFINE kept == {i \in DOMAIN rows : rows[i].doc # d}
           m == Cardinality(kept)
<1>1. PICK f \in [1..m -> kept] :
        /\ \A i, j \in 1..m : i < j => f[i] < f[j]
        /\ rest = [i \in DOMAIN f |-> rows[f[i]]]
  BY DEF Without
<1>2. IsFiniteSet(kept) /\ m \in Nat
  <2>1. Len(rows) \in Nat /\ DOMAIN rows = 1..Len(rows)
    BY DEF GoodRows
  <2>2. IsFiniteSet(DOMAIN rows)
    BY <2>1, FS_Interval
  <2>3. IsFiniteSet(kept)
    BY <2>2, FS_Subset
  <2> QED
    BY <2>3, FS_CardinalityType
<1>3. \A i \in kept : i \in Int /\ i \in DOMAIN rows
  BY DEF GoodRows
<1> HIDE DEF m
<1>4. \A i, j \in 1..m : f[i] = f[j] => i = j
  <2> SUFFICES ASSUME NEW i \in 1..m, NEW j \in 1..m, f[i] = f[j], i # j PROVE FALSE
    OBVIOUS
  <2>1. i < j \/ j < i
    BY <1>2
  <2> QED
    BY <1>1, <1>3, <2>1
<1>5. \A k \in kept : \E i \in 1..m : f[i] = k
  <2>1. f \in Injection(1..m, kept)
    BY <1>1, <1>4 DEF Injection, IsInjective
  <2>2. Cardinality(1..m) = Cardinality(kept)
    BY <1>2, FS_Interval DEF m
  <2>3. f \in Surjection(1..m, kept)
    BY <1>2, <2>1, <2>2, FS_Injection
  <2> QED
    BY <2>3 DEF Surjection
<1>6. DOMAIN rest = 1..m /\ \A i \in 1..m : f[i] \in kept /\ rest[i] = rows[f[i]]
  BY <1>1
<1>7. \A i \in 1..m : rest[i] \in DocRow
  BY <1>3, <1>6 DEF GoodRows
<1>8. rest \in Seq(DocRow)
  <2>1. rest \in [1..m -> DocRow]
    BY <1>1, <1>6, <1>7
  <2> QED
    BY <1>2, <2>1
<1>9. \A i, j \in 1..m :
        i < j => \/ rest[i].doc > rest[j].doc
                 \/ rest[i].doc = rest[j].doc /\ rest[i].status \in InFlight
  BY <1>1, <1>3, <1>6 DEF GoodRows
<1>10. \A i \in 1..m : rest[i].doc \in 1..n /\ (rest[i].status = "settled" => lib[rest[i].doc] \in {"settled", "none"})
  BY <1>3, <1>6 DEF GoodRows
<1>11. GoodRows(rest, lib, n)
  BY <1>6, <1>8, <1>9, <1>10 DEF GoodRows
<1>12. ASSUME NEW e PROVE HasDoc(rest, e) <=> HasDoc(rows, e) /\ e # d
  <2>1. ASSUME HasDoc(rest, e) PROVE HasDoc(rows, e) /\ e # d
    BY <1>3, <1>6, <2>1 DEF HasDoc
  <2>2. ASSUME HasDoc(rows, e), e # d PROVE HasDoc(rest, e)
    <3>1. PICK k \in kept : rows[k].doc = e
      BY <2>2 DEF HasDoc
    <3>2. PICK i \in 1..m : f[i] = k
      BY <1>5
    <3> QED
      BY <1>6, <3>1, <3>2 DEF HasDoc
  <2> QED
    BY <2>1, <2>2
<1>13. \A i \in DOMAIN rest : \E j \in DOMAIN rows : rest[i] = rows[j] /\ rows[j].doc # d
  BY <1>3, <1>6
<1> QED
  BY <1>11, <1>12, <1>13

\* The document that was uploaded, in front of the list.
WithNew(rows, n) == <<[doc |-> n, status |-> "uploaded"]>> \o rows

LEMMA WithNewIs ==
  ASSUME NEW rows, NEW lib, NEW n \in Nat \ {0}, n \in DocIds, GoodRows(rows, lib, n)
  PROVE  /\ GoodRows(WithNew(rows, n), lib, n)
         /\ \A e : HasDoc(WithNew(rows, n), e) <=> HasDoc(rows, e) \/ e = n
         /\ \A i \in DOMAIN WithNew(rows, n) :
              \/ WithNew(rows, n)[i].status \in InFlight
              \/ \E j \in DOMAIN rows : WithNew(rows, n)[i] = rows[j]
<1> DEFINE new == [doc |-> n, status |-> "uploaded"]
           more == WithNew(rows, n)
<1>0. more = <<new>> \o rows
  BY DEF WithNew
<1> HIDE DEF more
<1>1. new \in DocRow
  BY DEF DocRow, InFlight
<1>2. rows \in Seq(DocRow) /\ Len(rows) \in Nat /\ DOMAIN rows = 1..Len(rows)
  BY DEF GoodRows
<1>3. /\ more \in Seq(DocRow) /\ Len(more) = Len(rows) + 1 /\ DOMAIN more = 1..(Len(rows) + 1)
      /\ more[1] = new
      /\ \A i \in DOMAIN rows : more[i + 1] = rows[i]
  BY <1>0, <1>1, <1>2
<1>4. ASSUME NEW i \in DOMAIN more, i # 1
      PROVE  i - 1 \in DOMAIN rows /\ more[i] = rows[i - 1]
  <2>1. i - 1 \in DOMAIN rows /\ (i - 1) + 1 = i
    BY <1>2, <1>3, <1>4
  <2> QED
    BY <1>3, <2>1
<1> HIDE DEF new
<1>5. new.doc = n /\ new.status \in InFlight /\ new.status # "settled"
  BY DEF new, InFlight
<1>6. \A i \in DOMAIN more :
        /\ more[i].doc \in 1..n
        /\ more[i].status = "settled" => lib[more[i].doc] \in {"settled", "none"}
  BY <1>3, <1>4, <1>5 DEF GoodRows
<1>7. ASSUME NEW i \in DOMAIN more, NEW j \in DOMAIN more, i < j
      PROVE  \/ more[i].doc > more[j].doc
             \/ more[i].doc = more[j].doc /\ more[i].status \in InFlight
  <2>1. j # 1
    BY <1>3, <1>7
  <2>2. CASE i = 1
    <3>1. more[j].doc \in 1..n
      BY <1>6
    <3> QED
      BY <1>3, <1>5, <2>2, <3>1
  <2>3. CASE i # 1
    <3>1. /\ i - 1 \in DOMAIN rows /\ j - 1 \in DOMAIN rows /\ i - 1 < j - 1
          /\ more[i] = rows[i - 1] /\ more[j] = rows[j - 1]
      BY <1>3, <1>4, <1>7, <2>1, <2>3
    <3> QED
      BY <3>1 DEF GoodRows
  <2> QED
    BY <2>2, <2>3
<1>8. GoodRows(more, lib, n)
  BY <1>3, <1>6, <1>7 DEF GoodRows
<1>9. ASSUME NEW e PROVE HasDoc(more, e) <=> HasDoc(rows, e) \/ e = n
  <2>1. ASSUME HasDoc(more, e) PROVE HasDoc(rows, e) \/ e = n
    BY <1>3, <1>4, <1>5, <2>1 DEF HasDoc
  <2>2. ASSUME HasDoc(rows, e) PROVE HasDoc(more, e)
    <3>1. PICK i \in DOMAIN rows : rows[i].doc = e
      BY <2>2 DEF HasDoc
    <3>2. i + 1 \in DOMAIN more /\ more[i + 1].doc = e
      BY <1>2, <1>3, <3>1
    <3> QED
      BY <3>2 DEF HasDoc
  <2>3. HasDoc(more, n)
    <3>1. 1 \in DOMAIN more
      BY <1>2, <1>3
    <3> QED
      BY <1>3, <1>5, <3>1 DEF HasDoc
  <2> QED
    BY <2>1, <2>2, <2>3
<1>10. \A i \in DOMAIN more :
         more[i].status \in InFlight \/ \E j \in DOMAIN rows : more[i] = rows[j]
  BY <1>3, <1>4, <1>5
<1> QED
  BY <1>8, <1>9, <1>10 DEF more

\* A list shown: the panel turns to its document, and no call of another is live.
LEMMA ShowsPanel ==
  ASSUME NEW rows, latest \in Nat, GoodRows(rows, library, latest), PanelTells, Shows(rows),
         latest' = latest
  PROVE  shown' = rows /\ PanelTells'
<1> DEFINE a == ActiveDocument(rows)
<1>1. shown' = rows
  BY DEF Shows
<1>2. a \in 0..latest
  BY ActiveIs
<1>3. ActiveDocument(shown)' = a
  BY <1>1
<1> HIDE DEF a
<1>4. CASE a = panel.doc
  <2>1. panel' = panel /\ polls' = polls
    BY <1>4 DEF Shows, a
  <2> QED
    BY <1>1, <1>3, <1>4, <2>1 DEF PanelTells
<1>5. CASE a # panel.doc
  <2>1. /\ panel' = IF a = 0 THEN NoPanel ELSE [doc |-> a, of |-> panel.of, answered |-> FALSE]
        /\ polls' = {[p EXCEPT !.live = FALSE] : p \in polls}
    BY <1>5 DEF Shows, a
  <2>2. panel' \in [doc : 0..latest, of : 0..latest, answered : BOOLEAN] /\ panel'.doc = a /\ ~panel'.answered
    BY <1>2, <2>1 DEF PanelTells, NoPanel
  <2>3. \A p \in polls' : p \in [doc : 1..latest, live : BOOLEAN] /\ ~p.live
    <3> SUFFICES ASSUME NEW p \in polls' PROVE p \in [doc : 1..latest, live : BOOLEAN] /\ ~p.live
      OBVIOUS
    <3>1. PICK q \in polls : p = [q EXCEPT !.live = FALSE]
      BY <2>1
    <3>2. q \in [doc : 1..latest, live : BOOLEAN]
      BY DEF PanelTells
    <3> QED
      BY <3>1, <3>2
  <2> QED
    BY <1>1, <1>3, <2>2, <2>3 DEF PanelTells
<1> QED
  BY <1>1, <1>4, <1>5

\* A change of the library, after which answers made up before it are old.
LEMMA CallsOutdated ==
  ASSUME DocTypes, CallsTell, calls' = Outdated, latest \in Nat, latest' \in Nat, latest <= latest',
         loading' = loading,
         \A d \in DocIds : library[d] \in {"settled", "none"} /\ d <= latest => library'[d] \in {"settled", "none"}
  PROVE  CallsTell'
<1>1. ASSUME NEW c \in calls'
      PROVE  c.served => GoodRows(c.rows, library', latest') /\ (c.old \/ HasAll(c.rows, library'))
  <2>1. PICK b \in calls : c = [b EXCEPT !.old = b.served]
    BY <1>1 DEF Outdated
  <2>2. c.served = b.served /\ c.rows = b.rows /\ (b.served => c.old)
    BY <2>1 DEF DocTypes
  <2> QED
    BY <2>2, RowsStayGood DEF CallsTell
<1>2. loading' => calls' # {}
  BY DEF CallsTell, Outdated
<1> QED
  BY <1>1, <1>2 DEF CallsTell

LEMMA NewCallIs ==
  NewCall \in [served : BOOLEAN, rows : Seq(DocRow), old : BOOLEAN] /\ ~NewCall.served
<1>1. <<>> \in Seq(DocRow)
  OBVIOUS
<1> QED
  BY <1>1 DEF NewCall

LEMMA DocumentsStart == DocumentsInit => DocumentsInv
<1> SUFFICES ASSUME DocumentsInit PROVE DocumentsInv
  OBVIOUS
<1>0. Documents \in Nat /\ Documents >= 1 /\ DocIds = 1..Documents
  BY DocumentsIs
<1>1. DocTypes
  <2>1. calls \in SUBSET [served : BOOLEAN, rows : Seq(DocRow), old : BOOLEAN]
    BY NewCallIs DEF DocumentsInit
  <2>2. library \in [DocIds -> InFlight \cup {"none", "settled"}]
    BY DEF DocumentsInit, InFlight
  <2>3. deletion \in [doc : 0..latest, state : {"no", "sent", "done"}] /\ deletion.state = "no"
    BY DEF DocumentsInit
  <2>4. \A d \in DocIds : d > latest => library[d] = "none"
    BY <1>0 DEF DocumentsInit
  <2>5. loading \in BOOLEAN /\ missed \in BOOLEAN
    BY DEF DocumentsInit
  <2>6. latest \in 0..Documents /\ dialog \in 0..latest
    <3>1. latest = 1 /\ dialog = 0
      BY DEF DocumentsInit
    <3> QED
      BY <1>0, <3>1
  <2>7. uploading = "no"
    BY DEF DocumentsInit
  <2> QED
    BY <2>1, <2>2, <2>3, <2>4, <2>5, <2>6, <2>7 DEF DocTypes
<1>2. GoodRows(shown, library, latest)
  BY DEF DocumentsInit, GoodRows
<1>3. CallsTell /\ ShownTells
  BY <1>2 DEF DocumentsInit, CallsTell, ShownTells, NewCall
<1>4. PanelTells
  <2>1. ActiveDocument(shown) = 0
    BY DEF DocumentsInit, ActiveDocument
  <2> QED
    BY <2>1 DEF DocumentsInit, PanelTells, NoPanel
<1> QED
  BY <1>1, <1>3, <1>4 DEF DocumentsInv

LEMMA DocumentsStep == DocumentsInv /\ [DocumentsNext]_documentsVars => DocumentsInv'
<1> SUFFICES ASSUME DocumentsInv, [DocumentsNext]_documentsVars PROVE DocumentsInv'
  OBVIOUS
<1>i. DocTypes /\ CallsTell /\ ShownTells /\ PanelTells
  BY DEF DocumentsInv
<1>0. Documents \in Nat /\ Documents >= 1 /\ DocIds = 1..Documents /\ latest \in Nat /\ latest <= Documents
  BY <1>i, DocumentsIs DEF DocTypes
\* What a step leaves alone.
<1>k. CallsTell /\ UNCHANGED <<library, latest, loading, calls>> => CallsTell'
  BY DEF CallsTell
<1>s. ShownTells /\ UNCHANGED <<library, latest, loading, shown, missed, uploading, deletion>> => ShownTells'
  BY DEF ShownTells
<1>p. PanelTells /\ UNCHANGED <<latest, shown, panel, polls>> => PanelTells'
  BY DEF PanelTells, ActiveDocument
<1>1. ASSUME NEW d \in DocIds, Processes(d) PROVE DocumentsInv'
  <2>1. /\ library[d] \in InFlight
        /\ \/ library' = [library EXCEPT ![d] = "processing"]
           \/ library' = [library EXCEPT ![d] = "settled"]
        /\ UNCHANGED <<latest, shown, loading, calls, uploading, dialog, deletion, panel, polls, missed>>
    BY <1>1 DEF Processes, InFlight
  <2>2. \A e \in DocIds : /\ library'[e] = "none" <=> library[e] = "none"
                          /\ library[e] \in {"settled", "none"} => library'[e] \in {"settled", "none"}
    BY <1>i, <2>1 DEF DocTypes, InFlight
  <2>3. DocTypes'
    <3>1. library' \in [DocIds -> InFlight \cup {"none", "settled"}]
      BY <1>i, <2>1 DEF DocTypes, InFlight
    <3>2. deletion.state = "done" => deletion.doc \in DocIds
      BY <1>i, <1>0 DEF DocTypes
    <3> QED
      BY <1>i, <2>1, <2>2, <3>1, <3>2 DEF DocTypes
  <2>4. CallsTell'
    <3>1. \A c \in calls : c.served => GoodRows(c.rows, library', latest)
      BY <1>i, <1>0, <2>2, RowsStayGood DEF CallsTell
    <3>2. \A c \in calls : HasAll(c.rows, library) => HasAll(c.rows, library')
      BY <2>2 DEF HasAll
    <3> QED
      BY <1>i, <2>1, <3>1, <3>2 DEF CallsTell
  <2>5. ShownTells'
    <3>0. GoodRows(shown, library, latest) /\ latest <= latest
      BY <1>i, <1>0 DEF ShownTells
    <3>4. \A n \in DocIds :
            library[n] \in {"settled", "none"} /\ n <= latest => library'[n] \in {"settled", "none"}
      BY <2>2
    <3>1. GoodRows(shown, library', latest)
      BY ONLY <1>0, <3>0, <3>4, RowsStayGood
    <3>2. \A i \in DOMAIN shown : shown[i].doc \in DocIds
      BY <1>i, <1>0 DEF ShownTells, GoodRows
    <3>3. PageTells(shown, library, latest, uploading, deletion) =>
            PageTells(shown, library', latest, uploading, deletion)
      BY <2>2, <3>2 DEF PageTells
    <3> QED
      BY <1>i, <2>1, <3>1, <3>3 DEF ShownTells
  <2> QED
    BY <1>i, <1>p, <2>1, <2>3, <2>4, <2>5 DEF DocumentsInv
<1>2. ASSUME ServeUpload PROVE DocumentsInv'
  <2> DEFINE new == latest + 1
  <2>1. /\ uploading = "sent" /\ uploading' = "stored"
        /\ latest' = new /\ library' = [library EXCEPT ![new] = "uploaded"]
        /\ calls' = Outdated
        /\ UNCHANGED <<shown, loading, dialog, deletion, panel, polls, missed>>
    BY <1>2 DEF ServeUpload
  <2>2. new \in DocIds /\ new \in Nat /\ latest < new /\ new > 0
    BY <1>i, <1>0, <2>1 DEF DocTypes
  <2>3. library[new] = "none"
    BY <1>i, <2>2 DEF DocTypes
  <2> HIDE DEF new
  <2>4. \A e \in DocIds : library'[e] = IF e = new THEN "uploaded" ELSE library[e]
    BY <1>i, <2>1 DEF DocTypes
  <2>5. DocTypes'
    <3>1. library' \in [DocIds -> InFlight \cup {"none", "settled"}]
      BY <1>i, <2>1 DEF DocTypes, InFlight
    <3>2. \A d \in DocIds : d > new => library'[d] = "none"
      BY <1>i, <1>0, <2>2, <2>4 DEF DocTypes
    <3>3. latest' \in 0..Documents /\ latest' > 0
      BY <1>0, <2>1, <2>2
    <3>4. /\ dialog' \in 0..latest' /\ deletion' \in [doc : 0..latest', state : {"no", "sent", "done"}]
      <4>1. 0..latest \subseteq 0..new
        BY <1>0, <2>2
      <4> QED
        BY <1>i, <2>1, <4>1 DEF DocTypes
    <3>5. deletion'.state = "done" => library'[deletion'.doc] = "none"
      <4>1. deletion.state = "done" => deletion.doc \in DocIds /\ deletion.doc # new
        BY <1>i, <1>0, <2>2 DEF DocTypes
      <4> QED
        BY <1>i, <2>1, <2>4, <4>1 DEF DocTypes
    <3>6. calls' \in SUBSET [served : BOOLEAN, rows : Seq(DocRow), old : BOOLEAN]
      BY <1>i, <2>1 DEF DocTypes, Outdated
    <3> QED
      BY <1>i, <2>1, <3>1, <3>2, <3>3, <3>4, <3>5, <3>6 DEF DocTypes
  <2>6. \A e \in DocIds : library[e] \in {"settled", "none"} /\ e <= latest => library'[e] \in {"settled", "none"}
    BY <1>0, <2>2, <2>4
  <2>7. CallsTell'
    BY <1>i, <1>0, <2>1, <2>2, <2>6, CallsOutdated
  <2>8. ShownTells'
    <3>1. GoodRows(shown, library', new)
      BY <1>i, <1>0, <2>2, <2>6, RowsStayGood DEF ShownTells
    <3>2. \A i \in DOMAIN shown : shown[i].doc \in DocIds /\ shown[i].doc # new
      BY <1>i, <1>0, <2>2 DEF ShownTells, GoodRows
    <3>3. PageTells(shown, library, latest, "sent", deletion) =>
            PageTells(shown, library', new, "stored", deletion)
      BY <2>4, <3>2 DEF PageTells
    <3> QED
      BY <1>i, <2>1, <3>1, <3>3 DEF ShownTells
  <2>9. PanelTells'
    <3>1. 0..latest \subseteq 0..new /\ 1..latest \subseteq 1..new
      BY <1>0, <2>2
    <3>2. ActiveDocument(shown)' = ActiveDocument(shown)
      BY <2>1 DEF ActiveDocument
    <3> QED
      BY <1>i, <2>1, <3>1, <3>2 DEF PanelTells
  <2> QED
    BY <2>5, <2>7, <2>8, <2>9 DEF DocumentsInv
<1>3. ASSUME ServeRemoval PROVE DocumentsInv'
  <2>1. /\ deletion.state = "sent"
        /\ library' = [library EXCEPT ![deletion.doc] = "none"]
        /\ deletion' = [deletion EXCEPT !.state = "done"] /\ calls' = Outdated
        /\ UNCHANGED <<latest, shown, loading, uploading, dialog, panel, polls, missed>>
    BY <1>3 DEF ServeRemoval
  <2>2. deletion.doc \in DocIds /\ deletion'.doc = deletion.doc /\ deletion'.state = "done"
    BY <1>i, <1>0, <2>1 DEF DocTypes
  <2>4. \A e \in DocIds : library'[e] = IF e = deletion.doc THEN "none" ELSE library[e]
    BY <1>i, <2>1 DEF DocTypes
  <2>5. DocTypes'
    <3>1. library' \in [DocIds -> InFlight \cup {"none", "settled"}]
      BY <1>i, <2>1 DEF DocTypes, InFlight
    <3>6. calls' \in SUBSET [served : BOOLEAN, rows : Seq(DocRow), old : BOOLEAN]
      BY <1>i, <2>1 DEF DocTypes, Outdated
    <3>7. deletion' \in [doc : 0..latest, state : {"no", "sent", "done"}]
      BY <1>i, <2>1 DEF DocTypes
    <3> QED
      BY <1>i, <2>1, <2>2, <2>4, <3>1, <3>6, <3>7 DEF DocTypes
  <2>6. \A e \in DocIds : library[e] \in {"settled", "none"} => library'[e] \in {"settled", "none"}
    BY <2>4
  <2>7. CallsTell'
    BY <1>i, <1>0, <2>1, <2>6, CallsOutdated
  <2>8. ShownTells'
    <3>0. GoodRows(shown, library, latest) /\ latest <= latest
      BY <1>i, <1>0 DEF ShownTells
    <3>4. \A d \in DocIds :
            library[d] \in {"settled", "none"} /\ d <= latest => library'[d] \in {"settled", "none"}
      BY <2>6
    <3>1. GoodRows(shown, library', latest)
      BY ONLY <1>0, <3>0, <3>4, RowsStayGood
    <3>2. \A i \in DOMAIN shown : shown[i].doc \in DocIds
      BY <1>i, <1>0 DEF ShownTells, GoodRows
    <3>3. PageTells(shown, library, latest, uploading, deletion) =>
            PageTells(shown, library', latest, uploading, deletion')
      BY <2>1, <2>2, <2>4, <3>2 DEF PageTells
    <3> QED
      BY <1>i, <2>1, <3>1, <3>3 DEF ShownTells
  <2> QED
    BY <1>i, <1>p, <2>1, <2>5, <2>7, <2>8 DEF DocumentsInv
<1>4. ASSUME NEW c \in calls, ServeList(c) PROVE DocumentsInv'
  <2>1. PICK rows \in Library :
          calls' = (calls \ {c}) \cup {[served |-> TRUE, rows |-> rows, old |-> FALSE]}
    BY <1>4 DEF ServeList
  <2>2. UNCHANGED <<library, latest, shown, loading, uploading, dialog, deletion, panel, polls, missed>>
    BY <1>4 DEF ServeList
  <2>3. GoodRows(rows, library, latest) /\ HasAll(rows, library)
    BY <1>i, <1>0, LibraryIs DEF DocTypes
  <2>4. DocTypes'
    <3>1. [served |-> TRUE, rows |-> rows, old |-> FALSE] \in [served : BOOLEAN, rows : Seq(DocRow), old : BOOLEAN]
      BY <2>3 DEF GoodRows
    <3>2. calls' \in SUBSET [served : BOOLEAN, rows : Seq(DocRow), old : BOOLEAN]
      BY <1>i, <2>1, <3>1 DEF DocTypes
    <3> QED
      BY <1>i, <2>2, <3>2 DEF DocTypes
  <2>5. CallsTell'
    <3>1. \A b \in calls' : b \in calls \/ b = [served |-> TRUE, rows |-> rows, old |-> FALSE]
      BY <2>1
    <3>2. \A b \in calls' :
            b.served => GoodRows(b.rows, library, latest) /\ (b.old \/ HasAll(b.rows, library))
      BY <1>i, <2>3, <3>1 DEF CallsTell
    <3>3. calls' # {}
      BY <2>1
    <3> QED
      BY <2>2, <3>2, <3>3 DEF CallsTell
  <2> QED
    BY <1>i, <1>s, <1>p, <2>2, <2>4, <2>5 DEF DocumentsInv
<1>5. ASSUME NEW c \in calls, ListArrives(c) PROVE DocumentsInv'
  <2>1. /\ c.served /\ Shows(c.rows) /\ missed' = c.old /\ ~loading'
        /\ loading' = FALSE /\ calls' = calls \ {c}
        /\ UNCHANGED <<library, latest, uploading, dialog, deletion>>
    BY <1>5 DEF ListArrives
  <2>2. GoodRows(c.rows, library, latest) /\ (c.old \/ HasAll(c.rows, library))
    BY <1>i, <2>1 DEF CallsTell
  <2>3. shown' = c.rows /\ PanelTells'
    BY <1>i, <1>0, <2>1, <2>2, ShowsPanel
  <2>4. DocTypes'
    BY <1>i, <2>1 DEF DocTypes
  <2>5. CallsTell'
    BY <1>i, <2>1 DEF CallsTell
  <2>6. ShownTells'
    <3>1. \A i \in DOMAIN c.rows : c.rows[i].doc \in DocIds /\ HasDoc(c.rows, c.rows[i].doc)
      BY <1>0, <2>2 DEF GoodRows, HasDoc
    <3>2. HasAll(c.rows, library) => PageTells(c.rows, library, latest, uploading, deletion)
      BY <3>1 DEF HasAll, PageTells
    <3> QED
      BY <2>1, <2>2, <2>3, <3>2 DEF ShownTells
  <2> QED
    BY <2>3, <2>4, <2>5, <2>6 DEF DocumentsInv
<1>6. ASSUME NEW c \in calls, ListFails(c) PROVE DocumentsInv'
  <2>1. /\ missed' = (missed \/ loading) /\ loading' = FALSE /\ calls' = calls \ {c}
        /\ UNCHANGED <<library, latest, shown, uploading, dialog, deletion, panel, polls>>
    BY <1>6 DEF ListFails
  <2>4. DocTypes'
    BY <1>i, <2>1 DEF DocTypes
  <2>5. CallsTell'
    BY <1>i, <2>1 DEF CallsTell
  <2>6. ShownTells'
    BY <1>i, <2>1 DEF ShownTells
  <2> QED
    BY <1>i, <1>p, <2>1, <2>4, <2>5, <2>6 DEF DocumentsInv
<1>7. ASSUME Polls PROVE DocumentsInv'
  <2>1. /\ calls' = calls \cup {NewCall}
        /\ UNCHANGED <<library, latest, shown, loading, uploading, dialog, deletion, panel, polls, missed>>
    BY <1>7 DEF Polls
  <2>4. DocTypes'
    BY <1>i, <2>1, NewCallIs DEF DocTypes
  <2>5. CallsTell'
    BY <1>i, <2>1, NewCallIs DEF CallsTell
  <2> QED
    BY <1>i, <1>s, <1>p, <2>1, <2>4, <2>5 DEF DocumentsInv
<1>8. ASSUME ChooseFile PROVE DocumentsInv'
  <2>1. /\ uploading = "no" /\ latest < Documents /\ uploading' = "sent"
        /\ UNCHANGED <<library, latest, shown, loading, calls, dialog, deletion, panel, polls, missed>>
    BY <1>8 DEF ChooseFile
  <2>4. DocTypes'
    BY <1>i, <2>1 DEF DocTypes
  <2>5. ShownTells'
    BY <1>i, <2>1 DEF ShownTells, PageTells
  <2> QED
    BY <1>i, <1>k, <1>p, <2>1, <2>4, <2>5 DEF DocumentsInv
<1>9. ASSUME Uploaded PROVE DocumentsInv'
  <2> DEFINE rows == WithNew(shown, latest)
  <2>2. /\ uploading = "stored" /\ uploading' = "no" /\ Shows(rows)
        /\ UNCHANGED <<library, latest, loading, calls, dialog, deletion, missed>>
    BY <1>9 DEF Uploaded, WithNew
  <2>3. latest \in Nat \ {0} /\ latest \in DocIds
    BY <1>i, <1>0, <2>2 DEF DocTypes
  <2>4. /\ GoodRows(rows, library, latest)
        /\ \A e : HasDoc(rows, e) <=> HasDoc(shown, e) \/ e = latest
        /\ \A i \in DOMAIN rows :
             rows[i].status \in InFlight \/ \E j \in DOMAIN shown : rows[i] = shown[j]
    <3>1. GoodRows(shown, library, latest)
      BY <1>i DEF ShownTells
    <3> QED
      BY ONLY <2>3, <3>1, WithNewIs
  <2> HIDE DEF rows
  <2>5. shown' = rows /\ PanelTells'
    BY <1>i, <1>0, <2>2, <2>4, ShowsPanel
  <2>6. DocTypes'
    BY <1>i, <2>2 DEF DocTypes
  <2>7. ShownTells'
    <3>1. PageTells(shown, library, latest, "stored", deletion) => PageTells(rows, library, latest, "no", deletion)
      BY <2>4 DEF PageTells
    <3> QED
      BY <1>i, <2>2, <2>4, <2>5, <3>1 DEF ShownTells
  <2> QED
    BY <1>i, <1>k, <2>2, <2>5, <2>6, <2>7 DEF DocumentsInv
<1>10. ASSUME UploadFails PROVE DocumentsInv'
  <2>1. /\ uploading' = "no" /\ missed' = (missed \/ uploading = "stored")
        /\ UNCHANGED <<library, latest, shown, loading, calls, dialog, deletion, panel, polls>>
    BY <1>10 DEF UploadFails
  <2>4. DocTypes'
    BY <1>i, <2>1 DEF DocTypes
  <2>5. ShownTells'
    BY <1>i, <2>1 DEF ShownTells, PageTells
  <2> QED
    BY <1>i, <1>k, <1>p, <2>1, <2>4, <2>5 DEF DocumentsInv
<1>11. ASSUME NEW d \in DocIds \cup {0}, PendDelete(d) PROVE DocumentsInv'
  <2>1. /\ d = 0 \/ \E i \in DOMAIN shown : shown[i].doc = d
        /\ dialog' = d
        /\ UNCHANGED <<library, latest, shown, loading, calls, uploading, deletion, panel, polls, missed>>
    BY <1>11 DEF PendDelete
  <2>2. d \in 0..latest
    BY <1>i, <1>0, <2>1 DEF ShownTells, GoodRows
  <2>4. DocTypes'
    BY <1>i, <2>1, <2>2 DEF DocTypes
  <2> QED
    BY <1>i, <1>k, <1>s, <1>p, <2>1, <2>4 DEF DocumentsInv
<1>12. ASSUME ConfirmDelete PROVE DocumentsInv'
  <2>1. /\ dialog # 0 /\ deletion.state = "no" /\ deletion' = [doc |-> dialog, state |-> "sent"]
        /\ UNCHANGED <<library, latest, shown, loading, calls, uploading, dialog, panel, polls, missed>>
    BY <1>12 DEF ConfirmDelete
  <2>4. DocTypes'
    BY <1>i, <2>1 DEF DocTypes
  <2>5. ShownTells'
    BY <1>i, <2>1 DEF ShownTells, PageTells
  <2> QED
    BY <1>i, <1>k, <1>p, <2>1, <2>4, <2>5 DEF DocumentsInv
<1>13. ASSUME Deleted PROVE DocumentsInv'
  <2>1. PICK rest \in Without(shown, deletion.doc) : Shows(rest)
    BY <1>13 DEF Deleted
  <2>2. /\ deletion.state = "done" /\ dialog' = 0 /\ deletion' = [doc |-> 0, state |-> "no"]
        /\ UNCHANGED <<library, latest, loading, calls, uploading, missed>>
    BY <1>13 DEF Deleted
  <2>3. /\ GoodRows(rest, library, latest)
        /\ \A e : HasDoc(rest, e) <=> HasDoc(shown, e) /\ e # deletion.doc
        /\ \A i \in DOMAIN rest : \E j \in DOMAIN shown : rest[i] = shown[j] /\ shown[j].doc # deletion.doc
    BY <1>i, <1>0, WithoutIs DEF ShownTells
  <2>4. shown' = rest /\ PanelTells'
    BY <1>i, <1>0, <2>1, <2>2, <2>3, ShowsPanel
  <2>5. DocTypes'
    BY <1>i, <1>0, <2>2 DEF DocTypes
  <2>6. ShownTells'
    <3>1. library[deletion.doc] = "none"
      BY <1>i, <2>2 DEF DocTypes
    <3>2. PageTells(shown, library, latest, uploading, deletion) =>
            PageTells(rest, library, latest, uploading, deletion')
      BY <2>2, <2>3, <3>1 DEF PageTells
    <3> QED
      BY <1>i, <2>2, <2>3, <2>4, <3>2 DEF ShownTells
  <2> QED
    BY <1>i, <1>k, <2>2, <2>4, <2>5, <2>6 DEF DocumentsInv
<1>14. ASSUME DeletionFails PROVE DocumentsInv'
  <2>1. /\ deletion' = [doc |-> 0, state |-> "no"] /\ missed' = (missed \/ deletion.state = "done")
        /\ UNCHANGED <<library, latest, shown, loading, calls, uploading, dialog, panel, polls>>
    BY <1>14 DEF DeletionFails
  <2>4. DocTypes'
    BY <1>i, <1>0, <2>1 DEF DocTypes
  <2>5. ShownTells'
    BY <1>i, <2>1 DEF ShownTells, PageTells
  <2> QED
    BY <1>i, <1>k, <1>p, <2>1, <2>4, <2>5 DEF DocumentsInv
<1>15. ASSUME PollsProgress PROVE DocumentsInv'
  <2>1. /\ panel.doc # 0 /\ polls' = polls \cup {[doc |-> panel.doc, live |-> TRUE]}
        /\ UNCHANGED <<library, latest, shown, loading, calls, uploading, dialog, deletion, panel, missed>>
    BY <1>15 DEF PollsProgress
  <2>4. DocTypes'
    BY <1>i, <2>1 DEF DocTypes
  <2>5. ActiveDocument(shown)' = ActiveDocument(shown)
    BY <2>1 DEF ActiveDocument
  <2>6. panel.doc \in 1..latest
    BY <1>i, <1>0, <2>1 DEF PanelTells
  <2>7. PanelTells'
    <3>1. [doc |-> panel.doc, live |-> TRUE] \in [doc : 1..latest, live : BOOLEAN]
      BY <2>6
    <3>2. polls' \in SUBSET [doc : 1..latest, live : BOOLEAN]
      BY <1>i, <2>1, <3>1 DEF PanelTells
    <3>3. \A p \in polls' : p.live => p.doc = panel.doc
      <4> SUFFICES ASSUME NEW p \in polls', p.live PROVE p.doc = panel.doc
        OBVIOUS
      <4>1. p \in polls \/ p = [doc |-> panel.doc, live |-> TRUE]
        BY <2>1
      <4> QED
        BY <1>i, <4>1 DEF PanelTells
    <3> QED
      BY <1>i, <2>1, <2>5, <3>2, <3>3 DEF PanelTells
  <2> QED
    BY <1>i, <1>k, <1>s, <2>1, <2>4, <2>7 DEF DocumentsInv
<1>16. ASSUME NEW p \in polls, ProgressArrives(p) PROVE DocumentsInv'
  <2>1. /\ \/ p.live /\ panel' = [panel EXCEPT !.of = p.doc, !.answered = TRUE]
           \/ panel' = panel
        /\ polls' = polls \ {p}
        /\ UNCHANGED <<library, latest, shown, loading, calls, uploading, dialog, deletion, missed>>
    BY <1>16 DEF ProgressArrives, Progresses
  <2>4. DocTypes'
    BY <1>i, <2>1 DEF DocTypes
  <2>5. ActiveDocument(shown)' = ActiveDocument(shown)
    BY <2>1 DEF ActiveDocument
  <2>6. p.doc \in 0..latest /\ (p.live => p.doc = panel.doc)
    BY <1>i, <1>0 DEF PanelTells
  <2>7. PanelTells'
    <3>1. /\ panel' \in [doc : 0..latest, of : 0..latest, answered : BOOLEAN]
          /\ panel'.doc = panel.doc /\ (panel'.answered => panel'.of = panel'.doc)
      BY <1>i, <2>1, <2>6 DEF PanelTells
    <3> QED
      BY <1>i, <2>1, <2>5, <3>1 DEF PanelTells
  <2> QED
    BY <1>i, <1>k, <1>s, <2>1, <2>4, <2>7 DEF DocumentsInv
<1>17. CASE UNCHANGED documentsVars
  <2>1. UNCHANGED <<library, latest, shown, loading, calls, uploading, dialog, deletion, panel, polls, missed>>
    BY <1>17 DEF documentsVars
  <2>2. DocTypes'
    BY <1>i, <2>1 DEF DocTypes
  <2> QED
    BY <1>i, <1>k, <1>s, <1>p, <2>1, <2>2 DEF DocumentsInv
<1> QED
  BY <1>1, <1>2, <1>3, <1>4, <1>5, <1>6, <1>7, <1>8, <1>9, <1>10, <1>11, <1>12, <1>13, <1>14,
     <1>15, <1>16, <1>17 DEF DocumentsNext

\* At rest nothing is in flight, so what is shown is what there is.
LEMMA DocumentsTell == DocumentsInv => DocumentsAreShown
<1> SUFFICES ASSUME DocumentsInv PROVE DocumentsAreShown
  OBVIOUS
<1>i. DocTypes /\ CallsTell /\ ShownTells /\ PanelTells
  BY DEF DocumentsInv
<1>0. Documents \in Nat /\ DocIds = 1..Documents /\ latest \in Nat /\ latest <= Documents
  BY <1>i, DocumentsIs DEF DocTypes
<1>1. DocumentsTypeOK
  <2>1. polls \subseteq [doc : DocIds, live : BOOLEAN]
    <3>1. 1..latest \subseteq DocIds
      BY <1>0
    <3> QED
      BY <1>i, <3>1 DEF PanelTells
  <2>2. \A i \in DOMAIN shown : shown[i].doc \in 1..latest /\ shown[i].status \in InFlight \cup {"settled"}
    <3>1. \A i \in DOMAIN shown : shown[i] \in DocRow
      BY <1>i DEF ShownTells, GoodRows
    <3> QED
      BY <1>i, <3>1 DEF ShownTells, GoodRows, DocRow
  <2>3. \A i \in DOMAIN shown : shown[i].status \in InFlight => shown[i].doc <= panel.doc
    BY <1>i, <1>0, ActiveIs DEF PanelTells, ShownTells
  <2>4. panel.doc # 0 => \E i \in DOMAIN shown : shown[i].doc = panel.doc
    BY <1>i, <1>0, ActiveIs DEF PanelTells, ShownTells, HasDoc
  <2>5. panel \in [doc : 0..latest, of : 0..latest, answered : BOOLEAN]
    BY <1>i DEF PanelTells
  <2>6. \A c \in calls : c.served \in BOOLEAN /\ c.old \in BOOLEAN
    BY <1>i DEF DocTypes
  <2> QED
    BY <1>i, <2>1, <2>2, <2>3, <2>4, <2>5, <2>6 DEF DocumentsTypeOK, DocTypes
<1>2. PageCatchesUp
  <2> SUFFICES ASSUME ~CatchingUp, ~missed PROVE shown \in Library
    BY DEF PageCatchesUp
  <2> DEFINE n == Len(shown)
  <2>1. /\ \A i \in DOMAIN shown : shown[i].status \notin InFlight
        /\ uploading = "no" /\ deletion.state = "no" /\ calls = {} /\ ~loading
    BY <1>i DEF CatchingUp, StillProcessing, DocTypes, CallsTell
  <2>2. PageTells(shown, library, latest, uploading, deletion)
    BY <1>i, <2>1 DEF ShownTells
  <2>3. shown \in Seq(DocRow) /\ n \in Nat /\ DOMAIN shown = 1..n
    BY <1>i DEF ShownTells, GoodRows
  <2>4. \A i, j \in 1..n : i < j => shown[i].doc > shown[j].doc
    BY <1>i, <2>1, <2>3 DEF ShownTells, GoodRows
  <2>5. \A i \in 1..n : shown[i] \in Stored
    <3> SUFFICES ASSUME NEW i \in 1..n PROVE shown[i] \in Stored
      OBVIOUS
    <3>0. shown[i] \in DocRow
      BY <2>3
    <3>1. shown[i] \in DocRow /\ shown[i].status = "settled"
      BY <2>1, <2>3, <3>0 DEF DocRow
    <3>2. shown[i].doc \in DocIds /\ library[shown[i].doc] \in {"settled", "none"}
      BY <1>i, <2>3, <3>1 DEF ShownTells, GoodRows, DocRow
    <3>3. library[shown[i].doc] # "none"
      BY <2>1, <2>2, <2>3 DEF PageTells
    <3>4. shown[i] = [doc |-> shown[i].doc, status |-> library[shown[i].doc]]
      BY <3>1, <3>2, <3>3 DEF DocRow
    <3> QED
      BY <3>2, <3>3, <3>4 DEF Stored
  <2>6. \A r \in Stored : \E i \in 1..n : shown[i] = r
    <3> SUFFICES ASSUME NEW r \in Stored PROVE \E i \in 1..n : shown[i] = r
      OBVIOUS
    <3>1. PICK d \in DocIds : library[d] # "none" /\ r = [doc |-> d, status |-> library[d]]
      BY DEF Stored
    <3>2. PICK i \in 1..n : shown[i].doc = d
      BY <2>1, <2>2, <2>3, <3>1 DEF PageTells, HasDoc
    <3>3. PICK e \in DocIds : shown[i] = [doc |-> e, status |-> library[e]]
      BY <2>5 DEF Stored
    <3>4. e = d
      BY <3>2, <3>3
    <3> QED
      BY <3>1, <3>3, <3>4
  <2> HIDE DEF n
  <2>7. \A i \in 1..n : shown[i].doc \in Int
    BY <1>i, <2>3 DEF ShownTells, GoodRows
  <2>8. \A i, j \in 1..n : shown[i] = shown[j] => i = j
    <3> SUFFICES ASSUME NEW i \in 1..n, NEW j \in 1..n, shown[i] = shown[j], i # j PROVE FALSE
      OBVIOUS
    <3>1. i < j \/ j < i
      BY <2>3
    <3> QED
      BY <2>4, <2>7, <3>1
  <2>9. shown \in [1..n -> Stored]
    BY <2>3, <2>5 DEF n
  <2>10. Cardinality(Stored) = n
    <3>1. shown \in Bijection(1..n, Stored)
      BY <2>6, <2>8, <2>9 DEF Bijection, Injection, Surjection, IsInjective
    <3>2. IsFiniteSet(1..n) /\ Cardinality(1..n) = n
      BY <2>3, FS_Interval
    <3>3. ExistsBijection(1..n, Stored)
      BY <3>1 DEF ExistsBijection
    <3> QED
      BY <3>2, <3>3, FS_Bijection
  <2> QED
    BY <2>3, <2>4, <2>9, <2>10 DEF Library
<1>3. PanelIsOwn
  BY <1>i DEF PanelTells, PanelIsOwn
<1> QED
  BY <1>1, <1>2, <1>3 DEF DocumentsAreShown

\* The documents page (DocumentsPage.tsx, ProcessingPanel.tsx) shows the documents
\* there are once nothing is under way, however many calls of the list overtake one
\* another, unless what came last is known to be behind; and the panel shows the
\* progress of its own document.
THEOREM DocumentsAlwaysShown == DocumentsSpec => []DocumentsAreShown
<1>1. DocumentsInit => DocumentsInv
  BY DocumentsStart
<1>2. DocumentsInv /\ [DocumentsNext]_documentsVars => DocumentsInv'
  BY DocumentsStep
<1>3. DocumentsInv => DocumentsAreShown
  BY DocumentsTell
<1> QED
  BY <1>1, <1>2, <1>3, PTL DEF DocumentsSpec
=============================================================================
