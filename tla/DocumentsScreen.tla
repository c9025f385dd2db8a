--------------------------- MODULE DocumentsScreen ---------------------------
(***************************************************************************)
(* The documents page of the dashboard (DocumentsPage.tsx with UploadButton, *)
(* ConfirmDialog and ProcessingPanel): the list is loaded once and polled    *)
(* while a document it shows is in flight; uploads and deletions of this     *)
(* page are entered into it as their answers come; the panel polls the       *)
(* progress of the newest document in flight.                              *)
(*                                                                         *)
(* Answers of the list are neither ordered nor cancelled.  Documents that     *)
(* are ready or have failed are "settled".  Left out: the filters, other      *)
(* members' uploads, a switch of the workspace.                             *)
(***************************************************************************)
EXTENDS Integers, Sequences, FiniteSets, FiniteSetsExt, Functions

CONSTANTS Documents,   \* how many are ever uploaded, numbered in order
          ListCalls, ProgressCalls   \* bounds: calls of the list, of the progress, under way

ASSUME ScreenAssumption == {Documents, ListCalls, ProgressCalls} \subseteq Nat \ {0}

VARIABLES
  library,    \* of each document, its row's status; "none" before and after its life
  latest,     \* the number of the newest that was uploaded
  shown,      \* the page's documents
  loading,
  calls,      \* listDocuments: those under way, with the answer once it is made up
  uploading,  \* UploadButton: the call under way
  dialog,     \* pendingDelete; 0 is null
  deletion,   \* the deletion under way
  panel,      \* ProcessingPanel: its document, whose progress it shows
  polls,      \* its calls; those of an effect cleaned up are not live
  missed      \* history: why the page may be behind with nothing under way

documentsVars == <<library, latest, shown, loading, calls, uploading, dialog, deletion, panel, polls,
                   missed>>

DocIds == 1..Documents
InFlight == {"uploaded", "processing"}
NoPanel == [doc |-> 0, of |-> 0, answered |-> FALSE]
NewCall == [served |-> FALSE, rows |-> <<>>, old |-> FALSE]

DocumentsTypeOK ==
  /\ library \in [DocIds -> InFlight \cup {"none", "settled"}] /\ latest \in 0..Documents
  /\ \A i \in DOMAIN shown : shown[i].doc \in 1..latest /\ shown[i].status \in InFlight \cup {"settled"}
  /\ loading \in BOOLEAN
  /\ \A c \in calls : c.served \in BOOLEAN /\ c.old \in BOOLEAN
  /\ uploading \in {"no", "sent", "stored"}
  /\ dialog \in 0..latest
  /\ deletion \in [doc : 0..latest, state : {"no", "sent", "done"}]
  /\ panel \in [doc : 0..latest, of : 0..latest, answered : BOOLEAN]
  /\ polls \subseteq [doc : DocIds, live : BOOLEAN] /\ missed \in BOOLEAN
  \* The panel is about the newest document the page shows in flight.
  /\ \A i \in DOMAIN shown : shown[i].status \in InFlight => shown[i].doc <= panel.doc
  /\ panel.doc # 0 => \E i \in DOMAIN shown : shown[i].doc = panel.doc

DocumentsInit ==
  /\ library = [d \in DocIds |-> IF d = 1 THEN "processing" ELSE "none"] /\ latest = 1
  /\ shown = <<>> /\ loading = TRUE
  /\ calls = {NewCall}
  /\ uploading = "no" /\ dialog = 0 /\ deletion = [doc |-> 0, state |-> "no"]
  /\ panel = NoPanel /\ polls = {} /\ missed = FALSE

-----------------------------------------------------------------------------
\* The rows of the table of documents.
Stored == {[doc |-> d, status |-> library[d]] : d \in {e \in DocIds : library[e] # "none"}}

\* listForWorkspace: newest first, in the one order there is.
Library ==
  {rows \in [1..Cardinality(Stored) -> Stored] :
     \A i, j \in DOMAIN rows : i < j => rows[i].doc > rows[j].doc}

\* The worker's moves.
Processes(d) ==
  /\ \/ library[d] = "uploaded" /\ library' = [library EXCEPT ![d] = "processing"]
     \/ library[d] = "processing" /\ library' = [library EXCEPT ![d] = "settled"]
  /\ UNCHANGED <<latest, shown, loading, calls, uploading, dialog, deletion, panel, polls, missed>>

\* Answers of the list that were made up before an upload or a deletion.
Outdated == {[c EXCEPT !.old = c.served] : c \in calls}

ServeUpload ==
  /\ uploading = "sent"
  /\ latest' = latest + 1 /\ library' = [library EXCEPT ![latest + 1] = "uploaded"]
  /\ uploading' = "stored" /\ calls' = Outdated
  /\ UNCHANGED <<shown, loading, dialog, deletion, panel, polls, missed>>

ServeRemoval ==
  /\ deletion.state = "sent" /\ library[deletion.doc] # "none"
  /\ library' = [library EXCEPT ![deletion.doc] = "none"]
  /\ deletion' = [deletion EXCEPT !.state = "done"] /\ calls' = Outdated
  /\ UNCHANGED <<latest, shown, loading, uploading, dialog, panel, polls, missed>>

ServeList(c) ==
  /\ ~c.served
  /\ \E rows \in Library : calls' = (calls \ {c}) \cup {[served |-> TRUE, rows |-> rows, old |-> FALSE]}
  /\ UNCHANGED <<library, latest, shown, loading, uploading, dialog, deletion, panel, polls, missed>>

-----------------------------------------------------------------------------
ActiveDocument(rows) ==
  LET active == {i \in DOMAIN rows : rows[i].status \in InFlight}
  IN  IF active = {} THEN 0 ELSE rows[Min(active)].doc

\* setDocuments, and with it what the panel is about: for another document its
\* effect is cleaned up and starts anew, with the progress it has.
Shows(rows) ==
  LET active == ActiveDocument(rows)
  IN  /\ shown' = rows
      /\ IF active = panel.doc THEN UNCHANGED <<panel, polls>>
         ELSE /\ panel' = IF active = 0 THEN NoPanel
                          ELSE [doc |-> active, of |-> panel.of, answered |-> FALSE]
              /\ polls' = {[p EXCEPT !.live = FALSE] : p \in polls}

\* The answer of refresh, whatever came in between.
ListArrives(c) ==
  /\ c.served
  /\ Shows(c.rows)
  /\ missed' = c.old /\ loading' = FALSE
  /\ calls' = calls \ {c}
  /\ UNCHANGED <<library, latest, uploading, dialog, deletion>>

\* Nothing is tried again, except by the timer.
ListFails(c) ==
  /\ missed' = (missed \/ loading) /\ loading' = FALSE
  /\ calls' = calls \ {c}
  /\ UNCHANGED <<library, latest, shown, uploading, dialog, deletion, panel, polls>>

\* Mutant of StillProcessing: what waits in the queue is not looked at.
StillProcessingOnly(rows) == \E i \in DOMAIN rows : rows[i].status = "processing"

StillProcessing(rows) == \E i \in DOMAIN rows : rows[i].status \in InFlight

\* The timer, which does not wait for the answer of the call before.
Polls ==
  /\ StillProcessing(shown)
  /\ Cardinality(calls) < ListCalls /\ calls' = calls \cup {NewCall}
  /\ UNCHANGED <<library, latest, shown, loading, uploading, dialog, deletion, panel, polls, missed>>

\* handleFileChosen, one file at a time.
ChooseFile ==
  /\ uploading = "no" /\ latest < Documents
  /\ uploading' = "sent"
  /\ UNCHANGED <<library, latest, shown, loading, calls, dialog, deletion, panel, polls, missed>>

\* The document enters the list, in which a poll may have shown it already; the
\* answer was made up when its job was queued.
Uploaded ==
  /\ uploading = "stored"
  /\ uploading' = "no"
  /\ Shows(<<[doc |-> latest, status |-> "uploaded"]>> \o shown)
  /\ UNCHANGED <<library, latest, loading, calls, dialog, deletion, missed>>

\* It is refused, or its answer is lost.
UploadFails ==
  /\ uploading # "no"
  /\ uploading' = "no" /\ missed' = (missed \/ uploading = "stored")
  /\ UNCHANGED <<library, latest, shown, loading, calls, dialog, deletion, panel, polls>>

\* The dialog opens; Escape and the backdrop close it, even while it is busy.
PendDelete(d) ==
  /\ \/ dialog = 0 /\ \E i \in DOMAIN shown : shown[i].doc = d
     \/ dialog # 0 /\ d = 0
  /\ dialog' = d
  /\ UNCHANGED <<library, latest, shown, loading, calls, uploading, deletion, panel, polls, missed>>

\* confirmDelete, whose button is disabled while one is under way.
ConfirmDelete ==
  /\ dialog # 0 /\ deletion.state = "no"
  /\ deletion' = [doc |-> dialog, state |-> "sent"]
  /\ UNCHANGED <<library, latest, shown, loading, calls, uploading, dialog, panel, polls, missed>>

\* prev.filter: the other places, in their order.
Without(rows, d) ==
  LET kept == {i \in DOMAIN rows : rows[i].doc # d}
  IN  {[i \in DOMAIN f |-> rows[f[i]]] :
         f \in {f \in [1..Cardinality(kept) -> kept] : \A i, j \in DOMAIN f : i < j => f[i] < f[j]}}

\* Whatever dialog is open by then is closed.
Deleted ==
  /\ deletion.state = "done"
  /\ \E rest \in Without(shown, deletion.doc) : Shows(rest)
  /\ dialog' = 0
  /\ deletion' = [doc |-> 0, state |-> "no"]
  /\ UNCHANGED <<library, latest, loading, calls, uploading, missed>>

\* The dialog stays open: it was not deleted, or nobody knows.
DeletionFails ==
  /\ deletion.state # "no"
  /\ deletion' = [doc |-> 0, state |-> "no"] /\ missed' = (missed \/ deletion.state = "done")
  /\ UNCHANGED <<library, latest, shown, loading, calls, uploading, dialog, panel, polls>>

-----------------------------------------------------------------------------
\* The panel.

PollsProgress ==
  /\ panel.doc # 0 /\ Cardinality(polls) < ProgressCalls
  /\ polls' = polls \cup {[doc |-> panel.doc, live |-> TRUE]}
  /\ UNCHANGED <<library, latest, shown, loading, calls, uploading, dialog, deletion, panel, missed>>

Progresses(p) ==
  IF p.live THEN panel' = [panel EXCEPT !.of = p.doc, !.answered = TRUE] ELSE UNCHANGED panel

\* An answer, or an error that is ignored.
ProgressArrives(p) ==
  /\ Progresses(p) \/ UNCHANGED panel
  /\ polls' = polls \ {p}
  /\ UNCHANGED <<library, latest, shown, loading, calls, uploading, dialog, deletion, missed>>

DocumentsNext ==
  \/ \E d \in DocIds : Processes(d) \/ PendDelete(d)
  \/ PendDelete(0) \/ ConfirmDelete \/ ServeRemoval \/ Deleted \/ DeletionFails
  \/ ChooseFile \/ ServeUpload \/ Uploaded \/ UploadFails
  \/ Polls \/ \E c \in calls : ServeList(c) \/ ListArrives(c) \/ ListFails(c)
  \/ PollsProgress \/ \E p \in polls : ProgressArrives(p)

DocumentsSpec == DocumentsInit /\ [][DocumentsNext]_documentsVars

-----------------------------------------------------------------------------
\* Whether something still brings the page up to date.
CatchingUp ==
  \/ StillProcessing(shown) \/ uploading # "no" \/ deletion.state # "no"
  \/ calls # {}

\* Once nothing is in flight the page shows the workspace's documents, each once;
\* unless the last answer of the list was made up before an upload or a deletion
\* it arrived after, or an answer was lost.  Then nothing corrects the page.
PageCatchesUp == ~CatchingUp /\ ~missed => shown \in Library

\* The panel shows the progress of its own document, from its first answer on.
PanelIsOwn == panel.answered => panel.of = panel.doc

\* So the documents page: at rest it shows what there is, and each progress its own.
DocumentsAreShown == DocumentsTypeOK /\ PageCatchesUp /\ PanelIsOwn
=============================================================================
