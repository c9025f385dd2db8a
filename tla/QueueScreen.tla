----------------------------- MODULE QueueScreen -----------------------------
(***************************************************************************)
(* The queue's table in the console (QueueTable.tsx on DataTable, useFetch  *)
(* and useDebouncedValue) and the two queries behind it: a page of the       *)
(* queue, counted by one statement and read by another                      *)
(* (HandoffService.listQueue, buildOffsetPage), and the counts on the tabs   *)
(* (getStats).                                                             *)
(*                                                                         *)
(* Filters, the debounced search and the page make the key of a fetch; a     *)
(* new key, or an event of the queue, supersedes the fetch under way, whose  *)
(* answer may still come.  Left out: what the columns show, and sessions     *)
(* that are open, which no tab lists.                                      *)
(***************************************************************************)
EXTENDS Integers, Sequences, FiniteSets, SequencesExt

CONSTANTS QueueSize,   \* sessions in the queue, numbered by id
          Initially, Since,   \* what their status is at first, when each was escalated
          Found,       \* those the search term is found in at first
          PageSize,
          MaxMoves, MaxSelects   \* bounds: changes of the queue, of what the table is set to

QueueIds == 1..QueueSize

ASSUME QueueAssumption ==
  /\ QueueSize \in Nat /\ PageSize \in Nat \ {0} /\ {MaxMoves, MaxSelects} \subseteq Nat
  /\ Initially \in [QueueIds -> {"escalated", "claimed", "resolved"}]
  /\ Since \in [QueueIds -> Int] /\ Found \subseteq QueueIds

VARIABLES
  queue,          \* of each session: its status, when it was resolved, if it waits for long,
                  \* if the search term is found in it
  moves, selects, \* how many changes there were
  setting,        \* what the table is set to: tab, priority, page, search, and the input
  fetches,        \* the calls of listQueue under way; the one not superseded is live
  stats,          \* the counts on the tabs, whether their fetch is under way, and its error,
                  \* which nothing shows
  data,           \* the page shown, and the key it is of
  fetching,       \* useFetch's flags
  failed,
  moved,          \* history: the queue changed since the last event made everything read again
  hasty           \* history: a page was turned while another list was on its way, or the
                  \* queue has changed

queueVars == <<queue, moves, selects, setting, fetches, stats, data, fetching, failed, moved, hasty>>

QueueTabs == {"waiting", "active", "resolved", "all"}
Priorities == {"any", "high", "normal"}
Key == [tab : QueueTabs, priority : Priorities, page : Nat \ {0}, search : BOOLEAN]
QueuePage == [items : Seq(QueueIds), total : 0..QueueSize, key : Key]

QueueTypeOK ==
  /\ queue \in [QueueIds -> [status : {"escalated", "claimed", "resolved"},
                             resolvedAt : 0..MaxMoves, high : BOOLEAN, found : BOOLEAN]]
  /\ moves \in 0..MaxMoves /\ selects \in 0..MaxSelects
  /\ setting \in [key : Key, input : BOOLEAN]
  /\ fetches \subseteq [key : Key, live : BOOLEAN, total : -1..QueueSize]
  /\ stats \in [counts : [QueueTabs \ {"all"} -> 0..QueueSize], known : BOOLEAN, pending : BOOLEAN,
               failed : BOOLEAN]
  /\ data \in QueuePage
  /\ fetching \in BOOLEAN /\ failed \in BOOLEAN /\ moved \in BOOLEAN /\ hasty \in BOOLEAN
  \* The table is loading as long as the fetch of its key is under way, and no longer.
  /\ fetching <=> \E f \in fetches : f.live
  /\ \A f, g \in fetches : f.live /\ g.live => f = g

FirstKey == [tab |-> "waiting", priority |-> "any", page |-> 1, search |-> FALSE]
Fetch(key) == [key |-> key, live |-> TRUE, total |-> -1]

QueueInit ==
  /\ queue = [r \in QueueIds |-> [status |-> Initially[r], resolvedAt |-> 0, high |-> FALSE,
                               found |-> r \in Found]]
  /\ moves = 0 /\ selects = 0
  /\ setting = [key |-> FirstKey, input |-> FALSE]
  /\ fetches = {Fetch(FirstKey)}
  /\ stats = [counts |-> [t \in QueueTabs \ {"all"} |-> 0], known |-> FALSE, pending |-> TRUE,
             failed |-> FALSE]
  /\ data = [items |-> <<>>, total |-> 0, key |-> FirstKey]
  /\ fetching = TRUE /\ failed = FALSE /\ moved = FALSE /\ hasty = FALSE

-----------------------------------------------------------------------------
\* The backend.

Status(tab) ==
  CASE tab = "waiting" -> {"escalated"} [] tab = "active" -> {"claimed"}
    [] tab = "resolved" -> {"resolved"} [] OTHER -> {"escalated", "claimed", "resolved"}

\* The FROM and WHERE that the count and the page share.
Listed(key) ==
  {r \in QueueIds : /\ queue[r].status \in Status(key.tab)
                    /\ key.search => queue[r].found
                    /\ key.priority # "any" => (queue[r].high <=> key.priority = "high")}

\* ORDER BY, with the id as tiebreaker.
Before(tab, r, s) ==
  IF tab = "resolved"
  THEN \/ queue[r].resolvedAt > queue[s].resolvedAt
       \/ queue[r].resolvedAt = queue[s].resolvedAt /\ r > s
  ELSE Since[r] < Since[s] \/ (Since[r] = Since[s] /\ r < s)

Ordered(key) ==
  CHOOSE rows \in [1..Cardinality(Listed(key)) -> Listed(key)] :
    \A i, j \in DOMAIN rows : i < j => Before(key.tab, rows[i], rows[j])

\* LIMIT and OFFSET.
Slice(rows, page) ==
  SubSeq(rows, (page - 1) * PageSize + 1, Min({page * PageSize, Len(rows)}))

TotalPages(total) == (total + PageSize - 1) \div PageSize

\* The first statement of listQueue.
Count(f) ==
  /\ f.total = -1
  /\ fetches' = (fetches \ {f}) \cup {[f EXCEPT !.total = Cardinality(Listed(f.key))]}
  /\ UNCHANGED <<queue, moves, selects, setting, stats, data, fetching, failed, moved, hasty>>

\* A session is claimed, resolved, put back, or has waited for three minutes, or its
\* customer writes, so that the search looks at another question (of these two no
\* event tells); it may leave the list.
QueueMoves(r) ==
  /\ moves < MaxMoves
  /\ moves' = moves + 1 /\ moved' = TRUE
  /\ \/ /\ queue[r].status = "escalated"
        /\ queue' = [queue EXCEPT ![r].status = "claimed"]
     \/ /\ queue[r].status = "claimed"
        /\ queue' = [queue EXCEPT ![r].status = "resolved", ![r].resolvedAt = moves + 1]
     \/ /\ queue[r].status = "claimed"
        /\ queue' = [queue EXCEPT ![r].status = "escalated"]
     \/ ~queue[r].high /\ queue' = [queue EXCEPT ![r].high = TRUE]
     \/ queue' = [queue EXCEPT ![r].found = ~@]
  /\ hasty' = TRUE
  /\ UNCHANGED <<selects, setting, fetches, stats, data, fetching, failed>>

-----------------------------------------------------------------------------
\* The table.

\* The effect of useFetch: the fetch under way is superseded.  One superseded
\* answer at a time is kept waiting.
Refetched(key) == {[f EXCEPT !.live = FALSE] : f \in {g \in fetches : g.live}} \cup {Fetch(key)}

Sets(key, input) ==
  /\ selects < MaxSelects /\ selects' = selects + 1
  /\ setting' = [key |-> key, input |-> input]
  /\ IF key = setting.key THEN UNCHANGED <<fetches, fetching>>
     ELSE fetches' = Refetched(key) /\ fetching' = TRUE
  /\ UNCHANGED <<queue, moves, stats, data, failed, moved>>

\* resetTo.
ResetTo(key) == [key EXCEPT !.page = 1]

SelectTab(t) ==
  t # setting.key.tab /\ Sets(ResetTo([setting.key EXCEPT !.tab = t]), setting.input) /\ UNCHANGED hasty

SelectPriority(p) ==
  /\ p # setting.key.priority
  /\ Sets(ResetTo([setting.key EXCEPT !.priority = p]), setting.input) /\ UNCHANGED hasty

\* The page is reset with the first keystroke, the search changes later.
TypeSearch == Sets(ResetTo(setting.key), ~setting.input) /\ UNCHANGED hasty

Debounced ==
  /\ setting.input # setting.key.search
  /\ Sets([setting.key EXCEPT !.search = setting.input], setting.input) /\ UNCHANGED hasty

\* The pager's buttons, which go by the page shown.
TurnPage(d) ==
  /\ data.total > 0
  /\ IF d = -1 THEN data.key.page > 1 ELSE data.key.page < TotalPages(data.total)
  /\ Sets([setting.key EXCEPT !.page = data.key.page + d], setting.input)
  /\ hasty' = (hasty \/ setting.input # setting.key.search \/ fetching \/ failed)

\* An event of the queue: the refresh token is part of every key.
QueueChanged ==
  /\ moved
  /\ moved' = FALSE
  /\ fetches' = Refetched(setting.key) /\ fetching' = TRUE
  /\ stats' = [stats EXCEPT !.pending = TRUE]
  /\ UNCHANGED <<queue, moves, selects, setting, data, failed, hasty>>

\* Mutant of Settles: a superseded answer is shown too.
SettlesLate(f) ==
  /\ data' = [items |-> Slice(Ordered(f.key), f.key.page), total |-> f.total, key |-> f.key]
  /\ failed' = FALSE /\ fetching' = (fetching /\ ~f.live)

\* The answer is shown, unless it was superseded.
Settles(f) ==
  IF f.live
  THEN /\ data' = [items |-> Slice(Ordered(f.key), f.key.page), total |-> f.total, key |-> f.key]
       /\ failed' = FALSE /\ fetching' = FALSE
  ELSE UNCHANGED <<data, failed, fetching>>

\* The second statement of listQueue, and its answer.
PageArrives(f) ==
  /\ f.total # -1
  /\ fetches' = fetches \ {f}
  /\ Settles(f)
  /\ UNCHANGED <<queue, moves, selects, setting, stats, moved, hasty>>

\* The rows stay; the table does not show the error.
FetchFails(f) ==
  /\ fetches' = fetches \ {f}
  /\ IF f.live THEN failed' = TRUE /\ fetching' = FALSE ELSE UNCHANGED <<failed, fetching>>
  /\ UNCHANGED <<queue, moves, selects, setting, stats, data, moved, hasty>>

\* getStats, one statement.
CountOf(t) == Cardinality({r \in QueueIds : queue[r].status \in Status(t)})

StatsArrive ==
  /\ stats.pending
  /\ stats' = [counts |-> [t \in QueueTabs \ {"all"} |-> CountOf(t)], known |-> TRUE,
               pending |-> FALSE, failed |-> FALSE]
  /\ UNCHANGED <<queue, moves, selects, setting, fetches, data, fetching, failed, moved, hasty>>

\* The counts there were stay on the tabs.
StatsFail ==
  /\ stats.pending
  /\ stats' = [stats EXCEPT !.pending = FALSE, !.failed = TRUE]
  /\ UNCHANGED <<queue, moves, selects, setting, fetches, data, fetching, failed, moved, hasty>>

QueueNext ==
  \/ \E r \in QueueIds : QueueMoves(r)
  \/ \E f \in fetches : Count(f) \/ PageArrives(f) \/ FetchFails(f)
  \/ \E t \in QueueTabs : SelectTab(t)
  \/ \E p \in Priorities : SelectPriority(p)
  \/ \E d \in {-1, 1} : TurnPage(d)
  \/ TypeSearch \/ Debounced \/ QueueChanged \/ StatsArrive \/ StatsFail

QueueSpec == QueueInit /\ [][QueueNext]_queueVars

-----------------------------------------------------------------------------
Settled == ~fetching /\ ~failed

\* What the table shows is what it is set to, however the answers were ordered;
\* only a failed fetch, which it does not show, leaves the rows of another tab.
ShowsWhatIsAsked == Settled => data.key = setting.key

\* Unless the queue changed meanwhile, the page is the right stretch of the
\* list, and its total that of the list and of the tab's count; only a failed
\* fetch of the counts, of which nothing tells, leaves older ones on the tabs.
PagesAreExact ==
  Settled /\ ~moved =>
    /\ data.total = Cardinality(Listed(data.key))
    /\ \A i \in DOMAIN data.items :
         /\ data.items[i] \in Listed(data.key)
         /\ Cardinality({r \in Listed(data.key) : Before(data.key.tab, r, data.items[i])})
              = (data.key.page - 1) * PageSize + i - 1
    /\ (~stats.pending /\ ~stats.failed /\ ~setting.key.search /\ setting.key.priority = "any"
          /\ setting.key.tab # "all") => stats.counts[setting.key.tab] = data.total

\* The table is empty only if the list is, unless the queue changed, or a page was
\* turned before what had been selected or typed took effect.
NoEmptyPage == Settled /\ ~hasty /\ data.items = <<>> => data.total = 0

\* Once the table has settled it shows the page it is set to, exactly, and is empty
\* only if the list is.
QueueIsShown == QueueTypeOK /\ ShowsWhatIsAsked /\ PagesAreExact /\ NoEmptyPage
=============================================================================
