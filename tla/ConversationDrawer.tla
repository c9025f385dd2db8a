------------------------- MODULE ConversationDrawer -------------------------
(***************************************************************************)
(* The history of a conversation in the console's drawer                    *)
(* (ConversationDrawer.tsx), read page by page, from its end, by keyset      *)
(* (HandoffService.listTurns, buildCursorPage), while its customer goes on   *)
(* writing and the agent goes on to another conversation.                  *)
(*                                                                         *)
(* Opening another conversation keeps the drawer mounted: the call for the   *)
(* first page of the old one is cancelled, that for its older messages is    *)
(* not.  Left out: the live messages (AgentConsole), the draft, scrolling.   *)
(***************************************************************************)
EXTENDS Naturals, Sequences, FiniteSets, SequencesExt, FiniteSetsExt

CONSTANTS Threads, NoThread,
          PageLimit,        \* PAGE_LIMIT
          MaxStored          \* bound: turns stored

ASSUME DrawerAssumption == /\ NoThread \notin Threads
                            /\ PageLimit \in Nat \ {0} /\ MaxStored \in Nat

VARIABLES
  turnTable, \* the table of turns: the conversation of each id that was taken
  visible,   \* the ids whose transaction has committed
  drawer,    \* what the drawer shows
  pages,     \* calls of listTurns under way
  mixed,     \* history: older messages asked for before this conversation was opened
             \* have been put in front of its own
  missed     \* history: turns committed after a page that passes over their id was read

table      == <<turnTable, visible>>
drawerVars == <<turnTable, visible, drawer, pages, mixed, missed>>

TurnIds == 1..MaxStored
Cursors == 0..MaxStored      \* 0 is null
TurnsOf(t) == {i \in visible : turnTable[i] = t}
InOrder(ids) ==
  CHOOSE s \in [1..Cardinality(ids) -> ids] : \A i, j \in DOMAIN s : i < j => s[i] < s[j]

DrawerTypeOK ==
  /\ turnTable \in Seq(Threads) /\ Len(turnTable) <= MaxStored
  /\ visible \subseteq DOMAIN turnTable /\ missed \subseteq visible
  /\ drawer \in [thread : Threads \cup {NoThread}, turns : Seq(TurnIds), cursor : Cursors,
                 hasMore : BOOLEAN, loadingOlder : BOOLEAN]
  /\ pages \subseteq [thread : Threads, cursor : Cursors, older : BOOLEAN, late : BOOLEAN,
                      reply : {"none", "page", "broken"},
                 page : [items : Seq(TurnIds), next : Cursors, more : BOOLEAN]]
  /\ mixed \in BOOLEAN
  \* The button is locked exactly while older messages are on their way.
  /\ drawer.loadingOlder <=> \E p \in pages : p.older

EmptyDrawer(t) ==
  [thread |-> t, turns |-> <<>>, cursor |-> 0, hasMore |-> FALSE, loadingOlder |-> FALSE]

DrawerInit ==
  /\ turnTable = <<>> /\ visible = {}
  /\ drawer = EmptyDrawer(NoThread) /\ pages = {} /\ mixed = FALSE /\ missed = {}

-----------------------------------------------------------------------------
\* persistAndReturn saves the next turn, which takes its id; the transaction goes
\* on to meter the answer.  One that rolls back leaves its id unused.
TurnSaved(t) ==
  /\ Len(turnTable) < MaxStored
  /\ turnTable' = Append(turnTable, t)
  /\ UNCHANGED <<visible, drawer, pages, mixed, missed>>

\* What has been read of the open conversation: by the page on its way, down to
\* its first row, or to the beginning when it says that there is no more ...
PageCovers(p, i) ==
  /\ p.reply = "page" /\ ~p.late
  /\ p.page.more => p.page.next <= i
  /\ IF p.cursor = 0 THEN p.page.items # <<>> /\ i < Last(p.page.items) ELSE i < p.cursor

\* ... and by those already shown.
DrawerCovers(i) ==
  /\ ~mixed /\ drawer.turns # <<>>
  /\ drawer.hasMore => drawer.cursor <= i
  /\ i < Last(drawer.turns)

\* Two answers may be under way for one customer, and commit in either order.
TurnCommitted(i) ==
  /\ visible' = visible \cup {i}
  /\ missed' = IF /\ turnTable[i] = drawer.thread
                  /\ DrawerCovers(i) \/ \E p \in pages : PageCovers(p, i)
               THEN missed \cup {i} ELSE missed
  /\ UNCHANGED <<turnTable, drawer, pages, mixed>>

Newest(ids, n) == {i \in ids : Cardinality({j \in ids : j >= i}) <= n}

\* Mutant of CursorPageOf: a full page is taken for a sign of more.
CursorPageFull(rows, limit) ==
  LET items == Newest(rows, limit)
      more == Cardinality(rows) >= limit
  IN [items |-> InOrder(items), next |-> IF more THEN Min(items) ELSE 0, more |-> more]

\* buildCursorPage on the rows fetched, of which one more than the limit tells
\* that there are older ones; listTurns returns them oldest first.
CursorPageOf(rows, limit) ==
  LET items == Newest(rows, limit)
      more == Cardinality(rows) > limit
  IN [items |-> InOrder(items), next |-> IF more THEN Min(items) ELSE 0, more |-> more]

ListTurns(p) ==
  LET found == {i \in TurnsOf(p.thread) : p.cursor = 0 \/ i < p.cursor}
  IN CursorPageOf(Newest(found, PageLimit + 1), PageLimit)

ServeTurns(p) ==
  /\ p.reply = "none"
  /\ pages' = (pages \ {p}) \cup {[p EXCEPT !.reply = "page", !.page = ListTurns(p)]}
  /\ UNCHANGED <<table, drawer, mixed, missed>>

PageBreaks(p) ==
  /\ p.reply = "none"
  /\ pages' = (pages \ {p}) \cup {[p EXCEPT !.reply = "broken"]}
  /\ UNCHANGED <<table, drawer, mixed, missed>>

-----------------------------------------------------------------------------
PageCall(t, cursor, older) ==
  [thread |-> t, cursor |-> cursor, older |-> older, late |-> FALSE, reply |-> "none",
   page |-> [items |-> <<>>, next |-> 0, more |-> FALSE]]

\* The drawer is mounted, or goes on to another conversation: turns and cursor
\* are reset, hasMore and loadingOlder are not.
OpensThread(t) ==
  /\ t # drawer.thread
  /\ drawer' = IF drawer.thread = NoThread THEN EmptyDrawer(t)
               ELSE [drawer EXCEPT !.thread = t, !.turns = <<>>, !.cursor = 0]
  /\ pages' = {[p EXCEPT !.late = TRUE] : p \in {q \in pages : q.older}}
              \cup {PageCall(t, 0, FALSE)}
  /\ mixed' = FALSE /\ missed' = {}
  /\ UNCHANGED table

\* Unmounted: what is still under way is answered to nobody.
DrawerCloses ==
  /\ drawer.thread # NoThread
  /\ drawer' = EmptyDrawer(NoThread) /\ pages' = {} /\ mixed' = FALSE
  /\ missed' = {}
  /\ UNCHANGED table

LoadOlder ==
  /\ drawer.hasMore /\ drawer.cursor # 0 /\ ~drawer.loadingOlder
  /\ drawer' = [drawer EXCEPT !.loadingOlder = TRUE]
  /\ pages' = pages \cup {[PageCall(drawer.thread, drawer.cursor, TRUE) EXCEPT !.late = mixed]}
  /\ UNCHANGED <<table, mixed, missed>>

FirstPage(p) ==
  /\ ~p.older /\ p.reply = "page"
  /\ drawer' = [drawer EXCEPT !.turns = p.page.items, !.cursor = p.page.next,
                              !.hasMore = p.page.more]
  /\ pages' = pages \ {p} /\ mixed' = FALSE
  /\ UNCHANGED <<table, missed>>

WithOlder(turns, items) == items \o turns

OlderPage(p) ==
  /\ p.older /\ p.reply = "page"
  /\ drawer' = [drawer EXCEPT !.turns = WithOlder(@, p.page.items), !.cursor = p.page.next,
                              !.hasMore = p.page.more, !.loadingOlder = FALSE]
  /\ pages' = pages \ {p} /\ mixed' = (mixed \/ p.late)
  /\ UNCHANGED <<table, missed>>

\* An error is shown; the button is free again.
PageFailed(p) ==
  /\ p.reply = "broken"
  /\ drawer' = [drawer EXCEPT !.loadingOlder = @ /\ ~p.older]
  /\ pages' = pages \ {p}
  /\ UNCHANGED <<table, mixed, missed>>

DrawerNext ==
  \/ \E t \in Threads : TurnSaved(t) \/ OpensThread(t)
  \/ \E i \in DOMAIN turnTable \ visible : TurnCommitted(i)
  \/ \E p \in pages : ServeTurns(p) \/ PageBreaks(p) \/ FirstPage(p) \/ OlderPage(p) \/ PageFailed(p)
  \/ LoadOlder \/ DrawerCloses

DrawerSpec == DrawerInit /\ [][DrawerNext]_drawerVars

-----------------------------------------------------------------------------
\* The history shown is one stretch of the conversation, in order, without a gap
\* or a repetition whatever was written meanwhile, and what is said of older
\* messages is true of it -- unless messages of an earlier conversation came late,
\* and but for turns that were committed after a later one, between the two reads.
HistoryIsWhole ==
  ~mixed /\ drawer.turns # <<>> =>
    LET own == TurnsOf(drawer.thread) \ missed
        from == Head(drawer.turns)
    IN /\ drawer.turns = InOrder({i \in own : from <= i /\ i <= Last(drawer.turns)})
       /\ drawer.hasMore <=> \E i \in own : i < from
       /\ drawer.hasMore => drawer.cursor = from

\* The drawer shows the history of the conversation it is open for.
DrawerShowsItsThread == DrawerTypeOK /\ HistoryIsWhole
=============================================================================
