---------------------------- MODULE AgentConsole ----------------------------
(***************************************************************************)
(* The agent console of one agent (ConsoleApp.tsx, useAgentSocket.ts): the  *)
(* conversation open in the drawer, its row, which is read again after every *)
(* event of the queue, the rooms the agent's socket has joined, and the      *)
(* messages shown live.                                                    *)
(*                                                                         *)
(* The socket drops and comes back without its rooms; events sent meanwhile  *)
(* are lost, and 'ready' stands for all of them.  What is emitted while it   *)
(* is down is sent the moment it is up, which may be before the gateway has  *)
(* registered the connection; the gateway then closes the socket, and the   *)
(* client does not come back by itself.  The backend is what Handoff says of *)
(* it, one step per call.                                                  *)
(*                                                                         *)
(* Left out: the queue's table and tiles (module QueueScreen), the history   *)
(* in the drawer (ConversationDrawer), changing the workspace, and what the  *)
(* gateway does with an agent's message (WidgetChat).                       *)
(***************************************************************************)
EXTENDS Sequences, FiniteSets, SequencesExt

CONSTANTS Chats, NoChat,
          MaxConsoleCalls, MaxJoins   \* bounds: requests under way, joins not handled yet

ASSUME ConsoleAssumption == NoChat \notin Chats

VARIABLES
  rowStatus, \* of each conversation in the queue
  held,      \* those whose claimedByUserId is this agent
  conn,      \* the agent's socket
  rooms,     \* the conversation rooms it is in
  joins,     \* join-conversation events not handled yet
  news,      \* an event of the queue is on its way to the console
  open,      \* openRow: the conversation and the status shown
  live,      \* whose messages liveMessages holds
  requests,  \* the calls under way
  deaf,      \* history: the socket was lost since the conversation was opened
  unlucky,   \* history: a call has failed since then, or an older answer replaced the row
  visited    \* history: what this connection had joined when it was opened

server == <<rowStatus, held>>
histories == <<deaf, unlucky, visited>>
consoleVars == <<server, conn, rooms, joins, news, open, live, requests, histories>>

RowStatus == {"escalated", "claimed", "resolved"}
ConsoleRequest == [op : {"row", "open", "claim", "resolve"}, chat : Chats,
                   reply : RowStatus \cup {"none", "done", "conflict", "broken"}]

ConsoleTypeOK ==
  /\ rowStatus \in [Chats -> RowStatus] /\ held \subseteq Chats
  /\ conn \in {"off", "connecting", "ready", "dead"}
  /\ rooms \subseteq held
  /\ joins \in Seq(Chats)
  /\ news \in BOOLEAN
  /\ open \in [chat : Chats \cup {NoChat}, status : RowStatus]
  /\ live \subseteq Chats /\ visited \subseteq Chats
  /\ requests \subseteq ConsoleRequest
  /\ deaf \in BOOLEAN /\ unlucky \in BOOLEAN
  \* One row is read at a time, that of the open conversation.
  /\ \A q, r \in requests : q.op = "row" /\ r.op = "row" => q = r
  /\ \A q \in requests : q.op = "row" => q.chat = open.chat

Closed == [chat |-> NoChat, status |-> "escalated"]

ConsoleInit ==
  /\ rowStatus \in [Chats -> {"escalated", "claimed"}] /\ held = {}
  /\ conn = "connecting" /\ rooms = {} /\ joins = <<>> /\ news = FALSE
  /\ open = Closed /\ live = {} /\ requests = {}
  /\ deaf = FALSE /\ unlucky = FALSE /\ visited = {}

Ask(op, c) == [op |-> op, chat |-> c, reply |-> "none"]
Rows(calls) == {q \in calls : q.op = "row"}
Room == Cardinality(requests \ Rows(requests)) < MaxConsoleCalls

-----------------------------------------------------------------------------
\* The backend.

\* session-escalated, -claimed, -resolved reach the consoles that are connected.
Broadcast == news' = (news \/ conn = "ready")

\* Another agent claims it or resolves it, whoever claimed it; or its claimer
\* leaves the workspace.
OthersMove(c) ==
  /\ \/ rowStatus[c] = "escalated" /\ rowStatus' = [rowStatus EXCEPT ![c] = "claimed"] /\ UNCHANGED held
     \/ rowStatus[c] = "claimed" /\ rowStatus' = [rowStatus EXCEPT ![c] = "resolved"] /\ UNCHANGED held
     \/ /\ rowStatus[c] = "claimed" /\ c \notin held
        /\ rowStatus' = [rowStatus EXCEPT ![c] = "escalated"] /\ UNCHANGED held
  /\ Broadcast
  /\ UNCHANGED <<conn, rooms, joins, open, live, requests, histories>>

Answered(q, reply) == (requests \ {q}) \cup {[q EXCEPT !.reply = reply]}

ServeRow(q) ==
  /\ q.op \in {"row", "open"} /\ q.reply = "none"
  /\ requests' = Answered(q, rowStatus[q.chat])
  /\ UNCHANGED <<server, conn, rooms, joins, news, open, live, histories>>

\* claim, resolve: a conditional update, then the broadcast.
ServeMove(q) ==
  /\ q.op \in {"claim", "resolve"} /\ q.reply = "none"
  /\ IF rowStatus[q.chat] = (IF q.op = "claim" THEN "escalated" ELSE "claimed")
     THEN /\ rowStatus' = [rowStatus EXCEPT ![q.chat] = IF q.op = "claim" THEN "claimed" ELSE "resolved"]
          /\ held' = IF q.op = "claim" THEN held \cup {q.chat} ELSE held
          /\ requests' = Answered(q, "done") /\ Broadcast
     ELSE requests' = Answered(q, "conflict") /\ UNCHANGED <<server, news>>
  /\ UNCHANGED <<conn, rooms, joins, open, live, histories>>

\* The request or its answer is lost.
RequestBreaks(q) ==
  /\ q.reply # "broken"
  /\ requests' = Answered(q, "broken")
  /\ UNCHANGED <<server, conn, rooms, joins, news, open, live, histories>>

\* handleJoinConversation.
HandleJoin ==
  /\ conn \in {"connecting", "ready"} /\ joins # <<>>
  /\ IF conn = "connecting"
     THEN conn' = "dead" /\ rooms' = {} /\ joins' = <<>> /\ news' = FALSE /\ deaf' = TRUE
     ELSE /\ rooms' = rooms \cup ({Head(joins)} \cap held)
          /\ joins' = Tail(joins) /\ UNCHANGED <<conn, news, deaf>>
  /\ UNCHANGED <<server, open, live, requests, unlucky, visited>>

\* handleConnection is done.
Ready ==
  /\ conn = "connecting"
  /\ conn' = "ready" /\ news' = TRUE
  /\ UNCHANGED <<server, rooms, joins, open, live, requests, histories>>

Disconnected ==
  /\ conn \in {"connecting", "ready"}
  /\ conn' = "off" /\ rooms' = {} /\ joins' = <<>> /\ news' = FALSE /\ deaf' = TRUE
  /\ UNCHANGED <<server, open, live, requests, unlucky, visited>>

Reconnects ==
  /\ conn = "off"
  /\ conn' = "connecting"
  /\ UNCHANGED <<server, rooms, joins, news, open, live, requests, histories>>

\* A message of a conversation whose room the socket is in.
LiveMessage(c) ==
  /\ conn = "ready" /\ c \in rooms
  /\ live' = live \cup {c}
  /\ UNCHANGED <<server, conn, rooms, joins, news, open, requests, histories>>

-----------------------------------------------------------------------------
\* The console.

\* Mutant of Bumped: the open row's effect does not depend on the refresh token.
BumpedTable(calls) == calls

\* bumpRefresh: the effect on the open row cancels its call and makes a new one.
Bumped(calls) ==
  IF open.chat = NoChat THEN calls
  ELSE (calls \ Rows(calls)) \cup {Ask("row", open.chat)}

HearsNews ==
  /\ news /\ news' = FALSE
  /\ requests' = Bumped(requests)
  /\ UNCHANGED <<server, conn, rooms, joins, open, live, histories>>

\* A call is made for a row of the table, or for the open one.
Press(op, c) ==
  /\ Room
  /\ requests' = requests \cup {Ask(op, c)}
  /\ UNCHANGED <<server, conn, rooms, joins, news, open, live, histories>>

OpenBySessionId(c) == Press("open", c)
HandleClaim(c) == Press("claim", c)
HandleResolve == open.chat # NoChat /\ open.status = "claimed" /\ Press("resolve", open.chat)

\* joinConversation: emitted now, or as soon as the socket is up again.
JoinConversation(c) ==
  /\ live' = {}
  /\ conn # "dead" => joins' = Append(joins, c)
  /\ conn = "dead" => UNCHANGED joins

\* openConversation, with the row that was found; the effect runs for another one.
Opened(q) ==
  /\ q.op = "open" /\ q.reply \in RowStatus /\ Len(joins) < MaxJoins
  /\ open' = [chat |-> q.chat, status |-> q.reply]
  /\ JoinConversation(q.chat)
  /\ LET rest == requests \ {q}
     IN requests' = IF open.chat = q.chat THEN rest
                    ELSE (rest \ Rows(rest)) \cup {Ask("row", q.chat)}
  /\ deaf' = FALSE /\ visited' = rooms \cup Range(joins)
  /\ unlucky' = (open.chat = q.chat)
  /\ UNCHANGED <<server, conn, rooms, news>>

RowRead(q) ==
  /\ q.op = "row" /\ q.reply \in RowStatus
  /\ open' = [open EXCEPT !.status = q.reply]
  /\ requests' = requests \ {q}
  /\ UNCHANGED <<server, conn, rooms, joins, news, live, histories>>

\* A failed call shows an error, or nothing; a failed claim refreshes all the same.
Failed(q) ==
  /\ q.reply = "broken" \/ (q.op \in {"claim", "resolve"} /\ q.reply = "conflict")
  /\ requests' = IF q.op = "claim" THEN Bumped(requests \ {q}) ELSE requests \ {q}
  /\ unlucky' = (unlucky \/ (q.reply = "broken" /\ open.chat # NoChat))
  /\ UNCHANGED <<server, conn, rooms, joins, news, open, live, deaf, visited>>

\* handleClaim goes on: everything is refreshed, and the conversation opened.
Claimed(q) ==
  /\ q.op = "claim" /\ q.reply = "done"
  /\ requests' = Bumped(requests \ {q}) \cup {Ask("open", q.chat)}
  /\ UNCHANGED <<server, conn, rooms, joins, news, open, live, histories>>

\* handleResolve goes on: whatever is open by now is closed.
Resolved(q) ==
  /\ q.op = "resolve" /\ q.reply = "done"
  /\ open' = Closed /\ requests' = (requests \ {q}) \ Rows(requests)
  /\ unlucky' = FALSE
  /\ UNCHANGED <<server, conn, rooms, joins, news, live, deaf, visited>>

CloseDrawer ==
  /\ open.chat # NoChat
  /\ open' = Closed /\ requests' = requests \ Rows(requests)
  /\ unlucky' = FALSE
  /\ UNCHANGED <<server, conn, rooms, joins, news, live, deaf, visited>>

ConsoleNext ==
  \/ \E c \in Chats : \/ OthersMove(c) \/ LiveMessage(c) \/ OpenBySessionId(c)
                      \/ rowStatus[c] = "escalated" /\ HandleClaim(c)
  \/ \E q \in requests : \/ ServeRow(q) \/ ServeMove(q) \/ RequestBreaks(q)
                         \/ Opened(q) \/ RowRead(q) \/ Failed(q) \/ Claimed(q) \/ Resolved(q)
  \/ HandleJoin \/ Ready \/ Disconnected \/ Reconnects \/ HearsNews \/ HandleResolve \/ CloseDrawer

ConsoleSpec == ConsoleInit /\ [][ConsoleNext]_consoleVars

-----------------------------------------------------------------------------
\* The row shown of the open conversation does not stay outdated: either it is
\* the backend's, or an event is still to come, or a call that will read it is
\* under way -- or the socket is down, or a call was lost.
StaleRowWillRefresh ==
  open.chat # NoChat /\ conn = "ready" /\ ~unlucky =>
    \/ open.status = rowStatus[open.chat]
    \/ news
    \/ \E q \in requests : q.op = "row" /\ q.reply \in {"none", "broken", rowStatus[open.chat]}

\* A conversation this agent claimed, and has open, is heard: its room is
\* joined, or will be, unless the socket was lost since it was opened or a call
\* has failed.
HearsWhatIsOpen ==
  open.chat \in held /\ conn = "ready" /\ ~deaf /\ ~unlucky =>
    \/ open.chat \in rooms \cup Range(joins)
    \/ \E q \in requests : q.op \in {"claim", "open"} /\ q.chat = open.chat

\* The messages shown live are those of the open conversation, or of one this
\* connection had joined before: its room is never left.
LiveIsOwnOrVisited == open.chat # NoChat => live \subseteq {open.chat} \cup visited

\* What the agent sees of the open conversation is, or will be, what it is.
ConsoleIsCurrent ==
  ConsoleTypeOK /\ StaleRowWillRefresh /\ HearsWhatIsOpen /\ LiveIsOwnOrVisited
=============================================================================
