------------------------------ MODULE MCScreens ------------------------------
(* Screens of the dashboard with small sets: the agents' console (AgentConsole),
   the page behind an invitation's link, the dialog that sends one, the list of
   them (AcceptPage, InviteDialog, InvitationsTab), the documents, the
   playground and the team (DocumentsScreen, Playground, TeamScreen).  No screen
   knows of another: a behaviour shows one of them.                         *)
EXTENDS AgentConsole, AcceptPage, InviteDialog, InvitationsTab, DocumentsScreen,
        Playground, TeamScreen, TLC

CONSTANTS linkA, linkB, ann, bob

InviteeDef == [l \in {linkA, linkB} |-> IF l = linkA THEN ann ELSE bob]

ChatSymmetry == Permutations(Chats)

\* The console makes a second call only while a conversation is resolved, the
\* socket is up and nothing has gone wrong.
Calls == requests \ Rows(requests)

SmallConsole ==
  Cardinality(Calls') > 1 =>
    /\ {q.op : q \in Calls'} = {"open", "resolve"}
    /\ conn' = "ready" /\ joins' = <<>> /\ ~deaf' /\ ~unlucky'

\* Two answers of the documents' list are under way only while no dialog is open
\* and the panel asks for nothing.
SmallDocuments == Cardinality(calls') > 1 => dialog' = 0 /\ polls' = {}

\* A second call on the members, or a second reading of the totals, only while
\* little else is under way; others change something only while hardly anything is.
SmallTeam ==
  /\ Cardinality(changing') + Cardinality(refreshes') <= 2
  /\ Cardinality(changing') > 1 => listing'.state \in {"idle", "failed"}
  /\ roleOf' # roleOf /\ changing' = changing =>
       question = NoQuestion /\ Cardinality(changing) + Cardinality(refreshes) <= 1

VARIABLE kind

OneOfThem ==
  /\ kind \in {"console", "accept", "invite", "tab", "documents", "playground", "team"}
  /\ ConsoleInit /\ AcceptInit /\ InviteInit /\ TabInit
  /\ DocumentsInit /\ PlaygroundInit /\ TeamInit
  /\ kind # "console" => \A c \in Chats : rowStatus[c] = "escalated"
  /\ kind # "accept" => accounts = {}
  /\ kind # "team" => \A p \in People : roleOf[p] = "agent"

OneStep ==
  \/ /\ kind = "console" /\ ConsoleNext /\ SmallConsole
     /\ UNCHANGED <<kind, acceptVars, inviteVars, tabVars, documentsVars, playgroundVars, teamVars>>
  \/ /\ kind = "accept" /\ AcceptNext
     /\ UNCHANGED <<kind, consoleVars, inviteVars, tabVars, documentsVars, playgroundVars, teamVars>>
  \/ /\ kind = "invite" /\ InviteNext
     /\ UNCHANGED <<kind, consoleVars, acceptVars, tabVars, documentsVars, playgroundVars, teamVars>>
  \/ /\ kind = "tab" /\ TabNext
     /\ UNCHANGED <<kind, consoleVars, acceptVars, inviteVars, documentsVars, playgroundVars, teamVars>>
  \/ /\ kind = "documents" /\ DocumentsNext /\ SmallDocuments
     /\ UNCHANGED <<kind, consoleVars, acceptVars, inviteVars, tabVars, playgroundVars, teamVars>>
  \/ /\ kind = "playground" /\ PlaygroundNext
     /\ UNCHANGED <<kind, consoleVars, acceptVars, inviteVars, tabVars, documentsVars, teamVars>>
  \/ /\ kind = "team" /\ TeamNext /\ SmallTeam
     /\ UNCHANGED <<kind, consoleVars, acceptVars, inviteVars, tabVars, documentsVars, playgroundVars>>

ScreensSpec ==
  OneOfThem /\ [][OneStep]_<<kind, consoleVars, acceptVars, inviteVars, tabVars, documentsVars,
                             playgroundVars, teamVars>>
==============================================================================
