---------------------------- MODULE MCWidgetChat -----------------------------
(* The chat with small sets: the gateway's sockets (WidgetChat) and, on the
   agents' side of it, the drawer of a conversation and the queue
   (ConversationDrawer, QueueScreen).  A behaviour shows one of the three.
   Users, sockets and turns are interchangeable.                            *)
EXTENDS WidgetChat, ConversationDrawer, QueueScreen, TLC

SinceDef     == <<1, 1, 0, 0>>
FoundDef     == {1, 3}
InitiallyDef == <<"escalated", "escalated", "escalated", "resolved">>

Symmetry == Permutations(Users) \cup Permutations(Sessions)
              \cup Permutations(Sockets) \cup Permutations(Turns)

VARIABLE kind

OneOfThem ==
  /\ kind \in {"gateway", "drawer", "queue"}
  /\ Init /\ DrawerInit /\ QueueInit
  /\ kind # "gateway" => \A u \in Users : role[u] = "owner"

OneStep ==
  \/ /\ kind = "gateway" /\ Next
     /\ UNCHANGED <<kind, drawerVars, queueVars>>
  \/ /\ kind = "drawer" /\ DrawerNext
     /\ UNCHANGED <<kind, vars, queueVars>>
  \/ /\ kind = "queue" /\ QueueNext
     /\ UNCHANGED <<kind, vars, drawerVars>>

ChatSpec == OneOfThem /\ [][OneStep]_<<kind, vars, drawerVars, queueVars>>
==============================================================================
