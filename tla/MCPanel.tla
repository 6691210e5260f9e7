------------------------------ MODULE MCPanel -------------------------------
(***************************************************************************)
(* Six parts of the panel for TLC.  They share no state here, so a         *)
(* behaviour is one of one part: which, is chosen at the start, and the    *)
(* other parts stay as they began.                                         *)
(***************************************************************************)
EXTENDS Board, TaskTree, IssueSync, Binding, Sessions, Live

VARIABLE part

panelVars == <<part, boardVars, treeVars, syncVars, bindVars, sessionVars, liveVars>>

\* Two cards next to one another, one in the other column, one not yet created.
MCStart == [t \in Tasks |-> CASE t = 1 -> [column |-> "todo", position |-> 1, placed |-> "between"]
  [] t = 2 -> [column |-> "todo", position |-> 2, placed |-> "append"]
  [] t = 3 -> [column |-> "done", position |-> 2, placed |-> "append"]
  [] OTHER -> [column |-> "unborn", position |-> 0, placed |-> "append"]]

\* Two tasks, a draft of the day before, and an id to give out.
MCNodes == [t \in Nodes |-> CASE t = 3 -> [Gone("live") EXCEPT !.draft = TRUE, !.old = TRUE]
  [] t = 4 -> Gone("unborn")
  [] OTHER -> [Gone("live") EXCEPT !.touched = TRUE]]

\* Two issues, opened at 1 and 2, and one not yet opened.
MCOpened == <<1, 2, 0>>

Init ==
  /\ part \in {"board", "tree", "sync", "binding", "sessions", "live"}
  /\ BoardInit /\ TreeInit /\ SyncInit /\ BindInit /\ SessionInit /\ LiveInit
  /\ part # "sync" => cursor = 0        \* one beginning of a part that stays
  /\ part # "binding" => ~exists

\* A step of one part, in a behaviour of that part, leaves the others alone.
OfBoard    == part = "board" /\ UNCHANGED <<part, treeVars, syncVars, bindVars, sessionVars, liveVars>>
OfTree     == part = "tree" /\ UNCHANGED <<part, boardVars, syncVars, bindVars, sessionVars, liveVars>>
OfSync     == part = "sync" /\ UNCHANGED <<part, boardVars, treeVars, bindVars, sessionVars, liveVars>>
OfBinding  == part = "binding" /\ UNCHANGED <<part, boardVars, treeVars, syncVars, sessionVars, liveVars>>
OfSessions == part = "sessions" /\ UNCHANGED <<part, boardVars, treeVars, syncVars, bindVars, liveVars>>
OfLive     == part = "live" /\ UNCHANGED <<part, boardVars, treeVars, syncVars, bindVars, sessionVars>>

Next ==
  \/ OfBoard /\ BoardNext
  \/ OfTree /\ TreeNext
  \/ OfSync /\ SyncNext
  \/ OfBinding /\ BindNext
  \/ OfSessions /\ SessionNext
  \/ OfLive /\ LiveNext

\* The fairness of each part.  Parts share a conjunct where each has one, which
\* says the same, as the part of a behaviour stays.
Requests(c) == \/ OfBoard /\ c \in Movers /\ (MoverStep(c) \/ DeadlockAbort(c))
               \/ OfTree /\ c \in Clients /\ Walk(c)
Passes(s)   == (OfSync /\ PassStep(s)) \/ (OfBinding /\ WorkerStep(s))
Loops       == (OfSync /\ Tick) \/ (OfBinding /\ StartPass("timer")) \/ (OfLive /\ HubStep)

Fairness ==
  /\ \A c \in Movers \cup Clients : WF_panelVars(Requests(c))
  /\ \A s \in Slots : WF_panelVars(Passes(s))
  /\ WF_panelVars(Loops)
  /\ \A b \in Builds : WF_panelVars(OfLive /\ BuildStep(b))
  /\ \A w \in Browsers : /\ SF_panelVars(OfLive /\ Fetch(w))
                         /\ WF_panelVars(OfLive /\ BrowserReturns(w))

Spec == Init /\ [][Next]_panelVars /\ Fairness

\* The type invariant of each part.
PanelTypeOK ==
  /\ BoardTypeOK /\ TreeTypeOK /\ SyncTypeOK /\ BindTypeOK /\ SessionTypeOK /\ LiveTypeOK

\* No move hangs, whatever it locks, and no walk goes round for ever: a deadlock
\* ends, and a cycle is noticed.  And each part that follows another one's state
\* catches up with it, where it runs: the projection with GitHub
\* (EventuallyProjected of IssueSync), a task with its issue, unless the binding
\* says that they differ (EventuallyAgree of Binding), and the pages with Docker
\* (BrowsersCatchUp of Live).
EverythingSettles ==
  /\ EveryMoveEnds /\ EveryWalkEnds
  /\ <>[](/\ part = "sync" => CaughtUp
          /\ part = "binding" => Settled
          /\ part = "live" => UpToDate)
=============================================================================
