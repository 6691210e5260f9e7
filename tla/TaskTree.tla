------------------------------ MODULE TaskTree ------------------------------
(***************************************************************************)
(* Parents, drafts, and what removes a task.                               *)
(*                                                                         *)
(* A request that gives a task a parent first walks up from the parent,    *)
(* one query per task, and refuses when the walk meets a task twice; it    *)
(* then writes.  The page that creates a task starts with a draft: the     *)
(* request removes the drafts nobody edited for a day, opens the caller's  *)
(* own when there is one, and creates one otherwise.  The first edit       *)
(* publishes a draft; an edit of the status is two writes.  Removing a     *)
(* task removes what is below it.                                          *)
(*                                                                         *)
(* One project, and one actor: the drafts found are the caller's.          *)
(***************************************************************************)
EXTENDS Integers

CONSTANTS
  Nodes,       \* the ids, in the order they are given out
  Clients,     \* requests served at once
  NoNode,
  StartNode,   \* the rows at the start
  MaxAsks,     \* bound: requests
  MaxStops     \* bound: restarts of the panel

ASSUME TreeConstants ==
  /\ Nodes \subseteq Int /\ NoNode \notin Nodes
  /\ MaxAsks \in Nat /\ MaxStops \in Nat

VARIABLES
  tree,        \* tree[t]: the row of task t
  ask,         \* ask[c]: the request client c waits for
  crossed,     \* a parent was written that was decided before another one was written
  late,        \* tasks first edited while drafts were being removed
  asks,
  stops

treeVars == <<tree, ask, crossed, late, asks, stops>>

\* touched: a field a draft has no value in was given one; old: no write for a
\* day.
Node == [life : {"unborn", "live", "deleted", "swept"}, parent : Nodes \cup {NoNode},
         draft : BOOLEAN, touched : BOOLEAN, old : BOOLEAN]

\* The rows at the start hang on rows there are, and none below itself.
ASSUME TreeStart ==
  /\ StartNode \in [Nodes -> Node]
  /\ \A t \in Nodes : StartNode[t].parent # NoNode =>
        StartNode[t].life = "live" /\ StartNode[StartNode[t].parent].life = "live"
  /\ \A t \in Nodes : \E X \in SUBSET (Nodes \ {t}) : \A u \in Nodes :
        StartNode[u].life = "live" /\ StartNode[u].parent \in X \cup {t} => u \in X

Gone(how) == [life |-> how, parent |-> NoNode, draft |-> FALSE, touched |-> FALSE, old |-> FALSE]

\* at: the task the walk reads next; behind: a parent was written since the walk
\* began; promotes: the draft becomes a task with the write.
Ask == [pc : {"idle", "walk", "parent", "status", "edit", "sweep", "find", "create"},
        task : Nodes \cup {NoNode}, parent : Nodes \cup {NoNode}, at : Nodes \cup {NoNode},
        met : SUBSET Nodes, behind : BOOLEAN, promotes : BOOLEAN, listed : SUBSET Nodes]

NoAsk == [pc |-> "idle", task |-> NoNode, parent |-> NoNode, at |-> NoNode, met |-> {},
          behind |-> FALSE, promotes |-> FALSE, listed |-> {}]

TreeInit ==
  /\ tree = StartNode
  /\ ask = [c \in Clients |-> NoAsk]
  /\ crossed = FALSE
  /\ late = {}
  /\ asks = 0
  /\ stops = 0

Live(t)      == t \in Nodes /\ tree[t].life = "live"
Intact(t)    == tree[t].draft /\ ~tree[t].touched
Hanging(s)   == {t \in Nodes : tree[t].life = "live" /\ tree[t].parent \in s}

\* s and all that is below, the least set that loses nothing that hangs on it:
\* what ON DELETE CASCADE removes.
Below(s) ==
  LET whole == {X \in SUBSET Nodes : s \subseteq X /\ Hanging(X) \subseteq X}
  IN  {t \in Nodes : \A X \in whole : t \in X}

Removed(t, how) ==
  IF Live(t) THEN [u \in Nodes |-> IF u \in Below({t}) THEN Gone(how) ELSE tree[u]] ELSE tree

Answer(c) == ask' = [ask EXCEPT ![c] = NoAsk]

AskOnce == asks < MaxAsks /\ asks' = asks + 1 /\ UNCHANGED stops

(***************************************************************************)
(* Giving a task a parent                                                  *)
(***************************************************************************)

\* PATCH with parentId, or PUT of a subtask: the task and the parent are read.
\* A PATCH of a draft that was edited publishes it as well.
AskParent(c, t, p) ==
  /\ ask[c].pc = "idle"
  /\ AskOnce
  /\ Live(t) /\ t # p
  /\ Live(p) \/ p = NoNode
  /\ \E promotes \in {FALSE, tree[t].draft /\ tree[t].touched} :
       ask' = [ask EXCEPT ![c] = [NoAsk EXCEPT !.pc = IF p = NoNode THEN "parent" ELSE "walk",
                 !.task = t, !.parent = p, !.at = p, !.met = {t}, !.promotes = promotes]]
  /\ UNCHANGED <<tree, crossed, late>>

\* Mutant: only the parent's own parent is looked at.
WalkOnce(c) ==
  /\ ask[c].pc = "walk"
  /\ LET above == IF Live(ask[c].at) THEN tree[ask[c].at].parent ELSE NoNode
     IN  \/ above \in ask[c].met /\ Answer(c)
         \/ above \notin ask[c].met /\ ask' = [ask EXCEPT ![c].at = NoNode, ![c].pc = "parent"]
  /\ UNCHANGED <<tree, crossed, late, asks, stops>>

\* One round of wouldCycle: note the task, read it, go on with its parent.
Walk(c) ==
  /\ ask[c].pc = "walk"
  /\ LET met   == ask[c].met \cup {ask[c].at}
         above == IF Live(ask[c].at) THEN tree[ask[c].at].parent ELSE NoNode
     IN  \/ above \in met /\ Answer(c)
         \/ /\ above \notin met
            /\ ask' = [ask EXCEPT ![c].met = met, ![c].at = above,
                                  ![c].pc = IF above = NoNode THEN "parent" ELSE "walk"]
  /\ UNCHANGED <<tree, crossed, late, asks, stops>>

\* The update finds no row when the task is gone, and fails when the parent is.
WriteParent(c) ==
  /\ ask[c].pc = "parent"
  /\ LET t == ask[c].task
         p == ask[c].parent
     IN  \/ /\ Live(t) /\ (Live(p) \/ p = NoNode)
            /\ tree' = [tree EXCEPT ![t].parent = p, ![t].old = FALSE,
                                    ![t].draft = @ /\ ~ask[c].promotes]
            /\ crossed' = (crossed \/ (ask[c].behind /\ p # NoNode))
            /\ ask' = [d \in Clients |-> IF d = c THEN NoAsk
                         ELSE IF ask[d].pc \in {"walk", "parent"} THEN [ask[d] EXCEPT !.behind = TRUE]
                         ELSE ask[d]]
         \/ /\ ~Live(t) \/ ~(Live(p) \/ p = NoNode)
            /\ Answer(c)
            /\ UNCHANGED <<tree, crossed>>
  /\ UNCHANGED <<late, asks, stops>>

(***************************************************************************)
(* Editing                                                                 *)
(***************************************************************************)

\* PATCH of a field: of the status in two writes, a move and an update with the
\* rest; of any other in one.
AskEdit(c, t) ==
  /\ ask[c].pc = "idle"
  /\ AskOnce
  /\ Live(t)
  /\ \E pc \in {"status", "edit"} :
       ask' = [ask EXCEPT ![c] = [NoAsk EXCEPT !.pc = pc, !.task = t, !.promotes = tree[t].draft]]
  /\ UNCHANGED <<tree, crossed, late>>

Alter(t, promotes) ==
  /\ tree' = IF Live(t) THEN [tree EXCEPT ![t].touched = TRUE, ![t].old = FALSE,
                                          ![t].draft = @ /\ ~promotes]
             ELSE tree
  /\ late' = IF Live(t) /\ Intact(t) /\ \E c \in Clients : ask[c].pc = "sweep"
             THEN late \cup {t} ELSE late

\* The rest of a PATCH of a published task's status is empty: nothing more to
\* write.
WriteStatus(c) ==
  /\ ask[c].pc = "status"
  /\ Alter(ask[c].task, FALSE)
  /\ IF Live(ask[c].task) /\ ask[c].promotes THEN ask' = [ask EXCEPT ![c].pc = "edit"] ELSE Answer(c)
  /\ UNCHANGED <<crossed, asks, stops>>

WriteEdit(c) ==
  /\ ask[c].pc = "edit"
  /\ Alter(ask[c].task, ask[c].promotes)
  /\ Answer(c)
  /\ UNCHANGED <<crossed, asks, stops>>

(***************************************************************************)
(* Creating, and removing                                                  *)
(***************************************************************************)

Unborn == {t \in Nodes : tree[t].life = "unborn"}

Insert(p, draft) ==
  \E t \in Unborn :
    /\ \A u \in Unborn : t <= u
    /\ tree' = [tree EXCEPT ![t] = [life |-> "live", parent |-> p, draft |-> draft,
                                    touched |-> ~draft, old |-> FALSE]]

\* POST of a task or a subtask: published at once.
Publish(p) ==
  /\ AskOnce
  /\ Live(p) \/ p = NoNode
  /\ Insert(p, FALSE)
  /\ UNCHANGED <<ask, crossed, late>>

\* Mutant: every draft of the day before is removed, edited or not.
SweptAll == {t \in Nodes : Live(t) /\ tree[t].draft /\ tree[t].old}

\* What sweepIntactDrafts picks from the drafts it listed.
Swept == {t \in Nodes : Live(t) /\ Intact(t) /\ tree[t].old}

\* POST of a draft, with the drafts listed that it will remove.
AskDraft(c, p) ==
  /\ ask[c].pc = "idle"
  /\ AskOnce
  /\ Live(p) \/ p = NoNode
  /\ ask' = [ask EXCEPT ![c] = [NoAsk EXCEPT !.pc = IF Swept = {} THEN "find" ELSE "sweep",
                                             !.parent = p, !.listed = Swept]]
  /\ UNCHANGED <<tree, crossed, late>>

\* Removes one, whatever has become of it since.
Sweep(c, t) ==
  /\ ask[c].pc = "sweep"
  /\ t \in ask[c].listed
  /\ tree' = Removed(t, "swept")
  /\ ask' = [ask EXCEPT ![c].listed = @ \ {t},
                        ![c].pc = IF ask[c].listed = {t} THEN "find" ELSE "sweep"]
  /\ UNCHANGED <<crossed, late, asks, stops>>

FindDraft(c) ==
  /\ ask[c].pc = "find"
  /\ IF \E t \in Nodes : Live(t) /\ Intact(t) /\ tree[t].parent = ask[c].parent
     THEN Answer(c)
     ELSE ask' = [ask EXCEPT ![c].pc = "create"]
  /\ UNCHANGED <<tree, crossed, late, asks, stops>>

\* Fails when the parent is gone.
CreateDraft(c) ==
  /\ ask[c].pc = "create"
  /\ Answer(c)
  /\ \/ (Live(ask[c].parent) \/ ask[c].parent = NoNode) /\ Insert(ask[c].parent, TRUE)
     \/ ~(Live(ask[c].parent) \/ ask[c].parent = NoNode) /\ UNCHANGED tree
  /\ UNCHANGED <<crossed, late, asks, stops>>

\* DELETE of a task.
Delete(t) ==
  /\ AskOnce
  /\ Live(t)
  /\ tree' = Removed(t, "deleted")
  /\ UNCHANGED <<ask, crossed, late>>

\* A day passes without a write to the draft.
GrowOld(t) ==
  /\ Live(t) /\ tree[t].draft /\ ~tree[t].old
  /\ tree' = [tree EXCEPT ![t].old = TRUE]
  /\ UNCHANGED <<ask, crossed, late, asks, stops>>

\* The panel's process ends; the requests go with it.
Stop ==
  /\ stops < MaxStops
  /\ \E c \in Clients : ask[c] # NoAsk
  /\ stops' = stops + 1
  /\ ask' = [c \in Clients |-> NoAsk]
  /\ UNCHANGED <<tree, crossed, late, asks>>

TreeNext ==
  \/ \E c \in Clients :
       \/ \E t \in Nodes : AskEdit(c, t) \/ Sweep(c, t)
       \/ \E t \in Nodes, p \in Nodes \cup {NoNode} : AskParent(c, t, p)
       \/ \E p \in Nodes \cup {NoNode} : AskDraft(c, p)
       \/ Walk(c) \/ WriteParent(c) \/ WriteStatus(c) \/ WriteEdit(c)
       \/ FindDraft(c) \/ CreateDraft(c)
  \/ \E p \in Nodes \cup {NoNode} : Publish(p)
  \/ \E t \in Nodes : Delete(t) \/ GrowOld(t)
  \/ Stop

\* Queries are answered.
TreeFairness == \A c \in Clients : WF_treeVars(Walk(c))

TreeSpec == TreeInit /\ [][TreeNext]_treeVars /\ TreeFairness

(***************************************************************************)
(* Properties                                                              *)
(***************************************************************************)

TreeTypeOK ==
  /\ tree \in [Nodes -> Node]
  /\ ask \in [Clients -> Ask]
  /\ crossed \in BOOLEAN
  /\ late \subseteq Nodes
  /\ asks \in 0..MaxAsks /\ stops \in 0..MaxStops

\* No task is below itself, as long as no parent was written on the strength of
\* a walk that another parent's write overtook: wouldCycle looks all the way up,
\* whoever is removed or created meanwhile.
NoTaskBelowItself ==
  crossed \/ \A t \in Nodes : t \notin Below(Hanging({t}))

\* Even over tasks that two requests hung below one another, every walk ends.
EveryWalkEnds == \A c \in Clients : []<>(ask[c].pc # "walk")

\* Removing old drafts removes nothing that was worked on, a draft whose
\* publication was cut short included: save a draft edited while the removal was
\* under way, and what was put below a draft nobody edited.
SweepKeepsWork ==
  [][\A t \in Nodes : Live(t) /\ tree'[t].life = "swept" /\ ~Intact(t) =>
       \E u \in Nodes : t \in Below({u}) /\ (Intact(u) \/ u \in late)]_treeVars
=============================================================================
