---------------------------- MODULE TasksProofs -----------------------------
(***************************************************************************)
(* Theorems of TaskTree and of Board, for any tasks, requests and rows at  *)
(* the start.  Of TaskTree: no task comes to be below itself, unless a     *)
(* walk was overtaken by another one's write, and removing old drafts      *)
(* keeps what was worked on.  Of Board: appended cards never share a       *)
(* position, and a move lands between its neighbours while the other cards *)
(* keep their order.                                                       *)
(*                                                                         *)
(* The argument for the tree: a walk that nobody overtook has met all that *)
(* is above the parent it was asked for, so what it has not met loses      *)
(* nothing that hangs on it, and holds the task but not the parent.  Such  *)
(* a set separates, for every task, what is below it from the task itself, *)
(* and still does with the new edge.                                       *)
(*                                                                         *)
(* The argument for the board: what a mover has read is under its locks,   *)
(* so that the steps of the others leave it alone (Untouched), and the     *)
(* column it holds is one in which only a synchronised card may appear.    *)
(* Its own steps add to what it knows, until it knows where it lands.      *)
(***************************************************************************)
EXTENDS TaskTree, Board, SetLemmas, TLAPS

(***************************************************************************)
(* Types                                                                   *)
(***************************************************************************)

LEMMA NoAskType == NoAsk \in Ask /\ NoAsk.pc = "idle"
  BY DEF NoAsk, Ask

LEMMA GoneType == ASSUME NEW how \in {"deleted", "swept"} PROVE Gone(how) \in Node
  BY DEF Gone, Node

\* What a removal leaves: nothing of what is below, the rest as it was.
LEMMA RemovedType ==
  ASSUME tree \in [Nodes -> Node], NEW t, NEW how \in {"deleted", "swept"}
  PROVE  Removed(t, how) \in [Nodes -> Node]
  BY GoneType DEF Removed

\* A walk reads a task: it ends before it reads none.
Reading == \A c \in Clients : ask[c].pc = "walk" => ask[c].at \in Nodes

\* A request goes on as some request.
LEMMA AskTyped ==
  ASSUME TreeTypeOK, Reading, NEW c \in Clients, NEW job \in Ask,
         job.pc = "walk" => job.at \in Nodes, ask' = [ask EXCEPT ![c] = job]
  PROVE  ask' \in [Clients -> Ask] /\ Reading'
  BY DEF TreeTypeOK, Reading

LEMMA AnswerTyped ==
  ASSUME TreeTypeOK, Reading, NEW c \in Clients, Answer(c)
  PROVE  ask' \in [Clients -> Ask] /\ Reading'
  BY NoAskType, AskTyped DEF Answer

LEMMA AskOnceTyped ==
  ASSUME TreeTypeOK, AskOnce
  PROVE  asks' \in 0..MaxAsks /\ stops' \in 0..MaxStops
  BY TreeConstants DEF TreeTypeOK, AskOnce

\* What client c reads when it asks: its request, of the type of requests.
LEMMA ParentAsk ==
  ASSUME TreeTypeOK, NEW c \in Clients, NEW t \in Nodes, NEW p \in Nodes \cup {NoNode},
         AskParent(c, t, p)
  PROVE  \E job \in Ask : /\ ask' = [ask EXCEPT ![c] = job]
                          /\ job.pc = (IF p = NoNode THEN "parent" ELSE "walk")
                          /\ job.task = t /\ job.parent = p /\ job.at = p
                          /\ job.met = {t} /\ ~job.behind
                          /\ job.promotes => tree[t].touched
<1>1. tree[t].draft \in BOOLEAN /\ tree[t].touched \in BOOLEAN
  BY DEF TreeTypeOK, Node
<1>2. PICK promotes \in {FALSE, tree[t].draft /\ tree[t].touched} :
        ask' = [ask EXCEPT ![c] = [NoAsk EXCEPT !.pc = IF p = NoNode THEN "parent" ELSE "walk",
                  !.task = t, !.parent = p, !.at = p, !.met = {t}, !.promotes = promotes]]
  BY DEF AskParent
<1> DEFINE job == [NoAsk EXCEPT !.pc = IF p = NoNode THEN "parent" ELSE "walk",
                     !.task = t, !.parent = p, !.at = p, !.met = {t}, !.promotes = promotes]
<1>3. job \in Ask /\ job.promotes = promotes /\ ~job.behind
  BY <1>1, NoAskType DEF Ask, NoAsk
<1>4. /\ job.pc = (IF p = NoNode THEN "parent" ELSE "walk")
      /\ job.task = t /\ job.parent = p /\ job.at = p /\ job.met = {t}
  BY DEF NoAsk
<1>5. ask' = [ask EXCEPT ![c] = job]
  BY <1>2
<1> HIDE DEF job
<1> QED
  BY <1>2, <1>3, <1>4, <1>5

ParentSeen(c) == IF Live(ask[c].at) THEN tree[ask[c].at].parent ELSE NoNode

\* A round of the walk that meets no task twice.
LEMMA WalkAsk ==
  ASSUME TreeTypeOK, Reading, NEW c \in Clients, Walk(c), ~Answer(c)
  PROVE  \E job \in Ask : /\ ask' = [ask EXCEPT ![c] = job]
                          /\ job.pc = (IF ParentSeen(c) = NoNode THEN "parent" ELSE "walk")
                          /\ job.task = ask[c].task /\ job.parent = ask[c].parent
                          /\ job.behind = ask[c].behind /\ job.promotes = ask[c].promotes
                          /\ job.at = ParentSeen(c) /\ job.met = ask[c].met \cup {ask[c].at}
                          /\ ParentSeen(c) \notin job.met /\ ParentSeen(c) \in Nodes \cup {NoNode}
<1> DEFINE job == [ask[c] EXCEPT !.met = ask[c].met \cup {ask[c].at}, !.at = ParentSeen(c),
                                 !.pc = IF ParentSeen(c) = NoNode THEN "parent" ELSE "walk"]
<1>1. ask[c].pc = "walk" /\ ask[c].at \in Nodes /\ ask[c] \in Ask
  BY DEF Walk, Reading, TreeTypeOK
<1>2. ParentSeen(c) \in Nodes \cup {NoNode}
  BY DEF ParentSeen, Live, TreeTypeOK, Node
<1>3. /\ job \in Ask
      /\ job.pc = (IF ParentSeen(c) = NoNode THEN "parent" ELSE "walk")
      /\ job.task = ask[c].task /\ job.parent = ask[c].parent
      /\ job.behind = ask[c].behind /\ job.promotes = ask[c].promotes
      /\ job.at = ParentSeen(c) /\ job.met = ask[c].met \cup {ask[c].at}
  BY <1>1, <1>2 DEF Ask
<1>4. ask' = [ask EXCEPT ![c] = job] /\ ParentSeen(c) \notin ask[c].met \cup {ask[c].at}
  BY DEF Walk, ParentSeen, TreeTypeOK
<1> HIDE DEF job
<1> QED
  BY <1>2, <1>3, <1>4

LEMMA EditAsk ==
  ASSUME TreeTypeOK, NEW c \in Clients, NEW t \in Nodes, AskEdit(c, t)
  PROVE  \E job \in Ask : ask' = [ask EXCEPT ![c] = job] /\ job.pc \in {"status", "edit"}
<1>1. tree[t].draft \in BOOLEAN
  BY DEF TreeTypeOK, Node
<1>2. PICK pc \in {"status", "edit"} :
        ask' = [ask EXCEPT ![c] = [NoAsk EXCEPT !.pc = pc, !.task = t, !.promotes = tree[t].draft]]
  BY DEF AskEdit
<1>3. [NoAsk EXCEPT !.pc = pc, !.task = t, !.promotes = tree[t].draft] \in Ask
  BY <1>1, NoAskType DEF Ask
<1>4. [NoAsk EXCEPT !.pc = pc, !.task = t, !.promotes = tree[t].draft].pc = pc
  BY DEF NoAsk
<1> QED
  BY <1>2, <1>3, <1>4

LEMMA DraftAsk ==
  ASSUME TreeTypeOK, NEW c \in Clients, NEW p \in Nodes \cup {NoNode}, AskDraft(c, p)
  PROVE  \E job \in Ask : /\ ask' = [ask EXCEPT ![c] = job]
                          /\ job.pc \in {"find", "sweep"} /\ job.listed = Swept
<1> DEFINE job == [NoAsk EXCEPT !.pc = IF Swept = {} THEN "find" ELSE "sweep",
                                !.parent = p, !.listed = Swept]
<1>1. job \in Ask
  BY NoAskType DEF Ask, Swept
<1>2. job.pc \in {"find", "sweep"} /\ job.listed = Swept
  BY DEF NoAsk
<1>3. ask' = [ask EXCEPT ![c] = job]
  BY DEF AskDraft
<1> HIDE DEF job
<1> QED
  BY <1>1, <1>2, <1>3

\* A request that goes on to its next statement.
LEMMA NextStatement ==
  ASSUME TreeTypeOK, NEW c \in Clients, NEW pc \in {"edit", "create"},
         ask' = [ask EXCEPT ![c].pc = pc]
  PROVE  \E job \in Ask : ask' = [ask EXCEPT ![c] = job] /\ job.pc = pc
<1> DEFINE job == [ask[c] EXCEPT !.pc = pc]
<1>1. job \in Ask /\ job.pc = pc
  BY DEF TreeTypeOK, Ask
<1>2. ask' = [ask EXCEPT ![c] = job]
  BY DEF TreeTypeOK
<1> QED
  BY <1>1, <1>2

LEMMA SweepAsk ==
  ASSUME TreeTypeOK, NEW c \in Clients, NEW t \in Nodes, Sweep(c, t)
  PROVE  \E job \in Ask : /\ ask' = [ask EXCEPT ![c] = job]
                          /\ job.pc \in {"find", "sweep"} /\ job.listed = ask[c].listed \ {t}
<1> DEFINE job == [ask[c] EXCEPT !.listed = @ \ {t},
                                 !.pc = IF ask[c].listed = {t} THEN "find" ELSE "sweep"]
<1>1. job \in Ask /\ job.pc \in {"find", "sweep"} /\ job.listed = ask[c].listed \ {t}
  BY DEF TreeTypeOK, Ask
<1>2. ask' = [ask EXCEPT ![c] = job]
  BY DEF Sweep, TreeTypeOK
<1> HIDE DEF job
<1> QED
  BY <1>1, <1>2

(***************************************************************************)
(* The inductive invariant, its parts as functions of the rows and of a    *)
(* request.                                                                *)
(***************************************************************************)

HangingOf(rows, s) == {u \in Nodes : rows[u].life = "live" /\ rows[u].parent \in s}

\* Only a row there is has a parent, and the parent is one there is.
Rooted(rows) ==
  \A t \in Nodes : rows[t].parent # NoNode =>
    /\ rows[t].life = "live"
    /\ rows[rows[t].parent].life = "live"

\* For every task, a set that it is not in and that loses nothing that hangs on
\* it or on the task.
Acyclic(rows) ==
  \A t \in Nodes : \E X \in SUBSET (Nodes \ {t}) : HangingOf(rows, X \cup {t}) \subseteq X

Met(job) == job.met \ {job.task}

\* What a walk nobody overtook has met: the parent it was asked for, and with
\* every task its parent, up to the one that is read next.
Walked(rows, job) ==
  job.pc \in {"walk", "parent"} /\ ~job.behind /\ job.parent # NoNode =>
    /\ job.task \in job.met /\ job.at \notin job.met
    /\ job.parent \in Met(job) \cup {job.at}
    /\ \A v \in Met(job) : rows[v].life = "live" => rows[v].parent \in Met(job) \cup {job.at}
    /\ \A v \in job.met : rows[v].life # "unborn"
    /\ job.at # NoNode => rows[job.at].life # "unborn"
    /\ job.pc = "parent" => job.at = NoNode

\* Who publishes a draft with its parent found it edited.
Published(rows, job) ==
  job.pc \in {"walk", "parent"} /\ job.promotes =>
    /\ job.task \in Nodes /\ rows[job.task].life # "unborn"
    /\ rows[job.task].life = "live" => rows[job.task].touched

\* What is listed for removal was a draft nobody edited, and is one still or
\* was edited meanwhile.
StillListed(rows, job, edited) ==
  job.pc = "sweep" => \A u \in job.listed :
    /\ rows[u].life # "unborn"
    /\ rows[u].life = "live" => (rows[u].draft /\ ~rows[u].touched) \/ u \in edited

AsksInv == \A c \in Clients : /\ Walked(tree, ask[c])
                              /\ Published(tree, ask[c])
                              /\ StillListed(tree, ask[c], late)

TreeInv ==
  /\ TreeTypeOK /\ Reading
  /\ Rooted(tree)
  /\ crossed \/ Acyclic(tree)
  /\ AsksInv

LEMMA HangingIs == \A s : Hanging(s) = HangingOf(tree, s)
  BY DEF Hanging, HangingOf

LEMMA TreeInit1 == TreeInit => TreeInv
<1> SUFFICES ASSUME TreeInit PROVE TreeInv
  OBVIOUS
<1> USE DEF TreeInit
<1>1. TreeTypeOK
  <2>1. tree \in [Nodes -> Node] /\ ask \in [Clients -> Ask]
    BY TreeStart, NoAskType
  <2>2. crossed \in BOOLEAN /\ late \subseteq Nodes
    OBVIOUS
  <2>3. asks \in 0..MaxAsks /\ stops \in 0..MaxStops
    BY TreeConstants
  <2> QED
    BY <2>1, <2>2, <2>3 DEF TreeTypeOK
<1>2. Rooted(tree) /\ Acyclic(tree)
  BY TreeStart DEF Rooted, Acyclic, HangingOf
<1>3. Reading /\ AsksInv
  BY NoAskType DEF Reading, AsksInv, Walked, Published, StillListed
<1> QED
  BY <1>1, <1>2, <1>3 DEF TreeInv

(***************************************************************************)
(* What changes of the rows leave as it was                                *)
(***************************************************************************)

\* No id is given out twice, and an edit is not undone.
Stays(rows, new) ==
  \A t \in Nodes :
    /\ rows[t].life # "unborn" =>
         /\ new[t].life # "unborn"
         /\ new[t].life = "live" => rows[t].life = "live" /\ (rows[t].touched => new[t].touched)

SameParents(rows, new) ==
  \A t \in Nodes : rows[t].life # "unborn" /\ new[t].life = "live" => new[t].parent = rows[t].parent

\* Drafts nobody edited stay so, or are noted.
DraftsStay(rows, new, edited) ==
  \A t \in Nodes : rows[t].life # "unborn" /\ new[t].life = "live" /\ rows[t].draft /\ ~rows[t].touched
     => (new[t].draft /\ ~new[t].touched) \/ t \in edited

LEMMA WalkedStays ==
  ASSUME NEW rows, NEW new, NEW job \in Ask, Stays(rows, new), SameParents(rows, new),
         Walked(rows, job)
  PROVE  Walked(new, job)
  BY DEF Walked, Stays, SameParents, Met, Ask

LEMMA PublishedStays ==
  ASSUME NEW rows, NEW new, NEW job \in Ask, Stays(rows, new), Published(rows, job)
  PROVE  Published(new, job)
  BY DEF Published, Stays

LEMMA ListedStays ==
  ASSUME NEW rows, NEW new, NEW job \in Ask, NEW edited, NEW more, Stays(rows, new),
         job.pc = "sweep" => edited \subseteq more /\ DraftsStay(rows, new, more),
         StillListed(rows, job, edited)
  PROVE  StillListed(new, job, more)
  BY DEF StillListed, Stays, DraftsStay, Ask

\* A step that changes the rows beside the requests, or the rows and one
\* request, which ends or goes on to something that is no walk.
LEMMA RowsChange ==
  ASSUME TreeInv, tree' \in [Nodes -> Node], Stays(tree, tree'), SameParents(tree, tree'),
         late \subseteq late', late' \subseteq Nodes,
         (\E c \in Clients : ask[c].pc = "sweep") => DraftsStay(tree, tree', late')
  PROVE  \A c \in Clients : /\ Walked(tree', ask[c])
                            /\ Published(tree', ask[c])
                            /\ StillListed(tree', ask[c], late')
  BY WalkedStays, PublishedStays, ListedStays DEF TreeInv, TreeTypeOK, AsksInv

\* The requests after client c's became job.
LEMMA OneAsks ==
  ASSUME TreeTypeOK, NEW c \in Clients, NEW job \in Ask, ask' = [ask EXCEPT ![c] = job],
         \A d \in Clients : /\ Walked(tree', ask[d])
                            /\ Published(tree', ask[d])
                            /\ StillListed(tree', ask[d], late'),
         Walked(tree', job), Published(tree', job), StillListed(tree', job, late')
  PROVE  AsksInv'
<1>1. \A d \in Clients : ask'[d] = job \/ ask'[d] = ask[d]
  BY DEF TreeTypeOK
<1>2. \A d \in Clients : /\ Walked(tree', ask'[d])
                         /\ Published(tree', ask'[d])
                         /\ StillListed(tree', ask'[d], late')
  BY <1>1
<1> QED
  BY <1>2 DEF AsksInv

LEMMA NoWalk ==
  ASSUME NEW rows, NEW job, job.pc \notin {"walk", "parent"}
  PROVE  Walked(rows, job) /\ Published(rows, job)
  BY DEF Walked, Published

LEMMA NoSweep ==
  ASSUME NEW rows, NEW job, NEW edited, job.pc # "sweep"
  PROVE  StillListed(rows, job, edited)
  BY DEF StillListed

(***************************************************************************)
(* Steps of a request that leave the rows alone                            *)
(***************************************************************************)

\* Client c goes on with job.
LEMMA OnlyAsks ==
  ASSUME TreeInv, NEW c \in Clients, NEW job \in Ask, ask' = [ask EXCEPT ![c] = job],
         UNCHANGED <<tree, crossed, late>>, asks' \in 0..MaxAsks, stops' \in 0..MaxStops,
         job.pc = "walk" => job.at \in Nodes,
         Walked(tree, job), Published(tree, job), StillListed(tree, job, late)
  PROVE  TreeInv'
<1>1. ask' \in [Clients -> Ask] /\ Reading'
  BY AskTyped DEF TreeInv
<1>2. AsksInv'
  BY OneAsks DEF TreeInv, AsksInv
<1> QED
  BY <1>1, <1>2 DEF TreeInv, TreeTypeOK

LEMMA OnlyAnswers ==
  ASSUME TreeInv, NEW c \in Clients, Answer(c),
         UNCHANGED <<tree, crossed, late>>, asks' \in 0..MaxAsks, stops' \in 0..MaxStops
  PROVE  TreeInv'
  BY OnlyAsks, NoAskType, NoWalk, NoSweep DEF Answer

LEMMA AskParentStep ==
  ASSUME TreeInv, NEW c \in Clients, NEW t \in Nodes, NEW p \in Nodes \cup {NoNode},
         AskParent(c, t, p)
  PROVE  TreeInv'
<1>1. PICK job \in Ask :
        /\ ask' = [ask EXCEPT ![c] = job]
        /\ job.pc = (IF p = NoNode THEN "parent" ELSE "walk")
        /\ job.task = t /\ job.parent = p /\ job.at = p
        /\ job.met = {t} /\ ~job.behind
        /\ job.promotes => tree[t].touched
  BY ParentAsk DEF TreeInv
<1>2. UNCHANGED <<tree, crossed, late>> /\ AskOnce /\ Live(t) /\ t # p /\ (Live(p) \/ p = NoNode)
  BY DEF AskParent
<1>3. asks' \in 0..MaxAsks /\ stops' \in 0..MaxStops
  BY <1>2, AskOnceTyped DEF TreeInv
<1>4. Walked(tree, job)
  BY <1>1, <1>2 DEF Walked, Met, Live
<1>5. Published(tree, job) /\ StillListed(tree, job, late)
  BY <1>1, <1>2 DEF Published, StillListed, Live
<1> QED
  BY <1>1, <1>2, <1>3, <1>4, <1>5, OnlyAsks

LEMMA WalkStep ==
  ASSUME TreeInv, NEW c \in Clients, Walk(c)
  PROVE  TreeInv'
<1>0. /\ UNCHANGED <<tree, crossed, late>> /\ asks' \in 0..MaxAsks /\ stops' \in 0..MaxStops
      /\ ask[c].pc = "walk" /\ ask[c].at \in Nodes /\ ask[c] \in Ask
  BY DEF Walk, TreeInv, TreeTypeOK, Reading
<1>1. CASE Answer(c)
  BY <1>0, <1>1, OnlyAnswers
<1>2. CASE ~Answer(c)
  <2>1. PICK job \in Ask :
          /\ ask' = [ask EXCEPT ![c] = job]
          /\ job.pc = (IF ParentSeen(c) = NoNode THEN "parent" ELSE "walk")
          /\ job.task = ask[c].task /\ job.parent = ask[c].parent
          /\ job.behind = ask[c].behind /\ job.promotes = ask[c].promotes
          /\ job.at = ParentSeen(c) /\ job.met = ask[c].met \cup {ask[c].at}
          /\ ParentSeen(c) \notin job.met /\ ParentSeen(c) \in Nodes \cup {NoNode}
    BY <1>2, WalkAsk DEF TreeInv
  <2>2. Walked(tree, ask[c]) /\ Published(tree, ask[c])
    BY DEF TreeInv, AsksInv
  <2>3. ParentSeen(c) # NoNode => tree[ParentSeen(c)].life # "unborn"
    BY <1>0 DEF ParentSeen, TreeInv, Rooted, Live
  <2>4. Walked(tree, job)
    <3> SUFFICES ASSUME ~job.behind, job.parent # NoNode PROVE Walked(tree, job)
      BY DEF Walked
    <3>1. /\ ask[c].task \in ask[c].met /\ ask[c].at \notin ask[c].met
          /\ ask[c].parent \in Met(ask[c]) \cup {ask[c].at}
          /\ \A v \in Met(ask[c]) :
               tree[v].life = "live" => tree[v].parent \in Met(ask[c]) \cup {ask[c].at}
          /\ \A v \in ask[c].met : tree[v].life # "unborn"
          /\ tree[ask[c].at].life # "unborn"
      BY <1>0, <2>1, <2>2, TreeConstants DEF Walked
    <3>2. Met(job) = Met(ask[c]) \cup {ask[c].at}
      BY <2>1, <3>1 DEF Met
    <3>3. tree[ask[c].at].life = "live" => tree[ask[c].at].parent = ParentSeen(c)
      BY <1>0 DEF ParentSeen, Live
    <3> QED
      BY <2>1, <2>3, <3>1, <3>2, <3>3 DEF Walked
  <2>5. Published(tree, job) /\ StillListed(tree, job, late)
    BY <1>0, <2>1, <2>2 DEF Published, StillListed
  <2>6. job.pc = "walk" => job.at \in Nodes
    BY <2>1
  <2> QED
    BY <1>0, <2>1, <2>4, <2>5, <2>6, OnlyAsks
<1> QED
  BY <1>1, <1>2

LEMMA OtherAsksStep ==
  ASSUME TreeInv, NEW c \in Clients,
         \/ \E t \in Nodes : AskEdit(c, t)
         \/ \E p \in Nodes \cup {NoNode} : AskDraft(c, p)
         \/ FindDraft(c)
  PROVE  TreeInv'
<1>1. ASSUME NEW t \in Nodes, AskEdit(c, t) PROVE TreeInv'
  <2>1. PICK job \in Ask : ask' = [ask EXCEPT ![c] = job] /\ job.pc \in {"status", "edit"}
    BY <1>1, EditAsk DEF TreeInv
  <2>2. UNCHANGED <<tree, crossed, late>> /\ AskOnce
    BY <1>1 DEF AskEdit
  <2> QED
    BY <2>1, <2>2, AskOnceTyped, OnlyAsks, NoWalk, NoSweep DEF TreeInv
<1>2. ASSUME NEW p \in Nodes \cup {NoNode}, AskDraft(c, p) PROVE TreeInv'
  <2>1. PICK job \in Ask : /\ ask' = [ask EXCEPT ![c] = job]
                           /\ job.pc \in {"find", "sweep"} /\ job.listed = Swept
    BY <1>2, DraftAsk DEF TreeInv
  <2>2. UNCHANGED <<tree, crossed, late>> /\ AskOnce
    BY <1>2 DEF AskDraft
  <2>3. StillListed(tree, job, late)
    BY <2>1 DEF StillListed, Swept, Live, Intact
  <2>4. asks' \in 0..MaxAsks /\ stops' \in 0..MaxStops
    BY <2>2, AskOnceTyped DEF TreeInv
  <2> QED
    BY <2>1, <2>2, <2>3, <2>4, OnlyAsks, NoWalk
<1>3. CASE FindDraft(c)
  <2>1. UNCHANGED <<tree, crossed, late>> /\ asks' \in 0..MaxAsks /\ stops' \in 0..MaxStops
    BY <1>3 DEF FindDraft, TreeInv, TreeTypeOK
  <2>2. CASE Answer(c)
    BY <2>1, <2>2, OnlyAnswers
  <2>3. CASE ~Answer(c)
    <3>1. PICK job \in Ask : ask' = [ask EXCEPT ![c] = job] /\ job.pc = "create"
      BY <1>3, <2>3, NextStatement DEF FindDraft, TreeInv
    <3> QED
      BY <2>1, <3>1, OnlyAsks, NoWalk, NoSweep
  <2> QED
    BY <2>2, <2>3
<1> QED
  BY <1>1, <1>2, <1>3

(***************************************************************************)
(* Steps that change the rows                                              *)
(***************************************************************************)

\* Fewer rows hang on others: what separated a task from those below it still
\* does.
LEMMA AcyclicShrinks ==
  ASSUME NEW rows, NEW new, Acyclic(rows),
         \A t \in Nodes : new[t].life = "live" /\ new[t].parent # NoNode =>
           rows[t].life = "live" /\ new[t].parent = rows[t].parent
  PROVE  Acyclic(new)
<1> SUFFICES ASSUME NEW t \in Nodes
             PROVE  \E X \in SUBSET (Nodes \ {t}) : HangingOf(new, X \cup {t}) \subseteq X
  BY DEF Acyclic
<1>1. PICK X \in SUBSET (Nodes \ {t}) : HangingOf(rows, X \cup {t}) \subseteq X
  BY DEF Acyclic
<1>2. HangingOf(new, X \cup {t}) \subseteq HangingOf(rows, X \cup {t})
  BY TreeConstants DEF HangingOf
<1> QED
  BY <1>1, <1>2

\* A step that changes the rows and not the parents, and lets client c answer,
\* or no client.
LEMMA RowsStep ==
  ASSUME TreeInv, tree' \in [Nodes -> Node], Stays(tree, tree'), SameParents(tree, tree'),
         \A t \in Nodes : tree[t].life = "unborn" => tree'[t].life # "live",
         late \subseteq late', late' \subseteq Nodes,
         (\E c \in Clients : ask[c].pc = "sweep") => DraftsStay(tree, tree', late'),
         Rooted(tree'), crossed' = crossed,
         asks' \in 0..MaxAsks, stops' \in 0..MaxStops,
         \/ ask' = ask
         \/ \E c \in Clients, job \in Ask :
              ask' = [ask EXCEPT ![c] = job] /\ job.pc \notin {"walk", "parent", "sweep"}
  PROVE  TreeInv'
<1>1. crossed \/ Acyclic(tree')
  <2>1. ASSUME NEW t \in Nodes, tree'[t].life = "live"
        PROVE  tree[t].life = "live" /\ tree'[t].parent = tree[t].parent
    BY <2>1 DEF Stays, SameParents
  <2> QED
    BY <2>1, AcyclicShrinks DEF TreeInv
<1>2. \A c \in Clients : /\ Walked(tree', ask[c])
                         /\ Published(tree', ask[c])
                         /\ StillListed(tree', ask[c], late')
  BY RowsChange
<1>3. CASE ask' = ask
  BY <1>1, <1>2, <1>3 DEF TreeInv, TreeTypeOK, Reading, AsksInv
<1>4. ASSUME NEW c \in Clients, NEW job \in Ask,
             ask' = [ask EXCEPT ![c] = job], job.pc \notin {"walk", "parent", "sweep"}
      PROVE  TreeInv'
  <2>1. ask' \in [Clients -> Ask] /\ Reading'
    BY <1>4, AskTyped DEF TreeInv
  <2>2. AsksInv'
    BY <1>2, <1>4, OneAsks, NoWalk, NoSweep DEF TreeInv
  <2> QED
    BY <1>1, <2>1, <2>2 DEF TreeInv, TreeTypeOK
<1> QED
  BY <1>3, <1>4

\* An edit: of the rows, no more than one, and its draft is noted when somebody
\* is removing drafts.
LEMMA AlterRows ==
  ASSUME TreeInv, NEW t \in Nodes \cup {NoNode}, NEW promotes \in BOOLEAN, Alter(t, promotes)
  PROVE  /\ tree' \in [Nodes -> Node] /\ Stays(tree, tree') /\ SameParents(tree, tree')
         /\ \A u \in Nodes : tree[u].life = "unborn" => tree'[u].life # "live"
         /\ late \subseteq late' /\ late' \subseteq Nodes
         /\ (\E c \in Clients : ask[c].pc = "sweep") => DraftsStay(tree, tree', late')
         /\ Rooted(tree')
<1>0. tree \in [Nodes -> Node] /\ late \subseteq Nodes /\ Rooted(tree)
  BY DEF TreeInv, TreeTypeOK
<1>1. CASE ~Live(t)
  BY <1>0, <1>1 DEF Alter, Stays, SameParents, DraftsStay
<1>2. CASE Live(t)
  <2> DEFINE node == [tree[t] EXCEPT !.touched = TRUE, !.old = FALSE,
                                     !.draft = tree[t].draft /\ ~promotes]
  <2>1. t \in Nodes /\ tree[t].life = "live" /\ tree[t] \in Node
    BY <1>0, <1>2 DEF Live
  <2>2. tree[t].draft \in BOOLEAN /\ (tree[t].draft /\ ~promotes) \in BOOLEAN
    BY <2>1 DEF Node
  <2>3. node \in Node /\ node.life = tree[t].life /\ node.parent = tree[t].parent /\ node.touched
    BY <2>1, <2>2 DEF Node
  <2>4. tree' = [tree EXCEPT ![t] = node]
    BY <1>0, <1>2, <2>1 DEF Alter
  <2>5. late' = IF Intact(t) /\ \E c \in Clients : ask[c].pc = "sweep" THEN late \cup {t} ELSE late
    BY <1>2 DEF Alter
  <2> HIDE DEF node
  <2>6. tree' \in [Nodes -> Node] /\ tree'[t] = node /\ \A u \in Nodes \ {t} : tree'[u] = tree[u]
    BY <1>0, <2>1, <2>3, <2>4
  <2>7. Stays(tree, tree') /\ SameParents(tree, tree')
    BY <2>1, <2>3, <2>6 DEF Stays, SameParents
  <2>8. (\E c \in Clients : ask[c].pc = "sweep") => DraftsStay(tree, tree', late')
    BY <2>1, <2>5, <2>6 DEF DraftsStay, Intact
  <2>9. Rooted(tree')
    <3>1. \A u \in Nodes : tree'[u].life = tree[u].life /\ tree'[u].parent = tree[u].parent
      BY <2>3, <2>6
    <3>2. \A u \in Nodes : tree[u].parent # NoNode => tree[u].parent \in Nodes
      BY <1>0 DEF Node
    <3> QED
      BY <1>0, <3>1, <3>2 DEF Rooted
  <2> QED
    BY <1>0, <2>1, <2>3, <2>5, <2>6, <2>7, <2>8, <2>9
<1> QED
  BY <1>1, <1>2

LEMMA EditStep ==
  ASSUME TreeInv, NEW c \in Clients, WriteStatus(c) \/ WriteEdit(c)
  PROVE  TreeInv'
<1>0. ask[c] \in Ask /\ ask[c].task \in Nodes \cup {NoNode} /\ ask[c].promotes \in BOOLEAN
  BY DEF TreeInv, TreeTypeOK, Ask
<1>1. PICK promotes \in BOOLEAN : Alter(ask[c].task, promotes)
  BY <1>0 DEF WriteStatus, WriteEdit
<1>2. crossed' = crossed /\ asks' \in 0..MaxAsks /\ stops' \in 0..MaxStops
  BY DEF WriteStatus, WriteEdit, TreeInv, TreeTypeOK
<1>3. \E job \in Ask : ask' = [ask EXCEPT ![c] = job] /\ job.pc \notin {"walk", "parent", "sweep"}
  <2>1. CASE Answer(c)
    BY <2>1, NoAskType DEF Answer
  <2>2. CASE ~Answer(c)
    <3>1. ask' = [ask EXCEPT ![c].pc = "edit"]
      BY <2>2 DEF WriteStatus, WriteEdit
    <3>2. \E job \in Ask : ask' = [ask EXCEPT ![c] = job] /\ job.pc = "edit"
      BY <3>1, NextStatement DEF TreeInv
    <3> QED
      BY <3>2
  <2> QED
    BY <2>1, <2>2
<1>4. /\ tree' \in [Nodes -> Node] /\ Stays(tree, tree') /\ SameParents(tree, tree')
      /\ \A u \in Nodes : tree[u].life = "unborn" => tree'[u].life # "live"
      /\ late \subseteq late' /\ late' \subseteq Nodes
      /\ (\E d \in Clients : ask[d].pc = "sweep") => DraftsStay(tree, tree', late')
      /\ Rooted(tree')
  BY <1>0, <1>1, AlterRows
<1> QED
  BY <1>2, <1>3, <1>4, RowsStep

\* What hangs on what is removed is removed.
LEMMA BelowIsWhole ==
  ASSUME NEW t \in Nodes
  PROVE  /\ t \in Below({t}) /\ Below({t}) \subseteq Nodes
         /\ Hanging(Below({t})) \subseteq Below({t})
<1> DEFINE whole == {X \in SUBSET Nodes : {t} \subseteq X /\ Hanging(X) \subseteq X}
<1>1. Below({t}) = {u \in Nodes : \A X \in whole : u \in X}
  BY DEF Below
<1>2. ASSUME NEW u \in Hanging(Below({t})), NEW X \in whole PROVE u \in X
  <2>1. Below({t}) \subseteq X
    BY <1>1
  <2>2. u \in Hanging(X)
    BY <1>2, <2>1 DEF Hanging
  <2> QED
    BY <2>2
<1>3. Hanging(Below({t})) \subseteq Nodes
  BY DEF Hanging
<1> QED
  BY <1>1, <1>2, <1>3

LEMMA RemovedRows ==
  ASSUME TreeInv, NEW t \in Nodes, NEW how \in {"deleted", "swept"}, tree' = Removed(t, how)
  PROVE  /\ tree' \in [Nodes -> Node] /\ Stays(tree, tree') /\ SameParents(tree, tree')
         /\ \A u \in Nodes : tree[u].life = "unborn" => tree'[u].life # "live"
         /\ DraftsStay(tree, tree', late)
         /\ Rooted(tree')
<1>0. tree \in [Nodes -> Node] /\ Rooted(tree)
  BY DEF TreeInv, TreeTypeOK
<1>1. tree' \in [Nodes -> Node]
  BY <1>0, RemovedType
<1>2. CASE ~Live(t)
  BY <1>0, <1>2 DEF Removed, Stays, SameParents, DraftsStay
<1>3. CASE Live(t)
  <2>1. \A u \in Nodes : tree'[u] = IF u \in Below({t}) THEN Gone(how) ELSE tree[u]
    BY <1>3 DEF Removed
  <2>2. Gone(how).life = how /\ Gone(how).parent = NoNode
    BY DEF Gone
  <2>3. \A u \in Nodes : tree'[u] = tree[u] \/ (tree'[u].life = how /\ tree'[u].parent = NoNode)
    BY <2>1, <2>2
  <2>4. Stays(tree, tree') /\ SameParents(tree, tree') /\ DraftsStay(tree, tree', late)
    BY <2>3 DEF Stays, SameParents, DraftsStay
  <2>5. ASSUME NEW u \in Nodes, tree'[u].parent # NoNode
        PROVE  tree'[u].life = "live" /\ tree'[tree'[u].parent].life = "live"
    <3>1. u \notin Below({t}) /\ tree'[u] = tree[u]
      BY <2>1, <2>2, <2>5
    <3>2. tree[u].life = "live" /\ tree[u].parent \in Nodes /\ tree[tree[u].parent].life = "live"
      BY <1>0, <2>5, <3>1 DEF Rooted, Node
    <3>3. tree[u].parent \notin Below({t})
      BY <3>1, <3>2, BelowIsWhole DEF Hanging
    <3> QED
      BY <2>1, <3>1, <3>2, <3>3
  <2>6. Rooted(tree')
    BY <2>5 DEF Rooted
  <2>7. \A u \in Nodes : tree[u].life = "unborn" => tree'[u].life # "live"
    BY <2>3
  <2> QED
    BY <1>1, <2>4, <2>6, <2>7
<1> QED
  BY <1>0, <1>1, <1>2, <1>3

LEMMA DeleteStep ==
  ASSUME TreeInv, NEW t \in Nodes, Delete(t)
  PROVE  TreeInv'
<1>1. tree' = Removed(t, "deleted") /\ AskOnce /\ UNCHANGED <<ask, crossed, late>>
  BY DEF Delete
<1>2. late \subseteq Nodes
  BY DEF TreeInv, TreeTypeOK
<1>3. asks' \in 0..MaxAsks /\ stops' \in 0..MaxStops
  BY <1>1, AskOnceTyped DEF TreeInv
<1>4. /\ tree' \in [Nodes -> Node] /\ Stays(tree, tree') /\ SameParents(tree, tree')
      /\ \A u \in Nodes : tree[u].life = "unborn" => tree'[u].life # "live"
      /\ DraftsStay(tree, tree', late) /\ Rooted(tree')
  BY <1>1, RemovedRows
<1> QED
  BY <1>1, <1>2, <1>3, <1>4, RowsStep

LEMMA SweepStep ==
  ASSUME TreeInv, NEW c \in Clients, NEW t \in Nodes, Sweep(c, t)
  PROVE  TreeInv'
<1>1. /\ ask[c].pc = "sweep" /\ tree' = Removed(t, "swept") /\ UNCHANGED <<crossed, late, asks, stops>>
      /\ late \subseteq Nodes /\ asks' \in 0..MaxAsks /\ stops' \in 0..MaxStops
  BY DEF Sweep, TreeInv, TreeTypeOK
<1>2. /\ tree' \in [Nodes -> Node] /\ Stays(tree, tree') /\ SameParents(tree, tree')
      /\ \A u \in Nodes : tree[u].life = "unborn" => tree'[u].life # "live"
      /\ DraftsStay(tree, tree', late) /\ Rooted(tree')
  BY <1>1, RemovedRows
<1>3. PICK job \in Ask : /\ ask' = [ask EXCEPT ![c] = job]
                         /\ job.pc \in {"find", "sweep"} /\ job.listed = ask[c].listed \ {t}
  BY SweepAsk DEF TreeInv
<1>4. ask' \in [Clients -> Ask] /\ Reading'
  BY <1>3, AskTyped DEF TreeInv
<1>5. \A d \in Clients : /\ Walked(tree', ask[d])
                         /\ Published(tree', ask[d])
                         /\ StillListed(tree', ask[d], late')
  BY <1>1, <1>2, RowsChange
<1>6. StillListed(tree', job, late')
  BY <1>1, <1>3, <1>5 DEF StillListed
<1>7. AsksInv'
  BY <1>3, <1>5, <1>6, NoWalk, OneAsks DEF TreeInv
<1>8. crossed \/ Acyclic(tree')
  <2>1. ASSUME NEW u \in Nodes, tree'[u].life = "live"
        PROVE  tree[u].life = "live" /\ tree'[u].parent = tree[u].parent
    BY <1>2, <2>1 DEF Stays, SameParents
  <2> QED
    BY <2>1, AcyclicShrinks DEF TreeInv
<1> QED
  BY <1>1, <1>2, <1>4, <1>7, <1>8 DEF TreeInv, TreeTypeOK

LEMMA GrowOldStep ==
  ASSUME TreeInv, NEW t \in Nodes, GrowOld(t)
  PROVE  TreeInv'
<1> DEFINE node == [tree[t] EXCEPT !.old = TRUE]
<1>1. /\ tree \in [Nodes -> Node] /\ late \subseteq Nodes /\ Rooted(tree)
      /\ UNCHANGED <<ask, crossed, late>> /\ asks' \in 0..MaxAsks /\ stops' \in 0..MaxStops
  BY DEF GrowOld, TreeInv, TreeTypeOK
<1>2. /\ node \in Node /\ node.life = tree[t].life /\ node.parent = tree[t].parent
      /\ node.draft = tree[t].draft /\ node.touched = tree[t].touched
  BY <1>1 DEF Node
<1>3. tree' = [tree EXCEPT ![t] = node]
  BY DEF GrowOld
<1> HIDE DEF node
<1>4. /\ tree' \in [Nodes -> Node]
      /\ \A u \in Nodes : /\ tree'[u].life = tree[u].life /\ tree'[u].parent = tree[u].parent
                          /\ tree'[u].draft = tree[u].draft /\ tree'[u].touched = tree[u].touched
  BY <1>1, <1>2, <1>3
<1>5. Stays(tree, tree') /\ SameParents(tree, tree') /\ DraftsStay(tree, tree', late)
  BY <1>4 DEF Stays, SameParents, DraftsStay
<1>6. Rooted(tree')
  <2>1. \A u \in Nodes : tree[u].parent # NoNode => tree[u].parent \in Nodes
    BY <1>1 DEF Node
  <2> QED
    BY <1>1, <1>4, <2>1 DEF Rooted
<1>7. \A u \in Nodes : tree[u].life = "unborn" => tree'[u].life # "live"
  BY <1>4
<1> QED
  BY <1>1, <1>4, <1>5, <1>6, <1>7, RowsStep

LEMMA StopStep ==
  ASSUME TreeInv, Stop
  PROVE  TreeInv'
<1>1. /\ ask' = [c \in Clients |-> NoAsk] /\ UNCHANGED <<tree, crossed, late, asks>>
  BY DEF Stop
<1>2. stops' \in 0..MaxStops
  BY TreeConstants DEF Stop, TreeInv, TreeTypeOK
<1>3. Reading' /\ AsksInv'
  BY <1>1, NoAskType, NoWalk, NoSweep DEF Reading, AsksInv
<1> QED
  BY <1>1, <1>2, <1>3, NoAskType DEF TreeInv, TreeTypeOK

\* A row that did not exist hangs on one that does, and nothing hangs on it.
LEMMA InsertedRows ==
  ASSUME TreeInv, NEW p \in Nodes \cup {NoNode}, Live(p) \/ p = NoNode,
         NEW draft \in BOOLEAN, Insert(p, draft)
  PROVE  /\ tree' \in [Nodes -> Node] /\ Stays(tree, tree') /\ SameParents(tree, tree')
         /\ DraftsStay(tree, tree', late)
         /\ Rooted(tree')
         /\ crossed \/ Acyclic(tree')
<1>0. tree \in [Nodes -> Node] /\ Rooted(tree)
  BY DEF TreeInv, TreeTypeOK
<1>1. PICK t \in Unborn :
        tree' = [tree EXCEPT ![t] = [life |-> "live", parent |-> p, draft |-> draft,
                                     touched |-> ~draft, old |-> FALSE]]
  BY DEF Insert
<1> DEFINE node == [life |-> "live", parent |-> p, draft |-> draft,
                    touched |-> ~draft, old |-> FALSE]
<1>2. t \in Nodes /\ tree[t].life = "unborn" /\ node \in Node
      /\ node.life = "live" /\ node.parent = p
  BY DEF Unborn, Node
<1> HIDE DEF node
<1>3. /\ tree' \in [Nodes -> Node] /\ tree'[t] = node
      /\ \A u \in Nodes \ {t} : tree'[u] = tree[u]
  BY <1>0, <1>1, <1>2 DEF node
<1>4. Stays(tree, tree') /\ SameParents(tree, tree') /\ DraftsStay(tree, tree', late)
  BY <1>2, <1>3 DEF Stays, SameParents, DraftsStay
<1>5. Rooted(tree')
  <2> SUFFICES ASSUME NEW u \in Nodes, tree'[u].parent # NoNode
               PROVE  tree'[u].life = "live" /\ tree'[tree'[u].parent].life = "live"
    BY DEF Rooted
  <2>1. CASE u = t
    BY <1>2, <1>3, <2>1 DEF Live
  <2>2. CASE u # t
    BY <1>0, <1>2, <1>3, <2>2 DEF Rooted, Node
  <2> QED
    BY <2>1, <2>2
<1>6. ASSUME Acyclic(tree) PROVE Acyclic(tree')
  <2>0. ASSUME NEW u \in Nodes PROVE tree[u].parent # t
    BY <1>0, <1>2, TreeConstants DEF Rooted
  <2> SUFFICES ASSUME NEW u \in Nodes
               PROVE  \E X \in SUBSET (Nodes \ {u}) : HangingOf(tree', X \cup {u}) \subseteq X
    BY DEF Acyclic
  <2>1. CASE u = t
    <3>1. p # t
      BY <1>2, TreeConstants DEF Live
    <3>2. HangingOf(tree', {} \cup {u}) \subseteq {}
      BY <1>2, <1>3, <2>0, <2>1, <3>1 DEF HangingOf
    <3> QED
      BY <3>2
  <2>2. CASE u # t
    <3>1. PICK X \in SUBSET (Nodes \ {u}) : HangingOf(tree, X \cup {u}) \subseteq X
      BY <1>6 DEF Acyclic
    <3>2. X \cup {t} \in SUBSET (Nodes \ {u})
      BY <1>2, <2>2
    <3>3. HangingOf(tree', (X \cup {t}) \cup {u}) \subseteq X \cup {t}
      BY <1>3, <2>0, <3>1 DEF HangingOf
    <3> QED
      BY <3>2, <3>3
  <2> QED
    BY <2>1, <2>2
<1> QED
  BY <1>3, <1>4, <1>5, <1>6 DEF TreeInv

LEMMA PublishStep ==
  ASSUME TreeInv, NEW p \in Nodes \cup {NoNode}, Publish(p)
  PROVE  TreeInv'
<1>1. AskOnce /\ (Live(p) \/ p = NoNode) /\ Insert(p, FALSE) /\ UNCHANGED <<ask, crossed, late>>
      /\ late \subseteq Nodes
  BY DEF Publish, TreeInv, TreeTypeOK
<1>2. /\ tree' \in [Nodes -> Node] /\ Stays(tree, tree') /\ SameParents(tree, tree')
      /\ DraftsStay(tree, tree', late) /\ Rooted(tree') /\ (crossed \/ Acyclic(tree'))
  BY <1>1, InsertedRows
<1>3. asks' \in 0..MaxAsks /\ stops' \in 0..MaxStops
  BY <1>1, AskOnceTyped DEF TreeInv
<1>4. \A d \in Clients : /\ Walked(tree', ask[d])
                         /\ Published(tree', ask[d])
                         /\ StillListed(tree', ask[d], late')
  BY <1>1, <1>2, RowsChange
<1> QED
  BY <1>1, <1>2, <1>3, <1>4 DEF TreeInv, TreeTypeOK, Reading, AsksInv

LEMMA CreateDraftStep ==
  ASSUME TreeInv, NEW c \in Clients, CreateDraft(c)
  PROVE  TreeInv'
<1>1. /\ Answer(c) /\ UNCHANGED <<crossed, late>> /\ ask[c].parent \in Nodes \cup {NoNode}
      /\ late \subseteq Nodes /\ asks' \in 0..MaxAsks /\ stops' \in 0..MaxStops
  BY DEF CreateDraft, TreeInv, TreeTypeOK, Ask
<1>2. CASE tree' = tree
  BY <1>1, <1>2, OnlyAnswers
<1>3. CASE tree' # tree
  <2>1. (Live(ask[c].parent) \/ ask[c].parent = NoNode) /\ Insert(ask[c].parent, TRUE)
    BY <1>3 DEF CreateDraft
  <2>2. /\ tree' \in [Nodes -> Node] /\ Stays(tree, tree') /\ SameParents(tree, tree')
        /\ DraftsStay(tree, tree', late) /\ Rooted(tree') /\ (crossed \/ Acyclic(tree'))
    BY <1>1, <2>1, InsertedRows
  <2>3. \A d \in Clients : /\ Walked(tree', ask[d])
                           /\ Published(tree', ask[d])
                           /\ StillListed(tree', ask[d], late')
    BY <1>1, <2>2, RowsChange
  <2>4. AsksInv'
    BY <1>1, <2>3, NoAskType, NoWalk, NoSweep, OneAsks DEF Answer, TreeInv
  <2>5. ask' \in [Clients -> Ask] /\ Reading'
    BY <1>1, AnswerTyped DEF TreeInv
  <2> QED
    BY <1>1, <2>2, <2>4, <2>5 DEF TreeInv, TreeTypeOK
<1> QED
  BY <1>2, <1>3

(***************************************************************************)
(* The new edge                                                            *)
(***************************************************************************)

\* W loses nothing that hangs on it, holds t and not p: with t hung on p, every
\* task is still apart from what is below it.
LEMMA NewEdge ==
  ASSUME NEW rows, NEW new, Acyclic(rows),
         NEW t \in Nodes, NEW p \in Nodes,
         NEW W \in SUBSET Nodes, HangingOf(rows, W) \subseteq W, t \in W, p \notin W,
         new[t].parent = p,
         \A u \in Nodes \ {t} : new[u].life = rows[u].life /\ new[u].parent = rows[u].parent
  PROVE  Acyclic(new)
<1> SUFFICES ASSUME NEW u \in Nodes
             PROVE  \E X \in SUBSET (Nodes \ {u}) : HangingOf(new, X \cup {u}) \subseteq X
  BY DEF Acyclic
<1>1. PICK X \in SUBSET (Nodes \ {u}) : HangingOf(rows, X \cup {u}) \subseteq X
  BY DEF Acyclic
<1>2. CASE u \in W
  <2>1. X \cap W \in SUBSET (Nodes \ {u})
    OBVIOUS
  <2>2. ASSUME NEW v \in HangingOf(new, (X \cap W) \cup {u}) PROVE v \in X \cap W
    <3>1. v \in Nodes /\ new[v].life = "live" /\ new[v].parent \in (X \cap W) \cup {u}
      BY <2>2 DEF HangingOf
    <3>2. v # t
      BY <1>2, <3>1
    <3>3. v \in HangingOf(rows, X \cup {u}) /\ v \in HangingOf(rows, W)
      BY <1>2, <3>1, <3>2 DEF HangingOf
    <3> QED
      BY <1>1, <3>3
  <2> QED
    BY <2>1, <2>2
<1>3. CASE u \notin W
  <2>1. X \cup W \in SUBSET (Nodes \ {u})
    BY <1>3
  <2>2. ASSUME NEW v \in HangingOf(new, (X \cup W) \cup {u}) PROVE v \in X \cup W
    <3>1. v \in Nodes /\ new[v].life = "live" /\ new[v].parent \in (X \cup W) \cup {u}
      BY <2>2 DEF HangingOf
    <3>2. v # t => v \in HangingOf(rows, X \cup {u}) \/ v \in HangingOf(rows, W)
      BY <3>1 DEF HangingOf
    <3> QED
      BY <1>1, <3>2
  <2> QED
    BY <2>1, <2>2
<1> QED
  BY <1>2, <1>3

\* What a walk that is over and that nobody overtook has not met.
LEMMA NotMet ==
  ASSUME TreeInv, NEW c \in Clients, ask[c].pc = "parent", ~ask[c].behind, ask[c].parent # NoNode,
         NEW W, W = Nodes \ Met(ask[c])
  PROVE  HangingOf(tree, W) \subseteq W /\ ask[c].task \notin Met(ask[c]) /\ ask[c].parent \notin W
<1>1. Walked(tree, ask[c])
  BY DEF TreeInv, AsksInv
<1>2. /\ ask[c].parent \in Met(ask[c])
      /\ \A v \in Met(ask[c]) : tree[v].life = "live" => tree[v].parent \in Met(ask[c]) \cup {NoNode}
  BY <1>1 DEF Walked
<1>3. ASSUME NEW v \in HangingOf(tree, W) PROVE v \in W
  BY <1>2, <1>3, TreeConstants DEF HangingOf
<1> QED
  BY <1>2, <1>3 DEF Met

\* The other requests learn that a parent was written since they walked.
Overtaken(job) == IF job.pc \in {"walk", "parent"} THEN [job EXCEPT !.behind = TRUE] ELSE job

LEMMA OvertakenIs ==
  ASSUME NEW job \in Ask
  PROVE  /\ Overtaken(job) \in Ask /\ Overtaken(job).pc = job.pc /\ Overtaken(job).at = job.at
         /\ Overtaken(job).task = job.task /\ Overtaken(job).promotes = job.promotes
         /\ Overtaken(job).listed = job.listed
         /\ Overtaken(job).pc \in {"walk", "parent"} => Overtaken(job).behind
  BY DEF Overtaken, Ask

LEMMA WriteParentStep ==
  ASSUME TreeInv, NEW c \in Clients, WriteParent(c)
  PROVE  TreeInv'
<1> DEFINE t == ask[c].task
           p == ask[c].parent
<1>0. /\ ask[c].pc = "parent" /\ ask[c] \in Ask /\ tree \in [Nodes -> Node] /\ Rooted(tree)
      /\ late' = late /\ late \subseteq Nodes /\ ask \in [Clients -> Ask]
      /\ asks' \in 0..MaxAsks /\ stops' \in 0..MaxStops
  BY DEF WriteParent, TreeInv, TreeTypeOK
<1>1. CASE ~Live(t) \/ ~(Live(p) \/ p = NoNode)
  <2>1. Answer(c) /\ UNCHANGED <<tree, crossed, late>>
    BY <1>1 DEF WriteParent
  <2> QED
    BY <1>0, <2>1, OnlyAnswers
<1>2. CASE Live(t) /\ (Live(p) \/ p = NoNode)
  <2> DEFINE node == [tree[t] EXCEPT !.parent = p, !.old = FALSE,
                                     !.draft = tree[t].draft /\ ~ask[c].promotes]
  <2>0. /\ t \in Nodes /\ tree[t] \in Node /\ tree[t].life = "live"
        /\ p \in Nodes \cup {NoNode} /\ ask[c].promotes \in BOOLEAN /\ tree[t].draft \in BOOLEAN
    BY <1>0, <1>2 DEF Live, Ask, Node
  <2>1. /\ tree' = [tree EXCEPT ![t] = node]
        /\ crossed' = (crossed \/ (ask[c].behind /\ p # NoNode))
        /\ ask' = [d \in Clients |-> IF d = c THEN NoAsk ELSE Overtaken(ask[d])]
    BY <1>0, <1>2, <2>0 DEF WriteParent, Overtaken
  <2>2. /\ node \in Node /\ node.parent = p /\ node.life = "live"
        /\ node.touched = tree[t].touched /\ node.draft = (tree[t].draft /\ ~ask[c].promotes)
    BY <2>0 DEF Node
  <2> HIDE DEF node
  <2>3. /\ tree' \in [Nodes -> Node] /\ tree'[t] = node
        /\ \A u \in Nodes \ {t} : tree'[u] = tree[u]
    BY <1>0, <2>0, <2>1, <2>2
  <2>4. Stays(tree, tree')
    BY <2>0, <2>2, <2>3 DEF Stays
  <2>5. DraftsStay(tree, tree', late)
    <3>1. ask[c].promotes => tree[t].touched
      BY <1>0, <2>0 DEF TreeInv, AsksInv, Published
    <3> QED
      BY <2>0, <2>2, <2>3, <3>1 DEF DraftsStay
  <2>6. Rooted(tree')
    <3> SUFFICES ASSUME NEW u \in Nodes, tree'[u].parent # NoNode
                 PROVE  tree'[u].life = "live" /\ tree'[tree'[u].parent].life = "live"
      BY DEF Rooted
    <3>1. CASE u = t
      BY <1>2, <2>0, <2>2, <2>3, <3>1 DEF Live
    <3>2. CASE u # t
      BY <1>0, <2>0, <2>2, <2>3, <3>2 DEF Rooted, Node
    <3> QED
      BY <3>1, <3>2
  <2>7. ASSUME NEW d \in Clients
        PROVE  /\ ask'[d] \in Ask
               /\ ask'[d].pc = "walk" => ask'[d].at \in Nodes
               /\ Walked(tree', ask'[d]) /\ Published(tree', ask'[d])
               /\ StillListed(tree', ask'[d], late')
    <3>1. CASE d = c
      BY <2>1, <3>1, NoAskType, NoWalk, NoSweep
    <3>2. CASE d # c
      <4>1. ask'[d] = Overtaken(ask[d]) /\ ask[d] \in Ask
        BY <1>0, <2>1, <3>2
      <4>2. Published(tree, ask[d]) /\ StillListed(tree, ask[d], late)
            /\ (ask[d].pc = "walk" => ask[d].at \in Nodes)
        BY DEF TreeInv, AsksInv, Reading
      <4>3. Published(tree', ask[d]) /\ StillListed(tree', ask[d], late)
        BY <2>4, <2>5, <4>1, <4>2, PublishedStays, ListedStays
      <4> QED
        BY <1>0, <4>1, <4>2, <4>3, OvertakenIs DEF Walked, Published, StillListed
    <3> QED
      BY <3>1, <3>2
  <2>8. crossed' \/ Acyclic(tree')
    <3> SUFFICES ASSUME ~crossed' PROVE Acyclic(tree')
      OBVIOUS
    <3>1. Acyclic(tree) /\ (ask[c].behind => p = NoNode)
      BY <2>1 DEF TreeInv
    <3>2. CASE p = NoNode
      <4>1. ASSUME NEW u \in Nodes, tree'[u].parent # NoNode
            PROVE  u # t /\ tree'[u] = tree[u]
        BY <2>2, <2>3, <3>2, <4>1
      <4> QED
        BY <3>1, <4>1, AcyclicShrinks
    <3>3. CASE p # NoNode
      <4> DEFINE W == Nodes \ Met(ask[c])
      <4>1. HangingOf(tree, W) \subseteq W /\ t \notin Met(ask[c]) /\ p \notin W
        BY <1>0, <3>1, <3>3, NotMet
      <4>2. t \in W /\ W \in SUBSET Nodes /\ p \in Nodes
        BY <2>0, <3>3, <4>1
      <4>3. tree'[t].parent = p
            /\ \A u \in Nodes \ {t} : tree'[u].life = tree[u].life /\ tree'[u].parent = tree[u].parent
        BY <2>2, <2>3
      <4> HIDE DEF W
      <4> QED
        BY <2>0, <3>1, <4>1, <4>2, <4>3, NewEdge
    <3> QED
      BY <3>2, <3>3
  <2>9. ask' \in [Clients -> Ask]
    <3>1. ask' = [d \in Clients |-> ask'[d]]
      BY <2>1
    <3> QED
      BY <2>7, <3>1
  <2>10. crossed' \in BOOLEAN
    BY <2>1
  <2> QED
    BY <1>0, <2>3, <2>6, <2>7, <2>8, <2>9, <2>10 DEF TreeInv, TreeTypeOK, Reading, AsksInv
<1> QED
  BY <1>1, <1>2

(***************************************************************************)
(* The theorems                                                            *)
(***************************************************************************)

LEMMA TreeStep == TreeInv /\ [TreeNext]_treeVars => TreeInv'
<1> SUFFICES ASSUME TreeInv, [TreeNext]_treeVars PROVE TreeInv'
  OBVIOUS
<1>1. CASE UNCHANGED treeVars
  BY <1>1 DEF treeVars, TreeInv, TreeTypeOK, Reading, AsksInv
<1>2. CASE TreeNext
  BY <1>2, AskParentStep, WalkStep, OtherAsksStep, EditStep, DeleteStep, SweepStep, GrowOldStep,
     StopStep, PublishStep, CreateDraftStep, WriteParentStep
     DEF TreeNext
<1> QED
  BY <1>1, <1>2

\* The inductive invariant of the requests on the tree: what a walk has passed
\* stays above where it is, and what a sweep has listed were untouched drafts.
THEOREM TreeInvariant == TreeSpec => []TreeInv
  BY TreeInit1, TreeStep, PTL DEF TreeSpec

\* No task comes to be below itself, whoever creates, removes, moves and edits
\* while wouldCycle walks up, unless a parent was written that another parent's
\* write had overtaken.
THEOREM NeverBelowItself == TreeSpec => []NoTaskBelowItself
<1>1. TreeInv => NoTaskBelowItself
  <2> SUFFICES ASSUME TreeInv, ~crossed, NEW t \in Nodes PROVE t \notin Below(Hanging({t}))
    BY DEF NoTaskBelowItself
  <2>1. PICK X \in SUBSET (Nodes \ {t}) : HangingOf(tree, X \cup {t}) \subseteq X
    BY DEF TreeInv, Acyclic
  <2>2. Hanging({t}) \subseteq X /\ Hanging(X) \subseteq X /\ X \in SUBSET Nodes /\ t \notin X
    BY <2>1 DEF Hanging, HangingOf
  <2> QED
    BY <2>2 DEF Below
<1> QED
  BY <1>1, TreeInvariant, PTL

\* Removing old drafts removes, beside drafts nobody edited, only what hangs
\* below one, or was edited while the removal was under way: however the listing,
\* the removals, and the edits of others alternate.
THEOREM SweepKeeps == TreeSpec => SweepKeepsWork
<1> DEFINE Kept == \A t \in Nodes : Live(t) /\ tree'[t].life = "swept" /\ ~Intact(t) =>
                     \E u \in Nodes : t \in Below({u}) /\ (Intact(u) \/ u \in late)
<1>1. TreeInv /\ [TreeNext]_treeVars => [Kept]_treeVars
  <2> SUFFICES ASSUME TreeInv, TreeNext, NEW t \in Nodes, Live(t), tree'[t].life = "swept"
               PROVE  \E u \in Nodes : t \in Below({u}) /\ (Intact(u) \/ u \in late)
    OBVIOUS
  <2>0. tree \in [Nodes -> Node] /\ tree[t].life = "live"
    BY DEF TreeInv, TreeTypeOK, Live
  <2>1. PICK c \in Clients, u \in Nodes : Sweep(c, u)
    <3>1. ASSUME tree' = tree PROVE FALSE
      BY <2>0, <3>1
    <3>2. ASSUME NEW v \in Nodes, Delete(v) PROVE FALSE
      BY <2>0, <3>2 DEF Delete, Removed, Gone
    <3>3. ASSUME NEW v, GrowOld(v) PROVE FALSE
      BY <2>0, <3>3 DEF GrowOld
    <3>4. ASSUME NEW p, NEW draft, Insert(p, draft) PROVE FALSE
      BY <2>0, <3>4 DEF Insert
    <3>5. ASSUME NEW v, NEW promotes, Alter(v, promotes) PROVE FALSE
      BY <2>0, <3>5 DEF Alter
    <3>6. ASSUME NEW c \in Clients, WriteParent(c) PROVE FALSE
      <4> DEFINE u == ask[c].task
                 node == [tree[u] EXCEPT !.parent = ask[c].parent, !.old = FALSE,
                                         !.draft = tree[u].draft /\ ~ask[c].promotes]
      <4>1. tree' = tree \/ (u \in Nodes /\ tree' = [tree EXCEPT ![u] = node])
        BY <2>0, <3>6 DEF WriteParent, Live
      <4>2. u \in Nodes => node.life = tree[u].life
        BY <2>0 DEF Node
      <4> HIDE DEF u, node
      <4> QED
        BY <2>0, <4>1, <4>2
    <3> QED
      BY <3>1, <3>2, <3>3, <3>4, <3>5, <3>6
         DEF TreeNext, AskEdit, AskParent, AskDraft, Walk, WriteStatus, WriteEdit, FindDraft,
             CreateDraft, Publish, Stop
  <2>2. Live(u) /\ t \in Below({u})
    BY <2>0, <2>1 DEF Sweep, Removed, Gone
  <2>3. Intact(u) \/ u \in late
    BY <2>1, <2>2 DEF Sweep, TreeInv, AsksInv, StillListed, Live, Intact
  <2> QED
    BY <2>2, <2>3
<1>2. TreeSpec => [][Kept]_treeVars
  BY <1>1, TreeInvariant, PTL DEF TreeSpec
<1> QED
  BY <1>2 DEF SweepKeepsWork

(***************************************************************************)
(* Board: what a move holds, and what that keeps from the others           *)
(***************************************************************************)

Inside == {"before", "after", "rank", "renumber", "commit"}

\* What a move was asked for.
AskedFor(m) ==
  txn[m].pc # "idle" =>
    /\ txn[m].task \in Tasks /\ txn[m].to \in Columns
    /\ txn[m].task \notin {txn[m].before, txn[m].after}
    /\ txn[m].before # NoTask => txn[m].before # txn[m].after

\* The locks it has taken so far, and what they tell it.
Holds(m) ==
  /\ txn[m].pc \in Inside \cup {"column"} => rowLock[txn[m].task] = m
  /\ txn[m].pc \in Inside => columnLock[txn[m].to] = m
  /\ txn[m].pc \in Inside \ {"before"} /\ txn[m].before # NoTask =>
       rowLock[txn[m].before] = m /\ row[txn[m].before].column = txn[m].to
  /\ txn[m].pc \in Inside \ {"before", "after"} /\ txn[m].after # NoTask =>
       rowLock[txn[m].after] = m /\ row[txn[m].after].column = txn[m].to

\* It is renumbering the column, or has.
Renumbers(m) == txn[m].pc = "renumber" \/ txn[m].mine # {}

\* Every row of the column but the one that moves, and those the
\* synchronisation brought in, is renumbered or waits for it.
Covers(m) ==
  /\ txn[m].pc # "renumber" => txn[m].todo = {}
  /\ txn[m].pc \notin {"renumber", "commit"} => txn[m].mine = {}
  /\ txn[m].task \notin txn[m].todo
  /\ \A t \in txn[m].mine :
       t # txn[m].task /\ rowLock[t] = m /\ row[t].column = txn[m].to
  /\ Renumbers(m) =>
       /\ txn[m].after # NoTask
       /\ {txn[m].before, txn[m].after} \ {NoTask} \subseteq txn[m].todo \cup txn[m].mine
       /\ \A t \in Tasks \ {txn[m].task} :
            row[t].column = txn[m].to /\ row[t].placed # "carried" =>
              t \in txn[m].todo \cup txn[m].mine

\* Where it is about to land.
Lands(m) ==
  txn[m].pc = "commit" =>
    LET p == txn[m].position
        b == txn[m].before
        a == txn[m].after
    IN  /\ b # NoTask /\ a = NoTask => Renumbered(m, b) < p
        /\ b = NoTask /\ a # NoTask => p < Renumbered(m, a)
        /\ b # NoTask /\ a # NoTask =>
             \/ Renumbered(m, b) < p /\ p < Renumbered(m, a)
             \/ Renumbered(m, a) < p /\ p < Renumbered(m, b)
        /\ b = NoTask /\ a = NoTask =>
             \A t \in Tasks \ {txn[m].task} :
               row[t].column = txn[m].to /\ row[t].placed = "append" => row[t].position < p

MoveInv(m) == AskedFor(m) /\ Holds(m) /\ Covers(m) /\ Lands(m)

\* Only rows of the board are locked: there is no lock on a row to come.
LockedAlive == \A t \in Tasks : rowLock[t] # NoMover => Alive(t)

BoardInv ==
  BoardTypeOK /\ AppendedDiffer /\ LockedAlive /\ \A m \in Movers : MoveInv(m)

(***************************************************************************)
(* Positions                                                               *)
(***************************************************************************)

\* The highest position is one that no row is above.
LEMMA HighestIs ==
  ASSUME row \in [Tasks -> Row], NEW S \in SUBSET Tasks
  PROVE  Highest(S) \in Nat /\ \A t \in S : row[t].position <= Highest(S)
<1>1. \A t \in S : row[t].position \in Nat
  BY DEF Row
<1>2. CASE S = {}
  BY <1>2 DEF Highest
<1>3. CASE S # {}
  <2>1. IsFiniteSet(S)
    BY BoardTasksAreNumbered, FS_Subset
  <2> DEFINE at == [t \in S |-> row[t].position]
  <2>2. \E t \in S : \A u \in S : at[u] <= at[t]
    <3>1. \A t \in S : at[t] \in Int
      BY <1>1
    <3> HIDE DEF at
    <3> QED
      BY <1>3, <2>1, <3>1, FiniteMaximum
  <2>3. \E p \in {row[t].position : t \in S} : \A t \in S : row[t].position <= p
    BY <2>2
  <2> QED
    BY <1>1, <1>3, <2>3 DEF Highest
<1> QED
  BY <1>2, <1>3

\* The rank of a row among those that are renumbered grows with its position.
LEMMA Ranks ==
  ASSUME BoardTypeOK, NEW m \in Movers, NEW t \in txn[m].mine
  PROVE  \E n \in Nat \ {0} : Renumbered(m, t) = Step * n
<1> DEFINE S == {u \in txn[m].mine : u = t \/ Precedes(u, t)}
<1>1. txn[m].mine \in SUBSET Tasks
  BY DEF BoardTypeOK, Move
<1>2. IsFiniteSet(S) /\ Cardinality(S) \in Nat
  <2>1. S \in SUBSET Tasks
    BY <1>1
  <2> QED
    BY <2>1, BoardTasksAreNumbered, FS_Subset, FS_CardinalityType
<1>3. Cardinality(S) # 0
  <2>1. t \in S
    OBVIOUS
  <2> QED
    BY <1>2, <2>1, FS_EmptySet
<1>4. Renumbered(m, t) = Step * Cardinality(S)
  BY DEF Renumbered
<1> QED
  BY <1>2, <1>3, <1>4

LEMMA RanksKeepOrder ==
  ASSUME BoardTypeOK, NEW m \in Movers, NEW t \in txn[m].mine, NEW u \in txn[m].mine,
         Precedes(t, u)
  PROVE  Renumbered(m, t) + Step <= Renumbered(m, u)
<1> DEFINE S(v) == {w \in txn[m].mine : w = v \/ Precedes(w, v)}
<1>1. txn[m].mine \in SUBSET Tasks /\ Tasks \subseteq Nat /\ \A v \in Tasks : row[v].position \in Nat
  BY BoardTasksAreNumbered DEF BoardTypeOK, Move, Row
<1>2. S(t) \subseteq S(u) \ {u}
  <2> SUFFICES ASSUME NEW w \in txn[m].mine, w = t \/ Precedes(w, t)
               PROVE  Precedes(w, u) /\ w # u
    OBVIOUS
  <2>1. /\ w \in Nat /\ t \in Nat /\ u \in Nat
        /\ row[w].position \in Nat /\ row[t].position \in Nat /\ row[u].position \in Nat
    BY <1>1
  <2>2. CASE w = t
    BY <2>1, <2>2 DEF Precedes
  <2>3. CASE Precedes(w, t)
    BY <2>1, <2>3 DEF Precedes
  <2> QED
    BY <2>2, <2>3
<1>3. IsFiniteSet(S(u)) /\ u \in S(u)
  <2>1. S(u) \in SUBSET Tasks
    BY <1>1
  <2> QED
    BY <2>1, BoardTasksAreNumbered, FS_Subset
<1>4. Cardinality(S(t)) + 1 <= Cardinality(S(u)) /\ Cardinality(S(t)) \in Nat /\ Cardinality(S(u)) \in Nat
  <2>1. IsFiniteSet(S(u) \ {u}) /\ Cardinality(S(u) \ {u}) = Cardinality(S(u)) - 1
    BY <1>3, FS_RemoveElement
  <2>2. IsFiniteSet(S(t)) /\ Cardinality(S(t)) <= Cardinality(S(u) \ {u})
    BY <1>2, <2>1, FS_Subset
  <2> HIDE DEF S
  <2> QED
    BY <1>3, <2>1, <2>2, FS_CardinalityType
<1>5. Renumbered(m, t) = Step * Cardinality(S(t)) /\ Renumbered(m, u) = Step * Cardinality(S(u))
  BY DEF Renumbered
<1> HIDE DEF S
<1>6. Step \in Nat
  BY BoardStep
<1>7. \A x, y \in Nat : x + 1 <= y => Step * x + Step <= Step * y
  <2> SUFFICES ASSUME NEW x \in Nat, NEW y \in Nat, x + 1 <= y PROVE Step * x + Step <= Step * y
    OBVIOUS
  <2>1. PICK d \in Nat : y = x + 1 + d
    <3>1. y - (x + 1) \in Nat /\ y = x + 1 + (y - (x + 1))
      OBVIOUS
    <3> QED
      BY <3>1
  <2>2. Step * y = Step * x + Step + Step * d /\ Step * d \in Nat
    BY <1>6, <2>1
  <2>3. Step * x \in Nat
    BY <1>6
  <2> QED
    BY <1>6, <2>2, <2>3
<1> QED
  BY <1>4, <1>5, <1>7

LEMMA RenumberedType ==
  ASSUME BoardTypeOK, NEW m \in Movers, NEW t \in Tasks
  PROVE  Renumbered(m, t) \in Nat
<1>1. CASE t \in txn[m].mine
  <2>1. PICK n \in Nat \ {0} : Renumbered(m, t) = Step * n
    BY <1>1, Ranks
  <2> QED
    BY <2>1, BoardStep
<1>2. CASE t \notin txn[m].mine
  BY <1>2 DEF Renumbered, BoardTypeOK, Row
<1> QED
  BY <1>1, <1>2

\* Rows that m has locked are renumbered to the same, whatever others do.
LEMMA RenumberedStays ==
  ASSUME BoardTypeOK, NEW m \in Movers, txn'[m].mine = txn[m].mine,
         NEW t \in Tasks, row'[t] = row[t],
         \A u \in txn[m].mine : row'[u] = row[u]
  PROVE  Renumbered(m, t)' = Renumbered(m, t)
<1>1. \A u \in txn[m].mine : Precedes(u, t)' <=> Precedes(u, t)
  BY DEF Precedes
<1>2. {u \in txn[m].mine : u = t \/ Precedes(u, t)}' = {u \in txn[m].mine : u = t \/ Precedes(u, t)}
  BY <1>1
<1> QED
  BY <1>2 DEF Renumbered

(***************************************************************************)
(* Types                                                                   *)
(***************************************************************************)

\* The fields of a move that goes on to its next step.
LEMMA GotoIs ==
  ASSUME BoardTypeOK, NEW m \in Movers, NEW pc \in MoveSteps, Goto(m, pc)
  PROVE  /\ txn' \in [Movers -> Move]
         /\ txn'[m] = [txn[m] EXCEPT !.pc = pc]
         /\ \A n \in Movers \ {m} : txn'[n] = txn[n]
BY DEF Goto, BoardTypeOK, Move

LEMMA NoMoveTyped == NoMove \in Move
BY BoardStep DEF NoMove, Move, MoveSteps, Absent

LEMMA ReleaseIs ==
  ASSUME BoardTypeOK, NEW m \in Movers, Release(m)
  PROVE  /\ rowLock' \in [Tasks -> Movers \cup {NoMover}]
         /\ columnLock' \in [Columns -> Movers \cup {NoMover}]
         /\ txn' \in [Movers -> Move]
         /\ txn'[m] = NoMove
         /\ \A n \in Movers \ {m} : txn'[n] = txn[n]
         /\ \A t \in Tasks : rowLock[t] # m => rowLock'[t] = rowLock[t]
         /\ \A c \in Columns : columnLock[c] # m => columnLock'[c] = columnLock[c]
BY NoMoveTyped DEF Release, BoardTypeOK

LEMMA PositionTyped ==
  ASSUME BoardTypeOK, NEW m \in Movers
  PROVE  Position(m) \in Nat
<1>1. txn[m].before \in Tasks \cup {NoTask} /\ txn[m].after \in Tasks \cup {NoTask}
  BY DEF BoardTypeOK, Move
<1>2. txn[m].before # NoTask => Renumbered(m, txn[m].before) \in Nat
  BY <1>1, RenumberedType
<1>3. txn[m].after # NoTask => Renumbered(m, txn[m].after) \in Nat
  BY <1>1, RenumberedType
<1>4. Appended(m) \in Nat
  <2>1. InColumn(txn[m].to) \ {txn[m].task} \in SUBSET Tasks
    BY DEF InColumn
  <2>2. Highest(InColumn(txn[m].to) \ {txn[m].task}) \in Nat
    BY <2>1, HighestIs DEF BoardTypeOK
  <2> QED
    BY <2>2, BoardStep DEF Appended
<1>5. CASE txn[m].before # NoTask /\ txn[m].after # NoTask
  <2>1. Position(m) = (Renumbered(m, txn[m].before) + Renumbered(m, txn[m].after)) \div 2
    BY <1>5 DEF Position
  <2> QED
    BY <1>2, <1>3, <1>5, <2>1
<1>6. CASE txn[m].before # NoTask /\ txn[m].after = NoTask
  BY <1>2, <1>6, BoardStep DEF Position
<1>7. CASE txn[m].before = NoTask /\ txn[m].after # NoTask
  BY <1>3, <1>7, BoardStep DEF Position
<1>8. CASE txn[m].before = NoTask /\ txn[m].after = NoTask
  BY <1>4, <1>8 DEF Position
<1> QED
  BY <1>5, <1>6, <1>7, <1>8

\* What the steps of a renumbering and the update of the row make of a move.
LEMMA RenumberIs ==
  ASSUME BoardTypeOK, NEW m \in Movers, Renumber(m)
  PROVE  /\ txn' \in [Movers -> Move]
         /\ txn'[m] = [txn[m] EXCEPT !.pc = "renumber", !.todo = InColumn(txn[m].to) \ {txn[m].task}]
         /\ \A n \in Movers \ {m} : txn'[n] = txn[n]
<1> DEFINE rest == InColumn(txn[m].to) \ {txn[m].task}
           new == [txn[m] EXCEPT !.pc = "renumber", !.todo = rest]
<1>1. rest \in SUBSET Tasks /\ "renumber" \in MoveSteps
  BY DEF InColumn, MoveSteps
<1>2. txn' = [txn EXCEPT ![m].pc = "renumber", ![m].todo = rest]
  BY DEF Renumber
<1>3. txn \in [Movers -> Move] /\ txn[m] \in Move
  BY DEF BoardTypeOK
<1> HIDE DEF rest
<1>4. txn' = [txn EXCEPT ![m] = new]
  BY <1>2, <1>3
<1>5. new \in Move
  BY <1>1, <1>3 DEF Move
<1> QED
  BY <1>3, <1>4, <1>5 DEF rest

LEMMA LockNextIs ==
  ASSUME BoardTypeOK, NEW m \in Movers, NEW t \in Tasks, NEW taken \in SUBSET {t},
         txn' = [txn EXCEPT ![m].todo = @ \ {t}, ![m].mine = @ \cup taken]
  PROVE  /\ txn' \in [Movers -> Move]
         /\ txn'[m] = [txn[m] EXCEPT !.todo = @ \ {t}, !.mine = @ \cup taken]
         /\ \A n \in Movers \ {m} : txn'[n] = txn[n]
<1> DEFINE new == [txn[m] EXCEPT !.todo = @ \ {t}, !.mine = @ \cup taken]
<1>1. txn \in [Movers -> Move] /\ txn[m] \in Move
  BY DEF BoardTypeOK
<1>2. txn' = [txn EXCEPT ![m] = new]
  BY <1>1
<1>3. new \in Move
  BY <1>1 DEF Move
<1> QED
  BY <1>1, <1>2, <1>3

LEMMA RankIs ==
  ASSUME BoardTypeOK, NEW m \in Movers, Rank(m)
  PROVE  /\ txn' \in [Movers -> Move]
         /\ txn'[m] = [txn[m] EXCEPT !.pc = "commit", !.position = Position(m)]
         /\ \A n \in Movers \ {m} : txn'[n] = txn[n]
<1> DEFINE p == Position(m)
           new == [txn[m] EXCEPT !.pc = "commit", !.position = p]
<1>1. p \in Nat /\ "commit" \in MoveSteps
  BY PositionTyped DEF MoveSteps
<1>2. txn' = [txn EXCEPT ![m].pc = "commit", ![m].position = p]
  BY DEF Rank
<1>3. txn \in [Movers -> Move] /\ txn[m] \in Move
  BY DEF BoardTypeOK
<1> HIDE DEF p
<1>4. txn' = [txn EXCEPT ![m] = new]
  BY <1>2, <1>3
<1>5. new \in Move
  BY <1>1, <1>3 DEF Move
<1> QED
  BY <1>3, <1>4, <1>5 DEF p

LEMMA BoardTypeStep ==
  ASSUME BoardTypeOK, [BoardNext]_boardVars
  PROVE  BoardTypeOK'
<1> USE DEF BoardTypeOK
<1>0. Cardinality({}) = 0
  BY FS_EmptySet
<1>1. ASSUME NEW m \in Movers, TakeRow(m) PROVE BoardTypeOK'
  <2>1. CASE Alive(txn[m].task)
    <3>1. Goto(m, "column") /\ rowLock' = [rowLock EXCEPT ![txn[m].task] = m]
          /\ UNCHANGED <<row, columnLock, moves, writes>>
      BY <1>1, <2>1 DEF TakeRow
    <3> QED
      BY <3>1, GotoIs DEF MoveSteps
  <2>2. CASE ~Alive(txn[m].task)
    BY <1>1, <2>2, ReleaseIs DEF TakeRow, Rollback, Release
  <2> QED
    BY <2>1, <2>2
<1>2. ASSUME NEW m \in Movers, TakeColumn(m) PROVE BoardTypeOK'
  BY <1>2, GotoIs DEF TakeColumn, MoveSteps
<1>3. ASSUME NEW m \in Movers, NEW pc, NEW t, NEW next \in MoveSteps, TakeNeighbour(m, pc, t, next)
      PROVE  BoardTypeOK'
  <2>1. CASE Goto(m, next) /\ UNCHANGED <<row, rowLock, columnLock, moves, writes>>
    BY <2>1, GotoIs
  <2>2. CASE /\ rowLock' = [rowLock EXCEPT ![t] = m] /\ Goto(m, next)
             /\ UNCHANGED <<row, columnLock, moves, writes>>
    BY <2>2, GotoIs
  <2>3. CASE Rollback(m)
    BY <2>3, ReleaseIs DEF Rollback, Release
  <2> QED
    BY <1>3, <2>1, <2>2, <2>3 DEF TakeNeighbour
<1>4. ASSUME NEW m \in Movers, Renumber(m) PROVE BoardTypeOK'
  BY <1>4, RenumberIs DEF Renumber
<1>5. ASSUME NEW m \in Movers, LockNext(m) PROVE BoardTypeOK'
  <2>1. PICK t \in Tasks :
          /\ txn' = [txn EXCEPT ![m].todo = @ \ {t},
                                ![m].mine = IF row[t].column = txn[m].to THEN @ \cup {t} ELSE @]
          /\ rowLock' = IF row[t].column = txn[m].to THEN [rowLock EXCEPT ![t] = m] ELSE rowLock
    BY <1>5 DEF LockNext
  <2> DEFINE taken == IF row[t].column = txn[m].to THEN {t} ELSE {}
  <2>2. txn' = [txn EXCEPT ![m].todo = @ \ {t}, ![m].mine = @ \cup taken]
    BY <2>1
  <2>3. taken \in SUBSET {t}
    OBVIOUS
  <2> HIDE DEF taken
  <2>4. txn' \in [Movers -> Move]
    BY <2>2, <2>3, LockNextIs
  <2>5. rowLock' \in [Tasks -> Movers \cup {NoMover}]
    BY <2>1
  <2> QED
    BY <1>5, <2>4, <2>5 DEF LockNext
<1>6. ASSUME NEW m \in Movers, Rank(m) PROVE BoardTypeOK'
  BY <1>6, RankIs DEF Rank
<1>7. ASSUME NEW m \in Movers, Commit(m) PROVE BoardTypeOK'
  <2>1. \A t \in Tasks : Renumbered(m, t) \in Nat
    BY RenumberedType
  <2>2. txn[m] \in Move
    OBVIOUS
  <2>3. row' \in [Tasks -> Row]
    BY <1>7, <2>1, <2>2 DEF Commit, Row, Move
  <2> QED
    BY <1>7, <2>3, ReleaseIs DEF Commit, Release
<1>8. ASSUME NEW m \in Movers, DeadlockAbort(m) PROVE BoardTypeOK'
  BY <1>8, ReleaseIs DEF DeadlockAbort, Rollback, Release
<1>9. ASSUME NEW m \in Movers, NEW t \in Tasks, NEW c \in Columns,
             NEW b \in Tasks \cup {NoTask}, NEW a \in Tasks \cup {NoTask}, AskMove(m, t, c, b, a)
      PROVE  BoardTypeOK'
  <2>1. txn' \in [Movers -> Move]
    BY <1>9, NoMoveTyped DEF AskMove, Move, MoveSteps, NoMove
  <2> QED
    BY <1>9, <2>1, BoardBounds DEF AskMove
<1>10. ASSUME NEW t \in Tasks, NEW new \in Row, Write(t, new) PROVE BoardTypeOK'
  BY <1>10, BoardBounds DEF Write
<1>11. ASSUME NEW t \in Tasks, NEW c \in Columns, Create(t, c) PROVE BoardTypeOK'
  <2> DEFINE p == Highest(InColumn(c)) + Step
  <2>1. p \in Nat
    <3>1. InColumn(c) \in SUBSET Tasks
      BY DEF InColumn
    <3> QED
      BY <3>1, HighestIs, BoardStep
  <2>2. Write(t, [column |-> c, position |-> p, placed |-> "append"])
    BY <1>11 DEF Create
  <2> HIDE DEF p
  <2>3. [column |-> c, position |-> p, placed |-> "append"] \in Row
    BY <2>1 DEF Row
  <2> QED
    BY <1>10, <2>2, <2>3
<1>12. ASSUME NEW t \in Tasks, NEW c \in Columns, SetStatus(t, c) PROVE BoardTypeOK'
  <2>1. [row[t] EXCEPT !.column = c, !.placed = "carried"] \in Row
    BY DEF Row
  <2> QED
    BY <1>10, <1>12, <2>1 DEF SetStatus
<1>13. ASSUME NEW t \in Tasks, Remove(t) PROVE BoardTypeOK'
  <2>1. [row[t] EXCEPT !.column = "gone"] \in Row
    BY DEF Row, Absent
  <2> QED
    BY <1>10, <1>13, <2>1 DEF Remove
<1>14. CASE UNCHANGED boardVars
  BY <1>14 DEF boardVars
<1>15. "after" \in MoveSteps /\ "rank" \in MoveSteps
  BY DEF MoveSteps
<1>16. ASSUME NEW m \in Movers, MoverStep(m) PROVE BoardTypeOK'
  BY <1>1, <1>2, <1>3, <1>4, <1>5, <1>6, <1>7, <1>15, <1>16 DEF MoverStep
<1> QED
  BY <1>8, <1>9, <1>11, <1>12, <1>13, <1>14, <1>16 DEF BoardNext

LEMMA BoardTypeInit == BoardInit => BoardTypeOK
BY BoardStart, BoardBounds, NoMoveTyped DEF BoardInit, BoardTypeOK

\* The state of the board is well formed, whatever is moved and written.
THEOREM BoardTypeCorrect == BoardSpec => []BoardTypeOK
<1>1. BoardInit => BoardTypeOK
  BY BoardTypeInit
<1>2. BoardTypeOK /\ [BoardNext]_boardVars => BoardTypeOK'
  BY BoardTypeStep
<1> QED
  BY <1>1, <1>2, PTL DEF BoardSpec

(***************************************************************************)
(* What one mover does leaves the others their locks                       *)
(***************************************************************************)

\* A step leaves the locks of m, the rows under them, and the rows of the
\* columns m holds, except for what the synchronisation brings into them.
Untouched(m) ==
  /\ txn'[m] = txn[m]
  /\ \A t \in Tasks : rowLock[t] = m => rowLock'[t] = m /\ row'[t] = row[t]
  /\ \A c \in Columns : columnLock[c] = m =>
       /\ columnLock'[c] = m
       /\ \A t \in Tasks : row'[t].column = c /\ row'[t].placed # "carried" => row'[t] = row[t]

LEMMA UntouchedKeeps ==
  ASSUME BoardTypeOK, NEW m \in Movers, MoveInv(m), Untouched(m)
  PROVE  MoveInv(m)'
<1> DEFINE j == txn[m]
<1>1. j \in Move /\ txn'[m] = j
  BY DEF BoardTypeOK, Untouched
<1>2. AskedFor(m)'
  BY DEF AskedFor, MoveInv, Untouched
<1>3. ASSUME j.pc # "idle" PROVE j.task \in Tasks /\ j.to \in Columns
  BY <1>3 DEF MoveInv, AskedFor
<1>4. \A t \in Tasks : rowLock[t] = m => rowLock'[t] = m /\ row'[t] = row[t]
  BY DEF Untouched
<1>5. Holds(m)'
  <2>1. j.pc \in Inside \cup {"column"} => rowLock'[j.task] = m
    BY <1>3, <1>4 DEF MoveInv, Holds, Inside
  <2>2. j.pc \in Inside => columnLock'[j.to] = m
    BY <1>3 DEF MoveInv, Holds, Inside, Untouched
  <2>3. j.pc \in Inside \ {"before"} /\ j.before # NoTask =>
          rowLock'[j.before] = m /\ row'[j.before].column = j.to
    BY <1>1, <1>4 DEF MoveInv, Holds, Move
  <2>4. j.pc \in Inside \ {"before", "after"} /\ j.after # NoTask =>
          rowLock'[j.after] = m /\ row'[j.after].column = j.to
    BY <1>1, <1>4 DEF MoveInv, Holds, Move
  <2> QED
    BY <1>1, <2>1, <2>2, <2>3, <2>4 DEF Holds
<1>6. \A t \in j.mine : t \in Tasks /\ rowLock'[t] = m /\ row'[t] = row[t]
  BY <1>1, <1>4 DEF MoveInv, Covers, Move
<1>7. ASSUME j.pc \in Inside, NEW t \in Tasks, row'[t].column = j.to, row'[t].placed # "carried"
      PROVE  row'[t] = row[t]
  BY <1>3, <1>7 DEF MoveInv, Holds, Untouched, Inside
<1>8. Covers(m)'
  <2>1. Renumbers(m) => j.pc \in Inside
    BY DEF MoveInv, Covers, Renumbers, Inside
  <2>2. Renumbers(m) => \A t \in Tasks \ {j.task} :
          row'[t].column = j.to /\ row'[t].placed # "carried" => t \in j.todo \cup j.mine
    <3> SUFFICES ASSUME Renumbers(m), NEW t \in Tasks \ {j.task},
                        row'[t].column = j.to, row'[t].placed # "carried"
                 PROVE  t \in j.todo \cup j.mine
      OBVIOUS
    <3>1. row'[t] = row[t]
      BY <1>7, <2>1
    <3> QED
      BY <3>1 DEF MoveInv, Covers
  <2>3. Renumbers(m)' <=> Renumbers(m)
    BY <1>1 DEF Renumbers
  <2>4. \A t \in j.mine : t # j.task /\ rowLock'[t] = m /\ row'[t].column = j.to
    BY <1>6 DEF MoveInv, Covers
  <2> QED
    BY <1>1, <2>2, <2>3, <2>4 DEF MoveInv, Covers
<1>9. Lands(m)'
  <2> SUFFICES ASSUME j.pc = "commit" PROVE Lands(m)'
    BY <1>1 DEF Lands
  <2>1. PICK b \in Tasks \cup {NoTask}, a \in Tasks \cup {NoTask} : b = j.before /\ a = j.after
    BY <1>1 DEF Move
  <2>2. ASSUME NEW n \in {b, a} \ {NoTask} PROVE Renumbered(m, n)' = Renumbered(m, n)
    <3>1. n \in Tasks /\ row'[n] = row[n]
      BY <1>4, <2>1 DEF MoveInv, Holds, Inside
    <3> QED
      BY <1>1, <1>6, <3>1, RenumberedStays
  <2>3. ASSUME NEW t \in Tasks, row'[t].column = j.to, row'[t].placed = "append" PROVE row'[t] = row[t]
    BY <1>7, <2>3 DEF Inside
  <2>4. /\ b # NoTask => Renumbered(m, b)' = Renumbered(m, b)
        /\ a # NoTask => Renumbered(m, a)' = Renumbered(m, a)
    BY <2>2
  <2>5. txn'[m].before = b /\ txn'[m].after = a
    BY <1>1, <2>1
  <2> HIDE DEF j
  <2>6. LET p == j.position
        IN  /\ b # NoTask /\ a = NoTask => Renumbered(m, b) < p
            /\ b = NoTask /\ a # NoTask => p < Renumbered(m, a)
            /\ b # NoTask /\ a # NoTask =>
                 \/ Renumbered(m, b) < p /\ p < Renumbered(m, a)
                 \/ Renumbered(m, a) < p /\ p < Renumbered(m, b)
            /\ b = NoTask /\ a = NoTask =>
                 \A t \in Tasks \ {j.task} :
                   row[t].column = j.to /\ row[t].placed = "append" => row[t].position < p
    BY <2>1 DEF MoveInv, Lands, j
  <2>7. LET p == j.position
        IN  /\ b # NoTask /\ a = NoTask => Renumbered(m, b)' < p
            /\ b = NoTask /\ a # NoTask => p < Renumbered(m, a)'
            /\ b # NoTask /\ a # NoTask =>
                 \/ Renumbered(m, b)' < p /\ p < Renumbered(m, a)'
                 \/ Renumbered(m, a)' < p /\ p < Renumbered(m, b)'
            /\ b = NoTask /\ a = NoTask =>
                 \A t \in Tasks \ {j.task} :
                   row'[t].column = j.to /\ row'[t].placed = "append" => row'[t].position < p
    BY <2>3, <2>4, <2>6
  <2> QED
    BY <1>1, <2>5, <2>7 DEF Lands
<1> QED
  BY <1>2, <1>5, <1>8, <1>9 DEF MoveInv

\* A step of n that writes no row takes nothing from m.
LEMMA LocksUntouched ==
  ASSUME BoardTypeOK, NEW m \in Movers, NEW n \in Movers, row' = row, txn'[m] = txn[m], m # n,
         \A t \in Tasks : rowLock[t] \notin {n, NoMover} => rowLock'[t] = rowLock[t],
         \A c \in Columns : columnLock[c] \notin {n, NoMover} => columnLock'[c] = columnLock[c]
  PROVE  Untouched(m)
BY BoardNobody DEF Untouched

\* A write to one row, under no mover's lock.
LEMMA WriteUntouched ==
  ASSUME BoardTypeOK, NEW m \in Movers, NEW t \in Tasks, NEW new, Write(t, new),
         rowLock[t] # m,
         new.column \in Columns /\ new.placed # "carried" => columnLock[new.column] # m
  PROVE  Untouched(m)
<1>1. row'[t] = new /\ \A u \in Tasks \ {t} : row'[u] = row[u]
  BY DEF Write, BoardTypeOK
<1> QED
  BY <1>1 DEF Write, Untouched

\* One that gave up, or is done.
LEMMA NoMoveKeeps ==
  ASSUME BoardTypeOK, NEW m \in Movers, txn'[m] = NoMove
  PROVE  MoveInv(m)'
<1>1. AskedFor(m)' /\ Holds(m)' /\ Lands(m)'
  BY DEF AskedFor, Holds, Lands, NoMove, Inside
<1>2. Covers(m)'
  BY DEF Covers, Renumbers, NoMove
<1> QED
  BY <1>1, <1>2 DEF MoveInv

LEMMA RollbackKeeps ==
  ASSUME BoardInv, NEW n \in Movers, Rollback(n)
  PROVE  LockedAlive' /\ \A m \in Movers : MoveInv(m)'
<1>0. BoardTypeOK /\ LockedAlive /\ \A m \in Movers : MoveInv(m)
  BY DEF BoardInv
<1>1. LockedAlive'
  BY <1>0, BoardNobody DEF Rollback, Release, LockedAlive, Alive
<1>2. MoveInv(n)'
  BY <1>0, ReleaseIs, NoMoveKeeps DEF Rollback
<1>3. ASSUME NEW m \in Movers, m # n PROVE MoveInv(m)'
  BY <1>0, <1>3, ReleaseIs, LocksUntouched, UntouchedKeeps DEF Rollback
<1> QED
  BY <1>1, <1>2, <1>3

(***************************************************************************)
(* The steps of a move                                                     *)
(***************************************************************************)

\* Before it ranks anything there is nothing to say of ranks.
LEMMA GoesOn ==
  ASSUME BoardTypeOK, NEW m \in Movers, MoveInv(m), NEW pc,
         txn[m].pc \in {"task", "column", "before", "after"},
         pc \in {"column", "before", "after", "rank"},
         txn'[m] = [txn[m] EXCEPT !.pc = pc]
  PROVE  /\ AskedFor(m)' /\ Covers(m)' /\ Lands(m)'
         /\ txn[m].task \in Tasks /\ txn[m].to \in Columns
<1>1. txn[m] \in Move
  BY DEF BoardTypeOK
<1>2. txn[m].task \in Tasks /\ txn[m].to \in Columns
  BY DEF MoveInv, AskedFor
<1>3. AskedFor(m)'
  BY <1>1 DEF MoveInv, AskedFor, Move
<1>4. Covers(m)'
  BY <1>1 DEF MoveInv, Covers, Renumbers, Move
<1>5. Lands(m)'
  BY <1>1 DEF Lands, Move
<1> QED
  BY <1>2, <1>3, <1>4, <1>5

LEMMA TakeRowKeeps ==
  ASSUME BoardInv, NEW n \in Movers, TakeRow(n)
  PROVE  LockedAlive' /\ \A m \in Movers : MoveInv(m)'
<1>0. BoardTypeOK /\ LockedAlive /\ \A m \in Movers : MoveInv(m)
  BY DEF BoardInv
<1>1. CASE ~Alive(txn[n].task)
  BY <1>1, RollbackKeeps DEF TakeRow
<1>2. CASE Alive(txn[n].task)
  <2>1. /\ rowLock' = [rowLock EXCEPT ![txn[n].task] = n]
        /\ rowLock[txn[n].task] \in {n, NoMover}
        /\ UNCHANGED <<row, columnLock>>
        /\ txn'[n] = [txn[n] EXCEPT !.pc = "column"]
        /\ \A m \in Movers \ {n} : txn'[m] = txn[m]
    BY <1>0, <1>2, GotoIs DEF TakeRow, Mine, MoveSteps
  <2>2. AskedFor(n)' /\ Covers(n)' /\ Lands(n)' /\ txn[n].task \in Tasks
    BY <1>0, <2>1, GoesOn DEF TakeRow
  <2>3. rowLock'[txn[n].task] = n /\ \A t \in Tasks \ {txn[n].task} : rowLock'[t] = rowLock[t]
    BY <1>0, <2>1, <2>2 DEF BoardTypeOK
  <2>4. Holds(n)'
    BY <1>0, <2>1, <2>3 DEF Holds, Inside, BoardTypeOK, Move
  <2>5. ASSUME NEW m \in Movers, m # n PROVE MoveInv(m)'
    BY <1>0, <2>1, <2>3, <2>5, LocksUntouched, UntouchedKeeps
  <2>6. LockedAlive'
    BY <1>0, <1>2, <2>1, <2>3 DEF LockedAlive, Alive
  <2> QED
    BY <2>2, <2>4, <2>5, <2>6 DEF MoveInv
<1> QED
  BY <1>1, <1>2

LEMMA TakeColumnKeeps ==
  ASSUME BoardInv, NEW n \in Movers, TakeColumn(n)
  PROVE  LockedAlive' /\ \A m \in Movers : MoveInv(m)'
<1>0. BoardTypeOK /\ LockedAlive /\ \A m \in Movers : MoveInv(m)
  BY DEF BoardInv
<1>1. /\ columnLock' = [columnLock EXCEPT ![txn[n].to] = n]
      /\ columnLock[txn[n].to] = NoMover
      /\ UNCHANGED <<row, rowLock>>
      /\ txn'[n] = [txn[n] EXCEPT !.pc = "before"]
      /\ \A m \in Movers \ {n} : txn'[m] = txn[m]
  BY <1>0, GotoIs DEF TakeColumn, MoveSteps
<1>2. AskedFor(n)' /\ Covers(n)' /\ Lands(n)' /\ txn[n].to \in Columns
  BY <1>0, <1>1, GoesOn DEF TakeColumn
<1>3. columnLock'[txn[n].to] = n /\ \A c \in Columns \ {txn[n].to} : columnLock'[c] = columnLock[c]
  BY <1>0, <1>1, <1>2 DEF BoardTypeOK
<1>4. Holds(n)'
  BY <1>0, <1>1, <1>3 DEF TakeColumn, MoveInv, Holds, Inside, BoardTypeOK, Move
<1>5. ASSUME NEW m \in Movers, m # n PROVE MoveInv(m)'
  BY <1>0, <1>1, <1>3, <1>5, LocksUntouched, UntouchedKeeps
<1>6. LockedAlive'
  BY <1>0, <1>1 DEF LockedAlive, Alive
<1> QED
  BY <1>2, <1>4, <1>5, <1>6 DEF MoveInv

\* The two neighbours, one after the other.
LEMMA TakeNeighbourKeeps ==
  ASSUME BoardInv, NEW n \in Movers, NEW pc, NEW t, NEW next,
         \/ pc = "before" /\ t = txn[n].before /\ next = "after"
         \/ pc = "after" /\ t = txn[n].after /\ next = "rank",
         TakeNeighbour(n, pc, t, next)
  PROVE  LockedAlive' /\ \A m \in Movers : MoveInv(m)'
<1>0. BoardTypeOK /\ LockedAlive /\ \A m \in Movers : MoveInv(m)
  BY DEF BoardInv
<1>1. CASE Rollback(n)
  BY <1>1, RollbackKeeps
<1>2. CASE /\ Goto(n, next) /\ UNCHANGED <<row, columnLock>>
           /\ \/ t = NoTask /\ rowLock' = rowLock
              \/ /\ t # NoTask /\ Mine(n, t) /\ row[t].column = txn[n].to
                 /\ rowLock' = [rowLock EXCEPT ![t] = n]
  <2>1. /\ txn'[n] = [txn[n] EXCEPT !.pc = next]
        /\ \A m \in Movers \ {n} : txn'[m] = txn[m]
    BY <1>0, <1>2, GotoIs DEF MoveSteps
  <2>2. txn[n].pc = pc
    BY DEF TakeNeighbour
  <2>3. AskedFor(n)' /\ Covers(n)' /\ Lands(n)' /\ txn[n].to \in Columns
    BY <1>0, <2>1, <2>2, GoesOn
  <2>4. t \in Tasks \cup {NoTask} /\ txn[n] \in Move
    BY <1>0 DEF BoardTypeOK, Move
  <2>5. /\ \A u \in Tasks \ {t} : rowLock'[u] = rowLock[u]
        /\ t # NoTask => rowLock[t] \in {n, NoMover} /\ rowLock'[t] = n /\ row[t].column = txn[n].to
    BY <1>0, <1>2, <2>4 DEF BoardTypeOK, Mine
  <2>6. \A u \in Tasks : rowLock[u] = n => rowLock'[u] = n
    BY <2>4, <2>5, BoardTasksAreNumbered
  <2>7. Holds(n)'
    <3>1. Holds(n) /\ txn[n].task \in Tasks /\ txn[n].to \in Columns
      BY <1>0, <2>2 DEF MoveInv, AskedFor
    <3>2. CASE pc = "before" /\ t = txn[n].before /\ next = "after"
      BY <1>2, <2>1, <2>2, <2>4, <2>5, <2>6, <3>1, <3>2 DEF Holds, Inside, Move
    <3>3. CASE pc = "after" /\ t = txn[n].after /\ next = "rank"
      BY <1>2, <2>1, <2>2, <2>4, <2>5, <2>6, <3>1, <3>3 DEF Holds, Inside, Move
    <3> QED
      BY <3>2, <3>3
  <2>8. \A u \in Tasks : rowLock[u] \notin {n, NoMover} => rowLock'[u] = rowLock[u]
    BY <2>4, <2>5, BoardTasksAreNumbered
  <2>9. ASSUME NEW m \in Movers, m # n PROVE MoveInv(m)'
    BY <1>0, <1>2, <2>1, <2>8, <2>9, LocksUntouched, UntouchedKeeps
  <2>10. LockedAlive'
    BY <1>0, <1>2, <2>3, <2>4, <2>5 DEF LockedAlive, Alive
  <2> QED
    BY <2>3, <2>7, <2>9, <2>10 DEF MoveInv
<1> QED
  BY <1>1, <1>2 DEF TakeNeighbour

LEMMA RenumberKeeps ==
  ASSUME BoardInv, NEW n \in Movers, Renumber(n)
  PROVE  LockedAlive' /\ \A m \in Movers : MoveInv(m)'
<1>0. BoardTypeOK /\ LockedAlive /\ \A m \in Movers : MoveInv(m)
  BY DEF BoardInv
<1>1. /\ txn[n] \in Move /\ txn[n].pc = "rank" /\ txn[n].after # NoTask
      /\ UNCHANGED <<row, rowLock, columnLock>>
      /\ txn'[n] = [txn[n] EXCEPT !.pc = "renumber",
                                  !.todo = InColumn(txn[n].to) \ {txn[n].task}]
      /\ \A m \in Movers \ {n} : txn'[m] = txn[m]
  BY <1>0, RenumberIs DEF Renumber, NoRoom, BoardTypeOK
<1>2. AskedFor(n) /\ Holds(n) /\ Covers(n)
  BY <1>0 DEF MoveInv
<1>3. AskedFor(n)' /\ Holds(n)' /\ Lands(n)'
  BY <1>1, <1>2 DEF AskedFor, Holds, Lands, Inside, Move
<1>4. Covers(n)'
  <2>1. {txn[n].before, txn[n].after} \ {NoTask} \subseteq InColumn(txn[n].to) \ {txn[n].task}
    BY <1>1, <1>2 DEF AskedFor, Holds, Inside, InColumn, Move
  <2>2. \A t \in Tasks \ {txn[n].task} :
          row[t].column = txn[n].to => t \in InColumn(txn[n].to) \ {txn[n].task}
    BY DEF InColumn
  <2>3. txn[n].mine = {}
    BY <1>1, <1>2 DEF Covers
  <2> DEFINE rest == InColumn(txn[n].to) \ {txn[n].task}
  <2>4. txn[n].task \notin rest
    OBVIOUS
  <2> HIDE DEF rest
  <2>5. /\ txn'[n].pc = "renumber" /\ txn'[n].todo = rest /\ txn'[n].mine = {}
        /\ txn'[n].task = txn[n].task /\ txn'[n].to = txn[n].to
        /\ txn'[n].before = txn[n].before /\ txn'[n].after = txn[n].after
    BY <1>1, <2>3 DEF Move, rest
  <2> QED
    BY <1>1, <2>1, <2>2, <2>4, <2>5 DEF Covers, rest
<1>5. ASSUME NEW m \in Movers, m # n PROVE MoveInv(m)'
  BY <1>0, <1>1, <1>5, LocksUntouched, UntouchedKeeps
<1>6. LockedAlive'
  BY <1>0, <1>1 DEF LockedAlive, Alive
<1> QED
  BY <1>3, <1>4, <1>5, <1>6 DEF MoveInv

LEMMA LockNextKeeps ==
  ASSUME BoardInv, NEW n \in Movers, LockNext(n)
  PROVE  LockedAlive' /\ \A m \in Movers : MoveInv(m)'
<1>0. BoardTypeOK /\ LockedAlive /\ \A m \in Movers : MoveInv(m)
  BY DEF BoardInv
<1>1. PICK t \in Tasks :
        /\ t \in txn[n].todo /\ rowLock[t] \in {n, NoMover}
        /\ txn' = [txn EXCEPT ![n].todo = @ \ {t},
                              ![n].mine = IF row[t].column = txn[n].to THEN @ \cup {t} ELSE @]
        /\ rowLock' = IF row[t].column = txn[n].to THEN [rowLock EXCEPT ![t] = n] ELSE rowLock
  BY DEF LockNext, NextToLock, Mine
<1> DEFINE taken == IF row[t].column = txn[n].to THEN {t} ELSE {}
<1>2. /\ txn' \in [Movers -> Move]
      /\ txn'[n] = [txn[n] EXCEPT !.todo = @ \ {t}, !.mine = @ \cup taken]
      /\ \A m \in Movers \ {n} : txn'[m] = txn[m]
  <2>1. txn' = [txn EXCEPT ![n].todo = @ \ {t}, ![n].mine = @ \cup taken]
    BY <1>1
  <2>2. taken \in SUBSET {t}
    OBVIOUS
  <2> HIDE DEF taken
  <2> QED
    BY <1>0, <2>1, <2>2, LockNextIs
<1>3. \/ taken = {} /\ row[t].column # txn[n].to
      \/ taken = {t} /\ row[t].column = txn[n].to
  <2>1. CASE row[t].column = txn[n].to
    BY <2>1
  <2>2. CASE row[t].column # txn[n].to
    BY <2>2
  <2> QED
    BY <2>1, <2>2
<1>4. \A u \in Tasks : rowLock'[u] = IF u \in taken THEN n ELSE rowLock[u]
  BY <1>0, <1>1 DEF BoardTypeOK
<1> HIDE DEF taken
<1>5. /\ txn'[n].pc = "renumber" /\ txn[n].pc = "renumber"
      /\ txn'[n].todo = txn[n].todo \ {t} /\ txn'[n].mine = txn[n].mine \cup taken
      /\ txn'[n].task = txn[n].task /\ txn'[n].to = txn[n].to
      /\ txn'[n].before = txn[n].before /\ txn'[n].after = txn[n].after
      /\ txn[n] \in Move
  <2>1. txn[n].pc = "renumber" /\ txn[n] \in Move
    BY <1>0 DEF BoardTypeOK, LockNext
  <2> QED
    BY <1>2, <2>1 DEF Move
<1>6. AskedFor(n) /\ Holds(n) /\ Covers(n) /\ UNCHANGED <<row, columnLock>>
  BY <1>0 DEF MoveInv, LockNext
<1>7. AskedFor(n)' /\ Lands(n)'
  BY <1>5, <1>6 DEF AskedFor, Lands
<1>8. Holds(n)'
  <2>1. \A u \in Tasks : rowLock[u] = n => rowLock'[u] = n
    BY <1>4
  <2> QED
    BY <1>5, <1>6, <2>1 DEF Holds, AskedFor, Inside, Move
<1>9. Covers(n)'
  <2>1. \A u \in txn[n].mine \cup taken :
          u # txn[n].task /\ rowLock'[u] = n /\ row'[u].column = txn[n].to
    BY <1>1, <1>3, <1>4, <1>5, <1>6 DEF Covers, Move
  <2>2. {txn[n].before, txn[n].after} \ {NoTask} \subseteq
          (txn[n].todo \ {t}) \cup (txn[n].mine \cup taken)
    BY <1>3, <1>5, <1>6 DEF Covers, Holds, Renumbers, Inside
  <2>3. \A u \in Tasks \ {txn[n].task} :
          row'[u].column = txn[n].to /\ row'[u].placed # "carried" =>
            u \in (txn[n].todo \ {t}) \cup (txn[n].mine \cup taken)
    BY <1>3, <1>5, <1>6 DEF Covers, Renumbers
  <2> QED
    BY <1>5, <1>6, <2>1, <2>2, <2>3 DEF Covers, Renumbers
<1>10. ASSUME NEW m \in Movers, m # n PROVE MoveInv(m)'
  <2>1. \A u \in Tasks : rowLock[u] \notin {n, NoMover} => rowLock'[u] = rowLock[u]
    BY <1>1, <1>3, <1>4
  <2> QED
    BY <1>0, <1>2, <1>6, <1>10, <2>1, LocksUntouched, UntouchedKeeps
<1>11. LockedAlive'
  BY <1>0, <1>3, <1>4, <1>5, <1>6 DEF LockedAlive, Alive, AskedFor
<1> QED
  BY <1>7, <1>8, <1>9, <1>10, <1>11 DEF MoveInv

\* Where the update of the row puts it.
LEMMA PositionLands ==
  ASSUME BoardTypeOK, NEW m \in Movers, MoveInv(m), Rank(m),
         NEW b, NEW a, b = txn[m].before, a = txn[m].after
  PROVE  /\ b # NoTask /\ a = NoTask => Renumbered(m, b) < Position(m)
         /\ b = NoTask /\ a # NoTask => Position(m) < Renumbered(m, a)
         /\ b # NoTask /\ a # NoTask =>
              \/ Renumbered(m, b) < Position(m) /\ Position(m) < Renumbered(m, a)
              \/ Renumbered(m, a) < Position(m) /\ Position(m) < Renumbered(m, b)
         /\ b = NoTask /\ a = NoTask =>
              \A t \in Tasks \ {txn[m].task} :
                row[t].column = txn[m].to /\ row[t].placed = "append" =>
                  row[t].position < Position(m)
<1>1. b \in Tasks \cup {NoTask} /\ a \in Tasks \cup {NoTask} /\ Position(m) \in Nat
      /\ Step \in Nat /\ Step >= 2 /\ txn[m].mine \in SUBSET Tasks
  BY PositionTyped, BoardStep DEF BoardTypeOK, Move
<1>2. (b # NoTask => Renumbered(m, b) \in Nat) /\ (a # NoTask => Renumbered(m, a) \in Nat)
  BY <1>1, RenumberedType
<1>3. CASE b # NoTask /\ a = NoTask
  <2>1. Position(m) = Renumbered(m, b) + Step
    BY <1>3 DEF Position
  <2> QED
    BY <1>1, <1>2, <1>3, <2>1
<1>4. CASE b = NoTask /\ a = NoTask
  <2> DEFINE S == InColumn(txn[m].to) \ {txn[m].task}
  <2>1. Position(m) = Highest(S) + Step
    BY <1>4 DEF Position, Appended
  <2>2. S \in SUBSET Tasks
    BY DEF InColumn
  <2>3. Highest(S) \in Nat /\ \A t \in S : row[t].position <= Highest(S)
    BY <2>2, HighestIs DEF BoardTypeOK
  <2>4. \A t \in S : row[t].position \in Nat
    BY <2>2 DEF BoardTypeOK, Row
  <2>5. \A t \in S : row[t].position < Position(m)
    <3> HIDE DEF S
    <3> QED
      BY <1>1, <2>1, <2>3, <2>4
  <2> QED
    BY <1>4, <2>5 DEF InColumn
<1>5. CASE a # NoTask /\ txn[m].pc = "rank"
  <2>1. txn[m].mine = {}
    BY <1>5 DEF MoveInv, Covers
  <2>2. Renumbered(m, a) = row[a].position /\ Renumbered(m, b) = row[b].position
    BY <2>1 DEF Renumbered
  <2>3. ~NoRoom(m)
    BY <1>5 DEF Rank
  <2>4. /\ ~(Position(m) >= row[a].position)
        /\ b # NoTask => ~(Position(m) <= row[b].position)
    BY <1>5, <2>3 DEF NoRoom
  <2> QED
    BY <1>1, <1>2, <1>5, <2>2, <2>4
<1>6. CASE a # NoTask /\ txn[m].pc # "rank"
  <2>1. txn[m].pc = "renumber" /\ txn[m].todo = {}
    BY <1>6 DEF Rank
  <2>2. a \in txn[m].mine /\ (b # NoTask => b \in txn[m].mine)
    BY <1>6, <2>1 DEF MoveInv, Covers, Renumbers
  <2>3. CASE b = NoTask
    <3>1. PICK k \in Nat \ {0} : Renumbered(m, a) = Step * k
      BY <2>2, Ranks
    <3>2. Step * k >= Step
      <4>1. k - 1 \in Nat
        BY <3>1
      <4>2. Step * k = Step * (k - 1) + Step /\ Step * (k - 1) \in Nat
        BY <1>1, <4>1
      <4> QED
        BY <1>1, <4>2
    <3>3. Position(m) = IF Renumbered(m, a) < Step THEN 0 ELSE Renumbered(m, a) - Step
      BY <1>6, <2>3 DEF Position
    <3> HIDE DEF Position
    <3> QED
      BY <1>1, <1>2, <1>6, <2>3, <3>1, <3>2, <3>3
  <2>4. CASE b # NoTask
    <3>1. Position(m) = (Renumbered(m, b) + Renumbered(m, a)) \div 2
      BY <1>6, <2>4 DEF Position
    <3>2. a # b
      BY <1>6, <2>1, <2>4 DEF MoveInv, AskedFor
    <3>3. Precedes(a, b) \/ Precedes(b, a)
      <4>1. /\ a \in Nat /\ b \in Nat
            /\ row[a].position \in Nat /\ row[b].position \in Nat
        BY <1>1, <1>6, <2>4, BoardTasksAreNumbered DEF BoardTypeOK, Row
      <4> QED
        BY <3>2, <4>1 DEF Precedes
    <3>4. \/ Renumbered(m, a) + Step <= Renumbered(m, b)
          \/ Renumbered(m, b) + Step <= Renumbered(m, a)
      BY <2>2, <2>4, <3>3, RanksKeepOrder
    <3>5. \A x, y \in Nat : x + Step <= y => x < (x + y) \div 2 /\ (x + y) \div 2 < y
                                             /\ x < (y + x) \div 2 /\ (y + x) \div 2 < y
      BY <1>1
    <3> QED
      BY <1>2, <1>6, <2>4, <3>1, <3>4, <3>5
  <2> QED
    BY <2>3, <2>4
<1> QED
  BY <1>1, <1>3, <1>4, <1>5, <1>6

LEMMA RankKeeps ==
  ASSUME BoardInv, NEW n \in Movers, Rank(n)
  PROVE  LockedAlive' /\ \A m \in Movers : MoveInv(m)'
<1>0. BoardTypeOK /\ LockedAlive /\ \A m \in Movers : MoveInv(m)
  BY DEF BoardInv
<1> DEFINE p == Position(n)
<1>1. /\ txn[n] \in Move /\ txn[n].pc \in {"rank", "renumber"}
      /\ txn[n].pc = "renumber" => txn[n].todo = {}
      /\ UNCHANGED <<row, rowLock, columnLock>>
      /\ txn'[n] = [txn[n] EXCEPT !.pc = "commit", !.position = p]
      /\ \A m \in Movers \ {n} : txn'[m] = txn[m]
  BY <1>0, RankIs DEF Rank, BoardTypeOK
<1>2. AskedFor(n) /\ Holds(n) /\ Covers(n)
  BY <1>0 DEF MoveInv
<1>3. PICK b \in Tasks \cup {NoTask}, a \in Tasks \cup {NoTask} : b = txn[n].before /\ a = txn[n].after
  BY <1>1 DEF Move
<1>4. /\ b # NoTask /\ a = NoTask => Renumbered(n, b) < p
      /\ b = NoTask /\ a # NoTask => p < Renumbered(n, a)
      /\ b # NoTask /\ a # NoTask =>
           \/ Renumbered(n, b) < p /\ p < Renumbered(n, a)
           \/ Renumbered(n, a) < p /\ p < Renumbered(n, b)
      /\ b = NoTask /\ a = NoTask =>
           \A t \in Tasks \ {txn[n].task} :
             row[t].column = txn[n].to /\ row[t].placed = "append" => row[t].position < p
  BY <1>0, <1>3, PositionLands
<1> HIDE DEF p
<1>5. /\ txn'[n].pc = "commit" /\ txn'[n].position = p
      /\ txn'[n].todo = txn[n].todo /\ txn'[n].mine = txn[n].mine
      /\ txn'[n].task = txn[n].task /\ txn'[n].to = txn[n].to
      /\ txn'[n].before = b /\ txn'[n].after = a
  BY <1>1, <1>3 DEF Move
<1>6. AskedFor(n)' /\ Holds(n)'
  BY <1>1, <1>2, <1>3, <1>5 DEF AskedFor, Holds, Inside
<1>7. Covers(n)'
  <2>1. Renumbers(n)' => Renumbers(n)
    BY <1>5 DEF Renumbers
  <2>2. txn[n].todo = {}
    BY <1>1, <1>2 DEF Covers
  <2> QED
    BY <1>1, <1>2, <1>3, <1>5, <2>1, <2>2 DEF Covers
<1>8. Lands(n)'
  <2>1. (b # NoTask => Renumbered(n, b)' = Renumbered(n, b)) /\ (a # NoTask => Renumbered(n, a)' = Renumbered(n, a))
    BY <1>0, <1>1, <1>5, RenumberedStays
  <2>2. LET q == txn'[n].position
        IN  /\ b # NoTask /\ a = NoTask => Renumbered(n, b)' < q
            /\ b = NoTask /\ a # NoTask => q < Renumbered(n, a)'
            /\ b # NoTask /\ a # NoTask =>
                 \/ Renumbered(n, b)' < q /\ q < Renumbered(n, a)'
                 \/ Renumbered(n, a)' < q /\ q < Renumbered(n, b)'
            /\ b = NoTask /\ a = NoTask =>
                 \A t \in Tasks \ {txn'[n].task} :
                   row'[t].column = txn'[n].to /\ row'[t].placed = "append" => row'[t].position < q
    BY <1>1, <1>4, <1>5, <2>1
  <2> QED
    BY <1>5, <2>2 DEF Lands
<1>9. ASSUME NEW m \in Movers, m # n PROVE MoveInv(m)'
  BY <1>0, <1>1, <1>9, LocksUntouched, UntouchedKeeps
<1>10. LockedAlive'
  BY <1>0, <1>1 DEF LockedAlive, Alive
<1> QED
  BY <1>6, <1>7, <1>8, <1>9, <1>10 DEF MoveInv

(***************************************************************************)
(* The commit                                                              *)
(***************************************************************************)

LEMMA CommitIs ==
  ASSUME BoardInv, NEW n \in Movers, Commit(n)
  PROVE  /\ txn[n] \in Move /\ txn[n].task \in Tasks /\ txn[n].to \in Columns
         /\ row'[txn[n].task].column = txn[n].to
         /\ row'[txn[n].task].position = txn[n].position
         /\ row'[txn[n].task].placed = "append" => txn[n].before = NoTask /\ txn[n].after = NoTask
         /\ \A t \in Tasks \ {txn[n].task} :
              /\ row'[t] = [row[t] EXCEPT !.position = Renumbered(n, t)]
              /\ row'[t].column = row[t].column /\ row'[t].placed = row[t].placed
              /\ row'[t].position = Renumbered(n, t)
              /\ t \notin txn[n].mine => row'[t] = row[t]
<1>1. txn[n] \in Move /\ txn[n].task \in Tasks /\ txn[n].to \in Columns
  BY DEF BoardInv, BoardTypeOK, MoveInv, AskedFor, Commit
<1>2. \A t \in Tasks : row[t] \in Row
  BY DEF BoardInv, BoardTypeOK
<1>3. \A t \in Tasks \ {txn[n].task} : row'[t] = [row[t] EXCEPT !.position = Renumbered(n, t)]
  BY DEF Commit
<1>4. \A t \in Tasks : t \notin txn[n].mine => Renumbered(n, t) = row[t].position
  BY DEF Renumbered
<1>5. /\ row'[txn[n].task].column = txn[n].to
      /\ row'[txn[n].task].position = txn[n].position
      /\ row'[txn[n].task].placed = "append" => txn[n].before = NoTask /\ txn[n].after = NoTask
  <2> DEFINE placed == IF txn[n].before = NoTask /\ txn[n].after = NoTask THEN "append" ELSE "between"
  <2>1. placed = "append" => txn[n].before = NoTask /\ txn[n].after = NoTask
    OBVIOUS
  <2>2. row'[txn[n].task] = [column |-> txn[n].to, position |-> txn[n].position, placed |-> placed]
    BY <1>1 DEF Commit
  <2> HIDE DEF placed
  <2> QED
    BY <2>1, <2>2
<1>6. \A t \in Tasks \ {txn[n].task} :
        /\ row'[t].column = row[t].column /\ row'[t].placed = row[t].placed
        /\ row'[t].position = Renumbered(n, t)
        /\ t \notin txn[n].mine => row'[t] = row[t]
  <2> SUFFICES ASSUME NEW t \in Tasks \ {txn[n].task}
               PROVE  /\ row'[t].column = row[t].column /\ row'[t].placed = row[t].placed
                      /\ row'[t].position = Renumbered(n, t)
                      /\ t \notin txn[n].mine => row'[t] = row[t]
    OBVIOUS
  <2> DEFINE q == Renumbered(n, t)
  <2>1. row'[t] = [row[t] EXCEPT !.position = q] /\ row[t] \in Row
    BY <1>2, <1>3
  <2>2. t \notin txn[n].mine => q = row[t].position
    BY <1>4
  <2> HIDE DEF q
  <2>3. /\ row'[t].column = row[t].column /\ row'[t].placed = row[t].placed
        /\ row'[t].position = q
    BY <2>1 DEF Row
  <2>4. t \notin txn[n].mine => row'[t] = row[t]
    BY <2>1, <2>2 DEF Row
  <2> QED
    BY <2>3, <2>4 DEF q
<1> QED
  BY <1>1, <1>3, <1>5, <1>6

LEMMA CommitKeeps ==
  ASSUME BoardInv, NEW n \in Movers, Commit(n)
  PROVE  LockedAlive' /\ \A m \in Movers : MoveInv(m)'
<1>0. BoardTypeOK /\ LockedAlive /\ \A m \in Movers : MoveInv(m)
  BY DEF BoardInv
<1>1. /\ AskedFor(n) /\ Holds(n) /\ Covers(n) /\ txn[n].pc = "commit" /\ Release(n)
  BY <1>0 DEF MoveInv, Commit
<1>2. /\ txn[n].task \in Tasks /\ txn[n].to \in Columns
      /\ row'[txn[n].task].column = txn[n].to
      /\ \A t \in Tasks \ {txn[n].task} :
           /\ row'[t].column = row[t].column
           /\ t \notin txn[n].mine => row'[t] = row[t]
  BY CommitIs
<1>3. MoveInv(n)'
  BY <1>0, <1>1, ReleaseIs, NoMoveKeeps
<1>4. ASSUME NEW m \in Movers, m # n PROVE MoveInv(m)'
  <2>1. ASSUME NEW t \in Tasks, rowLock[t] = m PROVE rowLock'[t] = m /\ row'[t] = row[t]
    <3>1. t # txn[n].task /\ t \notin txn[n].mine
      BY <1>1, <1>4, <2>1 DEF Holds, Covers, Inside
    <3> QED
      BY <1>0, <1>1, <1>4, <1>2, <2>1, <3>1, ReleaseIs
  <2>2. ASSUME NEW c \in Columns, columnLock[c] = m PROVE columnLock'[c] = m
    BY <1>0, <1>1, <1>4, <2>2, ReleaseIs
  <2>3. ASSUME NEW c \in Columns, columnLock[c] = m, NEW t \in Tasks, row'[t].column = c
        PROVE  row'[t] = row[t]
    <3>1. c # txn[n].to
      BY <1>1, <1>4, <2>3 DEF Holds, Inside
    <3>2. t # txn[n].task
      BY <1>2, <2>3, <3>1
    <3>3. t \notin txn[n].mine
      BY <1>1, <1>2, <2>3, <3>1, <3>2 DEF Covers
    <3> QED
      BY <1>2, <3>2, <3>3
  <2>4. txn'[m] = txn[m]
    BY <1>0, <1>1, <1>4, ReleaseIs
  <2>5. Untouched(m)
    BY <2>1, <2>2, <2>3, <2>4 DEF Untouched
  <2> QED
    BY <1>0, <2>5, UntouchedKeeps
<1>5. LockedAlive'
  <2>1. ASSUME NEW t \in Tasks, rowLock'[t] # NoMover PROVE row'[t].column \in Columns
    <3>1. rowLock[t] # NoMover
      BY <1>1, <2>1 DEF Release
    <3>2. row[t].column \in Columns
      BY <1>0, <3>1 DEF LockedAlive, Alive
    <3>3. CASE t = txn[n].task
      BY <1>2, <3>3
    <3>4. CASE t # txn[n].task
      BY <1>2, <3>2, <3>4
    <3> QED
      BY <3>3, <3>4
  <2> QED
    BY <2>1 DEF LockedAlive, Alive
<1> QED
  BY <1>3, <1>4, <1>5

\* Two rows that m renumbers keep their order.
LEMMA MineKeepOrder ==
  ASSUME BoardTypeOK, NEW m \in Movers, NEW t \in txn[m].mine, NEW u \in txn[m].mine,
         row[t].position < row[u].position
  PROVE  Renumbered(m, t) < Renumbered(m, u)
<1>1. t \in Tasks /\ u \in Tasks
  BY DEF BoardTypeOK, Move
<1>2. Renumbered(m, t) \in Nat /\ Renumbered(m, u) \in Nat
  BY <1>1, RenumberedType
<1>3. Renumbered(m, t) + Step <= Renumbered(m, u)
  <2>1. Precedes(t, u)
    BY DEF Precedes
  <2> QED
    BY <2>1, RanksKeepOrder
<1> QED
  BY <1>2, <1>3, BoardStep

\* A commit changes the position of another row only with those of all the rows
\* of its column that were not brought in by the synchronisation.
LEMMA OthersInOrder ==
  ASSUME BoardInv, NEW n \in Movers, Commit(n),
         NEW t \in Tasks \ {txn[n].task}, NEW u \in Tasks \ {txn[n].task},
         row[t].column = row[u].column,
         row[t].placed # "carried", row[u].placed # "carried",
         row[t].position < row[u].position
  PROVE  row'[t].position < row'[u].position
<1>1. BoardTypeOK /\ Covers(n) /\ txn[n].pc = "commit"
  BY DEF BoardInv, MoveInv, Commit
<1>2. row'[t].position = Renumbered(n, t) /\ row'[u].position = Renumbered(n, u)
  BY CommitIs
<1>3. CASE t \notin txn[n].mine /\ u \notin txn[n].mine
  BY <1>2, <1>3 DEF Renumbered
<1>4. CASE t \in txn[n].mine \/ u \in txn[n].mine
  <2>1. row[t].column = txn[n].to
    BY <1>1, <1>4 DEF Covers
  <2>2. t \in txn[n].mine /\ u \in txn[n].mine
    BY <1>1, <1>4, <2>1 DEF Covers, Renumbers
  <2> QED
    BY <1>1, <1>2, <2>2, MineKeepOrder
<1> QED
  BY <1>3, <1>4

LEMMA CommitDiffers ==
  ASSUME BoardInv, NEW n \in Movers, Commit(n)
  PROVE  AppendedDiffer'
<1>1. BoardTypeOK /\ AppendedDiffer /\ Covers(n) /\ Lands(n) /\ txn[n].pc = "commit"
  BY DEF BoardInv, MoveInv, Commit
<1> DEFINE moved == txn[n].task
<1>2. moved \in Tasks /\ txn[n].to \in Columns /\ txn[n].position \in Nat
  BY CommitIs DEF Move
\* Of two that stay.
<1>3. ASSUME NEW t \in Tasks \ {moved}, NEW u \in Tasks \ {moved}, t # u,
             row'[t].column \in Columns, row'[t].column = row'[u].column,
             row'[t].placed = "append", row'[u].placed = "append"
      PROVE  row'[t].position # row'[u].position
  <2>1. /\ row[t].column \in Columns /\ row[t].column = row[u].column
        /\ row[t].placed = "append" /\ row[u].placed = "append"
    BY <1>3, CommitIs
  <2>2. row[t].position # row[u].position
    BY <1>1, <1>3, <2>1 DEF AppendedDiffer, Alive
  <2>3. row[t].position \in Nat /\ row[u].position \in Nat
    BY <1>1 DEF BoardTypeOK, Row
  <2>4. row'[t].position \in Nat /\ row'[u].position \in Nat
    BY <1>1, CommitIs, RenumberedType
  <2>5. row'[t].position < row'[u].position \/ row'[u].position < row'[t].position
    BY <2>1, <2>2, <2>3, OthersInOrder
  <2> QED
    BY <2>4, <2>5
\* Of the one that moved and one that stays: it was appended without neighbours.
<1>4. ASSUME NEW u \in Tasks \ {moved}, row'[u].column = row'[moved].column,
             row'[moved].placed = "append", row'[u].placed = "append"
      PROVE  row'[u].position # row'[moved].position
  <2>1. txn[n].before = NoTask /\ txn[n].after = NoTask
    <3>1. row'[moved].placed = "append" => txn[n].before = NoTask /\ txn[n].after = NoTask
      BY CommitIs
    <3> QED
      BY <1>4, <3>1
  <2>2. txn[n].mine = {}
    BY <1>1, <2>1 DEF Covers, Renumbers
  <2>3. row'[u] = row[u] /\ row'[moved].column = txn[n].to /\ row'[moved].position = txn[n].position
    <3>1. \A t \in Tasks \ {moved} : t \notin txn[n].mine => row'[t] = row[t]
      BY CommitIs
    <3>2. row'[moved].column = txn[n].to /\ row'[moved].position = txn[n].position
      BY CommitIs
    <3> QED
      BY <2>2, <3>1, <3>2
  <2>4. row[u].position < txn[n].position
    BY <1>1, <1>4, <2>1, <2>3 DEF Lands
  <2>5. row[u].position \in Nat
    BY <1>1 DEF BoardTypeOK, Row
  <2> QED
    BY <1>2, <2>3, <2>4, <2>5
<1> HIDE DEF moved
<1>5. ASSUME NEW t \in Tasks, NEW u \in Tasks, t # u,
             row'[t].column \in Columns, row'[t].column = row'[u].column,
             row'[t].placed = "append", row'[u].placed = "append"
      PROVE  row'[t].position # row'[u].position
  <2>1. CASE t = moved
    BY <1>4, <1>5, <2>1
  <2>2. CASE u = moved
    BY <1>4, <1>5, <2>2
  <2>3. CASE t # moved /\ u # moved
    BY <1>3, <1>5, <2>3
  <2> QED
    BY <2>1, <2>2, <2>3
<1> QED
  BY <1>5 DEF AppendedDiffer, Alive

(***************************************************************************)
(* The invariant                                                           *)
(***************************************************************************)

LEMMA AskMoveKeeps ==
  ASSUME BoardInv, NEW n \in Movers, NEW t \in Tasks, NEW c \in Columns,
         NEW b \in Tasks \cup {NoTask}, NEW a \in Tasks \cup {NoTask}, AskMove(n, t, c, b, a)
  PROVE  LockedAlive' /\ \A m \in Movers : MoveInv(m)'
<1>0. BoardTypeOK /\ LockedAlive /\ \A m \in Movers : MoveInv(m)
  BY DEF BoardInv
<1>1. /\ txn'[n] = [NoMove EXCEPT !.pc = "task", !.task = t, !.to = c, !.before = b, !.after = a]
      /\ \A m \in Movers \ {n} : txn'[m] = txn[m]
      /\ UNCHANGED <<row, rowLock, columnLock>>
  BY <1>0 DEF AskMove, BoardTypeOK
<1>2. /\ txn'[n].pc = "task" /\ txn'[n].task = t /\ txn'[n].to = c
      /\ txn'[n].before = b /\ txn'[n].after = a
      /\ txn'[n].todo = {} /\ txn'[n].mine = {}
  BY <1>1 DEF NoMove
<1>3. AskedFor(n)'
  <2>1. t \notin {b, a}
    BY BoardTasksAreNumbered DEF AskMove
  <2>2. b # NoTask => b # a
    <3>1. b # NoTask => row[b].position \in Nat
      BY <1>0 DEF BoardTypeOK, Row
    <3> QED
      BY <3>1 DEF AskMove
  <2> QED
    BY <1>2, <2>1, <2>2 DEF AskedFor
<1>4. Holds(n)' /\ Lands(n)'
  BY <1>2 DEF Holds, Lands, Inside
<1>5. Covers(n)'
  BY <1>2 DEF Covers, Renumbers
<1>6. ASSUME NEW m \in Movers, m # n PROVE MoveInv(m)'
  BY <1>0, <1>1, <1>6, LocksUntouched, UntouchedKeeps
<1>7. LockedAlive'
  BY <1>0, <1>1 DEF LockedAlive, Alive
<1> QED
  BY <1>3, <1>4, <1>5, <1>6, <1>7 DEF MoveInv

\* What a write to t by another request keeps.
LEMMA WriteKeeps ==
  ASSUME BoardInv, NEW t \in Tasks, NEW new \in Row, Write(t, new), rowLock[t] = NoMover,
         new.column \in Columns /\ new.placed # "carried" => columnLock[new.column] = NoMover
  PROVE  LockedAlive' /\ \A m \in Movers : MoveInv(m)'
<1>0. BoardTypeOK /\ LockedAlive /\ \A m \in Movers : MoveInv(m)
  BY DEF BoardInv
<1>1. ASSUME NEW m \in Movers PROVE MoveInv(m)'
  <2>1. m # NoMover
    BY BoardNobody
  <2>2. Untouched(m)
    BY <1>0, <2>1, WriteUntouched
  <2> QED
    BY <1>0, <2>2, UntouchedKeeps
<1>2. LockedAlive'
  <2>1. \A u \in Tasks \ {t} : row'[u] = row[u]
    BY <1>0 DEF Write, BoardTypeOK
  <2> QED
    BY <1>0, <2>1 DEF Write, LockedAlive, Alive
<1> QED
  BY <1>1, <1>2

\* A row that is no newly appended one leaves the appended ones apart.
LEMMA WriteDiffers ==
  ASSUME BoardInv, NEW t \in Tasks, NEW new \in Row, Write(t, new),
         new.column \in Columns /\ new.placed = "append" =>
           \A u \in Tasks \ {t} : row[u].column = new.column => row[u].position < new.position
  PROVE  AppendedDiffer'
<1>1. row'[t] = new /\ \A u \in Tasks \ {t} : row'[u] = row[u]
  BY DEF Write, BoardInv, BoardTypeOK
<1>2. \A u \in Tasks : row[u].position \in Nat
  BY DEF BoardInv, BoardTypeOK, Row
<1>3. new.position \in Nat
  BY DEF Row
<1>4. ASSUME NEW u \in Tasks, NEW v \in Tasks, u # v,
             row'[u].column \in Columns, row'[u].column = row'[v].column,
             row'[u].placed = "append", row'[v].placed = "append"
      PROVE  row'[u].position # row'[v].position
  <2>1. CASE u # t /\ v # t
    BY <1>1, <1>4, <2>1 DEF BoardInv, AppendedDiffer, Alive
  <2>2. CASE u = t
    <3>1. row[v].position < new.position
      BY <1>1, <1>4, <2>2
    <3> QED
      BY <1>1, <1>2, <1>3, <1>4, <2>2, <3>1
  <2>3. CASE v = t
    <3>1. row[u].position < new.position
      BY <1>1, <1>4, <2>3
    <3> QED
      BY <1>1, <1>2, <1>3, <1>4, <2>3, <3>1
  <2> QED
    BY <2>1, <2>2, <2>3
<1> QED
  BY <1>4 DEF AppendedDiffer, Alive

\* The writes of the other requests: what each writes, and to what row.
LEMMA CreateKeeps ==
  ASSUME BoardInv, NEW t \in Tasks, NEW c \in Columns, Create(t, c)
  PROVE  LockedAlive' /\ (\A m \in Movers : MoveInv(m)') /\ AppendedDiffer'
<1>0. BoardTypeOK /\ LockedAlive
  BY DEF BoardInv
<1> DEFINE p == Highest(InColumn(c)) + Step
           new == [column |-> c, position |-> p, placed |-> "append"]
<1>1. Highest(InColumn(c)) \in Nat /\ \A u \in InColumn(c) : row[u].position <= Highest(InColumn(c))
  <2>1. InColumn(c) \in SUBSET Tasks
    BY DEF InColumn
  <2> QED
    BY <1>0, <2>1, HighestIs DEF BoardTypeOK
<1>2. p \in Nat
  BY <1>1, BoardStep
<1>3. \A u \in Tasks \ {t} : row[u].column = c => row[u].position < p
  <2>1. \A u \in Tasks : row[u].position \in Nat
    BY <1>0 DEF BoardTypeOK, Row
  <2>2. \A u \in InColumn(c) : row[u].position < p
    <3> SUFFICES ASSUME NEW u \in InColumn(c) PROVE row[u].position < p
      OBVIOUS
    <3>1. row[u].position \in Nat
      BY <2>1 DEF InColumn
    <3> QED
      BY <1>1, <3>1, BoardStep
  <2> QED
    BY <2>2 DEF InColumn
<1>4. Write(t, new) /\ columnLock[c] = NoMover
  BY DEF Create
<1>5. rowLock[t] = NoMover
  BY <1>0, BoardColumns DEF Create, Newborn, LockedAlive, Alive, Absent
<1> HIDE DEF p
<1>6. new \in Row
  BY <1>2 DEF Row
<1>7. new.column = c /\ new.position = p
  OBVIOUS
<1> HIDE DEF new
<1> QED
  BY <1>3, <1>4, <1>5, <1>6, <1>7, WriteKeeps, WriteDiffers

LEMMA SetStatusKeeps ==
  ASSUME BoardInv, NEW t \in Tasks, NEW c \in Columns, SetStatus(t, c)
  PROVE  LockedAlive' /\ (\A m \in Movers : MoveInv(m)') /\ AppendedDiffer'
<1> DEFINE new == [row[t] EXCEPT !.column = c, !.placed = "carried"]
<1>1. row[t] \in Row
  BY DEF BoardInv, BoardTypeOK
<1>2. new \in Row /\ new.placed = "carried"
  BY <1>1 DEF Row
<1>3. Write(t, new) /\ rowLock[t] = NoMover
  BY DEF SetStatus
<1> HIDE DEF new
<1> QED
  BY <1>2, <1>3, WriteKeeps, WriteDiffers

LEMMA RemoveKeeps ==
  ASSUME BoardInv, NEW t \in Tasks, Remove(t)
  PROVE  LockedAlive' /\ (\A m \in Movers : MoveInv(m)') /\ AppendedDiffer'
<1> DEFINE new == [row[t] EXCEPT !.column = "gone"]
<1>1. row[t] \in Row
  BY DEF BoardInv, BoardTypeOK
<1>2. new \in Row /\ new.column \notin Columns
  BY <1>1, BoardColumns DEF Row, Absent
<1>3. Write(t, new) /\ rowLock[t] = NoMover
  BY DEF Remove
<1> HIDE DEF new
<1> QED
  BY <1>2, <1>3, WriteKeeps, WriteDiffers

\* Steps that write no row keep the appended ones apart.
LEMMA SameRowsDiffer ==
  ASSUME BoardInv, row' = row
  PROVE  AppendedDiffer'
BY DEF BoardInv, AppendedDiffer, Alive

\* A move that is not committing writes no row.
LEMMA OnlyCommitsWrite ==
  ASSUME NEW m \in Movers, MoverStep(m) \/ DeadlockAbort(m), ~Commit(m)
  PROVE  row' = row
BY DEF MoverStep, TakeRow, TakeColumn, TakeNeighbour, Renumber, LockNext, Rank, DeadlockAbort, Rollback

LEMMA MoverKeeps ==
  ASSUME BoardInv, NEW m \in Movers, MoverStep(m) \/ DeadlockAbort(m)
  PROVE  LockedAlive' /\ (\A n \in Movers : MoveInv(n)') /\ AppendedDiffer'
<1>1. LockedAlive' /\ (\A n \in Movers : MoveInv(n)')
  <2>1. CASE TakeNeighbour(m, "before", txn[m].before, "after")
    BY <2>1, TakeNeighbourKeeps
  <2>2. CASE TakeNeighbour(m, "after", txn[m].after, "rank")
    BY <2>2, TakeNeighbourKeeps
  <2>3. CASE DeadlockAbort(m)
    BY <2>3, RollbackKeeps DEF DeadlockAbort
  <2> QED
    BY <2>1, <2>2, <2>3, TakeRowKeeps, TakeColumnKeeps, RenumberKeeps, LockNextKeeps, RankKeeps,
       CommitKeeps DEF MoverStep
<1>2. AppendedDiffer'
  BY OnlyCommitsWrite, SameRowsDiffer, CommitDiffers
<1> QED
  BY <1>1, <1>2

LEMMA BoardInvInit == BoardInit => BoardInv
<1> SUFFICES ASSUME BoardInit PROVE BoardInv
  OBVIOUS
<1>1. BoardTypeOK
  BY BoardTypeInit
<1>2. AppendedDiffer
  BY BoardStartDiffers DEF BoardInit, AppendedDiffer, Alive
<1>3. LockedAlive
  BY DEF BoardInit, LockedAlive
<1>4. ASSUME NEW m \in Movers PROVE MoveInv(m)
  <2>1. txn[m] = NoMove
    BY DEF BoardInit
  <2>2. AskedFor(m) /\ Holds(m) /\ Lands(m)
    BY <2>1 DEF AskedFor, Holds, Lands, NoMove, Inside
  <2>3. Covers(m)
    BY <2>1 DEF Covers, Renumbers, NoMove
  <2> QED
    BY <2>2, <2>3 DEF MoveInv
<1> QED
  BY <1>1, <1>2, <1>3, <1>4 DEF BoardInv

LEMMA BoardInvStep == BoardInv /\ [BoardNext]_boardVars => BoardInv'
<1> SUFFICES ASSUME BoardInv, [BoardNext]_boardVars PROVE BoardInv'
  OBVIOUS
<1>1. BoardTypeOK'
  BY BoardTypeStep DEF BoardInv
<1>2. LockedAlive' /\ (\A m \in Movers : MoveInv(m)') /\ AppendedDiffer'
  <2>1. CASE \E m \in Movers : MoverStep(m) \/ DeadlockAbort(m)
    BY <2>1, MoverKeeps
  <2>2. CASE \E m \in Movers, t \in Tasks, c \in Columns, b, a \in Tasks \cup {NoTask} :
               AskMove(m, t, c, b, a)
    <3>1. row' = row
      BY <2>2 DEF AskMove
    <3> QED
      BY <2>2, <3>1, AskMoveKeeps, SameRowsDiffer
  <2>3. CASE \E t \in Tasks, c \in Columns : Create(t, c) \/ SetStatus(t, c)
    BY <2>3, CreateKeeps, SetStatusKeeps
  <2>4. CASE \E t \in Tasks : Remove(t)
    BY <2>4, RemoveKeeps
  <2>5. CASE UNCHANGED boardVars
    <3>1. UNCHANGED <<row, rowLock, columnLock, txn>>
      BY <2>5 DEF boardVars
    <3>2. \A m \in Movers : Untouched(m)
      BY <3>1 DEF Untouched
    <3> QED
      BY <3>1, <3>2, UntouchedKeeps, SameRowsDiffer DEF BoardInv, LockedAlive, Alive
  <2> QED
    BY <2>1, <2>2, <2>3, <2>4, <2>5 DEF BoardNext
<1> QED
  BY <1>1, <1>2 DEF BoardInv

\* However many requests move cards, create them, and are refused or aborted,
\* with the synchronisation and removals between: two cards that were appended
\* to a column never have one position.
THEOREM AppendedStayApart == BoardSpec => []AppendedDiffer
<1>1. BoardInv => AppendedDiffer
  BY DEF BoardInv
<1> QED
  BY <1>1, BoardInvInit, BoardInvStep, PTL DEF BoardSpec

(***************************************************************************)
(* What a step does to the order of a column                               *)
(***************************************************************************)

\* A move that is about to commit waits for nobody: no deadlock has it.
LEMMA CommitWaitsForNobody ==
  ASSUME NEW m \in Movers, txn[m].pc = "commit"
  PROVE  ~DeadlockAbort(m)
<1>1. Blocker(m) = NoMover
  BY DEF Blocker
<1> QED
  BY <1>1, BoardNobody DEF DeadlockAbort, Ring

\* A move lands by its own commit.
LEMMA LandingIsCommit ==
  ASSUME BoardInv, [BoardNext]_boardVars, NEW m \in Movers, Landing(m)
  PROVE  Commit(m)
<1>0. BoardTypeOK /\ txn[m].pc = "commit" /\ txn'[m] # txn[m]
  BY DEF BoardInv, Landing
<1>1. CASE \E n \in Movers : MoverStep(n) \/ DeadlockAbort(n)
  <2>1. PICK n \in Movers : MoverStep(n) \/ DeadlockAbort(n)
    BY <1>1
  <2>2. n = m
    <3>1. CASE TakeRow(n) \/ TakeColumn(n)
      BY <1>0, <3>1 DEF TakeRow, TakeColumn, Goto, Rollback, Release, BoardTypeOK
    <3>2. ASSUME NEW pc, NEW t, NEW next, TakeNeighbour(n, pc, t, next) PROVE n = m
      BY <1>0, <3>2 DEF TakeNeighbour, Goto, Rollback, Release, BoardTypeOK
    <3>3. CASE Renumber(n) \/ Rank(n)
      BY <1>0, <3>3, RenumberIs, RankIs
    <3>4. CASE LockNext(n)
      BY <1>0, <3>4 DEF LockNext, BoardTypeOK
    <3>5. CASE Commit(n) \/ DeadlockAbort(n)
      BY <1>0, <3>5, ReleaseIs DEF Commit, DeadlockAbort, Rollback
    <3> QED
      BY <2>1, <3>1, <3>2, <3>3, <3>4, <3>5 DEF MoverStep
  <2>3. ~DeadlockAbort(m)
    BY <1>0, CommitWaitsForNobody
  <2> QED
    BY <1>0, <2>1, <2>2, <2>3
       DEF MoverStep, TakeRow, TakeColumn, TakeNeighbour, Renumber, LockNext, Rank
<1>2. CASE \E n \in Movers, t \in Tasks, c \in Columns, b, a \in Tasks \cup {NoTask} :
             AskMove(n, t, c, b, a)
  <2>1. PICK n \in Movers : txn[n].pc = "idle" /\ \E new : txn' = [txn EXCEPT ![n] = new]
    BY <1>2 DEF AskMove
  <2> QED
    BY <1>0, <2>1 DEF BoardTypeOK
<1>3. CASE \E t \in Tasks, c \in Columns : Create(t, c) \/ SetStatus(t, c)
  BY <1>0, <1>3 DEF Create, SetStatus, Write
<1>4. CASE \E t \in Tasks : Remove(t)
  BY <1>0, <1>4 DEF Remove, Write
<1>5. CASE UNCHANGED boardVars
  BY <1>0, <1>5 DEF boardVars
<1> QED
  BY <1>1, <1>2, <1>3, <1>4, <1>5 DEF BoardNext

LEMMA CommitLandsBetween ==
  ASSUME BoardInv, NEW m \in Movers, Commit(m),
         NEW b, NEW a, b = txn[m].before, a = txn[m].after,
         NEW p, p = row'[txn[m].task].position
  PROVE  /\ \A n \in {b, a} \ {NoTask} :
              row'[n].column = row'[txn[m].task].column /\ row'[n].position # p
         /\ b # NoTask /\ a = NoTask => row'[b].position < p
         /\ a # NoTask /\ b = NoTask => p < row'[a].position
         /\ b # NoTask /\ a # NoTask =>
              (row'[b].position < p) <=> (p < row'[a].position)
<1>1. /\ BoardTypeOK /\ AskedFor(m) /\ Holds(m) /\ Lands(m) /\ txn[m].pc = "commit"
      /\ txn[m] \in Move
  BY CommitIs DEF BoardInv, MoveInv, Commit
<1>2. b \in Tasks \cup {NoTask} /\ a \in Tasks \cup {NoTask}
  BY <1>1 DEF Move
<1>3. p = txn[m].position /\ p \in Nat /\ row'[txn[m].task].column = txn[m].to
  BY <1>1, CommitIs DEF Move
<1>4. ASSUME NEW n \in {b, a} \ {NoTask}
      PROVE  /\ row'[n].column = txn[m].to /\ row'[n].position = Renumbered(m, n)
             /\ Renumbered(m, n) \in Nat
  <2>1. n \in Tasks \ {txn[m].task} /\ row[n].column = txn[m].to
    BY <1>1, <1>2 DEF AskedFor, Holds, Inside
  <2> QED
    BY <1>1, <2>1, CommitIs, RenumberedType
<1>5. /\ b # NoTask => row'[b].position = Renumbered(m, b) /\ Renumbered(m, b) \in Nat
      /\ a # NoTask => row'[a].position = Renumbered(m, a) /\ Renumbered(m, a) \in Nat
  BY <1>4
<1>6. /\ b # NoTask /\ a = NoTask => Renumbered(m, b) < p
      /\ b = NoTask /\ a # NoTask => p < Renumbered(m, a)
      /\ b # NoTask /\ a # NoTask =>
           \/ Renumbered(m, b) < p /\ p < Renumbered(m, a)
           \/ Renumbered(m, a) < p /\ p < Renumbered(m, b)
  BY <1>1, <1>3 DEF Lands
<1>7. ASSUME NEW n \in {b, a} \ {NoTask} PROVE row'[n].position # p
  BY <1>3, <1>5, <1>6, <1>7
<1> QED
  BY <1>3, <1>4, <1>5, <1>6, <1>7

\* Only a commit changes where two cards of a column are, of those that stay.
LEMMA OrderKept ==
  ASSUME BoardInv, [BoardNext]_boardVars,
         NEW t \in Tasks \ {txn[m].task : m \in {n \in Movers : Landing(n)}},
         NEW u \in Tasks \ {txn[m].task : m \in {n \in Movers : Landing(n)}},
         Alive(t), row[t].column = row[u].column,
         row[t].placed # "carried", row[u].placed # "carried",
         row[t].position < row[u].position
  PROVE  row'[t].position < row'[u].position
<1>0. BoardTypeOK
  BY DEF BoardInv
<1>1. ASSUME NEW w \in Tasks, NEW new, Write(w, new), new.position = row[w].position
      PROVE  row'[t].position < row'[u].position
  BY <1>0, <1>1 DEF Write, BoardTypeOK
<1>2. ASSUME NEW m \in Movers, Commit(m) PROVE row'[t].position < row'[u].position
  <2>1. Landing(m)
    BY <1>0, <1>2, ReleaseIs DEF Landing, Commit, NoMove
  <2> QED
    BY <1>2, <2>1, OthersInOrder
<1>3. CASE \E m \in Movers : MoverStep(m) \/ DeadlockAbort(m)
  BY <1>2, <1>3, OnlyCommitsWrite
<1>4. CASE \E m \in Movers, x \in Tasks, c \in Columns, b, a \in Tasks \cup {NoTask} :
             AskMove(m, x, c, b, a)
  BY <1>4 DEF AskMove
<1>5. ASSUME NEW w \in Tasks, NEW c \in Columns, Create(w, c)
      PROVE  row'[t].position < row'[u].position
  <2>1. w # t /\ w # u
    BY <1>5, BoardColumns DEF Create, Newborn, Alive, Absent
  <2> QED
    BY <1>0, <1>5, <2>1 DEF Create, Write, BoardTypeOK
<1>6. ASSUME NEW w \in Tasks, NEW c \in Columns, SetStatus(w, c)
      PROVE  row'[t].position < row'[u].position
  <2>1. [row[w] EXCEPT !.column = c, !.placed = "carried"].position = row[w].position
    BY <1>0 DEF BoardTypeOK, Row
  <2> QED
    BY <1>1, <1>6, <2>1 DEF SetStatus
<1>7. ASSUME NEW w \in Tasks, Remove(w) PROVE row'[t].position < row'[u].position
  <2>1. [row[w] EXCEPT !.column = "gone"].position = row[w].position
    BY <1>0 DEF BoardTypeOK, Row
  <2> QED
    BY <1>1, <1>7, <2>1 DEF Remove
<1>8. CASE UNCHANGED boardVars
  BY <1>8 DEF boardVars
<1> QED
  BY <1>3, <1>4, <1>5, <1>6, <1>7, <1>8 DEF BoardNext

\* A move lands on the right side of every neighbour it was given, strictly
\* between two of them, and the cards that are not moved keep their order,
\* whoever else moves, creates, synchronises and removes meanwhile.
THEOREM MovesInOrder == BoardSpec => MovesKeepOrder
<1> DEFINE Between ==
      \A m \in Movers : Landing(m) =>
        LET b == txn[m].before
            a == txn[m].after
            p == row'[txn[m].task].position
        IN  /\ \A n \in {b, a} \ {NoTask} :
                 row'[n].column = row'[txn[m].task].column /\ row'[n].position # p
            /\ b # NoTask /\ a = NoTask => row'[b].position < p
            /\ a # NoTask /\ b = NoTask => p < row'[a].position
            /\ b # NoTask /\ a # NoTask =>
                 (row'[b].position < p) <=> (p < row'[a].position)
    InOrder ==
      \A t, u \in Tasks \ {txn[m].task : m \in {n \in Movers : Landing(n)}} :
        /\ Alive(t) /\ row[t].column = row[u].column
        /\ row'[t].column = row[t].column /\ row'[u].column = row[u].column
        /\ row[t].placed # "carried" /\ row[u].placed # "carried"
        /\ row[t].position < row[u].position
        => row'[t].position < row'[u].position
<1>1. BoardInv /\ [BoardNext]_boardVars => Between
  <2> SUFFICES ASSUME BoardInv, [BoardNext]_boardVars PROVE Between
    OBVIOUS
  <2>1. ASSUME NEW m \in Movers, Landing(m) PROVE Commit(m)
    BY <2>1, LandingIsCommit
  <2> QED
    BY <2>1, CommitLandsBetween
<1>2. BoardInv /\ [BoardNext]_boardVars => InOrder
  BY OrderKept
<1>3. BoardSpec => [][Between]_boardVars /\ [][InOrder]_boardVars
  <2> HIDE DEF Between, InOrder
  <2> QED
    BY <1>1, <1>2, BoardInvInit, BoardInvStep, PTL DEF BoardSpec
<1> QED
  BY <1>3, PTL DEF MovesKeepOrder, MoveLandsBetween, OthersKeepTheirOrder
=============================================================================
