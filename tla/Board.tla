-------------------------------- MODULE Board --------------------------------
(***************************************************************************)
(* Moving tasks on the board.                                              *)
(*                                                                         *)
(* A move is one transaction of the database.  It locks the task's row,    *)
(* then the destination column (an advisory lock), then the neighbours it  *)
(* was given, and computes a sparse position between them; when there is   *)
(* no room left it locks and renumbers every other row of the column.      *)
(* Creations take the column's lock too; the synchronisation with GitHub   *)
(* sets a status, and a removal deletes a row, under the row's own lock    *)
(* only.  Postgres breaks deadlocks by aborting one transaction.           *)
(*                                                                         *)
(* A transaction's writes are seen when it commits.                        *)
(***************************************************************************)
EXTENDS Integers, FiniteSets

CONSTANTS
  Tasks,      \* ids of tasks, in the order the database gives them out
  Columns,    \* the statuses of one project, each a column of its board
  Movers,     \* requests that may be moving tasks at the same time
  NoTask,     \* no neighbour
  NoMover,    \* a lock nobody holds
  Step,       \* the gap between two appended tasks, 1024 in the code
  MaxMoves,   \* bound: moves asked for in one behaviour
  MaxWrites,  \* bound: creations, statuses set and removals beside them
  StartRow    \* the rows earlier requests left

Absent == {"unborn", "gone"}

\* placed: how the row got its position.  "carried" is a position kept from
\* another column.
Row == [column   : Columns \cup Absent,
        position : Nat,
        placed   : {"append", "between", "carried"}]

ASSUME BoardTasksAreNumbered == Tasks \subseteq Nat \ {NoTask} /\ IsFiniteSet(Tasks)
ASSUME BoardNobody == NoMover \notin Movers
ASSUME BoardColumns == Columns \cap Absent = {}
ASSUME BoardStep == Step \in Nat \ {0, 1} /\ NoTask \in Nat
ASSUME BoardStart == StartRow \in [Tasks -> Row]
ASSUME BoardStartDiffers ==
  \A t, u \in Tasks : t # u /\ StartRow[t].column \in Columns
                      /\ StartRow[t].column = StartRow[u].column
                      /\ StartRow[t].placed = "append" /\ StartRow[u].placed = "append"
                      => StartRow[t].position # StartRow[u].position
ASSUME BoardBounds == MaxMoves \in Nat /\ MaxWrites \in Nat

VARIABLES
  row,         \* row[t], as committed
  rowLock,     \* rowLock[t]: the mover whose transaction locked t
  columnLock,  \* columnLock[c]: the mover that holds c's advisory lock
  txn,         \* txn[m]: the move m is making, and how far it got
  moves,       \* how many moves were asked for
  writes       \* how many other writes there were

boardVars == <<row, rowLock, columnLock, txn, moves, writes>>

Alive(t)   == row[t].column \in Columns
InColumn(c) == {t \in Tasks : row[t].column = c}

MoveSteps == {"idle", "task", "column", "before", "after", "rank", "renumber",
              "commit"}

Move == [pc : MoveSteps, task : Tasks \cup {NoTask}, to : Columns \cup Absent,
         before : Tasks \cup {NoTask}, after : Tasks \cup {NoTask},
         todo : SUBSET Tasks, mine : SUBSET Tasks, position : Nat]

NoMove == [pc |-> "idle", task |-> NoTask, to |-> "gone",
           before |-> NoTask, after |-> NoTask, todo |-> {}, mine |-> {}, position |-> 0]

BoardInit ==
  /\ row = StartRow
  /\ rowLock = [t \in Tasks |-> NoMover]
  /\ columnLock = [c \in Columns |-> NoMover]
  /\ txn = [m \in Movers |-> NoMove]
  /\ moves = 0
  /\ writes = 0

(***************************************************************************)
(* Positions                                                               *)
(***************************************************************************)

\* Zero when there is none, as COALESCE has it.
Highest(S) == IF S = {} THEN 0
              ELSE CHOOSE p \in {row[t].position : t \in S} :
                     \A t \in S : row[t].position <= p

\* Mutant: the order of ids, not of positions.
OlderFirst(t, u) == t < u

\* ORDER BY position, id
Precedes(t, u) == \/ row[t].position < row[u].position
                  \/ row[t].position = row[u].position /\ t < u

\* The position t has once the renumbering of m, if there was one, is done.
Renumbered(m, t) ==
  IF t \in txn[m].mine
  THEN Step * Cardinality({u \in txn[m].mine : u = t \/ Precedes(u, t)})
  ELSE row[t].position

Appended(m) == Highest(InColumn(txn[m].to) \ {txn[m].task}) + Step

Position(m) ==
  LET before == Renumbered(m, txn[m].before)
      after  == Renumbered(m, txn[m].after)
  IN  CASE txn[m].before # NoTask /\ txn[m].after # NoTask -> (before + after) \div 2
        [] txn[m].before # NoTask /\ txn[m].after = NoTask -> before + Step
        [] txn[m].before = NoTask /\ txn[m].after # NoTask ->
             IF after < Step THEN 0 ELSE after - Step
        [] OTHER -> Appended(m)

\* Mutant: a middle that rounds down onto its neighbour is not noticed.
NoRoomAbove(m) ==
  txn[m].after # NoTask /\ Position(m) >= row[txn[m].after].position

NoRoom(m) ==
  /\ txn[m].after # NoTask
  /\ \/ txn[m].before # NoTask /\ Position(m) <= row[txn[m].before].position
     \/ Position(m) >= row[txn[m].after].position

(***************************************************************************)
(* A move                                                                  *)
(***************************************************************************)

\* The route reads the task and its neighbours, outside any transaction.
AskMove(m, t, c, b, a) ==
  /\ txn[m].pc = "idle"
  /\ moves < MaxMoves
  /\ Alive(t)
  /\ \A n \in {b, a} \ {NoTask} : n # t /\ row[n].column = c
  /\ b # NoTask /\ a # NoTask => row[b].position < row[a].position
  /\ txn' = [txn EXCEPT ![m] = [NoMove EXCEPT !.pc = "task", !.task = t, !.to = c,
                                              !.before = b, !.after = a]]
  /\ moves' = moves + 1
  /\ UNCHANGED <<row, rowLock, columnLock, writes>>

\* COMMIT and ROLLBACK give up every lock of the transaction.
Release(m) ==
  /\ rowLock' = [t \in Tasks |-> IF rowLock[t] = m THEN NoMover ELSE rowLock[t]]
  /\ columnLock' = [c \in Columns |-> IF columnLock[c] = m THEN NoMover ELSE columnLock[c]]
  /\ txn' = [txn EXCEPT ![m] = NoMove]
  /\ UNCHANGED <<moves, writes>>

Rollback(m) == Release(m) /\ UNCHANGED row

Mine(m, t) == rowLock[t] \in {m, NoMover}

Goto(m, pc) == txn' = [txn EXCEPT ![m].pc = pc]

TakeRow(m) ==
  /\ txn[m].pc = "task"
  /\ Mine(m, txn[m].task)
  /\ IF Alive(txn[m].task)
     THEN /\ rowLock' = [rowLock EXCEPT ![txn[m].task] = m]
          /\ Goto(m, "column")
          /\ UNCHANGED <<row, columnLock, moves, writes>>
     ELSE Rollback(m)

TakeColumn(m) ==
  /\ txn[m].pc = "column"
  /\ columnLock[txn[m].to] = NoMover
  /\ columnLock' = [columnLock EXCEPT ![txn[m].to] = m]
  /\ Goto(m, "before")
  /\ UNCHANGED <<row, rowLock, moves, writes>>

\* Mutant: a neighbour that is no longer there is neither taken nor refused.
TakeNeighbourOnly(m, pc, t, next) ==
  /\ txn[m].pc = pc
  /\ t # NoTask => Mine(m, t) /\ row[t].column = txn[m].to
  /\ rowLock' = IF t = NoTask THEN rowLock ELSE [rowLock EXCEPT ![t] = m]
  /\ Goto(m, next)
  /\ UNCHANGED <<row, columnLock, moves, writes>>

\* neighbour(): no id, no query; a row that left the column ends the move.
TakeNeighbour(m, pc, t, next) ==
  /\ txn[m].pc = pc
  /\ \/ /\ t = NoTask
        /\ Goto(m, next)
        /\ UNCHANGED <<row, rowLock, columnLock, moves, writes>>
     \/ /\ t # NoTask
        /\ Mine(m, t)
        /\ row[t].column = txn[m].to
        /\ rowLock' = [rowLock EXCEPT ![t] = m]
        /\ Goto(m, next)
        /\ UNCHANGED <<row, columnLock, moves, writes>>
     \/ /\ t # NoTask
        /\ Mine(m, t)
        /\ row[t].column # txn[m].to
        /\ Rollback(m)

\* The statement chooses its rows when it begins and locks them one by one.
Renumber(m) ==
  /\ txn[m].pc = "rank"
  /\ NoRoom(m)
  /\ txn' = [txn EXCEPT ![m].pc = "renumber",
                        ![m].todo = InColumn(txn[m].to) \ {txn[m].task}]
  /\ UNCHANGED <<row, rowLock, columnLock, moves, writes>>

NextToLock(m, t) == t \in txn[m].todo /\ \A u \in txn[m].todo \ {t} : Precedes(t, u)

\* A row that left the column meanwhile is skipped.
LockNext(m) ==
  /\ txn[m].pc = "renumber"
  /\ \E t \in Tasks :
       LET stays == row[t].column = txn[m].to
       IN  /\ NextToLock(m, t)
           /\ Mine(m, t)
           /\ txn' = [txn EXCEPT ![m].todo = @ \ {t},
                                 ![m].mine = IF stays THEN @ \cup {t} ELSE @]
           /\ rowLock' = IF stays THEN [rowLock EXCEPT ![t] = m] ELSE rowLock
  /\ UNCHANGED <<row, columnLock, moves, writes>>

\* The update of the moved row.
Rank(m) ==
  /\ \/ txn[m].pc = "rank" /\ ~NoRoom(m)
     \/ txn[m].pc = "renumber" /\ txn[m].todo = {}
  /\ txn' = [txn EXCEPT ![m].pc = "commit", ![m].position = Position(m)]
  /\ UNCHANGED <<row, rowLock, columnLock, moves, writes>>

Commit(m) ==
  /\ txn[m].pc = "commit"
  /\ row' = [t \in Tasks |->
       IF t = txn[m].task
       THEN [column   |-> txn[m].to,
             position |-> txn[m].position,
             placed   |-> IF txn[m].before = NoTask /\ txn[m].after = NoTask
                          THEN "append" ELSE "between"]
       ELSE [row[t] EXCEPT !.position = Renumbered(m, t)]]
  /\ Release(m)

MoverStep(m) ==
  \/ TakeRow(m)
  \/ TakeColumn(m)
  \/ TakeNeighbour(m, "before", txn[m].before, "after")
  \/ TakeNeighbour(m, "after", txn[m].after, "rank")
  \/ Renumber(m)
  \/ LockNext(m)
  \/ Rank(m)
  \/ Commit(m)

(***************************************************************************)
(* Deadlocks: each member of S waits for a lock another member holds.      *)
(***************************************************************************)

Blocker(m) ==
  CASE txn[m].pc = "task"   -> rowLock[txn[m].task]
    [] txn[m].pc = "column" -> columnLock[txn[m].to]
    [] txn[m].pc \in {"before", "after"} ->
         LET t == IF txn[m].pc = "before" THEN txn[m].before ELSE txn[m].after
         IN  IF t = NoTask THEN NoMover ELSE rowLock[t]
    [] txn[m].pc = "renumber" /\ txn[m].todo # {} -> rowLock[CHOOSE t \in Tasks : NextToLock(m, t)]
    [] OTHER -> NoMover

Ring(S) == S # {} /\ \A m \in S : Blocker(m) \in S \ {m}

DeadlockAbort(m) ==
  /\ \E S \in SUBSET Movers : m \in S /\ Ring(S) /\ \A T \in SUBSET S \ {S} : ~Ring(T)
  /\ Rollback(m)

(***************************************************************************)
(* The other writers                                                       *)
(***************************************************************************)

Write(t, new) ==
  /\ writes < MaxWrites
  /\ writes' = writes + 1
  /\ row' = [row EXCEPT ![t] = new]
  /\ UNCHANGED <<rowLock, columnLock, txn, moves>>

Newborn(t) == /\ row[t].column = "unborn"
              /\ \A u \in Tasks : u < t => row[u].column # "unborn"

\* Mutant: creation does not wait for moves into the column.
CreateUnlocked(t, c) ==
  /\ Newborn(t)
  /\ Write(t, [column |-> c, position |-> Highest(InColumn(c)) + Step, placed |-> "append"])

Create(t, c) ==
  /\ Newborn(t)
  /\ columnLock[c] = NoMover
  /\ Write(t, [column |-> c, position |-> Highest(InColumn(c)) + Step, placed |-> "append"])

\* applyIssueToTask: the issue's status, with the position the row has.
SetStatus(t, c) ==
  /\ Alive(t)
  /\ rowLock[t] = NoMover
  /\ row[t].column # c
  /\ Write(t, [row[t] EXCEPT !.column = c, !.placed = "carried"])

Remove(t) ==
  /\ Alive(t)
  /\ rowLock[t] = NoMover
  /\ Write(t, [row[t] EXCEPT !.column = "gone"])

BoardNext ==
  \/ \E m \in Movers : MoverStep(m) \/ DeadlockAbort(m)
  \/ \E m \in Movers, t \in Tasks, c \in Columns, b, a \in Tasks \cup {NoTask} :
       AskMove(m, t, c, b, a)
  \/ \E t \in Tasks, c \in Columns : Create(t, c) \/ SetStatus(t, c)
  \/ \E t \in Tasks : Remove(t)

BoardFairness ==
  \A m \in Movers : WF_boardVars(MoverStep(m) \/ DeadlockAbort(m))

BoardSpec == BoardInit /\ [][BoardNext]_boardVars /\ BoardFairness

(***************************************************************************)
(* Properties                                                              *)
(***************************************************************************)

BoardTypeOK ==
  /\ row \in [Tasks -> Row]
  /\ rowLock \in [Tasks -> Movers \cup {NoMover}]
  /\ columnLock \in [Columns -> Movers \cup {NoMover}]
  /\ txn \in [Movers -> Move]
  /\ moves \in 0..MaxMoves
  /\ writes \in 0..MaxWrites

\* Two tasks that were appended to a column never share a position: creation
\* and moves without neighbours read the highest one under the column's lock.
AppendedDiffer ==
  \A t, u \in Tasks :
    /\ t # u
    /\ Alive(t)
    /\ row[t].column = row[u].column
    /\ row[t].placed = "append" /\ row[u].placed = "append"
    => row[t].position # row[u].position

Landing(m) == txn[m].pc = "commit" /\ txn'[m].pc = "idle"

\* A move lands on the right side of every neighbour it was given, in the
\* column it was asked for, whatever others did to them since the route looked;
\* with two neighbours it lands strictly between them.
MoveLandsBetween ==
  [][\A m \in Movers : Landing(m) =>
       LET b == txn[m].before
           a == txn[m].after
           p == row'[txn[m].task].position
       IN  /\ \A n \in {b, a} \ {NoTask} :
                row'[n].column = row'[txn[m].task].column /\ row'[n].position # p
           /\ b # NoTask /\ a = NoTask => row'[b].position < p
           /\ a # NoTask /\ b = NoTask => p < row'[a].position
           /\ b # NoTask /\ a # NoTask =>
                (row'[b].position < p) <=> (p < row'[a].position)]_boardVars

\* Renumbering keeps the order of the tasks that are not being moved.  One the
\* synchronisation brought in is left out: it may arrive under the renumbering.
OthersKeepTheirOrder ==
  [][\A t, u \in Tasks \ {txn[m].task : m \in {n \in Movers : Landing(n)}} :
       /\ Alive(t) /\ row[t].column = row[u].column
       /\ row'[t].column = row[t].column /\ row'[u].column = row[u].column
       /\ row[t].placed # "carried" /\ row[u].placed # "carried"
       /\ row[t].position < row[u].position
       => row'[t].position < row'[u].position]_boardVars

\* A move leaves its card between the neighbours it named and the other cards of
\* its column in their order, whoever else moves, creates, synchronises and
\* removes meanwhile.
MovesKeepOrder == MoveLandsBetween /\ OthersKeepTheirOrder

\* Every move ends, committed or refused: the order in which moves take their
\* locks does deadlock, and the database ends that.
EveryMoveEnds == \A m \in Movers : []<>(txn[m].pc = "idle")
=============================================================================
