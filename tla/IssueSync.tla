------------------------------ MODULE IssueSync ------------------------------
(***************************************************************************)
(* Projecting a repository's issues from GitHub.                           *)
(*                                                                         *)
(* A pass reads the issues updated since a cursor, oldest change first,    *)
(* page by page and at most MaxPages of them; writes one row per issue;    *)
(* reads the children of every issue that has some and replaces the links  *)
(* it may; and records the newest change it saw as the cursor.  A timer    *)
(* and a button resume from the stored cursor; a webhook delivery reads    *)
(* from the beginning.  The timer skips a tick while its own pass is in    *)
(* flight, and nothing keeps a request's pass from running beside it.      *)
(*                                                                         *)
(* GitHub is modelled from how the panel queries it: `since` includes its  *)
(* own second, pages are offsets into the list as it is when it is read.   *)
(***************************************************************************)
EXTENDS Integers, FiniteSets, Sequences

CONSTANTS
  Issues,       \* issue numbers
  Opened,       \* Opened[i]: when i last changed before all this, 0 if not yet opened
  PageSize,     \* issues on a page, 100 in the code
  MaxPages,     \* pages of one pass, 10 in the code
  MaxEvents     \* bound: changes on GitHub, presses of the button, deliveries,
                \* failures and restarts, together

ASSUME SyncConstants ==
  /\ Issues \subseteq Nat \ {0} /\ IsFiniteSet(Issues)
  /\ Opened \in [Issues -> 0..Cardinality(Issues)]
  /\ PageSize \in Nat \ {0} /\ MaxPages \in Nat \ {0} /\ MaxEvents \in Nat

VARIABLES
  issue,      \* issue[i] on GitHub: when it last changed, and to what; 0 before it is opened
  parentOf,   \* parentOf[i]: the issue i is a sub-issue of, or 0
  now,        \* GitHub's clock
  projected,  \* projected[i]: the content of i's row, 0 without one
  links,      \* <<parent, child>> rows
  cursor,     \* the stored cursor, 0 for none
  pass,       \* pass[s]: the pass in flight in slot s
  raced,      \* two passes ran at once, or pages moved under one
  events      \* how many of the bounded events there were

syncVars == <<issue, parentOf, now, projected, links, cursor, pass, raced, events>>

github     == <<issue, parentOf, now>>
projection == <<projected, links, cursor>>

Slots == {"timer", "request"}
Times == 0..(Cardinality(Issues) + MaxEvents)
Contents == 0..(MaxEvents + 1)

\* What a page says of an issue: sub_issues_summary.total > 0 is `parent`.
Entry == [number : Issues, updated : Times, content : Contents, parent : BOOLEAN]

\* left: entries still to be written; parents: entries with children still to
\* be read; complete: the pass reads everything, from the beginning, and nothing
\* changed on GitHub and no other pass ran since it began.
Pass == [pc : {"idle", "page", "upsert", "children", "replace", "record"},
         delivery : BOOLEAN, since : Times, pages : 0..MaxPages-1,
         left : Seq(Entry), numbers : SUBSET Issues, newest : Times,
         parents : Seq(Issues), found : Seq(Issues \X Issues), complete : BOOLEAN]

NoPass == [pc |-> "idle", delivery |-> FALSE, since |-> 0, pages |-> 0, left |-> <<>>,
           numbers |-> {}, newest |-> 0, parents |-> <<>>, found |-> <<>>,
           complete |-> FALSE]

Running == {s \in Slots : pass[s].pc # "idle"}

Graph == {l \in Issues \X Issues : parentOf[l[2]] = l[1]}

\* Before the first pass, or after one that read every issue.
SyncInit ==
  /\ issue = [i \in Issues |-> [updated |-> Opened[i],
                               content |-> IF Opened[i] = 0 THEN 0 ELSE 1]]
  /\ parentOf = [i \in Issues |-> 0]
  /\ now = Cardinality(Issues)
  /\ \/ /\ projected = [i \in Issues |-> 0]
        /\ cursor = 0
     \/ /\ projected = [i \in Issues |-> issue[i].content]
        /\ \E i \in Issues : cursor = Opened[i] /\ \A j \in Issues : Opened[j] <= cursor
  /\ links = {}
  /\ pass = [s \in Slots |-> NoPass]
  /\ raced = FALSE
  /\ events = 0

SyncEvent == events < MaxEvents /\ events' = events + 1

(***************************************************************************)
(* GitHub                                                                  *)
(***************************************************************************)

\* A change of i, in this second or a later one.  As many issues as fit in a
\* pass never change in one second: a thousand, in the code.
Touch(i, tick) ==
  /\ SyncEvent
  /\ now' = now + tick
  /\ issue' = [issue EXCEPT ![i] = [updated |-> now', content |-> @.content + 1]]
  /\ Cardinality({j \in Issues : issue'[j].updated = now'}) < PageSize * MaxPages
  /\ pass' = [s \in Slots |-> [pass[s] EXCEPT !.complete = FALSE]]
  /\ raced' = (raced \/ \E s \in Slots : pass[s].pc = "page" /\ pass[s].pages > 0)
  /\ UNCHANGED projection

\* An issue that was not there is opened.
Edit(i, tick) == Touch(i, tick) /\ UNCHANGED parentOf

\* The parents above n, and n itself, along the links of L: the least set that
\* has the parents of all its members.
Above(L, n) ==
  LET whole == {X \in SUBSET Issues : n \in X /\ \A l \in L : l[2] \in X => l[1] \in X}
  IN  {i \in Issues : \A X \in whole : i \in X}

\* A sub-issue is added or taken away: its parent changes.
EditChildren(p, c) ==
  /\ issue[p].updated # 0 /\ issue[c].updated # 0
  /\ Touch(p, 1)
  /\ parentOf' = [parentOf EXCEPT ![c] = IF @ = p THEN 0 ELSE p]
  /\ c \notin Above(Graph, p)

(***************************************************************************)
(* A pass begins                                                           *)
(***************************************************************************)

\* Mutant: a pass asks for what changed after its cursor's second.
BeginAfter(s, delivery, from) ==
  /\ pass[s].pc = "idle"
  /\ pass' = [t \in Slots |->
       IF t = s THEN [NoPass EXCEPT !.pc = "page", !.delivery = delivery,
                                    !.since = IF from = 0 THEN 0 ELSE from + 1, !.newest = from,
                                    !.complete = from = 0 /\ Running = {}]
       ELSE [pass[t] EXCEPT !.complete = FALSE]]
  /\ raced' = (raced \/ Running # {})
  /\ UNCHANGED <<github, projection>>

Begin(s, delivery, from) ==
  /\ pass[s].pc = "idle"
  /\ pass' = [t \in Slots |->
       IF t = s THEN [NoPass EXCEPT !.pc = "page", !.delivery = delivery,
                                    !.since = from, !.newest = from,
                                    !.complete = from = 0 /\ Running = {}]
       ELSE [pass[t] EXCEPT !.complete = FALSE]]
  /\ raced' = (raced \/ Running # {})
  /\ UNCHANGED <<github, projection>>

Tick == Begin("timer", FALSE, cursor) /\ UNCHANGED events

Button   == Begin("request", FALSE, cursor) /\ SyncEvent
Delivery == Begin("request", TRUE, 0) /\ SyncEvent

(***************************************************************************)
(* fetchIssues and paginate                                                *)
(***************************************************************************)

EntryOf(i) == [number |-> i, updated |-> issue[i].updated, content |-> issue[i].content,
               parent |-> \E c \in Issues : parentOf[c] = i]

\* The members of S, each once, in the order of R.
Sorted(S, R(_, _)) ==
  CHOOSE q \in [1..Cardinality(S) -> S] : \A i, j \in DOMAIN q : i < j => R(q[i], q[j])

Matching(since) == {i \in Issues : issue[i].updated # 0 /\ issue[i].updated >= since}

Earlier(e, f) == \/ e.updated < f.updated
                 \/ e.updated = f.updated /\ e.number < f.number

\* What GitHub lists for a query, now.
Listing(since) == Sorted({EntryOf(i) : i \in Matching(since)}, Earlier)

\* Mutant: every page is read.
MorePages(p, last, all) == last < Len(all)

\* paginate stops after a number of pages, with whatever is left unread.
Again(p, last, all) == last < Len(all) /\ p.pages + 1 < MaxPages

FetchPage(s) ==
  LET p    == pass[s]
      all  == Listing(p.since)
      from == p.pages * PageSize
      last == IF from + PageSize < Len(all) THEN from + PageSize ELSE Len(all)
      left == p.left \o SubSeq(all, from + 1, last)
      again == Again(p, last, all)
  IN  /\ p.pc = "page"
      /\ pass' = [pass EXCEPT ![s] = [p EXCEPT
           !.left = left,
           !.pages = IF again THEN @ + 1 ELSE 0,
           !.complete = @ /\ (again \/ last = Len(all)),
           !.pc = IF again THEN "page" ELSE IF left = <<>> THEN "record" ELSE "upsert"]]
      /\ UNCHANGED <<github, projection, raced, events>>

(***************************************************************************)
(* syncRepositoryIssues                                                    *)
(***************************************************************************)

Newest(p, entry) == IF entry.updated > p.newest THEN entry.updated ELSE p.newest

\* One row after the other.  The row takes what the page said, whatever it
\* held.
Upsert(s) ==
  LET p       == pass[s]
      entry   == Head(p.left)
      parents == IF entry.parent THEN Append(p.parents, entry.number) ELSE p.parents
  IN  /\ p.pc = "upsert"
      /\ projected' = [projected EXCEPT ![entry.number] = entry.content]
      /\ pass' = [pass EXCEPT ![s] = [p EXCEPT
           !.left = Tail(@), !.numbers = @ \cup {entry.number},
           !.newest = Newest(p, entry), !.parents = parents,
           !.pc = IF Len(p.left) > 1 THEN @ ELSE IF parents = <<>> THEN "record" ELSE "children"]]
      /\ UNCHANGED <<github, links, cursor, raced, events>>

ChildrenOf(n) ==
  LET order == Sorted({c \in Issues : parentOf[c] = n}, <)
  IN  [k \in DOMAIN order |-> <<n, order[k]>>]

\* The second pass: the children as they are now.  Without any, nothing is
\* replaced.
FetchChildren(s) ==
  LET p     == pass[s]
      found == p.found \o ChildrenOf(Head(p.parents))
  IN  /\ p.pc = "children"
      /\ pass' = [pass EXCEPT ![s] = [p EXCEPT
           !.parents = Tail(@),
           !.found = found,
           !.pc = IF Len(p.parents) > 1 THEN @
                  ELSE IF found = <<>> THEN "record" ELSE "replace"]]
      /\ UNCHANGED <<github, projection, raced, events>>

\* Mutant: a parent is expected to be older than its children.
VisibleFromOlder(p, accepted, l) == {l[1], l[2]} \subseteq p.numbers /\ l[1] < l[2]

\* Both ends were in this pass, and no cycle with the links accepted so far.
Visible(p, accepted, l) ==
  {l[1], l[2]} \subseteq p.numbers /\ l[2] \notin Above(accepted, l[1])

\* One link after the other.
VisibleLinks(p) ==
  LET accepted[k \in 0..Len(p.found)] ==
        IF k = 0 THEN {}
        ELSE accepted[k-1] \cup {l \in {p.found[k]} : Visible(p, accepted[k-1], l)}
  IN  accepted[Len(p.found)]

\* Every link of the repository goes; those of this pass come.
ReplaceLinks(s) ==
  /\ pass[s].pc = "replace"
  /\ links' = VisibleLinks(pass[s])
  /\ pass' = [pass EXCEPT ![s].pc = "record"]
  /\ UNCHANGED <<github, projected, cursor, raced, events>>

RecordCursor(s) ==
  /\ pass[s].pc = "record"
  /\ cursor' = pass[s].newest
  /\ pass' = [pass EXCEPT ![s] = NoPass]
  /\ UNCHANGED <<github, projected, links, raced, events>>

PassStep(s) == \/ FetchPage(s)
               \/ Upsert(s)
               \/ FetchChildren(s)
               \/ ReplaceLinks(s)
               \/ RecordCursor(s)

\* GitHub or the database refuses a call.  reconcile records the error beside
\* the cursor it began with; a delivery records nothing.
FailPass(s) ==
  /\ s \in Running
  /\ SyncEvent
  /\ cursor' = IF pass[s].delivery THEN cursor ELSE pass[s].since
  /\ pass' = [pass EXCEPT ![s] = NoPass]
  /\ UNCHANGED <<github, projected, links, raced>>

RestartPanel ==
  /\ Running # {}
  /\ SyncEvent
  /\ pass' = [s \in Slots |-> NoPass]
  /\ UNCHANGED <<github, projection, raced>>

SyncNext ==
  \/ \E i \in Issues, tick \in {0, 1} : Edit(i, tick)
  \/ \E p, c \in Issues : EditChildren(p, c)
  \/ Tick
  \/ Button
  \/ Delivery
  \/ \E s \in Slots : PassStep(s) \/ FailPass(s)
  \/ RestartPanel

SyncSpec ==
  /\ SyncInit /\ [][SyncNext]_syncVars
  /\ WF_syncVars(Tick) /\ \A s \in Slots : WF_syncVars(PassStep(s))

(***************************************************************************)
(* Properties                                                              *)
(***************************************************************************)

SyncTypeOK ==
  /\ issue \in [Issues -> [updated : Times, content : Contents]]
  /\ parentOf \in [Issues -> Issues \cup {0}]
  /\ now \in Times
  /\ projected \in [Issues -> Contents]
  /\ links \subseteq Issues \X Issues
  /\ cursor \in Times
  /\ pass \in [Slots -> Pass]
  /\ events \in 0..MaxEvents
  /\ raced \in BOOLEAN

\* What the cursor leaves behind is projected as it is on GitHub: a later pass
\* never reads it again.  (A pass cut short, one that fails and one a restart
\* ends included; passes at once and pages that move under a pass are not.)
CursorCovers ==
  ~raced => \A i \in Issues :
              issue[i].updated < cursor => projected[i] = issue[i].content

CaughtUp == raced \/ \A i \in Issues : projected[i] = issue[i].content

\* Once GitHub is quiet, every issue is projected as it is there.
EventuallyProjected == <>[]CaughtUp

\* A pass that read everything, with nothing changing meanwhile, leaves the
\* links GitHub has: a child listed before its parent is not lost.
LinksOfCompleteRun ==
  [][\A s \in Slots :
       /\ pass[s].pc = "replace" /\ pass'[s].pc = "record"
       /\ pass[s].complete
       => links' = Graph]_syncVars
=============================================================================
