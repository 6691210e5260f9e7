---------------------------- MODULE PanelProofs -----------------------------
(***************************************************************************)
(* Theorems of Sessions, of Live and of the panel's parts together.  Of    *)
(* Sessions: what the watcher saw was told, and a session that is active   *)
(* has the commits made while it was, for any number of sessions and       *)
(* commits, any depth of the scan and any number of events it looks back   *)
(* over.  Of Live: a forced read answers with nothing older than the       *)
(* question, for any number of browsers, of builds under way at once and   *)
(* of changes.  Of MCPanel: its behaviours are behaviours of every part,   *)
(* and all of its state is well typed.                                     *)
(***************************************************************************)
EXTENDS MCPanel, TasksProofs, GitHubProofs, SequenceTheorems, TLAPS

\* A PATCH that has read the row of its session.
PatchRead == [asked : {"heartbeat", "active", "ended"}, status : {"unborn", "active", "ended", "abandoned"},
          headAfter : Commits \cup {None}]

WatchTypes ==
  /\ SessionTypeOK
  /\ activity \in Seq(EventOf)
  /\ patching \in [DevSessions -> PatchRead \cup {NoPatch}]

\* All that is accounted for: told in an event, or one of the named exceptions.
Accounted == told \cup untold

\* Every commit event, what the tick compares with and, from then on, what it
\* found stand for commits that are accounted for.
EventsTold   == \A i \in DOMAIN activity :
                  activity[i].kind = "commit" => 1..activity[i].head \subseteq Accounted
PreviousTold == watch.pc \in {"compare", "record", "branch"} =>
                  1..watch.previous.head \subseteq Accounted
NowTold      == watch.pc \in {"record", "branch"} => 1..watch.now.head \subseteq Accounted

ToldInv == SeenWasTold /\ EventsTold /\ PreviousTold /\ NowTold

(***************************************************************************)
(* Types                                                                   *)
(***************************************************************************)

\* What a tick looks at is numbered.
LEMMA WatchNumbers ==
  ASSUME WatchTypes
  PROVE  /\ watch.now.head \in Commits /\ watch.now \in Scan
         /\ watch.previous.head \in Commits \cup {None}
         /\ seen.head \in Commits \cup {None}
         /\ scan.head \in Commits
         /\ watch.listed \subseteq DevSessions
         /\ \A s \in DevSessions : watch.known[s] \subseteq Commits
         /\ Commits \subseteq Nat
<1>1. watch.previous \in Sight \cup {Unseen} /\ seen \in Sight \cup {Unseen} /\ scan \in Scan
  BY DEF WatchTypes, SessionTypeOK
<1>2. watch.now \in Scan /\ watch.listed \subseteq DevSessions /\ watch.known \in [DevSessions -> SUBSET Commits]
  BY DEF WatchTypes, SessionTypeOK
<1> QED
  BY <1>1, <1>2, WatchConstants DEF Sight, Unseen, Scan, Commits, None

LEMMA UpTo == \A n \in Commits \cup {None} : 1..n \subseteq Commits
  BY WatchConstants DEF Commits, None

LEMMA QuietTypes ==
  Quiet \in [pc : {"idle", "scan", "recall", "compare", "record", "branch"},
             listed : SUBSET DevSessions, known : [DevSessions -> SUBSET Commits],
             now : Scan, previous : Sight \cup {Unseen}]
  BY WatchConstants DEF Quiet, Scan, Commits, Branches

LEMMA MissingTypes ==
  ASSUME NEW who, NEW commits \in SUBSET Commits, missed \in [DevSessions -> SUBSET Commits],
         Missing(who, commits)
  PROVE  missed' \in [DevSessions -> SUBSET Commits]
  BY DEF Missing

LEMMA CountTypes ==
  ASSUME WatchTypes
  PROVE  /\ Happening => happenings' \in 0..MaxHappenings
         /\ Failure => failures' \in 0..MaxFailures
  BY WatchConstants DEF WatchTypes, SessionTypeOK, Happening, Failure

\* What the watcher takes from the events is a sight.
LEMMA LastRecordedIsSight ==
  ASSUME WatchTypes
  PROVE  LastRecorded \in Sight
<1>1. watch.now \in Sight
  BY WatchNumbers DEF Scan, Sight
<1>2. Recent \subseteq DOMAIN activity
  BY DEF Recent
<1>3. \A kind : LastOf(kind) \subseteq DOMAIN activity
  BY <1>2 DEF LastOf
<1>4. \A i \in DOMAIN activity : activity[i].head \in Commits /\ activity[i].branch \in Branches
  BY DEF WatchTypes, SessionTypeOK, EventOf
<1>5. \A kind : LastOf(kind) # {} => (CHOOSE i \in LastOf(kind) : TRUE) \in DOMAIN activity
  BY <1>3
<1> QED
  BY <1>1, <1>4, <1>5 DEF LastRecorded, Sight

LEMMA InitTypes == SessionInit => WatchTypes
<1> SUFFICES ASSUME SessionInit PROVE WatchTypes
  OBVIOUS
<1>1. scan \in Scan
  BY WatchConstants DEF SessionInit, Scan, Commits, Branches
<1>2. dev \in [DevSessions -> SessionRow]
  BY DEF SessionInit, SessionRow
<1>3. patching \in [DevSessions -> PatchRead \cup {NoPatch}]
  BY DEF SessionInit
<1>4. activity \in Seq(EventOf) /\ \A i \in DOMAIN activity : activity[i] \in EventOf
  BY DEF SessionInit
<1>5. missed \in [DevSessions -> SUBSET Commits] /\ told \subseteq Commits /\ untold \subseteq Commits
  BY DEF SessionInit
<1>6. failures \in 0..MaxFailures /\ happenings \in 0..MaxHappenings
  BY WatchConstants DEF SessionInit
<1>7. seen \in Sight \cup {Unseen}
  BY DEF SessionInit
<1>8. watch = Quiet
  BY DEF SessionInit
<1> QED
  BY <1>1, <1>2, <1>3, <1>4, <1>5, <1>6, <1>7, <1>8, QuietTypes DEF WatchTypes, SessionTypeOK

Ticks == [pc : {"idle", "scan", "recall", "compare", "record", "branch"},
          listed : SUBSET DevSessions, known : [DevSessions -> SUBSET Commits],
          now : Scan, previous : Sight \cup {Unseen}]

\* The tick appends one event, or none.
LEMMA AppendTypes ==
  ASSUME WatchTypes, NEW kind \in {"commit", "branch"},
         activity' = Append(activity, [kind |-> kind, head |-> watch.now.head, branch |-> watch.now.branch])
  PROVE  activity' \in Seq(EventOf) /\ \A i \in DOMAIN activity' : activity'[i] \in EventOf
<1>1. [kind |-> kind, head |-> watch.now.head, branch |-> watch.now.branch] \in EventOf
  BY WatchNumbers DEF Scan, EventOf
<1>2. activity' \in Seq(EventOf)
  BY <1>1, AppendProperties DEF WatchTypes
<1> QED
  BY <1>2

LEMMA TickTypes ==
  ASSUME WatchTypes, ListSessions \/ ReadScan \/ Recall \/ NoCommit \/ TellCommits \/ TellingFails
  PROVE  WatchTypes'
<1>1. watch \in Ticks
  BY DEF WatchTypes, SessionTypeOK, Ticks
<1>2. /\ 1..watch.now.head \subseteq Commits /\ 1..scan.head \subseteq Commits
      /\ Listed \subseteq Commits /\ NewCommits \subseteq Commits /\ Overflow \subseteq Commits
  BY WatchNumbers, UpTo DEF Listed, NewCommits, Overflow
<1>3. CASE ListSessions
  <2>1. watch' \in Ticks
    BY <1>3, QuietTypes DEF ListSessions, Ticks, ActiveSessions, WatchTypes, SessionTypeOK, SessionRow
  <2> QED
    BY <1>3, <2>1 DEF ListSessions, Ticks, rows, ledger, counted, WatchTypes, SessionTypeOK
<1>4. CASE ReadScan
  <2>1. watch' \in Ticks
    BY <1>1, <1>4 DEF ReadScan, Ticks, WatchTypes, SessionTypeOK
  <2>2. missed' \in [DevSessions -> SUBSET Commits]
    BY <1>2, <1>4, MissingTypes DEF ReadScan, WatchTypes, SessionTypeOK
  <2> QED
    BY <1>4, <2>1, <2>2 DEF ReadScan, Ticks, rows, counted, WatchTypes, SessionTypeOK
<1>5. CASE Recall
  <2>1. seen' \in Sight
    BY <1>5, LastRecordedIsSight DEF Recall
  <2>2. watch' \in Ticks
    BY <1>1, <1>5, <2>1 DEF Recall, Ticks
  <2>3. PICK commits \in SUBSET Commits : untold' = untold \cup commits /\ Missing(DevSessions, commits)
    BY <1>2, <1>5 DEF Recall
  <2>4. missed' \in [DevSessions -> SUBSET Commits] /\ untold' \subseteq Commits
    BY <2>3, MissingTypes DEF WatchTypes, SessionTypeOK
  <2> QED
    BY <1>5, <2>1, <2>2, <2>4 DEF Recall, Ticks, rows, counted, WatchTypes, SessionTypeOK
<1>6. CASE NoCommit
  <2>1. watch' \in Ticks
    BY <1>1, <1>6 DEF NoCommit, Ticks
  <2>2. PICK commits \in SUBSET Commits : untold' = untold \cup commits /\ Missing(DevSessions, commits)
    BY <1>2, <1>6 DEF NoCommit
  <2>3. missed' \in [DevSessions -> SUBSET Commits] /\ untold' \subseteq Commits
    BY <2>2, MissingTypes DEF WatchTypes, SessionTypeOK
  <2> QED
    BY <1>6, <2>1, <2>3 DEF NoCommit, Ticks, rows, counted, WatchTypes, SessionTypeOK
<1>7. CASE TellCommits \/ TellingFails
  <2>1. watch' \in Ticks
    BY <1>1, <1>7 DEF TellCommits, TellingFails, AfterCommits, Ticks
  <2>2. missed' \in [DevSessions -> SUBSET Commits]
    BY <1>2, <1>7, MissingTypes DEF TellCommits, TellingFails, WatchTypes, SessionTypeOK
  <2>3. told' \subseteq Commits /\ untold' \subseteq Commits
    BY <1>2, <1>7 DEF TellCommits, TellingFails, WatchTypes, SessionTypeOK
  <2>4. activity' \in Seq(EventOf) /\ \A i \in DOMAIN activity' : activity'[i] \in EventOf
    BY <1>7, AppendTypes DEF TellCommits, TellingFails, WatchTypes, SessionTypeOK
  <2>5. failures' \in 0..MaxFailures /\ happenings' \in 0..MaxHappenings
    BY <1>7, CountTypes DEF TellCommits, TellingFails, counted, WatchTypes, SessionTypeOK
  <2>6. UNCHANGED <<scan, seen, dev, patching>>
    BY <1>7 DEF TellCommits, TellingFails, rows
  <2> QED
    BY <2>1, <2>2, <2>3, <2>4, <2>5, <2>6 DEF Ticks, WatchTypes, SessionTypeOK
<1> QED
  BY <1>3, <1>4, <1>5, <1>6, <1>7

\* A row whose fields are replaced by others of their types.
LEMMA RowTypes ==
  ASSUME NEW s \in DevSessions, dev \in [DevSessions -> SessionRow],
         NEW status \in {"unborn", "active", "ended", "abandoned"},
         NEW commits \in SUBSET Commits, NEW headAfter \in Commits \cup {None}
  PROVE  /\ [dev EXCEPT ![s].commits = commits, ![s].headAfter = headAfter] \in [DevSessions -> SessionRow]
         /\ [dev EXCEPT ![s].status = status, ![s].headAfter = headAfter] \in [DevSessions -> SessionRow]
<1>1. dev[s] = [status |-> dev[s].status, commits |-> dev[s].commits, headAfter |-> dev[s].headAfter]
      /\ dev[s] \in SessionRow
  BY DEF SessionRow
<1>2. [dev[s] EXCEPT !.commits = commits, !.headAfter = headAfter] \in SessionRow
      /\ [dev[s] EXCEPT !.status = status, !.headAfter = headAfter] \in SessionRow
  BY <1>1 DEF SessionRow
<1>3. /\ [dev EXCEPT ![s].commits = commits, ![s].headAfter = headAfter]
          = [dev EXCEPT ![s] = [dev[s] EXCEPT !.commits = commits, !.headAfter = headAfter]]
      /\ [dev EXCEPT ![s].status = status, ![s].headAfter = headAfter]
          = [dev EXCEPT ![s] = [dev[s] EXCEPT !.status = status, !.headAfter = headAfter]]
  OBVIOUS
<1> QED
  BY <1>2, <1>3

LEMMA EndTypes ==
  ASSUME WatchTypes,
         (\E s \in DevSessions : RecordCommits(s)) \/ EndTick \/ TickFails \/ RestartWatch
  PROVE  WatchTypes'
<1>1. ASSUME NEW s \in DevSessions, RecordCommits(s) PROVE WatchTypes'
  <2>1. watch' \in Ticks
    BY <1>1 DEF RecordCommits, Ticks, WatchTypes, SessionTypeOK
  <2>2. NewCommits \subseteq Commits /\ watch.known[s] \subseteq Commits /\ watch.now.head \in Commits
    BY WatchNumbers, UpTo DEF NewCommits, Listed
  <2>3. dev' \in [DevSessions -> SessionRow]
    BY <1>1, <2>2, RowTypes DEF RecordCommits, WatchTypes, SessionTypeOK, SessionRow
  <2> QED
    BY <1>1, <2>1, <2>3 DEF RecordCommits, Ticks, ledger, counted, WatchTypes, SessionTypeOK
<1>2. CASE EndTick
  <2>1. seen' \in Sight
    BY <1>2, WatchNumbers DEF EndTick, Scan, Sight
  <2>2. activity' \in Seq(EventOf) /\ \A i \in DOMAIN activity' : activity'[i] \in EventOf
    BY <1>2, AppendTypes DEF EndTick, WatchTypes, SessionTypeOK
  <2>3. failures' \in 0..MaxFailures
    BY <1>2, CountTypes DEF EndTick, WatchTypes, SessionTypeOK
  <2> QED
    BY <1>2, <2>1, <2>2, <2>3, QuietTypes DEF EndTick, rows, ledger, WatchTypes, SessionTypeOK
<1>3. CASE TickFails
  BY <1>3, QuietTypes, CountTypes DEF TickFails, rows, ledger, WatchTypes, SessionTypeOK
<1>4. CASE RestartWatch
  <2>1. \A i \in DOMAIN activity : 1..activity[i].head \subseteq Commits
    BY UpTo DEF WatchTypes, SessionTypeOK, EventOf
  <2>2. missed' \in [DevSessions -> SUBSET Commits]
    BY <1>4, <2>1, MissingTypes DEF RestartWatch, WatchTypes, SessionTypeOK
  <2>3. patching' \in [DevSessions -> PatchRead \cup {NoPatch}]
    BY <1>4 DEF RestartWatch
  <2>4. failures' \in 0..MaxFailures
    BY <1>4, CountTypes DEF RestartWatch
  <2> QED
    BY <1>4, <2>2, <2>3, <2>4, QuietTypes DEF RestartWatch, WatchTypes, SessionTypeOK
<1> QED
  BY <1>1, <1>2, <1>3, <1>4

LEMMA PeopleTypes ==
  ASSUME WatchTypes,
         \/ HostScans \/ AbandonStale \/ PruneActivity
         \/ \E s \in DevSessions : StartSession(s) \/ ReadSession(s) \/ WriteSession(s)
  PROVE  WatchTypes'
<1>2. CASE HostScans
  BY <1>2, CountTypes DEF HostScans, rows, ledger, WatchTypes, SessionTypeOK
<1>3. ASSUME NEW s \in DevSessions, StartSession(s) PROVE WatchTypes'
  <2>1. dev' \in [DevSessions -> SessionRow]
    BY <1>3 DEF StartSession, WatchTypes, SessionTypeOK, SessionRow
  <2> QED
    BY <1>3, <2>1, CountTypes DEF StartSession, ledger, WatchTypes, SessionTypeOK
<1>4. ASSUME NEW s \in DevSessions, ReadSession(s) PROVE WatchTypes'
  <2>1. PICK asked \in {"heartbeat", "active", "ended"} :
          patching' = [patching EXCEPT ![s] =
            [asked |-> asked, status |-> dev[s].status, headAfter |-> dev[s].headAfter]]
    BY <1>4 DEF ReadSession
  <2>2. dev[s] \in SessionRow
    BY DEF WatchTypes, SessionTypeOK
  <2>3. [asked |-> asked, status |-> dev[s].status, headAfter |-> dev[s].headAfter] \in PatchRead
    BY <2>1, <2>2 DEF SessionRow, PatchRead
  <2>4. patching' \in [DevSessions -> PatchRead \cup {NoPatch}]
    BY <2>1, <2>3 DEF WatchTypes
  <2> QED
    BY <1>4, <2>4, CountTypes DEF ReadSession, ledger, WatchTypes, SessionTypeOK
<1>5. ASSUME NEW s \in DevSessions, WriteSession(s) PROVE WatchTypes'
  <2>1. patching[s] \in PatchRead
    BY <1>5 DEF WriteSession, WatchTypes
  <2>2. NewStatus(patching[s]) \in {"unborn", "active", "ended", "abandoned"}
        /\ patching[s].headAfter \in Commits \cup {None}
    BY <2>1 DEF NewStatus, PatchRead
  <2>6. dev' \in [DevSessions -> SessionRow]
    BY <1>5, <2>2, RowTypes DEF WriteSession, WatchTypes, SessionTypeOK
  <2>3. patching' \in [DevSessions -> PatchRead \cup {NoPatch}]
    BY <1>5 DEF WriteSession, WatchTypes
  <2> QED
    BY <1>5, <2>3, <2>6 DEF WriteSession, ledger, counted, WatchTypes, SessionTypeOK
<1>6. CASE AbandonStale
  <2>1. dev' \in [DevSessions -> SessionRow]
    <3>1. PICK stale \in SUBSET ActiveSessions :
            dev' = [s \in DevSessions |-> IF s \in stale THEN [dev[s] EXCEPT !.status = "abandoned"] ELSE dev[s]]
      BY <1>6 DEF AbandonStale
    <3>2. \A s \in DevSessions : dev[s] \in SessionRow /\ [dev[s] EXCEPT !.status = "abandoned"] \in SessionRow
      BY DEF WatchTypes, SessionTypeOK, SessionRow
    <3> QED
      BY <3>1, <3>2
  <2> QED
    BY <1>6, <2>1, CountTypes DEF AbandonStale, ledger, WatchTypes, SessionTypeOK
<1>7. CASE PruneActivity
  <2>1. activity' \in Seq(EventOf)
    BY <1>7 DEF PruneActivity, WatchTypes
  <2>2. \A i \in DOMAIN activity' : activity'[i] \in EventOf
    BY <2>1
  <2> QED
    BY <1>7, <2>1, <2>2, CountTypes DEF PruneActivity, rows, ledger, WatchTypes, SessionTypeOK
<1> QED
  BY <1>2, <1>3, <1>4, <1>5, <1>6, <1>7

(***************************************************************************)
(* What was seen was told                                                  *)
(***************************************************************************)

LEMMA InitTold == SessionInit => ToldInv
  BY DEF SessionInit, Quiet, ToldInv, SeenWasTold, EventsTold, PreviousTold, NowTold

\* What is accounted for stays so, and the events are those there were, but
\* for the one appended.
LEMMA StillTold ==
  ASSUME WatchTypes, EventsTold, Accounted \subseteq Accounted',
         \/ activity' = activity
         \/ \E event \in EventOf :
              /\ activity' = Append(activity, event)
              /\ event.kind = "commit" => 1..event.head \subseteq Accounted'
  PROVE  EventsTold'
<1>1. CASE activity' = activity
  BY <1>1 DEF EventsTold
<1>2. ASSUME NEW event \in EventOf, activity' = Append(activity, event),
             event.kind = "commit" => 1..event.head \subseteq Accounted'
      PROVE  EventsTold'
  <2>1. \A i \in DOMAIN activity' : \/ i \in DOMAIN activity /\ activity'[i] = activity[i]
                                    \/ activity'[i] = event
    BY <1>2, AppendProperties DEF WatchTypes
  <2> QED
    BY <1>2, <2>1 DEF EventsTold
<1> QED
  BY <1>1, <1>2

\* The newest commit event there is to go by was told; without one, 1..0.
LEMMA RecalledTold ==
  ASSUME WatchTypes, EventsTold
  PROVE  1..LastRecorded.head \subseteq
           Accounted \cup (IF Recent = {} THEN 1..watch.now.head ELSE {})
<1>1. CASE Recent = {}
  BY <1>1 DEF LastRecorded
<1>2. CASE Recent # {} /\ LastOf("commit") = {}
  BY <1>2 DEF LastRecorded, None
<1>3. CASE Recent # {} /\ LastOf("commit") # {}
  <2>1. PICK i \in LastOf("commit") : LastRecorded.head = activity[i].head
    BY <1>3 DEF LastRecorded
  <2>2. i \in DOMAIN activity /\ activity[i].kind = "commit"
    BY <2>1 DEF LastOf, Recent
  <2> QED
    BY <2>1, <2>2 DEF EventsTold
<1> QED
  BY <1>1, <1>2, <1>3

\* What a moved head brings: listed after the commit seen before, or no longer
\* listed, or there already.
LEMMA MovedTold ==
  ASSUME WatchTypes, PreviousTold, watch.pc = "compare"
  PROVE  1..watch.now.head \subseteq Accounted \cup NewCommits \cup Overflow
<1> SUFFICES ASSUME NEW c \in 1..watch.now.head, c \notin 1..watch.previous.head
             PROVE  c \in NewCommits \cup Overflow
  BY DEF PreviousTold
<1>1. watch.now.head \in Nat /\ watch.previous.head \in Nat /\ c \in Nat
  BY WatchNumbers DEF Commits, None
<1>2. c > watch.previous.head
  BY <1>1
<1> QED
  BY <1>2 DEF NewCommits, Overflow

LEMMA CompareTold ==
  ASSUME WatchTypes, ToldInv, NoCommit \/ TellCommits \/ TellingFails
  PROVE  ToldInv'
<1>1. watch.pc = "compare" /\ seen' = seen /\ watch'.now = watch.now
      /\ watch'.previous = watch.previous /\ watch'.pc \in {"record", "branch"}
  BY DEF NoCommit, TellCommits, TellingFails, AfterCommits, WatchTypes, SessionTypeOK
<1>2. Accounted \subseteq Accounted'
  BY DEF NoCommit, TellCommits, TellingFails, Accounted
<1>3. 1..watch.now.head \subseteq Accounted'
  <2>1. CASE NoCommit
    <3>1. CASE watch.previous.head = None
      BY <2>1, <3>1 DEF NoCommit, Accounted
    <3>2. CASE watch.previous.head = watch.now.head
      BY <1>1, <1>2, <3>2 DEF ToldInv, PreviousTold
    <3> QED
      BY <2>1, <3>1, <3>2 DEF NoCommit, Moved
  <2>2. CASE TellCommits \/ TellingFails
    BY <1>1, <2>2, MovedTold DEF ToldInv, TellCommits, TellingFails, Accounted
  <2> QED
    BY <2>1, <2>2
<1>4. EventsTold'
  <2>1. [kind |-> "commit", head |-> watch.now.head, branch |-> watch.now.branch] \in EventOf
    BY WatchNumbers DEF Scan, EventOf
  <2> QED
    BY <1>2, <1>3, <2>1, StillTold DEF ToldInv, NoCommit, TellCommits, TellingFails
<1> QED
  BY <1>1, <1>2, <1>3, <1>4 DEF ToldInv, SeenWasTold, PreviousTold, NowTold, Accounted

LEMMA EndTold ==
  ASSUME WatchTypes, ToldInv, EndTick
  PROVE  ToldInv'
<1>1. watch.pc = "branch" /\ seen' = watch.now /\ watch' = Quiet /\ Accounted' = Accounted
  BY DEF EndTick, ledger, Accounted
<1>2. EventsTold'
  <2>1. [kind |-> "branch", head |-> watch.now.head, branch |-> watch.now.branch] \in EventOf
    BY WatchNumbers DEF Scan, EventOf
  <2> QED
    BY <1>1, <2>1, StillTold DEF ToldInv, EndTick
<1> QED
  BY <1>1, <1>2 DEF ToldInv, SeenWasTold, PreviousTold, NowTold, Accounted, Quiet

LEMMA BeginTold ==
  ASSUME WatchTypes, ToldInv, ListSessions \/ ReadScan \/ Recall
  PROVE  ToldInv'
<1>1. activity' = activity /\ Accounted \subseteq Accounted'
  BY DEF ListSessions, ReadScan, Recall, ledger, Accounted
<1>2. EventsTold'
  BY <1>1, StillTold DEF ToldInv
<1>3. CASE ListSessions
  BY <1>1, <1>2, <1>3 DEF ListSessions, ToldInv, SeenWasTold, PreviousTold, NowTold, Accounted
<1>4. CASE ReadScan
  <2>1. watch'.previous = seen /\ (watch'.pc = "compare" => seen # Unseen)
    <3>1. watch \in Ticks
      BY DEF WatchTypes, SessionTypeOK, Ticks
    <3>2. watch'.previous = seen /\ watch'.pc = IF seen = Unseen THEN "recall" ELSE "compare"
      BY <1>4, <3>1 DEF ReadScan, Ticks
    <3> QED
      BY <3>2
  <2> QED
    BY <1>1, <1>2, <1>4, <2>1 DEF ReadScan, ToldInv, SeenWasTold, PreviousTold, NowTold, Accounted
<1>5. CASE Recall
  <2>1. seen' = LastRecorded /\ watch'.previous = LastRecorded /\ watch'.pc = "compare"
    BY <1>5 DEF Recall, WatchTypes, SessionTypeOK
  <2>2. 1..LastRecorded.head \subseteq Accounted'
    BY <1>5, RecalledTold DEF Recall, Accounted, ToldInv
  <2> QED
    BY <1>2, <2>1, <2>2 DEF ToldInv, SeenWasTold, PreviousTold, NowTold, Accounted
<1> QED
  BY <1>3, <1>4, <1>5

LEMMA OthersTold ==
  ASSUME WatchTypes, ToldInv,
         \/ TickFails \/ RestartWatch \/ HostScans \/ AbandonStale \/ PruneActivity
         \/ \E s \in DevSessions : \/ RecordCommits(s) \/ StartSession(s)
                                   \/ ReadSession(s) \/ WriteSession(s)
  PROVE  ToldInv'
<1>1. Accounted' = Accounted /\ (seen' = seen \/ seen' = Unseen)
  BY DEF RecordCommits, TickFails, RestartWatch, HostScans, StartSession, ReadSession, WriteSession,
         AbandonStale, PruneActivity, ledger, Accounted
<1>2. \/ watch' = watch \/ watch' = Quiet
      \/ watch'.now = watch.now /\ watch'.previous = watch.previous /\ watch.pc = "record"
  BY DEF RecordCommits, TickFails, RestartWatch, HostScans, StartSession, ReadSession, WriteSession,
         AbandonStale, PruneActivity, WatchTypes, SessionTypeOK
<1>3. EventsTold'
  <2>1. CASE activity' = activity
    BY <1>1, <2>1, StillTold DEF ToldInv
  <2>2. CASE PruneActivity
    <3>1. activity # <<>> /\ activity' = Tail(activity) /\ activity \in Seq(EventOf)
      BY <2>2 DEF PruneActivity, WatchTypes
    <3>2. \A i \in DOMAIN activity' : i + 1 \in DOMAIN activity /\ activity'[i] = activity[i + 1]
      BY <3>1
    <3> QED
      BY <1>1, <3>2 DEF ToldInv, EventsTold
  <2> QED
    BY <2>1, <2>2 DEF RecordCommits, TickFails, RestartWatch, HostScans, StartSession, ReadSession,
       WriteSession, AbandonStale
<1> QED
  BY <1>1, <1>2, <1>3 DEF ToldInv, SeenWasTold, PreviousTold, NowTold, Accounted, Quiet

LEMMA SessionStep ==
  WatchTypes /\ ToldInv /\ [SessionNext]_sessionVars => WatchTypes' /\ ToldInv'
<1> SUFFICES ASSUME WatchTypes, ToldInv, [SessionNext]_sessionVars PROVE WatchTypes' /\ ToldInv'
  OBVIOUS
<1>1. CASE ListSessions \/ ReadScan \/ Recall
  BY <1>1, TickTypes, BeginTold
<1>2. CASE NoCommit \/ TellCommits \/ TellingFails
  BY <1>2, TickTypes, CompareTold
<1>3. CASE (\E s \in DevSessions : RecordCommits(s)) \/ TickFails \/ RestartWatch
  BY <1>3, EndTypes, OthersTold
<1>4. CASE EndTick
  BY <1>4, EndTypes, EndTold
<1>5. CASE \/ HostScans \/ AbandonStale \/ PruneActivity
           \/ \E s \in DevSessions : StartSession(s) \/ ReadSession(s) \/ WriteSession(s)
  BY <1>5, PeopleTypes, OthersTold
<1>6. CASE UNCHANGED sessionVars
  BY <1>6 DEF sessionVars, WatchTypes, SessionTypeOK, ToldInv, SeenWasTold, EventsTold, PreviousTold,
     NowTold, Accounted
<1> QED
  BY <1>1, <1>2, <1>3, <1>4, <1>5, <1>6 DEF SessionNext, TickStep

LEMMA WatchInvariant == SessionSpec => [](WatchTypes /\ ToldInv)
  BY InitTypes, InitTold, SessionStep, PTL DEF SessionSpec

\* Every state of the watcher and of the sessions is well typed:
\* createSessionTracker and the sessions' routes.
THEOREM SessionsTypeCorrect == SessionSpec => []SessionTypeOK
<1>1. WatchTypes => SessionTypeOK
  BY DEF WatchTypes
<1> QED
  BY <1>1, WatchInvariant, PTL

\* The watcher's tick tells every commit up to the head it saw, through failed
\* ticks, restarts and pruned events, but for the exceptions the code makes.
THEOREM SeenIsTold == SessionSpec => []SeenWasTold
<1>1. ToldInv => SeenWasTold
  BY DEF ToldInv
<1> QED
  BY <1>1, WatchInvariant, PTL

(***************************************************************************)
(* What the sessions have.                                                 *)
(*                                                                         *)
(* Whatever becomes of it, a session lacks no commit up to the one the     *)
(* watcher saw but those it is excused from: a tick that lists it writes   *)
(* to it before the tick ends, and one that does not excuses it.  Between  *)
(* a restart and the first sight after it the events stand for what was    *)
(* seen.                                                                   *)
(***************************************************************************)

Held(s) == dev[s].commits \cup missed[s]

AllHold(n) == \A s \in DevSessions : 1..n \subseteq Held(s)

SeenHeld   == seen # Unseen => AllHold(seen.head)
EventsHeld == seen = Unseen =>
                \A i \in DOMAIN activity : activity[i].kind = "commit" => AllHold(activity[i].head)

\* The tick compares with what was seen, and knows what its sessions have.
ComparesSeen == /\ watch.pc = "recall" => seen = Unseen
                /\ watch.pc \in {"compare", "record", "branch"} =>
                     seen # Unseen /\ watch.previous = seen
KnowsRows    == \A s \in watch.listed : watch.known[s] = dev[s].commits

\* Who was not listed is excused; who is still to be written to lacks only what
\* is written now.
OthersExcused == watch.pc \in {"recall", "compare", "record"} =>
                   \A s \in DevSessions \ watch.listed : 1..watch.now.head \subseteq Held(s)
RestComes     == watch.pc = "record" =>
                   \A s \in watch.listed : 1..watch.now.head \subseteq Held(s) \cup NewCommits
NowHeld       == watch.pc = "branch" => AllHold(watch.now.head)

HeldInv ==
  /\ SeenHeld /\ EventsHeld /\ ComparesSeen /\ KnowsRows
  /\ OthersExcused /\ RestComes /\ NowHeld

\* Steps of others: no session loses a commit, and the tick goes on or is over.
LEMMA QuietHeld ==
  ASSUME HeldInv, seen' = seen, watch' = watch \/ watch' = Quiet,
         \A s \in DevSessions : dev'[s].commits = dev[s].commits, missed' = missed,
         \A i \in DOMAIN activity' : \E j \in DOMAIN activity : activity'[i] = activity[j],
         WatchTypes
  PROVE  HeldInv'
<1>1. \A s \in DevSessions : Held(s)' = Held(s)
  BY DEF Held
<1>2. SeenHeld' /\ EventsHeld'
  BY <1>1 DEF HeldInv, SeenHeld, EventsHeld, AllHold
<1>3. CASE watch' = watch
  <2>1. KnowsRows'
    BY <1>3, WatchNumbers DEF HeldInv, KnowsRows
  <2>2. NewCommits' = NewCommits
    BY <1>3 DEF NewCommits, Listed
  <2> QED
    BY <1>1, <1>2, <1>3, <2>1, <2>2, WatchNumbers
       DEF HeldInv, ComparesSeen, OthersExcused, RestComes, NowHeld, AllHold
<1>4. CASE watch' = Quiet
  BY <1>2, <1>4 DEF HeldInv, ComparesSeen, KnowsRows, OthersExcused, RestComes, NowHeld, Quiet
<1> QED
  BY <1>3, <1>4

\* A step of the tick before its sessions are written: they are only excused.
LEMMA BeginHeld ==
  ASSUME WatchTypes, HeldInv, ListSessions \/ ReadScan \/ Recall
  PROVE  HeldInv'
<1>1. activity' = activity /\ dev' = dev /\ watch \in Ticks
  BY DEF ListSessions, ReadScan, Recall, rows, WatchTypes, SessionTypeOK, Ticks
<1>2. CASE ListSessions
  <2>1. seen' = seen /\ missed' = missed /\ watch'.pc = "scan"
        /\ watch'.known = [s \in DevSessions |-> dev[s].commits]
        /\ watch'.listed = ActiveSessions
    BY <1>2 DEF ListSessions, ledger, Quiet
  <2> QED
    BY <1>1, <2>1 DEF HeldInv, SeenHeld, EventsHeld, AllHold, Held, ComparesSeen, KnowsRows,
       OthersExcused, RestComes, NowHeld, ActiveSessions
<1>3. CASE ReadScan
  <2>1. /\ seen' = seen /\ watch'.now = scan /\ watch'.previous = seen
        /\ watch'.listed = watch.listed /\ watch'.known = watch.known
        /\ watch'.pc = IF seen = Unseen THEN "recall" ELSE "compare"
    BY <1>1, <1>3 DEF ReadScan, Ticks
  <2>2. \A s \in DevSessions : Held(s) \subseteq Held(s)'
    BY <1>1, <1>3 DEF ReadScan, Missing, Held
  <2>3. \A s \in DevSessions \ watch.listed : 1..scan.head \subseteq Held(s)'
    BY <1>3 DEF ReadScan, Missing, Held
  <2> QED
    BY <1>1, <2>1, <2>2, <2>3, WatchNumbers
       DEF HeldInv, SeenHeld, EventsHeld, AllHold, ComparesSeen, KnowsRows, OthersExcused,
           RestComes, NowHeld
<1>4. CASE Recall
  <2>1. /\ seen' = LastRecorded /\ watch'.now = watch.now /\ watch'.previous = seen'
        /\ watch'.listed = watch.listed /\ watch'.known = watch.known
        /\ watch'.pc = "compare" /\ watch.pc = "recall"
    BY <1>1, <1>4 DEF Recall, Ticks
  <2>2. \A s \in DevSessions : Held(s) \subseteq Held(s)'
    BY <1>1, <1>4 DEF Recall, Missing, Held
  <2>3. LastRecorded # Unseen
    BY LastRecordedIsSight DEF Sight, Unseen, Branches
  <2>4. ASSUME NEW s \in DevSessions PROVE 1..LastRecorded.head \subseteq Held(s)'
    <3>1. CASE Recent = {}
      <4>1. 1..watch.now.head \subseteq missed'[s]
        BY <1>4, <3>1 DEF Recall, Missing
      <4> QED
        BY <3>1, <4>1 DEF LastRecorded, Held
    <3>2. CASE Recent # {} /\ LastOf("commit") = {}
      BY <3>2 DEF LastRecorded, None
    <3>3. CASE Recent # {} /\ LastOf("commit") # {}
      <4>1. PICK i \in LastOf("commit") : LastRecorded.head = activity[i].head
        BY <3>3 DEF LastRecorded
      <4>2. i \in DOMAIN activity /\ activity[i].kind = "commit"
        BY <4>1 DEF LastOf, Recent
      <4>3. 1..LastRecorded.head \subseteq Held(s)
        BY <2>1, <4>1, <4>2 DEF HeldInv, ComparesSeen, EventsHeld, AllHold
      <4> QED
        BY <2>2, <4>3
    <3> QED
      BY <3>1, <3>2, <3>3
  <2>5. SeenHeld' /\ EventsHeld'
    BY <2>1, <2>3, <2>4 DEF SeenHeld, EventsHeld, AllHold
  <2>6. OthersExcused'
    BY <2>1, <2>2 DEF HeldInv, OthersExcused
  <2> QED
    BY <1>1, <2>1, <2>3, <2>5, <2>6, WatchNumbers
       DEF HeldInv, ComparesSeen, KnowsRows, RestComes, NowHeld
<1> QED
  BY <1>2, <1>3, <1>4

LEMMA CompareHeld ==
  ASSUME WatchTypes, HeldInv, NoCommit \/ TellCommits \/ TellingFails
  PROVE  HeldInv'
<1>1. /\ watch.pc = "compare" /\ seen' = seen /\ dev' = dev /\ watch \in Ticks
      /\ seen # Unseen /\ watch.previous = seen
  BY DEF NoCommit, TellCommits, TellingFails, rows, WatchTypes, SessionTypeOK, Ticks,
         HeldInv, ComparesSeen
<1>2. /\ watch'.now = watch.now /\ watch'.previous = watch.previous
      /\ watch'.listed = watch.listed /\ watch'.known = watch.known
      /\ watch'.pc = IF NoCommit THEN "branch" ELSE AfterCommits
  BY <1>1 DEF NoCommit, TellCommits, TellingFails, AfterCommits, Ticks
<1>3. \A s \in DevSessions : Held(s) \subseteq Held(s)'
  BY <1>1 DEF NoCommit, TellCommits, TellingFails, Missing, Held
<1>4. SeenHeld' /\ EventsHeld' /\ ComparesSeen' /\ KnowsRows'
  BY <1>1, <1>2, <1>3, WatchNumbers
     DEF HeldInv, SeenHeld, EventsHeld, ComparesSeen, KnowsRows, AllHold, AfterCommits
<1>5. CASE NoCommit
  <2>1. CASE watch.previous.head = None
    <3>1. \A s \in DevSessions : 1..watch.now.head \subseteq Held(s)'
      BY <1>5, <2>1 DEF NoCommit, Missing, Held
    <3> QED
      BY <1>2, <1>4, <1>5, <3>1 DEF HeldInv, OthersExcused, RestComes, NowHeld, AllHold
  <2>2. CASE watch.previous.head = watch.now.head
    <3>1. \A s \in DevSessions : 1..watch.now.head \subseteq Held(s)
      BY <1>1, <2>2 DEF HeldInv, SeenHeld, AllHold
    <3> QED
      BY <1>2, <1>3, <1>4, <1>5, <3>1 DEF HeldInv, OthersExcused, RestComes, NowHeld, AllHold
  <2> QED
    BY <1>5, <2>1, <2>2 DEF NoCommit, Moved
<1>6. CASE TellCommits \/ TellingFails
  <2>1. ASSUME NEW s \in DevSessions
        PROVE  1..watch.now.head \subseteq Held(s)' \cup NewCommits
    <3>1. Overflow \subseteq Held(s)'
      BY <1>6 DEF TellCommits, TellingFails, Missing, Held
    <3>2. 1..watch.previous.head \subseteq Held(s)'
      BY <1>1, <1>3 DEF HeldInv, SeenHeld, AllHold
    <3>3. ASSUME NEW c \in 1..watch.now.head, c \notin 1..watch.previous.head
          PROVE  c \in NewCommits \cup Overflow
      <4>1. watch.now.head \in Nat /\ watch.previous.head \in Nat /\ c \in Nat
        BY WatchNumbers DEF Commits, None
      <4>2. c > watch.previous.head
        BY <3>3, <4>1
      <4> QED
        BY <4>2 DEF NewCommits, Overflow
    <3> QED
      BY <3>1, <3>2, <3>3
  <2>2. \A s \in DevSessions \ watch.listed : 1..watch.now.head \subseteq Held(s)'
    BY <1>1, <1>3 DEF HeldInv, OthersExcused
  <2>3. NewCommits' = NewCommits
    BY <1>2 DEF NewCommits, Listed
  <2>4. watch'.pc = AfterCommits
    BY <1>2, <1>6 DEF NoCommit, TellCommits, TellingFails
  <2>5. OthersExcused' /\ NowHeld'
    BY <1>2, <2>2, <2>4 DEF OthersExcused, NowHeld, AllHold, AfterCommits
  <2>6. RestComes'
    BY <1>2, <2>1, <2>3, WatchNumbers DEF RestComes
  <2> QED
    BY <1>4, <2>5, <2>6 DEF HeldInv
<1> QED
  BY <1>5, <1>6

\* A session is written to: what it had, and what is new.
LEMMA RecordHeld ==
  ASSUME WatchTypes, HeldInv, NEW s \in DevSessions, RecordCommits(s)
  PROVE  HeldInv'
<1>1. /\ watch.pc = "record" /\ s \in watch.listed /\ seen' = seen /\ activity' = activity
      /\ missed' = missed /\ watch \in Ticks /\ dev \in [DevSessions -> SessionRow]
  BY DEF RecordCommits, ledger, WatchTypes, SessionTypeOK, Ticks
<1>2. /\ watch'.now = watch.now /\ watch'.previous = watch.previous
      /\ watch'.listed = watch.listed \ {s} /\ watch'.known = watch.known
      /\ watch'.pc = IF watch.listed = {s} THEN "branch" ELSE "record"
  BY <1>1 DEF RecordCommits, Ticks
<1>3. /\ dev'[s].commits = dev[s].commits \cup NewCommits
      /\ \A q \in DevSessions \ {s} : dev'[q] = dev[q]
  <2>1. watch.known[s] = dev[s].commits
    BY <1>1 DEF HeldInv, KnowsRows
  <2> QED
    BY <1>1, <2>1 DEF RecordCommits, SessionRow
<1>4. Held(s)' = Held(s) \cup NewCommits /\ \A q \in DevSessions \ {s} : Held(q)' = Held(q)
  BY <1>1, <1>3 DEF Held
<1>5. \A q \in DevSessions : Held(q) \subseteq Held(q)'
  BY <1>4
<1>6. SeenHeld' /\ EventsHeld' /\ ComparesSeen'
  BY <1>1, <1>2, <1>5 DEF HeldInv, SeenHeld, EventsHeld, ComparesSeen, AllHold
<1>7. KnowsRows'
  BY <1>2, <1>3, WatchNumbers DEF HeldInv, KnowsRows
<1>8. 1..watch.now.head \subseteq Held(s)'
  BY <1>1, <1>4 DEF HeldInv, RestComes
<1>9. \A q \in DevSessions \ (watch.listed \ {s}) : 1..watch.now.head \subseteq Held(q)'
  BY <1>1, <1>5, <1>8 DEF HeldInv, OthersExcused
<1>10. NewCommits' = NewCommits
  BY <1>2 DEF NewCommits, Listed
<1>11. OthersExcused' /\ NowHeld'
  BY <1>2, <1>9 DEF OthersExcused, NowHeld, AllHold
<1>12. RestComes'
  BY <1>1, <1>2, <1>5, <1>10, WatchNumbers DEF HeldInv, RestComes
<1> QED
  BY <1>6, <1>7, <1>11, <1>12 DEF HeldInv

LEMMA EndHeld ==
  ASSUME WatchTypes, HeldInv, EndTick
  PROVE  HeldInv'
<1>1. watch.pc = "branch" /\ seen' = watch.now /\ watch' = Quiet /\ dev' = dev /\ missed' = missed
  BY DEF EndTick, rows, ledger
<1>2. watch.now # Unseen
  BY WatchNumbers DEF Scan, Unseen, Branches
<1>3. \A s \in DevSessions : Held(s)' = Held(s)
  BY <1>1 DEF Held
<1> QED
  BY <1>1, <1>2, <1>3
     DEF HeldInv, SeenHeld, EventsHeld, ComparesSeen, KnowsRows, OthersExcused, RestComes, NowHeld,
         AllHold, Quiet

\* A restart excuses all from the events that no tick completed.
LEMMA RestartHeld ==
  ASSUME WatchTypes, HeldInv, RestartWatch
  PROVE  HeldInv'
<1>1. seen # Unseen /\ seen' = Unseen /\ watch' = Quiet /\ activity' = activity /\ dev' = dev
  BY DEF RestartWatch
<1>2. \A s \in DevSessions : Held(s) \subseteq Held(s)'
  BY <1>1 DEF RestartWatch, Missing, Held
<1>3. ASSUME NEW i \in DOMAIN activity, activity[i].kind = "commit", NEW s \in DevSessions
      PROVE  1..activity[i].head \subseteq Held(s)'
  <2>1. CASE activity[i].head = seen.head
    BY <1>1, <1>2, <2>1 DEF HeldInv, SeenHeld, AllHold
  <2>2. CASE activity[i].head # seen.head
    BY <1>3, <2>2 DEF RestartWatch, Missing, Held
  <2> QED
    BY <2>1, <2>2
<1> QED
  BY <1>1, <1>3
     DEF HeldInv, SeenHeld, EventsHeld, ComparesSeen, KnowsRows, OthersExcused, RestComes, NowHeld,
         AllHold, Quiet

LEMMA PeopleHeld ==
  ASSUME WatchTypes, HeldInv,
         \/ TickFails \/ HostScans \/ AbandonStale \/ PruneActivity
         \/ \E s \in DevSessions : StartSession(s) \/ ReadSession(s) \/ WriteSession(s)
         \/ UNCHANGED sessionVars
  PROVE  HeldInv'
<1>1. seen' = seen /\ (watch' = watch \/ watch' = Quiet) /\ missed' = missed
  BY DEF TickFails, HostScans, AbandonStale, PruneActivity, StartSession, ReadSession, WriteSession,
         rows, ledger, sessionVars
<1>2. \A s \in DevSessions : dev'[s].commits = dev[s].commits
  <2>1. dev \in [DevSessions -> SessionRow]
    BY DEF WatchTypes, SessionTypeOK
  <2>2. CASE dev' = dev
    BY <2>2
  <2>3. ASSUME NEW s \in DevSessions, StartSession(s) \/ WriteSession(s)
        PROVE  \A q \in DevSessions : dev'[q].commits = dev[q].commits
    BY <2>1, <2>3 DEF StartSession, WriteSession, SessionRow
  <2>4. CASE AbandonStale
    BY <2>1, <2>4 DEF AbandonStale, SessionRow
  <2> QED
    BY <2>2, <2>3, <2>4 DEF TickFails, HostScans, PruneActivity, ReadSession, rows, sessionVars
<1>3. \A i \in DOMAIN activity' : \E j \in DOMAIN activity : activity'[i] = activity[j]
  <2>1. CASE activity' = activity
    BY <2>1
  <2>2. CASE PruneActivity
    <3>1. activity # <<>> /\ activity' = Tail(activity) /\ activity \in Seq(EventOf)
      BY <2>2 DEF PruneActivity, WatchTypes
    <3>2. \A i \in DOMAIN activity' : i + 1 \in DOMAIN activity /\ activity'[i] = activity[i + 1]
      BY <3>1
    <3> QED
      BY <3>2
  <2> QED
    BY <2>1, <2>2 DEF TickFails, HostScans, StartSession, ReadSession, WriteSession, AbandonStale,
       sessionVars
<1> QED
  BY <1>1, <1>2, <1>3, QuietHeld

LEMMA HeldNext == WatchTypes /\ HeldInv /\ [SessionNext]_sessionVars => HeldInv'
  BY BeginHeld, CompareHeld, RecordHeld, EndHeld, RestartHeld, PeopleHeld
     DEF SessionNext, TickStep

\* The watcher writes to every active session what it saw, through ticks that
\* fail half-way: recordCommits, repeated by the next tick.
THEOREM ActiveHaveThem == SessionSpec => []ActiveSessionHasThem
<1>1. SessionInit => HeldInv
  BY DEF SessionInit, Quiet, HeldInv, SeenHeld, EventsHeld, ComparesSeen, KnowsRows, OthersExcused,
         RestComes, NowHeld
<1>2. HeldInv => ActiveSessionHasThem
  BY DEF HeldInv, SeenHeld, AllHold, Held, ActiveSessionHasThem, ActiveSessions
<1> QED
  BY <1>1, <1>2, WatchInvariant, HeldNext, PTL DEF SessionSpec

(***************************************************************************)
(* Live: what a forced read waits for                                      *)
(***************************************************************************)

\* The build a forced read waits for is under way, and lists the containers
\* after the question, or fails to: it was begun for it.
AskedFirst ==
  forced.build # NoBuild =>
    /\ builds[forced.build].pc # "free"
    /\ builds[forced.build].pc = "listed" => builds[forced.build].of \notin 0..(forced.asked - 1)

LiveInv == LiveTypeOK /\ forced.asked <= docker /\ AskedFirst /\ ForcedReadIsFresh

LEMMA LiveInitHolds == LiveInit => LiveInv
<1> SUFFICES ASSUME LiveInit PROVE LiveInv
  OBVIOUS
<1>1. 0 \in Snapshot /\ 0 \in 0..MaxBreaks
  BY LiveConstants DEF Snapshot
<1>2. builds \in [Builds -> Building]
  BY DEF LiveInit, Building
<1>3. browser \in [Browsers -> Window]
  BY DEF LiveInit, Window
<1>4. forced \in Forced
  BY <1>1 DEF LiveInit, Forced
<1>5. forced.asked <= docker /\ AskedFirst /\ ForcedReadIsFresh
  BY DEF LiveInit, AskedFirst, ForcedReadIsFresh
<1>6. /\ docker \in Snapshot /\ heard \in 0..docker /\ breaks \in 0..MaxBreaks
      /\ cached \in HandedOut \cup {NoSnapshot} /\ pending \in Builds \cup {NoBuild}
  BY <1>1 DEF LiveInit
<1>7. stream \in BOOLEAN /\ lost \in BOOLEAN /\ overtaken \in BOOLEAN /\ refused \in BOOLEAN
  BY DEF LiveInit
<1> QED
  BY <1>2, <1>3, <1>4, <1>5, <1>6, <1>7 DEF LiveInv, LiveTypeOK

\* A build taken for a new read was free.
LEMMA NextIsFree ==
  ASSUME FreeBuilds # {}
  PROVE  NextBuild \in Builds /\ builds[NextBuild].pc = "free"
  BY DEF NextBuild, FreeBuilds

LEMMA DockerChangesInv == LiveInv /\ DockerChanges => LiveInv'
  BY LiveConstants DEF LiveInv, LiveTypeOK, AskedFirst, ForcedReadIsFresh, DockerChanges, cache,
     readers, Snapshot, Forced, Window, Building, HandedOut

\* What the hub does touches neither the builds nor the forced read.
LEMMA TellingInv ==
  ASSUME LiveInv,
         browser' \in [Browsers -> Window],
         docker' = docker, forced' = forced, builds' = builds, pending' = pending,
         cached' \in {cached, NoSnapshot},
         heard' \in 0..docker, stream' \in BOOLEAN, lost' \in BOOLEAN, overtaken' \in BOOLEAN,
         refused' \in BOOLEAN, breaks' \in 0..MaxBreaks
  PROVE  LiveInv'
  BY DEF LiveInv, LiveTypeOK, AskedFirst, ForcedReadIsFresh

LEMMA HearInv == LiveInv /\ Hear => LiveInv'
<1> SUFFICES ASSUME LiveInv, Hear PROVE LiveInv'
  OBVIOUS
<1>1. browser' \in [Browsers -> Window]
  BY DEF Hear, Told, LiveInv, LiveTypeOK, Window
<1>2. heard' \in 0..docker
  BY DEF Hear, LiveInv, LiveTypeOK, Snapshot
<1>3. lost' \in BOOLEAN /\ overtaken' \in BOOLEAN /\ refused' \in BOOLEAN
  BY DEF Hear
<1>4. stream' \in BOOLEAN /\ breaks' \in 0..MaxBreaks
  BY DEF Hear, LiveInv, LiveTypeOK
<1> QED
  BY <1>1, <1>2, <1>3, <1>4, TellingInv DEF Hear

LEMMA StreamInv == LiveInv /\ (StreamBreaks \/ StreamReturns) => LiveInv'
<1> SUFFICES ASSUME LiveInv, StreamBreaks \/ StreamReturns PROVE LiveInv'
  OBVIOUS
<1>1. heard' \in 0..docker
  BY DEF StreamBreaks, StreamReturns, LiveInv, LiveTypeOK, Snapshot
<1>2. /\ stream' \in BOOLEAN /\ lost' \in BOOLEAN
      /\ overtaken' \in BOOLEAN /\ refused' \in BOOLEAN
  BY DEF StreamBreaks, StreamReturns, blame, LiveInv, LiveTypeOK
<1>3. breaks' \in 0..MaxBreaks
  BY LiveConstants DEF StreamBreaks, StreamReturns, Break, LiveInv, LiveTypeOK
<1>4. browser' \in [Browsers -> Window]
  BY DEF StreamBreaks, StreamReturns, readers, LiveInv, LiveTypeOK
<1> QED
  BY <1>1, <1>2, <1>3, <1>4, TellingInv DEF StreamBreaks, StreamReturns, cache, readers

LEMMA BrowserInv ==
  ASSUME NEW w \in Browsers, LiveInv, BrowserBreaks(w) \/ BrowserReturns(w)
  PROVE  LiveInv'
<1>1. browser' \in [Browsers -> Window]
  <2>1. browser \in [Browsers -> Window]
    BY DEF LiveInv, LiveTypeOK
  <2>2. CASE BrowserBreaks(w)
    BY <2>1, <2>2 DEF BrowserBreaks, Window
  <2>3. CASE BrowserReturns(w)
    BY <2>1, <2>3 DEF BrowserReturns, Window
  <2> QED
    BY <2>2, <2>3
<1>2. breaks' \in 0..MaxBreaks
  BY LiveConstants DEF BrowserBreaks, BrowserReturns, Break, LiveInv, LiveTypeOK
<1> QED
  BY <1>1, <1>2, TellingInv DEF BrowserBreaks, BrowserReturns, cache, blame, LiveInv, LiveTypeOK

LEMMA ExpireInv == LiveInv /\ Expire => LiveInv'
  BY TellingInv DEF Expire, readers, blame, LiveInv, LiveTypeOK

LEMMA ListContainersInv ==
  ASSUME NEW b \in Builds, LiveInv, ListContainers(b)
  PROVE  LiveInv'
<1>1. builds' \in [Builds -> Building]
  BY DEF ListContainers, LiveInv, LiveTypeOK, Building, HandedOut
<1>2. AskedFirst'
  BY DEF ListContainers, readers, AskedFirst, LiveInv, LiveTypeOK, Building, Forced, Snapshot
<1> QED
  BY <1>1, <1>2 DEF ListContainers, readers, blame, LiveInv, LiveTypeOK, ForcedReadIsFresh

LEMMA ListingFailsInv ==
  ASSUME NEW b \in Builds, LiveInv, ListingFails(b)
  PROVE  LiveInv'
<1>1. builds' \in [Builds -> Building]
  BY DEF ListingFails, LiveInv, LiveTypeOK, Building, HandedOut
<1>2. AskedFirst'
  BY DEF ListingFails, readers, AskedFirst, LiveInv, LiveTypeOK, Building, Forced, Unreachable
<1>3. breaks' \in 0..MaxBreaks
  BY LiveConstants DEF ListingFails, Break, LiveInv, LiveTypeOK
<1> QED
  BY <1>1, <1>2, <1>3 DEF ListingFails, readers, LiveInv, LiveTypeOK, ForcedReadIsFresh

LEMMA FinishBuildInv ==
  ASSUME NEW b \in Builds, LiveInv, FinishBuild(b)
  PROVE  LiveInv'
<1>1. builds[b].of \in HandedOut \cup {NoSnapshot}
  BY DEF LiveInv, LiveTypeOK, Building
<1>2. /\ builds' \in [Builds -> Building]
      /\ browser' \in [Browsers -> Window]
      /\ cached' \in HandedOut \cup {NoSnapshot}
      /\ pending' \in Builds \cup {NoBuild}
  BY <1>1 DEF FinishBuild, LiveInv, LiveTypeOK, Building, Window
<1>3. CASE forced.build = b
  <2>1. forced.build # NoBuild /\ builds[b].pc = "listed"
    BY <1>3, LiveConstants DEF FinishBuild
  <2>2. (builds[b].of \in 0..(forced.asked - 1)) = FALSE
    BY <1>3, <2>1 DEF LiveInv, AskedFirst
  <2>3. forced' = [build |-> NoBuild, asked |-> 0,
                   stale |-> builds[b].of \in 0..(forced.asked - 1)]
    BY <1>3 DEF FinishBuild
  <2>5. forced' = [build |-> NoBuild, asked |-> 0, stale |-> FALSE]
    BY <2>2, <2>3, Zenon
  <2>6. docker \in Snapshot /\ docker' = docker
    BY DEF FinishBuild, LiveInv, LiveTypeOK
  <2>7. 0 \in Snapshot /\ 0 <= docker
    BY <2>6, LiveConstants DEF Snapshot
  <2>8. forced' \in Forced
    BY <2>5, <2>7 DEF Forced
  <2>9. forced'.asked = 0
    BY <2>5
  <2>10. forced'.asked <= docker'
    BY <2>6, <2>7, <2>9
  <2>11. AskedFirst' /\ ForcedReadIsFresh'
    BY <2>5 DEF AskedFirst, ForcedReadIsFresh
  <2> QED
    BY <1>2, <2>6, <2>8, <2>10, <2>11 DEF FinishBuild, blame, LiveInv, LiveTypeOK
<1>4. CASE forced.build # b
  <2>1. forced' = forced /\ AskedFirst'
    BY <1>4 DEF FinishBuild, LiveInv, LiveTypeOK, AskedFirst, Forced
  <2> QED
    BY <1>2, <2>1 DEF FinishBuild, blame, LiveInv, LiveTypeOK, ForcedReadIsFresh
<1> QED
  BY <1>3, <1>4

\* A build begun for a reader is not the one the forced read waits for.
LEMMA StartBuildTypes ==
  ASSUME LiveInv, StartBuild(NextBuild)
  PROVE  /\ NextBuild \in Builds /\ NextBuild # NoBuild /\ NextBuild # forced.build
         /\ builds' \in [Builds -> Building]
         /\ builds'[NextBuild].pc = "listing"
         /\ \A b \in Builds \ {NextBuild} : builds'[b] = builds[b]
         /\ pending' \in Builds
         /\ cached' = cached
<1>1. NextBuild \in Builds /\ builds[NextBuild].pc = "free"
  BY NextIsFree DEF StartBuild
<1>2. NextBuild # NoBuild
  BY <1>1, LiveConstants
<1>3. NextBuild # forced.build
  BY <1>1, <1>2 DEF LiveInv, AskedFirst
<1> QED
  BY <1>1, <1>2, <1>3 DEF StartBuild, LiveInv, LiveTypeOK, Building

LEMMA FetchInv ==
  ASSUME NEW w \in Browsers, LiveInv, Fetch(w)
  PROVE  LiveInv'
<1>1. CASE cached # NoSnapshot
  <2>1. browser' = [browser EXCEPT ![w].dirty = FALSE, ![w].build = NoBuild, ![w].view = cached]
    BY <1>1 DEF Fetch
  <2>2. browser' \in [Browsers -> Window]
    BY <2>1 DEF LiveInv, LiveTypeOK, Window
  <2> QED
    BY <1>1, <2>2, TellingInv DEF Fetch, cache, blame, LiveInv, LiveTypeOK
<1>2. CASE cached = NoSnapshot /\ pending # NoBuild
  <2>1. browser' = [browser EXCEPT ![w].dirty = FALSE, ![w].build = pending]
    BY <1>2 DEF Fetch
  <2>2. browser' \in [Browsers -> Window]
    BY <2>1 DEF LiveInv, LiveTypeOK, Window
  <2> QED
    BY <1>2, <2>2, TellingInv DEF Fetch, cache, blame, LiveInv, LiveTypeOK
<1>3. CASE cached = NoSnapshot /\ pending = NoBuild
  <2>1. StartBuild(NextBuild)
    BY <1>3 DEF Fetch
  <2>2. browser' \in [Browsers -> Window]
    <3>1. browser' = [browser EXCEPT ![w].dirty = FALSE, ![w].build = NextBuild]
      BY <1>3 DEF Fetch
    <3>2. NextBuild \in Builds
      BY <2>1, StartBuildTypes
    <3> QED
      BY <3>1, <3>2 DEF LiveInv, LiveTypeOK, Window
  <2>3. AskedFirst'
    BY <2>1, StartBuildTypes DEF Fetch, AskedFirst, LiveInv, LiveTypeOK, Forced
  <2> QED
    BY <2>1, <2>2, <2>3, StartBuildTypes
       DEF Fetch, blame, LiveInv, LiveTypeOK, ForcedReadIsFresh
<1> QED
  BY <1>1, <1>2, <1>3

LEMMA ForceInv == LiveInv /\ ForceRead => LiveInv'
<1> SUFFICES ASSUME LiveInv, ForceRead PROVE LiveInv'
  OBVIOUS
<1>1. StartBuild(NextBuild)
  BY DEF ForceRead
<1>2. forced' = [build |-> NextBuild, asked |-> docker, stale |-> FALSE]
  BY DEF ForceRead
<1>3. forced' \in Forced
  BY <1>1, <1>2, StartBuildTypes DEF Forced, LiveInv, LiveTypeOK
<1>4. AskedFirst' /\ ForcedReadIsFresh'
  BY <1>1, <1>2, StartBuildTypes DEF AskedFirst, ForcedReadIsFresh
<1> QED
  BY <1>1, <1>2, <1>3, <1>4, StartBuildTypes DEF ForceRead, blame, LiveInv, LiveTypeOK, Snapshot

LEMMA LiveStepHolds == LiveInv /\ [LiveNext]_liveVars => LiveInv'
<1> SUFFICES ASSUME LiveInv, [LiveNext]_liveVars PROVE LiveInv'
  OBVIOUS
<1>1. CASE DockerChanges
  BY <1>1, DockerChangesInv
<1>2. CASE HubStep \/ StreamBreaks
  BY <1>2, HearInv, StreamInv DEF HubStep
<1>3. CASE \E b \in Builds : BuildStep(b) \/ ListingFails(b)
  BY <1>3, ListContainersInv, FinishBuildInv, ListingFailsInv DEF BuildStep
<1>4. CASE Expire
  BY <1>4, ExpireInv
<1>5. CASE ForceRead
  BY <1>5, ForceInv
<1>6. CASE \E w \in Browsers : Fetch(w) \/ BrowserBreaks(w) \/ BrowserReturns(w)
  BY <1>6, FetchInv, BrowserInv
<1>7. CASE UNCHANGED liveVars
  BY <1>7 DEF liveVars, LiveInv, LiveTypeOK, AskedFirst, ForcedReadIsFresh
<1> QED
  BY <1>1, <1>2, <1>3, <1>4, <1>5, <1>6, <1>7 DEF LiveNext

LEMMA LiveInvariant == LiveSpec => []LiveInv
  BY LiveInitHolds, LiveStepHolds, PTL DEF LiveSpec

\* Every state of the cache, the hub and the browsers is well typed:
\* createSnapshotCache, LiveHub and useLive.
THEOREM LiveTypeCorrect == LiveSpec => []LiveTypeOK
<1>1. LiveInv => LiveTypeOK
  BY DEF LiveInv
<1> QED
  BY <1>1, LiveInvariant, PTL

\* get(true) never answers with a listing made before it was called, however
\* many builds are under way and in whichever order they end.
THEOREM ForcedIsFresh == LiveSpec => []ForcedReadIsFresh
<1>1. LiveInv => ForcedReadIsFresh
  BY DEF LiveInv
<1> QED
  BY <1>1, LiveInvariant, PTL

(***************************************************************************)
(* The panel's parts together                                              *)
(***************************************************************************)

\* Every behaviour of the composition begins as each part does and makes steps of
\* each part only: a step of one part leaves the others where they are.  What is
\* proved of a part by induction over its steps holds of the composition.
THEOREM PanelIsItsParts ==
  Spec => /\ BoardInit /\ [][BoardNext]_boardVars
          /\ TreeInit /\ [][TreeNext]_treeVars
          /\ SyncInit /\ [][SyncNext]_syncVars
          /\ BindInit /\ [][BindNext]_bindVars
          /\ SessionInit /\ [][SessionNext]_sessionVars
          /\ LiveInit /\ [][LiveNext]_liveVars
<1>1. Init => BoardInit /\ TreeInit /\ SyncInit /\ BindInit /\ SessionInit /\ LiveInit
  BY DEF Init
<1>2. [Next]_panelVars => /\ [BoardNext]_boardVars /\ [TreeNext]_treeVars /\ [SyncNext]_syncVars
                          /\ [BindNext]_bindVars /\ [SessionNext]_sessionVars /\ [LiveNext]_liveVars
  <2> SUFFICES ASSUME [Next]_panelVars
               PROVE  /\ [BoardNext]_boardVars /\ [TreeNext]_treeVars /\ [SyncNext]_syncVars
                      /\ [BindNext]_bindVars /\ [SessionNext]_sessionVars /\ [LiveNext]_liveVars
    OBVIOUS
  <2>1. CASE OfBoard /\ BoardNext
    BY <2>1 DEF OfBoard
  <2>2. CASE OfTree /\ TreeNext
    BY <2>2 DEF OfTree
  <2>3. CASE OfSync /\ SyncNext
    BY <2>3 DEF OfSync
  <2>4. CASE OfBinding /\ BindNext
    BY <2>4 DEF OfBinding
  <2>5. CASE OfSessions /\ SessionNext
    BY <2>5 DEF OfSessions
  <2>6. CASE OfLive /\ LiveNext
    BY <2>6 DEF OfLive
  <2>7. CASE UNCHANGED panelVars
    BY <2>7 DEF panelVars
  <2> QED
    BY <2>1, <2>2, <2>3, <2>4, <2>5, <2>6, <2>7 DEF Next
<1> QED
  BY <1>1, <1>2, PTL DEF Spec

\* The state of the panel's parts has the shapes the model declares.
THEOREM PanelTypeCorrect == Spec => []PanelTypeOK
<1>1. TreeInv /\ SyncTyped /\ BindTyped /\ WatchTypes /\ LiveInv
        => TreeTypeOK /\ SyncTypeOK /\ BindTypeOK /\ SessionTypeOK /\ LiveTypeOK
  BY DEF TreeInv, SyncTyped, BindTyped, WatchTypes, LiveInv
<1>2. BoardTypeOK /\ TreeTypeOK /\ SyncTypeOK /\ BindTypeOK /\ SessionTypeOK /\ LiveTypeOK
        => PanelTypeOK
  BY DEF PanelTypeOK
<1>3. Spec => []BoardTypeOK
  <2>1. BoardTypeOK /\ [BoardNext]_boardVars => BoardTypeOK'
    BY BoardTypeStep
  <2> QED
    BY <2>1, PanelIsItsParts, BoardTypeInit, PTL
<1>4. Spec => []TreeInv
  BY PanelIsItsParts, TreeInit1, TreeStep, PTL
<1>5. Spec => []SyncTyped
  BY PanelIsItsParts, SyncTypeInit, SyncTypeNext, PTL
<1>6. Spec => []BindTyped
  BY PanelIsItsParts, TypedInit, TypedStep, PTL
<1>7. Spec => [](WatchTypes /\ ToldInv)
  BY PanelIsItsParts, InitTypes, InitTold, SessionStep, PTL
<1>8. Spec => []LiveInv
  BY PanelIsItsParts, LiveInitHolds, LiveStepHolds, PTL
<1> QED
  BY <1>1, <1>2, <1>3, <1>4, <1>5, <1>6, <1>7, <1>8, PTL
=============================================================================
