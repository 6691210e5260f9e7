------------------------------ MODULE Sessions ------------------------------
(***************************************************************************)
(* Development sessions, and the watcher that tells what a repository      *)
(* produced.                                                               *)
(*                                                                         *)
(* The host writes HEAD, the branch and the last commits to a file.  Once  *)
(* a minute the watcher compares them with what it saw last: it appends an *)
(* event with the new commits, writes them to each active session one by   *)
(* one, and appends another event when the branch changed.  What it saw is *)
(* kept in memory; after a restart it is taken from the events.  An event  *)
(* that cannot be appended is dropped; a failure anywhere else ends the    *)
(* tick, and the next one starts over.                                     *)
(*                                                                         *)
(* One repository.  Commit n has commit n-1 as its parent, and HEAD may    *)
(* move forward, or back to an older commit.                               *)
(***************************************************************************)
EXTENDS Integers, FiniteSets
LOCAL INSTANCE SequencesExt

CONSTANTS
  DevSessions,   \* the sessions of the repository
  LastCommit,    \* bound: commits are numbered 1..LastCommit
  ScanDepth,     \* how many commits the host lists
  RecentEvents,  \* how many events the watcher looks back over
  MaxFailures,   \* bound: failed writes, ended ticks, restarts
  MaxHappenings  \* bound: what people, git and the housekeeping do

ASSUME WatchConstants ==
  /\ LastCommit \in Nat \ {0} /\ ScanDepth \in Nat \ {0} /\ RecentEvents \in Nat \ {0}
  /\ MaxFailures \in Nat /\ MaxHappenings \in Nat

VARIABLES
  scan,        \* the file the host writes
  activity,    \* the events about the repository, oldest first
  seen,        \* what the watcher saw last; Unseen in a new process
  watch,       \* its tick
  dev,         \* dev[s]: the row of session s
  patching,    \* patching[s]: a PATCH of s that has read the row
  told,        \* every commit any event ever told
  untold,      \* commits the watcher may leave untold
  missed,      \* missed[s]: commits s may lack
  failures,
  happenings

sessionVars == <<scan, activity, seen, watch, dev, patching, told, untold, missed,
                 failures, happenings>>

Commits  == 1..LastCommit
Branches == {"main", "topic"}
None     == 0
Scan     == [head : Commits, branch : Branches]

\* head is None when no event about commits was found; branch likewise.
Sight  == [head : Commits \cup {None}, branch : Branches \cup {"none"}]
Unseen == [head |-> None, branch |-> "unseen"]

\* What an event carries that is read back.
EventOf == [kind : {"commit", "branch"}, head : Commits, branch : Branches]

SessionRow == [status : {"unborn", "active", "ended", "abandoned"},
               commits : SUBSET Commits, headAfter : Commits \cup {None}]

Quiet == [pc |-> "idle", listed |-> {}, known |-> [s \in DevSessions |-> {}],
          now |-> [head |-> 1, branch |-> "main"], previous |-> Unseen]

NoPatch == [asked |-> "none", status |-> "unborn", headAfter |-> None]

SessionInit ==
  /\ scan = [head |-> 1, branch |-> "main"]
  /\ activity = <<>>
  /\ seen = Unseen
  /\ watch = Quiet
  /\ dev = [s \in DevSessions |-> [status |-> "unborn", commits |-> {}, headAfter |-> None]]
  /\ patching = [s \in DevSessions |-> NoPatch]
  /\ told = {}
  /\ untold = {}
  /\ missed = [s \in DevSessions |-> {}]
  /\ failures = 0
  /\ happenings = 0

Happening == happenings < MaxHappenings /\ happenings' = happenings + 1
Failure   == failures < MaxFailures /\ failures' = failures + 1

ActiveSessions == {s \in DevSessions : dev[s].status = "active"}

Missing(who, commits) ==
  missed' = [s \in DevSessions |-> missed[s] \cup (IF s \in who THEN commits ELSE {})]

counted == <<failures, happenings>>
rows    == <<dev, patching>>
ledger  == <<told, untold, missed>>

(***************************************************************************)
(* The host                                                                *)
(***************************************************************************)

HostScans ==
  /\ Happening
  /\ scan' \in Scan \ {scan}
  /\ UNCHANGED <<activity, seen, watch, rows, ledger, failures>>

(***************************************************************************)
(* The watcher's tick                                                      *)
(***************************************************************************)

\* db.sessions.list; the scan is read when its answer is there.  (A tick that
\* would find nothing new is left out.)
ListSessions ==
  /\ watch.pc = "idle"
  /\ seen # scan
  /\ watch' = [Quiet EXCEPT !.pc = "scan", !.listed = ActiveSessions,
                            !.known = [s \in DevSessions |-> dev[s].commits]]
  /\ UNCHANGED <<scan, activity, seen, rows, ledger, counted>>

\* A session that was not active when the sessions were listed is left out.
ReadScan ==
  /\ watch.pc = "scan"
  /\ watch' = [watch EXCEPT !.pc = IF seen = Unseen THEN "recall" ELSE "compare",
                            !.now = scan, !.previous = seen]
  /\ Missing(DevSessions \ watch.listed, 1..scan.head)
  /\ UNCHANGED <<scan, activity, seen, rows, told, untold, counted>>

\* lastRecorded: the last commit and the last branch among the recent events.
Recent == {i \in DOMAIN activity : i > Len(activity) - RecentEvents}
LastOf(kind) == {i \in Recent : /\ activity[i].kind = kind
                                /\ \A j \in Recent : activity[j].kind = kind => j <= i}

LastRecorded ==
  IF Recent = {} THEN watch.now
  ELSE [head   |-> IF LastOf("commit") = {} THEN None
                   ELSE activity[CHOOSE i \in LastOf("commit") : TRUE].head,
        branch |-> IF LastOf("branch") = {} THEN "none"
                   ELSE activity[CHOOSE i \in LastOf("branch") : TRUE].branch]

\* Mutant: a new process takes what it finds for what was there before.
RecallNow ==
  /\ watch.pc = "recall"
  /\ seen' = watch.now
  /\ watch' = [watch EXCEPT !.pc = "compare", !.previous = seen']
  /\ LET commits == IF Recent = {} THEN 1..watch.now.head ELSE {}
     IN  untold' = untold \cup commits /\ Missing(DevSessions, commits)
  /\ UNCHANGED <<scan, activity, rows, told, counted>>

\* With no event to go by, what there is now is where the watcher starts.
Recall ==
  /\ watch.pc = "recall"
  /\ seen' = LastRecorded
  /\ watch' = [watch EXCEPT !.pc = "compare", !.previous = seen']
  /\ LET commits == IF Recent = {} THEN 1..watch.now.head ELSE {}
     IN  untold' = untold \cup commits /\ Missing(DevSessions, commits)
  /\ UNCHANGED <<scan, activity, rows, told, counted>>

Listed == {c \in 1..watch.now.head : c > watch.now.head - ScanDepth}

\* The commits listed before the one the watcher saw: all, when it is not listed.
NewCommits ==
  {c \in Listed : watch.previous.head \in Listed => c > watch.previous.head}

Moved == watch.previous.head \notin {None, watch.now.head}

\* Too many at once: the scan no longer lists the oldest.
Overflow == {c \in 1..watch.now.head : c > watch.previous.head} \ Listed

AfterCommits == IF watch.listed = {} THEN "branch" ELSE "record"

\* Nothing moved, or nobody knows from where.
NoCommit ==
  /\ watch.pc = "compare"
  /\ ~Moved
  /\ watch' = [watch EXCEPT !.pc = "branch"]
  /\ LET commits == IF watch.previous.head = None THEN 1..watch.now.head ELSE {}
     IN  untold' = untold \cup commits /\ Missing(DevSessions, commits)
  /\ UNCHANGED <<scan, activity, seen, rows, told, counted>>

\* Mutant: what was seen is noted before the sessions are written.
TellAndForget ==
  /\ watch.pc = "compare"
  /\ Moved
  /\ activity' = Append(activity, [kind |-> "commit", head |-> watch.now.head, branch |-> watch.now.branch])
  /\ told' = told \cup NewCommits
  /\ untold' = untold \cup Overflow
  /\ Missing(DevSessions, Overflow)
  /\ watch' = [watch EXCEPT !.pc = AfterCommits]
  /\ seen' = watch.now
  /\ UNCHANGED <<scan, rows, counted>>

TellCommits ==
  /\ watch.pc = "compare"
  /\ Moved
  /\ activity' = Append(activity, [kind |-> "commit", head |-> watch.now.head, branch |-> watch.now.branch])
  /\ told' = told \cup NewCommits
  /\ untold' = untold \cup Overflow
  /\ Missing(DevSessions, Overflow)
  /\ watch' = [watch EXCEPT !.pc = AfterCommits]
  /\ UNCHANGED <<scan, seen, rows, counted>>

\* recordActivity swallows the failure: the tick goes on without the event.
TellingFails ==
  /\ watch.pc = "compare"
  /\ Moved
  /\ Failure
  /\ untold' = untold \cup NewCommits \cup Overflow
  /\ Missing(DevSessions, Overflow)
  /\ watch' = [watch EXCEPT !.pc = AfterCommits]
  /\ UNCHANGED <<scan, activity, seen, rows, told, happenings>>

\* recordCommits, one session after the other: whatever its state is by now.
RecordCommits(s) ==
  /\ watch.pc = "record"
  /\ s \in watch.listed
  /\ dev' = [dev EXCEPT ![s].commits = watch.known[s] \cup NewCommits,
                        ![s].headAfter = watch.now.head]
  /\ watch' = [watch EXCEPT !.listed = @ \ {s},
                            !.pc = IF watch.listed = {s} THEN "branch" ELSE "record"]
  /\ UNCHANGED <<scan, activity, seen, patching, ledger, counted>>

BranchMoved == watch.previous.branch \notin {"none", watch.now.branch}

\* The branch's event, or none, or one that could not be appended; then what
\* was compared is what was seen.
EndTick ==
  /\ watch.pc = "branch"
  /\ \/ ~BranchMoved /\ UNCHANGED <<activity, failures>>
     \/ /\ BranchMoved
        /\ \/ /\ activity' = Append(activity, [kind |-> "branch", head |-> watch.now.head,
                                               branch |-> watch.now.branch])
              /\ UNCHANGED failures
           \/ Failure /\ UNCHANGED activity
  /\ seen' = watch.now
  /\ watch' = Quiet
  /\ UNCHANGED <<scan, rows, ledger, happenings>>

\* A query fails: nothing was seen.  (The first sight of a repository stays.)
TickFails ==
  /\ watch.pc \in {"scan", "recall", "record"}
  /\ Failure
  /\ watch' = Quiet
  /\ UNCHANGED <<scan, activity, seen, rows, ledger, happenings>>

\* What was told but not yet written to every session will not be.
RestartWatch ==
  /\ seen # Unseen
  /\ Failure
  /\ seen' = Unseen
  /\ watch' = Quiet
  /\ patching' = [s \in DevSessions |-> NoPatch]
  /\ LET unfinished == {i \in DOMAIN activity :
                          activity[i].kind = "commit" /\ activity[i].head # seen.head}
     IN  Missing(DevSessions, UNION {1..activity[i].head : i \in unfinished})
  /\ UNCHANGED <<scan, activity, dev, told, untold, happenings>>

(***************************************************************************)
(* Sessions: POST, PATCH, and the hourly housekeeping                      *)
(***************************************************************************)

StartSession(s) ==
  /\ dev[s].status = "unborn"
  /\ Happening
  /\ dev' = [dev EXCEPT ![s].status = "active"]
  /\ UNCHANGED <<scan, activity, seen, watch, patching, ledger, failures>>

\* A PATCH reads the row, and writes all of it back but the commits.
ReadSession(s) ==
  /\ dev[s].status # "unborn"
  /\ patching[s] = NoPatch
  /\ Happening
  /\ \E asked \in {"heartbeat", "active", "ended"} :
       patching' = [patching EXCEPT ![s] =
         [asked |-> asked, status |-> dev[s].status, headAfter |-> dev[s].headAfter]]
  /\ UNCHANGED <<scan, activity, seen, watch, dev, ledger, failures>>

NewStatus(p) == IF p.asked = "heartbeat" THEN p.status ELSE p.asked

WriteSession(s) ==
  /\ patching[s] # NoPatch
  /\ dev' = [dev EXCEPT ![s].status = NewStatus(patching[s]),
                        ![s].headAfter = patching[s].headAfter]
  /\ patching' = [patching EXCEPT ![s] = NoPatch]
  /\ UNCHANGED <<scan, activity, seen, watch, ledger, counted>>

\* abandonStale: one statement.  Which sessions went quiet is not modelled.
AbandonStale ==
  /\ Happening
  /\ \E stale \in SUBSET ActiveSessions \ {{}} :
       dev' = [s \in DevSessions |-> IF s \in stale THEN [dev[s] EXCEPT !.status = "abandoned"] ELSE dev[s]]
  /\ UNCHANGED <<scan, activity, seen, watch, patching, ledger, failures>>

\* activity.prune deletes the oldest.
PruneActivity ==
  /\ activity # <<>>
  /\ Happening
  /\ activity' = Tail(activity)
  /\ UNCHANGED <<scan, seen, watch, rows, ledger, failures>>

TickStep ==
  \/ ListSessions \/ ReadScan \/ Recall \/ NoCommit \/ TellCommits
  \/ \E s \in DevSessions : RecordCommits(s)
  \/ EndTick

SessionNext ==
  \/ HostScans
  \/ TickStep
  \/ TellingFails \/ TickFails \/ RestartWatch
  \/ \E s \in DevSessions : StartSession(s) \/ ReadSession(s) \/ WriteSession(s)
  \/ AbandonStale
  \/ PruneActivity

SessionSpec == SessionInit /\ [][SessionNext]_sessionVars

(***************************************************************************)
(* Properties                                                              *)
(***************************************************************************)

SessionTypeOK ==
  /\ scan \in Scan
  /\ \A i \in DOMAIN activity : activity[i] \in EventOf
  /\ seen \in Sight \cup {Unseen}
  /\ watch \in [pc : {"idle", "scan", "recall", "compare", "record", "branch"},
                listed : SUBSET DevSessions, known : [DevSessions -> SUBSET Commits],
                now : Scan, previous : Sight \cup {Unseen}]
  /\ dev \in [DevSessions -> SessionRow]
  /\ told \subseteq Commits /\ untold \subseteq Commits
  /\ missed \in [DevSessions -> SUBSET Commits]
  /\ failures \in 0..MaxFailures /\ happenings \in 0..MaxHappenings

\* Every commit up to the one the watcher saw was told in an event, through
\* failed ticks, restarts and pruned events: all but those before the first
\* sight, those of an event that could not be appended, those that left the
\* scan's list before a tick, and those behind a forgotten commit event.
SeenWasTold == seen # Unseen => 1..seen.head \subseteq told \cup untold

\* An active session has every commit of the ticks that listed it, however often
\* one failed half-way through the sessions: all but those of a tick that a
\* restart cut, or that listed the sessions before this one was active.
ActiveSessionHasThem ==
  seen # Unseen => \A s \in ActiveSessions : 1..seen.head \subseteq dev[s].commits \cup missed[s]
=============================================================================
