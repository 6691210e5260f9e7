------------------------------- MODULE Binding -------------------------------
(***************************************************************************)
(* One GitHub issue, its projected row, and the task bound to it.          *)
(*                                                                         *)
(* A local edit writes the task first and then pushes the change: it plans *)
(* a patch from the projected row, sends it, stores GitHub's answer in the *)
(* row and marks the binding.  A pass of the synchronisation goes the      *)
(* other way: it fetches the issue, stores it, and creates the task or     *)
(* brings it in step, unless the binding says that a local edit waits.     *)
(* Somebody may settle a conflict either way.  Every call of the database  *)
(* or of GitHub is an await, and edits and passes run beside each other.   *)
(*                                                                         *)
(* A field is a number: 1 at first, a fresh one at every edit, 0 when      *)
(* GitHub has no label for it.  The time of a version is the number of its *)
(* change; where the code compares two times, which have whole seconds, a  *)
(* later change may turn out to be of the same second.                     *)
(***************************************************************************)
EXTENDS Integers, Sequences

CONSTANTS
  Fields,         \* what a task and its issue share
  Labelled,       \* those GitHub keeps as labels: status and priority
  MaxEdits,       \* bound: edits, on GitHub and here
  MaxTroubles     \* bound: syncs asked for, settlements, failures, restarts

ASSUME BindingConstants ==
  Labelled \subseteq Fields /\ "whole" \notin Fields /\ MaxEdits \in Nat /\ MaxTroubles \in Nat

VARIABLES
  history,     \* the issue on GitHub after each of its changes
  stored,      \* its projected row: the fields, and the change they are of
  exists,      \* the bound task has been created
  task,        \* its fields
  binding,     \* the row that binds them: state, and remoteUpdatedAt
  worker,      \* worker[w]: what the timer and a request are doing
  due,         \* the next pass will list the issue: it is not behind the cursor
  strays,      \* tasks created for the issue and bound to nothing
  mishaps,     \* what went wrong between two workers, or with a restart
  edits,       \* how many edits there were
  troubles     \* how many of the other bounded events

bindVars == <<history, stored, exists, task, binding, worker, due, strays, mishaps, edits, troubles>>

Workers == {"timer", "request"}
Values  == [Fields -> 0..(MaxEdits + 1)]
Changes == 0..(MaxEdits + MaxEdits + MaxTroubles + 1)
Version == [fields : Values, at : Changes]

Remote == [fields |-> history[Len(history)], at |-> Len(history)]

Unset == [f \in Fields |-> 0]
First == [f \in Fields |-> 1]

\* The states of a binding; "none" is a missing row.
States == {"none", "synced", "pending", "conflict", "error"}

Editing  == {"link", "plan", "pending", "patch", "answer", "mark", "error"}
Passing  == {"fetch", "store", "stored", "lookup", "create", "bind", "verdict"}
Deciding == {"conflict", "apply", "applied"}

\* seen: the version, or the fields, this worker goes on with; field: what an
\* edit changed, "whole" for everything.
Work == [pc : {"idle"} \cup Editing \cup Passing \cup Deciding \cup {"record"},
         seen : Version, field : Fields \cup {"whole"}, value : Values, pass : BOOLEAN,
         fetched : Changes]

NoWork == [pc |-> "idle", seen |-> [fields |-> Unset, at |-> 0], field |-> "whole",
           value |-> Unset, pass |-> FALSE, fetched |-> 0]

\* Before the pass that finds the issue, or after it bound a task.
BindInit ==
  /\ history = <<First>>
  /\ \/ /\ stored = [fields |-> Unset, at |-> 0]
        /\ exists = FALSE /\ task = Unset
        /\ binding = [state |-> "none", at |-> 0]
        /\ due = TRUE
     \/ /\ stored = [fields |-> First, at |-> 1]
        /\ exists = TRUE /\ task = First
        /\ binding = [state |-> "synced", at |-> 1]
        /\ due \in BOOLEAN
  /\ worker = [w \in Workers |-> NoWork]
  /\ strays = 0
  /\ mishaps = {}
  /\ edits = 0
  /\ troubles = 0

\* crossed: an edit was under way while a pass looked at the binding, or began
\* before the pass had acted on what it saw.
\* stale: what was read before a newer change was stored was written after it.
\* masked: the push of one field marked the binding while another waited.
\* twofold: two passes ran at once.  cut: a restart dropped a worker.
Mishaps == {"crossed", "stale", "masked", "twofold", "cut"}

Note(mishap, happened) == mishaps' = IF happened THEN mishaps \cup {mishap} ELSE mishaps

AnEdit  == edits < MaxEdits /\ edits' = edits + 1 /\ UNCHANGED troubles
Trouble == troubles < MaxTroubles /\ troubles' = troubles + 1 /\ UNCHANGED edits

Fresh == edits + 2

Do(w, work) == worker' = [worker EXCEPT ![w] = work]
Then(w, pc) == worker' = [worker EXCEPT ![w].pc = pc]
Done(w)     == worker' = [worker EXCEPT ![w] = NoWork]

\* A pass goes on to record its cursor; a request has answered.
Finish(w) ==
  Do(w, IF worker[w].pass
        THEN [NoWork EXCEPT !.pc = "record", !.pass = TRUE, !.fetched = worker[w].fetched]
        ELSE NoWork)

counts == <<edits, troubles>>
ghosts == <<strays, mishaps, counts>>
quiet  == <<strays, counts>>

(***************************************************************************)
(* GitHub                                                                  *)
(***************************************************************************)

RemoteEdit(f) ==
  /\ AnEdit
  /\ history' = Append(history, [history[Len(history)] EXCEPT ![f] = Fresh])
  /\ due' = TRUE
  /\ UNCHANGED <<stored, exists, task, binding, worker, strays, mishaps>>

(***************************************************************************)
(* A local edit: write(), and pushToGitHub                                 *)
(***************************************************************************)

\* tasks.update, or tasks.move
EditTask(f) ==
  /\ worker["request"].pc = "idle"
  /\ exists
  /\ AnEdit
  /\ task' = [task EXCEPT ![f] = Fresh]
  /\ Do("request", [NoWork EXCEPT !.pc = "link", !.field = f, !.value[f] = Fresh])
  /\ Note("crossed", worker["timer"].pc \in Deciding)
  /\ UNCHANGED <<history, stored, exists, binding, due, strays>>

FindLink(w) ==
  /\ worker[w].pc = "link"
  /\ IF binding.state = "none" THEN Done(w) ELSE Then(w, "plan")
  /\ UNCHANGED <<history, stored, exists, task, binding, due, ghosts>>

\* planIssuePatch: a label's dimension is sent with all the labels that are
\* to stay, and those of the convention are not among them.
Patch(f, value) ==
  [g \in IF f = "whole" THEN Fields ELSE IF f \in Labelled THEN Labelled ELSE {f} |->
     IF f = "whole" \/ g = f THEN value[g] ELSE 0]

Patched(fields, patch) ==
  [f \in Fields |-> IF f \in DOMAIN patch THEN patch[f] ELSE fields[f]]

\* A title GitHub is known to have is not sent; labels always are.
NothingToSend(w) ==
  LET f == worker[w].field
  IN  f \in Fields \ Labelled /\ worker[w].value[f] = stored.fields[f]

\* Configured or not is looked up each time.
Plan(w) ==
  /\ worker[w].pc = "plan"
  /\ \/ NothingToSend(w) /\ Done(w)
     \/ ~NothingToSend(w) /\ \E pc \in {"patch", "pending"} : Then(w, pc)
  /\ UNCHANGED <<history, stored, exists, task, binding, due, ghosts>>

MarkPending(w) ==
  /\ worker[w].pc = "pending"
  /\ binding' = [binding EXCEPT !.state = "pending"]
  /\ Done(w)
  /\ UNCHANGED <<history, stored, exists, task, due, ghosts>>

\* What a patch does on GitHub, whether or not its answer arrives.
Patching(w) ==
  /\ history' = Append(history, Patched(history[Len(history)], Patch(worker[w].field, worker[w].value)))
  /\ due' = TRUE

\* Mutant: the row is told what was asked for, not what GitHub answered.
SendTrusted(w) ==
  /\ worker[w].pc = "patch"
  /\ Patching(w)
  /\ Do(w, [worker[w] EXCEPT !.pc = "answer",
              !.seen = [fields |-> worker[w].value, at |-> Len(history')]])
  /\ UNCHANGED <<stored, exists, task, binding, ghosts>>

Send(w) ==
  /\ worker[w].pc = "patch"
  /\ Patching(w)
  /\ Do(w, [worker[w] EXCEPT !.pc = "answer", !.value = Unset,
              !.seen = [fields |-> history'[Len(history')], at |-> Len(history')]])
  /\ UNCHANGED <<stored, exists, task, binding, ghosts>>

\* GitHub refuses, or its answer is lost after the change was made.
SendFails(w) ==
  /\ worker[w].pc = "patch"
  /\ Trouble
  /\ Patching(w) \/ UNCHANGED <<history, due>>
  /\ Then(w, "error")
  /\ UNCHANGED <<stored, exists, task, binding, strays, mishaps>>

StoreAnswer(w) ==
  /\ worker[w].pc = "answer"
  /\ stored' = worker[w].seen
  /\ Then(w, "mark")
  /\ Note("stale", worker[w].seen.at < stored.at)
  /\ UNCHANGED <<history, exists, task, binding, due, quiet>>

MarkPushed(w) ==
  /\ worker[w].pc = "mark"
  /\ binding' = [state |-> "synced", at |-> worker[w].seen.at]
  /\ Done(w)
  /\ mishaps' = mishaps
       \cup (IF binding.state # "synced" /\ worker[w].field # "whole" THEN {"masked"} ELSE {})
       \cup (IF worker[w].seen.at < stored.at THEN {"stale"} ELSE {})
  /\ UNCHANGED <<history, stored, exists, task, due, quiet>>

MarkError(w) ==
  /\ worker[w].pc = "error"
  /\ binding' = [binding EXCEPT !.state = "error"]
  /\ Done(w)
  /\ UNCHANGED <<history, stored, exists, task, due, ghosts>>

(***************************************************************************)
(* A pass: syncRepositoryIssues and applyIssueToTask                       *)
(***************************************************************************)

\* The timer lists what is not behind the cursor; a delivery lists everything.
StartPass(w) ==
  /\ worker[w].pc = "idle"
  /\ IF w = "timer" THEN due /\ UNCHANGED counts ELSE Trouble
  /\ Do(w, [NoWork EXCEPT !.pc = "fetch", !.pass = TRUE])
  /\ Note("twofold", \E v \in Workers : worker[v].pass)
  /\ UNCHANGED <<history, stored, exists, task, binding, due, strays>>

FetchIssue(w) ==
  /\ worker[w].pc = "fetch"
  /\ Do(w, [worker[w] EXCEPT !.pc = "store", !.seen = Remote, !.fetched = Len(history)])
  /\ UNCHANGED <<history, stored, exists, task, binding, due, ghosts>>

StoreIssue(w) ==
  /\ worker[w].pc = "store"
  /\ stored' = worker[w].seen
  /\ Do(w, [worker[w] EXCEPT !.pc = "stored", !.seen = NoWork.seen])
  /\ Note("stale", worker[w].seen.at < stored.at)
  /\ UNCHANGED <<history, exists, task, binding, due, quiet>>

\* db.github.findIssue reads the row back: another worker may have written it.
ReadStored(w) ==
  /\ worker[w].pc = "stored"
  /\ Do(w, [worker[w] EXCEPT !.pc = "lookup", !.seen = stored])
  /\ UNCHANGED <<history, stored, exists, task, binding, due, ghosts>>

\* Mutant: the bound task is looked for only when the binding is in step.
FindSyncedTask(w) ==
  /\ worker[w].pc = "lookup"
  /\ Then(w, IF binding.state = "synced" THEN "verdict" ELSE "create")
  /\ UNCHANGED <<history, stored, exists, task, binding, due, ghosts>>

FindByIssue(w) ==
  /\ worker[w].pc = "lookup"
  /\ Then(w, IF binding.state = "none" THEN "create" ELSE "verdict")
  /\ UNCHANGED <<history, stored, exists, task, binding, due, ghosts>>

\* The task is created first, and bound by a second statement.
CreateTask(w) ==
  /\ worker[w].pc = "create"
  /\ strays' = strays + 1
  /\ Then(w, "bind")
  /\ UNCHANGED <<history, stored, exists, task, binding, due, mishaps, counts>>

\* An issue is bound once: the second binding is refused, and the pass fails.
BindTask(w) ==
  /\ worker[w].pc = "bind"
  /\ IF binding.state = "none"
     THEN /\ binding' = [state |-> "synced", at |-> worker[w].seen.at]
          /\ exists' = TRUE
          /\ task' = worker[w].seen.fields
          /\ strays' = strays - 1
          /\ Finish(w)
     ELSE /\ Done(w)
          /\ UNCHANGED <<binding, exists, task, strays>>
  /\ Note("stale", worker[w].seen.at < stored.at)
  /\ UNCHANGED <<history, stored, due, counts>>

\* Mutant: only a pending edit is kept from the remote one.
VerdictOfPending(seen, sameSecond) ==
  IF binding.state # "pending" THEN "apply"
  ELSE IF seen.at > binding.at /\ ~sameSecond THEN "conflict" ELSE "keep"

\* reconcileBinding compares times of whole seconds: a change GitHub made in the
\* second of the one the binding knows is no news.
Verdict(seen, sameSecond) ==
  IF binding.state = "synced" THEN "apply"
  ELSE IF seen.at > binding.at /\ ~sameSecond THEN "conflict" ELSE "keep"

Reconcile(w) ==
  /\ worker[w].pc = "verdict"
  /\ \E sameSecond \in BOOLEAN :
       LET verdict == Verdict(worker[w].seen, sameSecond)
       IN  IF verdict = "keep" THEN Finish(w) ELSE Then(w, verdict)
  /\ Note("crossed", w = "timer" /\ worker["request"].pc \in Editing)
  /\ UNCHANGED <<history, stored, exists, task, binding, due, quiet>>

MarkConflict(w) ==
  /\ worker[w].pc = "conflict"
  /\ binding' = [state |-> "conflict", at |-> worker[w].seen.at]
  /\ Finish(w)
  /\ Note("stale", worker[w].seen.at < stored.at)
  /\ UNCHANGED <<history, stored, exists, task, due, quiet>>

ApplyToTask(w) ==
  /\ worker[w].pc = "apply"
  /\ task' = worker[w].seen.fields
  /\ Then(w, "applied")
  /\ Note("stale", worker[w].seen.at < stored.at)
  /\ UNCHANGED <<history, stored, exists, binding, due, quiet>>

MarkApplied(w) ==
  /\ worker[w].pc = "applied"
  /\ binding' = [state |-> "synced", at |-> worker[w].seen.at]
  /\ Finish(w)
  /\ Note("stale", worker[w].seen.at < stored.at)
  /\ UNCHANGED <<history, stored, exists, task, due, quiet>>

\* The cursor is the newest change the pass saw.  When that is another issue's,
\* later passes no longer list this one, until it changes again.
RecordPass(w) ==
  /\ worker[w].pc = "record"
  /\ due' \in IF worker[w].fetched = Len(history) THEN BOOLEAN ELSE {TRUE}
  /\ Done(w)
  /\ UNCHANGED <<history, stored, exists, task, binding, ghosts>>

(***************************************************************************)
(* POST /tasks/:ref/github/sync                                            *)
(***************************************************************************)

\* The binding says synced before the row is applied.
SettleRemote ==
  /\ worker["request"].pc = "idle"
  /\ binding.state # "none" /\ stored.at > 0
  /\ Trouble
  /\ binding' = [binding EXCEPT !.state = "synced"]
  /\ Do("request", [NoWork EXCEPT !.pc = "lookup", !.seen = stored])
  /\ UNCHANGED <<history, stored, exists, task, due, strays, mishaps>>

\* The whole task, as it is now; refused for a conflict nobody settled.
SettleLocal ==
  /\ worker["request"].pc = "idle"
  /\ binding.state # "none" /\ stored.at > 0
  /\ Trouble
  /\ Do("request", [NoWork EXCEPT !.pc = "patch", !.value = task])
  /\ UNCHANGED <<history, stored, exists, task, binding, due, strays, mishaps>>

RestartWorkers ==
  /\ \E w \in Workers : worker[w].pc # "idle"
  /\ Trouble
  /\ worker' = [w \in Workers |-> NoWork]
  /\ mishaps' = mishaps \cup {"cut"}
  /\ UNCHANGED <<history, stored, exists, task, binding, due, strays>>

WorkerStep(w) ==
  \/ FindLink(w) \/ Plan(w) \/ MarkPending(w)
  \/ Send(w) \/ StoreAnswer(w) \/ MarkPushed(w) \/ MarkError(w)
  \/ FetchIssue(w) \/ StoreIssue(w) \/ ReadStored(w) \/ FindByIssue(w)
  \/ CreateTask(w) \/ BindTask(w)
  \/ Reconcile(w) \/ MarkConflict(w) \/ ApplyToTask(w) \/ MarkApplied(w)
  \/ RecordPass(w)

BindNext ==
  \/ \E f \in Fields : RemoteEdit(f) \/ EditTask(f)
  \/ \E w \in Workers : StartPass(w) \/ WorkerStep(w) \/ SendFails(w)
  \/ SettleRemote
  \/ SettleLocal
  \/ RestartWorkers

BindSpec ==
  /\ BindInit /\ [][BindNext]_bindVars
  /\ WF_bindVars(StartPass("timer"))
  /\ \A w \in Workers : WF_bindVars(WorkerStep(w))

(***************************************************************************)
(* Properties                                                              *)
(***************************************************************************)

BindTypeOK ==
  /\ history \in Seq(Values)
  /\ stored \in Version
  /\ exists \in BOOLEAN
  /\ task \in Values
  /\ binding \in [state : States, at : Changes]
  /\ worker \in [Workers -> Work]
  /\ due \in BOOLEAN
  /\ mishaps \subseteq Mishaps
  /\ strays \in 0..(2 * MaxTroubles + 2)
  /\ edits \in 0..MaxEdits
  /\ troubles \in 0..MaxTroubles

\* The row always holds what the issue was after some change, at the time it
\* says, and never what somebody asked GitHub for.
ProjectionWasReal == stored.at > 0 => stored.fields = history[stored.at]

Settled ==
  \/ task = Remote.fields
  \/ binding.state \in {"pending", "conflict", "error"}
  \/ mishaps \cap {"crossed", "stale", "masked", "cut"} # {}

\* In the end the task is what GitHub has, or its binding says that it is not,
\* however many pushes fail.  Left out is what the code leaves open: an edit
\* that overlaps a pass's decision, an older answer written over a newer one, a
\* push that marks the binding while another edit waits, a restart.
EventuallyAgree == <>[]Settled

\* A pass overwrites only what GitHub has had: an edit made here that GitHub
\* never took is kept, unless somebody is settling for GitHub's version.
EditsAreKept ==
  [][\A w \in Workers :
       worker[w].pc = "apply" /\ worker[w].pass /\ task' # task =>
         \/ \A f \in Fields : \/ task'[f] = task[f]
                              \/ \E i \in DOMAIN history : history[i][f] = task[f]
         \/ worker["request"].pc # "idle" /\ ~worker["request"].pass
         \/ mishaps \cap {"crossed", "stale", "masked", "cut"} # {}]_bindVars

\* A pass that creates the task either binds it or, alone and uninterrupted,
\* is still about to.
NoStrayTask ==
  strays > 0 => \/ mishaps \cap {"twofold", "cut"} # {}
                \/ \E w \in Workers : worker[w].pc = "bind"

\* Nobody clears a field, so none is ever without a value: setting one label
\* never drops the other.
NothingCleared == \A f \in Fields : history[Len(history)][f] # 0
=============================================================================
