---------------------------- MODULE GitHubProofs ----------------------------
(***************************************************************************)
(* Theorems of Binding and of IssueSync.                                   *)
(*                                                                         *)
(* Of one issue and its task: the projected row always holds what the      *)
(* issue was after some change, a pass overwrites only what GitHub has     *)
(* had, and what a pass creates it binds; for any fields and any number of *)
(* edits, passes, settlements, failures and restarts.                      *)
(*                                                                         *)
(* Of the passes over a repository: the stored cursor leaves nothing       *)
(* behind, and a complete pass has GitHub's links; for any issues, sizes   *)
(* of a page and numbers of pages.  A pass that nobody races reads one     *)
(* listing, in the order of its dates; what changes on GitHub meanwhile is *)
(* dated after all that was read.                                          *)
(***************************************************************************)
EXTENDS Binding, IssueSync, SetLemmas, SequenceTheorems, TLAPS

(***************************************************************************)
(* One issue and its task                                                  *)
(***************************************************************************)

\* The types the proof needs: how large the numbers grow does not matter.
Fieldful == [Fields -> Nat]
Sighted  == [fields : Fieldful, at : Nat]
Stages   == {"idle"} \cup Editing \cup Passing \cup Deciding \cup {"record"}
Job      == [pc : Stages, seen : Sighted, field : Fields \cup {"whole"}, value : Fieldful,
             pass : BOOLEAN, fetched : Nat]

Shapes ==
  /\ history \in Seq(Fieldful) /\ history # <<>>
  /\ stored \in Sighted
  /\ task \in Fieldful
  /\ worker \in [Workers -> Job]
  /\ edits \in Nat

\* A version that was GitHub's.
Real(version) ==
  version.at > 0 => version.at <= Len(history) /\ version.fields = history[version.at]

\* What the row holds was GitHub's, and so was what each worker goes on with.
RealInv == Real(stored) /\ \A w \in Workers : Real(worker[w].seen)

BindingInv == Shapes /\ RealInv

LEMMA NoWorkIsReal == NoWork \in Job /\ Real(NoWork.seen) /\ NoWork.seen \in Sighted
<1>1. Unset \in Fieldful
  BY DEF Unset, Fieldful
<1>2. NoWork.seen = [fields |-> Unset, at |-> 0] /\ NoWork.seen \in Sighted
  BY <1>1 DEF NoWork, Sighted
<1>3. NoWork \in Job
  <2>1. [fields |-> Unset, at |-> 0] \in Sighted
    BY <1>1 DEF Sighted
  <2>2. FALSE \in BOOLEAN /\ 0 \in Nat /\ "whole" \in Fields \cup {"whole"} /\ "idle" \in Stages
    BY DEF Stages
  <2> QED
    BY <1>1, <2>1, <2>2, Zenon DEF NoWork, Job
<1> QED
  BY <1>2, <1>3 DEF Real

LEMMA RemoteIsReal ==
  ASSUME Shapes
  PROVE  Remote \in Sighted /\ Real(Remote) /\ Len(history) \in Nat /\ history[Len(history)] \in Fieldful
  BY DEF Shapes, Remote, Sighted, Real

LEMMA InitReal == BindInit => BindingInv
<1> SUFFICES ASSUME BindInit PROVE BindingInv
  OBVIOUS
<1>1. First \in Fieldful /\ Unset \in Fieldful
  BY DEF First, Unset, Fieldful
<1>2. history = <<First>> /\ worker = [w \in Workers |-> NoWork] /\ edits = 0
  BY DEF BindInit
<1>3. history \in Seq(Fieldful) /\ history # <<>> /\ Len(history) = 1 /\ history[1] = First
  BY <1>1, <1>2
<1>4. \/ stored = [fields |-> Unset, at |-> 0] /\ task = Unset
      \/ stored = [fields |-> First, at |-> 1] /\ task = First
  BY DEF BindInit
<1>5. stored \in Sighted /\ Real(stored) /\ task \in Fieldful
  BY <1>1, <1>3, <1>4 DEF Sighted, Real
<1>6. worker \in [Workers -> Job] /\ \A w \in Workers : Real(worker[w].seen)
  BY <1>2, NoWorkIsReal
<1> QED
  BY <1>2, <1>3, <1>5, <1>6 DEF BindingInv, Shapes, RealInv

\* A change of the issue leaves every earlier version what it was.
LEMMA GrowingHistory ==
  ASSUME Shapes, NEW fields \in Fieldful, history' = Append(history, fields)
  PROVE  /\ history' \in Seq(Fieldful) /\ history' # <<>>
         /\ Len(history') = Len(history) + 1 /\ history'[Len(history')] = fields
         /\ \A version \in Sighted : Real(version) => Real(version)'
<1>1. /\ history' \in Seq(Fieldful) /\ Len(history') = Len(history) + 1
      /\ history'[Len(history')] = fields
      /\ \A i \in 1..Len(history) : history'[i] = history[i]
  BY AppendProperties DEF Shapes
<1> QED
  BY <1>1 DEF Shapes, Sighted, Real

\* A step of one worker that leaves GitHub alone, stores what the worker went
\* on with or nothing, and goes on with something that was GitHub's.
LEMMA WorkerGoesOn ==
  ASSUME BindingInv, NEW w \in Workers, NEW job \in Job, Do(w, job), Real(job.seen),
         history' = history, stored' = stored \/ stored' = worker[w].seen,
         task' \in Fieldful, edits' \in Nat
  PROVE  BindingInv'
<1>1. worker[w].seen \in Sighted /\ Real(worker[w].seen)
  BY DEF BindingInv, RealInv, Shapes, Job
<1>2. stored' \in Sighted /\ Real(stored)'
  BY <1>1 DEF BindingInv, RealInv, Shapes, Real
<1>3. worker' \in [Workers -> Job] /\ \A v \in Workers : Real(worker'[v].seen)
  BY DEF Do, BindingInv, RealInv, Shapes
<1>4. \A v \in Workers : Real(worker[v].seen)'
  BY <1>3 DEF Real
<1> QED
  BY <1>2, <1>3, <1>4 DEF BindingInv, RealInv, Shapes

LEMMA ThenGoesOn ==
  ASSUME BindingInv, NEW w \in Workers, NEW pc \in Stages, Then(w, pc)
  PROVE  \E job \in Job : Do(w, job) /\ Real(job.seen)
<1> DEFINE job == [worker[w] EXCEPT !.pc = pc]
<1>1. worker[w] \in Job /\ Real(worker[w].seen)
  BY DEF BindingInv, RealInv, Shapes
<1>2. job \in Job /\ job.seen = worker[w].seen
  BY <1>1 DEF Job
<1>3. Do(w, job)
  BY DEF Then, Do
<1> QED
  BY <1>1, <1>2, <1>3

LEMMA DoneGoesOn ==
  ASSUME BindingInv, NEW w \in Workers, Done(w)
  PROVE  \E job \in Job : Do(w, job) /\ Real(job.seen)
  BY NoWorkIsReal DEF Done, Do

LEMMA FinishGoesOn ==
  ASSUME BindingInv, NEW w \in Workers, Finish(w)
  PROVE  \E job \in Job : Do(w, job) /\ Real(job.seen)
<1> DEFINE recording == [NoWork EXCEPT !.pc = "record", !.pass = TRUE, !.fetched = worker[w].fetched]
<1>1. worker[w].fetched \in Nat
  BY DEF BindingInv, Shapes, Job
<1>4. recording.seen = NoWork.seen
  BY DEF NoWork
<1>5. recording \in Job
  BY <1>1, NoWorkIsReal DEF Job, Stages
<1>3. Do(w, recording) \/ Do(w, NoWork)
  BY DEF Finish
<1> QED
  BY <1>3, <1>4, <1>5, NoWorkIsReal

\* The worker's own steps that change neither the row, the task nor GitHub.
LEMMA MarkingInv ==
  ASSUME BindingInv, NEW w \in Workers,
         \/ FindLink(w) \/ Plan(w) \/ MarkPending(w) \/ MarkPushed(w) \/ MarkError(w)
         \/ FindByIssue(w) \/ CreateTask(w) \/ Reconcile(w) \/ MarkConflict(w)
         \/ MarkApplied(w) \/ RecordPass(w)
  PROVE  BindingInv'
<1>1. UNCHANGED <<history, stored, task, edits>>
  BY DEF FindLink, Plan, MarkPending, MarkPushed, MarkError, FindByIssue, CreateTask, Reconcile,
         MarkConflict, MarkApplied, RecordPass, ghosts, quiet, counts
<1>2. Done(w) \/ Finish(w) \/ \E pc \in Stages : Then(w, pc)
  <2>1. CASE FindLink(w) \/ Plan(w) \/ MarkPending(w) \/ MarkPushed(w) \/ MarkError(w) \/ RecordPass(w)
    <3>1. "plan" \in Stages /\ "patch" \in Stages /\ "pending" \in Stages
      BY DEF Stages, Editing
    <3> QED
      BY <2>1, <3>1 DEF FindLink, Plan, MarkPending, MarkPushed, MarkError, RecordPass
  <2>2. CASE FindByIssue(w) \/ CreateTask(w) \/ Reconcile(w)
    <3>1. "create" \in Stages /\ "verdict" \in Stages /\ "bind" \in Stages
          /\ "apply" \in Stages /\ "conflict" \in Stages
      BY DEF Stages, Passing, Deciding
    <3> QED
      BY <2>2, <3>1 DEF FindByIssue, CreateTask, Reconcile, Verdict
  <2>3. CASE MarkConflict(w) \/ MarkApplied(w)
    BY <2>3 DEF MarkConflict, MarkApplied
  <2> QED
    BY <2>1, <2>2, <2>3
<1>3. PICK job \in Job : Do(w, job) /\ Real(job.seen)
  BY <1>2, DoneGoesOn, FinishGoesOn, ThenGoesOn
<1> QED
  BY <1>1, <1>3, WorkerGoesOn DEF BindingInv, Shapes

\* What is written to the task or to the row is what the worker went on with.
LEMMA WritingInv ==
  ASSUME BindingInv, NEW w \in Workers, BindTask(w) \/ ApplyToTask(w) \/ StoreAnswer(w) \/ StoreIssue(w)
  PROVE  BindingInv'
<1>1. worker[w] \in Job /\ worker[w].seen.fields \in Fieldful
  BY DEF BindingInv, Shapes, Job, Sighted
<1>2. task' \in Fieldful
  BY <1>1 DEF BindTask, ApplyToTask, StoreAnswer, StoreIssue, BindingInv, Shapes
<1>3. history' = history /\ edits' = edits /\ (stored' = stored \/ stored' = worker[w].seen)
  BY DEF BindTask, ApplyToTask, StoreAnswer, StoreIssue, quiet, counts
<1>4. \E job \in Job : Do(w, job) /\ Real(job.seen)
  <2>1. CASE BindTask(w)
    BY <2>1, DoneGoesOn, FinishGoesOn DEF BindTask
  <2>2. CASE ApplyToTask(w) \/ StoreAnswer(w)
    <3>1. "applied" \in Stages /\ "mark" \in Stages
      BY DEF Stages, Deciding, Editing
    <3> QED
      BY <2>2, <3>1, ThenGoesOn DEF ApplyToTask, StoreAnswer
  <2>3. CASE StoreIssue(w)
    <3> DEFINE job == [worker[w] EXCEPT !.pc = "stored", !.seen = NoWork.seen]
    <3>1. job \in Job /\ job.seen = NoWork.seen
      BY <1>1, NoWorkIsReal DEF Job, Stages, Passing
    <3> QED
      BY <2>3, <3>1, NoWorkIsReal DEF StoreIssue
  <2> QED
    BY <2>1, <2>2, <2>3
<1> QED
  BY <1>2, <1>3, <1>4, WorkerGoesOn DEF BindingInv, Shapes

\* A pass begins with nothing, and reads the issue or the row.
LEMMA ReadingInv ==
  ASSUME BindingInv, NEW w \in Workers, StartPass(w) \/ FetchIssue(w) \/ ReadStored(w)
  PROVE  BindingInv'
<1>1. worker[w] \in Job /\ stored \in Sighted /\ Real(stored)
  BY DEF BindingInv, Shapes, RealInv
<1>2. UNCHANGED <<history, stored, task, edits>>
  BY DEF StartPass, FetchIssue, ReadStored, Trouble, ghosts, counts
<1>3. \E job \in Job : Do(w, job) /\ Real(job.seen)
  <2>1. CASE StartPass(w)
    <3> DEFINE job == [NoWork EXCEPT !.pc = "fetch", !.pass = TRUE]
    <3>1. job \in Job /\ job.seen = NoWork.seen
      BY NoWorkIsReal DEF Job, Stages, Passing
    <3> QED
      BY <2>1, <3>1, NoWorkIsReal DEF StartPass
  <2>2. CASE FetchIssue(w)
    <3> DEFINE job == [worker[w] EXCEPT !.pc = "store", !.seen = Remote, !.fetched = Len(history)]
    <3>1. job \in Job /\ job.seen = Remote
      BY <1>1, RemoteIsReal DEF BindingInv, Job, Stages, Passing
    <3> QED
      BY <2>2, <3>1, RemoteIsReal DEF FetchIssue, BindingInv
  <2>3. CASE ReadStored(w)
    <3> DEFINE job == [worker[w] EXCEPT !.pc = "lookup", !.seen = stored]
    <3>1. job \in Job /\ job.seen = stored
      BY <1>1 DEF Job, Stages, Passing
    <3> QED
      BY <1>1, <2>3, <3>1 DEF ReadStored
  <2> QED
    BY <2>1, <2>2, <2>3
<1> QED
  BY <1>2, <1>3, WorkerGoesOn DEF BindingInv, Shapes

\* A request begins with what it was asked, the row or the task.
LEMMA RequestInv ==
  ASSUME BindingInv, (\E f \in Fields : EditTask(f)) \/ SettleRemote \/ SettleLocal
  PROVE  BindingInv'
<1>1. stored \in Sighted /\ Real(stored) /\ task \in Fieldful /\ edits \in Nat /\ "request" \in Workers
  BY DEF BindingInv, Shapes, RealInv, Workers
<1>2. ASSUME NEW f \in Fields, EditTask(f) PROVE BindingInv'
  <2> DEFINE job == [NoWork EXCEPT !.pc = "link", !.field = f, !.value[f] = Fresh]
  <2>1. Fresh \in Nat /\ edits' \in Nat
    <3>1. edits' = edits + 1
      BY <1>2, Zenon DEF EditTask, AnEdit
    <3> QED
      BY <1>1, <3>1 DEF Fresh
  <2>2. task' \in Fieldful
    BY <1>1, <1>2, <2>1 DEF EditTask, Fieldful
  <2>3. NoWork.value \in Fieldful
    BY NoWorkIsReal DEF Job
  <2>4. [NoWork.value EXCEPT ![f] = Fresh] \in Fieldful
    BY <2>1, <2>3 DEF Fieldful
  <2>5. job \in Job /\ job.seen = NoWork.seen
    BY <2>4, NoWorkIsReal DEF Job, Stages, Editing
  <2> QED
    BY <1>1, <1>2, <2>1, <2>2, <2>5, NoWorkIsReal, WorkerGoesOn DEF EditTask
<1>3. CASE SettleRemote
  <2> DEFINE job == [NoWork EXCEPT !.pc = "lookup", !.seen = stored]
  <2>1. job \in Job /\ job.seen = stored
    BY <1>1, NoWorkIsReal DEF Job, Stages, Passing
  <2> QED
    BY <1>1, <1>3, <2>1, WorkerGoesOn DEF SettleRemote, Trouble
<1>4. CASE SettleLocal
  <2> DEFINE job == [NoWork EXCEPT !.pc = "patch", !.value = task]
  <2>1. job \in Job /\ job.seen = NoWork.seen
    BY <1>1, NoWorkIsReal DEF Job, Stages, Editing
  <2> QED
    BY <1>1, <1>4, <2>1, NoWorkIsReal, WorkerGoesOn DEF SettleLocal, Trouble
<1> QED
  BY <1>2, <1>3, <1>4

\* A change on GitHub: what was its version stays its version.
LEMMA ChangeInv ==
  ASSUME BindingInv, NEW fields \in Fieldful, history' = Append(history, fields),
         stored' = stored, task' = task, edits' \in Nat,
         worker' \in [Workers -> Job],
         \A w \in Workers : \/ worker'[w].seen = worker[w].seen
                            \/ worker'[w].seen = [fields |-> fields, at |-> Len(history')]
  PROVE  BindingInv'
<1>1. /\ history' \in Seq(Fieldful) /\ history' # <<>>
      /\ Len(history') = Len(history) + 1 /\ history'[Len(history')] = fields
      /\ \A version \in Sighted : Real(version) => Real(version)'
  BY GrowingHistory DEF BindingInv
<1>2. Real(stored)'
  BY <1>1 DEF BindingInv, Shapes, RealInv, Real
<1>3. ASSUME NEW w \in Workers PROVE Real(worker[w].seen)'
  <2>1. worker[w].seen \in Sighted /\ Real(worker[w].seen)
    BY DEF BindingInv, Shapes, RealInv, Job
  <2>2. CASE worker'[w].seen = worker[w].seen
    BY <1>1, <2>1, <2>2 DEF Real
  <2>3. CASE worker'[w].seen = [fields |-> fields, at |-> Len(history')]
    BY <1>1, <2>3 DEF Real, BindingInv, Shapes
  <2> QED
    BY <2>2, <2>3
<1> QED
  BY <1>1, <1>2, <1>3 DEF BindingInv, Shapes, RealInv

LEMMA RemoteEditInv ==
  ASSUME BindingInv, NEW f \in Fields, RemoteEdit(f)
  PROVE  BindingInv'
<1>1. edits \in Nat /\ edits' \in Nat /\ Fresh \in Nat
  <2>1. edits' = edits + 1
    BY Zenon DEF RemoteEdit, AnEdit
  <2> QED
    BY <2>1 DEF BindingInv, Shapes, Fresh
<1>2. history[Len(history)] \in Fieldful
  BY RemoteIsReal DEF BindingInv
<1>3. [history[Len(history)] EXCEPT ![f] = Fresh] \in Fieldful
  BY <1>1, <1>2 DEF Fieldful
<1>4. worker' = worker /\ stored' = stored /\ task' = task
      /\ history' = Append(history, [history[Len(history)] EXCEPT ![f] = Fresh])
  BY DEF RemoteEdit
<1> QED
  BY <1>1, <1>3, <1>4, ChangeInv DEF BindingInv, Shapes

\* What GitHub makes of a patch is a value for every field.
LEMMA PatchedIsFieldful ==
  ASSUME BindingInv, NEW w \in Workers
  PROVE  Patched(history[Len(history)], Patch(worker[w].field, worker[w].value)) \in Fieldful
<1>1. history[Len(history)] \in Fieldful /\ worker[w].value \in Fieldful
  BY RemoteIsReal DEF BindingInv, Shapes, Job
<1>2. \A g \in DOMAIN Patch(worker[w].field, worker[w].value) \cap Fields :
        Patch(worker[w].field, worker[w].value)[g] \in Nat
  BY <1>1 DEF Patch, Fieldful
<1> QED
  BY <1>1, <1>2 DEF Patched, Fieldful

LEMMA SendInv ==
  ASSUME BindingInv, NEW w \in Workers, Send(w)
  PROVE  BindingInv'
<1> DEFINE fields == Patched(history[Len(history)], Patch(worker[w].field, worker[w].value))
           job    == [worker[w] EXCEPT !.pc = "answer", !.value = Unset,
                        !.seen = [fields |-> history'[Len(history')], at |-> Len(history')]]
<1>1. fields \in Fieldful
  BY PatchedIsFieldful
<1>2. history' = Append(history, fields) /\ Do(w, job) /\ UNCHANGED <<stored, task, edits>>
  BY DEF Send, Patching, ghosts, counts
<1>3. Len(history') \in Nat /\ history'[Len(history')] = fields
  BY <1>1, <1>2, GrowingHistory, RemoteIsReal DEF BindingInv
<1>4. worker[w] \in Job /\ Unset \in Fieldful
  BY DEF BindingInv, Shapes, Unset, Fieldful
<1>5. job.seen = [fields |-> fields, at |-> Len(history')] /\ job.seen \in Sighted /\ job \in Job
  BY <1>1, <1>3, <1>4 DEF Job, Sighted, Stages, Editing
<1>6. worker' \in [Workers -> Job] /\ worker'[w] = job
      /\ \A v \in Workers \ {w} : worker'[v] = worker[v]
  BY <1>2, <1>5 DEF Do, BindingInv, Shapes
<1>7. \A v \in Workers : \/ worker'[v].seen = worker[v].seen
                          \/ worker'[v].seen = [fields |-> fields, at |-> Len(history')]
  BY <1>5, <1>6
<1> QED
  BY <1>1, <1>2, <1>6, <1>7, ChangeInv DEF BindingInv, Shapes

LEMMA SendFailsInv ==
  ASSUME BindingInv, NEW w \in Workers, SendFails(w)
  PROVE  BindingInv'
<1>1. UNCHANGED <<stored, task, edits>>
  BY DEF SendFails, Trouble
<1>2. "error" \in Stages /\ Then(w, "error")
  BY DEF SendFails, Stages, Editing
<1>3. CASE history' = history
  BY <1>1, <1>2, <1>3, ThenGoesOn, WorkerGoesOn DEF BindingInv, Shapes
<1>4. CASE Patching(w)
  <2> DEFINE fields == Patched(history[Len(history)], Patch(worker[w].field, worker[w].value))
  <2>1. fields \in Fieldful /\ history' = Append(history, fields)
    BY <1>4, PatchedIsFieldful DEF Patching
  <2>2. worker' \in [Workers -> Job] /\ \A v \in Workers : worker'[v].seen = worker[v].seen
    BY <1>2 DEF Then, BindingInv, Shapes, Job
  <2> QED
    BY <1>1, <2>1, <2>2, ChangeInv DEF BindingInv, Shapes
<1> QED
  BY <1>3, <1>4 DEF SendFails

LEMMA RestartInv ==
  ASSUME BindingInv, RestartWorkers
  PROVE  BindingInv'
<1>1. UNCHANGED <<history, stored, task, edits>> /\ worker' = [w \in Workers |-> NoWork]
  BY DEF RestartWorkers, Trouble
<1>2. \A w \in Workers : worker'[w] \in Job /\ Real(worker'[w].seen)
  BY <1>1, NoWorkIsReal
<1> QED
  BY <1>1, <1>2 DEF BindingInv, Shapes, RealInv, Real

LEMMA BindingStep == BindingInv /\ [BindNext]_bindVars => BindingInv'
<1> SUFFICES ASSUME BindingInv, [BindNext]_bindVars PROVE BindingInv'
  OBVIOUS
<1>1. CASE \E f \in Fields : RemoteEdit(f)
  BY <1>1, RemoteEditInv
<1>2. CASE (\E f \in Fields : EditTask(f)) \/ SettleRemote \/ SettleLocal
  BY <1>2, RequestInv
<1>3. ASSUME NEW w \in Workers, StartPass(w) \/ WorkerStep(w) \/ SendFails(w)
      PROVE  BindingInv'
  BY <1>3, MarkingInv, WritingInv, ReadingInv, SendInv, SendFailsInv DEF WorkerStep
<1>4. CASE RestartWorkers
  BY <1>4, RestartInv
<1>5. CASE UNCHANGED bindVars
  BY <1>5 DEF bindVars, BindingInv, Shapes, RealInv, Real
<1> QED
  BY <1>1, <1>2, <1>3, <1>4, <1>5 DEF BindNext

LEMMA BindingInvariant == BindSpec => []BindingInv
  BY InitReal, BindingStep, PTL DEF BindSpec

\* What the projection holds was the issue on GitHub, at the change it is dated
\* with, whatever edits, passes and settlements overlap: storeIssue, and the
\* answer that pushToGitHub stores.
THEOREM ProjectionIsReal == BindSpec => []ProjectionWasReal
<1>1. BindingInv => ProjectionWasReal
  BY DEF BindingInv, RealInv, Real, ProjectionWasReal
<1> QED
  BY <1>1, BindingInvariant, PTL
-----------------------------------------------------------------------------
(***************************************************************************)
(* What a pass overwrites was GitHub's: EditsAreKept.                      *)
(***************************************************************************)

\* Among these versions of the issue, one has value v of field f.
Has(versions, f, v) == \E i \in DOMAIN versions : versions[i][f] = v

\* GitHub has had every field of the task.
Clean == \A f \in Fields : Has(history, f, task[f])

Unbroken == mishaps \cap {"crossed", "stale", "masked", "cut"} = {}

\* The request is settling for GitHub's version, and has not applied it yet.
Settling == /\ worker["request"].pc \in {"lookup", "verdict", "apply"}
            /\ ~worker["request"].pass

\* The request is pushing one field, which alone GitHub may not have had.
Pushing ==
  /\ worker["request"].pc \in {"link", "plan", "pending", "patch", "error"}
  /\ worker["request"].field \in Fields
  /\ \A f \in Fields : \/ Has(history, f, task[f])
                       \/ f = worker["request"].field /\ task[f] = worker["request"].value[f]

\* Only requests edit.  Behind whatever works on a bound task there is a row,
\* and what a worker goes on with to the task is a version of the issue.
Stepping ==
  /\ binding.state # "none" => stored.at > 0
  /\ \A w \in Workers :
       /\ worker[w].pc \in Editing => w = "request"
       /\ worker[w].pc \in {"link", "plan", "pending"} => worker[w].field \in Fields
       /\ worker[w].pc \in (Editing \ {"link"}) \cup {"stored", "lookup", "create", "bind", "verdict"}
                            \cup Deciding
            => stored.at > 0
       /\ worker[w].pc \in {"answer", "store", "lookup", "create", "bind", "verdict"} \cup Deciding
            => worker[w].seen.at > 0

SyncedClean  == Unbroken /\ binding.state = "synced" => Clean \/ Settling \/ Pushing
TimerClean   == Unbroken /\ worker["timer"].pc = "apply" =>
                  Clean \/ (Settling /\ binding.state = "synced")
RequestClean == Unbroken /\ worker["request"].pc = "apply" /\ worker["request"].pass => Clean
AppliedClean == \A w \in Workers : Unbroken /\ worker[w].pc = "applied" => Clean
WholeClean   == worker["request"].field = "whole" =>
                  /\ worker["request"].pc = "patch" => Clean \/ task = worker["request"].value
                  /\ worker["request"].pc \in {"answer", "mark"} => Clean

CleanInv == SyncedClean /\ TimerClean /\ RequestClean /\ AppliedClean /\ WholeClean

Rowful == binding \in [state : States, at : Nat]

KeptInv == BindingInv /\ Rowful /\ Stepping /\ CleanInv

LEMMA InitKept == BindInit => Rowful /\ Stepping /\ CleanInv
<1> SUFFICES ASSUME BindInit PROVE Rowful /\ Stepping /\ CleanInv
  OBVIOUS
<1>1. /\ \A w \in Workers : worker[w] = NoWork
      /\ NoWork.pc = "idle"
      /\ "request" \in Workers /\ "timer" \in Workers
  BY DEF BindInit, NoWork, Workers
<1>2. binding.state # "none" => stored.at > 0 /\ Clean
  <2>1. CASE binding = [state |-> "none", at |-> 0]
    BY <2>1
  <2>2. CASE binding # [state |-> "none", at |-> 0]
    <3>1. history = <<First>> /\ task = First /\ stored = [fields |-> First, at |-> 1]
      BY <2>2 DEF BindInit
    <3>2. 1 \in DOMAIN history /\ history[1] = task
      BY <3>1
    <3> QED
      BY <3>1, <3>2 DEF Clean, Has
  <2> QED
    BY <2>1, <2>2
<1>3. Rowful
  BY DEF BindInit, Rowful, States
<1> QED
  BY <1>1, <1>2, <1>3 DEF Stepping, CleanInv, SyncedClean, TimerClean, RequestClean, AppliedClean,
     WholeClean, Editing, Passing, Deciding

\* What a step does to the workers.
LEMMA WorkerDoes ==
  ASSUME Shapes, NEW w \in Workers, NEW job, Do(w, job)
  PROVE  worker'[w] = job /\ \A v \in Workers \ {w} : worker'[v] = worker[v]
  BY DEF Shapes, Do

LEMMA WorkerThen ==
  ASSUME Shapes, NEW w \in Workers, NEW pc, Then(w, pc)
  PROVE  /\ worker'[w].pc = pc
         /\ worker'[w].seen = worker[w].seen /\ worker'[w].field = worker[w].field
         /\ worker'[w].value = worker[w].value /\ worker'[w].pass = worker[w].pass
         /\ \A v \in Workers \ {w} : worker'[v] = worker[v]
  BY DEF Shapes, Then, Job

LEMMA WorkerEnds ==
  ASSUME Shapes, NEW w \in Workers, Done(w) \/ Finish(w)
  PROVE  /\ worker'[w].pc \in {"idle", "record"}
         /\ \A v \in Workers \ {w} : worker'[v] = worker[v]
<1> DEFINE recording == [NoWork EXCEPT !.pc = "record", !.pass = TRUE, !.fetched = worker[w].fetched]
<1>1. recording.pc = "record" /\ NoWork.pc = "idle"
  BY DEF NoWork
<1>2. Do(w, recording) \/ Do(w, NoWork)
  BY DEF Done, Do, Finish
<1> QED
  BY <1>1, <1>2, WorkerDoes

\* A worker that ends, and what it may leave written.
LEMMA SteppingEnds ==
  ASSUME BindingInv, Stepping, NEW w \in Workers, Done(w) \/ Finish(w), stored' = stored,
         binding'.state # "none" => stored.at > 0
  PROVE  Stepping'
<1>1. worker'[w].pc \in {"idle", "record"} /\ \A v \in Workers \ {w} : worker'[v] = worker[v]
  BY WorkerEnds DEF BindingInv
<1>2. "idle" \notin Editing \cup Passing \cup Deciding /\ "record" \notin Editing \cup Passing \cup Deciding
  BY DEF Editing, Passing, Deciding
<1> QED
  BY <1>1, <1>2 DEF Stepping, Editing, Passing, Deciding

\* A worker that goes on from one point to another.
LEMMA SteppingOn ==
  ASSUME BindingInv, Stepping, NEW w \in Workers, NEW pc, Then(w, pc),
         binding'.state # "none" => stored'.at > 0,
         stored.at > 0 => stored'.at > 0,
         pc \in Editing => w = "request",
         pc \in {"link", "plan", "pending"} => worker[w].field \in Fields,
         pc \in (Editing \ {"link"}) \cup {"stored", "lookup", "create", "bind", "verdict"} \cup Deciding
           => stored'.at > 0,
         pc \in {"answer", "store", "lookup", "create", "bind", "verdict"} \cup Deciding
           => worker[w].seen.at > 0
  PROVE  Stepping'
<1>1. /\ worker'[w].pc = pc
      /\ worker'[w].seen = worker[w].seen /\ worker'[w].field = worker[w].field
      /\ \A v \in Workers \ {w} : worker'[v] = worker[v]
  BY WorkerThen DEF BindingInv
<1> QED
  BY <1>1 DEF Stepping

LEMMA EditingStepping ==
  ASSUME BindingInv, Stepping, NEW w \in Workers,
         FindLink(w) \/ Plan(w) \/ MarkPending(w) \/ SendFails(w) \/ StoreAnswer(w) \/ MarkPushed(w)
           \/ MarkError(w)
  PROVE  Stepping'
<1> USE DEF Editing, Passing, Deciding
<1>1. CASE FindLink(w)
  <2>1. UNCHANGED <<stored, binding>> /\ worker[w].pc = "link"
    BY <1>1 DEF FindLink
  <2>2. CASE Done(w)
    BY <2>1, <2>2, SteppingEnds DEF Stepping
  <2>3. CASE binding.state # "none" /\ Then(w, "plan")
    BY <2>1, <2>3, SteppingOn DEF Stepping
  <2> QED
    BY <1>1, <2>2, <2>3 DEF FindLink
<1>2. CASE Plan(w)
  <2>1. UNCHANGED <<stored, binding>> /\ worker[w].pc = "plan"
    BY <1>2 DEF Plan
  <2>2. CASE Done(w)
    BY <2>1, <2>2, SteppingEnds DEF Stepping
  <2>3. ASSUME NEW pc \in {"patch", "pending"}, Then(w, pc) PROVE Stepping'
    BY <2>1, <2>3, SteppingOn DEF Stepping
  <2> QED
    BY <1>2, <2>2, <2>3 DEF Plan
<1>3. CASE MarkPending(w) \/ MarkPushed(w) \/ MarkError(w)
  <2>1. Done(w) /\ stored' = stored /\ stored.at > 0
    BY <1>3 DEF MarkPending, MarkPushed, MarkError, Stepping
  <2> QED
    BY <2>1, SteppingEnds
<1>4. CASE SendFails(w)
  <2>1. UNCHANGED <<stored, binding>> /\ worker[w].pc = "patch" /\ Then(w, "error")
    BY <1>4 DEF SendFails
  <2> QED
    BY <2>1, SteppingOn DEF Stepping
<1>5. CASE StoreAnswer(w)
  <2>1. worker[w].pc = "answer" /\ Then(w, "mark") /\ stored' = worker[w].seen /\ binding' = binding
    BY <1>5 DEF StoreAnswer
  <2> QED
    BY <2>1, SteppingOn DEF Stepping
<1> QED
  BY <1>1, <1>2, <1>3, <1>4, <1>5

LEMMA PassingStepping ==
  ASSUME BindingInv, Stepping, NEW w \in Workers,
         FindByIssue(w) \/ CreateTask(w) \/ BindTask(w) \/ Reconcile(w) \/ MarkConflict(w)
           \/ ApplyToTask(w) \/ MarkApplied(w) \/ RecordPass(w)
  PROVE  Stepping'
<1> USE DEF Editing, Passing, Deciding
<1>1. CASE FindByIssue(w) \/ CreateTask(w) \/ ApplyToTask(w)
  <2>1. /\ UNCHANGED <<stored, binding>> /\ stored.at > 0 /\ worker[w].seen.at > 0
        /\ \E pc \in {"create", "verdict", "bind", "applied"} : Then(w, pc)
    BY <1>1 DEF FindByIssue, CreateTask, ApplyToTask, Stepping
  <2>2. PICK pc \in {"create", "verdict", "bind", "applied"} : Then(w, pc)
    BY <2>1
  <2> QED
    BY <2>1, <2>2, SteppingOn
<1>2. CASE BindTask(w) \/ MarkConflict(w) \/ MarkApplied(w)
  <2>1. stored' = stored /\ stored.at > 0 /\ (Done(w) \/ Finish(w))
    BY <1>2 DEF BindTask, MarkConflict, MarkApplied, Stepping
  <2> QED
    BY <2>1, SteppingEnds
<1>3. CASE RecordPass(w)
  BY <1>3, SteppingEnds DEF RecordPass, Stepping
<1>4. CASE Reconcile(w)
  <2>1. UNCHANGED <<stored, binding>> /\ stored.at > 0 /\ worker[w].seen.at > 0
    BY <1>4 DEF Reconcile, Stepping
  <2>2. Finish(w) \/ \E pc \in {"apply", "conflict"} : Then(w, pc)
    BY <1>4 DEF Reconcile, Verdict
  <2>3. CASE Finish(w)
    BY <2>1, <2>3, SteppingEnds
  <2>4. ASSUME NEW pc \in {"apply", "conflict"}, Then(w, pc) PROVE Stepping'
    BY <2>1, <2>4, SteppingOn
  <2> QED
    BY <2>2, <2>3, <2>4
<1> QED
  BY <1>1, <1>2, <1>3, <1>4

LEMMA ReadingStepping ==
  ASSUME BindingInv, Stepping, NEW w \in Workers,
         StartPass(w) \/ FetchIssue(w) \/ StoreIssue(w) \/ ReadStored(w) \/ Send(w)
  PROVE  Stepping'
<1> USE DEF Editing, Passing, Deciding
<1>1. worker[w] \in Job /\ worker[w].seen \in Sighted /\ NoWork \in Job
      /\ Len(history) \in Nat /\ Len(history) > 0
  <2>1. Len(history) \in Nat /\ Len(history) > 0
    BY DEF BindingInv, Shapes
  <2> QED
    BY <2>1, NoWorkIsReal DEF BindingInv, Shapes, Job
<1>2. ASSUME NEW pc, pc = worker'[w].pc,
             \A v \in Workers \ {w} : worker'[v] = worker[v],
             binding' = binding, stored.at > 0 => stored'.at > 0,
             \/ pc = "fetch"
             \/ pc = "store" /\ worker'[w].seen.at > 0
             \/ pc = "stored" /\ stored'.at > 0
             \/ pc = "lookup" /\ stored'.at > 0 /\ worker'[w].seen.at > 0
             \/ pc = "answer" /\ w = "request" /\ stored'.at > 0 /\ worker'[w].seen.at > 0
      PROVE  Stepping'
  BY <1>2 DEF Stepping
<1>3. CASE StartPass(w)
  <2> DEFINE job == [NoWork EXCEPT !.pc = "fetch", !.pass = TRUE]
  <2>1. job.pc = "fetch"
    BY DEF NoWork
  <2> QED
    BY <1>2, <1>3, <2>1, WorkerDoes DEF StartPass, BindingInv
<1>4. CASE FetchIssue(w)
  <2> DEFINE job == [worker[w] EXCEPT !.pc = "store", !.seen = Remote, !.fetched = Len(history)]
  <2>1. job.pc = "store" /\ job.seen.at > 0
    BY <1>1 DEF Job, Remote
  <2> QED
    BY <1>2, <1>4, <2>1, WorkerDoes DEF FetchIssue, BindingInv
<1>5. CASE StoreIssue(w)
  <2> DEFINE job == [worker[w] EXCEPT !.pc = "stored", !.seen = NoWork.seen]
  <2>1. job.pc = "stored"
    BY <1>1 DEF Job
  <2>2. worker[w].pc = "store" /\ stored' = worker[w].seen /\ binding' = binding /\ Do(w, job)
    BY <1>5 DEF StoreIssue
  <2>3. stored'.at > 0
    BY <2>2 DEF Stepping
  <2> QED
    BY <1>2, <2>1, <2>2, <2>3, WorkerDoes DEF BindingInv
<1>6. CASE ReadStored(w)
  <2> DEFINE job == [worker[w] EXCEPT !.pc = "lookup", !.seen = stored]
  <2>1. job.pc = "lookup" /\ job.seen = stored
    BY <1>1 DEF Job
  <2>2. worker[w].pc = "stored" /\ UNCHANGED <<stored, binding>> /\ Do(w, job)
    BY <1>6 DEF ReadStored
  <2>3. stored.at > 0
    BY <2>2 DEF Stepping
  <2> QED
    BY <1>2, <2>1, <2>2, <2>3, WorkerDoes DEF BindingInv
<1>7. CASE Send(w)
  <2> DEFINE job == [worker[w] EXCEPT !.pc = "answer", !.value = Unset,
                       !.seen = [fields |-> history'[Len(history')], at |-> Len(history')]]
  <2>1. history' = Append(history, Patched(history[Len(history)], Patch(worker[w].field, worker[w].value)))
        /\ Do(w, job) /\ worker[w].pc = "patch" /\ UNCHANGED <<stored, binding>>
    BY <1>7 DEF Send, Patching
  <2>2. Len(history') > 0
    BY <2>1, PatchedIsFieldful, GrowingHistory, RemoteIsReal DEF BindingInv
  <2>3. job.pc = "answer" /\ job.seen.at > 0
    BY <1>1, <2>2 DEF Job
  <2>4. stored.at > 0 /\ w = "request"
    BY <2>1 DEF Stepping
  <2> QED
    BY <1>2, <2>1, <2>3, <2>4, WorkerDoes DEF BindingInv
<1> QED
  BY <1>3, <1>4, <1>5, <1>6, <1>7

LEMMA RequestStepping ==
  ASSUME BindingInv, Stepping, (\E f \in Fields : EditTask(f)) \/ SettleRemote \/ SettleLocal
  PROVE  Stepping'
<1> USE DEF Editing, Passing, Deciding
<1>1. "request" \in Workers /\ Shapes
  BY DEF Workers, BindingInv
<1>2. ASSUME NEW f \in Fields, EditTask(f) PROVE Stepping'
  <2> DEFINE job == [NoWork EXCEPT !.pc = "link", !.field = f, !.value[f] = Fresh]
  <2>1. job.pc = "link" /\ job.field = f
    BY DEF NoWork
  <2>2. Do("request", job) /\ UNCHANGED <<stored, binding>>
    BY <1>2 DEF EditTask
  <2>3. /\ worker'["request"].pc = "link" /\ worker'["request"].field = f
        /\ \A v \in Workers \ {"request"} : worker'[v] = worker[v]
    BY <1>1, <2>1, <2>2, WorkerDoes
  <2> QED
    BY <2>2, <2>3 DEF Stepping
<1>3. CASE SettleRemote
  <2> DEFINE job == [NoWork EXCEPT !.pc = "lookup", !.seen = stored]
  <2>1. job.pc = "lookup" /\ job.seen = stored
    BY DEF NoWork
  <2>2. Do("request", job) /\ stored' = stored /\ stored.at > 0
    BY <1>3 DEF SettleRemote
  <2>3. /\ worker'["request"].pc = "lookup" /\ worker'["request"].seen = stored
        /\ \A v \in Workers \ {"request"} : worker'[v] = worker[v]
    BY <1>1, <2>1, <2>2, WorkerDoes
  <2> QED
    BY <2>2, <2>3 DEF Stepping
<1>4. CASE SettleLocal
  <2> DEFINE job == [NoWork EXCEPT !.pc = "patch", !.value = task]
  <2>1. job.pc = "patch"
    BY DEF NoWork
  <2>2. Do("request", job) /\ UNCHANGED <<stored, binding>> /\ stored.at > 0
    BY <1>4 DEF SettleLocal
  <2> QED
    BY <1>1, <2>1, <2>2, WorkerDoes DEF Stepping
<1> QED
  BY <1>2, <1>3, <1>4

LEMMA SteppingStep == BindingInv /\ Stepping /\ [BindNext]_bindVars => Stepping'
<1> SUFFICES ASSUME BindingInv, Stepping, [BindNext]_bindVars PROVE Stepping'
  OBVIOUS
<1>1. ASSUME NEW w \in Workers, StartPass(w) \/ WorkerStep(w) \/ SendFails(w) PROVE Stepping'
  BY <1>1, EditingStepping, PassingStepping, ReadingStepping DEF WorkerStep
<1>2. CASE RestartWorkers
  <2>1. \A w \in Workers : worker'[w].pc = "idle"
    BY <1>2 DEF RestartWorkers, NoWork
  <2> QED
    BY <1>2, <2>1 DEF RestartWorkers, Stepping, Editing, Passing, Deciding
<1>3. CASE \E f \in Fields : RemoteEdit(f)
  BY <1>3 DEF RemoteEdit, Stepping
<1>4. CASE UNCHANGED bindVars
  BY <1>4 DEF bindVars, Stepping
<1> QED
  BY <1>1, <1>2, <1>3, <1>4, RequestStepping DEF BindNext

LEMMA RowfulStep == BindingInv /\ Rowful /\ [BindNext]_bindVars => Rowful'
<1> SUFFICES ASSUME BindingInv, Rowful, [BindNext]_bindVars PROVE Rowful'
  OBVIOUS
<1> USE DEF Rowful, States
<1>1. ASSUME NEW w \in Workers, StartPass(w) \/ WorkerStep(w) \/ SendFails(w) PROVE Rowful'
  <2>1. worker[w].seen.at \in Nat
    BY DEF BindingInv, Shapes, Job, Sighted
  <2>2. CASE MarkPending(w) \/ MarkPushed(w) \/ MarkError(w) \/ BindTask(w) \/ MarkConflict(w)
               \/ MarkApplied(w)
    BY <2>1, <2>2 DEF MarkPending, MarkPushed, MarkError, BindTask, MarkConflict, MarkApplied
  <2>3. CASE binding' = binding
    BY <2>3
  <2> QED
    BY <1>1, <2>2, <2>3 DEF WorkerStep, StartPass, SendFails, FindLink, Plan, Send, StoreAnswer,
       FetchIssue, StoreIssue, ReadStored, FindByIssue, CreateTask, Reconcile, ApplyToTask, RecordPass
<1>2. CASE SettleRemote
  BY <1>2 DEF SettleRemote
<1>3. CASE (\E f \in Fields : RemoteEdit(f) \/ EditTask(f)) \/ SettleLocal \/ RestartWorkers
  BY <1>3 DEF RemoteEdit, EditTask, SettleLocal, RestartWorkers
<1>4. CASE UNCHANGED bindVars
  BY <1>4 DEF bindVars
<1> QED
  BY <1>1, <1>2, <1>3, <1>4 DEF BindNext

\* What GitHub has had it will have had.
LEMMA HasStays ==
  ASSUME Shapes, NEW fields \in Fieldful,
         history' = history \/ history' = Append(history, fields),
         NEW f, NEW v, Has(history, f, v)
  PROVE  Has(history', f, v)
<1>1. CASE history' = history
  BY <1>1
<1>2. CASE history' = Append(history, fields)
  <2>1. PICK i \in DOMAIN history : history[i][f] = v
    BY DEF Has
  <2>2. /\ history \in Seq(Fieldful)
        /\ Len(history') = Len(history) + 1 /\ \A j \in 1..Len(history) : history'[j] = history[j]
        /\ history' \in Seq(Fieldful)
    BY <1>2, AppendProperties DEF Shapes
  <2>3. i \in DOMAIN history' /\ history'[i][f] = v
    BY <2>1, <2>2
  <2> QED
    BY <2>3 DEF Has
<1> QED
  BY <1>1, <1>2

LEMMA NewestIsHad ==
  ASSUME Shapes, NEW fields \in Fieldful, history' = Append(history, fields), NEW f
  PROVE  Has(history', f, fields[f])
<1>1. history' \in Seq(Fieldful) /\ history' # <<>> /\ history'[Len(history')] = fields
  BY GrowingHistory
<1>2. Len(history') \in DOMAIN history'
  BY <1>1
<1> QED
  BY <1>1, <1>2 DEF Has

LEMMA CleanStays ==
  ASSUME Shapes, Clean, NEW fields \in Fieldful,
         history' = history \/ history' = Append(history, fields), task' = task
  PROVE  Clean'
<1>1. \A f \in Fields : Has(history', f, task[f])
  <2>1. ASSUME NEW f \in Fields PROVE Has(history', f, task[f])
    BY HasStays DEF Clean
  <2> QED
    BY <2>1
<1> QED
  BY <1>1 DEF Clean

\* A version is clean.
LEMMA CleanWritten ==
  ASSUME Shapes, NEW version \in Sighted, Real(version), version.at > 0,
         history' = history, task' = version.fields
  PROVE  Clean'
<1>1. version.at \in DOMAIN history /\ history[version.at] = version.fields
  BY DEF Shapes, Sighted, Real
<1>2. \A f \in Fields : Has(history, f, version.fields[f])
  BY <1>1 DEF Has
<1> QED
  BY <1>2 DEF Clean

\* A clean task has nothing to lose.
LEMMA CleanIsKept ==
  ASSUME Clean' PROVE CleanInv'
  BY DEF CleanInv, SyncedClean, TimerClean, RequestClean, AppliedClean, WholeClean

\* A worker that ends without touching the task: it leaves no unclean task that
\* its binding calls synced.
LEMMA CleanEnds ==
  ASSUME KeptInv, NEW w \in Workers, Done(w) \/ Finish(w),
         UNCHANGED <<history, task>>, mishaps \subseteq mishaps',
         Unbroken' /\ ~Clean =>
           \/ binding'.state # "synced"
           \/ w = "timer" /\ binding' = binding,
         Unbroken' /\ ~Clean /\ w = "request" => ~(Settling /\ binding.state = "synced")
  PROVE  CleanInv'
<1>1. "request" \in Workers /\ "timer" \in Workers /\ Workers = {"timer", "request"}
  BY DEF Workers
<1>2. worker'[w].pc \in {"idle", "record"} /\ \A v \in Workers \ {w} : worker'[v] = worker[v]
  BY WorkerEnds DEF KeptInv, BindingInv
<1>3. Unbroken' => Unbroken
  BY DEF Unbroken
<1>4. CleanInv /\ UNCHANGED <<history, task>> /\ Clean' = Clean
  BY DEF KeptInv, Clean
<1>5. CASE w = "timer"
  <2>1. worker'["request"] = worker["request"]
    BY <1>1, <1>2, <1>5
  <2>2. Settling' = Settling
    BY <2>1 DEF Settling
  <2>3. Pushing' = Pushing
    BY <1>4, <2>1 DEF Pushing
  <2> QED
    BY <1>1, <1>2, <1>3, <1>4, <1>5, <2>1, <2>2, <2>3
       DEF CleanInv, SyncedClean, TimerClean, RequestClean, AppliedClean, WholeClean
<1>6. CASE w = "request"
  BY <1>1, <1>2, <1>3, <1>4, <1>6
     DEF CleanInv, SyncedClean, TimerClean, RequestClean, AppliedClean, WholeClean
<1> QED
  BY <1>1, <1>5, <1>6

LEMMA EndingClean ==
  ASSUME KeptInv, NEW w \in Workers,
         \/ MarkPending(w) \/ MarkPushed(w) \/ MarkError(w) \/ MarkConflict(w) \/ MarkApplied(w)
         \/ RecordPass(w)
  PROVE  CleanInv'
<1>1. /\ Done(w) \/ Finish(w)
      /\ UNCHANGED <<history, task>> /\ mishaps \subseteq mishaps'
  BY DEF MarkPending, MarkPushed, MarkError, MarkConflict, MarkApplied, RecordPass, ghosts, Note
<1>2. Unbroken' => Unbroken
  BY <1>1 DEF Unbroken
<1>3. CleanInv /\ (worker[w].pc \in Editing => w = "request") /\ w \in {"timer", "request"}
  BY DEF KeptInv, Stepping, Workers
<1>4. CASE MarkPending(w) \/ MarkError(w) \/ MarkConflict(w)
  <2>1. binding'.state # "synced" /\ (w = "request" => ~Settling)
    BY <1>4 DEF MarkPending, MarkError, MarkConflict, Settling, KeptInv, Rowful
  <2> QED
    BY <1>1, <2>1, CleanEnds
<1>5. CASE RecordPass(w)
  <2>1. binding' = binding /\ (w = "request" => ~Settling /\ ~Pushing)
    BY <1>5 DEF RecordPass, Settling, Pushing
  <2> QED
    BY <1>1, <1>2, <1>3, <2>1, CleanEnds DEF CleanInv, SyncedClean
<1>6. CASE MarkApplied(w)
  <2>1. Unbroken' => Clean
    BY <1>2, <1>3, <1>6 DEF MarkApplied, CleanInv, AppliedClean
  <2> QED
    BY <1>1, <2>1, CleanEnds
<1>7. CASE MarkPushed(w)
  <2>1. w = "request" /\ worker[w].pc = "mark" /\ ~Settling /\ ~Pushing
    BY <1>3, <1>7 DEF MarkPushed, Editing, Settling, Pushing
  <2>2. Unbroken' => binding.state = "synced" \/ worker[w].field = "whole"
    BY <1>7 DEF MarkPushed, Unbroken
  <2>3. Unbroken' => Clean
    BY <1>2, <1>3, <2>1, <2>2 DEF CleanInv, SyncedClean, WholeClean
  <2> QED
    BY <1>1, <2>3, CleanEnds
<1> QED
  BY <1>4, <1>5, <1>6, <1>7

\* A request that goes on pushing one field.
LEMMA CleanPushes ==
  ASSUME KeptInv, NEW pc, Then("request", pc), UNCHANGED <<history, task, binding>>,
         mishaps \subseteq mishaps',
         worker["request"].pc \in {"link", "plan", "pending", "patch"},
         pc \in {"plan", "pending", "patch", "error"},
         pc = "patch" => worker["request"].field \in Fields
  PROVE  CleanInv'
<1>1. "request" \in Workers /\ Workers = {"timer", "request"}
  BY DEF Workers
<1>2. /\ worker'["request"].pc = pc /\ worker'["request"].field = worker["request"].field
      /\ worker'["request"].value = worker["request"].value
      /\ worker'["timer"] = worker["timer"]
  BY <1>1, WorkerThen DEF KeptInv, BindingInv
<1>3. (Unbroken' => Unbroken) /\ CleanInv /\ Clean' = Clean
  BY DEF Unbroken, KeptInv, Clean
<1>4. ~Settling /\ ~Settling' /\ (Pushing => Pushing')
  BY <1>2 DEF Settling, Pushing
<1> QED
  BY <1>1, <1>2, <1>3, <1>4, BindingConstants
     DEF CleanInv, SyncedClean, TimerClean, RequestClean, AppliedClean, WholeClean

LEMMA EditingClean ==
  ASSUME KeptInv, NEW w \in Workers, FindLink(w) \/ Plan(w) \/ StoreAnswer(w)
  PROVE  CleanInv'
<1>1. /\ worker[w].pc \in {"link", "plan", "answer"} /\ w = "request"
      /\ UNCHANGED <<history, task, binding>> /\ mishaps \subseteq mishaps'
  BY DEF FindLink, Plan, StoreAnswer, KeptInv, Stepping, Editing, ghosts, Note
<1>2. CleanInv /\ (Unbroken' => Unbroken) /\ ~Settling /\ "request" \in Workers
  BY <1>1 DEF KeptInv, Unbroken, Settling, Workers
<1>3. CASE FindLink(w)
  <2>1. worker[w].pc = "link" /\ ((Done(w) /\ binding.state = "none") \/ Then(w, "plan"))
    BY <1>3 DEF FindLink
  <2>2. CASE Done(w) /\ binding.state = "none"
    BY <1>1, <2>2, CleanEnds
  <2>3. CASE Then(w, "plan")
    BY <1>1, <2>1, <2>3, CleanPushes
  <2> QED
    BY <2>1, <2>2, <2>3
<1>4. CASE Plan(w)
  <2>1. worker[w].pc = "plan"
    BY <1>4 DEF Plan
  <2>2. CASE NothingToSend(w) /\ Done(w)
    <3>1. Unbroken' /\ binding.state = "synced" => Clean
      <4> SUFFICES ASSUME Unbroken', binding.state = "synced" PROVE Clean
        OBVIOUS
      <4>1. Clean \/ Pushing
        BY <1>2 DEF CleanInv, SyncedClean
      <4>2. stored \in Sighted /\ Real(stored) /\ stored.at > 0
        BY DEF KeptInv, BindingInv, Shapes, RealInv, Stepping
      <4>3. stored.at \in DOMAIN history /\ history[stored.at] = stored.fields
        BY <4>2 DEF KeptInv, BindingInv, Shapes, Sighted, Real
      <4>4. ASSUME NEW f \in Fields, f = worker[w].field PROVE Has(history, f, worker[w].value[f])
        BY <2>2, <4>3, <4>4 DEF NothingToSend, Has
      <4> QED
        BY <1>1, <4>1, <4>4 DEF Pushing, Clean
    <3> QED
      BY <1>1, <1>2, <2>2, <3>1, CleanEnds
  <2>3. ASSUME NEW pc \in {"patch", "pending"}, Then(w, pc) PROVE CleanInv'
    <3>1. worker["request"].field \in Fields
      BY <1>1, <2>1 DEF KeptInv, Stepping
    <3> QED
      BY <1>1, <2>1, <2>3, <3>1, CleanPushes
  <2> QED
    BY <1>4, <2>2, <2>3 DEF Plan
<1>5. CASE StoreAnswer(w)
  <2>1. worker[w].pc = "answer" /\ Then(w, "mark")
    BY <1>5 DEF StoreAnswer
  <2>2. /\ worker'["request"].pc = "mark" /\ worker'["request"].field = worker["request"].field
        /\ worker'["timer"] = worker["timer"]
    BY <1>1, <1>2, <2>1, WorkerThen DEF KeptInv, BindingInv, Workers
  <2>3. ~Pushing /\ Clean' = Clean
    BY <1>1, <2>1 DEF Pushing, Clean
  <2> QED
    BY <1>1, <1>2, <2>1, <2>2, <2>3
       DEF CleanInv, SyncedClean, TimerClean, RequestClean, AppliedClean, WholeClean, Workers
<1> QED
  BY <1>3, <1>4, <1>5

\* Sending a field makes it GitHub's, and sending the task makes all of it so.
LEMMA SendingClean ==
  ASSUME KeptInv, NEW w \in Workers, Send(w) \/ (SendFails(w) /\ Patching(w))
  PROVE  CleanInv'
<1> DEFINE fields == Patched(history[Len(history)], Patch(worker[w].field, worker[w].value))
<1>1. /\ worker[w].pc = "patch" /\ w = "request" /\ history' = Append(history, fields)
      /\ UNCHANGED <<task, binding, mishaps>>
      /\ "request" \in Workers /\ Workers = {"timer", "request"}
  BY DEF Send, SendFails, Patching, KeptInv, Stepping, Editing, ghosts, Workers
<1>2. fields \in Fieldful /\ Shapes /\ worker[w] \in Job
  BY PatchedIsFieldful DEF KeptInv, BindingInv, Shapes
<1>3. /\ worker'["request"].pc \in {"answer", "error"} /\ worker'["request"].field = worker["request"].field
      /\ worker'["timer"] = worker["timer"]
  <2>1. CASE Send(w)
    <3> DEFINE job == [worker[w] EXCEPT !.pc = "answer", !.value = Unset,
                         !.seen = [fields |-> history'[Len(history')], at |-> Len(history')]]
    <3>1. job.pc = "answer" /\ job.field = worker[w].field
      BY <1>2 DEF Job
    <3>2. Do(w, job)
      BY <2>1 DEF Send
    <3> QED
      BY <1>1, <1>2, <3>1, <3>2, WorkerDoes
  <2>2. CASE SendFails(w)
    BY <1>1, <1>2, <2>2, WorkerThen DEF SendFails
  <2> QED
    BY <2>1, <2>2
<1>4. CleanInv /\ ~Settling /\ Unbroken' = Unbroken
  BY <1>1 DEF KeptInv, Settling, Unbroken
<1>5. ASSUME Clean PROVE CleanInv'
  <2>1. Clean'
    BY <1>1, <1>2, <1>5, CleanStays
  <2> QED
    BY <2>1, CleanIsKept
<1>6. CASE worker["request"].field \in Fields /\ Pushing
  <2>1. ASSUME NEW f \in Fields PROVE Has(history', f, task[f])
    <3>1. CASE Has(history, f, task[f])
      BY <1>1, <1>2, <3>1, HasStays
    <3>2. CASE f = worker["request"].field /\ task[f] = worker["request"].value[f]
      <4>1. f \in DOMAIN Patch(f, worker[w].value) /\ Patch(f, worker[w].value)[f] = worker[w].value[f]
        BY BindingConstants DEF Patch
      <4>2. fields[f] = task[f]
        BY <1>1, <3>2, <4>1 DEF Patched
      <4> QED
        BY <1>1, <1>2, <4>2, NewestIsHad
    <3> QED
      BY <1>6, <3>1, <3>2 DEF Pushing
  <2>2. Clean'
    BY <1>1, <2>1 DEF Clean
  <2> QED
    BY <2>2, CleanIsKept
<1>7. CASE worker["request"].field = "whole" /\ task = worker["request"].value
  <2>1. ASSUME NEW f \in Fields PROVE Has(history', f, task[f])
    <3>1. f \in DOMAIN Patch("whole", worker[w].value) /\ Patch("whole", worker[w].value)[f] = worker[w].value[f]
      BY DEF Patch
    <3>2. fields[f] = task[f]
      BY <1>1, <1>7, <3>1 DEF Patched
    <3> QED
      BY <1>1, <1>2, <3>2, NewestIsHad
  <2>2. Clean'
    BY <1>1, <2>1 DEF Clean
  <2> QED
    BY <2>2, CleanIsKept
<1>8. CASE ~Clean /\ ~Pushing /\ worker["request"].field # "whole"
  <2>1. ~(Unbroken /\ binding.state = "synced") /\ ~(Unbroken /\ worker["timer"].pc = "apply")
        /\ ~(Unbroken /\ worker["timer"].pc = "applied")
    BY <1>1, <1>4, <1>8 DEF CleanInv, SyncedClean, TimerClean, AppliedClean
  <2> QED
    BY <1>1, <1>3, <1>4, <1>8, <2>1 DEF CleanInv, SyncedClean, TimerClean, RequestClean, AppliedClean, WholeClean
<1>9. worker["request"].field = "whole" => Clean \/ task = worker["request"].value
  BY <1>1, <1>4 DEF CleanInv, WholeClean
<1>10. Pushing => worker["request"].field \in Fields
  BY DEF Pushing
<1> QED
  BY <1>5, <1>6, <1>7, <1>8, <1>9, <1>10

LEMMA RefusedClean ==
  ASSUME KeptInv, NEW w \in Workers, SendFails(w), history' = history
  PROVE  CleanInv'
<1>1. w = "request" /\ Then("request", "error") /\ UNCHANGED <<history, task, binding, mishaps>>
      /\ worker["request"].pc = "patch"
  BY DEF SendFails, KeptInv, Stepping, Editing
<1> QED
  BY <1>1, CleanPushes

\* A pass on its way to the task, or to another.
LEMMA PassingClean ==
  ASSUME KeptInv, NEW w \in Workers,
         StartPass(w) \/ FetchIssue(w) \/ StoreIssue(w) \/ ReadStored(w) \/ FindByIssue(w)
           \/ CreateTask(w)
  PROVE  CleanInv'
<1>1. /\ UNCHANGED <<history, task, binding>> /\ mishaps \subseteq mishaps'
      /\ "request" \in Workers /\ Workers = {"timer", "request"} /\ Shapes /\ worker[w] \in Job
  BY DEF StartPass, FetchIssue, StoreIssue, ReadStored, FindByIssue, CreateTask, ghosts, Note, Workers,
     KeptInv, BindingInv, Shapes
<1>2. CleanInv /\ Clean' = Clean /\ (Unbroken' => Unbroken)
  BY <1>1 DEF KeptInv, Clean, Unbroken
<1>3. /\ \A v \in Workers \ {w} : worker'[v] = worker[v]
      /\ \/ worker[w].pc \notin {"lookup", "verdict", "apply"} /\ worker'[w].pc \notin {"patch", "answer", "mark", "apply", "applied"}
         \/ /\ worker[w].pc = "lookup" /\ worker'[w].pass = worker[w].pass
            /\ IF binding.state = "none" THEN worker'[w].pc = "create" ELSE worker'[w].pc = "verdict"
      /\ worker[w].pc \notin {"link", "plan", "pending", "patch", "error"}
  <2>1. CASE StartPass(w)
    <3> DEFINE job == [NoWork EXCEPT !.pc = "fetch", !.pass = TRUE]
    <3>1. job.pc = "fetch"
      BY DEF NoWork
    <3> QED
      BY <1>1, <2>1, <3>1, WorkerDoes DEF StartPass
  <2>2. CASE FetchIssue(w)
    <3> DEFINE job == [worker[w] EXCEPT !.pc = "store", !.seen = Remote, !.fetched = Len(history)]
    <3>1. job.pc = "store"
      BY <1>1 DEF Job
    <3> QED
      BY <1>1, <2>2, <3>1, WorkerDoes DEF FetchIssue
  <2>3. CASE StoreIssue(w)
    <3> DEFINE job == [worker[w] EXCEPT !.pc = "stored", !.seen = NoWork.seen]
    <3>1. job.pc = "stored"
      BY <1>1 DEF Job
    <3> QED
      BY <1>1, <2>3, <3>1, WorkerDoes DEF StoreIssue
  <2>4. CASE ReadStored(w)
    <3> DEFINE job == [worker[w] EXCEPT !.pc = "lookup", !.seen = stored]
    <3>1. job.pc = "lookup"
      BY <1>1 DEF Job
    <3> QED
      BY <1>1, <2>4, <3>1, WorkerDoes DEF ReadStored
  <2>5. CASE FindByIssue(w) \/ CreateTask(w)
    BY <1>1, <2>5, WorkerThen DEF FindByIssue, CreateTask
  <2> QED
    BY <2>1, <2>2, <2>3, <2>4, <2>5
<1>4. CASE w = "timer"
  <2>1. worker'["request"] = worker["request"] /\ worker'["timer"].pc \notin {"apply", "applied"}
    BY <1>1, <1>3, <1>4
  <2>2. Settling' = Settling /\ Pushing' = Pushing
    BY <1>1, <2>1 DEF Settling, Pushing
  <2> QED
    BY <1>1, <1>2, <2>1, <2>2
       DEF CleanInv, SyncedClean, TimerClean, RequestClean, AppliedClean, WholeClean
<1>5. CASE w = "request"
  <2>1. worker'["timer"] = worker["timer"] /\ worker'["request"].pc \notin {"patch", "answer", "mark", "apply", "applied"}
        /\ ~Pushing
    BY <1>1, <1>3, <1>5 DEF Pushing
  <2>2. Settling /\ binding.state = "synced" => Settling'
    BY <1>3, <1>5 DEF Settling
  <2> QED
    BY <1>1, <1>2, <2>1, <2>2
       DEF CleanInv, SyncedClean, TimerClean, RequestClean, AppliedClean, WholeClean
<1> QED
  BY <1>1, <1>4, <1>5

LEMMA WritingClean ==
  ASSUME KeptInv, NEW w \in Workers, BindTask(w) \/ ApplyToTask(w)
  PROVE  CleanInv'
<1>1. /\ worker[w].seen \in Sighted /\ Real(worker[w].seen) /\ worker[w].seen.at > 0 /\ Shapes
      /\ history' = history /\ w \in {"timer", "request"}
  BY DEF KeptInv, BindingInv, Shapes, Job, RealInv, Stepping, BindTask, ApplyToTask, Deciding, Workers
<1>2. CASE task' = worker[w].seen.fields
  BY <1>1, <1>2, CleanWritten, CleanIsKept
<1>3. CASE BindTask(w) /\ Done(w) /\ UNCHANGED <<binding, task>>
  <2>1. worker[w].pc = "bind" /\ mishaps \subseteq mishaps' /\ CleanInv
    BY <1>3 DEF BindTask, Note, KeptInv
  <2>2. w = "request" => ~Settling /\ ~Pushing
    BY <2>1 DEF Settling, Pushing
  <2>3. Unbroken' /\ ~Clean => binding.state # "synced" \/ w = "timer"
    BY <1>1, <2>1, <2>2 DEF CleanInv, SyncedClean, Unbroken
  <2> QED
    BY <1>1, <1>3, <2>1, <2>2, <2>3, CleanEnds
<1> QED
  BY <1>2, <1>3 DEF BindTask, ApplyToTask

\* The decision: the timer's, while a request edits, crosses the edit.
LEMMA DecidingClean ==
  ASSUME KeptInv, NEW w \in Workers, Reconcile(w)
  PROVE  CleanInv'
<1>1. /\ worker[w].pc = "verdict" /\ UNCHANGED <<history, task, binding>> /\ mishaps \subseteq mishaps'
      /\ "request" \in Workers /\ Workers = {"timer", "request"} /\ Shapes /\ CleanInv
  BY DEF Reconcile, Note, Workers, KeptInv, BindingInv
<1>2. Clean' = Clean /\ (Unbroken' => Unbroken)
  BY <1>1 DEF Clean, Unbroken
<1>3. \/ binding.state # "synced" /\ Finish(w)
      \/ binding.state # "synced" /\ Then(w, "conflict")
      \/ binding.state = "synced" /\ Then(w, "apply")
  BY DEF Reconcile, Verdict
<1>4. CASE binding.state # "synced" /\ Finish(w)
  BY <1>1, <1>4, CleanEnds
<1>5. CASE binding.state # "synced" /\ Then(w, "conflict")
  <2>1. worker'[w].pc = "conflict" /\ \A v \in Workers \ {w} : worker'[v] = worker[v]
    BY <1>1, <1>5, WorkerThen
  <2> QED
    BY <1>1, <1>2, <1>5, <2>1
       DEF CleanInv, SyncedClean, TimerClean, RequestClean, AppliedClean, WholeClean
<1>6. CASE binding.state = "synced" /\ Then(w, "apply")
  <2>1. /\ worker'[w].pc = "apply" /\ worker'[w].pass = worker[w].pass
        /\ \A v \in Workers \ {w} : worker'[v] = worker[v]
    BY <1>1, <1>6, WorkerThen
  <2>2. CASE w = "timer"
    <3>1. worker'["request"] = worker["request"]
      BY <1>1, <2>1, <2>2
    <3>2. Unbroken' => ~Pushing
      BY <2>2 DEF Reconcile, Note, Unbroken, Pushing, Editing
    <3>3. Settling' = Settling
      BY <3>1 DEF Settling
    <3> QED
      BY <1>1, <1>2, <1>6, <2>1, <2>2, <3>1, <3>2, <3>3
         DEF CleanInv, SyncedClean, TimerClean, RequestClean, AppliedClean, WholeClean
  <2>3. CASE w = "request"
    <3>1. ~Pushing /\ (Settling => Settling' /\ ~worker'["request"].pass)
          /\ (worker'["request"].pass => ~Settling)
      BY <1>1, <2>1, <2>3 DEF Pushing, Settling
    <3> QED
      BY <1>1, <1>2, <1>6, <2>1, <2>3, <3>1
         DEF CleanInv, SyncedClean, TimerClean, RequestClean, AppliedClean, WholeClean
  <2> QED
    BY <1>1, <2>2, <2>3
<1> QED
  BY <1>3, <1>4, <1>5, <1>6

LEMMA RequestingClean ==
  ASSUME KeptInv, (\E f \in Fields : EditTask(f)) \/ SettleRemote \/ SettleLocal
  PROVE  CleanInv'
<1>1. "request" \in Workers /\ Workers = {"timer", "request"} /\ Shapes /\ CleanInv
  BY DEF Workers, KeptInv, BindingInv
<1>2. /\ worker["request"].pc = "idle" /\ ~Settling /\ ~Pushing
      /\ history' = history /\ mishaps \subseteq mishaps' /\ (Unbroken' => Unbroken)
  BY DEF EditTask, SettleRemote, SettleLocal, Note, Settling, Pushing, Unbroken
<1>3. ASSUME NEW f \in Fields, EditTask(f) PROVE CleanInv'
  <2> DEFINE job == [NoWork EXCEPT !.pc = "link", !.field = f, !.value[f] = Fresh]
  <2>1. job.pc = "link" /\ job.field = f /\ job.value[f] = Fresh
    BY <1>3 DEF NoWork, Unset
  <2>2. /\ Do("request", job) /\ binding' = binding
        /\ task' = [task EXCEPT ![f] = Fresh]
    BY <1>3 DEF EditTask
  <2>3. /\ worker'["request"].pc = "link" /\ worker'["request"].field = f
        /\ worker'["request"].value[f] = Fresh /\ worker'["timer"] = worker["timer"]
    BY <1>1, <2>1, <2>2, WorkerDoes
  <2>4. Unbroken' => worker["timer"].pc \notin {"apply", "applied"}
    BY <1>3 DEF EditTask, Note, Unbroken, Deciding
  <2>5. ASSUME Clean PROVE Pushing'
    <3>1. ASSUME NEW g \in Fields
          PROVE  Has(history, g, task'[g]) \/ (g = f /\ task'[g] = worker'["request"].value[f])
      <4>1. CASE g = f
        BY <1>1, <2>2, <2>3, <4>1 DEF Shapes, Fieldful
      <4>2. CASE g # f
        BY <1>1, <2>2, <2>5, <4>2 DEF Shapes, Fieldful, Clean
      <4> QED
        BY <4>1, <4>2
    <3> QED
      BY <1>2, <2>3, <3>1 DEF Pushing
  <2>6. f # "whole"
    BY BindingConstants
  <2> QED
    BY <1>1, <1>2, <2>2, <2>3, <2>4, <2>5, <2>6
       DEF CleanInv, SyncedClean, TimerClean, RequestClean, AppliedClean, WholeClean
<1>4. CASE SettleRemote
  <2> DEFINE job == [NoWork EXCEPT !.pc = "lookup", !.seen = stored]
  <2>1. job.pc = "lookup" /\ job.pass = FALSE
    BY DEF NoWork
  <2>2. Do("request", job) /\ task' = task /\ binding' = [binding EXCEPT !.state = "synced"]
    BY <1>4 DEF SettleRemote
  <2>3. /\ worker'["request"].pc = "lookup" /\ worker'["request"].pass = FALSE
        /\ worker'["timer"] = worker["timer"]
    BY <1>1, <2>1, <2>2, WorkerDoes
  <2>4. Settling' /\ Clean' = Clean
    BY <1>2, <2>2, <2>3 DEF Settling, Clean
  <2> QED
    BY <1>1, <1>2, <2>3, <2>4
       DEF CleanInv, SyncedClean, TimerClean, RequestClean, AppliedClean, WholeClean
<1>5. CASE SettleLocal
  <2> DEFINE job == [NoWork EXCEPT !.pc = "patch", !.value = task]
  <2>1. job.pc = "patch" /\ job.value = task
    BY DEF NoWork
  <2>2. Do("request", job) /\ UNCHANGED <<task, binding>>
    BY <1>5 DEF SettleLocal
  <2>3. /\ worker'["request"].pc = "patch" /\ worker'["request"].value = task
        /\ worker'["timer"] = worker["timer"]
    BY <1>1, <2>1, <2>2, WorkerDoes
  <2>4. Clean' = Clean
    BY <1>2, <2>2 DEF Clean
  <2> QED
    BY <1>1, <1>2, <2>2, <2>3, <2>4
       DEF CleanInv, SyncedClean, TimerClean, RequestClean, AppliedClean, WholeClean
<1> QED
  BY <1>3, <1>4, <1>5

LEMMA ChangedClean ==
  ASSUME KeptInv, NEW f \in Fields, RemoteEdit(f)
  PROVE  CleanInv'
<1> DEFINE fields == [history[Len(history)] EXCEPT ![f] = Fresh]
<1>1. /\ history' = Append(history, fields) /\ UNCHANGED <<task, binding, worker, mishaps>>
      /\ Shapes /\ CleanInv
  BY DEF RemoteEdit, KeptInv, BindingInv
<1>2. fields \in Fieldful
  <2>1. edits \in Nat /\ history[Len(history)] \in Fieldful
    BY <1>1, RemoteIsReal DEF Shapes
  <2> QED
    BY <2>1 DEF Fieldful, Fresh
<1>3. Clean => Clean'
  BY <1>1, <1>2, CleanStays
<1>4. Settling' = Settling /\ Unbroken' = Unbroken
  BY <1>1 DEF Settling, Unbroken
<1>5. ASSUME Pushing PROVE Pushing'
  <2>1. ASSUME NEW g \in Fields, Has(history, g, task[g]) PROVE Has(history', g, task[g])
    BY <1>1, <1>2, <2>1, HasStays
  <2> QED
    BY <1>1, <1>5, <2>1 DEF Pushing
<1> QED
  BY <1>1, <1>3, <1>4, <1>5
     DEF CleanInv, SyncedClean, TimerClean, RequestClean, AppliedClean, WholeClean

LEMMA CleanStep == KeptInv /\ [BindNext]_bindVars => CleanInv'
<1> SUFFICES ASSUME KeptInv, [BindNext]_bindVars PROVE CleanInv'
  OBVIOUS
<1>1. ASSUME NEW w \in Workers, StartPass(w) \/ WorkerStep(w) PROVE CleanInv'
  BY <1>1, EndingClean, EditingClean, SendingClean, PassingClean, WritingClean, DecidingClean
     DEF WorkerStep
<1>2. ASSUME NEW w \in Workers, SendFails(w) PROVE CleanInv'
  <2>1. Patching(w) \/ history' = history
    BY <1>2 DEF SendFails
  <2> QED
    BY <1>2, <2>1, SendingClean, RefusedClean
<1>3. CASE RestartWorkers
  <2>1. ~Unbroken' /\ worker'["request"].pc = "idle"
    BY <1>3 DEF RestartWorkers, Unbroken, Workers, NoWork
  <2> QED
    BY <2>1 DEF CleanInv, SyncedClean, TimerClean, RequestClean, AppliedClean, WholeClean
<1>4. CASE UNCHANGED bindVars
  BY <1>4 DEF bindVars, KeptInv, CleanInv, SyncedClean, TimerClean, RequestClean, AppliedClean,
     WholeClean, Clean, Settling, Pushing, Unbroken
<1> QED
  BY <1>1, <1>2, <1>3, <1>4, RequestingClean, ChangedClean DEF BindNext

LEMMA KeptInvariant == BindSpec => []KeptInv
<1>1. BindInit => KeptInv
  BY InitReal, InitKept DEF KeptInv
<1>2. KeptInv /\ [BindNext]_bindVars => KeptInv'
  BY BindingStep, RowfulStep, SteppingStep, CleanStep DEF KeptInv
<1> QED
  BY <1>1, <1>2, PTL DEF BindSpec

\* An edit made here that GitHub never had is not overwritten by a pass,
\* whatever edits, passes and failing pushes come before it: what write()
\* records in the binding, and reconcileBinding heeds.  The exceptions are those
\* of the property: a settlement under way, and what the code leaves open.
THEOREM EditsKept == BindSpec => EditsAreKept
<1> DEFINE Kept == \A w \in Workers :
       worker[w].pc = "apply" /\ worker[w].pass /\ task' # task =>
         \/ \A f \in Fields : \/ task'[f] = task[f]
                              \/ \E i \in DOMAIN history : history[i][f] = task[f]
         \/ worker["request"].pc # "idle" /\ ~worker["request"].pass
         \/ mishaps \cap {"crossed", "stale", "masked", "cut"} # {}
<1>1. KeptInv => Kept
  <2> SUFFICES ASSUME KeptInv, NEW w \in Workers, worker[w].pc = "apply", worker[w].pass, Unbroken,
                      ~(worker["request"].pc # "idle" /\ ~worker["request"].pass)
               PROVE  Clean
    BY DEF Clean, Has, Unbroken
  <2>1. CleanInv /\ w \in {"timer", "request"} /\ ~Settling
    BY DEF KeptInv, Workers, Settling
  <2> QED
    BY <2>1 DEF CleanInv, TimerClean, RequestClean
<1>2. KeptInv /\ [BindNext]_bindVars => [Kept]_bindVars
  BY <1>1
<1>3. BindSpec => [][Kept]_bindVars
  BY <1>2, KeptInvariant, PTL DEF BindSpec
<1> QED
  BY <1>3 DEF EditsAreKept

-----------------------------------------------------------------------------
(***************************************************************************)
(* Created and bound: NoStrayTask.  Once there is a binding there always   *)
(* is one.  As long as one pass runs at a time, the one that found none is *)
(* the only worker that can make one, so its own binding succeeds.         *)
(***************************************************************************)

Uncut == mishaps \cap {"twofold", "cut"} = {}

\* What a worker only does for an issue that is bound: a request that is not
\* a pass begins at the lookup.
ForBound(job) ==
  \/ job.pc \in (Editing \ {"link"}) \cup {"verdict"} \cup Deciding
  \/ job.pc \in {"fetch", "store", "stored", "lookup"} /\ ~job.pass

Creating(job) == job.pc \in {"create", "bind"}

BoundInv == \A w \in Workers : ForBound(worker[w]) => binding.state # "none"

OnePass == \A v, w \in Workers : worker[v].pass /\ worker[w].pass => v = w

CreatingInv == \A w \in Workers : Creating(worker[w]) => worker[w].pass /\ binding.state = "none"

StraysInv == strays = IF \E w \in Workers : worker[w].pc = "bind" THEN 1 ELSE 0

StrayInv == BoundInv /\ (Uncut => OnePass /\ CreatingInv /\ StraysInv)

\* A step of one worker that neither begins a pass nor creates nor binds.
LEMMA StrayGoesOn ==
  ASSUME Shapes, Rowful, StrayInv, NEW w \in Workers, NEW job, Do(w, job),
         mishaps \subseteq mishaps', strays' = strays,
         binding'.state = binding.state \/ (binding.state # "none" /\ binding'.state # "none"),
         ForBound(job) => binding'.state # "none",
         job.pass => worker[w].pass,
         job.pc # "bind" /\ worker[w].pc # "bind",
         job.pc = "create" => job.pass /\ binding.state = "none"
  PROVE  StrayInv'
<1>1. worker'[w] = job /\ \A v \in Workers \ {w} : worker'[v] = worker[v]
  BY WorkerDoes
<1>2. BoundInv'
  BY <1>1 DEF StrayInv, BoundInv, ForBound
<1>3. ASSUME Uncut' PROVE OnePass' /\ CreatingInv' /\ StraysInv'
  <2>1. OnePass /\ CreatingInv /\ StraysInv
    BY <1>3 DEF Uncut, StrayInv
  <2>2. OnePass'
    BY <1>1, <2>1 DEF OnePass
  <2>3. CreatingInv'
    BY <1>1, <2>1 DEF CreatingInv, Creating
  <2>4. (\E v \in Workers : worker[v].pc = "bind")' <=> \E v \in Workers : worker[v].pc = "bind"
    BY <1>1
  <2> QED
    BY <2>1, <2>2, <2>3, <2>4 DEF StraysInv
<1> QED
  BY <1>2, <1>3 DEF StrayInv

\* What is left behind by a worker that ends.
LEMMA EndsAs ==
  ASSUME Shapes, NEW w \in Workers, Done(w) \/ Finish(w)
  PROVE  \E job : /\ Do(w, job) /\ job.pc \in {"idle", "record"}
                  /\ job.pass => worker[w].pass
<1> DEFINE recording == [NoWork EXCEPT !.pc = "record", !.pass = TRUE, !.fetched = worker[w].fetched]
<1>1. recording.pc = "record" /\ NoWork.pc = "idle" /\ NoWork.pass = FALSE
  BY DEF NoWork
<1>2. (Do(w, recording) /\ worker[w].pass) \/ Do(w, NoWork)
  BY DEF Done, Do, Finish
<1> HIDE DEF recording
<1> QED
  BY <1>1, <1>2

LEMMA GoesOnAs ==
  ASSUME Shapes, NEW w \in Workers, NEW pc, Then(w, pc)
  PROVE  \E job : Do(w, job) /\ job.pc = pc /\ job.pass = worker[w].pass
<1> DEFINE job == [worker[w] EXCEPT !.pc = pc]
<1>1. job.pc = pc /\ job.pass = worker[w].pass
  BY DEF Shapes, Job
<1>2. Do(w, job)
  BY DEF Then, Do
<1> HIDE DEF job
<1> QED
  BY <1>1, <1>2

\* Between its first and its last call, a push or a verdict is about a binding.
LEMMA StrayMarks ==
  ASSUME Shapes, Rowful, StrayInv, NEW w \in Workers,
         \/ MarkPending(w) \/ MarkPushed(w) \/ MarkError(w) \/ MarkConflict(w) \/ MarkApplied(w)
  PROVE  StrayInv'
<1>1. /\ worker[w].pc \in {"pending", "mark", "error", "conflict", "applied"}
      /\ Done(w) \/ Finish(w)
      /\ strays' = strays /\ mishaps \subseteq mishaps'
      /\ binding'.state # "none"
  BY DEF MarkPending, MarkPushed, MarkError, MarkConflict, MarkApplied, Rowful, Note, ghosts, quiet
<1>2. binding.state # "none"
  BY <1>1 DEF StrayInv, BoundInv, ForBound, Editing, Deciding
<1>3. PICK job : Do(w, job) /\ job.pc \in {"idle", "record"} /\ (job.pass => worker[w].pass)
  BY <1>1, EndsAs
<1>4. ~ForBound(job) /\ job.pc \notin {"bind", "create"} /\ worker[w].pc # "bind"
  BY <1>1, <1>3 DEF ForBound, Editing, Deciding
<1> QED
  BY <1>1, <1>2, <1>3, <1>4, StrayGoesOn

\* A worker that ends without a mark.
LEMMA StrayEnds ==
  ASSUME Shapes, Rowful, StrayInv, NEW w \in Workers, Done(w) \/ Finish(w),
         worker[w].pc # "bind", strays' = strays, mishaps \subseteq mishaps', binding' = binding
  PROVE  StrayInv'
<1>1. PICK job : Do(w, job) /\ job.pc \in {"idle", "record"} /\ (job.pass => worker[w].pass)
  BY EndsAs
<1>2. ~ForBound(job) /\ job.pc \notin {"bind", "create"}
  BY <1>1 DEF ForBound, Editing, Deciding
<1> QED
  BY <1>1, <1>2, StrayGoesOn

\* A worker that goes on, with a binding if that is what its next call is for.
LEMMA StrayThen ==
  ASSUME Shapes, Rowful, StrayInv, NEW w \in Workers, NEW pc, Then(w, pc),
         worker[w].pc # "bind", pc \notin {"fetch", "store", "stored", "lookup", "bind"},
         strays' = strays, mishaps \subseteq mishaps', binding' = binding,
         pc \in (Editing \ {"link"}) \cup {"verdict"} \cup Deciding => binding.state # "none",
         pc = "create" => worker[w].pass /\ binding.state = "none"
  PROVE  StrayInv'
<1>1. PICK job : Do(w, job) /\ job.pc = pc /\ job.pass = worker[w].pass
  BY GoesOnAs
<1>2. ForBound(job) => binding.state # "none"
  BY <1>1 DEF ForBound
<1> QED
  BY <1>1, <1>2, StrayGoesOn

LEMMA StrayEditing ==
  ASSUME Shapes, Rowful, StrayInv, NEW w \in Workers,
         FindLink(w) \/ Plan(w) \/ SendFails(w) \/ StoreAnswer(w)
  PROVE  StrayInv'
<1> USE DEF Editing, Deciding
<1>1. strays' = strays /\ mishaps \subseteq mishaps' /\ binding' = binding
  BY DEF FindLink, Plan, SendFails, StoreAnswer, Note, ghosts, quiet
<1>2. worker[w].pc \in {"link", "plan", "patch", "answer"}
  BY DEF FindLink, Plan, SendFails, StoreAnswer
<1>3. worker[w].pc # "link" => binding.state # "none"
  BY <1>2 DEF StrayInv, BoundInv, ForBound
<1>4. Done(w) \/ \E pc \in {"plan", "patch", "pending", "error", "mark"} :
                     Then(w, pc) /\ binding.state # "none"
  BY <1>3 DEF FindLink, Plan, SendFails, StoreAnswer
<1> QED
  BY <1>1, <1>2, <1>4, StrayEnds, StrayThen

LEMMA StraySending ==
  ASSUME Shapes, Rowful, StrayInv, NEW w \in Workers, Send(w)
  PROVE  StrayInv'
<1> DEFINE job == [worker[w] EXCEPT !.pc = "answer", !.value = Unset,
                     !.seen = [fields |-> history'[Len(history')], at |-> Len(history')]]
<1>1. /\ worker[w].pc = "patch" /\ Do(w, job)
      /\ binding' = binding /\ strays' = strays /\ mishaps' = mishaps
  BY DEF Send, ghosts
<1>2. job.pc = "answer" /\ job.pass = worker[w].pass
  BY DEF Shapes, Job
<1>3. binding.state # "none"
  BY <1>1 DEF StrayInv, BoundInv, ForBound, Editing
<1> HIDE DEF job
<1> QED
  BY <1>1, <1>2, <1>3, StrayGoesOn

LEMMA StrayReading ==
  ASSUME Shapes, Rowful, StrayInv, NEW w \in Workers,
         FetchIssue(w) \/ StoreIssue(w) \/ ReadStored(w)
  PROVE  StrayInv'
<1> DEFINE fetched == [worker[w] EXCEPT !.pc = "store", !.seen = Remote, !.fetched = Len(history)]
           storing == [worker[w] EXCEPT !.pc = "stored", !.seen = NoWork.seen]
           found == [worker[w] EXCEPT !.pc = "lookup", !.seen = stored]
<1>1. binding' = binding /\ strays' = strays /\ mishaps \subseteq mishaps'
  BY DEF FetchIssue, StoreIssue, ReadStored, Note, ghosts, quiet
<1>2. /\ fetched.pc = "store" /\ fetched.pass = worker[w].pass
      /\ storing.pc = "stored" /\ storing.pass = worker[w].pass
      /\ found.pc = "lookup" /\ found.pass = worker[w].pass
  BY DEF Shapes, Job
<1>3. \/ worker[w].pc = "fetch" /\ Do(w, fetched)
      \/ worker[w].pc = "store" /\ Do(w, storing)
      \/ worker[w].pc = "stored" /\ Do(w, found)
  BY DEF FetchIssue, StoreIssue, ReadStored
<1> HIDE DEF fetched, storing, found
<1>4. ASSUME NEW job \in {fetched, storing, found}, Do(w, job),
             worker[w].pc \in {"fetch", "store", "stored"}
      PROVE  StrayInv'
  <2>1. job.pc \in {"store", "stored", "lookup"} /\ job.pass = worker[w].pass
    BY <1>2, <1>4
  <2>2. ~worker[w].pass => binding.state # "none"
    BY <1>4 DEF StrayInv, BoundInv, ForBound
  <2>3. ForBound(job) => binding.state # "none"
    BY <2>1, <2>2 DEF ForBound, Editing, Deciding
  <2> QED
    BY <1>1, <1>4, <2>1, <2>3, StrayGoesOn
<1> QED
  BY <1>3, <1>4

LEMMA StrayPassing ==
  ASSUME Shapes, Rowful, StrayInv, NEW w \in Workers,
         FindByIssue(w) \/ Reconcile(w) \/ ApplyToTask(w) \/ RecordPass(w)
  PROVE  StrayInv'
<1> USE DEF Editing, Deciding
<1>1. strays' = strays /\ mishaps \subseteq mishaps' /\ binding' = binding
  BY DEF FindByIssue, Reconcile, ApplyToTask, RecordPass, Note, ghosts, quiet
<1>2. CASE FindByIssue(w)
  <2>1. worker[w].pc = "lookup" /\ (~worker[w].pass => binding.state # "none")
    BY <1>2 DEF FindByIssue, StrayInv, BoundInv, ForBound
  <2>2. \/ binding.state = "none" /\ Then(w, "create") /\ worker[w].pass
        \/ binding.state # "none" /\ Then(w, "verdict")
    <3>1. worker[w].pass \in BOOLEAN
      BY DEF Shapes, Job
    <3> QED
      BY <1>2, <2>1, <3>1 DEF FindByIssue
  <2> QED
    BY <1>1, <2>1, <2>2, StrayThen
<1>3. CASE Reconcile(w) \/ ApplyToTask(w)
  <2>1. worker[w].pc \in {"verdict", "apply"} /\ binding.state # "none"
    BY <1>3 DEF Reconcile, ApplyToTask, StrayInv, BoundInv, ForBound
  <2>2. Finish(w) \/ \E pc \in {"apply", "conflict", "applied"} : Then(w, pc)
    BY <1>3 DEF Reconcile, ApplyToTask, Verdict
  <2> QED
    BY <1>1, <2>1, <2>2, StrayEnds, StrayThen
<1>4. CASE RecordPass(w)
  BY <1>1, <1>4, StrayEnds DEF RecordPass
<1> QED
  BY <1>2, <1>3, <1>4

\* The task is created by the only pass there is, and nobody binds meanwhile.
LEMMA StrayCreates ==
  ASSUME Shapes, Rowful, StrayInv, NEW w \in Workers, CreateTask(w)
  PROVE  StrayInv'
<1>1. /\ worker[w].pc = "create" /\ Then(w, "bind") /\ strays' = strays + 1
      /\ binding' = binding /\ mishaps' = mishaps
  BY DEF CreateTask
<1>2. /\ worker'[w].pc = "bind" /\ worker'[w].pass = worker[w].pass
      /\ \A v \in Workers \ {w} : worker'[v] = worker[v]
  BY <1>1, WorkerThen
<1>3. BoundInv'
  BY <1>1, <1>2 DEF StrayInv, BoundInv, ForBound, Editing, Deciding
<1>4. ASSUME Uncut' PROVE OnePass' /\ CreatingInv' /\ StraysInv'
  <2>1. OnePass /\ CreatingInv /\ StraysInv
    BY <1>1, <1>4 DEF Uncut, StrayInv
  <2>2. worker[w].pass /\ binding.state = "none"
    BY <1>1, <2>1 DEF CreatingInv, Creating
  <2>3. OnePass'
    BY <1>2, <2>1 DEF OnePass
  <2>4. CreatingInv'
    BY <1>1, <1>2, <2>1, <2>2 DEF CreatingInv, Creating
  <2>5. \A v \in Workers : worker[v].pc # "bind"
    BY <1>1, <2>1, <2>2 DEF CreatingInv, Creating, OnePass
  <2>6. strays' = 1
    BY <1>1, <2>1, <2>5 DEF StraysInv
  <2> QED
    BY <1>2, <2>3, <2>4, <2>6 DEF StraysInv
<1> QED
  BY <1>3, <1>4 DEF StrayInv

LEMMA StrayBinds ==
  ASSUME Shapes, Rowful, StrayInv, NEW w \in Workers, BindTask(w)
  PROVE  StrayInv'
<1>1. worker[w].pc = "bind" /\ mishaps \subseteq mishaps'
  BY DEF BindTask, Note
<1>2. Done(w) \/ Finish(w)
  BY DEF BindTask
<1>3. PICK job : Do(w, job) /\ job.pc \in {"idle", "record"} /\ (job.pass => worker[w].pass)
  BY <1>2, EndsAs
<1>4. worker'[w] = job /\ \A v \in Workers \ {w} : worker'[v] = worker[v]
  BY <1>3, WorkerDoes
<1>5. binding'.state # "none"
  <2>1. CASE binding.state = "none"
    BY <2>1 DEF BindTask
  <2>2. CASE binding.state # "none"
    BY <2>2 DEF BindTask
  <2> QED
    BY <2>1, <2>2
<1>6. BoundInv'
  BY <1>5 DEF BoundInv
<1>7. ASSUME Uncut' PROVE OnePass' /\ CreatingInv' /\ StraysInv'
  <2>1. OnePass /\ CreatingInv /\ StraysInv
    BY <1>1, <1>7 DEF Uncut, StrayInv
  <2>2. worker[w].pass /\ binding.state = "none"
    BY <1>1, <2>1 DEF CreatingInv, Creating
  <2>3. \A v \in Workers \ {w} : ~Creating(worker[v])
    BY <2>1, <2>2 DEF CreatingInv, OnePass
  <2>4. \A v \in Workers : ~Creating(worker'[v])
    BY <1>3, <1>4, <2>3 DEF Creating
  <2>5. OnePass'
    BY <1>3, <1>4, <2>1 DEF OnePass
  <2>6. strays' = strays - 1 /\ strays = 1
    BY <1>1, <2>1, <2>2 DEF BindTask, StraysInv
  <2>7. strays' = 0
    BY <2>6
  <2> QED
    BY <2>4, <2>5, <2>7 DEF CreatingInv, StraysInv, Creating
<1> QED
  BY <1>6, <1>7 DEF StrayInv

\* A second pass that begins beside the first is the mishap "twofold".
LEMMA StrayBegins ==
  ASSUME Shapes, Rowful, StrayInv, NEW w \in Workers, StartPass(w)
  PROVE  StrayInv'
<1> DEFINE job == [NoWork EXCEPT !.pc = "fetch", !.pass = TRUE]
<1>1. /\ worker[w].pc = "idle" /\ Do(w, job) /\ strays' = strays /\ binding' = binding
      /\ mishaps \subseteq mishaps'
      /\ (\E v \in Workers : worker[v].pass) => "twofold" \in mishaps'
  BY DEF StartPass, Note
<1>2. job.pc = "fetch" /\ job.pass = TRUE
  BY DEF NoWork
<1> HIDE DEF job
<1>3. worker'[w] = job /\ \A v \in Workers \ {w} : worker'[v] = worker[v]
  BY <1>1, WorkerDoes
<1>4. BoundInv'
  BY <1>1, <1>2, <1>3 DEF StrayInv, BoundInv, ForBound, Editing, Deciding
<1>5. ASSUME Uncut' PROVE OnePass' /\ CreatingInv' /\ StraysInv'
  <2>1. OnePass /\ CreatingInv /\ StraysInv /\ \A v \in Workers : ~worker[v].pass
    BY <1>1, <1>5 DEF Uncut, StrayInv
  <2>2. OnePass'
    BY <1>3, <2>1 DEF OnePass
  <2>3. CreatingInv'
    BY <1>1, <1>2, <1>3, <2>1 DEF CreatingInv, Creating
  <2>4. (\E v \in Workers : worker[v].pc = "bind")' <=> \E v \in Workers : worker[v].pc = "bind"
    BY <1>1, <1>2, <1>3
  <2> QED
    BY <1>1, <2>1, <2>2, <2>3, <2>4 DEF StraysInv
<1> QED
  BY <1>4, <1>5 DEF StrayInv

LEMMA StrayAsked ==
  ASSUME Shapes, Rowful, StrayInv, NEW f, EditTask(f) \/ SettleRemote \/ SettleLocal
  PROVE  StrayInv'
<1> DEFINE edited == [NoWork EXCEPT !.pc = "link", !.field = f, !.value[f] = Fresh]
           remote == [NoWork EXCEPT !.pc = "lookup", !.seen = stored]
           local  == [NoWork EXCEPT !.pc = "patch", !.value = task]
<1>1. /\ edited.pc = "link" /\ ~edited.pass
      /\ remote.pc = "lookup" /\ ~remote.pass
      /\ local.pc = "patch" /\ ~local.pass
  BY DEF NoWork
<1>2. /\ worker["request"].pc = "idle" /\ strays' = strays /\ mishaps \subseteq mishaps'
      /\ \/ Do("request", edited) /\ binding' = binding
         \/ /\ Do("request", remote) \/ Do("request", local)
            /\ binding.state # "none" /\ binding'.state # "none"
  BY DEF EditTask, SettleRemote, SettleLocal, Rowful, Note
<1>3. ~ForBound(edited) /\ "request" \in Workers
  BY <1>1 DEF ForBound, Editing, Deciding, Workers
<1> HIDE DEF edited, remote, local
<1>4. CASE Do("request", edited) /\ binding' = binding
  BY <1>1, <1>2, <1>3, <1>4, StrayGoesOn
<1>5. ASSUME NEW job \in {remote, local}, Do("request", job),
             binding.state # "none", binding'.state # "none"
      PROVE  StrayInv'
  <2>1. job.pc \in {"lookup", "patch"} /\ ~job.pass
    BY <1>1
  <2> QED
    BY <1>2, <1>3, <1>5, <2>1, StrayGoesOn
<1> QED
  BY <1>2, <1>4, <1>5

LEMMA StrayElse ==
  ASSUME Shapes, Rowful, StrayInv,
         (\E f \in Fields : RemoteEdit(f)) \/ RestartWorkers \/ UNCHANGED bindVars
  PROVE  StrayInv'
<1>1. ASSUME UNCHANGED <<worker, binding, mishaps, strays>> PROVE StrayInv'
  BY <1>1 DEF StrayInv, BoundInv, Uncut, OnePass, CreatingInv, StraysInv
<1>2. CASE RestartWorkers
  <2>1. \A w \in Workers : worker'[w] = NoWork
    BY <1>2 DEF RestartWorkers
  <2>2. ~Uncut'
    BY <1>2 DEF RestartWorkers, Uncut
  <2>3. ~ForBound(NoWork)
    BY DEF NoWork, ForBound, Editing, Deciding
  <2> QED
    BY <2>1, <2>2, <2>3 DEF StrayInv, BoundInv
<1> QED
  BY <1>1, <1>2 DEF RemoteEdit, bindVars

LEMMA StrayStep == BindingInv /\ Rowful /\ StrayInv /\ [BindNext]_bindVars => StrayInv'
<1> SUFFICES ASSUME Shapes, Rowful, StrayInv, [BindNext]_bindVars PROVE StrayInv'
  BY DEF BindingInv
<1>1. ASSUME NEW w \in Workers, StartPass(w) \/ WorkerStep(w) \/ SendFails(w) PROVE StrayInv'
  BY <1>1, StrayMarks, StrayEditing, StraySending, StrayReading, StrayPassing, StrayCreates,
     StrayBinds, StrayBegins
     DEF WorkerStep
<1>2. ASSUME NEW f \in Fields, RemoteEdit(f) \/ EditTask(f) PROVE StrayInv'
  BY <1>2, StrayAsked, StrayElse
<1>3. CASE SettleRemote \/ SettleLocal
  BY <1>3, StrayAsked
<1> QED
  BY <1>1, <1>2, <1>3, StrayElse DEF BindNext

\* A pass that creates a task for an issue binds it, as long as it is not cut
\* off and no second pass runs beside it: the two statements of applyIssueToTask
\* leave nothing unbound behind, whatever is edited or settled between them.
THEOREM NoStray == BindSpec => []NoStrayTask
<1>1. BindInit => StrayInv
  <2> SUFFICES ASSUME BindInit PROVE StrayInv
    OBVIOUS
  <2>1. \A w \in Workers : worker[w] = NoWork
    BY DEF BindInit
  <2>2. NoWork.pc = "idle" /\ ~NoWork.pass /\ strays = 0
    BY DEF NoWork, BindInit
  <2> QED
    BY <2>1, <2>2 DEF StrayInv, BoundInv, ForBound, Editing, Deciding, OnePass, CreatingInv,
                      Creating, StraysInv
<1>2. StrayInv => NoStrayTask
  BY DEF StrayInv, Uncut, StraysInv, NoStrayTask
<1>3. KeptInv => BindingInv /\ Rowful
  BY DEF KeptInv
<1> QED
  BY <1>1, <1>2, <1>3, KeptInvariant, StrayStep, PTL DEF BindSpec

(***************************************************************************)
(* How large the numbers of one issue and its task grow.  Each change of   *)
(* the issue was made there or asked for here, by an edit or to settle;    *)
(* and what stays unbound was left by a restart, or comes from the two     *)
(* workers that may find no binding at once.                               *)
(***************************************************************************)

One(happens) == IF happens THEN 1 ELSE 0

\* A request that may still change the issue.
Asks(job) == job.pc \in {"link", "plan", "patch"}

ChangesCounted ==
  /\ worker["timer"].pc \notin Editing
  /\ Len(history) + One(Asks(worker["request"])) <= 1 + edits + troubles

\* The workers that are at a stage.
AtStage(pc) == One(worker["timer"].pc = pc) + One(worker["request"].pc = pc)

StraysCounted ==
  IF binding.state = "none" THEN AtStage("bind") <= strays /\ strays <= 2 * troubles + AtStage("bind")
  ELSE strays + AtStage("create") <= 2 * troubles + 2

BindTyped == BindTypeOK /\ history # <<>> /\ ChangesCounted /\ StraysCounted

LEMMA BindNumbers ==
  /\ MaxEdits \in Nat /\ MaxTroubles \in Nat
  /\ 0 \in Changes /\ 1 \in Changes /\ Changes \subseteq Nat
  /\ Unset \in Values /\ First \in Values
  /\ Workers = {"timer", "request"}
  /\ NoWork \in Work /\ NoWork.seen = [fields |-> Unset, at |-> 0] /\ NoWork.seen \in Version
<1>1. MaxEdits \in Nat /\ MaxTroubles \in Nat
  BY BindingConstants
<1>2. 0 \in Changes /\ 1 \in Changes /\ Changes \subseteq Nat
  BY <1>1 DEF Changes
<1>3. Unset \in Values /\ First \in Values
  BY <1>1 DEF Unset, First, Values
<1>4. [fields |-> Unset, at |-> 0] \in Version
  BY <1>2, <1>3 DEF Version
<1>5. NoWork \in Work
  BY <1>2, <1>3, <1>4, Zenon DEF NoWork, Work
<1> QED
  BY <1>1, <1>2, <1>3, <1>4, <1>5 DEF Workers, NoWork

\* The numbers of the versions there can be.
LEMMA ChangesIs ==
  ASSUME BindTyped
  PROVE  /\ Len(history) \in Changes /\ Remote \in Version /\ history[Len(history)] \in Values
         /\ Len(history) \in Nat /\ edits \in Nat /\ troubles \in Nat
<1>1. history \in Seq(Values) /\ history # <<>> /\ edits \in 0..MaxEdits /\ troubles \in 0..MaxTroubles
  BY DEF BindTyped, BindTypeOK
<1>2. One(Asks(worker["request"])) \in {0, 1}
  BY DEF One
<1>3. Len(history) \in Nat /\ Len(history) <= 1 + edits + troubles
  BY <1>1, <1>2, BindNumbers DEF BindTyped, ChangesCounted
<1>4. Len(history) \in Changes
  BY <1>1, <1>3, BindNumbers DEF Changes
<1>5. history[Len(history)] \in Values
  BY <1>1, <1>3, LenProperties
<1> QED
  BY <1>1, <1>3, <1>4, <1>5, BindNumbers DEF Remote, Version

\* What one step of a worker may do to the counts when nothing new is asked of
\* GitHub and no task is created or bound.
LEMMA TypedGoesOn ==
  ASSUME BindTyped, NEW w \in Workers, NEW job \in Work, Do(w, job),
         job.pc \in Editing => worker[w].pc \in Editing,
         Asks(job) => Asks(worker[w]),
         worker[w].pc # "bind" /\ job.pc # "bind",
         job.pc = "create" => binding.state = "none" /\ binding'.state = "none",
         UNCHANGED <<history, edits, strays>>, troubles <= troubles', troubles' \in 0..MaxTroubles,
         stored' \in Version, exists' \in BOOLEAN, task' \in Values, due' \in BOOLEAN,
         mishaps' \subseteq Mishaps,
         binding' \in [state : States, at : Changes],
         binding'.state = "none" => binding.state = "none"
  PROVE  BindTyped'
<1>1. BindTypeOK /\ worker \in [Workers -> Work] /\ edits \in 0..MaxEdits /\ troubles \in 0..MaxTroubles
      /\ strays \in 0..(2 * MaxTroubles + 2) /\ Workers = {"timer", "request"}
      /\ MaxTroubles \in Nat /\ MaxEdits \in Nat
  BY BindNumbers DEF BindTyped, BindTypeOK
<1>2. worker' \in [Workers -> Work] /\ worker'[w] = job /\ \A v \in Workers \ {w} : worker'[v] = worker[v]
  BY <1>1 DEF Do
<1>3. BindTypeOK'
  BY <1>1, <1>2 DEF BindTypeOK
<1>4. One(Asks(worker'["request"])) <= One(Asks(worker["request"]))
      /\ One(Asks(worker["request"])) \in {0, 1} /\ One(Asks(worker'["request"])) \in {0, 1}
  BY <1>1, <1>2 DEF One
<1>5. ChangesCounted'
  <2>1. worker'["timer"].pc \notin Editing
    BY <1>1, <1>2 DEF BindTyped, ChangesCounted
  <2>2. Len(history) \in Nat /\ edits \in Nat /\ troubles \in Nat /\ troubles' \in Nat
    BY <1>1, ChangesIs
  <2>3. Len(history) + One(Asks(worker["request"])) <= 1 + edits + troubles
    BY DEF BindTyped, ChangesCounted
  <2>4. Len(history) + One(Asks(worker'["request"])) <= 1 + edits + troubles'
    BY <1>4, <2>2, <2>3
  <2>5. One(Asks(worker["request"]))' = One(Asks(worker'["request"]))
    BY DEF One, Asks
  <2> QED
    BY <2>1, <2>4, <2>5 DEF ChangesCounted
<1>6. AtStage("bind")' = AtStage("bind") /\ AtStage("bind") \in 0..2
  BY <1>1, <1>2 DEF AtStage, One
<1>7. AtStage("create")' \in 0..2 /\ AtStage("create") \in 0..2
      /\ AtStage("create") + AtStage("bind") <= 2 /\ (AtStage("create") + AtStage("bind"))' <= 2
  BY DEF AtStage, One
<1>8. binding.state # "none" => AtStage("create")' <= AtStage("create")
  BY <1>1, <1>2 DEF AtStage, One
<1>9. strays' = strays /\ strays \in Nat /\ troubles \in Nat /\ troubles' \in Nat
  BY <1>1
<1>10. StraysCounted'
  <2>1. CASE binding.state = "none"
    <3>1. AtStage("bind") <= strays /\ strays <= 2 * troubles + AtStage("bind")
      BY <2>1 DEF BindTyped, StraysCounted
    <3>2. /\ AtStage("bind")' <= strays' /\ strays' <= 2 * troubles' + AtStage("bind")'
          /\ strays' + AtStage("create")' <= 2 * troubles' + 2
      BY <1>6, <1>7, <1>9, <3>1
    <3> QED
      BY <3>2 DEF StraysCounted
  <2>2. CASE binding.state # "none"
    <3>1. strays + AtStage("create") <= 2 * troubles + 2
      BY <2>2 DEF BindTyped, StraysCounted
    <3>2. strays' + AtStage("create")' <= 2 * troubles' + 2
      BY <1>7, <1>8, <1>9, <2>2, <3>1
    <3> QED
      BY <2>2, <3>2 DEF StraysCounted
  <2> QED
    BY <2>1, <2>2
<1> QED
  BY <1>3, <1>5, <1>10 DEF BindTyped

WorkStages == {"idle"} \cup Editing \cup Passing \cup Deciding \cup {"record"}

LEMMA WorkerIsWork ==
  ASSUME BindTyped, NEW w \in Workers
  PROVE  /\ worker[w] \in Work /\ worker[w].pc \in WorkStages
         /\ worker[w].seen \in Version /\ worker[w].value \in Values
         /\ worker[w].seen.at \in Changes /\ worker[w].seen.fields \in Values
         /\ worker[w].fetched \in Changes /\ worker[w].field \in Fields \cup {"whole"}
  BY DEF BindTyped, BindTypeOK, Work, WorkStages, Version

LEMMA TypedThen ==
  ASSUME BindTyped, NEW w \in Workers, NEW pc \in WorkStages, Then(w, pc)
  PROVE  \E job \in Work : Do(w, job) /\ job.pc = pc
<1> DEFINE job == [worker[w] EXCEPT !.pc = pc]
<1>1. worker[w] \in Work /\ worker \in [Workers -> Work]
  BY DEF BindTyped, BindTypeOK
<1>2. job \in Work /\ job.pc = pc
  BY <1>1 DEF Work, WorkStages
<1>3. Do(w, job)
  BY DEF Then, Do
<1> QED
  BY <1>2, <1>3

LEMMA TypedEnds ==
  ASSUME BindTyped, NEW w \in Workers, Done(w) \/ Finish(w)
  PROVE  \E job \in Work : Do(w, job) /\ job.pc \in {"idle", "record"}
<1> DEFINE recording == [NoWork EXCEPT !.pc = "record", !.pass = TRUE, !.fetched = worker[w].fetched]
<1>1. recording \in Work /\ recording.pc = "record"
  BY WorkerIsWork, BindNumbers DEF Work
<1>2. NoWork \in Work /\ NoWork.pc = "idle"
  BY BindNumbers DEF NoWork
<1>3. Do(w, recording) \/ Do(w, NoWork)
  BY DEF Done, Finish, Do
<1> QED
  BY <1>1, <1>2, <1>3

LEMMA NotesMishaps ==
  ASSUME BindTyped, NEW mishap \in Mishaps, NEW happened, Note(mishap, happened)
  PROVE  mishaps' \subseteq Mishaps
  BY DEF Note, BindTyped, BindTypeOK

LEMMA MishapsAre == {"crossed", "stale", "masked", "twofold", "cut"} \subseteq Mishaps
  BY DEF Mishaps

\* The steps after which the worker is only elsewhere, or done.
LEMMA TypedMarks ==
  ASSUME BindTyped, NEW w \in Workers,
         \/ FindLink(w) \/ Plan(w) \/ MarkPending(w) \/ MarkPushed(w) \/ MarkError(w)
         \/ StoreAnswer(w) \/ FindByIssue(w) \/ Reconcile(w) \/ MarkConflict(w)
         \/ ApplyToTask(w) \/ MarkApplied(w) \/ RecordPass(w)
  PROVE  BindTyped'
<1>1. /\ BindTypeOK /\ worker[w].seen \in Version /\ worker[w].seen.at \in Changes
      /\ worker[w].seen.fields \in Values
      /\ \A s \in States, n \in Changes : [state |-> s, at |-> n] \in [state : States, at : Changes]
  BY WorkerIsWork DEF BindTyped
<1>2. /\ "synced" \in States \ {"none"} /\ "pending" \in States \ {"none"}
      /\ "error" \in States \ {"none"} /\ "conflict" \in States \ {"none"}
  BY DEF States
<1>3. UNCHANGED <<history, strays, edits, troubles, exists>>
  BY DEF FindLink, Plan, MarkPending, MarkPushed, MarkError, StoreAnswer, FindByIssue, Reconcile,
         MarkConflict, ApplyToTask, MarkApplied, RecordPass, ghosts, quiet, counts
<1>4. stored' \in Version /\ task' \in Values /\ due' \in BOOLEAN
  BY <1>1 DEF FindLink, Plan, MarkPending, MarkPushed, MarkError, StoreAnswer, FindByIssue, Reconcile,
         MarkConflict, ApplyToTask, MarkApplied, RecordPass, BindTypeOK
<1>5. /\ binding' \in [state : States, at : Changes]
      /\ binding' = binding \/ binding'.state # "none"
  <2>1. binding \in [state : States, at : Changes]
    BY <1>1 DEF BindTypeOK
  <2>2. CASE MarkPending(w) \/ MarkError(w)
    BY <1>2, <2>1, <2>2 DEF MarkPending, MarkError
  <2>3. CASE MarkPushed(w) \/ MarkConflict(w) \/ MarkApplied(w)
    BY <1>1, <1>2, <2>3 DEF MarkPushed, MarkConflict, MarkApplied
  <2>4. CASE \/ FindLink(w) \/ Plan(w) \/ StoreAnswer(w) \/ FindByIssue(w) \/ Reconcile(w)
             \/ ApplyToTask(w) \/ RecordPass(w)
    <3>1. binding' = binding
      BY <2>4 DEF FindLink, Plan, StoreAnswer, FindByIssue, Reconcile, ApplyToTask, RecordPass
    <3> QED
      BY <2>1, <3>1
  <2> QED
    BY <2>2, <2>3, <2>4
<1>6. mishaps' \subseteq Mishaps
  <2>0. mishaps \subseteq Mishaps
    BY <1>1 DEF BindTypeOK
  <2>1. CASE MarkPushed(w)
    BY <2>0, <2>1, MishapsAre DEF MarkPushed
  <2>2. CASE FindLink(w) \/ Plan(w) \/ MarkPending(w) \/ MarkError(w) \/ FindByIssue(w) \/ RecordPass(w)
    BY <2>0, <2>2 DEF FindLink, Plan, MarkPending, MarkError, FindByIssue, RecordPass, ghosts
  <2>3. CASE StoreAnswer(w) \/ MarkConflict(w) \/ ApplyToTask(w) \/ MarkApplied(w)
    BY <2>3, NotesMishaps, MishapsAre DEF StoreAnswer, MarkConflict, ApplyToTask, MarkApplied
  <2>4. CASE Reconcile(w)
    BY <2>4, NotesMishaps, MishapsAre DEF Reconcile
  <2> QED
    BY <2>1, <2>2, <2>3, <2>4
<1> DEFINE Moves(job) == /\ Do(w, job) /\ job.pc # "bind" /\ worker[w].pc # "bind"
                         /\ job.pc \in Editing => worker[w].pc \in Editing
                         /\ Asks(job) => Asks(worker[w])
                         /\ job.pc = "create" => binding.state = "none" /\ binding' = binding
           Moved == \E job \in Work : Moves(job)
<1>7. Moved
  <2>1. ASSUME Done(w) \/ Finish(w) PROVE Moved
    <3>1. PICK job \in Work : Do(w, job) /\ job.pc \in {"idle", "record"}
      BY <2>1, TypedEnds
    <3>2. job.pc \notin Editing /\ ~Asks(job) /\ job.pc # "create" /\ job.pc # "bind"
      BY <3>1 DEF Editing, Asks
    <3>3. worker[w].pc # "bind"
      BY DEF FindLink, Plan, MarkPending, MarkPushed, MarkError, StoreAnswer, FindByIssue, Reconcile,
         MarkConflict, ApplyToTask, MarkApplied, RecordPass
    <3> QED
      BY <3>1, <3>2, <3>3
  <2>2. ASSUME NEW pc \in WorkStages, Then(w, pc), worker[w].pc # "bind", pc # "bind",
               pc \in Editing => worker[w].pc \in Editing,
               pc \in {"link", "plan", "patch"} => worker[w].pc \in {"link", "plan", "patch"},
               pc = "create" => binding.state = "none" /\ binding' = binding
        PROVE  Moved
    <3>1. PICK job \in Work : Do(w, job) /\ job.pc = pc
      BY <2>2, TypedThen
    <3>2. Moves(job)
      BY <2>2, <3>1 DEF Asks
    <3> QED
      BY <3>1, <3>2
  <2> HIDE DEF Moved
  <2>3. CASE FindLink(w)
    <3>1. Done(w) \/ Then(w, "plan")
      BY <2>3 DEF FindLink
    <3> QED
      BY <2>1, <2>2, <2>3, <3>1 DEF FindLink, WorkStages, Editing
  <2>4. CASE Plan(w)
    <3>1. worker[w].pc = "plan" /\ (Done(w) \/ \E pc \in {"patch", "pending"} : Then(w, pc))
      BY <2>4 DEF Plan
    <3> QED
      BY <2>1, <2>2, <3>1 DEF WorkStages, Editing
  <2>5. CASE MarkPending(w) \/ MarkPushed(w) \/ MarkError(w) \/ MarkConflict(w) \/ MarkApplied(w) \/ RecordPass(w)
    BY <2>1, <2>5 DEF MarkPending, MarkPushed, MarkError, MarkConflict, MarkApplied, RecordPass
  <2>6. CASE StoreAnswer(w)
    <3>1. worker[w].pc = "answer" /\ Then(w, "mark")
      BY <2>6 DEF StoreAnswer
    <3> QED
      BY <2>2, <3>1 DEF WorkStages, Editing
  <2>7. CASE ApplyToTask(w)
    <3>1. worker[w].pc = "apply" /\ Then(w, "applied")
      BY <2>7 DEF ApplyToTask
    <3> QED
      BY <2>2, <3>1 DEF WorkStages, Editing, Deciding
  <2>8. CASE FindByIssue(w)
    <3>1. /\ worker[w].pc = "lookup" /\ binding' = binding
          /\ (binding.state = "none" /\ Then(w, "create")) \/ Then(w, "verdict")
      BY <2>8 DEF FindByIssue
    <3> QED
      BY <2>2, <3>1 DEF WorkStages, Editing, Passing
  <2>9. CASE Reconcile(w)
    <3>1. worker[w].pc = "verdict" /\ (Finish(w) \/ Then(w, "apply") \/ Then(w, "conflict"))
      BY <2>9 DEF Reconcile, Verdict
    <3> QED
      BY <2>1, <2>2, <3>1 DEF WorkStages, Editing, Deciding
  <2> QED
    BY <2>3, <2>4, <2>5, <2>6, <2>7, <2>8, <2>9
<1>8. troubles' \in 0..MaxTroubles /\ troubles <= troubles' /\ exists' \in BOOLEAN
  BY <1>1, <1>3, BindNumbers DEF BindTypeOK
<1> HIDE DEF Work
<1> QED
  BY <1>3, <1>4, <1>5, <1>6, <1>7, <1>8, TypedGoesOn

\* What a pass reads: the issue, or its row; and what it stores.
LEMMA TypedReads ==
  ASSUME BindTyped, NEW w \in Workers,
         StartPass(w) \/ FetchIssue(w) \/ StoreIssue(w) \/ ReadStored(w)
  PROVE  BindTyped'
<1>1. /\ BindTypeOK /\ worker[w] \in Work /\ worker[w].seen \in Version /\ stored \in Version
      /\ Remote \in Version /\ Len(history) \in Changes
  BY WorkerIsWork, ChangesIs DEF BindTyped, BindTypeOK
<1>2. \A pc \in {"fetch", "store", "stored", "lookup"} :
        pc \in WorkStages /\ pc \notin Editing /\ pc \notin {"link", "plan", "patch", "bind", "create"}
  BY DEF WorkStages, Editing, Passing
<1>3. \E job \in Work : Do(w, job) /\ job.pc \in {"fetch", "store", "stored", "lookup"}
  <2>1. CASE StartPass(w)
    <3> DEFINE job == [NoWork EXCEPT !.pc = "fetch", !.pass = TRUE]
    <3>1. job \in Work /\ job.pc = "fetch"
      BY <1>2, BindNumbers DEF Work, WorkStages
    <3> QED
      BY <2>1, <3>1 DEF StartPass
  <2>2. CASE FetchIssue(w)
    <3> DEFINE job == [worker[w] EXCEPT !.pc = "store", !.seen = Remote, !.fetched = Len(history)]
    <3>1. job \in Work /\ job.pc = "store"
      BY <1>1, <1>2 DEF Work, WorkStages
    <3> QED
      BY <2>2, <3>1 DEF FetchIssue
  <2>3. CASE StoreIssue(w)
    <3> DEFINE job == [worker[w] EXCEPT !.pc = "stored", !.seen = NoWork.seen]
    <3>1. job \in Work /\ job.pc = "stored"
      BY <1>1, <1>2, BindNumbers DEF Work, WorkStages
    <3> QED
      BY <2>3, <3>1 DEF StoreIssue
  <2>4. CASE ReadStored(w)
    <3> DEFINE job == [worker[w] EXCEPT !.pc = "lookup", !.seen = stored]
    <3>1. job \in Work /\ job.pc = "lookup"
      BY <1>1, <1>2 DEF Work, WorkStages
    <3> QED
      BY <2>4, <3>1 DEF ReadStored
  <2> QED
    BY <2>1, <2>2, <2>3, <2>4
<1>4. PICK job \in Work : Do(w, job) /\ job.pc \in {"fetch", "store", "stored", "lookup"}
  BY <1>3
<1>5. job.pc \notin Editing /\ ~Asks(job) /\ job.pc # "bind" /\ job.pc # "create"
  BY <1>2, <1>4 DEF Asks
<1>6. UNCHANGED <<history, strays, edits, exists, task, binding, due>> /\ worker[w].pc # "bind"
  BY DEF StartPass, FetchIssue, StoreIssue, ReadStored, ghosts, quiet, counts, Trouble
<1>7. stored' \in Version
  BY <1>1 DEF StartPass, FetchIssue, StoreIssue, ReadStored
<1>8. troubles <= troubles' /\ troubles' \in 0..MaxTroubles
  <2>1. troubles \in 0..MaxTroubles /\ MaxTroubles \in Nat
    BY <1>1, BindNumbers DEF BindTypeOK
  <2>2. troubles' = troubles \/ Trouble
    BY DEF StartPass, FetchIssue, StoreIssue, ReadStored, ghosts, quiet, counts
  <2>3. ASSUME Trouble PROVE troubles < MaxTroubles /\ troubles' = troubles + 1
    BY <2>3, Zenon DEF Trouble
  <2> QED
    BY <2>1, <2>2, <2>3
<1>9. mishaps' \subseteq Mishaps
  <2>1. mishaps \subseteq Mishaps
    BY <1>1 DEF BindTypeOK
  <2>2. CASE StartPass(w)
    BY <2>2, NotesMishaps, MishapsAre DEF StartPass
  <2>3. CASE StoreIssue(w)
    BY <2>3, NotesMishaps, MishapsAre DEF StoreIssue
  <2>4. CASE FetchIssue(w) \/ ReadStored(w)
    BY <2>1, <2>4 DEF FetchIssue, ReadStored, ghosts
  <2> QED
    BY <2>2, <2>3, <2>4
<1>10. exists' \in BOOLEAN /\ task' \in Values /\ due' \in BOOLEAN /\ binding' \in [state : States, at : Changes]
  BY <1>1, <1>6 DEF BindTypeOK
<1> HIDE DEF Work
<1> QED
  BY <1>4, <1>5, <1>6, <1>7, <1>8, <1>9, <1>10, TypedGoesOn

\* The issue is counted for whoever is at a stage: one worker moves.
LEMMA StagesCount ==
  ASSUME BindTyped, NEW w \in Workers, NEW job \in Work, Do(w, job), NEW pc
  PROVE  /\ AtStage(pc) \in 0..2 /\ AtStage(pc)' \in 0..2
         /\ worker[w].pc = pc /\ job.pc # pc => AtStage(pc)' = AtStage(pc) - 1
         /\ worker[w].pc # pc /\ job.pc = pc => AtStage(pc)' = AtStage(pc) + 1
         /\ (worker[w].pc = pc <=> job.pc = pc) => AtStage(pc)' = AtStage(pc)
<1>1. worker \in [Workers -> Work] /\ Workers = {"timer", "request"}
  BY BindNumbers DEF BindTyped, BindTypeOK
<1>2. worker'[w] = job /\ \A v \in Workers \ {w} : worker'[v] = worker[v]
  BY <1>1 DEF Do
<1> QED
  BY <1>1, <1>2 DEF AtStage, One

\* A step of one worker that asks GitHub for nothing.
LEMMA ChangesGoOn ==
  ASSUME BindTyped, NEW w \in Workers, NEW job \in Work, Do(w, job),
         job.pc \notin Editing, UNCHANGED <<history, edits, troubles>>
  PROVE  worker' \in [Workers -> Work] /\ ChangesCounted'
<1>1. worker \in [Workers -> Work] /\ Workers = {"timer", "request"}
  BY BindNumbers DEF BindTyped, BindTypeOK
<1>2. worker' \in [Workers -> Work] /\ worker'[w] = job /\ \A v \in Workers \ {w} : worker'[v] = worker[v]
  BY <1>1 DEF Do
<1>3. ~Asks(job) /\ worker'["timer"].pc \notin Editing
  BY <1>1, <1>2 DEF Asks, Editing, BindTyped, ChangesCounted
<1>4. /\ One(Asks(worker["request"])) \in {0, 1} /\ One(Asks(worker'["request"])) \in {0, 1}
      /\ One(Asks(worker'["request"])) <= One(Asks(worker["request"]))
  BY <1>1, <1>2, <1>3 DEF One
<1>5. Len(history) + One(Asks(worker'["request"])) <= 1 + edits + troubles
  <2>1. Len(history) + One(Asks(worker["request"])) <= 1 + edits + troubles
    BY DEF BindTyped, ChangesCounted
  <2> QED
    BY <1>4, <2>1, ChangesIs
<1>6. One(Asks(worker["request"]))' = One(Asks(worker'["request"]))
  BY DEF One, Asks
<1> QED
  BY <1>2, <1>3, <1>5, <1>6 DEF ChangesCounted

LEMMA TypedCreates ==
  ASSUME BindTyped, NEW w \in Workers, CreateTask(w)
  PROVE  BindTyped'
<1>1. /\ BindTypeOK /\ MaxTroubles \in Nat /\ troubles \in Nat /\ troubles <= MaxTroubles /\ strays \in Nat
      /\ worker[w].pc = "create" /\ strays' = strays + 1 /\ Then(w, "bind")
      /\ UNCHANGED <<history, stored, exists, task, binding, due, mishaps, edits, troubles>>
  BY BindNumbers DEF BindTyped, BindTypeOK, CreateTask, counts
<1>2. "bind" \in WorkStages /\ "bind" \notin Editing
  BY DEF WorkStages, Passing, Editing
<1>3. PICK job \in Work : Do(w, job) /\ job.pc = "bind"
  BY <1>1, <1>2, TypedThen
<1>4. worker' \in [Workers -> Work] /\ ChangesCounted'
  BY <1>1, <1>2, <1>3, ChangesGoOn
<1>5. /\ AtStage("bind")' = AtStage("bind") + 1 /\ AtStage("create")' = AtStage("create") - 1
      /\ AtStage("bind") \in 0..2 /\ AtStage("bind")' \in 0..2
      /\ AtStage("create") \in 0..2 /\ AtStage("create")' \in 0..2
  BY <1>1, <1>3, StagesCount
<1>6. StraysCounted' /\ strays' <= 2 * troubles + 2
  <2>1. CASE binding.state = "none"
    <3>1. AtStage("bind") <= strays /\ strays <= 2 * troubles + AtStage("bind")
      BY <2>1 DEF BindTyped, StraysCounted
    <3>2. AtStage("bind")' <= strays' /\ strays' <= 2 * troubles' + AtStage("bind")' /\ binding'.state = "none"
      BY <1>1, <1>5, <2>1, <3>1
    <3>3. strays' <= 2 * troubles + 2
      BY <1>1, <1>5, <3>2
    <3> QED
      BY <3>2, <3>3 DEF StraysCounted
  <2>2. CASE binding.state # "none"
    <3>1. strays + AtStage("create") <= 2 * troubles + 2
      BY <2>2 DEF BindTyped, StraysCounted
    <3>2. strays' + AtStage("create")' <= 2 * troubles' + 2 /\ binding'.state # "none"
      BY <1>1, <1>5, <2>2, <3>1
    <3>3. strays' <= 2 * troubles + 2
      BY <1>1, <1>5, <3>2
    <3> QED
      BY <3>2, <3>3 DEF StraysCounted
  <2> QED
    BY <2>1, <2>2
<1>7. strays' \in 0..(2 * MaxTroubles + 2)
  BY <1>1, <1>6
<1>8. BindTypeOK'
  BY <1>1, <1>4, <1>7 DEF BindTypeOK
<1> QED
  BY <1>1, <1>4, <1>6, <1>8 DEF BindTyped

LEMMA TypedBinds ==
  ASSUME BindTyped, NEW w \in Workers, BindTask(w)
  PROVE  BindTyped'
<1>1. /\ BindTypeOK /\ MaxTroubles \in Nat /\ troubles \in Nat /\ troubles <= MaxTroubles /\ strays \in Nat
      /\ strays <= 2 * MaxTroubles + 2 /\ binding \in [state : States, at : Changes] /\ worker[w].pc = "bind"
      /\ UNCHANGED <<history, stored, due, edits, troubles>>
  BY BindNumbers DEF BindTyped, BindTypeOK, BindTask, counts
<1>2. Done(w) \/ Finish(w)
  BY DEF BindTask
<1>3. PICK job \in Work : Do(w, job) /\ job.pc \in {"idle", "record"}
  BY <1>2, TypedEnds
<1>4. job.pc \notin Editing /\ job.pc # "bind" /\ job.pc # "create"
  BY <1>3 DEF Editing
<1>5. worker' \in [Workers -> Work] /\ ChangesCounted'
  BY <1>1, <1>3, <1>4, ChangesGoOn
<1>6. /\ AtStage("bind")' = AtStage("bind") - 1 /\ AtStage("create")' = AtStage("create")
      /\ AtStage("bind") \in 0..2 /\ AtStage("bind")' \in 0..2 /\ AtStage("create") \in 0..2
  BY <1>1, <1>3, <1>4, StagesCount
<1>7. AtStage("bind") + AtStage("create") <= 2
  BY DEF AtStage, One
<1>8. mishaps' \subseteq Mishaps
  BY NotesMishaps, MishapsAre DEF BindTask
<1>9. CASE binding.state = "none"
  <2>1. /\ binding' = [state |-> "synced", at |-> worker[w].seen.at] /\ exists' = TRUE
        /\ task' = worker[w].seen.fields /\ strays' = strays - 1
    BY <1>9 DEF BindTask
  <2>2. binding' \in [state : States, at : Changes] /\ task' \in Values /\ binding'.state # "none"
    BY <2>1, WorkerIsWork DEF States
  <2>3. AtStage("bind") <= strays /\ strays <= 2 * troubles + AtStage("bind")
    BY <1>9 DEF BindTyped, StraysCounted
  <2>4. strays' + AtStage("create")' <= 2 * troubles' + 2 /\ strays' \in 0..(2 * MaxTroubles + 2)
    BY <1>1, <1>6, <1>7, <2>1, <2>3
  <2>5. StraysCounted'
    BY <2>2, <2>4 DEF StraysCounted
  <2>6. BindTypeOK'
    BY <1>1, <1>5, <1>8, <2>1, <2>2, <2>4 DEF BindTypeOK
  <2> QED
    BY <1>1, <1>5, <2>5, <2>6 DEF BindTyped
<1>10. CASE binding.state # "none"
  <2>1. UNCHANGED <<binding, exists, task, strays>>
    BY <1>10 DEF BindTask
  <2>2. strays + AtStage("create") <= 2 * troubles + 2
    BY <1>10 DEF BindTyped, StraysCounted
  <2>3. strays' + AtStage("create")' <= 2 * troubles' + 2 /\ binding'.state # "none"
    BY <1>1, <1>6, <1>10, <2>1, <2>2
  <2>4. StraysCounted'
    BY <2>3 DEF StraysCounted
  <2>5. BindTypeOK'
    BY <1>1, <1>5, <1>8, <2>1 DEF BindTypeOK
  <2> QED
    BY <1>1, <1>5, <2>4, <2>5 DEF BindTyped
<1> QED
  BY <1>9, <1>10

\* Nothing is created or bound.
LEMMA StraysStay ==
  ASSUME BindTyped, strays' = strays, binding'.state = "none" <=> binding.state = "none",
         troubles' \in Nat, troubles <= troubles',
         AtStage("bind")' = AtStage("bind"), AtStage("create")' = AtStage("create")
  PROVE  StraysCounted'
<1>1. strays \in Nat /\ troubles \in Nat /\ AtStage("bind") \in Nat /\ AtStage("create") \in Nat
  BY BindNumbers DEF BindTyped, BindTypeOK, AtStage, One
<1>2. CASE binding.state = "none"
  <2>1. AtStage("bind") <= strays /\ strays <= 2 * troubles + AtStage("bind")
    BY <1>2 DEF BindTyped, StraysCounted
  <2>2. AtStage("bind")' <= strays' /\ strays' <= 2 * troubles' + AtStage("bind")'
    BY <1>1, <2>1
  <2> QED
    BY <1>2, <2>2 DEF StraysCounted
<1>3. CASE binding.state # "none"
  <2>1. strays + AtStage("create") <= 2 * troubles + 2
    BY <1>3 DEF BindTyped, StraysCounted
  <2>2. strays' + AtStage("create")' <= 2 * troubles' + 2
    BY <1>1, <2>1
  <2> QED
    BY <1>3, <2>2 DEF StraysCounted
<1> QED
  BY <1>2, <1>3

\* An event outside the workers is counted.
LEMMA TroubleIs ==
  ASSUME BindTyped, Trouble
  PROVE  /\ troubles' = troubles + 1 /\ edits' = edits /\ troubles' \in 0..MaxTroubles
         /\ troubles' \in Nat /\ troubles <= troubles'
<1>1. troubles < MaxTroubles /\ troubles' = troubles + 1 /\ edits' = edits
  BY Zenon DEF Trouble
<1>2. troubles \in 0..MaxTroubles /\ MaxTroubles \in Nat
  BY BindNumbers DEF BindTyped, BindTypeOK
<1> QED
  BY <1>1, <1>2

LEMMA EditIs ==
  ASSUME BindTyped, AnEdit
  PROVE  /\ edits' = edits + 1 /\ troubles' = troubles /\ edits' \in 0..MaxEdits /\ edits' \in Nat
         /\ Fresh \in 0..(MaxEdits + 1)
<1>1. edits < MaxEdits /\ edits' = edits + 1 /\ troubles' = troubles
  BY Zenon DEF AnEdit
<1>2. edits \in 0..MaxEdits /\ MaxEdits \in Nat
  BY BindNumbers DEF BindTyped, BindTypeOK
<1> QED
  BY <1>1, <1>2 DEF Fresh

\* What GitHub makes of a patch.
LEMMA PatchingIs ==
  ASSUME BindTyped, NEW w \in Workers, worker[w].pc = "patch", Patching(w)
  PROVE  /\ w = "request"
         /\ history' \in Seq(Values) /\ history' # <<>> /\ due' \in BOOLEAN
         /\ Len(history') = Len(history) + 1 /\ Len(history') <= 1 + edits + troubles
         /\ [fields |-> history'[Len(history')], at |-> Len(history')] \in Version
<1> DEFINE fields == Patched(history[Len(history)], Patch(worker[w].field, worker[w].value))
<1>1. history' = Append(history, fields) /\ due' = TRUE
  BY DEF Patching
<1>2. fields \in Values
  <2>1. history[Len(history)] \in Values /\ worker[w].value \in Values /\ MaxEdits \in Nat
    BY ChangesIs, WorkerIsWork, BindNumbers
  <2>2. \A g \in DOMAIN Patch(worker[w].field, worker[w].value) \cap Fields :
          Patch(worker[w].field, worker[w].value)[g] \in 0..(MaxEdits + 1)
    BY <2>1 DEF Patch, Values
  <2> QED
    BY <2>1, <2>2 DEF Patched, Values
<1>3. history \in Seq(Values) /\ edits \in 0..MaxEdits /\ troubles \in 0..MaxTroubles
  BY DEF BindTyped, BindTypeOK
<1>4. history' \in Seq(Values) /\ Len(history') = Len(history) + 1 /\ history'[Len(history')] = fields
  BY <1>1, <1>2, <1>3, AppendProperties
<1>5. w = "request" /\ Asks(worker["request"])
  BY BindNumbers DEF BindTyped, ChangesCounted, Editing, Asks
<1>6. Len(history) + 1 <= 1 + edits + troubles
  BY <1>5 DEF BindTyped, ChangesCounted, One
<1>7. Len(history') <= 1 + edits + troubles /\ Len(history') \in Changes
  BY <1>3, <1>4, <1>6, ChangesIs, BindNumbers DEF Changes
<1>8. history' # <<>>
  BY <1>4, ChangesIs
<1> QED
  BY <1>1, <1>2, <1>4, <1>5, <1>7, <1>8 DEF Version

LEMMA TypedPatches ==
  ASSUME BindTyped, NEW w \in Workers, worker[w].pc = "patch", Patching(w),
         NEW job \in Work, Do(w, job), job.pc \in {"answer", "error"},
         UNCHANGED <<stored, exists, task, binding, strays, mishaps, edits>>,
         troubles' \in 0..MaxTroubles, troubles <= troubles'
  PROVE  BindTyped'
<1>1. /\ BindTypeOK /\ worker \in [Workers -> Work] /\ Workers = {"timer", "request"}
      /\ troubles' \in Nat
  BY BindNumbers DEF BindTyped, BindTypeOK
<1>2. worker' \in [Workers -> Work] /\ worker'[w] = job /\ \A v \in Workers \ {w} : worker'[v] = worker[v]
  BY <1>1 DEF Do
<1>3. ChangesCounted'
  <2>1. worker'["timer"].pc \notin Editing
    BY <1>1, <1>2, PatchingIs DEF BindTyped, ChangesCounted
  <2>2. One(Asks(worker["request"]))' = 0
    BY <1>1, <1>2, PatchingIs DEF One, Asks
  <2>3. Len(history') <= 1 + edits + troubles'
    BY <1>1, PatchingIs, ChangesIs
  <2> QED
    BY <2>1, <2>2, <2>3, PatchingIs, ChangesIs DEF ChangesCounted
<1>4. AtStage("bind")' = AtStage("bind") /\ AtStage("create")' = AtStage("create")
  BY StagesCount
<1>5. StraysCounted'
  BY <1>1, <1>4, StraysStay
<1>6. BindTypeOK'
  BY <1>1, <1>2, PatchingIs DEF BindTypeOK
<1> QED
  BY <1>3, <1>5, <1>6, PatchingIs DEF BindTyped

LEMMA TypedSends ==
  ASSUME BindTyped, NEW w \in Workers, Send(w)
  PROVE  BindTyped'
<1> DEFINE job == [worker[w] EXCEPT !.pc = "answer", !.value = Unset,
                     !.seen = [fields |-> history'[Len(history')], at |-> Len(history')]]
<1>1. /\ worker[w].pc = "patch" /\ Patching(w) /\ Do(w, job)
      /\ UNCHANGED <<stored, exists, task, binding, strays, mishaps, edits, troubles>>
  BY DEF Send, ghosts, counts
<1>2. "answer" \in WorkStages
  BY DEF WorkStages, Editing
<1>3. job \in Work /\ job.pc = "answer"
  BY <1>1, <1>2, PatchingIs, WorkerIsWork, BindNumbers DEF Work, WorkStages
<1>4. troubles' \in 0..MaxTroubles /\ troubles <= troubles'
  BY <1>1, ChangesIs DEF BindTyped, BindTypeOK
<1> HIDE DEF job
<1> QED
  BY <1>1, <1>3, <1>4, TypedPatches

LEMMA TypedSendFails ==
  ASSUME BindTyped, NEW w \in Workers, SendFails(w)
  PROVE  BindTyped'
<1>1. /\ worker[w].pc = "patch" /\ Trouble /\ Then(w, "error")
      /\ Patching(w) \/ UNCHANGED <<history, due>>
      /\ UNCHANGED <<stored, exists, task, binding, strays, mishaps>>
  BY DEF SendFails
<1>2. "error" \in WorkStages /\ "error" \in Editing /\ "patch" \in Editing
  BY DEF WorkStages, Editing
<1>3. PICK job \in Work : Do(w, job) /\ job.pc = "error"
  BY <1>1, <1>2, TypedThen
<1>4. CASE Patching(w)
  BY <1>1, <1>3, <1>4, TroubleIs, TypedPatches
<1>5. CASE UNCHANGED <<history, due>>
  <2>1. /\ stored' \in Version /\ exists' \in BOOLEAN /\ task' \in Values /\ due' \in BOOLEAN
        /\ mishaps' \subseteq Mishaps /\ binding' \in [state : States, at : Changes]
    BY <1>1, <1>5 DEF BindTyped, BindTypeOK
  <2>2. ~Asks(job) /\ job.pc # "bind" /\ job.pc # "create"
    BY <1>3 DEF Asks
  <2> QED
    BY <1>1, <1>2, <1>3, <1>5, <2>1, <2>2, TroubleIs, TypedGoesOn
<1> QED
  BY <1>1, <1>4, <1>5

LEMMA TypedRemoteEdit ==
  ASSUME BindTyped, NEW f \in Fields, RemoteEdit(f)
  PROVE  BindTyped'
<1> DEFINE fields == [history[Len(history)] EXCEPT ![f] = Fresh]
<1>1. /\ AnEdit /\ history' = Append(history, fields) /\ due' = TRUE
      /\ UNCHANGED <<stored, exists, task, binding, worker, strays, mishaps>>
  BY DEF RemoteEdit
<1>2. fields \in Values
  BY <1>1, EditIs, ChangesIs DEF Values
<1>3. history' \in Seq(Values) /\ Len(history') = Len(history) + 1
  BY <1>1, <1>2, AppendProperties DEF BindTyped, BindTypeOK
<1>4. BindTypeOK'
  BY <1>1, <1>3, EditIs DEF BindTyped, BindTypeOK
<1>5. AtStage("bind")' = AtStage("bind") /\ AtStage("create")' = AtStage("create")
      /\ One(Asks(worker["request"]))' = One(Asks(worker["request"]))
      /\ One(Asks(worker["request"])) \in {0, 1}
  BY <1>1 DEF AtStage, One, Asks
<1>6. StraysCounted'
  BY <1>1, <1>5, EditIs, ChangesIs, StraysStay
<1>7. ChangesCounted'
  <2>1. Len(history) + One(Asks(worker["request"])) <= 1 + edits + troubles
        /\ worker["timer"].pc \notin Editing
    BY DEF BindTyped, ChangesCounted
  <2>2. Len(history') + One(Asks(worker["request"])) <= 1 + edits' + troubles'
    BY <1>1, <1>3, <1>5, <2>1, EditIs, ChangesIs
  <2> QED
    BY <1>1, <1>5, <2>1, <2>2 DEF ChangesCounted
<1>8. history' # <<>>
  BY <1>3, ChangesIs
<1> QED
  BY <1>4, <1>6, <1>7, <1>8 DEF BindTyped

\* A request that may change the issue is counted when it is asked.
LEMMA TypedAsks ==
  ASSUME BindTyped, worker["request"].pc = "idle", NEW job \in Work, Do("request", job),
         job.pc # "bind" /\ job.pc # "create",
         UNCHANGED <<history, stored, exists, due, strays>>,
         task' \in Values, mishaps' \subseteq Mishaps,
         binding' = binding \/ (binding.state # "none" /\ binding' = [binding EXCEPT !.state = "synced"]),
         AnEdit \/ Trouble
  PROVE  BindTyped'
<1>1. /\ BindTypeOK /\ worker \in [Workers -> Work] /\ Workers = {"timer", "request"}
      /\ edits' \in 0..MaxEdits /\ edits' \in Nat /\ troubles' \in 0..MaxTroubles /\ troubles' \in Nat
      /\ troubles <= troubles' /\ edits' + troubles' = edits + troubles + 1
  <2>1. CASE AnEdit
    BY <2>1, EditIs, ChangesIs, BindNumbers DEF BindTyped, BindTypeOK
  <2>2. CASE Trouble
    BY <2>2, TroubleIs, ChangesIs, BindNumbers DEF BindTyped, BindTypeOK
  <2> QED
    BY <2>1, <2>2
<1>2. worker' \in [Workers -> Work] /\ worker'["request"] = job /\ worker'["timer"] = worker["timer"]
  BY <1>1 DEF Do
<1>3. binding' \in [state : States, at : Changes] /\ (binding'.state = "none" <=> binding.state = "none")
  <2>1. binding \in [state : States, at : Changes] /\ "synced" \in States
    BY <1>1 DEF BindTypeOK, States
  <2> QED
    BY <2>1
<1>4. ChangesCounted'
  <2>1. worker["timer"].pc \notin Editing /\ Len(history) <= 1 + edits + troubles
    BY ChangesIs DEF BindTyped, ChangesCounted, One, Asks
  <2>2. One(Asks(worker["request"]))' \in {0, 1}
    BY DEF One
  <2>3. Len(history') + One(Asks(worker["request"]))' <= 1 + edits' + troubles'
    BY <1>1, <2>1, <2>2, ChangesIs
  <2> QED
    BY <1>2, <2>1, <2>3 DEF ChangesCounted
<1>5. AtStage("bind")' = AtStage("bind") /\ AtStage("create")' = AtStage("create")
  BY <1>1, StagesCount
<1>6. StraysCounted'
  BY <1>1, <1>3, <1>5, StraysStay
<1>7. BindTypeOK'
  BY <1>1, <1>2, <1>3 DEF BindTypeOK
<1> QED
  BY <1>4, <1>6, <1>7 DEF BindTyped

LEMMA TypedRequests ==
  ASSUME BindTyped, (\E f \in Fields : EditTask(f)) \/ SettleRemote \/ SettleLocal
  PROVE  BindTyped'
<1>1. /\ stored \in Version /\ task \in Values /\ mishaps \subseteq Mishaps
      /\ NoWork \in Work /\ NoWork.value \in Values
  BY BindNumbers DEF BindTyped, BindTypeOK, Work
<1>2. ASSUME NEW f \in Fields, EditTask(f) PROVE BindTyped'
  <2> DEFINE job == [NoWork EXCEPT !.pc = "link", !.field = f, !.value[f] = Fresh]
  <2>1. /\ AnEdit /\ Fresh \in 0..(MaxEdits + 1) /\ task' = [task EXCEPT ![f] = Fresh]
        /\ worker["request"].pc = "idle" /\ Do("request", job)
        /\ UNCHANGED <<history, stored, exists, binding, due, strays>>
        /\ Note("crossed", worker["timer"].pc \in Deciding)
    BY <1>2, EditIs DEF EditTask
  <2>2. task' \in Values /\ [NoWork.value EXCEPT ![f] = Fresh] \in Values
    BY <1>1, <2>1 DEF Values
  <2>3. "link" \in WorkStages
    BY DEF WorkStages, Editing
  <2>4. job \in Work /\ job.pc = "link"
    BY <1>1, <2>2, <2>3 DEF Work, WorkStages
  <2>5. mishaps' \subseteq Mishaps
    BY <2>1, NotesMishaps, MishapsAre
  <2> HIDE DEF job
  <2> QED
    BY <2>1, <2>2, <2>4, <2>5, TypedAsks
<1>3. CASE SettleRemote
  <2> DEFINE job == [NoWork EXCEPT !.pc = "lookup", !.seen = stored]
  <2>1. "lookup" \in WorkStages
    BY DEF WorkStages, Passing
  <2>2. job \in Work /\ job.pc = "lookup"
    BY <1>1, <2>1 DEF Work, WorkStages
  <2>3. /\ Trouble /\ worker["request"].pc = "idle" /\ Do("request", job) /\ binding.state # "none"
        /\ binding' = [binding EXCEPT !.state = "synced"]
        /\ UNCHANGED <<history, stored, exists, task, due, strays, mishaps>>
    BY <1>3 DEF SettleRemote
  <2> HIDE DEF job
  <2> QED
    BY <1>1, <2>2, <2>3, TypedAsks
<1>4. CASE SettleLocal
  <2> DEFINE job == [NoWork EXCEPT !.pc = "patch", !.value = task]
  <2>1. "patch" \in WorkStages
    BY DEF WorkStages, Editing
  <2>2. job \in Work /\ job.pc = "patch"
    BY <1>1, <2>1 DEF Work, WorkStages
  <2>3. /\ Trouble /\ worker["request"].pc = "idle" /\ Do("request", job)
        /\ UNCHANGED <<history, stored, exists, task, binding, due, strays, mishaps>>
    BY <1>4 DEF SettleLocal
  <2> HIDE DEF job
  <2> QED
    BY <1>1, <2>2, <2>3, TypedAsks
<1> QED
  BY <1>2, <1>3, <1>4

LEMMA TypedRestarts ==
  ASSUME BindTyped, RestartWorkers
  PROVE  BindTyped'
<1>1. /\ Trouble /\ worker' = [w \in Workers |-> NoWork] /\ mishaps' = mishaps \cup {"cut"}
      /\ UNCHANGED <<history, stored, exists, task, binding, due, strays>>
  BY DEF RestartWorkers
<1>2. /\ worker' \in [Workers -> Work] /\ worker'["timer"].pc = "idle" /\ worker'["request"].pc = "idle"
      /\ BindTypeOK
  BY <1>1, BindNumbers DEF NoWork, BindTyped
<1>3. BindTypeOK'
  BY <1>1, <1>2, TroubleIs, MishapsAre DEF BindTypeOK
<1>4. ChangesCounted'
  <2>1. One(Asks(worker["request"]))' = 0 /\ One(Asks(worker["request"])) \in {0, 1}
    BY <1>2 DEF One, Asks
  <2>2. Len(history) + One(Asks(worker["request"])) <= 1 + edits + troubles
    BY DEF BindTyped, ChangesCounted
  <2>3. Len(history') + One(Asks(worker["request"]))' <= 1 + edits' + troubles'
    BY <1>1, <2>1, <2>2, TroubleIs, ChangesIs
  <2> QED
    BY <1>2, <2>3 DEF ChangesCounted, Editing
<1>5. /\ AtStage("bind")' = 0 /\ AtStage("create")' = 0
      /\ AtStage("bind") \in 0..2 /\ AtStage("create") \in 0..2
  BY <1>2 DEF AtStage, One
<1>6. StraysCounted'
  <2>1. strays' = strays /\ strays \in Nat /\ troubles \in Nat /\ troubles' = troubles + 1 /\ binding' = binding
    BY <1>1, <1>2, TroubleIs, ChangesIs DEF BindTypeOK
  <2>2. CASE binding.state = "none"
    <3>1. AtStage("bind") <= strays /\ strays <= 2 * troubles + AtStage("bind")
      BY <2>2 DEF BindTyped, StraysCounted
    <3>2. AtStage("bind")' <= strays' /\ strays' <= 2 * troubles' + AtStage("bind")'
      BY <1>5, <2>1, <3>1
    <3> QED
      BY <2>1, <2>2, <3>2 DEF StraysCounted
  <2>3. CASE binding.state # "none"
    <3>1. strays + AtStage("create") <= 2 * troubles + 2
      BY <2>3 DEF BindTyped, StraysCounted
    <3>2. strays' + AtStage("create")' <= 2 * troubles' + 2
      BY <1>5, <2>1, <3>1
    <3> QED
      BY <2>1, <2>3, <3>2 DEF StraysCounted
  <2> QED
    BY <2>2, <2>3
<1> QED
  BY <1>1, <1>3, <1>4, <1>6 DEF BindTyped

LEMMA TypedStep == BindTyped /\ [BindNext]_bindVars => BindTyped'
<1> SUFFICES ASSUME BindTyped, [BindNext]_bindVars PROVE BindTyped'
  OBVIOUS
<1>1. CASE \E f \in Fields : RemoteEdit(f)
  BY <1>1, TypedRemoteEdit
<1>2. CASE (\E f \in Fields : EditTask(f)) \/ SettleRemote \/ SettleLocal
  BY <1>2, TypedRequests
<1>3. ASSUME NEW w \in Workers, StartPass(w) \/ WorkerStep(w) \/ SendFails(w)
      PROVE  BindTyped'
  BY <1>3, TypedMarks, TypedReads, TypedCreates, TypedBinds, TypedSends, TypedSendFails DEF WorkerStep
<1>4. CASE RestartWorkers
  BY <1>4, TypedRestarts
<1>5. CASE UNCHANGED bindVars
  BY <1>5 DEF bindVars, BindTyped, BindTypeOK, ChangesCounted, StraysCounted, AtStage, Asks, One
<1> QED
  BY <1>1, <1>2, <1>3, <1>4, <1>5 DEF BindNext

LEMMA TypedInit == BindInit => BindTyped
<1> SUFFICES ASSUME BindInit PROVE BindTyped
  OBVIOUS
<1>1. /\ history = <<First>> /\ worker = [w \in Workers |-> NoWork] /\ strays = 0 /\ mishaps = {}
      /\ edits = 0 /\ troubles = 0
  BY DEF BindInit
<1>2. history \in Seq(Values) /\ history # <<>> /\ Len(history) = 1
  BY <1>1, BindNumbers
<1>3. /\ stored \in Version /\ exists \in BOOLEAN /\ task \in Values /\ due \in BOOLEAN
      /\ binding \in [state : States, at : Changes]
  <2>1. "none" \in States /\ "synced" \in States
    BY DEF States
  <2>2. /\ [fields |-> Unset, at |-> 0] \in Version /\ [fields |-> First, at |-> 1] \in Version
        /\ [state |-> "none", at |-> 0] \in [state : States, at : Changes]
        /\ [state |-> "synced", at |-> 1] \in [state : States, at : Changes]
    BY <2>1, BindNumbers DEF Version
  <2> QED
    BY <2>2, BindNumbers DEF BindInit
<1>4. /\ worker \in [Workers -> Work]
      /\ worker["timer"].pc = "idle" /\ worker["request"].pc = "idle"
  BY <1>1, BindNumbers DEF NoWork
<1>5. BindTypeOK
  BY <1>1, <1>2, <1>3, <1>4, BindNumbers DEF BindTypeOK
<1>6. ChangesCounted /\ StraysCounted
  BY <1>1, <1>2, <1>4 DEF ChangesCounted, StraysCounted, AtStage, Asks, One, Editing
<1> QED
  BY <1>2, <1>5, <1>6 DEF BindTyped

\* The state of an issue, its row, its task, their binding and the workers has
\* the shapes the model declares; the issue changes no more often than somebody
\* edits or settles, and no more tasks stay unbound than restarts and two passes
\* at once can leave.
THEOREM BindTypeCorrect == BindSpec => []BindTypeOK
<1>1. BindTyped => BindTypeOK
  BY DEF BindTyped
<1> QED
  BY <1>1, TypedInit, TypedStep, PTL DEF BindSpec

(***************************************************************************)
(* The passes over a repository: what the listings of GitHub are           *)
(***************************************************************************)

LEMMA SyncNumbers ==
  /\ Cardinality(Issues) \in Nat /\ MaxEvents \in Nat
  /\ Times = 0..(Cardinality(Issues) + MaxEvents) /\ Times \subseteq Nat /\ 0 \in Times
  /\ Contents = 0..(MaxEvents + 1) /\ Contents \subseteq Nat
  /\ \A i \in Issues : i \in Nat \ {0}
  /\ Opened \in [Issues -> Times] /\ \A i \in Issues : Opened[i] <= Cardinality(Issues)
<1>1. Cardinality(Issues) \in Nat /\ MaxEvents \in Nat
  BY SyncConstants, FS_CardinalityType
<1> QED
  BY <1>1, SyncConstants DEF Times, Contents

LEMMA IssuesSort ==
  ASSUME NEW S \in SUBSET Issues, NEW R,
         \A x, y \in S : x # y => <<x, y>> \in R \/ <<y, x>> \in R,
         \A x, y, z \in S : <<x, y>> \in R /\ <<y, z>> \in R => <<x, z>> \in R
  PROVE  \E q \in [1..Cardinality(S) -> S] :
           \A i, j \in 1..Cardinality(S) : i < j => <<q[i], q[j]>> \in R
<1>1. IsFiniteSet(S)
  BY SyncConstants, FS_Subset
<1>2. \E q \in [1..Cardinality(S) -> S] : \A i, j \in DOMAIN q : i < j => <<q[i], q[j]>> \in R
  BY <1>1, Sortable
<1> QED
  BY <1>2

LEMMA EntriesSort ==
  ASSUME NEW S \in SUBSET Entry, IsFiniteSet(S),
         \A x, y \in S : x.number = y.number => x = y
  PROVE  /\ Sorted(S, Earlier) \in [1..Cardinality(S) -> S]
         /\ \A i, j \in 1..Cardinality(S) : i < j => Earlier(Sorted(S, Earlier)[i], Sorted(S, Earlier)[j])
<1> DEFINE R == {x \in S \X S : Earlier(x[1], x[2])}
<1>1. \A x \in S : x.updated \in Nat /\ x.number \in Nat
  BY SyncNumbers DEF Entry
<1>2. \A x, y \in S : <<x, y>> \in R <=> Earlier(x, y)
  OBVIOUS
<1>3. \A x, y \in S : x # y => Earlier(x, y) \/ Earlier(y, x)
  BY <1>1 DEF Earlier
<1>4. \A x, y, z \in S : Earlier(x, y) /\ Earlier(y, z) => Earlier(x, z)
  BY <1>1 DEF Earlier
<1>6. \E q \in [1..Cardinality(S) -> S] : \A i, j \in DOMAIN q : i < j => <<q[i], q[j]>> \in R
  <2>1. \A x, y \in S : x # y => <<x, y>> \in R \/ <<y, x>> \in R
    BY <1>2, <1>3
  <2>2. \A x, y, z \in S : <<x, y>> \in R /\ <<y, z>> \in R => <<x, z>> \in R
    BY <1>2, <1>4
  <2> HIDE DEF R
  <2> QED
    BY <2>1, <2>2, Sortable
<1>7. \E q \in [1..Cardinality(S) -> S] : \A i, j \in DOMAIN q : i < j => Earlier(q[i], q[j])
  <2>1. PICK q \in [1..Cardinality(S) -> S] : \A i, j \in DOMAIN q : i < j => <<q[i], q[j]>> \in R
    BY <1>6
  <2>2. \A i \in DOMAIN q : q[i] \in S
    BY <2>1
  <2> QED
    BY <1>2, <2>1, <2>2
<1>8. /\ Sorted(S, Earlier) \in [1..Cardinality(S) -> S]
      /\ \A i, j \in DOMAIN Sorted(S, Earlier) : i < j => Earlier(Sorted(S, Earlier)[i], Sorted(S, Earlier)[j])
  BY <1>7 DEF Sorted
<1> QED
  BY <1>8

LEMMA ChildrenSort ==
  ASSUME NEW S \in SUBSET Issues
  PROVE  /\ Sorted(S, <) \in [1..Cardinality(S) -> S]
         /\ \A i, j \in 1..Cardinality(S) : i < j => Sorted(S, <)[i] < Sorted(S, <)[j]
<1> DEFINE R == {x \in S \X S : x[1] < x[2]}
<1>1. \A x \in S : x \in Nat
  BY SyncNumbers
<1>2. \A x, y \in S : <<x, y>> \in R <=> x < y
  OBVIOUS
<1>6. \E q \in [1..Cardinality(S) -> S] : \A i, j \in 1..Cardinality(S) : i < j => <<q[i], q[j]>> \in R
  <2>1. \A x, y \in S : x # y => <<x, y>> \in R \/ <<y, x>> \in R
    BY <1>1, <1>2
  <2>2. \A x, y, z \in S : <<x, y>> \in R /\ <<y, z>> \in R => <<x, z>> \in R
    BY <1>1, <1>2
  <2> HIDE DEF R
  <2> QED
    BY <2>1, <2>2, IssuesSort
<1>7. \E q \in [1..Cardinality(S) -> S] : \A i, j \in DOMAIN q : i < j => q[i] < q[j]
  <2>1. PICK q \in [1..Cardinality(S) -> S] : \A i, j \in 1..Cardinality(S) : i < j => <<q[i], q[j]>> \in R
    BY <1>6
  <2>2. DOMAIN q = 1..Cardinality(S) /\ \A i \in 1..Cardinality(S) : q[i] \in S
    BY <2>1
  <2> QED
    BY <1>2, <2>1, <2>2
<1>8. /\ Sorted(S, <) \in [1..Cardinality(S) -> S]
      /\ \A i, j \in DOMAIN Sorted(S, <) : i < j => Sorted(S, <)[i] < Sorted(S, <)[j]
  BY <1>7 DEF Sorted
<1> QED
  BY <1>8

GitHubTyped ==
  /\ issue \in [Issues -> [updated : Times, content : Contents]]
  /\ parentOf \in [Issues -> Issues \cup {0}]

\* A listing has an entry for every issue that matches, as it is, sorted.
LEMMA ListingIs ==
  ASSUME GitHubTyped, NEW since \in Times
  PROVE  LET all == Listing(since)
         IN  /\ all \in Seq(Entry)
             /\ \A k \in 1..Len(all) : all[k].number \in Matching(since) /\ all[k] = EntryOf(all[k].number)
             /\ \A i \in Matching(since) : \E k \in 1..Len(all) : all[k].number = i
             /\ \A j, k \in 1..Len(all) : j < k => all[j].updated <= all[k].updated
<1> DEFINE M == Matching(since)
           S == {EntryOf(i) : i \in M}
           n == Cardinality(S)
           all == Sorted(S, Earlier)
<1>1. M \in SUBSET Issues /\ IsFiniteSet(M) /\ \A i \in M : i \in Issues
  BY SyncConstants, FS_Subset DEF Matching
<1>2. \A i \in Issues : EntryOf(i) \in Entry /\ EntryOf(i).number = i
  BY SyncNumbers DEF GitHubTyped, EntryOf, Entry
<1>3. IsFiniteSet(S) /\ n \in Nat
  <2> DEFINE f == [i \in M |-> EntryOf(i)]
  <2>1. f \in Surjection(M, S)
    BY DEF Surjection
  <2> HIDE DEF f, S, M
  <2> QED
    BY <1>1, <2>1, FS_Surjection, FS_CardinalityType
<1>4. S \in SUBSET Entry /\ \A x \in S : x.number \in M /\ x = EntryOf(x.number)
  BY <1>1, <1>2
<1>5. /\ all \in [1..n -> S]
      /\ \A i, j \in 1..n : i < j => Earlier(all[i], all[j])
  <2> HIDE DEF S, M
  <2> QED
    BY <1>3, <1>4, EntriesSort
<1>6. \A i \in M : EntryOf(i) \in S /\ EntryOf(i).number = i
  BY <1>1, <1>2
<1>7. Listing(since) = all
  BY DEF Listing
<1> HIDE DEF all, S, M
<1>8. all \in Seq(Entry) /\ Len(all) = n
  BY <1>3, <1>4, <1>5
<1>9. \A k \in 1..n : /\ all[k] \in S /\ all[k].updated \in Nat /\ all[k].number \in Nat
                      /\ all[k].number \in M /\ all[k] = EntryOf(all[k].number)
  BY <1>4, <1>5, SyncNumbers DEF Entry
<1>10. \A i \in M : \E k \in 1..n : all[k].number = i
  <2>1. \A i, j \in 1..n : i < j => all[i] # all[j]
    BY <1>5, <1>9 DEF Earlier
  <2>2. \A x \in S : \E k \in 1..n : all[k] = x
    BY <1>3, <1>5, <2>1, SortedHasAll
  <2> QED
    BY <1>6, <2>2
<1>11. \A j, k \in 1..n : j < k => all[j].updated <= all[k].updated
  BY <1>5, <1>9 DEF Earlier
<1> QED
  BY <1>7, <1>8, <1>9, <1>10, <1>11 DEF M

\* The children of an issue, each with its link.
LEMMA ChildrenAre ==
  ASSUME GitHubTyped, NEW n \in Issues
  PROVE  LET found == ChildrenOf(n)
         IN  /\ found \in Seq(Issues \X Issues)
             /\ \A k \in 1..Len(found) : found[k] \in Graph
             /\ \A l \in Graph : l[1] = n => \E k \in 1..Len(found) : found[k] = l
<1> DEFINE S == {c \in Issues : parentOf[c] = n}
           m == Cardinality(S)
           q == Sorted(S, <)
           found == [k \in 1..m |-> <<n, q[k]>>]
<1>1. S \in SUBSET Issues
  OBVIOUS
<1>2. IsFiniteSet(S) /\ m \in Nat
  BY <1>1, SyncConstants, FS_Subset, FS_CardinalityType
<1>3. /\ q \in [1..m -> S]
      /\ \A i, j \in 1..m : i < j => q[i] < q[j]
  BY <1>1, ChildrenSort
<1>4. ChildrenOf(n) = found
  BY <1>3 DEF ChildrenOf
<1>5. \A k \in 1..m : q[k] \in S /\ q[k] \in Issues /\ q[k] \in Nat
  BY <1>3, SyncNumbers
<1>6. \A c \in S : \E k \in 1..m : q[k] = c
  <2> HIDE DEF q, S
  <2>1. \A i, j \in 1..m : i < j => q[i] # q[j]
    <3> SUFFICES ASSUME NEW i \in 1..m, NEW j \in 1..m, i < j PROVE q[i] # q[j]
      OBVIOUS
    <3>1. q[i] < q[j] /\ q[i] \in Nat
      BY <1>3, <1>5
    <3> QED
      BY <3>1
  <2> QED
    BY <1>2, <1>3, <2>1, SortedHasAll
<1>7. found \in Seq(Issues \X Issues) /\ Len(found) = m
  <2> HIDE DEF q, S
  <2> QED
    BY <1>2, <1>5
<1>8. \A k \in 1..m : found[k] = <<n, q[k]>> /\ found[k] \in Graph
  <2> HIDE DEF q
  <2> QED
    BY <1>5 DEF Graph
<1>9. \A l \in Graph : l[1] = n => l = <<n, l[2]>> /\ l[2] \in S
  BY DEF Graph
<1> HIDE DEF q, S, found
<1>10. \A l \in Graph : l[1] = n => \E k \in 1..m : found[k] = l
  BY <1>6, <1>8, <1>9
<1> QED
  BY <1>4, <1>7, <1>8, <1>10

(***************************************************************************)
(* The links a pass accepts                                                *)
(***************************************************************************)

Accepted(p) ==
  LET accepted[k \in 0..Len(p.found)] ==
        IF k = 0 THEN {}
        ELSE accepted[k-1] \cup {l \in {p.found[k]} : Visible(p, accepted[k-1], l)}
  IN  accepted

LEMMA AcceptedIs ==
  ASSUME NEW p, p.found \in Seq(Issues \X Issues)
  PROVE  /\ Accepted(p)[0] = {}
         /\ \A k \in 1..Len(p.found) : Accepted(p)[k] = Accepted(p)[k-1] \cup
                                         {l \in {p.found[k]} : Visible(p, Accepted(p)[k-1], l)}
         /\ VisibleLinks(p) = Accepted(p)[Len(p.found)]
<1> DEFINE n == Len(p.found)
           D == 0..n
           V == SUBSET (Issues \X Issues)
           level == [k \in D |-> k]
           done == {0}
           base == [k \in D |-> {}]
           prev == [k \in D |-> IF k = 0 THEN 0 ELSE k-1]
           more(k, L) == L \cup {l \in {p.found[k]} : Visible(p, L, l)}
           join(k, L) == IF k = 0 THEN {} ELSE more(k, L)
           step == [x \in D \X V |-> join(x[1], x[2])]
<1>1. n \in Nat /\ \A k \in D : k # 0 => k \in 1..n /\ k-1 \in D /\ p.found[k] \in Issues \X Issues
  OBVIOUS
<1>2. Ends(D, level, n, done, prev)
  <2>1. prev \in [D -> D] /\ level \in [D -> D]
    BY <1>1
  <2>2. ASSUME NEW k \in D, k # 0 PROVE level[prev[k]] < level[k]
    BY <1>1, <2>2
  <2> HIDE DEF level, prev
  <2> QED
    BY <1>1, <2>1, <2>2 DEF Ends
<1>3. HasValues(D, V, base, step)
  <2>1. ASSUME NEW k \in D, NEW L \in V PROVE join(k, L) \in V
    <3> HIDE DEF n
    <3> QED
      BY <1>1, <2>1
  <2> HIDE DEF join, D, V
  <2>2. base \in [D -> V]
    BY DEF V
  <2>3. step \in [D \X V -> V]
    BY <2>1
  <2> QED
    BY <2>2, <2>3 DEF HasValues
<1>4. PICK f \in [D -> V] :
        \A k \in D : f[k] = IF k \in done THEN base[k] ELSE step[<<k, f[prev[k]]>>]
  <2> HIDE DEF D, V, level, done, base, prev, step, n
  <2> QED
    BY <1>2, <1>3, Recursion
<1>5. f[0] = {}
  <2>1. 0 \in D /\ 0 \in done /\ base[0] = {}
    BY <1>1
  <2> QED
    BY <1>4, <2>1
<1>6. ASSUME NEW k \in D, k # 0 PROVE f[k] = more(k, f[k-1])
  <2>1. prev[k] = k-1 /\ k-1 \in D /\ k \notin done
    BY <1>1, <1>6
  <2>2. f[k-1] \in V
    BY <1>4, <2>1
  <2>3. step[<<k, f[k-1]>>] = more(k, f[k-1])
    BY <1>6, <2>2
  <2> HIDE DEF prev, done, step, more
  <2> QED
    BY <1>4, <2>1, <2>3
<1>7. f = [k \in D |-> IF k = 0 THEN {} ELSE more(k, f[k-1])]
  <2> HIDE DEF more, D
  <2> QED
    BY <1>4, <1>5, <1>6
<1>8. \E g : g = [k \in D |-> IF k = 0 THEN {} ELSE more(k, g[k-1])]
  <2> HIDE DEF more, D
  <2> QED
    BY <1>7
<1> DEFINE g == Accepted(p)
<1>9. g = [k \in D |-> IF k = 0 THEN {} ELSE more(k, g[k-1])]
  BY <1>8 DEF Accepted
<1>10. VisibleLinks(p) = g[n]
  BY DEF VisibleLinks, Accepted
<1> HIDE DEF g
<1>11. g[0] = {} /\ \A k \in 1..n : g[k] = more(k, g[k-1])
  <2> HIDE DEF more, n
  <2>1. \A k \in 1..n : k \in 0..n /\ k # 0 /\ 0 \in 0..n
    BY <1>1
  <2>2. 0 \in 0..n
    BY <1>1
  <2> QED
    BY <1>9, <2>1, <2>2
<1> QED
  BY <1>10, <1>11 DEF g

\* What is accepted was found.
LEMMA AcceptedFound ==
  ASSUME NEW p, p.found \in Seq(Issues \X Issues)
  PROVE  \A k \in 0..Len(p.found) : \A l \in Accepted(p)[k] : \E j \in 1..Len(p.found) : l = p.found[j]
<1> DEFINE n == Len(p.found)
           Fine(k) == \A l \in Accepted(p)[k] : \E j \in 1..n : l = p.found[j]
           C == {k \in 0..n : ~Fine(k)}
<1>0. n \in Nat
  OBVIOUS
<1>1. SUFFICES ASSUME C # {} PROVE FALSE
  OBVIOUS
<1>2. PICK k \in C : \A j \in C : k <= j
  <2>1. C \subseteq Nat
    BY <1>0
  <2> HIDE DEF C
  <2> QED
    BY <1>1, <2>1, LeastNumber
<1>3. k # 0
  BY <1>2, AcceptedIs
<1>4. k-1 \notin C /\ k-1 \in 0..n /\ k \in 1..n
  <2>1. k \in 0..n
    OBVIOUS
  <2> HIDE DEF C, n
  <2> QED
    BY <1>0, <1>2, <1>3, <2>1
<1>5. Fine(k-1)
  BY <1>4
<1>6. Accepted(p)[k] \subseteq Accepted(p)[k-1] \cup {p.found[k]}
  BY <1>4, AcceptedIs
<1>7. Fine(k)
  BY <1>4, <1>5, <1>6
<1> QED
  BY <1>2, <1>7

LEMMA AboveIs ==
  ASSUME NEW L \in SUBSET (Issues \X Issues), NEW n \in Issues
  PROVE  /\ Above(L, n) \subseteq Issues /\ n \in Above(L, n)
         /\ \A l \in L : l[2] \in Above(L, n) => l[1] \in Above(L, n)
         /\ \A X \in SUBSET Issues :
              n \in X /\ (\A l \in L : l[2] \in X => l[1] \in X) => Above(L, n) \subseteq X
  BY DEF Above

(***************************************************************************)
(* The steps of a pass, field by field                                     *)
(***************************************************************************)

\* What each stage of a pass has left, and has not begun.
Stage(p) ==
  /\ p.pc = "page" => p.parents = <<>> /\ p.found = <<>> /\ p.numbers = {}
  /\ p.pc = "upsert" => p.left # <<>>
  /\ p.pc = "children" => p.parents # <<>>
  /\ p.pc \in {"idle", "children", "replace", "record"} => p.left = <<>>
  /\ p.pc \in {"idle", "replace", "record"} => p.parents = <<>>

\* No date is later than GitHub's clock.
Young ==
  /\ now <= Cardinality(Issues) + events
  /\ \A i \in Issues : now >= 1 /\ issue[i].updated <= now /\ issue[i].content <= events + 1

SyncTyped == SyncTypeOK /\ Young /\ \A s \in Slots : Stage(pass[s])

Goes(s, q) ==
  /\ q \in Pass /\ Stage(q)
  /\ pass' \in [Slots -> Pass] /\ pass'[s] = q /\ \A t \in Slots \ {s} : pass'[t] = pass[t]

LEMMA NoPassIs ==
  NoPass \in Pass /\ Stage(NoPass) /\ NoPass.pc = "idle" /\ NoPass.left = <<>> /\ NoPass.newest = 0
<1>1. 0 \in 0..MaxPages-1
  BY SyncConstants
<1> QED
  BY <1>1, SyncNumbers DEF NoPass, Pass, Stage

LEMMA BeginIs ==
  ASSUME SyncTyped, NEW s \in Slots, NEW delivery \in BOOLEAN, NEW from \in Times,
         Begin(s, delivery, from)
  PROVE  /\ pass[s].pc = "idle"
         /\ raced' = (raced \/ Running # {})
         /\ UNCHANGED <<github, projection>>
         /\ pass' \in [Slots -> Pass] /\ \A t \in Slots : Stage(pass'[t])
         /\ LET q == pass'[s]
            IN  /\ q.pc = "page" /\ q.delivery = delivery /\ q.since = from /\ q.newest = from
                /\ q.left = <<>> /\ q.pages = 0 /\ q.numbers = {} /\ q.parents = <<>> /\ q.found = <<>>
                /\ q.complete => from = 0 /\ Running = {}
         /\ \A t \in Slots \ {s} : pass'[t] = [pass[t] EXCEPT !.complete = FALSE]
<1> DEFINE whole == (from = 0 /\ Running = {})
           q == [NoPass EXCEPT !.pc = "page", !.delivery = delivery, !.since = from, !.newest = from,
                               !.complete = whole]
           cut(t) == [pass[t] EXCEPT !.complete = FALSE]
<1>1. pass \in [Slots -> Pass] /\ \A t \in Slots : pass[t] \in Pass /\ Stage(pass[t])
  BY DEF SyncTyped, SyncTypeOK
<1>2. 0 \in 0..MaxPages-1
  BY SyncConstants
<1>3. /\ q.pc = "page" /\ q.delivery = delivery /\ q.since = from /\ q.newest = from
      /\ q.left = <<>> /\ q.pages = 0 /\ q.numbers = {} /\ q.parents = <<>> /\ q.found = <<>>
      /\ q.complete => from = 0 /\ Running = {}
  BY DEF NoPass
<1>4. q \in Pass
  <2>1. whole \in BOOLEAN
    OBVIOUS
  <2> HIDE DEF whole
  <2> QED
    BY <1>2, <2>1, NoPassIs DEF Pass
<1>5. Stage(q)
  BY <1>3 DEF Stage
<1>6. \A t \in Slots : cut(t) \in Pass
  BY <1>1 DEF Pass
<1>7. \A t \in Slots : Stage(cut(t))
  BY <1>1 DEF Stage, Pass
<1>8. pass' = [t \in Slots |-> IF t = s THEN q ELSE cut(t)] /\ pass[s].pc = "idle"
      /\ raced' = (raced \/ Running # {}) /\ UNCHANGED <<github, projection>>
  BY DEF Begin
<1> HIDE DEF q, cut
<1>9. pass'[s] = q /\ \A t \in Slots \ {s} : pass'[t] = cut(t)
  BY <1>8
<1>10. pass' \in [Slots -> Pass] /\ \A t \in Slots : Stage(pass'[t])
  BY <1>4, <1>5, <1>6, <1>7, <1>8
<1> QED
  BY <1>3, <1>8, <1>9, <1>10 DEF cut

LEMMA FetchPageIs ==
  ASSUME SyncTyped, NEW s \in Slots, FetchPage(s)
  PROVE  \E q \in Pass, last \in Nat :
           LET p    == pass[s]
               all  == Listing(p.since)
               from == p.pages * PageSize
           IN  /\ p.pc = "page" /\ Goes(s, q)
               /\ UNCHANGED <<github, projection, raced, events>>
               /\ last <= Len(all) /\ from \in Nat /\ all \in Seq(Entry)
               /\ q.left = p.left \o SubSeq(all, from + 1, last)
               /\ q.delivery = p.delivery /\ q.since = p.since /\ q.newest = p.newest
               /\ q.numbers = {} /\ q.parents = <<>> /\ q.found = <<>>
               /\ last = Len(all) \/ last = from + PageSize
               /\ \/ q.pc = "page" /\ q.pages = p.pages + 1 /\ last = from + PageSize /\ q.complete = p.complete
                  \/ q.pc \in {"upsert", "record"} /\ q.complete = (p.complete /\ last = Len(all))
<1> DEFINE p == pass[s]
           all == Listing(p.since)
           from == p.pages * PageSize
           last == IF from + PageSize < Len(all) THEN from + PageSize ELSE Len(all)
           left == p.left \o SubSeq(all, from + 1, last)
           again == Again(p, last, all)
           pages == IF again THEN p.pages + 1 ELSE 0
           complete == p.complete /\ (again \/ last = Len(all))
           pc == IF again THEN "page" ELSE IF left = <<>> THEN "record" ELSE "upsert"
           q == [p EXCEPT !.left = left, !.pages = pages, !.complete = complete, !.pc = pc]
<1>1. p \in Pass /\ Stage(p) /\ pass \in [Slots -> Pass] /\ GitHubTyped
  BY DEF SyncTyped, SyncTypeOK, GitHubTyped
<1>2. /\ p.pc \in {"idle", "page", "upsert", "children", "replace", "record"}
      /\ p.pages \in 0..MaxPages-1 /\ p.since \in Times /\ p.left \in Seq(Entry) /\ p.complete \in BOOLEAN
  BY <1>1 DEF Pass
<1>3. p.pc = "page" /\ pass' = [pass EXCEPT ![s] = q] /\ UNCHANGED <<github, projection, raced, events>>
  BY DEF FetchPage
<1>4. all \in Seq(Entry) /\ Len(all) \in Nat
  BY <1>1, <1>2, ListingIs
<1>5. from \in Nat /\ PageSize \in Nat \ {0} /\ MaxPages \in Nat \ {0}
  <2>1. p.pages \in Nat /\ PageSize \in Nat
    BY <1>2, SyncConstants
  <2> QED
    BY <2>1, SyncConstants
<1> HIDE DEF p, all, from
<1>6. last \in Nat /\ last <= Len(all) /\ (last = Len(all) \/ last = from + PageSize)
  BY <1>4, <1>5
<1>7. left \in Seq(Entry)
  <2>1. \A i \in from+1..last : all[i] \in Entry
    BY <1>4, <1>5, <1>6
  <2>2. SubSeq(all, from + 1, last) \in Seq(Entry)
    <3> HIDE DEF last
    <3> QED
      BY <1>5, <1>6, <2>1, SubSeqProperties
  <2> HIDE DEF last
  <2> QED
    BY <1>2, <2>2
<1>8. again \in BOOLEAN /\ (again => last < Len(all) /\ p.pages + 1 < MaxPages)
  BY DEF Again
<1>9. pages \in 0..MaxPages-1
  <2> HIDE DEF again
  <2> QED
    BY <1>2, <1>5, <1>8
<1>10. complete \in BOOLEAN /\ pc \in {"page", "record", "upsert"} /\ (pc = "record" <=> ~again /\ left = <<>>)
       /\ (pc = "page" <=> again)
  <2> HIDE DEF again, left, last
  <2> QED
    BY <1>2
<1>11. again => last = from + PageSize
  BY <1>6, <1>8
<1> HIDE DEF last, left, again, pages, complete, pc
<1>12. q \in Pass
  BY <1>1, <1>7, <1>9, <1>10 DEF Pass
<1>13. /\ q.left = left /\ q.pages = pages /\ q.complete = complete /\ q.pc = pc
       /\ q.delivery = p.delivery /\ q.since = p.since /\ q.newest = p.newest
       /\ q.numbers = p.numbers /\ q.parents = p.parents /\ q.found = p.found
  BY <1>1 DEF Pass
<1>14. p.numbers = {} /\ p.parents = <<>> /\ p.found = <<>>
  BY <1>1, <1>3 DEF Stage
<1>15. pass'[s] = q /\ \A t \in Slots \ {s} : pass'[t] = pass[t]
  BY <1>1, <1>3
<1>16. pass' \in [Slots -> Pass]
  <2> HIDE DEF q
  <2> QED
    BY <1>1, <1>3, <1>12
<1> HIDE DEF q
<1>17. Stage(q)
  BY <1>10, <1>13, <1>14 DEF Stage
<1>18. Goes(s, q)
  BY <1>12, <1>15, <1>16, <1>17 DEF Goes
<1>19. \/ q.pc = "page" /\ q.pages = p.pages + 1 /\ last = from + PageSize /\ q.complete = p.complete
       \/ q.pc \in {"upsert", "record"} /\ q.complete = (p.complete /\ last = Len(all))
  BY <1>2, <1>10, <1>11, <1>13 DEF pages, complete
<1> QED
  BY <1>3, <1>4, <1>5, <1>6, <1>12, <1>13, <1>14, <1>18, <1>19 DEF p, all, from, left

LEMMA UpsertIs ==
  ASSUME SyncTyped, NEW s \in Slots, Upsert(s)
  PROVE  \E q \in Pass, e \in Entry :
           LET p == pass[s]
           IN  /\ p.pc = "upsert" /\ Goes(s, q) /\ Len(p.left) >= 1 /\ e = p.left[1]
               /\ projected' = [projected EXCEPT ![e.number] = e.content]
               /\ UNCHANGED <<github, links, cursor, raced, events>>
               /\ q.delivery = p.delivery /\ q.since = p.since /\ q.complete = p.complete /\ q.found = p.found
               /\ Len(q.left) = Len(p.left) - 1 /\ \A k \in 1..Len(q.left) : q.left[k] = p.left[k+1]
               /\ q.numbers = p.numbers \cup {e.number}
               /\ q.newest = Newest(p, e)
               /\ q.parents = IF e.parent THEN Append(p.parents, e.number) ELSE p.parents
               /\ q.pc \in {"upsert", "children", "record"}
<1> DEFINE p == pass[s]
           e == Head(p.left)
           parents == IF e.parent THEN Append(p.parents, e.number) ELSE p.parents
           numbers == p.numbers \cup {e.number}
           newest == Newest(p, e)
           left == Tail(p.left)
           pc == IF Len(p.left) > 1 THEN p.pc ELSE IF parents = <<>> THEN "record" ELSE "children"
           q == [p EXCEPT !.left = left, !.numbers = numbers, !.newest = newest, !.parents = parents, !.pc = pc]
<1>1. p \in Pass /\ Stage(p) /\ pass \in [Slots -> Pass]
  BY DEF SyncTyped, SyncTypeOK
<1>2. /\ p.pc \in {"idle", "page", "upsert", "children", "replace", "record"}
      /\ p.left \in Seq(Entry) /\ p.parents \in Seq(Issues) /\ p.numbers \in SUBSET Issues /\ p.newest \in Times
  BY <1>1 DEF Pass
<1>3. /\ p.pc = "upsert" /\ projected' = [projected EXCEPT ![e.number] = e.content]
      /\ UNCHANGED <<github, links, cursor, raced, events>>
  BY DEF Upsert
<1>4. pass' = [pass EXCEPT ![s] = q]
  BY DEF Upsert
<1>5. p.left # <<>>
  BY <1>1, <1>3 DEF Stage
<1> HIDE DEF p
<1>6. /\ e \in Entry /\ e = p.left[1] /\ Len(p.left) >= 1 /\ Len(p.left) \in Nat
      /\ left \in Seq(Entry) /\ Len(left) = Len(p.left) - 1
      /\ \A k \in 1..Len(left) : left[k] = p.left[k+1]
  <2>1. Len(p.left) \in Nat /\ Len(p.left) # 0
    BY <1>2, <1>5, EmptySeq
  <2>2. Head(p.left) = p.left[1]
    BY <1>2, <1>5
  <2> QED
    BY <1>2, <1>5, <2>1, <2>2, HeadTailProperties
<1> HIDE DEF e, left
<1>7. e.number \in Issues /\ e.updated \in Times /\ e.parent \in BOOLEAN
  BY <1>6 DEF Entry
<1>8. parents \in Seq(Issues) /\ numbers \in SUBSET Issues /\ newest \in Times
  BY <1>2, <1>7 DEF Newest
<1>9. /\ pc \in {"upsert", "children", "record"}
      /\ pc = "upsert" => Len(p.left) > 1
      /\ pc = "children" => parents # <<>> /\ Len(p.left) <= 1
      /\ pc = "record" => parents = <<>> /\ Len(p.left) <= 1
  <2> HIDE DEF parents
  <2> QED
    BY <1>3, <1>6
<1>10. Len(p.left) <= 1 => left = <<>>
  BY <1>6, EmptySeq
<1>11. Len(p.left) > 1 => left # <<>>
  BY <1>6, EmptySeq
<1> HIDE DEF parents, numbers, newest, pc
<1>12. q \in Pass
  BY <1>1, <1>6, <1>8, <1>9 DEF Pass
<1>13. /\ q.left = left /\ q.numbers = numbers /\ q.newest = newest /\ q.parents = parents /\ q.pc = pc
       /\ q.delivery = p.delivery /\ q.since = p.since /\ q.complete = p.complete /\ q.found = p.found
  BY <1>1 DEF Pass
<1>14. pass'[s] = q /\ \A t \in Slots \ {s} : pass'[t] = pass[t]
  BY <1>1, <1>4
<1>15. pass' \in [Slots -> Pass]
  <2> HIDE DEF q
  <2> QED
    BY <1>1, <1>4, <1>12
<1> HIDE DEF q
<1>16. Stage(q)
  BY <1>9, <1>10, <1>11, <1>13 DEF Stage
<1>17. Goes(s, q)
  BY <1>12, <1>14, <1>15, <1>16 DEF Goes
<1> QED
  BY <1>3, <1>6, <1>9, <1>12, <1>13, <1>17 DEF p, e, parents, numbers, newest

LEMMA FetchChildrenIs ==
  ASSUME SyncTyped, NEW s \in Slots, FetchChildren(s)
  PROVE  \E q \in Pass, n \in Issues :
           LET p == pass[s]
           IN  /\ p.pc = "children" /\ Goes(s, q) /\ Len(p.parents) >= 1 /\ n = p.parents[1]
               /\ UNCHANGED <<github, projection, raced, events>>
               /\ q.delivery = p.delivery /\ q.since = p.since /\ q.complete = p.complete
               /\ q.left = <<>> /\ q.numbers = p.numbers /\ q.newest = p.newest
               /\ Len(q.parents) = Len(p.parents) - 1
               /\ \A k \in 1..Len(q.parents) : q.parents[k] = p.parents[k+1]
               /\ q.found = p.found \o ChildrenOf(n)
               /\ q.pc \in {"children", "replace", "record"}
<1> DEFINE p == pass[s]
           n == Head(p.parents)
           parents == Tail(p.parents)
           found == p.found \o ChildrenOf(n)
           pc == IF Len(p.parents) > 1 THEN p.pc ELSE IF found = <<>> THEN "record" ELSE "replace"
           q == [p EXCEPT !.parents = parents, !.found = found, !.pc = pc]
<1>1. p \in Pass /\ Stage(p) /\ pass \in [Slots -> Pass] /\ GitHubTyped
  BY DEF SyncTyped, SyncTypeOK, GitHubTyped
<1>2. /\ p.pc \in {"idle", "page", "upsert", "children", "replace", "record"}
      /\ p.parents \in Seq(Issues) /\ p.found \in Seq(Issues \X Issues)
  BY <1>1 DEF Pass
<1>3. p.pc = "children" /\ UNCHANGED <<github, projection, raced, events>>
  BY DEF FetchChildren
<1>4. pass' = [pass EXCEPT ![s] = q]
  BY DEF FetchChildren
<1>5. p.parents # <<>> /\ p.left = <<>>
  BY <1>1, <1>3 DEF Stage
<1> HIDE DEF p
<1>6. /\ n \in Issues /\ n = p.parents[1] /\ Len(p.parents) >= 1 /\ Len(p.parents) \in Nat
      /\ parents \in Seq(Issues) /\ Len(parents) = Len(p.parents) - 1
      /\ \A k \in 1..Len(parents) : parents[k] = p.parents[k+1]
  <2>1. Len(p.parents) \in Nat /\ Len(p.parents) # 0
    BY <1>2, <1>5, EmptySeq
  <2>2. Head(p.parents) = p.parents[1]
    BY <1>2, <1>5
  <2> QED
    BY <1>2, <1>5, <2>1, <2>2, HeadTailProperties
<1> HIDE DEF n, parents
<1>7. found \in Seq(Issues \X Issues)
  <2>1. ChildrenOf(n) \in Seq(Issues \X Issues)
    BY <1>1, <1>6, ChildrenAre
  <2> QED
    BY <1>2, <2>1
<1>9. /\ pc \in {"children", "replace", "record"}
      /\ pc = "children" => Len(p.parents) > 1
      /\ pc # "children" => Len(p.parents) <= 1
  <2> HIDE DEF found
  <2> QED
    BY <1>3, <1>6
<1>10. Len(p.parents) <= 1 => parents = <<>>
  BY <1>6, EmptySeq
<1>11. Len(p.parents) > 1 => parents # <<>>
  BY <1>6, EmptySeq
<1> HIDE DEF found, pc
<1>12. q \in Pass
  BY <1>1, <1>6, <1>7, <1>9 DEF Pass
<1>13. /\ q.parents = parents /\ q.found = found /\ q.pc = pc
       /\ q.delivery = p.delivery /\ q.since = p.since /\ q.complete = p.complete
       /\ q.left = p.left /\ q.numbers = p.numbers /\ q.newest = p.newest
  BY <1>1 DEF Pass
<1>14. pass'[s] = q /\ \A t \in Slots \ {s} : pass'[t] = pass[t]
  BY <1>1, <1>4
<1>15. pass' \in [Slots -> Pass]
  <2> HIDE DEF q
  <2> QED
    BY <1>1, <1>4, <1>12
<1> HIDE DEF q
<1>16. Stage(q)
  BY <1>5, <1>9, <1>10, <1>11, <1>13 DEF Stage
<1>17. Goes(s, q)
  BY <1>12, <1>14, <1>15, <1>16 DEF Goes
<1> QED
  BY <1>3, <1>5, <1>6, <1>9, <1>12, <1>13, <1>17 DEF p, n, found

LEMMA ReplaceLinksIs ==
  ASSUME SyncTyped, NEW s \in Slots, ReplaceLinks(s)
  PROVE  \E q \in Pass :
           LET p == pass[s]
           IN  /\ p.pc = "replace" /\ Goes(s, q) /\ q.pc = "record"
               /\ UNCHANGED <<github, projected, cursor, raced, events>>
               /\ links' = VisibleLinks(p) /\ links' \subseteq Issues \X Issues
               /\ q.delivery = p.delivery /\ q.since = p.since /\ q.complete = p.complete
               /\ q.left = <<>> /\ q.parents = <<>> /\ q.numbers = p.numbers /\ q.newest = p.newest
               /\ q.found = p.found
<1> DEFINE p == pass[s]
           q == [p EXCEPT !.pc = "record"]
<1>1. p \in Pass /\ Stage(p) /\ pass \in [Slots -> Pass]
  BY DEF SyncTyped, SyncTypeOK
<1>2. /\ p.pc = "replace" /\ UNCHANGED <<github, projected, cursor, raced, events>>
      /\ links' = VisibleLinks(p) /\ pass' = [pass EXCEPT ![s] = q]
  BY <1>1 DEF ReplaceLinks
<1> HIDE DEF p
<1>3. p.left = <<>> /\ p.parents = <<>>
  BY <1>1, <1>2 DEF Stage
<1>4. q \in Pass
  BY <1>1 DEF Pass
<1>5. /\ q.pc = "record" /\ q.delivery = p.delivery /\ q.since = p.since /\ q.complete = p.complete
      /\ q.left = p.left /\ q.parents = p.parents /\ q.numbers = p.numbers /\ q.newest = p.newest
      /\ q.found = p.found
  BY <1>1 DEF Pass
<1>6. pass'[s] = q /\ \A t \in Slots \ {s} : pass'[t] = pass[t]
  BY <1>1, <1>2
<1>7. pass' \in [Slots -> Pass]
  <2> HIDE DEF q
  <2> QED
    BY <1>1, <1>2, <1>4
<1> HIDE DEF q
<1>8. Goes(s, q)
  BY <1>3, <1>4, <1>5, <1>6, <1>7 DEF Stage, Goes
<1>9. links' \subseteq Issues \X Issues
  <2>1. p.found \in Seq(Issues \X Issues)
    BY <1>1 DEF Pass
  <2>2. \A j \in 1..Len(p.found) : p.found[j] \in Issues \X Issues
    BY <2>1
  <2>3. Len(p.found) \in 0..Len(p.found)
    BY <2>1
  <2> QED
    BY <1>2, <2>1, <2>2, <2>3, AcceptedIs, AcceptedFound
<1> QED
  BY <1>2, <1>3, <1>4, <1>5, <1>8, <1>9 DEF p

\* A pass that ends, by itself or not.
LEMMA EndsIs ==
  ASSUME SyncTyped, NEW s \in Slots, RecordCursor(s) \/ FailPass(s)
  PROVE  /\ pass[s].pc # "idle" /\ Goes(s, NoPass)
         /\ UNCHANGED <<github, projected, links, raced>>
         /\ \/ pass[s].pc = "record" /\ cursor' = pass[s].newest /\ UNCHANGED events
            \/ FailPass(s) /\ SyncEvent /\ cursor' = IF pass[s].delivery THEN cursor ELSE pass[s].since
<1>1. pass \in [Slots -> Pass] /\ pass' = [pass EXCEPT ![s] = NoPass]
  BY DEF SyncTyped, SyncTypeOK, RecordCursor, FailPass
<1>2. Goes(s, NoPass)
  <2>1. NoPass \in Pass /\ Stage(NoPass)
    BY NoPassIs
  <2> QED
    BY <1>1, <2>1 DEF Goes
<1> QED
  BY <1>2 DEF RecordCursor, FailPass, Running

\* A change on GitHub: every pass goes on, but is complete no more.
LEMMA TouchIs ==
  ASSUME SyncTyped, NEW i \in Issues, NEW tick \in {0, 1}, Touch(i, tick)
  PROVE  /\ events' = events + 1 /\ events' \in 0..MaxEvents
         /\ now' = now + tick /\ now' \in Times /\ now' >= now
         /\ issue' \in [Issues -> [updated : Times, content : Contents]]
         /\ issue'[i].updated = now' /\ issue'[i].content = issue[i].content + 1
         /\ \A j \in Issues \ {i} : issue'[j] = issue[j]
         /\ pass' \in [Slots -> Pass]
         /\ \A s \in Slots :
              /\ pass'[s] = [pass[s] EXCEPT !.complete = FALSE]
              /\ ~pass'[s].complete /\ Stage(pass'[s])
              /\ pass'[s].pc = pass[s].pc /\ pass'[s].delivery = pass[s].delivery
              /\ pass'[s].since = pass[s].since /\ pass'[s].pages = pass[s].pages
              /\ pass'[s].left = pass[s].left /\ pass'[s].newest = pass[s].newest
         /\ raced' = (raced \/ \E s \in Slots : pass[s].pc = "page" /\ pass[s].pages > 0)
         /\ UNCHANGED projection
<1>1. /\ pass \in [Slots -> Pass] /\ \A s \in Slots : pass[s] \in Pass /\ Stage(pass[s])
      /\ issue \in [Issues -> [updated : Times, content : Contents]] /\ now \in Nat
      /\ events \in 0..MaxEvents
  BY SyncNumbers DEF SyncTyped, SyncTypeOK
<1>2. /\ events < MaxEvents /\ events' = events + 1 /\ now' = now + tick
      /\ issue' = [issue EXCEPT ![i] = [updated |-> now', content |-> @.content + 1]]
      /\ pass' = [s \in Slots |-> [pass[s] EXCEPT !.complete = FALSE]]
      /\ raced' = (raced \/ \E s \in Slots : pass[s].pc = "page" /\ pass[s].pages > 0)
      /\ UNCHANGED projection
  BY DEF Touch, SyncEvent
<1>3. events' \in 0..MaxEvents /\ now' \in Times /\ now' >= now
  BY <1>1, <1>2, SyncNumbers DEF SyncTyped, Young
<1>4. issue[i].content + 1 \in Contents
  BY <1>1, <1>2, SyncNumbers DEF SyncTyped, Young
<1>5. /\ issue' \in [Issues -> [updated : Times, content : Contents]]
      /\ issue'[i].updated = now' /\ issue'[i].content = issue[i].content + 1
      /\ \A j \in Issues \ {i} : issue'[j] = issue[j]
  BY <1>1, <1>2, <1>3, <1>4
<1>6. ASSUME NEW s \in Slots
      PROVE  LET q == [pass[s] EXCEPT !.complete = FALSE]
             IN  /\ q \in Pass /\ ~q.complete /\ Stage(q)
                 /\ q.pc = pass[s].pc /\ q.delivery = pass[s].delivery
                 /\ q.since = pass[s].since /\ q.pages = pass[s].pages
                 /\ q.left = pass[s].left /\ q.newest = pass[s].newest
  <2>1. pass[s] \in Pass /\ Stage(pass[s])
    BY <1>1
  <2> QED
    BY <2>1 DEF Pass, Stage
<1>7. pass' \in [Slots -> Pass]
  BY <1>2, <1>6
<1>8. \A s \in Slots : pass'[s] = [pass[s] EXCEPT !.complete = FALSE]
  BY <1>2
<1> QED
  BY <1>2, <1>3, <1>5, <1>6, <1>7, <1>8

(***************************************************************************)
(* Types                                                                   *)
(***************************************************************************)

LEMMA SyncTypeInit == SyncInit => SyncTyped
<1> SUFFICES ASSUME SyncInit PROVE SyncTyped
  OBVIOUS
<1>1. issue = [i \in Issues |-> [updated |-> Opened[i], content |-> IF Opened[i] = 0 THEN 0 ELSE 1]]
      /\ now = Cardinality(Issues) /\ events = 0 /\ raced = FALSE /\ links = {}
      /\ parentOf = [i \in Issues |-> 0]
      /\ pass = [s \in Slots |-> NoPass]
  BY DEF SyncInit
<1>2. \A i \in Issues : issue[i].updated \in Times /\ issue[i].content \in Contents /\ issue[i].content <= 1
                        /\ issue[i].updated <= Cardinality(Issues)
  BY <1>1, SyncNumbers
<1>3. issue \in [Issues -> [updated : Times, content : Contents]]
  BY <1>1, SyncNumbers
<1>4. projected \in [Issues -> Contents]
  BY <1>2, SyncNumbers DEF SyncInit
<1>5. cursor \in Times
  BY SyncNumbers DEF SyncInit
<1>6. pass \in [Slots -> Pass] /\ \A s \in Slots : Stage(pass[s])
  BY <1>1, NoPassIs
<1>7. SyncTypeOK
  <2>1. raced \in BOOLEAN /\ links \subseteq Issues \X Issues
    BY <1>1
  <2>3. events \in 0..MaxEvents
    BY <1>1, SyncNumbers
  <2>4. now \in Times
    <3>1. now = Cardinality(Issues)
      BY <1>1
    <3> QED
      BY <3>1, SyncNumbers
  <2>2. parentOf \in [Issues -> Issues \cup {0}]
    BY <1>1
  <2> QED
    BY <1>3, <1>4, <1>5, <1>6, <2>1, <2>2, <2>3, <2>4 DEF SyncTypeOK
<1>8. ASSUME NEW i \in Issues PROVE Cardinality(Issues) >= 1
  BY SyncConstants, SyncNumbers, FS_EmptySet
<1>9. Young
  <2>1. now = Cardinality(Issues) /\ events = 0 /\ Cardinality(Issues) \in Nat
    BY <1>1, SyncNumbers
  <2>2. \A i \in Issues : issue[i].content <= events + 1
    BY <1>2, <2>1
  <2> QED
    BY <1>2, <1>8, <2>1, <2>2 DEF Young
<1> QED
  BY <1>6, <1>7, <1>9 DEF SyncTyped

\* A step of one pass, with GitHub as it is.
LEMMA SyncTypeGoes ==
  ASSUME SyncTyped, NEW s \in Slots, NEW q, Goes(s, q), UNCHANGED github,
         projected' \in [Issues -> Contents], links' \subseteq Issues \X Issues, cursor' \in Times,
         raced' \in BOOLEAN, events' = events \/ SyncEvent
  PROVE  SyncTyped'
<1>1. events \in Nat /\ events' \in 0..MaxEvents /\ events' >= events
  BY SyncNumbers DEF SyncTyped, SyncTypeOK, SyncEvent
<1>2. SyncTypeOK'
  BY <1>1 DEF SyncTyped, SyncTypeOK, Goes, github
<1>3. Young'
  <2>1. now \in Nat /\ \A i \in Issues : issue[i].content \in Nat
    BY SyncNumbers DEF SyncTyped, SyncTypeOK
  <2> QED
    BY <1>1, <2>1, SyncNumbers DEF SyncTyped, Young, github
<1>4. \A t \in Slots : Stage(pass'[t])
  BY DEF SyncTyped, Goes
<1> QED
  BY <1>2, <1>3, <1>4 DEF SyncTyped

LEMMA SyncTypeTouch ==
  ASSUME SyncTyped, NEW i \in Issues, NEW tick \in {0, 1}, Touch(i, tick),
         parentOf' \in [Issues -> Issues \cup {0}]
  PROVE  SyncTyped'
<1>1. SyncTypeOK'
  BY TouchIs DEF SyncTyped, SyncTypeOK, projection
<1>2. Young'
  <2>1. /\ now \in Nat /\ now' \in Nat /\ events \in Nat /\ events' = events + 1
        /\ now' = now + tick /\ now <= Cardinality(Issues) + events
    <3>1. events' = events + 1 /\ now' = now + tick /\ now' \in Times
      BY TouchIs
    <3>2. now \in Times /\ events \in 0..MaxEvents /\ now <= Cardinality(Issues) + events
      BY DEF SyncTyped, SyncTypeOK, Young
    <3> QED
      BY <3>1, <3>2, SyncNumbers
  <2>2. \A j \in Issues : /\ now >= 1 /\ issue[j].updated <= now /\ issue[j].content <= events + 1
                          /\ issue[j].updated \in Nat /\ issue[j].content \in Nat
    BY SyncNumbers DEF SyncTyped, SyncTypeOK, Young
  <2>3. ASSUME NEW j \in Issues
        PROVE  now' >= 1 /\ issue'[j].updated <= now' /\ issue'[j].content <= events' + 1
    <3>1. CASE j = i
      BY <2>1, <2>2, <3>1, TouchIs
    <3>2. CASE j # i
      <4>1. issue'[j] = issue[j]
        BY <3>2, TouchIs
      <4> QED
        BY <2>1, <2>2, <4>1
    <3> QED
      BY <3>1, <3>2
  <2> QED
    BY <2>1, <2>3, SyncNumbers DEF Young
<1>3. \A s \in Slots : Stage(pass'[s])
  BY TouchIs
<1> QED
  BY <1>1, <1>2, <1>3 DEF SyncTyped

\* A pass begins: what it starts from.
LEMMA BeginFrom ==
  ASSUME SyncTyped, Tick \/ Button \/ Delivery
  PROVE  \E s \in Slots, delivery \in BOOLEAN, from \in Times :
           Begin(s, delivery, from) /\ from = (IF delivery THEN 0 ELSE cursor)
           /\ (UNCHANGED events \/ SyncEvent)
  BY SyncNumbers DEF SyncTyped, SyncTypeOK, Tick, Button, Delivery, Slots

\* One page, or one row, or one issue's children, or the links.
LEMMA PassStepGoes ==
  ASSUME SyncTyped, NEW s \in Slots, PassStep(s) \/ FailPass(s)
  PROVE  \E q \in Pass : Goes(s, q)
  BY FetchPageIs, UpsertIs, FetchChildrenIs, ReplaceLinksIs, EndsIs DEF PassStep, Goes

LEMMA RestartIs ==
  ASSUME SyncTyped, RestartPanel
  PROVE  /\ pass' \in [Slots -> Pass] /\ \A s \in Slots : pass'[s] = NoPass
         /\ SyncEvent /\ UNCHANGED <<github, projection, raced>>
  BY NoPassIs DEF RestartPanel

LEMMA SyncTypeNext == SyncTyped /\ [SyncNext]_syncVars => SyncTyped'
<1> SUFFICES ASSUME SyncTyped, [SyncNext]_syncVars PROVE SyncTyped'
  OBVIOUS
<1>0. SyncTypeOK
  BY DEF SyncTyped
<1>1. ASSUME NEW i \in Issues, NEW tick \in {0, 1}, Edit(i, tick) PROVE SyncTyped'
  BY <1>0, <1>1, SyncTypeTouch DEF Edit, SyncTypeOK
<1>2. ASSUME NEW p \in Issues, NEW c \in Issues, EditChildren(p, c) PROVE SyncTyped'
  BY <1>0, <1>2, SyncTypeTouch DEF EditChildren, SyncTypeOK
<1>3. ASSUME NEW s \in Slots, NEW delivery \in BOOLEAN, NEW from \in Times, Begin(s, delivery, from),
             UNCHANGED events \/ SyncEvent
      PROVE  SyncTyped'
  <2>1. /\ UNCHANGED <<github, projection>> /\ raced' \in BOOLEAN
        /\ pass' \in [Slots -> Pass] /\ \A t \in Slots : Stage(pass'[t])
    BY <1>0, <1>3, BeginIs DEF SyncTypeOK
  <2>2. events \in Nat /\ events' \in 0..MaxEvents /\ events' >= events
    BY <1>0, <1>3, SyncNumbers DEF SyncTypeOK, SyncEvent
  <2>3. SyncTypeOK'
    BY <1>0, <2>1, <2>2 DEF SyncTypeOK, github, projection
  <2>4. Young'
    <3>1. now \in Nat /\ \A i \in Issues : issue[i].content \in Nat
      BY <1>0, SyncNumbers DEF SyncTypeOK
    <3> QED
      BY <2>1, <2>2, <3>1, SyncNumbers DEF SyncTyped, Young, github
  <2> QED
    BY <2>1, <2>3, <2>4 DEF SyncTyped
<1>4. ASSUME NEW s \in Slots, FetchPage(s) PROVE SyncTyped'
  <2>1. PICK q : Goes(s, q) /\ UNCHANGED <<github, projection, raced, events>>
    BY <1>4, FetchPageIs
  <2> QED
    BY <1>0, <2>1, SyncTypeGoes DEF SyncTypeOK, projection
<1>5. ASSUME NEW s \in Slots, Upsert(s) PROVE SyncTyped'
  <2>1. PICK q \in Pass, e \in Entry : Goes(s, q) /\ projected' = [projected EXCEPT ![e.number] = e.content]
                              /\ UNCHANGED <<github, links, cursor, raced, events>>
    BY <1>5, UpsertIs
  <2>2. projected' \in [Issues -> Contents]
    BY <1>0, <2>1 DEF SyncTypeOK, Entry
  <2> QED
    BY <1>0, <2>1, <2>2, SyncTypeGoes DEF SyncTypeOK
<1>6. ASSUME NEW s \in Slots, FetchChildren(s) PROVE SyncTyped'
  <2>1. PICK q : Goes(s, q) /\ UNCHANGED <<github, projection, raced, events>>
    BY <1>6, FetchChildrenIs
  <2> QED
    BY <1>0, <2>1, SyncTypeGoes DEF SyncTypeOK, projection
<1>7. ASSUME NEW s \in Slots, ReplaceLinks(s) PROVE SyncTyped'
  <2>1. PICK q : Goes(s, q) /\ UNCHANGED <<github, projected, cursor, raced, events>>
                 /\ links' \subseteq Issues \X Issues
    BY <1>7, ReplaceLinksIs
  <2> QED
    BY <1>0, <2>1, SyncTypeGoes DEF SyncTypeOK
<1>8. ASSUME NEW s \in Slots, RecordCursor(s) \/ FailPass(s) PROVE SyncTyped'
  <2>1. /\ Goes(s, NoPass) /\ UNCHANGED <<github, projected, links, raced>>
        /\ (UNCHANGED events \/ SyncEvent) /\ cursor' \in {cursor, pass[s].newest, pass[s].since}
    BY <1>8, EndsIs
  <2>2. cursor' \in Times
    BY <1>0, <2>1 DEF SyncTypeOK, Pass
  <2> QED
    BY <1>0, <2>1, <2>2, SyncTypeGoes DEF SyncTypeOK
<1>9. ASSUME RestartPanel PROVE SyncTyped'
  <2>1. /\ pass' \in [Slots -> Pass] /\ \A s \in Slots : pass'[s] = NoPass
        /\ SyncEvent /\ UNCHANGED <<github, projection, raced>>
    BY <1>9, RestartIs
  <2>2. events \in Nat /\ events' \in 0..MaxEvents /\ events' >= events
    BY <1>0, <2>1, SyncNumbers DEF SyncTypeOK, SyncEvent
  <2>3. SyncTypeOK'
    BY <1>0, <2>1, <2>2 DEF SyncTypeOK, github, projection
  <2>4. Young'
    <3>1. now \in Nat /\ \A i \in Issues : issue[i].content \in Nat
      BY <1>0, SyncNumbers DEF SyncTypeOK
    <3> QED
      BY <2>1, <2>2, <3>1, SyncNumbers DEF SyncTyped, Young, github
  <2> QED
    BY <2>1, <2>3, <2>4, NoPassIs DEF SyncTyped
<1>10. CASE UNCHANGED syncVars
  BY <1>10 DEF SyncTyped, SyncTypeOK, Young, syncVars, github, projection
<1> QED
  BY <1>1, <1>2, <1>3, <1>4, <1>5, <1>6, <1>7, <1>8, <1>9, <1>10, BeginFrom
     DEF SyncNext, PassStep

\* The state of the passes has the shapes the model declares; no date is later
\* than GitHub's clock, and every stage of a pass has what it works on.
THEOREM SyncTypeCorrect == SyncSpec => []SyncTypeOK
<1>1. SyncTyped => SyncTypeOK
  BY DEF SyncTyped
<1> QED
  BY <1>1, SyncTypeInit, SyncTypeNext, PTL DEF SyncSpec

(***************************************************************************)
(* CursorCovers                                                            *)
(***************************************************************************)

\* What a page said still holds.
Current(e) == e.updated = issue[e.number].updated /\ e.content = issue[e.number].content

\* Nothing that was read or stored is dated after t.
NotAfter(p, t) ==
  cursor <= t /\ p.newest <= t /\ \A k \in 1..Len(p.left) : p.left[k].updated <= t

\* Nobody reads what is not there.
AllOpened(p) == \A k \in 1..Len(p.left) : issue[p.left[k].number].updated # 0

Dated == \A s \in Slots : NotAfter(pass[s], now) /\ pass[s].since <= now /\ AllOpened(pass[s])

\* An issue that is not there has no content and no row.
Unopened == \A i \in Issues : issue[i].updated = 0 => issue[i].content = 0 /\ projected[i] = 0

Alone == \A s, t \in Slots : pass[s].pc # "idle" /\ pass[t].pc # "idle" => s = t

\* A pass that is read from the pages of one listing.
OnPage(p) ==
  p.pc = "page" => /\ p.newest = p.since
                   /\ Len(p.left) = p.pages * PageSize
                   /\ Len(p.left) > 0 => Len(p.left) <= Len(Listing(p.since))
                   /\ \A k \in 1..Len(p.left) : p.left[k] = Listing(p.since)[k]

\* An entry that no longer holds is of an issue that changed after all that was
\* read, so that it will be read again.
StillToRead(p) ==
  \A k \in 1..Len(p.left) : Current(p.left[k]) \/ NotAfter(p, issue[p.left[k].number].updated)

\* The dates the cursor will have passed when the pass is over.
Passed(p, i) ==
  issue[i].updated < p.newest \/ \E k \in 1..Len(p.left) : issue[i].updated < p.left[k].updated

\* An issue the cursor will have passed is projected, or about to be.
Covered(p) ==
  p.pc \in {"upsert", "children", "replace", "record"} =>
    \A i \in Issues : Passed(p, i) =>
      \/ projected[i] = issue[i].content
      \/ \E k \in 1..Len(p.left) : p.left[k].number = i /\ Current(p.left[k])

PassInv(p) ==
  /\ p.pc # "idle" => p.since = IF p.delivery THEN 0 ELSE cursor
  /\ OnPage(p) /\ StillToRead(p) /\ Covered(p)

CursorInv ==
  /\ SyncTyped /\ Unopened /\ Dated
  /\ raced \/ (CursorCovers /\ Alone /\ \A s \in Slots : PassInv(pass[s]))

\* Nothing is asked of a slot without a pass.
LEMMA IdleInv ==
  ASSUME NEW p, p.pc = "idle", p.left = <<>>
  PROVE  PassInv(p)
<1>1. Len(p.left) = 0 /\ 1..0 = {}
  OBVIOUS
<1> QED
  BY <1>1 DEF PassInv, OnPage, StillToRead, Covered

LEMMA CursorInit == SyncInit => CursorInv
<1> SUFFICES ASSUME SyncInit PROVE CursorInv
  OBVIOUS
<1>1. SyncTyped
  BY SyncTypeInit
<1>2. /\ issue = [i \in Issues |-> [updated |-> Opened[i], content |-> IF Opened[i] = 0 THEN 0 ELSE 1]]
      /\ now = Cardinality(Issues) /\ \A s \in Slots : pass[s] = NoPass
  BY DEF SyncInit
<1>3. \A i \in Issues : issue[i].updated = Opened[i] /\ issue[i].content = IF Opened[i] = 0 THEN 0 ELSE 1
  BY <1>2
<1>4. \/ (\A i \in Issues : projected[i] = 0) /\ cursor = 0
      \/ (\A i \in Issues : projected[i] = issue[i].content) /\ \E i \in Issues : cursor = Opened[i]
  BY DEF SyncInit
<1>5. Unopened
  BY <1>3, <1>4 DEF Unopened
<1>6. cursor <= now
  BY <1>2, <1>4, SyncNumbers
<1>7. Dated
  <2>1. /\ NoPass.newest = 0 /\ NoPass.since = 0 /\ Len(NoPass.left) = 0 /\ 1..0 = {}
    BY DEF NoPass
  <2>2. 0 <= now
    BY <1>2, SyncNumbers
  <2> QED
    BY <1>2, <1>6, <2>1, <2>2 DEF Dated, NotAfter, AllOpened
<1>8. CursorCovers
  <2>1. \A i \in Issues : ~(issue[i].updated < 0)
    BY <1>3, SyncNumbers
  <2> QED
    BY <1>4, <2>1 DEF CursorCovers
<1>9. Alone /\ \A s \in Slots : PassInv(pass[s])
  BY <1>2, NoPassIs, IdleInv DEF Alone
<1> QED
  BY <1>1, <1>5, <1>7, <1>8, <1>9 DEF CursorInv

\* A step of one pass, with GitHub as it is: what has to be shown of it.
LEMMA CursorGoes ==
  ASSUME CursorInv, SyncTyped', NEW s \in Slots, NEW q, Goes(s, q), pass[s].pc # "idle",
         UNCHANGED github, raced' = raced,
         Unopened', NotAfter(q, now)', AllOpened(q)', q.since <= now,
         ~raced => CursorCovers' /\ PassInv(q)'
  PROVE  CursorInv'
<1>1. \A t \in Slots \ {s} : pass'[t] = pass[t]
  BY DEF Goes
<1>2. pass'[s] = q
  BY DEF Goes
<1>3. now' = now /\ cursor' <= now
  BY DEF github, NotAfter
<1>4. Dated'
  <2> SUFFICES ASSUME NEW t \in Slots
               PROVE  NotAfter(pass[t], now)' /\ pass'[t].since <= now' /\ AllOpened(pass[t])'
    BY DEF Dated
  <2>1. CASE t = s
    BY <1>2, <1>3, <2>1 DEF AllOpened
  <2>2. CASE t # s
    <3>1. NotAfter(pass[t], now) /\ pass[t].since <= now /\ AllOpened(pass[t]) /\ pass'[t] = pass[t]
      BY <1>1, <2>2 DEF CursorInv, Dated
    <3> QED
      BY <1>3, <3>1 DEF NotAfter, AllOpened, github
  <2> QED
    BY <2>1, <2>2
<1>5. ASSUME ~raced' PROVE CursorCovers' /\ Alone' /\ \A t \in Slots : PassInv(pass[t])'
  <2>1. Alone /\ ~raced
    BY <1>5 DEF CursorInv
  <2>2. \A t \in Slots \ {s} : pass'[t] = pass[t] /\ pass'[t].pc = "idle"
    BY <1>1, <2>1 DEF Alone
  <2>3. Alone'
    BY <2>2 DEF Alone
  <2>4. ASSUME NEW t \in Slots \ {s} PROVE PassInv(pass[t])'
    <3>1. pass'[t].pc = "idle" /\ pass'[t].left = <<>>
      <4>1. Stage(pass'[t])
        BY DEF SyncTyped
      <4> QED
        BY <2>2, <4>1 DEF Stage
    <3>2. Len(pass'[t].left) = 0 /\ 1..0 = {}
      BY <3>1
    <3> QED
      BY <3>1, <3>2 DEF PassInv, OnPage, StillToRead, Covered
  <2> QED
    BY <1>2, <2>1, <2>3, <2>4
<1> QED
  BY <1>4, <1>5 DEF CursorInv

\* How far a pass has come, or who began it, is all the same to the dates.
LEMMA SameDates ==
  ASSUME NEW p, NEW q, q.left = p.left, q.newest = p.newest, q.since = p.since
  PROVE  \A t : NotAfter(q, t) <=> NotAfter(p, t)
  BY DEF NotAfter

\* GitHub changes.  What was read of the issue no longer holds, but it changed
\* after all that was read.
LEMMA CursorTouch ==
  ASSUME CursorInv, SyncTyped', NEW i \in Issues, NEW tick \in {0, 1}, Touch(i, tick)
  PROVE  CursorInv'
<1>0. SyncTyped
  BY DEF CursorInv
<1>1. /\ now' >= now /\ now \in Nat /\ now' \in Nat /\ now' >= 1 /\ cursor \in Nat
      /\ issue'[i].updated = now' /\ \A j \in Issues \ {i} : issue'[j] = issue[j]
      /\ projected' = projected /\ cursor' = cursor
      /\ raced' = (raced \/ \E s \in Slots : pass[s].pc = "page" /\ pass[s].pages > 0)
      /\ \A j \in Issues : issue[j].updated \in Nat /\ issue'[j].updated \in Nat
  <2>1. /\ now' >= now /\ now' \in Times /\ now \in Times /\ cursor \in Times
        /\ issue'[i].updated = now' /\ \A j \in Issues \ {i} : issue'[j] = issue[j]
        /\ raced' = (raced \/ \E s \in Slots : pass[s].pc = "page" /\ pass[s].pages > 0)
        /\ projected' = projected /\ cursor' = cursor
    BY <1>0, TouchIs DEF SyncTyped, SyncTypeOK, projection
  <2>2. now' >= 1
    BY DEF SyncTyped, Young
  <2>3. \A j \in Issues : issue[j].updated \in Nat
    BY <1>0, SyncNumbers DEF SyncTyped, SyncTypeOK
  <2>4. \A j \in Issues : issue'[j].updated \in Nat
    BY SyncNumbers DEF SyncTyped, SyncTypeOK
  <2> QED
    BY <2>1, <2>2, <2>3, <2>4, SyncNumbers
<1>2. \A s \in Slots : /\ pass'[s].pc = pass[s].pc /\ pass'[s].delivery = pass[s].delivery
                       /\ pass'[s].since = pass[s].since /\ pass'[s].pages = pass[s].pages
                       /\ pass'[s].left = pass[s].left /\ pass'[s].newest = pass[s].newest
  BY <1>0, TouchIs
<1>3. \A s \in Slots : /\ pass[s].newest \in Nat /\ pass[s].since \in Nat /\ pass[s].since \in Times
                       /\ Len(pass[s].left) \in Nat
                       /\ \A k \in 1..Len(pass[s].left) : /\ pass[s].left[k].updated \in Nat
                                                           /\ pass[s].left[k].number \in Issues
  <2> SUFFICES ASSUME NEW s \in Slots
               PROVE  /\ pass[s].newest \in Nat /\ pass[s].since \in Nat /\ pass[s].since \in Times
                      /\ Len(pass[s].left) \in Nat
                      /\ \A k \in 1..Len(pass[s].left) : /\ pass[s].left[k].updated \in Nat
                                                          /\ pass[s].left[k].number \in Issues
    OBVIOUS
  <2>1. pass[s].newest \in Times /\ pass[s].since \in Times /\ pass[s].left \in Seq(Entry)
    BY <1>0 DEF SyncTyped, SyncTypeOK, Pass
  <2>2. \A k \in 1..Len(pass[s].left) : pass[s].left[k] \in Entry
    BY <2>1
  <2>3. \A e \in Entry : e.updated \in Nat /\ e.number \in Issues
    BY SyncNumbers DEF Entry
  <2> HIDE DEF Entry
  <2> QED
    BY <2>1, <2>2, <2>3, SyncNumbers
<1>4. Unopened'
  BY <1>1 DEF CursorInv, Unopened
<1>5. \A s \in Slots : NotAfter(pass[s], now) /\ pass[s].since <= now /\ AllOpened(pass[s])
  BY DEF CursorInv, Dated
<1>6. \A s \in Slots : NotAfter(pass[s], now)' /\ pass'[s].since <= now'
  BY <1>1, <1>2, <1>3, <1>5 DEF NotAfter
<1>7. Dated'
  <2>1. \A s \in Slots : AllOpened(pass[s])'
    BY <1>1, <1>2, <1>3, <1>5 DEF AllOpened
  <2> QED
    BY <1>6, <2>1 DEF Dated
<1>8. ASSUME ~raced' PROVE CursorCovers' /\ Alone' /\ \A s \in Slots : PassInv(pass[s])'
  <2>1. CursorCovers /\ Alone /\ ~raced /\ \A s \in Slots : PassInv(pass[s])
    BY <1>1, <1>8 DEF CursorInv
  <2>2. Alone'
    BY <1>2, <2>1 DEF Alone
  <2>3. CursorCovers'
    <3> SUFFICES ASSUME NEW j \in Issues, issue'[j].updated < cursor'
                 PROVE  projected'[j] = issue'[j].content
      BY DEF CursorCovers
    <3>1. \E s : s \in Slots
      BY DEF Slots
    <3>2. cursor <= now
      BY <1>5, <3>1 DEF NotAfter
    <3>3. j # i
      BY <1>1, <3>2
    <3> QED
      BY <1>1, <2>1, <3>3 DEF CursorCovers
  <2>4. ASSUME NEW s \in Slots PROVE PassInv(pass[s])'
    <3>0. PassInv(pass[s])
      BY <2>1
    <3>1. pass'[s].pc # "idle" => pass'[s].since = IF pass'[s].delivery THEN 0 ELSE cursor'
      BY <1>1, <1>2, <3>0 DEF PassInv
    <3>2. OnPage(pass[s])'
      <4> SUFFICES ASSUME pass'[s].pc = "page" PROVE OnPage(pass[s])'
        BY DEF OnPage
      <4>1. pass[s].pages = 0
        <5>1. pass[s].pages \in Nat
          BY <1>0, SyncConstants DEF SyncTyped, SyncTypeOK, Pass
        <5>2. pass[s].pc = "page"
          BY <1>2
        <5>3. ~(pass[s].pages > 0)
          BY <1>1, <1>8, <5>2
        <5> QED
          BY <5>1, <5>3
      <4>2. Len(pass[s].left) = 0
        <5>1. 0 * PageSize = 0
          BY SyncConstants
        <5> QED
          BY <1>2, <3>0, <4>1, <5>1 DEF PassInv, OnPage
      <4>3. pass'[s].newest = pass'[s].since
        BY <1>2, <3>0 DEF PassInv, OnPage
      <4>5. Len(pass'[s].left) = pass'[s].pages * PageSize
        BY <1>2, <3>0 DEF PassInv, OnPage
      <4> QED
        BY <1>2, <4>2, <4>3, <4>5 DEF OnPage
    <3>3. StillToRead(pass[s])'
      <4> SUFFICES ASSUME NEW k \in 1..Len(pass[s].left)
                   PROVE  \/ Current(pass[s].left[k])'
                          \/ NotAfter(pass[s], issue[pass[s].left[k].number].updated)'
        BY <1>2 DEF StillToRead
      <4> DEFINE n == pass[s].left[k].number
      <4>0. n \in Issues /\ pass'[s].left[k] = pass[s].left[k]
        BY <1>2, <1>3
      <4>1. CASE n = i
        BY <1>1, <1>6, <4>0, <4>1 DEF NotAfter
      <4>2. CASE n # i
        <5>1. issue'[n] = issue[n]
          BY <1>1, <4>0, <4>2
        <5>2. Current(pass[s].left[k]) \/ NotAfter(pass[s], issue[n].updated)
          BY <3>0 DEF PassInv, StillToRead
        <5> QED
          BY <1>1, <1>2, <4>0, <5>1, <5>2 DEF Current, NotAfter
      <4> QED
        BY <4>1, <4>2
    <3>4. Covered(pass[s])'
      <4> SUFFICES ASSUME pass[s].pc \in {"upsert", "children", "replace", "record"},
                          NEW j \in Issues, Passed(pass[s], j)'
                   PROVE  \/ projected'[j] = issue'[j].content
                          \/ \E k \in 1..Len(pass[s].left) :
                               pass[s].left[k].number = j /\ Current(pass[s].left[k])'
        BY <1>2 DEF Covered
      <4>1. j # i
        <5> SUFFICES ASSUME j = i PROVE FALSE
          OBVIOUS
        <5>1. \/ now' < pass[s].newest
              \/ \E k \in 1..Len(pass[s].left) : now' < pass[s].left[k].updated
          BY <1>1, <1>2 DEF Passed
        <5> QED
          BY <1>1, <1>3, <1>5, <5>1 DEF NotAfter
      <4>2. issue'[j] = issue[j]
        BY <1>1, <4>1
      <4>3. Passed(pass[s], j)
        BY <1>2, <4>2 DEF Passed
      <4>4. \/ projected[j] = issue[j].content
            \/ \E k \in 1..Len(pass[s].left) : pass[s].left[k].number = j /\ Current(pass[s].left[k])
        BY <3>0, <4>3 DEF PassInv, Covered
      <4>5. \A k \in 1..Len(pass[s].left) :
              pass[s].left[k].number = j /\ Current(pass[s].left[k]) => (Current(pass[s].left[k]))'
        <5> SUFFICES ASSUME NEW k \in 1..Len(pass[s].left),
                            pass[s].left[k].number = j, Current(pass[s].left[k])
                     PROVE  (Current(pass[s].left[k]))'
          OBVIOUS
        <5>1. pass'[s].left[k] = pass[s].left[k]
          BY <1>2
        <5> QED
          BY <4>2, <5>1 DEF Current
      <4>6. projected'[j] = projected[j]
        BY <1>1
      <4> QED
        BY <4>2, <4>4, <4>5, <4>6
    <3> QED
      BY <3>1, <3>2, <3>3, <3>4 DEF PassInv
  <2> QED
    BY <2>2, <2>3, <2>4
<1> QED
  BY <1>4, <1>7, <1>8 DEF CursorInv

\* While GitHub is as it is, so is what it lists.
LEMMA SameListing ==
  ASSUME UNCHANGED github
  PROVE  /\ \A e \in Entry : Current(e)' <=> Current(e)
         /\ \A since \in Times : Listing(since)' = Listing(since)
         /\ Graph' = Graph
<1>1. issue' = issue /\ parentOf' = parentOf
  BY DEF github
<1>2. \A e \in Entry : Current(e)' <=> Current(e)
  BY <1>1 DEF Current
<1>3. Graph' = Graph
  BY <1>1 DEF Graph
<1>4. \A since \in Times : Listing(since)' = Listing(since)
  BY <1>1 DEF Listing, Matching, Sorted, Earlier, EntryOf
<1> QED
  BY <1>2, <1>3, <1>4

\* The entries of a pass, and of a listing.
LEMMA PassEntries ==
  ASSUME SyncTyped, NEW p \in Pass
  PROVE  /\ p.newest \in Nat /\ p.since \in Nat /\ Len(p.left) \in Nat
         /\ \A k \in 1..Len(p.left) : /\ p.left[k] \in Entry /\ p.left[k].updated \in Nat
                                         /\ p.left[k].number \in Issues
<1>1. p.newest \in Times /\ p.since \in Times /\ p.left \in Seq(Entry)
  BY DEF Pass
<1>2. \A e \in Entry : e.updated \in Nat /\ e.number \in Issues
  BY SyncNumbers DEF Entry
<1> HIDE DEF Entry
<1> QED
  BY <1>1, <1>2, SyncNumbers

LEMMA ListedEntries ==
  ASSUME SyncTyped, NEW since \in Times
  PROVE  LET all == Listing(since)
         IN  \A k \in 1..Len(all) : /\ all[k] \in Entry /\ Current(all[k])
                                      /\ all[k].number \in Issues /\ all[k].updated \in Nat
                                      /\ issue[all[k].number].updated # 0
                                      /\ all[k].updated = issue[all[k].number].updated
                                      /\ all[k].updated <= now
<1> DEFINE all == Listing(since)
<1>1. GitHubTyped
  BY DEF SyncTyped, SyncTypeOK, GitHubTyped
<1>2. /\ all \in Seq(Entry)
      /\ \A k \in 1..Len(all) : all[k].number \in Matching(since) /\ all[k] = EntryOf(all[k].number)
  BY <1>1, ListingIs
<1> HIDE DEF all
<1>3. ASSUME NEW k \in 1..Len(all)
      PROVE  /\ all[k] \in Entry /\ all[k].number \in Issues
             /\ issue[all[k].number].updated # 0 /\ all[k] = EntryOf(all[k].number)
  BY <1>2 DEF Matching
<1>4. \A i \in Issues : EntryOf(i).updated = issue[i].updated /\ EntryOf(i).content = issue[i].content
  BY DEF EntryOf
<1>5. \A i \in Issues : issue[i].updated \in Nat /\ issue[i].updated <= now
  BY SyncNumbers DEF SyncTyped, SyncTypeOK, Young
<1> QED
  BY <1>3, <1>4, <1>5 DEF all, Current

\* What a pass has read after a page is what the listing begins with.
LEMMA PageExtends ==
  ASSUME NEW all \in Seq(Entry), NEW left \in Seq(Entry), NEW from \in Nat, NEW last \in Nat,
         Len(left) = from, from > 0 => from <= Len(all), last <= Len(all), last = Len(all) \/ last = from + PageSize,
         \A k \in 1..from : left[k] = all[k]
  PROVE  LET more == left \o SubSeq(all, from + 1, last)
         IN  Len(more) = last /\ \A k \in 1..last : more[k] = all[k]
<1> DEFINE page == SubSeq(all, from + 1, last)
<1>1. from <= last /\ Len(all) \in Nat
  BY SyncConstants
<1>2. \A i \in from + 1..last : all[i] \in Entry
  BY <1>1
<1>3. page \in Seq(Entry) /\ Len(page) = last - from /\ \A k \in 1..last - from : page[k] = all[from + k]
  <2>1. /\ page \in Seq(Entry) /\ Len(page) = IF from + 1 <= last THEN last - (from + 1) + 1 ELSE 0
        /\ \A i \in 1..last - (from + 1) + 1 : page[i] = all[from + 1 + i - 1]
    BY <1>1, <1>2, SubSeqProperties
  <2>2. \A k \in 1..last - from : from + 1 + k - 1 = from + k /\ k \in 1..last - (from + 1) + 1
    BY <1>1
  <2> HIDE DEF page
  <2> QED
    BY <1>1, <2>1, <2>2
<1> HIDE DEF page
<1>4. Len(left \o page) = last
  BY <1>1, <1>3
<1>5. \A k \in 1..from + (last - from) :
        (left \o page)[k] = IF k <= from THEN left[k] ELSE page[k - from]
  BY <1>3, ConcatProperties
<1>6. \A k \in 1..last : k \in 1..from + (last - from) /\ k \in Nat /\ k >= 1 /\ k <= last
  BY <1>1
<1>7. ASSUME NEW k \in 1..last PROVE (left \o page)[k] = all[k]
  <2>1. (left \o page)[k] = IF k <= from THEN left[k] ELSE page[k - from]
    BY <1>5, <1>6
  <2>2. ASSUME k <= from PROVE left[k] = all[k]
    <3>1. k \in 1..from
      BY <1>6, <2>2
    <3> QED
      BY <3>1
  <2>3. ASSUME ~(k <= from) PROVE page[k - from] = all[k]
    <3>1. k - from \in 1..last - from /\ from + (k - from) = k
      BY <1>1, <1>6, <2>3
    <3> QED
      BY <1>3, <3>1
  <2> HIDE DEF page
  <2> QED
    BY <2>1, <2>2, <2>3
<1> QED
  BY <1>4, <1>7 DEF page

\* Every entry was there, or is of the page.
LEMMA PageAdds ==
  ASSUME NEW all \in Seq(Entry), NEW left \in Seq(Entry), NEW from \in Nat, NEW last \in Nat,
         last <= Len(all)
  PROVE  LET more == left \o SubSeq(all, from + 1, last)
         IN  \A k \in 1..Len(more) : \/ \E i \in 1..Len(left) : more[k] = left[i]
                                     \/ \E i \in 1..Len(all) : more[k] = all[i]
<1> DEFINE page == SubSeq(all, from + 1, last)
           n == last - (from + 1) + 1
<1>1. \A i \in from + 1..last : all[i] \in Entry /\ i \in 1..Len(all)
  OBVIOUS
<1>2. /\ page \in Seq(Entry) /\ Len(page) = IF from + 1 <= last THEN n ELSE 0
      /\ \A i \in 1..n : page[i] = all[from + 1 + i - 1]
  BY <1>1, SubSeqProperties
<1> HIDE DEF page
<1>3. \A i \in 1..Len(page) : page[i] = all[from + 1 + i - 1] /\ from + 1 + i - 1 \in 1..Len(all)
  BY <1>2
<1>4. /\ Len(left \o page) = Len(left) + Len(page)
      /\ \A k \in 1..Len(left) + Len(page) :
           (left \o page)[k] = IF k <= Len(left) THEN left[k] ELSE page[k - Len(left)]
  BY <1>2, ConcatProperties
<1>5. ASSUME NEW k \in 1..Len(left) + Len(page)
      PROVE  \/ \E j \in 1..Len(left) : (left \o page)[k] = left[j]
             \/ \E j \in 1..Len(all) : (left \o page)[k] = all[j]
  <2>0. Len(left) \in Nat /\ Len(page) \in Nat /\ k \in Nat
    BY <1>2
  <2>1. CASE k <= Len(left)
    <3>1. k \in 1..Len(left) /\ (left \o page)[k] = left[k]
      BY <1>4, <2>0, <2>1
    <3> QED
      BY <3>1
  <2>2. CASE ~(k <= Len(left))
    <3>1. k - Len(left) \in 1..Len(page)
      BY <2>0, <2>2
    <3>2. (left \o page)[k] = page[k - Len(left)]
      BY <1>4, <2>2
    <3> QED
      BY <1>3, <3>1, <3>2
  <2> QED
    BY <2>1, <2>2
<1> QED
  BY <1>4, <1>5 DEF page

\* A page: what was read is what the listing begins with, as it still is.
LEMMA CursorFetchPage ==
  ASSUME CursorInv, SyncTyped', NEW s \in Slots, FetchPage(s)
  PROVE  CursorInv'
<1> DEFINE p == pass[s]
           all == Listing(p.since)
           from == p.pages * PageSize
<1>0. SyncTyped /\ p \in Pass /\ p.since \in Times /\ p.pages \in Nat
  <2>1. SyncTyped /\ p \in Pass
    BY DEF CursorInv, SyncTyped, SyncTypeOK
  <2>2. p.since \in Times /\ p.pages \in 0..MaxPages-1
    BY <2>1 DEF Pass
  <2> QED
    BY <2>1, <2>2, SyncConstants
<1>1. PICK q \in Pass, last \in Nat :
        /\ p.pc = "page" /\ Goes(s, q)
        /\ UNCHANGED <<github, projection, raced, events>>
        /\ last <= Len(all) /\ from \in Nat /\ all \in Seq(Entry)
        /\ q.left = p.left \o SubSeq(all, from + 1, last)
        /\ q.delivery = p.delivery /\ q.since = p.since /\ q.newest = p.newest
        /\ last = Len(all) \/ last = from + PageSize
        /\ \/ q.pc = "page" /\ q.pages = p.pages + 1 /\ last = from + PageSize
           \/ q.pc \in {"upsert", "record"}
  BY <1>0, FetchPageIs
<1>2. /\ UNCHANGED github /\ raced' = raced /\ parentOf' = parentOf
      /\ projected' = projected /\ cursor' = cursor /\ issue' = issue /\ now' = now
  BY <1>1 DEF github, projection
<1>3. /\ \A e \in Entry : Current(e)' <=> Current(e)
      /\ Listing(q.since)' = all
  <2>1. q.since \in Times /\ Listing(q.since) = all
    BY <1>0, <1>1
  <2> QED
    BY <1>2, <2>1, SameListing
<1>4. /\ \A k \in 1..Len(all) : /\ all[k] \in Entry /\ Current(all[k])
                                  /\ all[k].number \in Issues /\ all[k].updated \in Nat
                                  /\ issue[all[k].number].updated # 0
                                  /\ all[k].updated = issue[all[k].number].updated
                                  /\ all[k].updated <= now
  BY <1>0, ListedEntries
<1>12. /\ \A i \in Matching(p.since) : \E k \in 1..Len(all) : all[k].number = i
       /\ \A j, k \in 1..Len(all) : j < k => all[j].updated <= all[k].updated
  <2>1. GitHubTyped
    BY <1>0 DEF SyncTyped, SyncTypeOK, GitHubTyped
  <2> QED
    BY <1>0, <2>1, ListingIs
<1>5. NotAfter(p, now) /\ p.since <= now /\ AllOpened(p) /\ p.left \in Seq(Entry)
  BY <1>0 DEF CursorInv, Dated, Pass
<1>6. p.pc = "page"
  BY <1>1
<1> HIDE DEF p, all, from
<1>7. \A k \in 1..Len(q.left) : \/ \E j \in 1..Len(p.left) : q.left[k] = p.left[j]
                                \/ \E j \in 1..Len(all) : q.left[k] = all[j]
  <2> DEFINE more == p.left \o SubSeq(all, from + 1, last)
  <2>1. all \in Seq(Entry) /\ p.left \in Seq(Entry) /\ from \in Nat /\ last <= Len(all) /\ q.left = more
    BY <1>1, <1>5
  <2>2. \A k \in 1..Len(more) : \/ \E i \in 1..Len(p.left) : more[k] = p.left[i]
                                \/ \E i \in 1..Len(all) : more[k] = all[i]
    BY <2>1, PageAdds
  <2> HIDE DEF more
  <2> QED
    BY <2>1, <2>2
<1>8. NotAfter(q, now)' /\ AllOpened(q)' /\ q.since <= now
  <2>1. cursor' <= now' /\ q.newest <= now' /\ q.since <= now
    BY <1>1, <1>2, <1>5 DEF NotAfter
  <2>2. \A k \in 1..Len(q.left) : q.left[k].updated <= now'
    BY <1>2, <1>4, <1>5, <1>7 DEF NotAfter
  <2>3. \A k \in 1..Len(q.left) : issue'[q.left[k].number].updated # 0
    BY <1>2, <1>4, <1>5, <1>7 DEF AllOpened
  <2> QED
    BY <2>1, <2>2, <2>3 DEF NotAfter, AllOpened
<1>9. Unopened'
  BY <1>2 DEF CursorInv, Unopened
<1>10. ASSUME ~raced PROVE CursorCovers' /\ PassInv(q)'
  <2>0. CursorCovers /\ PassInv(p)
    BY <1>10 DEF CursorInv, p
  <2>1. CursorCovers'
    BY <1>2, <2>0 DEF CursorCovers
  <2>2. /\ p.newest = p.since /\ Len(p.left) = from /\ (from > 0 => from <= Len(all))
        /\ \A k \in 1..from : p.left[k] = all[k]
    <3>1. OnPage(p)
      BY <2>0 DEF PassInv
    <3> QED
      BY <1>6, <3>1 DEF OnPage, from, all
  <2>3. Len(q.left) = last /\ \A k \in 1..last : q.left[k] = all[k]
    <3> DEFINE more == p.left \o SubSeq(all, from + 1, last)
    <3>1. /\ all \in Seq(Entry) /\ p.left \in Seq(Entry) /\ from \in Nat
          /\ last <= Len(all) /\ (last = Len(all) \/ last = from + PageSize) /\ q.left = more
      BY <1>1, <1>5
    <3>2. Len(more) = last /\ \A k \in 1..last : more[k] = all[k]
      BY <2>2, <3>1, PageExtends
    <3> HIDE DEF more
    <3> QED
      BY <3>1, <3>2
  <2>4. q.since = IF q.delivery THEN 0 ELSE cursor
    BY <1>1, <1>6, <2>0 DEF PassInv
  <2>5. \A k \in 1..last : k \in 1..Len(all)
    BY <1>1
  <2>6. OnPage(q)'
    <3>1. q.pc = "page" => last = q.pages * PageSize
      <4>1. ASSUME NEW n \in Nat PROVE (n + 1) * PageSize = n * PageSize + PageSize
        BY SyncConstants
      <4>2. q.pc = "page" => q.pages = p.pages + 1 /\ last = p.pages * PageSize + PageSize
        BY <1>1 DEF from
      <4> QED
        BY <1>0, <4>1, <4>2
    <3>2. q.newest = q.since
      BY <1>1, <2>2
    <3> QED
      BY <1>1, <1>3, <2>3, <2>5, <3>1, <3>2 DEF OnPage
  <2>7. StillToRead(q)'
    BY <1>3, <1>4, <2>3, <2>5 DEF StillToRead
  <2>8. Covered(q)'
    <3> SUFFICES ASSUME NEW i \in Issues, Passed(q, i)
                 PROVE  \/ projected[i] = issue[i].content
                        \/ \E k \in 1..last : q.left[k].number = i /\ Current(q.left[k])'
      BY <1>2, <2>3 DEF Covered, Passed
    <3>0. issue[i].updated \in Nat /\ p.since \in Nat /\ cursor \in Nat
      BY <1>0, SyncNumbers DEF SyncTyped, SyncTypeOK
    <3>1. CASE issue[i].updated = 0
      BY <3>1 DEF CursorInv, Unopened
    <3>2. CASE issue[i].updated < p.since
      <4>1. p.since = cursor
        BY <1>1, <2>4, <3>0, <3>2
      <4> QED
        BY <1>10, <2>0, <3>2, <4>1 DEF CursorCovers
    <3>3. CASE issue[i].updated # 0 /\ issue[i].updated >= p.since
      <4>1. PICK k \in 1..last : issue[i].updated < all[k].updated
        <5>1. ~(issue[i].updated < q.newest)
          BY <1>1, <2>2, <3>0, <3>3
        <5> QED
          BY <2>3, <5>1 DEF Passed
      <4>2. PICK j \in 1..Len(all) : all[j].number = i
        BY <1>12, <3>3 DEF Matching
      <4>3. k \in 1..Len(all) /\ all[j].updated = issue[i].updated /\ all[j].updated \in Nat /\ all[k].updated \in Nat
        BY <1>4, <2>5, <4>2
      <4>4. j < k
        <5>1. ~(k < j) /\ j # k
          BY <1>12, <4>1, <4>3
        <5> QED
          BY <1>1, <5>1
      <4>5. j \in 1..last
        BY <4>4
      <4> QED
        BY <1>3, <1>4, <2>3, <4>2, <4>5
    <3> QED
      BY <3>0, <3>1, <3>2, <3>3
  <2> QED
    BY <1>2, <2>1, <2>4, <2>6, <2>7, <2>8 DEF PassInv
<1>11. CursorInv /\ SyncTyped' /\ pass[s].pc # "idle" /\ Goes(s, q)
  BY <1>1, <1>6 DEF p
<1> QED
  BY <1>2, <1>8, <1>9, <1>10, <1>11, CursorGoes

\* One row: it takes what the page said, which holds or is read again.
LEMMA CursorUpsert ==
  ASSUME CursorInv, SyncTyped', NEW s \in Slots, Upsert(s)
  PROVE  CursorInv'
<1> DEFINE p == pass[s]
<1>0. SyncTyped /\ p \in Pass
  BY DEF CursorInv, SyncTyped, SyncTypeOK
<1>1. PICK q \in Pass, e \in Entry :
        /\ p.pc = "upsert" /\ Goes(s, q) /\ Len(p.left) >= 1 /\ e = p.left[1]
        /\ projected' = [projected EXCEPT ![e.number] = e.content]
        /\ UNCHANGED <<github, links, cursor, raced, events>>
        /\ q.delivery = p.delivery /\ q.since = p.since
        /\ Len(q.left) = Len(p.left) - 1 /\ \A k \in 1..Len(q.left) : q.left[k] = p.left[k+1]
        /\ q.newest = Newest(p, e)
        /\ q.pc \in {"upsert", "children", "record"}
  BY <1>0, UpsertIs
<1>2. /\ UNCHANGED github /\ raced' = raced
      /\ cursor' = cursor /\ issue' = issue /\ now' = now
  BY <1>1 DEF github
<1>3. \A i \in Entry : Current(i)' <=> Current(i)
  BY <1>2 DEF Current
<1>4. NotAfter(p, now) /\ p.since <= now /\ AllOpened(p)
  BY DEF CursorInv, Dated
<1>5. /\ p.newest \in Nat /\ Len(p.left) \in Nat /\ cursor \in Nat
      /\ \A k \in 1..Len(p.left) : /\ p.left[k] \in Entry /\ p.left[k].updated \in Nat
                                      /\ p.left[k].number \in Issues
  BY <1>0, PassEntries, SyncNumbers DEF SyncTyped, SyncTypeOK
<1>6. /\ \A i \in Issues : issue[i].updated \in Nat
      /\ projected \in [Issues -> Contents]
  BY <1>0, SyncNumbers DEF SyncTyped, SyncTypeOK
<1>17. CursorInv /\ SyncTyped' /\ pass[s].pc # "idle" /\ Goes(s, q)
  BY <1>1
<1>18. ~raced => CursorCovers /\ PassInv(p)
  BY DEF CursorInv
<1> HIDE DEF p
<1>7. /\ 1 \in 1..Len(p.left)
      /\ \A k \in 1..Len(q.left) : k + 1 \in 1..Len(p.left)
  BY <1>1, <1>5
<1>8. e.number \in Issues /\ e.updated \in Nat /\ issue[e.number].updated # 0 /\ e.updated <= now
  BY <1>1, <1>4, <1>5, <1>7 DEF AllOpened, NotAfter
<1>9. /\ projected'[e.number] = e.content
      /\ \A i \in Issues \ {e.number} : projected'[i] = projected[i]
  BY <1>1, <1>6, <1>8
<1>10. \A t : NotAfter(p, t) => NotAfter(q, t) /\ e.updated <= t
  BY <1>1, <1>5, <1>7 DEF NotAfter, Newest
<1>11. NotAfter(q, now)' /\ AllOpened(q)' /\ q.since <= now
  <2>1. NotAfter(q, now)
    BY <1>4, <1>10
  <2> QED
    BY <1>1, <1>2, <1>4, <1>7, <2>1 DEF NotAfter, AllOpened
<1>12. Unopened'
  BY <1>2, <1>8, <1>9 DEF CursorInv, Unopened
<1>13. ASSUME ~raced PROVE CursorCovers' /\ PassInv(q)'
  <2>0. CursorCovers /\ PassInv(p)
    BY <1>13, <1>18
  <2>1. \A k \in 1..Len(p.left) : Current(p.left[k]) \/ NotAfter(p, issue[p.left[k].number].updated)
    BY <2>0 DEF PassInv, StillToRead
  <2>2. \/ Current(e)
        \/ NotAfter(p, issue[e.number].updated)
    BY <1>1, <1>7, <2>1
  <2>3. CursorCovers'
    <3> SUFFICES ASSUME NEW i \in Issues, issue[i].updated < cursor
                 PROVE  projected'[i] = issue[i].content
      BY <1>2 DEF CursorCovers
    <3>1. CASE i = e.number
      <4>1. ~NotAfter(p, issue[i].updated)
        BY <1>5, <1>6 DEF NotAfter
      <4> QED
        BY <1>9, <2>2, <3>1, <4>1 DEF Current
    <3>2. CASE i # e.number
      BY <1>9, <1>13, <2>0, <3>2 DEF CursorCovers
    <3> QED
      BY <3>1, <3>2
  <2>4. q.since = IF q.delivery THEN 0 ELSE cursor
    BY <1>1, <2>0 DEF PassInv
  <2>5. OnPage(q)'
    BY <1>1 DEF OnPage
  <2>6. StillToRead(q)'
    <3> SUFFICES ASSUME NEW k \in 1..Len(q.left)
                 PROVE  Current(q.left[k])' \/ NotAfter(q, issue[q.left[k].number].updated)'
      BY DEF StillToRead
    <3>1. q.left[k] = p.left[k+1] /\ k+1 \in 1..Len(p.left) /\ q.left[k] \in Entry
      BY <1>1, <1>5, <1>7
    <3>2. Current(q.left[k]) \/ NotAfter(p, issue[q.left[k].number].updated)
      BY <2>1, <3>1
    <3>3. NotAfter(q, issue[q.left[k].number].updated) => NotAfter(q, issue[q.left[k].number].updated)'
      BY <1>2 DEF NotAfter
    <3> QED
      BY <1>3, <1>10, <3>1, <3>2, <3>3
  <2>7. Covered(q)'
    <3> SUFFICES ASSUME NEW i \in Issues, Passed(q, i)
                 PROVE  \/ projected'[i] = issue[i].content
                        \/ \E k \in 1..Len(q.left) : q.left[k].number = i /\ Current(q.left[k])'
      BY <1>2 DEF Covered, Passed
    <3>0. Passed(p, i)
      <4>1. CASE issue[i].updated < q.newest
        <5>1. issue[i].updated < p.newest \/ issue[i].updated < e.updated
          BY <1>1, <4>1 DEF Newest
        <5> QED
          BY <1>1, <1>7, <5>1 DEF Passed
      <4>2. CASE \E k \in 1..Len(q.left) : issue[i].updated < q.left[k].updated
        BY <1>1, <1>7, <4>2 DEF Passed
      <4> QED
        BY <4>1, <4>2 DEF Passed
    <3>1. CASE i = e.number
      <4>1. ~NotAfter(p, issue[i].updated)
        BY <1>5, <1>6, <3>0 DEF NotAfter, Passed
      <4> QED
        BY <1>9, <2>2, <3>1, <4>1 DEF Current
    <3>2. CASE i # e.number
      <4>1. \/ projected[i] = issue[i].content
            \/ \E k \in 1..Len(p.left) : p.left[k].number = i /\ Current(p.left[k])
        BY <1>1, <2>0, <3>0 DEF PassInv, Covered
      <4>2. ASSUME NEW k \in 1..Len(p.left), p.left[k].number = i, Current(p.left[k])
            PROVE  \E j \in 1..Len(q.left) : q.left[j].number = i /\ Current(q.left[j])'
        <5>1. k # 1
          BY <1>1, <3>2, <4>2
        <5>2. k - 1 \in 1..Len(q.left) /\ (k - 1) + 1 = k
          BY <1>1, <1>5, <5>1
        <5>3. q.left[k - 1] = p.left[k]
          BY <1>1, <5>2
        <5> QED
          BY <1>3, <1>5, <4>2, <5>2, <5>3
      <4> QED
        BY <1>9, <3>2, <4>1, <4>2
    <3> QED
      BY <3>1, <3>2
  <2> QED
    BY <1>2, <2>3, <2>4, <2>5, <2>6, <2>7 DEF PassInv
<1> QED
  BY <1>2, <1>11, <1>12, <1>13, <1>17, CursorGoes

\* Children and links are all the same to the rows.
LEMMA CursorLinks ==
  ASSUME CursorInv, SyncTyped', NEW s \in Slots, FetchChildren(s) \/ ReplaceLinks(s)
  PROVE  CursorInv'
<1> DEFINE p == pass[s]
<1>0. SyncTyped /\ p \in Pass
  BY DEF CursorInv, SyncTyped, SyncTypeOK
<1>1. PICK q \in Pass :
        /\ p.pc \in {"children", "replace"} /\ Goes(s, q)
        /\ UNCHANGED <<github, projected, cursor, raced>>
        /\ q.delivery = p.delivery /\ q.since = p.since /\ q.newest = p.newest
        /\ q.left = <<>> /\ q.pc \in {"children", "replace", "record"}
  BY <1>0, FetchChildrenIs, ReplaceLinksIs DEF projection
<1>2. /\ UNCHANGED github /\ raced' = raced /\ projected' = projected
      /\ cursor' = cursor /\ issue' = issue /\ now' = now
  BY <1>1 DEF github
<1>3. p.left = <<>>
  BY <1>0, <1>1 DEF SyncTyped, Stage
<1>4. q.left = p.left /\ Len(q.left) = 0 /\ 1..0 = {}
  BY <1>1, <1>3
<1>5. NotAfter(q, now)' /\ AllOpened(q)' /\ q.since <= now /\ Unopened'
  BY <1>1, <1>2, <1>4 DEF CursorInv, Dated, NotAfter, AllOpened, Unopened
<1>6. ASSUME ~raced PROVE CursorCovers' /\ PassInv(q)'
  <2>1. CursorCovers /\ PassInv(p)
    BY <1>6 DEF CursorInv
  <2>2. CursorCovers'
    BY <1>2, <2>1 DEF CursorCovers
  <2>3. OnPage(q)' /\ StillToRead(q)'
    BY <1>1, <1>4 DEF OnPage, StillToRead
  <2>4. Covered(p) /\ p.pc \in {"upsert", "children", "replace", "record"}
    BY <1>1, <2>1 DEF PassInv
  <2>5. \A i \in Issues : Passed(q, i)' => Passed(p, i)
    BY <1>1, <1>2, <1>4 DEF Passed
  <2>6. Covered(q)'
    BY <1>2, <1>4, <2>4, <2>5 DEF Covered
  <2>7. q.since = IF q.delivery THEN 0 ELSE cursor
    BY <1>1, <2>1 DEF PassInv
  <2> QED
    BY <1>2, <2>2, <2>3, <2>6, <2>7 DEF PassInv
<1>7. CursorInv /\ SyncTyped' /\ pass[s].pc # "idle" /\ Goes(s, q)
  BY <1>1
<1> QED
  BY <1>2, <1>5, <1>6, <1>7, CursorGoes

\* The end of a pass: all its cursor passes is projected.
LEMMA CursorEnds ==
  ASSUME CursorInv, SyncTyped', NEW s \in Slots, RecordCursor(s) \/ FailPass(s)
  PROVE  CursorInv'
<1> DEFINE p == pass[s]
<1>0. SyncTyped /\ p \in Pass /\ Stage(p)
  BY DEF CursorInv, SyncTyped, SyncTypeOK
<1>1. /\ p.pc # "idle" /\ Goes(s, NoPass) /\ UNCHANGED <<github, projected, links, raced>>
      /\ \/ p.pc = "record" /\ cursor' = p.newest
         \/ cursor' = IF p.delivery THEN cursor ELSE p.since
  BY <1>0, EndsIs
<1>2. UNCHANGED github /\ raced' = raced /\ projected' = projected /\ issue' = issue /\ now' = now
  BY <1>1 DEF github
<1>3. NotAfter(p, now) /\ p.since <= now
  BY DEF CursorInv, Dated
<1>4. cursor' <= now
  BY <1>1, <1>3 DEF NotAfter
<1>5. NoPass.left = <<>> /\ NoPass.newest = 0 /\ NoPass.since = 0 /\ NoPass.pc = "idle" /\ Len(NoPass.left) = 0 /\ 1..0 = {}
  BY DEF NoPass
<1>6. 0 <= now
  BY <1>0, SyncNumbers DEF SyncTyped, SyncTypeOK
<1>7. NotAfter(NoPass, now)' /\ AllOpened(NoPass)' /\ NoPass.since <= now /\ Unopened'
  BY <1>2, <1>4, <1>5, <1>6 DEF CursorInv, NotAfter, AllOpened, Unopened
<1>8. ASSUME ~raced PROVE CursorCovers' /\ PassInv(NoPass)'
  <2>1. CursorCovers /\ PassInv(p)
    BY <1>8 DEF CursorInv
  <2>2. PassInv(NoPass)'
    BY <1>5 DEF PassInv, OnPage, StillToRead, Covered
  <2>3. CASE cursor' = cursor
    BY <1>2, <2>1, <2>2, <2>3 DEF CursorCovers
  <2>4. CASE p.pc = "record" /\ cursor' = p.newest
    <3>1. p.left = <<>> /\ Len(p.left) = 0 /\ 1..0 = {}
      BY <1>0, <2>4 DEF Stage
    <3>2. \A i \in Issues : issue[i].updated < p.newest => projected[i] = issue[i].content
      BY <2>1, <2>4, <3>1 DEF PassInv, Covered, Passed
    <3> QED
      BY <1>2, <2>2, <2>4, <3>2 DEF CursorCovers
  <2> QED
    BY <1>1, <2>1, <2>3, <2>4 DEF PassInv
<1>9. CursorInv /\ SyncTyped' /\ pass[s].pc # "idle" /\ Goes(s, NoPass)
  BY <1>1
<1> QED
  BY <1>2, <1>7, <1>8, <1>9, CursorGoes

\* A pass begins, and is alone or raced.
LEMMA CursorBegin ==
  ASSUME CursorInv, SyncTyped', NEW s \in Slots, NEW delivery \in BOOLEAN, NEW from \in Times,
         Begin(s, delivery, from), from = IF delivery THEN 0 ELSE cursor
  PROVE  CursorInv'
<1>0. SyncTyped /\ pass \in [Slots -> Pass] /\ \A t \in Slots : pass[t] \in Pass /\ Stage(pass[t])
  BY DEF CursorInv, SyncTyped, SyncTypeOK
<1> DEFINE q == pass'[s]
<1>1. /\ pass[s].pc = "idle" /\ raced' = (raced \/ Running # {}) /\ UNCHANGED <<github, projection>>
      /\ q.pc = "page" /\ q.delivery = delivery /\ q.since = from /\ q.newest = from
      /\ q.left = <<>> /\ q.pages = 0
      /\ \A t \in Slots \ {s} : pass'[t] = [pass[t] EXCEPT !.complete = FALSE]
  BY <1>0, BeginIs
<1>2. projected' = projected /\ cursor' = cursor /\ issue' = issue /\ now' = now
  BY <1>1 DEF github, projection
<1>3. \A t \in Slots \ {s} : /\ pass'[t].pc = pass[t].pc /\ pass'[t].left = pass[t].left
                               /\ pass'[t].newest = pass[t].newest /\ pass'[t].since = pass[t].since
  BY <1>0, <1>1 DEF Pass
<1>4. Len(q.left) = 0 /\ 1..0 = {}
  BY <1>1
<1>5. \A t \in Slots : NotAfter(pass[t], now) /\ pass[t].since <= now /\ AllOpened(pass[t])
  BY DEF CursorInv, Dated
<1>6. cursor <= now /\ from <= now /\ 0 <= now
  <2>1. 0 <= now
    BY <1>0, SyncNumbers DEF SyncTyped, SyncTypeOK
  <2> QED
    BY <1>5, <2>1 DEF NotAfter
<1>7. Dated'
  <2> SUFFICES ASSUME NEW t \in Slots
               PROVE  NotAfter(pass[t], now)' /\ pass'[t].since <= now' /\ AllOpened(pass[t])'
    BY DEF Dated
  <2>1. CASE t = s
    BY <1>1, <1>2, <1>4, <1>6, <2>1 DEF NotAfter, AllOpened
  <2>2. CASE t # s
    BY <1>2, <1>3, <1>5, <2>2 DEF NotAfter, AllOpened
  <2> QED
    BY <2>1, <2>2
<1>8. Unopened'
  BY <1>2 DEF CursorInv, Unopened
<1>9. ASSUME ~raced' PROVE CursorCovers' /\ Alone' /\ \A t \in Slots : PassInv(pass[t])'
  <2>1. ~raced /\ CursorCovers /\ \A t \in Slots : pass[t].pc = "idle"
    BY <1>1, <1>9 DEF CursorInv, Running
  <2>2. CursorCovers'
    BY <1>2, <2>1 DEF CursorCovers
  <2>3. Alone'
    BY <1>3, <2>1 DEF Alone
  <2>4. PassInv(pass[s])'
    <3>1. 0 * PageSize = 0
      BY SyncConstants
    <3> QED
      BY <1>1, <1>2, <1>4, <3>1 DEF PassInv, OnPage, StillToRead, Covered
  <2>5. ASSUME NEW t \in Slots \ {s} PROVE PassInv(pass[t])'
    <3>1. pass'[t].pc = "idle" /\ pass'[t].left = <<>>
      BY <1>0, <1>3, <2>1 DEF Stage
    <3>2. Len(pass'[t].left) = 0 /\ 1..0 = {}
      BY <3>1
    <3> QED
      BY <3>1, <3>2 DEF PassInv, OnPage, StillToRead, Covered
  <2> QED
    BY <2>2, <2>3, <2>4, <2>5
<1> QED
  BY <1>7, <1>8, <1>9 DEF CursorInv

LEMMA CursorRestart ==
  ASSUME CursorInv, SyncTyped', RestartPanel
  PROVE  CursorInv'
<1>0. SyncTyped
  BY DEF CursorInv
<1>1. (\A s \in Slots : pass'[s] = NoPass) /\ UNCHANGED <<github, projection, raced>>
  BY <1>0, RestartIs
<1>2. /\ projected' = projected /\ cursor' = cursor /\ issue' = issue /\ now' = now
      /\ raced' = raced
  BY <1>1 DEF github, projection
<1>3. /\ NoPass.left = <<>> /\ NoPass.newest = 0 /\ NoPass.since = 0 /\ NoPass.pc = "idle"
      /\ Len(NoPass.left) = 0 /\ 1..0 = {}
  BY DEF NoPass
<1>4. cursor <= now /\ 0 <= now
  <2>1. 0 <= now
    BY <1>0, SyncNumbers DEF SyncTyped, SyncTypeOK
  <2>2. \E s : s \in Slots
    BY DEF Slots
  <2> QED
    BY <2>1, <2>2 DEF CursorInv, Dated, NotAfter
<1>5. Dated' /\ Unopened'
  BY <1>1, <1>2, <1>3, <1>4 DEF CursorInv, Dated, NotAfter, AllOpened, Unopened
<1>6. Alone' /\ \A s \in Slots : PassInv(pass[s])'
  BY <1>1, <1>3 DEF Alone, PassInv, OnPage, StillToRead, Covered
<1>7. ~raced => CursorCovers'
  BY <1>2 DEF CursorInv, CursorCovers
<1> QED
  BY <1>2, <1>5, <1>6, <1>7 DEF CursorInv

LEMMA CursorNext == CursorInv /\ [SyncNext]_syncVars => CursorInv'
<1> SUFFICES ASSUME CursorInv, [SyncNext]_syncVars PROVE CursorInv'
  OBVIOUS
<1>0. SyncTyped /\ SyncTyped'
  BY SyncTypeNext DEF CursorInv
<1>1. ASSUME NEW i \in Issues, NEW tick \in {0, 1}, Edit(i, tick) PROVE CursorInv'
  BY <1>0, <1>1, CursorTouch DEF Edit
<1>2. ASSUME NEW p \in Issues, NEW c \in Issues, EditChildren(p, c) PROVE CursorInv'
  BY <1>0, <1>2, CursorTouch DEF EditChildren
<1>3. ASSUME Tick \/ Button \/ Delivery PROVE CursorInv'
  BY <1>0, <1>3, BeginFrom, CursorBegin
<1>4. ASSUME NEW s \in Slots, PassStep(s) \/ FailPass(s) PROVE CursorInv'
  BY <1>0, <1>4, CursorFetchPage, CursorUpsert, CursorLinks, CursorEnds DEF PassStep
<1>5. ASSUME RestartPanel PROVE CursorInv'
  BY <1>0, <1>5, CursorRestart
<1>6. CASE UNCHANGED syncVars
  <2>1. /\ issue' = issue /\ parentOf' = parentOf /\ now' = now /\ projected' = projected
        /\ cursor' = cursor /\ pass' = pass /\ raced' = raced
    BY <1>6 DEF syncVars
  <2>2. \A since \in Times : Listing(since)' = Listing(since)
    BY <2>1, SameListing DEF github
  <2>3. ASSUME NEW s \in Slots, PassInv(pass[s]) PROVE PassInv(pass[s])'
    <3> DEFINE p == pass[s]
    <3>1. p.since \in Times
      BY <1>0 DEF SyncTyped, SyncTypeOK, Pass
    <3>2. Listing(p.since)' = Listing(p.since)
      BY <2>1, <2>2, <3>1
    <3>3. OnPage(p)'
      BY <2>1, <2>3, <3>2 DEF PassInv, OnPage
    <3>4. StillToRead(p)' /\ Covered(p)'
      BY <2>1, <2>3 DEF PassInv, StillToRead, Covered, NotAfter, Passed, Current
    <3> QED
      BY <2>1, <2>3, <3>3, <3>4 DEF PassInv
  <2>4. Dated' /\ Unopened'
    BY <2>1 DEF CursorInv, Dated, Unopened, NotAfter, AllOpened
  <2> QED
    BY <1>0, <2>1, <2>3, <2>4 DEF CursorInv, CursorCovers, Alone
<1> QED
  BY <1>1, <1>2, <1>3, <1>4, <1>5, <1>6 DEF SyncNext

\* No issue the stored cursor has passed is left behind, unless two passes ran
\* at once or pages moved under one: whatever changed when, wherever a pass was
\* cut short, failed or was ended by a restart.
THEOREM CursorNeverSkips == SyncSpec => []CursorCovers
<1>1. CursorInv => CursorCovers
  BY DEF CursorInv, CursorCovers
<1> QED
  BY <1>1, CursorInit, CursorNext, PTL DEF SyncSpec

(***************************************************************************)
(* LinksOfCompleteRun                                                      *)
(***************************************************************************)

\* No issue of GitHub is above itself, and there are no links to what is not there.
NoCircle ==
  \A l \in Graph : /\ l[2] \notin Above(Graph, l[1])
                   /\ issue[l[1]].updated # 0 /\ issue[l[2]].updated # 0

\* The pages of a complete pass are of one listing, of everything.
WholePages(p) ==
  p.pc = "page" => /\ Len(p.left) = p.pages * PageSize /\ Len(p.left) <= Len(Listing(0))
                   /\ \A k \in 1..Len(p.left) : p.left[k] = Listing(0)[k]

Among(p, i) == \E k \in 1..Len(p.left) : p.left[k].number = i

\* Nothing of GitHub is lost on the way of a complete pass.
NothingLost(p) ==
  p.pc \in {"upsert", "children", "replace", "record"} =>
    /\ \A i \in Issues : issue[i].updated # 0 => i \in p.numbers \/ Among(p, i)
    /\ \A l \in Graph : \/ \E k \in 1..Len(p.found) : p.found[k] = l
                        \/ \E k \in 1..Len(p.parents) : p.parents[k] = l[1]
                        \/ Among(p, l[1])

WholePass(p) ==
  p.complete /\ p.pc # "idle" =>
    /\ p.since = 0 /\ WholePages(p) /\ NothingLost(p)
    /\ \A k \in 1..Len(p.left) : p.left[k] = EntryOf(p.left[k].number)
    /\ \A k \in 1..Len(p.found) : p.found[k] \in Graph

LinksInv == SyncTyped /\ NoCircle /\ \A s \in Slots : WholePass(pass[s])

\* What is above something above n is above n.
LEMMA AboveAbove ==
  ASSUME NEW L \in SUBSET (Issues \X Issues), NEW n \in Issues, NEW m \in Above(L, n)
  PROVE  Above(L, m) \subseteq Above(L, n)
<1>1. /\ Above(L, n) \in SUBSET Issues /\ m \in Issues
      /\ \A l \in L : l[2] \in Above(L, n) => l[1] \in Above(L, n)
  BY AboveIs
<1> QED
  BY <1>1, AboveIs

\* The more links, the more is above.
LEMMA AboveGrows ==
  ASSUME NEW L \in SUBSET (Issues \X Issues), NEW K \in SUBSET L, NEW n \in Issues
  PROVE  Above(K, n) \subseteq Above(L, n)
<1>1. K \in SUBSET (Issues \X Issues)
  OBVIOUS
<1>2. /\ Above(L, n) \in SUBSET Issues /\ n \in Above(L, n)
      /\ \A l \in K : l[2] \in Above(L, n) => l[1] \in Above(L, n)
  BY AboveIs
<1> QED
  BY <1>1, <1>2, AboveIs

\* The links of a forest and no others: c hangs below p, which is not below it.
LEMMA HangsBelow ==
  ASSUME NEW L \in SUBSET (Issues \X Issues), NEW K \in SUBSET (Issues \X Issues),
         NEW p \in Issues, NEW c \in Issues, c \notin Above(L, p),
         \A l \in L : l[2] \notin Above(L, l[1]),
         \A l \in K : (l \in L /\ l[2] # c) \/ l = <<p, c>>
  PROVE  \A l \in K : l[2] \notin Above(K, l[1])
<1>1. ASSUME NEW n \in Issues, c \notin Above(L, n) PROVE Above(K, n) \subseteq Above(L, n)
  <2>1. /\ Above(L, n) \in SUBSET Issues /\ n \in Above(L, n)
        /\ \A l \in L : l[2] \in Above(L, n) => l[1] \in Above(L, n)
    BY AboveIs
  <2>2. \A l \in K : l[2] \in Above(L, n) => l[1] \in Above(L, n)
    BY <1>1, <2>1
  <2> QED
    BY <2>1, <2>2, AboveIs
<1>2. ASSUME NEW n \in Issues PROVE Above(K, n) \subseteq Above(L, n) \cup Above(L, p)
  <2>1. /\ Above(L, n) \in SUBSET Issues /\ n \in Above(L, n)
        /\ \A l \in L : l[2] \in Above(L, n) => l[1] \in Above(L, n)
    BY AboveIs
  <2>2. /\ Above(L, p) \in SUBSET Issues /\ p \in Above(L, p)
        /\ \A l \in L : l[2] \in Above(L, p) => l[1] \in Above(L, p)
    BY AboveIs
  <2> DEFINE X == Above(L, n) \cup Above(L, p)
  <2>3. X \in SUBSET Issues /\ n \in X /\ \A l \in K : l[2] \in X => l[1] \in X
    BY <2>1, <2>2
  <2> HIDE DEF X
  <2>4. Above(K, n) \subseteq X
    BY <2>3, AboveIs
  <2> QED
    BY <2>4 DEF X
<1> SUFFICES ASSUME NEW l \in K PROVE l[2] \notin Above(K, l[1])
  OBVIOUS
<1>3. CASE l = <<p, c>>
  BY <1>1, <1>3
<1>4. CASE l \in L /\ l[2] # c
  <2>1. l[1] \in Issues /\ l[2] \in Issues /\ l[2] \notin Above(L, l[1])
    BY <1>4
  <2>2. CASE c \notin Above(L, l[1])
    BY <1>1, <2>1, <2>2
  <2>3. CASE c \in Above(L, l[1])
    <3>1. ASSUME l[2] \in Above(L, p) PROVE FALSE
      <4>1. l[1] \in Above(L, p)
        BY <1>4, <3>1, AboveIs
      <4>2. Above(L, l[1]) \subseteq Above(L, p)
        BY <4>1, AboveAbove
      <4> QED
        BY <2>3, <4>2
    <3> QED
      BY <1>2, <2>1, <3>1
  <2> QED
    BY <2>2, <2>3
<1> QED
  BY <1>3, <1>4

\* Links of a forest, with both ends in the pass, are all accepted, in
\* whatever order they were found.
LEMMA AllAccepted ==
  ASSUME NEW p, p.found \in Seq(Issues \X Issues), NEW L \in SUBSET (Issues \X Issues),
         \A l \in L : l[2] \notin Above(L, l[1]) /\ {l[1], l[2]} \subseteq p.numbers,
         \A k \in 1..Len(p.found) : p.found[k] \in L
  PROVE  \A k \in 1..Len(p.found) : p.found[k] \in VisibleLinks(p)
<1> DEFINE n == Len(p.found)
           Fine(k) == Accepted(p)[k] \subseteq L /\ \A j \in 1..k : p.found[j] \in Accepted(p)[k]
           C == {k \in 0..n : ~Fine(k)}
<1>0. n \in Nat
  OBVIOUS
<1>1. ASSUME C # {} PROVE FALSE
  <2>1. PICK k \in C : \A j \in C : k <= j
    <3>1. C \subseteq Nat
      BY <1>0
    <3> HIDE DEF C
    <3> QED
      BY <1>1, <3>1, LeastNumber
  <2>2. k \in 0..n /\ ~Fine(k)
    OBVIOUS
  <2>3. k # 0
    <3>1. Fine(0)
      BY AcceptedIs
    <3> QED
      BY <2>2, <3>1
  <2>4. k-1 \notin C /\ k-1 \in 0..n /\ k \in 1..n
    <3> HIDE DEF C, n
    <3> QED
      BY <1>0, <2>1, <2>2, <2>3
  <2>5. Fine(k-1)
    BY <2>4
  <2> DEFINE before == Accepted(p)[k-1]
             l == p.found[k]
  <2>6. Accepted(p)[k] = before \cup {x \in {l} : Visible(p, before, x)}
    BY <2>4, AcceptedIs
  <2>7. l \in L /\ l[1] \in Issues /\ l[2] \in Issues /\ before \in SUBSET L
    BY <2>4, <2>5
  <2> HIDE DEF before, l
  <2>8. Visible(p, before, l)
    <3>1. Above(before, l[1]) \subseteq Above(L, l[1])
      BY <2>7, AboveGrows
    <3> QED
      BY <2>7, <3>1 DEF Visible
  <2>9. Accepted(p)[k] = before \cup {l}
    BY <2>6, <2>8
  <2>10. Fine(k)
    <3>1. \A j \in 1..k : j \in 1..k-1 \/ j = k
      BY <2>4
    <3>2. \A j \in 1..k-1 : p.found[j] \in before
      BY <2>5 DEF before
    <3> HIDE DEF C, n
    <3> QED
      BY <2>7, <2>9, <3>1, <3>2 DEF l
  <2> QED
    BY <2>2, <2>10
<1>2. Fine(n)
  BY <1>0, <1>1
<1> QED
  BY <1>2, AcceptedIs

\* A complete pass leaves the links GitHub has.
LEMMA WholeLinks ==
  ASSUME LinksInv, NEW s \in Slots, pass[s].pc = "replace", pass[s].complete
  PROVE  VisibleLinks(pass[s]) = Graph
<1> DEFINE p == pass[s]
<1>1. WholePass(p) /\ Stage(p) /\ p \in Pass /\ NoCircle
  BY DEF LinksInv, SyncTyped, SyncTypeOK
<1>2. p.found \in Seq(Issues \X Issues) /\ Len(p.found) \in Nat
  BY <1>1 DEF Pass
<1>3. p.left = <<>> /\ p.parents = <<>> /\ Len(p.left) = 0 /\ Len(p.parents) = 0 /\ 1..0 = {}
  BY <1>1 DEF Stage
<1>4. /\ \A i \in Issues : issue[i].updated # 0 => i \in p.numbers
      /\ \A l \in Graph : \E k \in 1..Len(p.found) : p.found[k] = l
      /\ \A k \in 1..Len(p.found) : p.found[k] \in Graph
  BY <1>1, <1>3 DEF WholePass, NothingLost, Among
<1> HIDE DEF p
<1>5. Graph \in SUBSET (Issues \X Issues)
  BY DEF Graph
<1>6. \A l \in Graph : l[2] \notin Above(Graph, l[1]) /\ {l[1], l[2]} \subseteq p.numbers
  BY <1>1, <1>4, <1>5 DEF NoCircle
<1>7. \A k \in 1..Len(p.found) : p.found[k] \in VisibleLinks(p)
  BY <1>2, <1>4, <1>5, <1>6, AllAccepted
<1>8. \A l \in VisibleLinks(p) : \E k \in 1..Len(p.found) : l = p.found[k]
  BY <1>2, AcceptedIs, AcceptedFound
<1>9. Graph \subseteq VisibleLinks(p)
  BY <1>4, <1>7
<1>10. VisibleLinks(p) \subseteq Graph
  BY <1>4, <1>8
<1>11. VisibleLinks(p) = Graph
  BY <1>9, <1>10
<1> QED
  BY <1>11 DEF p

LEMMA LinksInit == SyncInit => LinksInv
<1> SUFFICES ASSUME SyncInit PROVE LinksInv
  OBVIOUS
<1>1. SyncTyped
  BY SyncTypeInit
<1>2. NoCircle
  BY SyncNumbers DEF SyncInit, NoCircle, Graph
<1>3. \A s \in Slots : WholePass(pass[s])
  BY NoPassIs DEF SyncInit, WholePass
<1> QED
  BY <1>1, <1>2, <1>3 DEF LinksInv

\* GitHub keeps its forest.
LEMMA NoCircleTouch ==
  ASSUME LinksInv, SyncTyped', NEW i \in Issues, NEW tick \in {0, 1}, Touch(i, tick)
  PROVE  \A j \in Issues : issue[j].updated # 0 => issue'[j].updated # 0
<1>1. issue'[i].updated = now' /\ \A j \in Issues \ {i} : issue'[j] = issue[j]
  BY TouchIs DEF LinksInv
<1>2. now' \in Nat /\ now' >= 1
  BY SyncNumbers DEF SyncTyped, SyncTypeOK, Young
<1> QED
  BY <1>1, <1>2

LEMMA LinksEdit ==
  ASSUME LinksInv, SyncTyped', NEW i \in Issues, NEW tick \in {0, 1}, Edit(i, tick)
  PROVE  LinksInv'
<1>1. Touch(i, tick) /\ parentOf' = parentOf
  BY DEF Edit
<1>2. Graph' = Graph
  BY <1>1 DEF Graph
<1>3. \A l \in Graph : l[1] \in Issues /\ l[2] \in Issues
  BY DEF Graph
<1>4. NoCircle'
  BY <1>1, <1>2, <1>3, NoCircleTouch DEF LinksInv, NoCircle, Above
<1>5. \A s \in Slots : ~pass'[s].complete
  BY <1>1, TouchIs DEF LinksInv
<1> QED
  BY <1>4, <1>5 DEF LinksInv, WholePass

LEMMA LinksEditChildren ==
  ASSUME LinksInv, SyncTyped', NEW p \in Issues, NEW c \in Issues, EditChildren(p, c)
  PROVE  LinksInv'
<1>1. /\ Touch(p, 1) /\ issue[p].updated # 0 /\ issue[c].updated # 0 /\ c \notin Above(Graph, p)
      /\ parentOf' = [parentOf EXCEPT ![c] = IF @ = p THEN 0 ELSE p]
  BY DEF EditChildren
<1>2. parentOf \in [Issues -> Issues \cup {0}] /\ NoCircle
  BY DEF LinksInv, SyncTyped, SyncTypeOK
<1>3. \A j \in Issues : issue[j].updated # 0 => issue'[j].updated # 0
  BY <1>1, NoCircleTouch
<1>4. /\ Graph \in SUBSET (Issues \X Issues) /\ Graph' \in SUBSET (Issues \X Issues)
  BY DEF Graph
<1>5. \A l \in Graph' : (l \in Graph /\ l[2] # c) \/ l = <<p, c>>
  <2> SUFFICES ASSUME NEW l \in Graph' PROVE (l \in Graph /\ l[2] # c) \/ l = <<p, c>>
    OBVIOUS
  <2>1. l = <<l[1], l[2]>> /\ l \in Issues \X Issues /\ l[1] \in Issues /\ l[2] \in Issues
        /\ parentOf'[l[2]] = l[1] /\ l[1] # 0
    BY SyncNumbers DEF Graph
  <2>2. CASE l[2] = c
    <3>1. parentOf'[c] \in {0, p}
      BY <1>1, <1>2
    <3> QED
      BY <2>1, <2>2, <3>1
  <2>3. CASE l[2] # c
    <3>1. parentOf'[l[2]] = parentOf[l[2]]
      BY <1>1, <1>2, <2>1, <2>3
    <3> QED
      BY <2>1, <2>3, <3>1 DEF Graph
  <2> QED
    BY <2>2, <2>3
<1>6. \A l \in Graph' : issue'[l[1]].updated # 0 /\ issue'[l[2]].updated # 0
  <2> SUFFICES ASSUME NEW l \in Graph' PROVE issue'[l[1]].updated # 0 /\ issue'[l[2]].updated # 0
    OBVIOUS
  <2>1. CASE l = <<p, c>>
    BY <1>1, <1>3, <2>1
  <2>2. CASE l \in Graph
    BY <1>2, <1>3, <1>4, <2>2 DEF NoCircle
  <2> QED
    BY <1>5, <2>1, <2>2
<1>7. \A l \in Graph' : l[2] \notin Above(Graph', l[1])
  <2>1. \A l \in Graph : l[2] \notin Above(Graph, l[1])
    BY <1>2 DEF NoCircle
  <2> QED
    BY <1>1, <1>4, <1>5, <2>1, HangsBelow
<1>8. NoCircle'
  BY <1>6, <1>7 DEF NoCircle, Above
<1>9. \A s \in Slots : ~pass'[s].complete
  BY <1>1, TouchIs DEF LinksInv
<1> QED
  BY <1>8, <1>9 DEF LinksInv, WholePass

\* A step of one pass, with GitHub as it is.
LEMMA LinksGoes ==
  ASSUME LinksInv, SyncTyped', NEW s \in Slots, NEW q, Goes(s, q), UNCHANGED github,
         WholePass(q)'
  PROVE  LinksInv'
<1>1. issue' = issue /\ parentOf' = parentOf
  BY DEF github
<1>2. NoCircle'
  BY <1>1 DEF LinksInv, NoCircle, Graph, Above
<1>3. \A since \in Times : Listing(since)' = Listing(since)
  BY SameListing
<1>4. ASSUME NEW p, WholePass(p) PROVE WholePass(p)'
  <2>1. Listing(0)' = Listing(0) /\ Graph' = Graph
    BY <1>1, <1>3, SyncNumbers DEF Graph
  <2>2. WholePages(p)' <=> WholePages(p)
    BY <2>1 DEF WholePages
  <2>3. NothingLost(p)' <=> NothingLost(p)
    BY <1>1, <2>1 DEF NothingLost, Among
  <2>4. \A i : EntryOf(i)' = EntryOf(i)
    BY <1>1 DEF EntryOf
  <2> QED
    BY <1>4, <2>1, <2>2, <2>3, <2>4 DEF WholePass
<1>5. ASSUME NEW t \in Slots PROVE WholePass(pass[t])'
  <2>1. CASE t = s
    BY <2>1 DEF Goes
  <2>2. CASE t # s
    <3>1. pass'[t] = pass[t] /\ WholePass(pass[t])
      BY <2>2 DEF Goes, LinksInv
    <3> QED
      BY <1>4, <3>1
  <2> QED
    BY <2>1, <2>2
<1> QED
  BY <1>2, <1>5 DEF LinksInv

\* A page of a complete pass.
LEMMA LinksFetchPage ==
  ASSUME LinksInv, SyncTyped', NEW s \in Slots, FetchPage(s)
  PROVE  LinksInv'
<1> DEFINE p == pass[s]
           all == Listing(p.since)
           from == p.pages * PageSize
<1>0. SyncTyped /\ p \in Pass /\ p.since \in Times /\ p.pages \in Nat /\ WholePass(p) /\ NoCircle
      /\ p.left \in Seq(Entry)
  <2>1. SyncTyped /\ p \in Pass /\ WholePass(p) /\ NoCircle
    BY DEF LinksInv, SyncTyped, SyncTypeOK
  <2>2. p.since \in Times /\ p.pages \in 0..MaxPages-1 /\ p.left \in Seq(Entry)
    BY <2>1 DEF Pass
  <2> QED
    BY <2>1, <2>2, SyncConstants
<1>1. PICK q \in Pass, last \in Nat :
        /\ p.pc = "page" /\ Goes(s, q)
        /\ UNCHANGED <<github, projection, raced, events>>
        /\ last <= Len(all) /\ from \in Nat /\ all \in Seq(Entry)
        /\ q.left = p.left \o SubSeq(all, from + 1, last)
        /\ q.since = p.since /\ q.found = <<>>
        /\ last = Len(all) \/ last = from + PageSize
        /\ \/ q.pc = "page" /\ q.pages = p.pages + 1 /\ last = from + PageSize /\ q.complete = p.complete
           \/ q.pc \in {"upsert", "record"} /\ q.complete = (p.complete /\ last = Len(all))
  BY <1>0, FetchPageIs
<1>2. UNCHANGED github /\ issue' = issue /\ parentOf' = parentOf
  BY <1>1 DEF github
<1>3. /\ \A k \in 1..Len(all) : all[k] = EntryOf(all[k].number)
      /\ \A i \in Matching(p.since) : \E k \in 1..Len(all) : all[k].number = i
  <2>1. GitHubTyped
    BY <1>0 DEF SyncTyped, SyncTypeOK, GitHubTyped
  <2> QED
    BY <1>0, <2>1, ListingIs
<1>4. ASSUME q.complete PROVE WholePass(q)'
  <2>0. p.complete /\ p.pc = "page"
    BY <1>1, <1>4
  <2>1. p.since = 0 /\ WholePages(p)
    BY <1>0, <2>0 DEF WholePass
  <2>2. /\ all = Listing(0) /\ Len(p.left) = from /\ from <= Len(all)
        /\ \A k \in 1..from : p.left[k] = all[k]
    BY <2>0, <2>1 DEF WholePages
  <2>3. Listing(0)' = all
    BY <1>2, <2>2, SameListing, SyncNumbers
  <2> HIDE DEF p, all, from
  <2>4. Len(q.left) = last /\ \A k \in 1..last : q.left[k] = all[k]
    <3> DEFINE more == p.left \o SubSeq(all, from + 1, last)
    <3>1. /\ all \in Seq(Entry) /\ p.left \in Seq(Entry) /\ from \in Nat
          /\ last <= Len(all) /\ (last = Len(all) \/ last = from + PageSize) /\ q.left = more
      BY <1>0, <1>1
    <3>2. Len(more) = last /\ \A k \in 1..last : more[k] = all[k]
      BY <2>2, <3>1, PageExtends
    <3> HIDE DEF more
    <3> QED
      BY <3>1, <3>2
  <2>5. \A k \in 1..last : k \in 1..Len(all)
    BY <1>1
  <2>6. WholePages(q)'
    <3>1. q.pc = "page" => last = q.pages * PageSize
      <4>1. ASSUME NEW n \in Nat PROVE (n + 1) * PageSize = n * PageSize + PageSize
        BY SyncConstants
      <4>2. q.pc = "page" => q.pages = p.pages + 1 /\ last = p.pages * PageSize + PageSize
        BY <1>1 DEF from
      <4> QED
        BY <1>0, <4>1, <4>2
    <3> QED
      BY <1>1, <2>3, <2>4, <3>1 DEF WholePages
  <2>7. NothingLost(q)'
    <3> SUFFICES ASSUME q.pc \in {"upsert", "children", "replace", "record"} PROVE NothingLost(q)'
      BY DEF NothingLost
    <3>1. last = Len(all)
      BY <1>1, <1>4
    <3>2. \A i \in Issues : issue[i].updated # 0 => i \in Matching(p.since)
      <4>1. \A i \in Issues : issue[i].updated >= 0
        BY <1>0, SyncNumbers DEF SyncTyped, SyncTypeOK
      <4> QED
        BY <2>1, <4>1 DEF Matching
    <3>3. \A i \in Issues : issue[i].updated # 0 => Among(q, i)
      BY <1>3, <2>4, <3>1, <3>2 DEF Among
    <3>4. \A l \in Graph : Among(q, l[1])
      BY <1>0, <3>3 DEF NoCircle, Graph
    <3> QED
      BY <1>2, <3>3, <3>4 DEF NothingLost, Among, Graph
  <2>8. \A k \in 1..Len(q.left) : q.left[k] = EntryOf(q.left[k].number)'
    BY <1>2, <1>3, <2>4, <2>5 DEF EntryOf
  <2>9. q.since = 0 /\ Len(q.found) = 0 /\ 1..0 = {}
    BY <1>1, <2>1
  <2> QED
    BY <2>6, <2>7, <2>8, <2>9 DEF WholePass
<1>5. WholePass(q)'
  BY <1>4 DEF WholePass
<1> QED
  BY <1>1, <1>2, <1>5, LinksGoes

\* A row of a complete pass: its issue, and the children it has, are kept in mind.
LEMMA LinksUpsert ==
  ASSUME LinksInv, SyncTyped', NEW s \in Slots, Upsert(s)
  PROVE  LinksInv'
<1> DEFINE p == pass[s]
<1>0. SyncTyped /\ p \in Pass /\ WholePass(p) /\ p.parents \in Seq(Issues)
  BY DEF LinksInv, SyncTyped, SyncTypeOK, Pass
<1>1. PICK q \in Pass, e \in Entry :
        /\ p.pc = "upsert" /\ Goes(s, q) /\ Len(p.left) >= 1 /\ e = p.left[1]
        /\ UNCHANGED <<github, links, cursor, raced, events>>
        /\ q.since = p.since /\ q.complete = p.complete /\ q.found = p.found
        /\ Len(q.left) = Len(p.left) - 1 /\ \A k \in 1..Len(q.left) : q.left[k] = p.left[k+1]
        /\ q.numbers = p.numbers \cup {e.number}
        /\ q.parents = IF e.parent THEN Append(p.parents, e.number) ELSE p.parents
        /\ q.pc \in {"upsert", "children", "record"}
  BY <1>0, UpsertIs
<1>2. UNCHANGED github /\ issue' = issue /\ parentOf' = parentOf
  BY <1>1 DEF github
<1>3. Len(p.left) \in Nat
  BY <1>0 DEF Pass
<1>9. LinksInv /\ SyncTyped' /\ Goes(s, q)
  BY <1>1
<1> HIDE DEF p
<1>4. ASSUME q.complete PROVE WholePass(q)'
  <2>1. /\ p.since = 0 /\ NothingLost(p)
        /\ \A k \in 1..Len(p.left) : p.left[k] = EntryOf(p.left[k].number)
        /\ \A k \in 1..Len(p.found) : p.found[k] \in Graph
    BY <1>0, <1>1, <1>4 DEF WholePass
  <2>2. /\ 1 \in 1..Len(p.left)
        /\ \A k \in 1..Len(q.left) : k + 1 \in 1..Len(p.left)
    BY <1>1, <1>3
  <2>3. e = EntryOf(e.number) /\ e.number \in Issues
    BY <1>1, <2>1, <2>2 DEF Entry
  <2>4. \A i \in Issues : Among(p, i) => i = e.number \/ Among(q, i)
    <3> SUFFICES ASSUME NEW k \in 1..Len(p.left), p.left[k].number # e.number
                 PROVE  Among(q, p.left[k].number)
      BY DEF Among
    <3>1. k # 1
      BY <1>1
    <3>2. k - 1 \in 1..Len(q.left) /\ (k - 1) + 1 = k
      BY <1>1, <1>3, <3>1
    <3>3. q.left[k - 1] = p.left[k]
      BY <1>1, <3>2
    <3> QED
      BY <3>2, <3>3 DEF Among
  <2>5. \A i : (\E k \in 1..Len(p.parents) : p.parents[k] = i) => \E k \in 1..Len(q.parents) : q.parents[k] = i
    <3>1. CASE e.parent
      <4>1. q.parents = Append(p.parents, e.number) /\ Len(p.parents) \in Nat
        BY <1>0, <1>1, <3>1
      <4>2. /\ Len(q.parents) = Len(p.parents) + 1
            /\ \A k \in 1..Len(p.parents) : q.parents[k] = p.parents[k] /\ k \in 1..Len(p.parents) + 1
        BY <1>0, <2>3, <4>1, AppendProperties
      <4> QED
        BY <4>2
    <3>2. CASE ~e.parent
      BY <1>1, <3>2
    <3> QED
      BY <3>1, <3>2
  <2>6. e.parent => \E k \in 1..Len(q.parents) : q.parents[k] = e.number
    <3> SUFFICES ASSUME e.parent PROVE \E k \in 1..Len(q.parents) : q.parents[k] = e.number
      OBVIOUS
    <3>1. q.parents = Append(p.parents, e.number) /\ Len(p.parents) \in Nat
      BY <1>0, <1>1
    <3>2. /\ Len(q.parents) = Len(p.parents) + 1 /\ q.parents[Len(p.parents) + 1] = e.number
          /\ Len(p.parents) + 1 \in 1..Len(p.parents) + 1
      BY <1>0, <2>3, <3>1, AppendProperties
    <3> QED
      BY <3>2
  <2>7. \A l \in Graph : l[1] = e.number => e.parent
    <3> SUFFICES ASSUME NEW l \in Graph, l[1] = e.number PROVE e.parent
      OBVIOUS
    <3>1. l[2] \in Issues /\ parentOf[l[2]] = e.number
      BY DEF Graph
    <3>2. EntryOf(e.number).parent
      BY <3>1 DEF EntryOf
    <3> QED
      BY <2>3, <3>2
  <2>8. NothingLost(q)'
    <3>1. \A i \in Issues : issue[i].updated # 0 => i \in q.numbers \/ Among(q, i)
      BY <1>1, <2>1, <2>4 DEF NothingLost
    <3>2. ASSUME NEW l \in Graph
          PROVE  \/ \E k \in 1..Len(q.found) : q.found[k] = l
                 \/ \E k \in 1..Len(q.parents) : q.parents[k] = l[1]
                 \/ Among(q, l[1])
      <4>1. \/ \E k \in 1..Len(p.found) : p.found[k] = l
            \/ \E k \in 1..Len(p.parents) : p.parents[k] = l[1]
            \/ Among(p, l[1])
        BY <1>1, <2>1 DEF NothingLost
      <4>2. l[1] \in Issues
        BY DEF Graph
      <4> QED
        BY <1>1, <2>4, <2>5, <2>6, <2>7, <4>1, <4>2
    <3>3. Graph' = Graph
      BY <1>2 DEF Graph
    <3> QED
      BY <1>2, <3>1, <3>2, <3>3 DEF NothingLost, Among
  <2>9. \A k \in 1..Len(q.left) : q.left[k] = EntryOf(q.left[k].number)'
    BY <1>1, <1>2, <2>1, <2>2 DEF EntryOf
  <2>10. \A k \in 1..Len(q.found) : q.found[k] \in Graph'
    BY <1>1, <1>2, <2>1 DEF Graph
  <2>11. WholePages(q)' /\ q.since = 0
    BY <1>1, <2>1 DEF WholePages
  <2> QED
    BY <2>8, <2>9, <2>10, <2>11 DEF WholePass
<1>5. WholePass(q)'
  BY <1>4 DEF WholePass
<1> QED
  BY <1>2, <1>5, <1>9, LinksGoes

\* The children of an issue, as they are.
LEMMA LinksFetchChildren ==
  ASSUME LinksInv, SyncTyped', NEW s \in Slots, FetchChildren(s)
  PROVE  LinksInv'
<1> DEFINE p == pass[s]
<1>0. SyncTyped /\ p \in Pass /\ WholePass(p) /\ p.parents \in Seq(Issues) /\ Stage(p)
      /\ p.found \in Seq(Issues \X Issues)
  BY DEF LinksInv, SyncTyped, SyncTypeOK, Pass
<1>1. PICK q \in Pass, n \in Issues :
        /\ p.pc = "children" /\ Goes(s, q) /\ Len(p.parents) >= 1 /\ n = p.parents[1]
        /\ UNCHANGED <<github, projection, raced, events>>
        /\ q.since = p.since /\ q.complete = p.complete
        /\ q.left = <<>> /\ q.numbers = p.numbers
        /\ Len(q.parents) = Len(p.parents) - 1
        /\ \A k \in 1..Len(q.parents) : q.parents[k] = p.parents[k+1]
        /\ q.found = p.found \o ChildrenOf(n)
        /\ q.pc \in {"children", "replace", "record"}
  BY <1>0, FetchChildrenIs
<1>2. UNCHANGED github /\ issue' = issue /\ parentOf' = parentOf
  BY <1>1 DEF github
<1>3. Len(p.parents) \in Nat /\ Len(p.found) \in Nat /\ p.left = <<>> /\ Len(p.left) = 0 /\ 1..0 = {}
  BY <1>0, <1>1 DEF Stage
<1>9. LinksInv /\ SyncTyped' /\ Goes(s, q)
  BY <1>1
<1> HIDE DEF p
<1> DEFINE more == ChildrenOf(n)
<1>6. /\ more \in Seq(Issues \X Issues)
      /\ \A k \in 1..Len(more) : more[k] \in Graph
      /\ \A l \in Graph : l[1] = n => \E k \in 1..Len(more) : more[k] = l
  <2>1. GitHubTyped
    BY <1>0 DEF SyncTyped, SyncTypeOK, GitHubTyped
  <2> QED
    BY <2>1, ChildrenAre
<1>7. q.found = p.found \o more
  BY <1>1
<1> HIDE DEF more
<1>4. ASSUME q.complete PROVE WholePass(q)'
  <2>1. /\ p.since = 0 /\ NothingLost(p)
        /\ \A k \in 1..Len(p.found) : p.found[k] \in Graph
    BY <1>0, <1>1, <1>4 DEF WholePass
  <2>2. /\ Len(q.found) = Len(p.found) + Len(more) /\ Len(more) \in Nat
        /\ \A k \in 1..Len(p.found) + Len(more) :
             q.found[k] = IF k <= Len(p.found) THEN p.found[k] ELSE more[k - Len(p.found)]
    BY <1>0, <1>6, <1>7, ConcatProperties
  <2>3. \A k \in 1..Len(p.found) : k \in 1..Len(q.found) /\ q.found[k] = p.found[k]
    BY <1>3, <2>2
  <2>4. ASSUME NEW k \in 1..Len(more)
        PROVE  Len(p.found) + k \in 1..Len(q.found) /\ q.found[Len(p.found) + k] = more[k]
    <3>1. /\ Len(p.found) + k \in 1..Len(p.found) + Len(more) /\ ~(Len(p.found) + k <= Len(p.found))
          /\ (Len(p.found) + k) - Len(p.found) = k
      BY <1>3, <2>2
    <3> QED
      BY <2>2, <3>1
  <2>5. ASSUME NEW k \in 1..Len(q.found) PROVE q.found[k] \in Graph
    <3>1. CASE k <= Len(p.found)
      BY <1>3, <2>1, <2>3, <3>1
    <3>2. CASE ~(k <= Len(p.found))
      <4>1. k - Len(p.found) \in 1..Len(more) /\ q.found[k] = more[k - Len(p.found)]
        BY <1>3, <2>2, <3>2
      <4> QED
        BY <1>6, <4>1
    <3> QED
      BY <3>1, <3>2
  <2>6. \A k \in 1..Len(p.parents) : p.parents[k] = n \/ \E j \in 1..Len(q.parents) : q.parents[j] = p.parents[k]
    <3> SUFFICES ASSUME NEW k \in 1..Len(p.parents), p.parents[k] # n
                 PROVE  \E j \in 1..Len(q.parents) : q.parents[j] = p.parents[k]
      OBVIOUS
    <3>1. k # 1
      BY <1>1
    <3>2. k - 1 \in 1..Len(q.parents) /\ (k - 1) + 1 = k
      BY <1>1, <1>3, <3>1
    <3>3. q.parents[k - 1] = p.parents[k]
      BY <1>1, <3>2
    <3> QED
      BY <3>2, <3>3
  <2>7. NothingLost(q)'
    <3>1. \A i \in Issues : issue[i].updated # 0 => i \in q.numbers
      BY <1>1, <1>3, <2>1 DEF NothingLost, Among
    <3>2. ASSUME NEW l \in Graph
          PROVE  \/ \E k \in 1..Len(q.found) : q.found[k] = l
                 \/ \E k \in 1..Len(q.parents) : q.parents[k] = l[1]
      <4>1. \/ \E k \in 1..Len(p.found) : p.found[k] = l
            \/ \E k \in 1..Len(p.parents) : p.parents[k] = l[1]
        BY <1>1, <1>3, <2>1 DEF NothingLost, Among
      <4>2. CASE \E k \in 1..Len(p.found) : p.found[k] = l
        BY <2>3, <4>2
      <4>3. CASE l[1] = n
        BY <1>6, <2>4, <4>3
      <4> QED
        BY <2>6, <4>1, <4>2, <4>3
    <3>3. Graph' = Graph
      BY <1>2 DEF Graph
    <3> QED
      BY <1>2, <3>1, <3>2, <3>3 DEF NothingLost, Among
  <2>8. \A k \in 1..Len(q.left) : q.left[k] = EntryOf(q.left[k].number)'
    BY <1>1
  <2>9. \A k \in 1..Len(q.found) : q.found[k] \in Graph'
    BY <1>2, <2>5 DEF Graph
  <2>10. WholePages(q)' /\ q.since = 0
    BY <1>1, <2>1 DEF WholePages
  <2> QED
    BY <2>7, <2>8, <2>9, <2>10 DEF WholePass
<1>5. WholePass(q)'
  BY <1>4 DEF WholePass
<1> QED
  BY <1>2, <1>5, <1>9, LinksGoes

\* The links are in; the pass is what it was.
LEMMA LinksReplace ==
  ASSUME LinksInv, SyncTyped', NEW s \in Slots, ReplaceLinks(s)
  PROVE  LinksInv'
<1> DEFINE p == pass[s]
<1>0. SyncTyped /\ WholePass(p) /\ Stage(p)
  BY DEF LinksInv, SyncTyped
<1>1. PICK q \in Pass :
        /\ p.pc = "replace" /\ Goes(s, q) /\ q.pc = "record"
        /\ UNCHANGED <<github, projected, cursor, raced, events>>
        /\ q.since = p.since /\ q.complete = p.complete
        /\ q.left = <<>> /\ q.parents = <<>> /\ q.numbers = p.numbers /\ q.found = p.found
  BY <1>0, ReplaceLinksIs
<1>2. UNCHANGED github /\ issue' = issue /\ Graph' = Graph
  BY <1>1 DEF github, Graph
<1>3. p.left = <<>> /\ p.parents = <<>> /\ Len(<<>>) = 0 /\ 1..0 = {}
  BY <1>0, <1>1 DEF Stage
<1>9. LinksInv /\ SyncTyped' /\ Goes(s, q)
  BY <1>1
<1> HIDE DEF p
<1>4. ASSUME q.complete PROVE WholePass(q)'
  <2>1. /\ p.since = 0 /\ NothingLost(p)
        /\ \A k \in 1..Len(p.found) : p.found[k] \in Graph
    BY <1>0, <1>1, <1>4 DEF WholePass
  <2>2. NothingLost(q)'
    BY <1>1, <1>2, <1>3, <2>1 DEF NothingLost, Among
  <2> QED
    BY <1>1, <1>2, <1>3, <2>1, <2>2 DEF WholePass, WholePages
<1>5. WholePass(q)'
  BY <1>4 DEF WholePass
<1> QED
  BY <1>2, <1>5, <1>9, LinksGoes

LEMMA LinksEnds ==
  ASSUME LinksInv, SyncTyped', NEW s \in Slots, RecordCursor(s) \/ FailPass(s)
  PROVE  LinksInv'
<1>1. Goes(s, NoPass) /\ UNCHANGED github
  BY EndsIs DEF LinksInv
<1>2. WholePass(NoPass)'
  BY NoPassIs DEF WholePass
<1> QED
  BY <1>1, <1>2, LinksGoes

\* A pass begins, and no other is complete any more; or all of them end.
LEMMA LinksAnew ==
  ASSUME LinksInv, SyncTyped', UNCHANGED github, \A s \in Slots : WholePass(pass[s])'
  PROVE  LinksInv'
  BY DEF LinksInv, NoCircle, Graph, Above, github

LEMMA LinksBegin ==
  ASSUME LinksInv, SyncTyped', NEW s \in Slots, NEW delivery \in BOOLEAN, NEW from \in Times,
         Begin(s, delivery, from)
  PROVE  LinksInv'
<1>0. SyncTyped /\ SyncTyped' /\ \A t \in Slots : pass[t] \in Pass
  BY DEF LinksInv, SyncTyped, SyncTypeOK
<1> DEFINE q == pass'[s]
<1>1. /\ UNCHANGED <<github, projection>>
      /\ q.pc = "page" /\ q.since = from /\ q.left = <<>> /\ q.pages = 0 /\ q.found = <<>>
      /\ q.complete => from = 0
      /\ \A t \in Slots \ {s} : pass'[t] = [pass[t] EXCEPT !.complete = FALSE]
  BY <1>0, BeginIs
<1>2. \A t \in Slots \ {s} : ~pass'[t].complete
  BY <1>0, <1>1 DEF Pass
<1>3. GitHubTyped'
  BY DEF SyncTyped, SyncTypeOK, GitHubTyped
<1>4. UNCHANGED github
  BY <1>1
<1>5. Len(Listing(0)) \in Nat /\ Listing(0)' = Listing(0)
  <2>1. GitHubTyped /\ 0 \in Times
    BY <1>0, SyncNumbers DEF SyncTyped, SyncTypeOK, GitHubTyped
  <2>2. Listing(0) \in Seq(Entry)
    BY <2>1, ListingIs
  <2> QED
    BY <1>4, <2>1, <2>2, SameListing
<1>6. WholePass(pass[s])'
  <2>1. 0 * PageSize = 0 /\ Len(q.left) = 0 /\ Len(q.found) = 0 /\ 1..0 = {}
    BY <1>1, SyncConstants
  <2> QED
    BY <1>1, <1>5, <2>1 DEF WholePass, WholePages, NothingLost
<1>7. \A t \in Slots : WholePass(pass[t])'
  BY <1>2, <1>6 DEF WholePass
<1> QED
  BY <1>4, <1>7, LinksAnew

LEMMA LinksNext == LinksInv /\ [SyncNext]_syncVars => LinksInv'
<1> SUFFICES ASSUME LinksInv, [SyncNext]_syncVars PROVE LinksInv'
  OBVIOUS
<1>0. SyncTyped /\ SyncTyped'
  BY SyncTypeNext DEF LinksInv
<1>1. ASSUME NEW i \in Issues, NEW tick \in {0, 1}, Edit(i, tick) PROVE LinksInv'
  BY <1>0, <1>1, LinksEdit
<1>2. ASSUME NEW p \in Issues, NEW c \in Issues, EditChildren(p, c) PROVE LinksInv'
  BY <1>0, <1>2, LinksEditChildren
<1>3. ASSUME Tick \/ Button \/ Delivery PROVE LinksInv'
  BY <1>0, <1>3, BeginFrom, LinksBegin
<1>4. ASSUME NEW s \in Slots, PassStep(s) \/ FailPass(s) PROVE LinksInv'
  BY <1>0, <1>4, LinksFetchPage, LinksUpsert, LinksFetchChildren, LinksReplace, LinksEnds DEF PassStep
<1>5. ASSUME RestartPanel PROVE LinksInv'
  <2>1. (\A s \in Slots : pass'[s] = NoPass) /\ UNCHANGED github
    BY <1>0, <1>5, RestartIs
  <2>2. \A s \in Slots : WholePass(pass[s])'
    BY <2>1, NoPassIs DEF WholePass
  <2> QED
    BY <1>0, <2>1, <2>2, LinksAnew
<1>6. CASE UNCHANGED syncVars
  <2>1. UNCHANGED github /\ pass' = pass /\ issue' = issue /\ parentOf' = parentOf /\ Graph' = Graph
    BY <1>6 DEF syncVars, github, Graph
  <2>2. Listing(0)' = Listing(0)
    BY <2>1, SameListing, SyncNumbers
  <2>3. \A s \in Slots : WholePass(pass[s])'
    BY <2>1, <2>2 DEF LinksInv, WholePass, WholePages, NothingLost, Among, EntryOf
  <2> QED
    BY <1>0, <2>1, <2>3, LinksAnew
<1> QED
  BY <1>1, <1>2, <1>3, <1>4, <1>5, <1>6 DEF SyncNext

\* The links are replaced by nothing else.
LEMMA OnlyReplaceLinks ==
  ASSUME SyncTyped, [SyncNext]_syncVars, NEW s \in Slots, pass[s].pc = "replace", pass'[s].pc = "record"
  PROVE  ReplaceLinks(s)
<1>1. ASSUME NEW i \in Issues, NEW tick \in {0, 1}, Touch(i, tick) PROVE FALSE
  BY <1>1, TouchIs
<1>2. ASSUME Tick \/ Button \/ Delivery PROVE FALSE
  <2>1. PICK t \in Slots, delivery \in BOOLEAN, from \in Times : Begin(t, delivery, from)
    BY <1>2, BeginFrom
  <2>2. pass[t].pc = "idle" /\ \A u \in Slots \ {t} : pass'[u] = [pass[u] EXCEPT !.complete = FALSE]
    BY <2>1, BeginIs
  <2>3. s # t /\ pass[s] \in Pass
    BY <2>2 DEF SyncTyped, SyncTypeOK
  <2> QED
    BY <2>2, <2>3 DEF Pass
<1>3. ASSUME NEW t \in Slots, PassStep(t) \/ FailPass(t) PROVE ReplaceLinks(s)
  <2>1. t = s
    <3>1. ASSUME t # s PROVE FALSE
      <4>1. pass'[s] = pass[s]
        BY <1>3, <3>1, PassStepGoes DEF Goes
      <4> QED
        BY <4>1
    <3> QED
      BY <3>1
  <2>2. ~FetchPage(s) /\ ~Upsert(s) /\ ~FetchChildren(s) /\ ~RecordCursor(s)
    BY DEF FetchPage, Upsert, FetchChildren, RecordCursor
  <2>3. ~FailPass(s)
    BY EndsIs, NoPassIs DEF Goes
  <2> QED
    BY <1>3, <2>1, <2>2, <2>3 DEF PassStep
<1>4. ASSUME RestartPanel PROVE FALSE
  BY <1>4, RestartIs, NoPassIs
<1>5. CASE UNCHANGED syncVars
  BY <1>5 DEF syncVars
<1> QED
  BY <1>1, <1>2, <1>3, <1>4, <1>5 DEF SyncNext, Edit, EditChildren

\* However the issues are ordered and found, a pass that read everything while
\* GitHub was quiet leaves exactly the links GitHub has: the check against
\* cycles refuses none of them, and a child listed before its parent is there.
THEOREM CompleteRunHasLinks == SyncSpec => LinksOfCompleteRun
<1>1. LinksInv /\ [SyncNext]_syncVars =>
        [\A s \in Slots :
           /\ pass[s].pc = "replace" /\ pass'[s].pc = "record"
           /\ pass[s].complete
           => links' = Graph]_syncVars
  <2> SUFFICES ASSUME LinksInv, [SyncNext]_syncVars,
                      NEW s \in Slots, pass[s].pc = "replace", pass'[s].pc = "record", pass[s].complete
               PROVE  links' = Graph
    OBVIOUS
  <2>1. SyncTyped
    BY DEF LinksInv
  <2>2. links' = VisibleLinks(pass[s])
    BY <2>1, OnlyReplaceLinks, ReplaceLinksIs
  <2> QED
    BY <2>2, WholeLinks
<1> QED
  BY <1>1, LinksInit, LinksNext, PTL DEF SyncSpec, LinksOfCompleteRun
=============================================================================
