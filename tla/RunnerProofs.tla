---------------------------- MODULE RunnerProofs ----------------------------
(***************************************************************************)
(* Theorems of Runner, for any number of requests, projects and jobs.      *)
(*                                                                         *)
(* The argument: as long as no two dispatches overlap, a request past its  *)
(* check is alone there and finds the runner stopped, so the file cannot   *)
(* change from the start of the container to its end, and every field the  *)
(* script reads is one of the job it was started for.  What that job       *)
(* destroys was confirmed when it was asked for.                           *)
(***************************************************************************)
EXTENDS Runner, TLAPS

(***************************************************************************)
(* The inductive invariant                                                 *)
(***************************************************************************)

\* Compose only runs for a project, whatever the file held.
Typed == TypeOK /\ (Running => runner.job.project \in Projects)

\* A request between its check and the start of the container.
Dispatching(r) == op[r].pc \in {"write", "fill", "start"}

\* It is alone there, and the runner is stopped.
SoleInv ==
  \A r \in Requests : Dispatching(r) =>
    /\ runner.pc = "stopped"
    /\ \A q \in Requests : Dispatching(q) => q = r

\* The file holds the job about to be started, then the job started.
FileInv ==
  /\ \A r \in Requests : op[r].pc = "start" => file = op[r].job
  /\ runner.pc # "stopped" => file = runner.for

\* What the script has read so far is a prefix of that job.
AfterVerb      == RunnerSteps \ {"stopped", "verb"}
AfterProject   == AfterVerb \ {"project"}
AfterDirectory == AfterProject \ {"directory"}

ReadInv ==
  /\ runner.pc \in AfterVerb => runner.job.verb = runner.for.verb
  /\ runner.pc \in AfterProject => runner.job.project = runner.for.project
  /\ runner.pc \in AfterDirectory => runner.job.directory = runner.for.directory
  /\ runner.pc = "check" => runner.job.dir = runner.for.dir

\* A project lives in its own directory, and Compose runs it there.
HomeInv ==
  /\ \A p \in Projects : label[p] \in {p, Nothing}
  /\ Running => runner.job.dir = runner.job.project

\* Whatever happens, a job dispatched is one whose losses were asked for.
Proper(job, losses) ==
  /\ job.verb = "up" => job.dir = job.project
  /\ job.verb = "down-volumes" => <<"volumes", job.project>> \in losses
  /\ job.directory => <<"directory", job.project>> \in losses

ProperInv ==
  /\ \A r \in Requests : Proper(op[r].job, asked)
  /\ Proper(runner.for, asked)
  /\ runner.pc = "emptied" => runner.job.directory

AloneInv == SoleInv /\ FileInv /\ ReadInv /\ HomeInv

IInv == Typed /\ ProperInv /\ (~raced => AloneInv)

(***************************************************************************)
(* Types                                                                   *)
(***************************************************************************)

LEMMA NoJobType == NoJob \in Job /\ IdleOp \in [pc : OpSteps, job : Job]
  BY DEF NoJob, Job, IdleOp, OpSteps

LEMMA JobOfType ==
  ASSUME NEW verb \in Verbs, NEW p \in Projects, NEW directory \in BOOLEAN
  PROVE  JobOf(verb, p, directory) \in Job
  BY DEF JobOf, Job

\* What a request dispatches, goes on to or ends with is well typed.
LEMMA DispatchType ==
  ASSUME TypeOK, NEW r \in Requests, NEW job \in Job, Dispatch(r, job),
         asked' \subseteq {"volumes", "directory", "row"} \X Projects
  PROVE  TypeOK'
<1>1. [pc |-> "inspect", job |-> job] \in [pc : OpSteps, job : Job]
  BY DEF OpSteps
<1>2. op' \in [Requests -> [pc : OpSteps, job : Job]]
  BY <1>1 DEF TypeOK, Dispatch
<1>3. jobs' \in 0..MaxJobs
  BY JobsAreCounted DEF TypeOK, Dispatch
<1> QED
  BY <1>2, <1>3 DEF TypeOK, Dispatch, host, panel

LEMMA GotoType ==
  ASSUME TypeOK, NEW r \in Requests, NEW pc \in OpSteps, Goto(r, pc)
  PROVE  op' \in [Requests -> [pc : OpSteps, job : Job]]
  BY DEF TypeOK, Goto

LEMMA AnswerType ==
  ASSUME TypeOK, NEW r \in Requests, Answer(r)
  PROVE  op' \in [Requests -> [pc : OpSteps, job : Job]]
  BY NoJobType DEF TypeOK, Answer

LEMMA PanelStepType ==
  ASSUME TypeOK, NEW r \in Requests, PanelStep(r)
  PROVE  TypeOK'
<1> USE DEF host, panel, history
<1>1. op[r] \in [pc : OpSteps, job : Job]
  BY DEF TypeOK
<1>2. op' \in [Requests -> [pc : OpSteps, job : Job]]
  <2>1. (\E pc \in OpSteps : Goto(r, pc)) \/ Answer(r) \/ op' = op
    BY DEF PanelStep, Inspect, Truncate, Fill, Start, Started, Cleanup, Forget, OpSteps
  <2> QED
    BY <2>1, GotoType, AnswerType DEF TypeOK
<1>3. file' \in Job
  BY <1>1, NoJobType DEF PanelStep, Inspect, Truncate, Fill, Start, Cleanup, Forget, TypeOK
<1>4. runner' \in [pc : RunnerSteps, job : Job, for : Job, exit : {"none", "ok", "failed"}]
  <2>1. CASE Start(r)
    BY <2>1, <1>1, NoJobType DEF Start, TypeOK, RunnerSteps
  <2>2. CASE ~Start(r)
    BY <2>2 DEF PanelStep, Inspect, Truncate, Fill, Cleanup, Forget, TypeOK
  <2> QED
    BY <2>1, <2>2
<1>5. UNCHANGED <<label, volumes, dirs, snapshot, seen, jobs, asked>>
  BY DEF PanelStep, Inspect, Truncate, Fill, Start, Cleanup, Forget
<1>6. rows' \subseteq Projects /\ records' \subseteq Projects /\ raced' \in BOOLEAN
  BY DEF PanelStep, Inspect, Truncate, Fill, Start, Cleanup, Forget, TypeOK
<1> QED
  BY <1>2, <1>3, <1>4, <1>5, <1>6 DEF TypeOK

LEMMA WorkingDirType ==
  ASSUME TypeOK, NEW job \in Job
  PROVE  WorkingDir(job) \in Projects \cup {Nothing}
  BY DEF WorkingDir, TypeOK, Job, Live

\* What a read does to the script's record, field by field.
LEMMA ReadVerbStep ==
  ASSUME TypeOK, ReadVerb
  PROVE  /\ runner.pc = "verb"
         /\ runner' = [runner EXCEPT !.pc = "project", !.job = [@ EXCEPT !.verb = file.verb]]
  BY DEF TypeOK, ReadVerb, Read, Job

LEMMA ReadProjectStep ==
  ASSUME TypeOK, ReadProject
  PROVE  /\ runner.pc = "project"
         /\ runner' = [runner EXCEPT !.pc = "directory", !.job = [@ EXCEPT !.project = file.project]]
  BY DEF TypeOK, ReadProject, Read, Job

LEMMA ReadDirectoryStep ==
  ASSUME TypeOK, ReadDirectory
  PROVE  /\ runner.pc = "directory"
         /\ runner' = [runner EXCEPT !.pc = "dir", !.job = [@ EXCEPT !.directory = file.directory]]
  BY DEF TypeOK, ReadDirectory, Read, Job

LEMMA ReadDirStep ==
  ASSUME TypeOK, ReadDir
  PROVE  /\ runner.pc = "dir"
         /\ runner' = [runner EXCEPT !.pc = "check", !.job = [@ EXCEPT !.dir = file.dir]]
  BY DEF TypeOK, ReadDir, Read, Job

LEMMA ScriptType ==
  ASSUME Typed, Script
  PROVE  Typed'
<1> USE DEF host, panel, history
<1> DEFINE RunnerType == [pc : RunnerSteps, job : Job, for : Job, exit : {"none", "ok", "failed"}]
<1>1. runner.job \in Job /\ file \in Job /\ runner \in RunnerType /\ TypeOK
  BY DEF Typed, TypeOK
<1>2. runner' \in RunnerType /\ (Running' => runner'.job.project \in Projects)
  <2>1. CASE ReadVerb \/ ReadProject \/ ReadDirectory \/ ReadDir
    <3>1. /\ [runner.job EXCEPT !.verb = file.verb] \in Job
          /\ [runner.job EXCEPT !.project = file.project] \in Job
          /\ [runner.job EXCEPT !.directory = file.directory] \in Job
          /\ [runner.job EXCEPT !.dir = file.dir] \in Job
      BY <1>1 DEF Job
    <3>2. \E job \in Job, pc \in {"project", "directory", "dir", "check"} :
            runner' = [runner EXCEPT !.pc = pc, !.job = job]
      BY <1>1, <2>1, <3>1, ReadVerbStep, ReadProjectStep, ReadDirectoryStep, ReadDirStep
    <3> QED
      BY <1>1, <3>2 DEF RunnerSteps, Running
  <2>2. CASE Check
    <3>1. WorkingDir(runner.job) \in Projects \cup {Nothing}
      BY <1>1, WorkingDirType
    <3>2. [runner.job EXCEPT !.dir = WorkingDir(runner.job)] \in Job
      BY <1>1, <3>1 DEF Job
    <3>3. CASE Admitted(runner.job)
      <4>1. runner' = [runner EXCEPT !.pc = "compose",
                                     !.job = [runner.job EXCEPT !.dir = WorkingDir(runner.job)]]
        BY <1>1, <2>2, <3>3 DEF Check
      <4>2. runner.job.project \in Projects
        BY <3>3 DEF Admitted
      <4> QED
        BY <1>1, <3>2, <4>1, <4>2 DEF RunnerSteps, Running, Job
    <3>4. CASE ~Admitted(runner.job)
      BY <1>1, <2>2, <3>4 DEF Check, Stop, RunnerSteps, Running
    <3> QED
      BY <3>3, <3>4
  <2>3. CASE Build \/ Up \/ Down \/ RemoveDirectory \/ Fails
    BY <1>1, <2>3 DEF Build, Up, Down, RemoveDirectory, Fails, Stop, RunnerSteps, Running, Typed
  <2> QED
    BY <2>1, <2>2, <2>3 DEF Script
<1>3. UNCHANGED <<rows, records, snapshot, seen, file, op, jobs, raced, asked>>
  BY DEF Script, ReadVerb, ReadProject, ReadDirectory, ReadDir, Read, Check,
     Build, Up, Down, RemoveDirectory, Fails
<1>4. CASE Up
  <2>1. runner.job.dir \in Projects \cup {Nothing} /\ runner.job.project \in Projects
    BY <1>1, <1>4 DEF Job, Up, Typed, Running
  <2>2. /\ label' \in [Projects -> Projects \cup {Nothing}]
        /\ volumes' \subseteq Projects /\ dirs' \subseteq Projects
    BY <1>1, <1>4, <2>1 DEF Up, TypeOK
  <2> QED
    BY <1>1, <1>2, <1>3, <2>2 DEF TypeOK, Typed
<1>5. CASE Down
  <2>1. /\ label' \in [Projects -> Projects \cup {Nothing}]
        /\ volumes' \subseteq Projects /\ dirs' \subseteq Projects
    BY <1>1, <1>5 DEF Down, TypeOK
  <2> QED
    BY <1>1, <1>2, <1>3, <2>1 DEF TypeOK, Typed
<1>6. CASE RemoveDirectory
  <2>1. dirs' \subseteq Projects /\ UNCHANGED <<label, volumes>>
    BY <1>1, <1>6 DEF RemoveDirectory, TypeOK
  <2> QED
    BY <1>1, <1>2, <1>3, <2>1 DEF TypeOK, Typed
<1>7. CASE ReadVerb \/ ReadProject \/ ReadDirectory \/ ReadDir \/ Check \/ Build \/ Fails
  <2>1. UNCHANGED host
    BY <1>7 DEF ReadVerb, ReadProject, ReadDirectory, ReadDir, Read, Check, Build, Fails
  <2> QED
    BY <1>1, <1>2, <1>3, <2>1 DEF TypeOK, Typed
<1> QED
  BY <1>4, <1>5, <1>6, <1>7 DEF Script

LEMMA InitType == Init => Typed
<1> SUFFICES ASSUME Init PROVE Typed
  OBVIOUS
<1>1. 0 \in 0..MaxJobs
  BY JobsAreCounted
<1>2. runner \in [pc : RunnerSteps, job : Job, for : Job, exit : {"none", "ok", "failed"}]
  BY NoJobType DEF Init, RunnerSteps
<1>3. op \in [Requests -> [pc : OpSteps, job : Job]]
  BY NoJobType DEF Init
<1> QED
  BY <1>1, <1>2, <1>3, NoJobType DEF Init, Typed, TypeOK, Running

\* A dispatch asks for losses in the vocabulary of `asked`.
LEMMA RemoveType ==
  ASSUME TypeOK, NEW r \in Requests, NEW p \in Projects,
         NEW v \in BOOLEAN, NEW d \in BOOLEAN, Remove(r, p, v, d)
  PROVE  TypeOK'
<1>1. JobOf(IF v THEN "down-volumes" ELSE "down", p, d) \in Job
  BY JobOfType DEF Verbs
<1>2. asked' \subseteq {"volumes", "directory", "row"} \X Projects
  BY DEF Remove, TypeOK
<1> QED
  BY <1>1, <1>2, DispatchType DEF Remove

LEMMA RebuildType ==
  ASSUME TypeOK, NEW r \in Requests, NEW p \in Projects, Rebuild(r, p) \/ StartRemembered(r, p)
  PROVE  TypeOK'
<1>1. JobOf("build", p, FALSE) \in Job /\ JobOf("up", p, FALSE) \in Job
  BY JobOfType DEF Verbs
<1>2. asked' \subseteq {"volumes", "directory", "row"} \X Projects
  BY DEF Rebuild, StartRemembered, TypeOK
<1> QED
  BY <1>1, <1>2, DispatchType DEF Rebuild, StartRemembered

\* The world outside the handlers and the script.
LEMMA OutsideType ==
  ASSUME TypeOK,
         \/ \E p \in Projects : ForgetRemembered(p) \/ HostUp(p)
         \/ Refresh \/ RecordSeen \/ PanelCrash
  PROVE  TypeOK'
<1> USE DEF host, panel, history
<1>1. CASE \E p \in Projects : ForgetRemembered(p)
  BY <1>1 DEF ForgetRemembered, TypeOK
<1>2. CASE \E p \in Projects : HostUp(p)
  BY <1>2 DEF HostUp, TypeOK
<1>3. CASE Refresh \/ RecordSeen
  BY <1>3 DEF Refresh, RecordSeen, TypeOK, Live
<1>4. CASE PanelCrash
  <2>1. op' \in [Requests -> [pc : OpSteps, job : Job]]
    BY <1>4, NoJobType DEF PanelCrash
  <2> QED
    BY <1>4, <2>1 DEF PanelCrash, TypeOK
<1> QED
  BY <1>1, <1>2, <1>3, <1>4

LEMMA NextType == Typed /\ [Next]_vars => Typed'
<1> SUFFICES ASSUME Typed, [Next]_vars PROVE Typed'
  OBVIOUS
<1>1. TypeOK
  BY DEF Typed
<1>2. ASSUME TypeOK', runner' = runner
      PROVE  Typed'
  BY <1>2 DEF Typed, Running
<1>3. ASSUME NEW r \in Requests, NEW p \in Projects, Rebuild(r, p) \/ StartRemembered(r, p)
      PROVE  Typed'
  BY <1>1, <1>2, <1>3, RebuildType DEF Rebuild, StartRemembered, Dispatch
<1>4. ASSUME NEW r \in Requests, NEW p \in Projects, NEW v \in BOOLEAN, NEW d \in BOOLEAN,
             Remove(r, p, v, d)
      PROVE  Typed'
  BY <1>1, <1>2, <1>4, RemoveType DEF Remove, Dispatch
<1>5. ASSUME NEW r \in Requests, PanelStep(r)
      PROVE  Typed'
  <2>1. TypeOK'
    BY <1>1, <1>5, PanelStepType
  <2>2. runner' = runner \/ runner'.pc = "verb"
    BY <1>1, <1>5 DEF PanelStep, Inspect, Truncate, Fill, Start, Cleanup, Forget, TypeOK
  <2> QED
    BY <2>1, <2>2, <1>2 DEF Typed, Running
<1>6. CASE \/ \E p \in Projects : ForgetRemembered(p) \/ HostUp(p)
           \/ Refresh \/ RecordSeen \/ PanelCrash
  BY <1>1, <1>2, <1>6, OutsideType DEF ForgetRemembered, HostUp, Refresh, RecordSeen, PanelCrash
<1>7. CASE Script
  BY <1>7, ScriptType
<1>8. CASE UNCHANGED vars
  BY <1>8 DEF vars, host, panel, history, Typed, TypeOK, Running
<1> QED
  BY <1>3, <1>4, <1>5, <1>6, <1>7, <1>8 DEF Next

\* Every variable keeps its type, and Compose only runs for a project, in
\* every behaviour: also when dispatches overlap and the file is torn.
THEOREM TypeCorrect == Spec => []TypeOK
<1>1. Typed => TypeOK
  BY DEF Typed
<1> QED
  BY <1>1, InitType, NextType, PTL DEF Spec

(***************************************************************************)
(* Jobs are proper                                                         *)
(***************************************************************************)

LEMMA ProperGrows ==
  ASSUME NEW job, NEW losses, NEW more, losses \subseteq more, Proper(job, losses)
  PROVE  Proper(job, more)
  BY DEF Proper

LEMMA NoJobProper == ASSUME NEW losses PROVE Proper(NoJob, losses)
  BY DEF Proper, NoJob, Nothing

\* A dispatch of a proper job keeps the jobs proper.
LEMMA DispatchProper ==
  ASSUME Typed, ProperInv, NEW r \in Requests, NEW job, Dispatch(r, job),
         asked \subseteq asked', Proper(job, asked')
  PROVE  ProperInv'
<1>1. op' = [op EXCEPT ![r] = [pc |-> "inspect", job |-> job]] /\ runner' = runner
  BY DEF Dispatch
<1>2. \A q \in Requests : op'[q].job = IF q = r THEN job ELSE op[q].job
  BY <1>1 DEF Typed, TypeOK
<1>3. ASSUME NEW q \in Requests PROVE Proper(op'[q].job, asked')
  BY <1>2, ProperGrows DEF ProperInv
<1>4. Proper(runner'.for, asked')
  BY <1>1, ProperGrows DEF ProperInv
<1> QED
  BY <1>1, <1>3, <1>4 DEF ProperInv

\* A request that goes on keeps its job; one that ends has none.
LEMMA PanelStepJobs ==
  ASSUME Typed, NEW r \in Requests, PanelStep(r)
  PROVE  /\ \A q \in Requests : op'[q].job \in {op[q].job, NoJob}
         /\ runner'.for \in {runner.for, op[r].job}
         /\ runner'.pc \in {runner.pc, "verb"}
         /\ runner'.pc = runner.pc => runner' = runner
         /\ asked' = asked
<1>1. TypeOK
  BY DEF Typed
<1>2. Answer(r) \/ (\E pc \in OpSteps : Goto(r, pc)) \/ op' = op
  BY DEF PanelStep, Inspect, Truncate, Fill, Start, Started, Cleanup, Forget, OpSteps
<1>3. \A q \in Requests : op'[q].job \in {op[q].job, NoJob}
  BY <1>1, <1>2 DEF Answer, Goto, IdleOp, TypeOK
<1>4. CASE Start(r)
  BY <1>1, <1>3, <1>4 DEF Start, TypeOK, history
<1>5. CASE ~Start(r)
  BY <1>3, <1>5 DEF PanelStep, Inspect, Truncate, Fill, Cleanup, Forget, history
<1> QED
  BY <1>4, <1>5

\* Only `down` with its volumes and its directory reaches the directory.
LEMMA ScriptJobs ==
  ASSUME Typed, ProperInv, Script
  PROVE  /\ runner'.for = runner.for
         /\ runner'.pc = "emptied" => runner'.job.directory
         /\ op' = op /\ asked' = asked
<1>1. runner \in [pc : RunnerSteps, job : Job, for : Job, exit : {"none", "ok", "failed"}] /\ TypeOK
  BY DEF Typed, TypeOK
<1>2. op' = op /\ asked' = asked
  BY DEF Script, ReadVerb, ReadProject, ReadDirectory, ReadDir, Read, Check,
     Build, Up, Down, RemoveDirectory, Fails, history
<1>3. CASE ReadVerb \/ ReadProject \/ ReadDirectory \/ ReadDir
  BY <1>1, <1>2, <1>3, ReadVerbStep, ReadProjectStep, ReadDirectoryStep, ReadDirStep
<1>4. CASE Check
  BY <1>1, <1>2, <1>4 DEF Check, Stop
<1>5. CASE Build \/ Up \/ Down \/ RemoveDirectory \/ Fails
  BY <1>1, <1>2, <1>5 DEF Build, Up, Down, RemoveDirectory, Fails, Stop
<1> QED
  BY <1>3, <1>4, <1>5 DEF Script

LEMMA NextProper == Typed /\ ProperInv /\ [Next]_vars => ProperInv'
<1> SUFFICES ASSUME Typed, ProperInv, [Next]_vars PROVE ProperInv'
  OBVIOUS
<1>1. ASSUME NEW r \in Requests, NEW p \in Projects, Rebuild(r, p) \/ StartRemembered(r, p)
      PROVE  ProperInv'
  <2>1. Proper(JobOf("build", p, FALSE), asked') /\ Proper(JobOf("up", p, FALSE), asked')
    BY DEF Proper, JobOf
  <2> QED
    BY <1>1, <2>1, DispatchProper DEF Rebuild, StartRemembered
<1>2. ASSUME NEW r \in Requests, NEW p \in Projects, NEW v \in BOOLEAN, NEW d \in BOOLEAN,
             Remove(r, p, v, d)
      PROVE  ProperInv'
  <2> DEFINE job == JobOf(IF v THEN "down-volumes" ELSE "down", p, d)
  <2>1. asked \subseteq asked'
    BY <1>2 DEF Remove
  <2>2. (v => <<"volumes", p>> \in asked') /\ (d => <<"directory", p>> \in asked')
    BY <1>2 DEF Remove
  <2>3. Proper(job, asked')
    BY <2>2 DEF Proper, JobOf
  <2>4. Dispatch(r, job)
    BY <1>2 DEF Remove
  <2> HIDE DEF job
  <2> QED
    BY <2>1, <2>3, <2>4, DispatchProper
<1>3. ASSUME NEW r \in Requests, PanelStep(r)
      PROVE  ProperInv'
  BY <1>3, PanelStepJobs, NoJobProper DEF ProperInv
<1>4. CASE Script
  BY <1>4, ScriptJobs DEF ProperInv
<1>5. CASE \/ \E p \in Projects : ForgetRemembered(p) \/ HostUp(p)
           \/ Refresh \/ RecordSeen
  <2>1. op' = op /\ runner' = runner /\ asked \subseteq asked'
    BY <1>5 DEF ForgetRemembered, HostUp, Refresh, RecordSeen, history
  <2> QED
    BY <2>1, ProperGrows DEF ProperInv
<1>6. CASE PanelCrash
  BY <1>6, NoJobProper DEF PanelCrash, IdleOp, ProperInv, history
<1>7. CASE UNCHANGED vars
  BY <1>7 DEF vars, history, ProperInv
<1> QED
  BY <1>1, <1>2, <1>3, <1>4, <1>5, <1>6, <1>7 DEF Next

(***************************************************************************)
(* Dispatches that do not overlap                                          *)
(***************************************************************************)

\* Requests that begin, end or clean up disturb nothing.
LEMMA OpsRest ==
  ASSUME AloneInv, UNCHANGED <<file, runner, label>>,
         \A q \in Requests : op'[q] = op[q]
                               \/ op'[q].pc \in {"idle", "inspect", "cleanup", "forget"}
  PROVE  AloneInv'
<1>1. \A q \in Requests : Dispatching(q)' => Dispatching(q) /\ op'[q] = op[q]
  BY DEF Dispatching
<1>2. SoleInv'
  BY <1>1 DEF AloneInv, SoleInv
<1>3. FileInv'
  BY DEF AloneInv, FileInv
<1>4. ReadInv' /\ HomeInv'
  BY DEF AloneInv, ReadInv, HomeInv, Running
<1> QED
  BY <1>2, <1>3, <1>4 DEF AloneInv

\* What op' is after a request goes on, or ends.
LEMMA GotoStep ==
  ASSUME TypeOK, NEW r \in Requests, NEW pc, Goto(r, pc)
  PROVE  /\ op'[r].pc = pc /\ op'[r].job = op[r].job
         /\ \A q \in Requests \ {r} : op'[q] = op[q]
  BY DEF TypeOK, Goto

LEMMA AnswerStep ==
  ASSUME TypeOK, NEW r \in Requests, Answer(r)
  PROVE  /\ op'[r].pc = "idle"
         /\ \A q \in Requests \ {r} : op'[q] = op[q]
  BY DEF TypeOK, Answer, IdleOp

\* A request that passes the check alone finds nobody past it.
LEMMA InspectAlone ==
  ASSUME TypeOK, AloneInv, NEW r \in Requests, Inspect(r), ~raced'
  PROVE  AloneInv'
<1> USE DEF host, panel
<1>1. UNCHANGED <<file, runner, label>>
  BY DEF Inspect
<1>2. CASE runner.pc = "stopped"
  <2>1. Goto(r, "write")
    BY <1>2 DEF Inspect
  <2>2. \A q \in Requests \ {r} : op'[q] = op[q] /\ ~Dispatching(q)
    BY <1>2, <2>1, GotoStep DEF Inspect, LoopFree, Dispatching
  <2>3. SoleInv'
    BY <1>1, <1>2, <2>2 DEF SoleInv, Dispatching
  <2>4. FileInv'
    BY <1>1, <2>1, <2>2, GotoStep DEF AloneInv, FileInv
  <2>5. ReadInv' /\ HomeInv'
    BY <1>1 DEF AloneInv, ReadInv, HomeInv, Running
  <2> QED
    BY <2>3, <2>4, <2>5 DEF AloneInv
<1>3. CASE runner.pc # "stopped"
  BY <1>1, <1>3, AnswerStep, OpsRest DEF Inspect
<1> QED
  BY <1>2, <1>3

\* The one request past its check may write the file: nobody reads it.
LEMMA WriteAlone ==
  ASSUME TypeOK, AloneInv, NEW r \in Requests, Truncate(r) \/ Fill(r)
  PROVE  AloneInv'
<1> USE DEF host, panel
<1>1. UNCHANGED <<runner, label>>
  BY DEF Truncate, Fill
<1>2. Dispatching(r)
  BY DEF Truncate, Fill, Dispatching
<1>3. runner.pc = "stopped" /\ \A q \in Requests \ {r} : ~Dispatching(q)
  BY <1>2 DEF AloneInv, SoleInv
<1>4. \A q \in Requests \ {r} : op'[q] = op[q]
  BY GotoStep DEF Truncate, Fill
<1>5. SoleInv'
  BY <1>1, <1>3, <1>4 DEF SoleInv, Dispatching
<1>6. FileInv'
  <2>1. \A q \in Requests \ {r} : op'[q].pc # "start"
    BY <1>3, <1>4 DEF Dispatching
  <2>2. op'[r].pc = "start" => file' = op'[r].job
    BY GotoStep DEF Truncate, Fill
  <2> QED
    BY <1>1, <1>3, <2>1, <2>2 DEF FileInv
<1>7. ReadInv' /\ HomeInv'
  BY <1>1 DEF AloneInv, ReadInv, HomeInv, Running
<1> QED
  BY <1>5, <1>6, <1>7 DEF AloneInv

\* The runner starts on the job the file holds, and nobody is left to write.
LEMMA StartAlone ==
  ASSUME TypeOK, AloneInv, NEW r \in Requests, Start(r)
  PROVE  AloneInv'
<1> USE DEF host, panel
<1>1. UNCHANGED <<file, label>>
  BY DEF Start
<1>2. Dispatching(r)
  BY DEF Start, Dispatching
<1>3. runner.pc = "stopped" /\ \A q \in Requests \ {r} : ~Dispatching(q)
  BY <1>2 DEF AloneInv, SoleInv
<1>4. runner' = [runner EXCEPT !.pc = "verb", !.job = NoJob, !.for = op[r].job]
  BY <1>3 DEF Start
<1>5. runner'.pc = "verb" /\ runner'.for = op[r].job
  BY <1>4 DEF TypeOK
<1>6. \A q \in Requests : ~Dispatching(q)'
  <2>1. \A q \in Requests \ {r} : op'[q] = op[q]
    BY <1>3, GotoStep, AnswerStep DEF Start, Started
  <2>2. op'[r].pc \in {"idle", "cleanup"}
    BY <1>3, GotoStep, AnswerStep DEF Start, Started
  <2> QED
    BY <1>3, <2>1, <2>2 DEF Dispatching
<1>7. file = op[r].job
  BY DEF AloneInv, FileInv, Start
<1>8. SoleInv' /\ FileInv'
  BY <1>1, <1>5, <1>6, <1>7 DEF SoleInv, FileInv, Dispatching
<1>9. ReadInv' /\ HomeInv'
  BY <1>1, <1>5 DEF AloneInv, ReadInv, HomeInv, Running, AfterVerb, AfterProject, AfterDirectory
<1> QED
  BY <1>8, <1>9 DEF AloneInv

(***************************************************************************)
(* The script, alone with its file                                         *)
(***************************************************************************)

\* While the script runs nobody is past the check: what concerns the requests
\* and the file is kept by any step of the script.
LEMMA ScriptKeeps ==
  ASSUME Typed, AloneInv, Script
  PROVE  SoleInv' /\ FileInv' /\ runner.pc # "stopped" /\ runner'.for = runner.for
<1>1. runner \in [pc : RunnerSteps, job : Job, for : Job, exit : {"none", "ok", "failed"}] /\ TypeOK
  BY DEF Typed, TypeOK
<1>2. UNCHANGED <<op, file>>
  BY DEF Script, ReadVerb, ReadProject, ReadDirectory, ReadDir, Read, Check,
     Build, Up, Down, RemoveDirectory, Fails
<1>3. runner.pc # "stopped"
  BY DEF Script, ReadVerb, ReadProject, ReadDirectory, ReadDir, Read, Check,
     Build, Up, Down, RemoveDirectory, Fails
<1>4. runner'.for = runner.for
  <2>1. CASE ReadVerb \/ ReadProject \/ ReadDirectory \/ ReadDir
    BY <1>1, <2>1, ReadVerbStep, ReadProjectStep, ReadDirectoryStep, ReadDirStep
  <2>2. CASE Check
    BY <1>1, <2>2 DEF Check, Stop
  <2>3. CASE Build \/ Up \/ Down \/ RemoveDirectory \/ Fails
    BY <1>1, <2>3 DEF Build, Up, Down, RemoveDirectory, Fails, Stop
  <2> QED
    BY <2>1, <2>2, <2>3 DEF Script
<1>5. \A r \in Requests : ~Dispatching(r)
  BY <1>3 DEF AloneInv, SoleInv
<1>6. \A r \in Requests : ~Dispatching(r)'
  BY <1>2, <1>5 DEF Dispatching
<1>7. SoleInv'
  BY <1>6 DEF SoleInv
<1>8. FileInv'
  BY <1>2, <1>3, <1>4 DEF AloneInv, FileInv
<1> QED
  BY <1>3, <1>4, <1>7, <1>8

\* A field that is read comes from the job the container was started for.
LEMMA ReadAlone ==
  ASSUME Typed, AloneInv, ReadVerb \/ ReadProject \/ ReadDirectory \/ ReadDir
  PROVE  AloneInv'
<1>1. /\ runner \in [pc : RunnerSteps, job : Job, for : Job, exit : {"none", "ok", "failed"}]
      /\ runner.job \in Job /\ file \in Job /\ TypeOK
  BY DEF Typed, TypeOK
<1>2. SoleInv' /\ FileInv' /\ file = runner.for
  BY ScriptKeeps DEF Script, AloneInv, FileInv
<1>3. ReadInv
  BY DEF AloneInv
<1>4. ReadInv'
  <2> USE DEF AfterVerb, AfterProject, AfterDirectory, RunnerSteps
  <2>1. CASE ReadVerb
    <3> DEFINE job == [runner.job EXCEPT !.verb = file.verb]
    <3>1. runner.pc = "verb" /\ runner' = [runner EXCEPT !.pc = "project", !.job = job]
      BY <1>1, <2>1, ReadVerbStep
    <3>2. job.verb = file.verb
      BY <1>1 DEF Job
    <3> HIDE DEF job
    <3>3. runner'.pc = "project" /\ runner'.for = runner.for /\ runner'.job = job
      BY <1>1, <3>1
    <3> QED
      BY <1>2, <1>3, <3>1, <3>2, <3>3 DEF ReadInv
  <2>2. CASE ReadProject
    <3> DEFINE job == [runner.job EXCEPT !.project = file.project]
    <3>1. runner.pc = "project" /\ runner' = [runner EXCEPT !.pc = "directory", !.job = job]
      BY <1>1, <2>2, ReadProjectStep
    <3>2. job.project = file.project /\ job.verb = runner.job.verb
      BY <1>1 DEF Job
    <3> HIDE DEF job
    <3>3. runner'.pc = "directory" /\ runner'.for = runner.for /\ runner'.job = job
      BY <1>1, <3>1
    <3> QED
      BY <1>2, <1>3, <3>1, <3>2, <3>3 DEF ReadInv
  <2>3. CASE ReadDirectory
    <3> DEFINE job == [runner.job EXCEPT !.directory = file.directory]
    <3>1. runner.pc = "directory" /\ runner' = [runner EXCEPT !.pc = "dir", !.job = job]
      BY <1>1, <2>3, ReadDirectoryStep
    <3>2. job.directory = file.directory /\ job.verb = runner.job.verb
            /\ job.project = runner.job.project
      BY <1>1 DEF Job
    <3> HIDE DEF job
    <3>3. runner'.pc = "dir" /\ runner'.for = runner.for /\ runner'.job = job
      BY <1>1, <3>1
    <3> QED
      BY <1>2, <1>3, <3>1, <3>2, <3>3 DEF ReadInv
  <2>4. CASE ReadDir
    <3> DEFINE job == [runner.job EXCEPT !.dir = file.dir]
    <3>1. runner.pc = "dir" /\ runner' = [runner EXCEPT !.pc = "check", !.job = job]
      BY <1>1, <2>4, ReadDirStep
    <3>2. job.dir = file.dir /\ job.verb = runner.job.verb
            /\ job.project = runner.job.project
            /\ job.directory = runner.job.directory
      BY <1>1 DEF Job
    <3> HIDE DEF job
    <3>3. runner'.pc = "check" /\ runner'.for = runner.for /\ runner'.job = job
      BY <1>1, <3>1
    <3> QED
      BY <1>2, <1>3, <3>1, <3>2, <3>3 DEF ReadInv
  <2> QED
    BY <2>1, <2>2, <2>3, <2>4
<1>5. HomeInv'
  <2>1. label' = label
    BY DEF ReadVerb, ReadProject, ReadDirectory, ReadDir, Read, host
  <2>2. runner'.pc \in {"project", "directory", "dir", "check"}
    BY <1>1, ReadVerbStep, ReadProjectStep, ReadDirectoryStep, ReadDirStep
  <2> QED
    BY <2>1, <2>2 DEF AloneInv, HomeInv, Running
<1> QED
  BY <1>2, <1>4, <1>5 DEF AloneInv

\* What is admitted runs in the project's own directory: its label's, or the
\* one an `up` carries.
LEMMA CheckAlone ==
  ASSUME Typed, ProperInv, AloneInv, Check
  PROVE  AloneInv'
<1>1. /\ runner \in [pc : RunnerSteps, job : Job, for : Job, exit : {"none", "ok", "failed"}]
      /\ runner.job \in Job /\ TypeOK
  BY DEF Typed, TypeOK
<1>2. SoleInv' /\ FileInv'
  BY ScriptKeeps DEF Script
<1>3. ReadInv /\ HomeInv /\ runner.pc = "check" /\ label' = label
  BY DEF AloneInv, Check, host
<1>4. /\ runner.job.verb = runner.for.verb /\ runner.job.project = runner.for.project
      /\ runner.job.directory = runner.for.directory /\ runner.job.dir = runner.for.dir
  BY <1>3 DEF ReadInv, AfterVerb, AfterProject, AfterDirectory, RunnerSteps
<1>5. CASE Admitted(runner.job)
  <2>1. runner' = [runner EXCEPT !.pc = "compose",
                                 !.job = [runner.job EXCEPT !.dir = WorkingDir(runner.job)]]
    BY <1>1, <1>5 DEF Check
  <2>2. runner.job.project \in Projects
    BY <1>5 DEF Admitted
  <2>3. WorkingDir(runner.job) = runner.job.project
    <3>1. CASE runner.job.project \in Live
      BY <1>3, <2>2, <3>1 DEF WorkingDir, HomeInv, Live
    <3>2. CASE runner.job.project \notin Live
      BY <1>4, <1>5, <3>2 DEF WorkingDir, Admitted, ProperInv, Proper
    <3> QED
      BY <3>1, <3>2
  <2>4. /\ runner'.pc = "compose" /\ runner'.for = runner.for
        /\ runner'.job.verb = runner.job.verb /\ runner'.job.project = runner.job.project
        /\ runner'.job.directory = runner.job.directory
        /\ runner'.job.dir = runner.job.project
    BY <1>1, <2>1, <2>3 DEF Job
  <2>5. ReadInv' /\ HomeInv'
    BY <1>3, <1>4, <2>4 DEF ReadInv, HomeInv, Running
  <2> QED
    BY <1>2, <2>5 DEF AloneInv
<1>6. CASE ~Admitted(runner.job)
  <2>1. runner'.pc = "stopped"
    BY <1>1, <1>6 DEF Check, Stop
  <2> QED
    BY <1>2, <1>3, <2>1 DEF AloneInv, ReadInv, HomeInv, Running, AfterVerb, AfterProject, AfterDirectory
<1> QED
  BY <1>5, <1>6

\* Compose changes nothing of the job, and starts a project where it lives.
LEMMA ComposeAlone ==
  ASSUME Typed, AloneInv, Build \/ Up \/ Down \/ RemoveDirectory \/ Fails
  PROVE  AloneInv'
<1>1. /\ runner \in [pc : RunnerSteps, job : Job, for : Job, exit : {"none", "ok", "failed"}]
      /\ TypeOK
  BY DEF Typed, TypeOK
<1>2. SoleInv' /\ FileInv'
  BY ScriptKeeps DEF Script
<1>3. ReadInv /\ HomeInv /\ Running
  BY DEF AloneInv, Build, Up, Down, RemoveDirectory, Fails, Running
<1>4. /\ runner'.pc \in {"rebuilt", "emptied", "stopped"}
      /\ runner'.job = runner.job /\ runner'.for = runner.for
  BY <1>1 DEF Build, Up, Down, RemoveDirectory, Fails, Stop
<1>5. ReadInv'
  BY <1>3, <1>4 DEF ReadInv, Running, AfterVerb, AfterProject, AfterDirectory, RunnerSteps
<1>6. \A p \in Projects : label'[p] \in {p, Nothing}
  BY <1>1, <1>3 DEF HomeInv, TypeOK, Build, Up, Down, RemoveDirectory, Fails, host
<1>7. HomeInv'
  BY <1>3, <1>4, <1>6 DEF HomeInv
<1> QED
  BY <1>2, <1>5, <1>7 DEF AloneInv

(***************************************************************************)
(* The invariant is inductive, and the theorems.                           *)
(***************************************************************************)

LEMMA InitInv == Init => IInv
<1> SUFFICES ASSUME Init PROVE IInv
  OBVIOUS
<1>1. Typed
  BY InitType
<1>2. ProperInv
  BY NoJobProper DEF Init, ProperInv, IdleOp
<1>3. AloneInv
  BY DEF Init, AloneInv, SoleInv, FileInv, ReadInv, HomeInv, Dispatching, Running, IdleOp,
     AfterVerb, AfterProject, AfterDirectory
<1> QED
  BY <1>1, <1>2, <1>3 DEF IInv

LEMMA NextAlone ==
  ASSUME IInv, [Next]_vars, ~raced'
  PROVE  AloneInv'
<1> USE DEF host, panel, history
<1>1. Typed /\ TypeOK /\ ProperInv
  BY DEF IInv, Typed
<1>2. ~raced
  BY DEF Next, Rebuild, StartRemembered, Remove, Dispatch, PanelStep, Inspect, Truncate, Fill,
     Start, Cleanup, Forget, ForgetRemembered, HostUp, Script, ReadVerb, ReadProject,
     ReadDirectory, ReadDir, Read, Check, Build, Up, Down, RemoveDirectory, Fails, Refresh,
     RecordSeen, PanelCrash, vars
<1>3. AloneInv
  BY <1>2 DEF IInv
<1>4. ASSUME NEW r \in Requests, NEW job, Dispatch(r, job)
      PROVE  AloneInv'
  <2>1. \A q \in Requests : op'[q] = op[q] \/ op'[q].pc = "inspect"
    BY <1>1, <1>4 DEF Dispatch, TypeOK
  <2> QED
    BY <1>3, <1>4, <2>1, OpsRest DEF Dispatch
<1>5. ASSUME NEW r \in Requests, NEW p \in Projects, Rebuild(r, p) \/ StartRemembered(r, p)
      PROVE  AloneInv'
  BY <1>4, <1>5 DEF Rebuild, StartRemembered
<1>6. ASSUME NEW r \in Requests, NEW p \in Projects, NEW v \in BOOLEAN, NEW d \in BOOLEAN,
             Remove(r, p, v, d)
      PROVE  AloneInv'
  BY <1>4, <1>6 DEF Remove
<1>7. ASSUME NEW r \in Requests, PanelStep(r)
      PROVE  AloneInv'
  <2>1. CASE Cleanup(r) \/ Forget(r)
    <3>1. \A q \in Requests : op'[q] = op[q] \/ op'[q].pc \in {"idle", "forget"}
      BY <1>1, <2>1, GotoStep, AnswerStep DEF Cleanup, Forget
    <3> QED
      BY <1>3, <2>1, <3>1, OpsRest DEF Cleanup, Forget
  <2> QED
    BY <1>1, <1>3, <1>7, <2>1, InspectAlone, WriteAlone, StartAlone DEF PanelStep
<1>8. CASE \E p \in Projects : ForgetRemembered(p)
  BY <1>3, <1>8, OpsRest DEF ForgetRemembered
<1>9. CASE \E p \in Projects : HostUp(p)
  <2>1. UNCHANGED <<op, file, runner>> /\ \A p \in Projects : label'[p] \in {label[p], p}
    BY <1>1, <1>9 DEF HostUp, TypeOK
  <2> QED
    BY <1>3, <2>1 DEF AloneInv, SoleInv, FileInv, ReadInv, HomeInv, Dispatching, Running
<1>10. CASE Refresh \/ RecordSeen \/ UNCHANGED vars
  BY <1>3, <1>10, OpsRest DEF Refresh, RecordSeen, vars
<1>11. CASE PanelCrash
  <2>1. \A q \in Requests : op'[q].pc = "idle"
    BY <1>11 DEF PanelCrash, IdleOp
  <2> QED
    BY <1>3, <1>11, <2>1, OpsRest DEF PanelCrash
<1>12. CASE Script
  BY <1>1, <1>3, <1>12, ReadAlone, CheckAlone, ComposeAlone DEF Script
<1> QED
  BY <1>5, <1>6, <1>7, <1>8, <1>9, <1>10, <1>11, <1>12 DEF Next

LEMMA NextInv == IInv /\ [Next]_vars => IInv'
  BY NextType, NextProper, NextAlone DEF IInv

\* Alone past its check, a dispatch is carried out as it was asked.
THEOREM InvariantCorrect == Spec => []IInv
  BY InitInv, NextInv, PTL DEF Spec

\* When dispatches do not overlap, Compose runs the job of the request that
\* started the container, in one piece.
THEOREM AskedIsRun == Spec => []RunsWhatWasAsked
<1>1. IInv => RunsWhatWasAsked
  BY DEF IInv, AloneInv, ReadInv, RunsWhatWasAsked, Running, AfterVerb, AfterProject,
     AfterDirectory, RunnerSteps
<1> QED
  BY <1>1, InvariantCorrect, PTL

\* The only steps that lose something of the host are those of Compose, and
\* the job they carry out was confirmed.
LEMMA LossStep ==
  ASSUME IInv, [Next]_vars, ~raced'
  PROVE  Confirmed(volumes \ volumes', "volumes") /\ Confirmed(dirs \ dirs', "directory")
<1> USE DEF host, panel, history
<1>1. Typed /\ TypeOK /\ ProperInv
  BY DEF IInv, Typed
<1>2. CASE Down
  <2>1. AloneInv /\ runner.pc = "compose"
    BY <1>2 DEF Down, IInv
  <2>2. runner.job.verb = runner.for.verb /\ runner.job.project = runner.for.project
    BY <2>1 DEF AloneInv, ReadInv, AfterVerb, AfterProject, RunnerSteps
  <2>3. volumes \ volumes' \subseteq {runner.job.project} /\ dirs' = dirs
    BY <1>2 DEF Down
  <2>4. volumes # volumes' => runner.job.verb = "down-volumes"
    BY <1>2 DEF Down
  <2> QED
    BY <1>1, <2>2, <2>3, <2>4 DEF ProperInv, Proper, Confirmed
<1>3. CASE RemoveDirectory
  <2>1. AloneInv /\ runner.pc = "emptied"
    BY <1>3 DEF RemoveDirectory, IInv
  <2>2. runner.job.directory = runner.for.directory /\ runner.job.project = runner.for.project
    BY <2>1 DEF AloneInv, ReadInv, AfterVerb, AfterProject, AfterDirectory, RunnerSteps
  <2>3. runner.job.dir = runner.job.project
    BY <2>1 DEF AloneInv, HomeInv, Running
  <2>4. dirs \ dirs' \subseteq {runner.job.dir} /\ volumes' = volumes
    BY <1>3 DEF RemoveDirectory
  <2> QED
    BY <1>1, <2>1, <2>2, <2>3, <2>4 DEF ProperInv, Proper, Confirmed
<1>4. CASE ~Down /\ ~RemoveDirectory
  <2>1. volumes \subseteq volumes' /\ dirs \subseteq dirs'
    BY <1>4 DEF Next, Rebuild, StartRemembered, Remove, Dispatch, PanelStep, Inspect, Truncate,
       Fill, Start, Cleanup, Forget, ForgetRemembered, HostUp, Script, ReadVerb, ReadProject,
       ReadDirectory, ReadDir, Read, Check, Build, Up, Fails, Refresh, RecordSeen, PanelCrash, vars
  <2> QED
    BY <2>1 DEF Confirmed
<1> QED
  BY <1>2, <1>3, <1>4

\* When dispatches do not overlap, no volume and no directory is lost that
\* nobody confirmed by its project's name.
THEOREM LossesConfirmed == Spec => DestroysOnlyWhatWasConfirmed
<1>1. IInv /\ [Next]_vars =>
        [~raced' => /\ Confirmed(volumes \ volumes', "volumes")
                    /\ Confirmed(dirs \ dirs', "directory")]_host
  BY LossStep
<1> QED
  BY <1>1, InvariantCorrect, PTL DEF Spec, DestroysOnlyWhatWasConfirmed
=============================================================================
