------------------------------- MODULE Runner -------------------------------
(***************************************************************************)
(* Rebuilding, removing and restarting a project through the runner.       *)
(*                                                                         *)
(* The panel may only start one prepared container.  What it should do is  *)
(* left in a file, state/runner/request.json, which the container's script *)
(* reads field by field once it runs.  A request of the panel asks whether *)
(* the container runs, writes the file, starts the container, and after a  *)
(* removal cleans up what the panel recorded of the project: each of these *)
(* is an await, and other requests are answered meanwhile.  The host's     *)
(* owner uses docker compose beside all that.                              *)
(*                                                                         *)
(* The runner is taken to be prepared (PORTTA_RUNNER=true and one `up`).   *)
(***************************************************************************)
EXTENDS Integers, FiniteSets

CONSTANTS
  Requests,   \* panel requests that may be open at the same time
  Projects,   \* Compose projects; each has a directory of its own
  MaxJobs     \* bound: jobs dispatched in one behaviour

ASSUME JobsAreCounted == MaxJobs \in Nat
ASSUME NothingIsNoProject == "nothing" \notin Projects

VARIABLES
  label,     \* label[p]: working directory in p's containers' labels, or Nothing
  volumes,   \* projects whose volumes exist
  dirs,      \* directories that exist on the host
  rows,      \* projects with a row in `environments`
  records,   \* projects with aliases, bridges or access files of the panel
  snapshot,  \* projects in the snapshot the panel last built
  seen,      \* projects whose upsertSeen is on its way to the database
  file,      \* request.json, as its readers see it
  runner,    \* the runner container and what its script has read so far
  op,        \* op[r]: the job request r is dispatching, and how far it got
  jobs,      \* how many jobs were dispatched
  raced,     \* two dispatches were between their check and their start
  asked      \* losses that operators asked for, by the project's name

host    == <<label, volumes, dirs>>
panel   == <<rows, records, snapshot, seen>>
history == <<jobs, raced, asked>>
vars    == <<host, panel, file, runner, op, history>>

(***************************************************************************)
(* Data                                                                    *)
(***************************************************************************)

Nothing == "nothing"

\* The verbs the panel dispatches.  A flag that changes nothing but how an
\* image is built (no-cache) is left out.
Verbs == {"up", "build", "down", "down-volumes"}

\* dir is the working directory an `up` carries.
Job == [verb      : Verbs \cup {Nothing},
        project   : Projects \cup {Nothing},
        directory : BOOLEAN,
        dir       : Projects \cup {Nothing}]

\* What every reader finds in a file that is absent or just truncated.
NoJob == [verb |-> Nothing, project |-> Nothing, directory |-> FALSE, dir |-> Nothing]

\* Mutant: a missing directory is written down as the word "undefined".
JobOfUndefined(verb, p, directory) ==
  [verb |-> verb, project |-> p, directory |-> directory,
   dir |-> IF verb = "up" THEN p ELSE "undefined"]

JobOf(verb, p, directory) ==
  [verb |-> verb, project |-> p, directory |-> directory,
   dir |-> IF verb = "up" THEN p ELSE Nothing]

Live == {p \in Projects : label[p] # Nothing}

\* The script's steps: it reads four fields, checks them, and runs Compose.
RunnerSteps == {"stopped", "verb", "project", "directory", "dir",
                "check", "compose", "rebuilt", "emptied"}

OpSteps == {"idle", "inspect", "write", "fill", "start", "cleanup", "forget"}

IdleOp == [pc |-> "idle", job |-> NoJob]

\* writeFileSync does not return to the event loop: while a request fills the
\* file, the panel does nothing else.
LoopFree == \A r \in Requests : op[r].pc # "fill"

Goto(r, pc) == op' = [op EXCEPT ![r].pc = pc]
Answer(r)   == op' = [op EXCEPT ![r] = IdleOp]

(***************************************************************************)
(* Requests begin with the snapshot the panel has.                         *)
(***************************************************************************)

Dispatch(r, job) ==
  /\ LoopFree
  /\ op[r].pc = "idle"
  /\ jobs < MaxJobs
  /\ op' = [op EXCEPT ![r] = [pc |-> "inspect", job |-> job]]
  /\ jobs' = jobs + 1
  /\ UNCHANGED <<host, panel, file, runner, raced>>

Rebuild(r, p) ==
  /\ p \in snapshot
  /\ Dispatch(r, JobOf("build", p, FALSE))
  /\ UNCHANGED asked

\* Every removal takes the project's name typed back; what it confirms is
\* what its body asks for, and a directory only goes with the volumes.
Remove(r, p, withVolumes, withDirectory) ==
  /\ p \in snapshot
  /\ withDirectory => withVolumes
  /\ Dispatch(r, JobOf(IF withVolumes THEN "down-volumes" ELSE "down", p, withDirectory))
  /\ asked' = asked \cup {x \in {"volumes", "directory"} \X {p} :
                                    IF x[1] = "volumes" THEN withVolumes ELSE withDirectory}

\* startRemembered: nothing of p in the snapshot, a row that remembers it.
StartRemembered(r, p) ==
  /\ p \in rows \ snapshot
  /\ Dispatch(r, JobOf("up", p, FALSE))
  /\ UNCHANGED asked

\* DELETE /environments/:project, only for a project not in the snapshot.
ForgetRemembered(p) ==
  /\ LoopFree
  /\ p \in rows \ snapshot
  /\ rows' = rows \ {p}
  /\ asked' = asked \cup {<<"row", p>>}
  /\ UNCHANGED <<host, records, snapshot, seen, file, runner, op, jobs, raced>>

(***************************************************************************)
(* dispatchRunner                                                          *)
(***************************************************************************)

\* Mutant: the state of the container is not looked at.
InspectUnchecked(r) ==
  /\ LoopFree
  /\ op[r].pc = "inspect"
  /\ Goto(r, "write")
  /\ raced' = (raced \/ \E q \in Requests \ {r} : op[q].pc \in {"write", "start"})
  /\ UNCHANGED <<host, panel, file, runner, jobs, asked>>

\* Docker's answer, as it was when Docker gave it: 409 while a job runs.
Inspect(r) ==
  /\ LoopFree
  /\ op[r].pc = "inspect"
  /\ IF runner.pc = "stopped" THEN Goto(r, "write") ELSE Answer(r)
  /\ raced' = (raced \/ (runner.pc = "stopped" /\
                         \E q \in Requests \ {r} : op[q].pc \in {"write", "start"}))
  /\ UNCHANGED <<host, panel, file, runner, jobs, asked>>

\* The file is truncated first and filled afterwards.
Truncate(r) ==
  /\ LoopFree
  /\ op[r].pc = "write"
  /\ file' = NoJob
  /\ Goto(r, "fill")
  /\ UNCHANGED <<host, panel, runner, history>>

Fill(r) ==
  /\ op[r].pc = "fill"
  /\ file' = op[r].job
  /\ Goto(r, "start")
  /\ UNCHANGED <<host, panel, runner, history>>

\* Removals go on to clean up; the status read after the start may fail, and
\* then the handler ends there.
Started(r) ==
  \/ op[r].job.verb \in {"down", "down-volumes"} /\ Goto(r, "cleanup")
  \/ Answer(r)

\* POST /containers/{id}/start: 304 from Docker while it runs is an error.
Start(r) ==
  /\ LoopFree
  /\ op[r].pc = "start"
  /\ IF runner.pc = "stopped"
     THEN /\ runner' = [runner EXCEPT !.pc = "verb", !.job = NoJob, !.for = op[r].job]
          /\ Started(r)
     ELSE UNCHANGED runner /\ Answer(r)
  /\ UNCHANGED <<host, panel, file, history>>

\* cleanupPorttaRecords does not wait for the runner.
Cleanup(r) ==
  /\ LoopFree
  /\ op[r].pc = "cleanup"
  /\ records' = records \ {op[r].job.project}
  /\ IF op[r].job.directory THEN Goto(r, "forget") ELSE Answer(r)
  /\ UNCHANGED <<host, rows, snapshot, seen, file, runner, history>>

Forget(r) ==
  /\ LoopFree
  /\ op[r].pc = "forget"
  /\ rows' = rows \ {op[r].job.project}
  /\ Answer(r)
  /\ UNCHANGED <<host, records, snapshot, seen, file, runner, history>>

(***************************************************************************)
(* runner-exec.sh: every field is a read of the file of its own.           *)
(***************************************************************************)

Read(from, field, to) ==
  /\ runner.pc = from
  /\ runner' = [runner EXCEPT !.pc = to, !.job[field] = file[field]]
  /\ UNCHANGED <<host, panel, file, op, history>>

ReadVerb      == Read("verb", "verb", "project")
ReadProject   == Read("project", "project", "directory")
ReadDirectory == Read("directory", "directory", "dir")
ReadDir       == Read("dir", "dir", "check")

\* Labels win over the request; without containers only `up` goes on, in the
\* directory the request names.
WorkingDir(job) == IF job.project \in Live THEN label[job.project] ELSE job.dir

Admitted(job) ==
  /\ job.verb \in Verbs
  /\ job.project \in Projects
  /\ job.project \notin Live => job.verb = "up"
  /\ WorkingDir(job) \in dirs

Stop(code) == runner' = [runner EXCEPT !.pc = "stopped", !.exit = code]

Check ==
  /\ runner.pc = "check"
  /\ IF Admitted(runner.job)
     THEN runner' = [runner EXCEPT !.pc = "compose", !.job.dir = WorkingDir(runner.job)]
     ELSE Stop("failed")
  /\ UNCHANGED <<host, panel, file, op, history>>

Build ==
  /\ runner.pc = "compose" /\ runner.job.verb = "build"
  /\ runner' = [runner EXCEPT !.pc = "rebuilt"]
  /\ UNCHANGED <<host, panel, file, op, history>>

Up ==
  /\ runner.pc = "rebuilt" \/ (runner.pc = "compose" /\ runner.job.verb = "up")
  /\ label' = [label EXCEPT ![runner.job.project] = runner.job.dir]
  /\ volumes' = volumes \cup {runner.job.project}
  /\ Stop("ok")
  /\ UNCHANGED <<dirs, panel, file, op, history>>

\* Mutant: `down` takes the volumes too.
DownWithVolumes ==
  /\ runner.pc = "compose" /\ runner.job.verb \in {"down", "down-volumes"}
  /\ label' = [label EXCEPT ![runner.job.project] = Nothing]
  /\ volumes' = volumes \ {runner.job.project}
  /\ IF runner.job.verb = "down-volumes" /\ runner.job.directory
     THEN runner' = [runner EXCEPT !.pc = "emptied"]
     ELSE Stop("ok")
  /\ UNCHANGED <<dirs, panel, file, op, history>>

Down ==
  /\ runner.pc = "compose" /\ runner.job.verb \in {"down", "down-volumes"}
  /\ label' = [label EXCEPT ![runner.job.project] = Nothing]
  /\ volumes' = IF runner.job.verb = "down-volumes"
                THEN volumes \ {runner.job.project} ELSE volumes
  /\ IF runner.job.verb = "down-volumes" /\ runner.job.directory
     THEN runner' = [runner EXCEPT !.pc = "emptied"]
     ELSE Stop("ok")
  /\ UNCHANGED <<dirs, panel, file, op, history>>

RemoveDirectory ==
  /\ runner.pc = "emptied"
  /\ dirs' = dirs \ {runner.job.dir}
  /\ Stop("ok")
  /\ UNCHANGED <<label, volumes, panel, file, op, history>>

\* Compose, or rm, fails: set -e ends the script there.
Fails ==
  /\ runner.pc \in {"compose", "rebuilt", "emptied"}
  /\ Stop("failed")
  /\ UNCHANGED <<host, panel, file, op, history>>

(***************************************************************************)
(* The snapshot cache, the rows it leaves behind, and the world outside    *)
(***************************************************************************)

\* Rows are written off the request path, after the snapshot is served.
Refresh ==
  /\ LoopFree
  /\ snapshot' = Live
  /\ seen' = seen \cup Live
  /\ UNCHANGED <<host, rows, records, file, runner, op, history>>

RecordSeen ==
  /\ seen # {}
  /\ rows' = rows \cup seen
  /\ seen' = {}
  /\ UNCHANGED <<host, records, snapshot, file, runner, op, history>>

\* The owner of the host clones what is missing and runs `compose up`.
HostUp(p) ==
  /\ label' = [label EXCEPT ![p] = p]
  /\ volumes' = volumes \cup {p}
  /\ dirs' = dirs \cup {p}
  /\ UNCHANGED <<panel, file, runner, op, history>>

PanelCrash ==
  /\ op' = [r \in Requests |-> IdleOp]
  /\ seen' = {}
  /\ UNCHANGED <<host, rows, records, snapshot, file, runner, history>>

(***************************************************************************)
(* The specification                                                       *)
(***************************************************************************)

\* Every project was started on the host and the panel has seen it.
Init ==
  /\ label = [p \in Projects |-> p]
  /\ volumes = Projects
  /\ dirs = Projects
  /\ rows = Projects
  /\ records = Projects
  /\ snapshot = Projects
  /\ seen = {}
  /\ file = NoJob
  /\ runner = [pc |-> "stopped", job |-> NoJob, for |-> NoJob, exit |-> "none"]
  /\ op = [r \in Requests |-> IdleOp]
  /\ jobs = 0
  /\ raced = FALSE
  /\ asked = {}

PanelStep(r) == Inspect(r) \/ Truncate(r) \/ Fill(r) \/ Start(r) \/ Cleanup(r) \/ Forget(r)

Script == ReadVerb \/ ReadProject \/ ReadDirectory \/ ReadDir \/ Check
            \/ Build \/ Up \/ Down \/ RemoveDirectory \/ Fails

Next ==
  \/ \E r \in Requests, p \in Projects : Rebuild(r, p) \/ StartRemembered(r, p)
  \/ \E r \in Requests, p \in Projects, v, d \in BOOLEAN : Remove(r, p, v, d)
  \/ \E r \in Requests : PanelStep(r)
  \/ \E p \in Projects : ForgetRemembered(p) \/ HostUp(p)
  \/ Script
  \/ Refresh \/ RecordSeen \/ PanelCrash

\* Docker and the event loop get round to what was asked of them, and the
\* Compose commands the script runs end, well or badly.
Fairness == WF_vars(Script) /\ \A r \in Requests : WF_vars(PanelStep(r))

Spec == Init /\ [][Next]_vars /\ Fairness

(***************************************************************************)
(* Correctness                                                             *)
(***************************************************************************)

\* Every variable keeps its type: whatever two writers and a reader make of
\* the file, a field is one a writer wrote or nothing.
TypeOK ==
  /\ label \in [Projects -> Projects \cup {Nothing}]
  /\ volumes \subseteq Projects /\ dirs \subseteq Projects
  /\ rows \subseteq Projects /\ records \subseteq Projects
  /\ snapshot \subseteq Projects /\ seen \subseteq Projects
  /\ file \in Job
  /\ runner \in [pc : RunnerSteps, job : Job, for : Job, exit : {"none", "ok", "failed"}]
  /\ op \in [Requests -> [pc : OpSteps, job : Job]]
  /\ jobs \in 0..MaxJobs
  /\ raced \in BOOLEAN
  /\ asked \subseteq {"volumes", "directory", "row"} \X Projects

Running == runner.pc \in {"compose", "rebuilt", "emptied"}

\* When dispatches do not overlap, what Compose runs is the job of the request
\* that started the container, in one piece: not an older file, not a
\* truncated one, not fields of two.
RunsWhatWasAsked ==
  ~raced /\ Running =>
    /\ runner.job.verb = runner.for.verb
    /\ runner.job.project = runner.for.project
    /\ runner.job.directory = runner.for.directory

\* A volume, or a directory, is only lost once somebody typed the name of its
\* project and asked for that loss.
Confirmed(losses, kind) == \A p \in losses : <<kind, p>> \in asked

DestroysOnlyWhatWasConfirmed ==
  [][~raced' => /\ Confirmed(volumes \ volumes', "volumes")
                /\ Confirmed(dirs \ dirs', "directory")]_host

\* "Remove a volume unless the operator names the project to confirm", with
\* no exception.  The code does not keep it: of two dispatches that both found
\* the runner stopped, the second rewrites the file while the script reads it.
VolumesNeedTheirName ==
  [][Confirmed(volumes \ volumes', "volumes")]_volumes

\* "Only removing the directory forgets it": with nothing in progress, a
\* project whose containers are gone and whose directory is there is
\* remembered, unless it was forgotten by request.  The code does not keep it:
\* the row goes when the runner was started, whatever the runner then does.
OnlyTheDirectoryForgets ==
  (runner.pc = "stopped" /\ \A r \in Requests : op[r] = IdleOp) =>
    \A p \in dirs \ Live : p \in rows \/ <<"row", p>> \in asked

\* Every request is answered, also behind one that fills the file.
EveryRequestIsAnswered == \A r \in Requests : op[r].pc # "idle" ~> op[r].pc = "idle"

\* The runner stops, so that the next job finds it stopped.
RunnerStops == runner.pc # "stopped" ~> runner.pc = "stopped"
=============================================================================
