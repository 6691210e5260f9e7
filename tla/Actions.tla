------------------------------ MODULE Actions -------------------------------
(***************************************************************************)
(* Starting, stopping, restarting and removing containers.                 *)
(*                                                                         *)
(* An action on a project, by the panel or by `portta project`, reads the  *)
(* containers once, puts their services in the order of Compose's          *)
(* dependencies, and calls Docker for one after the other: a stop from the *)
(* dependents to what they need, a start the other way, a restart both.    *)
(* It goes on after a failure, and judges by the states it read and what   *)
(* it did itself; Docker answers an error to the panel, and not to the     *)
(* command, when a container is already where it should go.  An action on  *)
(* one container checks the state it read before its one call.             *)
(*                                                                         *)
(* One project, whose services are numbered in the order of their names.   *)
(***************************************************************************)
EXTENDS Integers, FiniteSets, Sequences

CONSTANTS
  Services,       \* names
  Replicas,       \* Replicas[s]: the containers of service s
  Graphs,         \* the dependencies to consider: sets of <<service, what it needs>>
  PanelActors,    \* requests of the panel
  ActionCommands, \* processes of `portta project`
  MaxActions,     \* bound: actions asked for
  MaxMeddling     \* bound: containers started, stopped or removed by others, and failures

ASSUME ActionConstants ==
  /\ Services \subseteq Int /\ IsFiniteSet(Services)
  /\ Replicas \in [Services -> Nat \ {0}]
  /\ Graphs \subseteq SUBSET (Services \X Services)
  /\ MaxActions \in Nat /\ MaxMeddling \in Nat

VARIABLES
  needs,       \* the dependencies, as the containers' labels say
  container,   \* container[c]: its state
  act,         \* act[a]: the action a is carrying out
  actions,
  meddling

actionVars == <<needs, container, act, actions, meddling>>

Actors     == PanelActors \cup ActionCommands
Containers == {c \in Services \X (1..Cardinality(Services) + 1) : c[2] <= Replicas[c[1]]}
States     == {"running", "exited", "gone"}
Verbs      == {"start", "stop", "restart"}
Call       == [verb : Verbs \cup {"remove"}, on : Containers]

\* What became of a call, as the answer reports it.
Result     == [call : Call, became : {"done", "skipped", "failed"}]

\* known: the states the actor read, and what it did since; left: the calls to
\* come; force: a removal the operator forced; calm: what ran at the beginning
\* had what it needs, and nothing failed and nobody else did anything since.
Act == [pc : {"idle", "project", "one"}, verb : Verbs \cup {"remove"},
        members : SUBSET Containers, known : [Containers -> States],
        left : Seq(Call), results : SUBSET Result, force : BOOLEAN, calm : BOOLEAN]

NoAct == [pc |-> "idle", verb |-> "start", members |-> {},
          known |-> [c \in Containers |-> "gone"], left |-> <<>>, results |-> {},
          force |-> FALSE, calm |-> FALSE]

ActionsInit ==
  /\ needs \in Graphs
  /\ container = [c \in Containers |-> "running"]
  /\ act = [a \in Actors |-> NoAct]
  /\ actions = 0
  /\ meddling = 0

Present == {c \in Containers : container[c] # "gone"}

(***************************************************************************)
(* The order of a project's services                                       *)
(***************************************************************************)

\* The services that must come before s.
\* Mutant of Before: a stop takes the services in the order of a start.
BeforeAlways(s, verb) == {d \in Services : <<s, d>> \in needs}

Before(s, verb) == IF verb = "start" THEN {d \in Services : <<s, d>> \in needs}
                                     ELSE {d \in Services : <<d, s>> \in needs}

\* By name, and in the order they were listed.
Earlier(c, d) == c[1] < d[1] \/ (c[1] = d[1] /\ c[2] < d[2])

InOrder(S) == CHOOSE q \in [1..Cardinality(S) -> S] :
                \A i, j \in DOMAIN q : i < j => Earlier(q[i], q[j])

\* The container that stands for service s: the first listed if s waits for
\* nothing, the last otherwise.
Representative(s, verb, members) ==
  LET of == {c \in members : c[1] = s}
  IN  CHOOSE c \in of : \A d \in of \ {c} :
        IF Before(s, verb) \cap {m[1] : m \in members} = {} THEN c[2] < d[2] ELSE c[2] > d[2]

\* One container of each service, always the first by name among those that
\* wait for no service left; when each waits for one, all that are left by name.
Ordered(members, verb) ==
  LET from[S \in SUBSET Services] ==
        LET ready == {s \in S : Before(s, verb) \cap S = {}}
            next  == CHOOSE s \in ready : \A t \in ready : s <= t
        IN  IF ready = {}
              THEN InOrder({c \in members : c[1] \in S})
              ELSE <<Representative(next, verb, members)>> \o from[S \ {next}]
  IN  from[{c[1] : c \in members}]

Calls(members, verb) ==
  LET order == Ordered(members, verb)
  IN  [i \in DOMAIN order |-> [verb |-> verb, on |-> order[i]]]

(***************************************************************************)
(* Actions                                                                 *)
(***************************************************************************)

\* Each service that runs has those it needs, as far as they are there.
Supplied == \A c, d \in Present : (<<c[1], d[1]>> \in needs /\ container[c] = "running")
                                     => container[d] = "running"

Acyclic == \E rank \in [Services -> 1..Cardinality(Services)] :
             \A edge \in needs : rank[edge[2]] < rank[edge[1]]

Busy == {a \in Actors : act[a].pc # "idle"}

\* Others no longer act alone once a does something.
Disturb(a, new) == act' = [x \in Actors |->
                             IF x = a THEN new ELSE [act[x] EXCEPT !.calm = FALSE]]

\* A request that finds an old snapshot in the cache is one asked when that was
\* made.
Ask(a, new) ==
  /\ act[a].pc = "idle"
  /\ actions < MaxActions
  /\ actions' = actions + 1
  /\ Disturb(a, [new EXCEPT !.known = container,
                            !.calm = Supplied /\ Acyclic /\ Busy = {}])
  /\ UNCHANGED <<needs, container, meddling>>

AskProject(a, verb) ==
  /\ Present # {}
  /\ Ask(a, [NoAct EXCEPT
       !.pc = "project", !.verb = verb, !.members = Present,
       !.left = (IF verb = "start" THEN <<>> ELSE Calls(Present, "stop"))
                \o (IF verb = "stop" THEN <<>> ELSE Calls(Present, "start"))])

AskOne(a, verb, c) ==
  /\ a \in PanelActors
  /\ container[c] # "gone"
  /\ verb = "start" => container[c] # "running"
  /\ verb = "stop"  => container[c] = "running"
  /\ Ask(a, [NoAct EXCEPT !.pc = "one", !.verb = verb,
                          !.left = <<[verb |-> verb, on |-> c]>>])

AskRemoval(a, c, force) ==
  /\ a \in PanelActors
  /\ container[c] = "exited" \/ (container[c] = "running" /\ force)
  /\ Ask(a, [NoAct EXCEPT !.pc = "one", !.verb = "remove", !.force = force,
                          !.left = <<[verb |-> "remove", on |-> c]>>])

\* A project's action leaves out what it knows to be done.
Skips(a, call) ==
  /\ act[a].pc = "project"
  /\ (call.verb = "start") <=> (act[a].known[call.on] = "running")

\* Docker refuses to remove what runs, unless it is told to: and it is told to
\* when the container was seen to run.
\* Mutant of Removable: Docker is told to each time.
RemovableAlways(a, c) == container[c] # "gone"

Removable(a, c) ==
  \/ container[c] = "exited"
  \/ container[c] = "running" /\ act[a].known[c] = "running"

\* Mutant of Where: the state map is given the verb.
WhereSaid(verb) == CASE verb = "remove" -> "gone" [] OTHER -> verb

\* Where a call leaves its container.
Where(verb) == CASE verb = "stop" -> "exited" [] verb = "remove" -> "gone" [] OTHER -> "running"

\* Docker does what it is asked.
Obeys(a, call) ==
  CASE call.verb = "start"   -> container[call.on] = "exited"
    [] call.verb = "stop"    -> container[call.on] = "running"
    [] call.verb = "restart" -> container[call.on] # "gone"
    [] call.verb = "remove"  -> Removable(a, call.on)

\* There is nothing to do: the panel takes the answer (304) for an error.
Already(call) == call.verb \in {"start", "stop"} /\ container[call.on] = Where(call.verb)

\* The state map follows what was done.
\* Mutant of Report: it does not.
ReportOnly(a, became) ==
  LET call == Head(act[a].left)
  IN  [act[a] EXCEPT !.left = Tail(@), !.results = @ \cup {[call |-> call, became |-> became]},
                     !.calm = @ /\ became # "failed"]

Report(a, became) ==
  LET call == Head(act[a].left)
  IN  [act[a] EXCEPT !.left = Tail(@), !.results = @ \cup {[call |-> call, became |-> became]},
                     !.known[call.on] = IF became = "done" THEN Where(call.verb) ELSE @,
                     !.calm = @ /\ became # "failed"]

Pending(a) == act[a].pc # "idle" /\ act[a].left # <<>>

Skip(a) ==
  /\ Pending(a) /\ Skips(a, Head(act[a].left))
  /\ act' = [act EXCEPT ![a] = Report(a, "skipped")]
  /\ UNCHANGED <<needs, container, actions, meddling>>

Perform(a) ==
  /\ Pending(a) /\ ~Skips(a, Head(act[a].left))
  /\ LET call == Head(act[a].left)
     IN  /\ Obeys(a, call)
         /\ container' = [container EXCEPT ![call.on] = Where(call.verb)]
  /\ Disturb(a, Report(a, "done"))
  /\ UNCHANGED <<needs, actions, meddling>>

\* The call changes nothing.
FindDone(a) ==
  /\ Pending(a) /\ ~Skips(a, Head(act[a].left))
  /\ LET call == Head(act[a].left)
     IN  /\ ~Obeys(a, call)
         /\ act' = [act EXCEPT ![a] =
              Report(a, IF Already(call) /\ a \in ActionCommands THEN "done" ELSE "failed")]
  /\ UNCHANGED <<needs, container, actions, meddling>>

Meddle == meddling < MaxMeddling /\ meddling' = meddling + 1

\* Docker fails: a stop that times out, a start whose port is taken.
DockerFails(a) ==
  /\ Pending(a) /\ ~Skips(a, Head(act[a].left))
  /\ Meddle
  /\ act' = [act EXCEPT ![a] = Report(a, "failed")]
  /\ UNCHANGED <<needs, container, actions>>

\* The answer is given: a project's with its results, another's or its error.
Answer(a) ==
  /\ act[a].pc # "idle" /\ act[a].left = <<>>
  /\ act' = [act EXCEPT ![a] = NoAct]
  /\ UNCHANGED <<needs, container, actions, meddling>>

\* The owner's own docker commands, and what ends by itself.
OthersMove(c, state) ==
  /\ container[c] \notin {"gone", state}
  /\ Meddle
  /\ container' = [container EXCEPT ![c] = state]
  /\ act' = [x \in Actors |-> [act[x] EXCEPT !.calm = FALSE]]
  /\ UNCHANGED <<needs, actions>>

ActorStep(a) == Skip(a) \/ Perform(a) \/ FindDone(a) \/ Answer(a)

ActionsNext ==
  \/ \E a \in Actors :
       \/ \E verb \in Verbs : AskProject(a, verb) \/ \E c \in Containers : AskOne(a, verb, c)
       \/ \E c \in Containers, force \in BOOLEAN : AskRemoval(a, c, force)
       \/ ActorStep(a) \/ DockerFails(a)
  \/ \E c \in Containers, state \in States : OthersMove(c, state)

ActionsSpec == ActionsInit /\ [][ActionsNext]_actionVars

(***************************************************************************)
(* Properties                                                              *)
(***************************************************************************)

\* Containers and actions have the shapes above.
ActionsTypeOK ==
  /\ needs \in Graphs
  /\ container \in [Containers -> States]
  /\ act \in [Actors -> Act]
  /\ actions \in 0..MaxActions
  /\ meddling \in 0..MaxMeddling

\* While an action on a project goes undisturbed, no service runs without one it
\* needs: stops come from the dependents, starts from what they need.
NothingRunsWithoutItsNeeds ==
  \A a \in Actors : (act[a].pc = "project" /\ act[a].calm) => Supplied

Reported(a, c) == {r \in act[a].results : r.call.on = c}

\* A restart that reports no failure has started each container it stopped, and
\* those it found stopped, whatever happened beside it.
RestartBringsBack ==
  \A a \in Actors :
    (/\ act[a].pc = "project" /\ act[a].verb = "restart" /\ act[a].left = <<>>
     /\ \A r \in act[a].results : r.became # "failed")
       => \A c \in act[a].members :
            [call |-> [verb |-> "start", on |-> c], became |-> "done"] \in act[a].results

\* What runs is removed by others, or because an operator said so, however old
\* the state it was judged by.
RunningGoesOnlyWhenForced ==
  [][\A c \in Containers : (container[c] = "running" /\ container'[c] = "gone")
       => \/ meddling' # meddling
          \/ \E a \in Actors : act[a].verb = "remove" /\ act[a].force
                               /\ Len(act'[a].left) < Len(act[a].left)]_actionVars

\* docs/commands.md: `portta project start|stop|restart` acts on every container
\* in a project.
EveryContainerActedOn ==
  \A a \in Actors : (act[a].pc = "project" /\ act[a].left = <<>>)
    => \A c \in act[a].members : Reported(a, c) # {}
=============================================================================
