------------------------------ MODULE Bridges -------------------------------
(***************************************************************************)
(* Opening and closing loopback bridges to services.                       *)
(*                                                                         *)
(* A bridge is a container.  Opening one looks for a bridge to the same    *)
(* service, creates a container, starts it, waits for it to settle, and    *)
(* takes it away again when it did not stay up: each step is a call of     *)
(* Docker.  The panel looks at the containers in any state, the command    *)
(* `portta access open` at the running ones.  Closing, and collecting what *)
(* is stale, list first and remove afterwards, one container at a time.    *)
(*                                                                         *)
(* Nothing locks any of it, and a container that exits stays in the list   *)
(* (no restart policy, no removal by Docker).                              *)
(***************************************************************************)
EXTENDS FiniteSets

CONSTANTS
  PanelOpeners,    \* requests of the panel
  OpenCommands,    \* processes of `portta access`
  Targets,         \* services
  BridgeIds,       \* bound: bridges ever created
  NoTarget,
  NoBridge

ASSUME BridgeConstants ==
  /\ PanelOpeners \cap OpenCommands = {}
  /\ NoTarget \notin Targets /\ NoBridge \notin BridgeIds

VARIABLES
  bridge,      \* bridge[b]: its container
  reachable,   \* the services that run
  opening,     \* opening[o]: what request or command o is doing
  crossed      \* services for which an open looked while another was starting

bridgeVars == <<bridge, reachable, opening, crossed>>

Openers == PanelOpeners \cup OpenCommands

\* expires: it was opened with a time to live.
BridgeContainer == [state   : {"unborn", "created", "running", "exited", "removed"},
                    target  : Targets \cup {NoTarget},
                    expires : BOOLEAN]

\* todo: the containers a close or a collection listed and has still to remove.
Opening == [pc : {"idle", "create", "start", "settle", "clear", "remove"},
            target : Targets \cup {NoTarget}, bridge : BridgeIds \cup {NoBridge},
            todo : SUBSET BridgeIds]

Resting == [pc |-> "idle", target |-> NoTarget, bridge |-> NoBridge, todo |-> {}]

BridgesInit ==
  /\ bridge = [b \in BridgeIds |-> [state |-> "unborn", target |-> NoTarget, expires |-> FALSE]]
  /\ reachable = Targets
  /\ opening = [o \in Openers |-> Resting]
  /\ crossed = {}

InState(states) == {b \in BridgeIds : bridge[b].state \in states}
To(t)           == {b \in BridgeIds : bridge[b].target = t}
Listed          == InState({"created", "running", "exited"})
Running(t)      == InState({"running"}) \cap To(t)

Rest(o)         == opening' = [opening EXCEPT ![o] = Resting]
Proceed(o, pc)  == opening' = [opening EXCEPT ![o].pc = pc]
Become(b, s)    == bridge' = [bridge EXCEPT ![b].state = s]

(***************************************************************************)
(* Opening                                                                 *)
(***************************************************************************)

Starting(t) == {o \in Openers : opening[o].pc \in {"create", "start"} /\ opening[o].target = t}

\* What an opener takes for a bridge that is there already.
\* Mutant of Existing: a bridge with a time to live is taken to be over.
ExistingForGood(o, t) == {b \in Listed \cap To(t) : ~bridge[b].expires}

Existing(o, t) ==
  IF o \in PanelOpeners THEN Listed \cap To(t) ELSE Running(t)

\* With a bridge to t already, the open answers that one and does nothing.
AskOpen(o, t) ==
  /\ opening[o].pc = "idle"
  /\ t \in reachable
  /\ Existing(o, t) = {}
  /\ opening' = [opening EXCEPT ![o] = [Resting EXCEPT !.pc = "create", !.target = t]]
  /\ crossed' = IF Starting(t) = {} THEN crossed ELSE crossed \cup {t}
  /\ UNCHANGED <<bridge, reachable>>

\* Docker creates the container: every id is a new one.
CreateContainer(o, b, expires) ==
  /\ opening[o].pc = "create"
  /\ bridge[b].state = "unborn"
  /\ bridge' = [bridge EXCEPT ![b] = [state |-> "created", target |-> opening[o].target,
                                      expires |-> expires]]
  /\ opening' = [opening EXCEPT ![o].pc = "start", ![o].bridge = b]
  /\ UNCHANGED <<reachable, crossed>>

StartContainer(o) ==
  /\ opening[o].pc = "start"
  /\ bridge[opening[o].bridge].state = "created"
  /\ Become(opening[o].bridge, "running")
  /\ Proceed(o, "settle")
  /\ UNCHANGED <<reachable, crossed>>

\* Docker refuses a step, or the process ends: what was created stays.
GiveUp(o) ==
  /\ opening[o].pc # "idle"
  /\ Rest(o)
  /\ UNCHANGED <<bridge, reachable, crossed>>

\* A bridge that did not stay up is cleared.  One that somebody removed is gone:
\* the panel then answers as if it ran, the command that it did not.
Settle(o) ==
  /\ opening[o].pc = "settle"
  /\ IF bridge[opening[o].bridge].state = "exited" THEN Proceed(o, "clear") ELSE Rest(o)
  /\ UNCHANGED <<bridge, reachable, crossed>>

Clear(o) ==
  /\ opening[o].pc = "clear"
  /\ Become(opening[o].bridge, "removed")
  /\ Rest(o)
  /\ UNCHANGED <<reachable, crossed>>

(***************************************************************************)
(* Closing                                                                 *)
(***************************************************************************)

AskClose(o, listed) ==
  /\ opening[o].pc = "idle"
  /\ listed # {}
  /\ opening' = [opening EXCEPT ![o] = [Resting EXCEPT !.pc = "remove", !.todo = listed]]
  /\ UNCHANGED <<bridge, reachable, crossed>>

\* DELETE /access/:id, and `access close <id>`.
CloseOne(o) == \E b \in Listed : AskClose(o, {b})

\* `access close --all`.
CloseAll(o) == o \in OpenCommands /\ AskClose(o, Listed)

\* `access gc`: what does not run, what has no target, and what has expired.
Collect(o) ==
  /\ o \in OpenCommands
  /\ \E expired \in SUBSET {b \in InState({"running"}) : bridge[b].expires} :
       AskClose(o, InState({"created", "exited"}) \cup expired
                   \cup {b \in InState({"running"}) : bridge[b].target \notin reachable})

\* A container already gone is left out, or makes the close fail.
RemoveNext(o) ==
  /\ opening[o].pc = "remove"
  /\ \E b \in opening[o].todo :
       /\ IF b \in Listed THEN Become(b, "removed") ELSE UNCHANGED bridge
       /\ IF opening[o].todo = {b}
            THEN Rest(o)
            ELSE opening' = [opening EXCEPT ![o].todo = @ \ {b}]
  /\ UNCHANGED <<reachable, crossed>>

(***************************************************************************)
(* The host                                                                *)
(***************************************************************************)

\* The forwarder ends: its time is over, or it cannot listen.
Exits(b) ==
  /\ bridge[b].state = "running"
  /\ Become(b, "exited")
  /\ UNCHANGED <<reachable, opening, crossed>>

ServiceTurns(t) ==
  /\ reachable' = IF t \in reachable THEN reachable \ {t} ELSE reachable \cup {t}
  /\ UNCHANGED <<bridge, opening, crossed>>

OpenerStep(o) ==
  \/ \E t \in Targets : AskOpen(o, t)
  \/ \E b \in BridgeIds, expires \in BOOLEAN : CreateContainer(o, b, expires)
  \/ StartContainer(o) \/ GiveUp(o) \/ Settle(o) \/ Clear(o)
  \/ CloseOne(o) \/ CloseAll(o) \/ Collect(o) \/ RemoveNext(o)

BridgesNext ==
  \/ \E o \in Openers : OpenerStep(o)
  \/ \E b \in BridgeIds : Exits(b)
  \/ \E t \in Targets : ServiceTurns(t)

BridgesSpec == BridgesInit /\ [][BridgesNext]_bridgeVars

(***************************************************************************)
(* Properties                                                              *)
(***************************************************************************)

\* Containers and openers have the shapes above.
BridgesTypeOK ==
  /\ bridge \in [BridgeIds -> BridgeContainer]
  /\ reachable \subseteq Targets
  /\ opening \in [Openers -> Opening]
  /\ crossed \subseteq Targets

\* A service has one bridge that runs, whoever opens, closes and collects: two
\* only where an open looked while another was between its look and its start.
OneRunningBridge ==
  \A t \in Targets \ crossed : \A a, b \in Running(t) : a = b
=============================================================================
