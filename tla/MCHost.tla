------------------------------- MODULE MCHost -------------------------------
(***************************************************************************)
(* What acts on the host's containers and files, for TLC: bridges, actions *)
(* on containers, settings, shares and the runner.  A behaviour is one of  *)
(* one part, chosen at the start; the others stay as they began.  Of       *)
(* shares and the runner, whose safety has runs of its own, the liveness   *)
(* is checked here.                                                        *)
(***************************************************************************)
EXTENDS Bridges, MCActions, Settings

CONSTANTS
  Requests, Projects, MaxJobs,                                        \* the runner
  Commands, Ids, Hosts, ShareContainers, Tokens, MaxClock, MaxPassword \* shares

VARIABLES
  part,
  label, volumes, dirs, rows, records, snapshot, seen, file, runner, runnerOp,
  jobs, raced, asked,
  shares, store, loginRouters, shareOp, loop, panelUp, clock, issued, used,
  told, toldToken, outdated, stale, unguarded, withdrawn, killed

TheRunner == INSTANCE Runner WITH op <- runnerOp
TheShares == INSTANCE Shares WITH op <- shareOp, Containers <- ShareContainers, Ttls <- {1}

runnerVars == <<label, volumes, dirs, rows, records, snapshot, seen, file, runner, runnerOp,
                jobs, raced, asked>>
shareVars  == <<shares, store, loginRouters, shareOp, loop, panelUp, clock, issued, used,
                told, toldToken, outdated, stale, unguarded, withdrawn, killed>>
hostVars   == <<part, bridgeVars, actionVars, settingsVars, runnerVars, shareVars>>

Init ==
  /\ part \in {"bridges", "actions", "settings", "shares", "runner"}
  /\ BridgesInit /\ ActionsInit /\ SettingsInit /\ TheRunner!Init /\ TheShares!Init
  /\ part # "actions" => needs = {<<1, 2>>, <<2, 3>>}   \* one beginning of a part that stays
  /\ part # "settings" => \A c \in Parts : created[c] = envFile

\* A step of one part, in a behaviour of that part, leaves the others alone.
OfBridges  == part = "bridges" /\ UNCHANGED <<part, actionVars, settingsVars, runnerVars, shareVars>>
OfActions  == part = "actions" /\ UNCHANGED <<part, bridgeVars, settingsVars, runnerVars, shareVars>>
OfSettings == part = "settings" /\ UNCHANGED <<part, bridgeVars, actionVars, runnerVars, shareVars>>
OfRunner   == part = "runner" /\ UNCHANGED <<part, bridgeVars, actionVars, settingsVars, shareVars>>
OfShares   == part = "shares" /\ UNCHANGED <<part, bridgeVars, actionVars, settingsVars, runnerVars>>

Next ==
  \/ OfBridges /\ BridgesNext
  \/ OfActions /\ ActionsNext
  \/ OfSettings /\ SettingsNext
  \/ OfRunner /\ TheRunner!Next
  \/ OfShares /\ TheShares!Next

Fairness ==
  /\ WF_hostVars(OfRunner /\ TheRunner!Script)
  /\ \A r \in Requests : WF_hostVars(OfRunner /\ TheRunner!PanelStep(r))
  /\ \A r \in Requests : SF_hostVars(OfShares /\ TheShares!Step(r))
  /\ \A k \in Commands : WF_hostVars(OfShares /\ TheShares!Step(k))

Spec == Init /\ [][Next]_hostVars /\ Fairness

\* The type invariant of bridges, actions and settings.
HostTypeOK == BridgesTypeOK /\ ActionsTypeOK /\ SettingsTypeOK

\* The liveness of Shares and of Runner: each request and command that has begun
\* comes to its end, behind a request that holds the event loop, after a crash and
\* whatever the runner's file held; and the runner stops, so that the next job
\* finds it stopped.
OperationsEnd ==
  /\ part = "shares" => TheShares!EveryOperationEnds
  /\ part = "runner" => TheRunner!EveryRequestIsAnswered /\ TheRunner!RunnerStops
=============================================================================
