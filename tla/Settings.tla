------------------------------ MODULE Settings ------------------------------
(***************************************************************************)
(* Saving settings, and applying what was saved.                           *)
(*                                                                         *)
(* The panel and `portta config set` read .env, change a key, and write    *)
(* the file in place: a copy beside it, a truncation, the new text, the    *)
(* copy gone.  Each does so in one turn of its own process, and nothing    *)
(* keeps two processes apart.                                              *)
(*                                                                         *)
(* A saved setting takes effect when the gateway's containers are created  *)
(* again.  The panel starts a prepared container, the applier, that runs   *)
(* `portta up`: it reads the file, recreates what differs, the panel       *)
(* itself included, and leaves its exit code.  The browser's window learns *)
(* the outcome by asking a panel that may be away.                         *)
(***************************************************************************)
EXTENDS Integers, FiniteSets

CONSTANTS
  Keys,            \* settings
  ConfigCommands,  \* processes of `portta config set`, each of which saves once
  Windows,         \* browser windows
  NoText,
  MaxDeeds,        \* bound: saves, and applies that are asked for
  MaxUpsets        \* bound: failures and killed processes

ASSUME SettingsConstants ==
  /\ MaxDeeds \in Nat /\ MaxUpsets \in Nat
  /\ Keys # {} /\ NoText \notin [Keys -> Int]
  /\ "panel" \notin ConfigCommands /\ "applier" \notin ConfigCommands

VARIABLES
  envFile,    \* .env as a reader finds it
  backup,     \* backup[w]: the copy writer w put beside it
  save,       \* save[w]: the save w is carrying out
  saves,
  stored,     \* stored[k]: the value of k that was last said to be saved
  careless,   \* a save went on from a cut file, or beside another
  created,    \* created[c]: the settings container c was created with
  panelServes,
  up,         \* up[u]: the run of `up` by u
  applied,    \* how the applier's last run ended
  window,     \* window[v]: the dialog of v
  asks,
  upsets

settingsVars == <<envFile, backup, save, saves, stored, careless, created, panelServes, up,
                  applied, window, asks, upsets>>

Writers == {"panel"} \cup ConfigCommands
Ups     == {"applier"} \cup ConfigCommands
Parts   == {"panel", "traefik"}

\* Values are numbered as they are saved; 0 stands for no entry, and a file that
\* was cut has none.
Text == [Keys -> 0..MaxDeeds + 2]
All(n) == [k \in Keys |-> n]
Cut == All(0)

Save == [pc : {"idle", "copy", "cut", "fill", "restore", "unlink", "up", "over"},
         key : Keys, text : Text, ok : BOOLEAN]

NoSave == [pc |-> "idle", key |-> CHOOSE k \in Keys : TRUE, text |-> Cut, ok |-> FALSE]

\* seen: whether the panel said that something is pending.  asked, started and
\* quiet are for the property: the file when the apply was confirmed, whether the
\* applier was started since, and whether nobody saved or ran `up` meanwhile.
Window == [phase : {"idle", "starting", "sent", "applying", "waiting", "reconnected", "login",
                    "failed", "timeout"},
           wasPending : BOOLEAN, sawOffline : BOOLEAN, seen : {"unknown", "pending", "settled", "cut off"},
           asked : Text, started : BOOLEAN, quiet : BOOLEAN]

NoDialog == [phase |-> "idle", wasPending |-> FALSE, sawOffline |-> FALSE, seen |-> "unknown",
             asked |-> Cut, started |-> FALSE, quiet |-> FALSE]

SettingsInit ==
  /\ envFile = All(2)
  /\ backup = [w \in Writers |-> NoText]
  /\ save = [w \in Writers |-> NoSave]
  /\ saves = 0
  /\ stored = envFile
  /\ careless = FALSE
  /\ created \in [Parts -> {All(1), All(2)}]    \* what was saved may be pending
  /\ panelServes = TRUE
  /\ up = [u \in Ups |-> NoText]
  /\ applied = "idle"
  /\ window = [v \in Windows |-> NoDialog]
  /\ asks = 0
  /\ upsets = 0

Upset == upsets < MaxUpsets /\ upsets' = upsets + 1

applyVars == <<created, panelServes, up, applied, window, asks>>

\* Whoever watches an apply is no longer alone with it.
Disquiet == [v \in Windows |-> [window[v] EXCEPT !.quiet = FALSE]]

(***************************************************************************)
(* Saving                                                                  *)
(***************************************************************************)

At(w, pc) == save[w].pc = pc
Step(w, pc) == save' = [save EXCEPT ![w].pc = pc]

Writing(w) == save[w].pc \notin {"idle", "up", "over"}

\* Checked values, merged into the text that was read.
AskSave(w, k) ==
  /\ At(w, "idle")
  /\ w = "panel" => panelServes
  /\ saves + asks < MaxDeeds
  /\ saves' = saves + 1
  /\ save' = [save EXCEPT ![w] = [pc |-> "copy", key |-> k, ok |-> FALSE,
                                  text |-> [envFile EXCEPT ![k] = saves + 3]]]
  /\ careless' = (careless \/ envFile = Cut \/ \E v \in Writers : Writing(v))
  /\ window' = Disquiet
  /\ UNCHANGED <<envFile, backup, stored, created, panelServes, up, applied, asks, upsets>>

\* The copy is an attempt: without one the write goes on.
Copy(w) ==
  /\ At(w, "copy")
  /\ \/ backup' = [backup EXCEPT ![w] = envFile] /\ UNCHANGED upsets
     \/ Upset /\ UNCHANGED backup
  /\ Step(w, "cut")
  /\ UNCHANGED <<envFile, saves, stored, careless, applyVars>>

Truncate(w) ==
  /\ At(w, "cut")
  /\ envFile' = Cut
  /\ Step(w, "fill")
  /\ UNCHANGED <<backup, saves, stored, careless, upsets, applyVars>>

Fill(w) ==
  /\ At(w, "fill")
  /\ \/ /\ envFile' = save[w].text
        /\ save' = [save EXCEPT ![w].pc = "unlink", ![w].ok = TRUE]
        /\ UNCHANGED upsets
     \/ Upset /\ Step(w, "restore") /\ UNCHANGED envFile
  /\ UNCHANGED <<backup, saves, stored, careless, applyVars>>

\* Mutant of Restore: what was copied is not put back.
RestoreNothing(w) ==
  /\ At(w, "restore")
  /\ Step(w, "unlink")
  /\ UNCHANGED <<envFile, backup, saves, stored, careless, upsets, applyVars>>

\* The write failed: the copy is put back, if there is one and that succeeds.
Restore(w) ==
  /\ At(w, "restore")
  /\ \/ /\ envFile' = IF backup[w] = NoText THEN envFile ELSE backup[w]
        /\ UNCHANGED upsets
     \/ Upset /\ UNCHANGED envFile
  /\ Step(w, "unlink")
  /\ UNCHANGED <<backup, saves, stored, careless, applyVars>>

Over(w) == [NoSave EXCEPT !.pc = IF w = "panel" THEN "idle" ELSE "over"]

\* A command that saved goes on to apply, unless it was told not to.
Unlink(w) ==
  /\ At(w, "unlink")
  /\ backup' = [backup EXCEPT ![w] = NoText]
  /\ stored' = IF save[w].ok THEN [stored EXCEPT ![save[w].key] = save[w].text[save[w].key]]
                             ELSE stored
  /\ \/ save' = [save EXCEPT ![w] = Over(w)]
     \/ w # "panel" /\ save[w].ok /\ Step(w, "up")
  /\ UNCHANGED <<envFile, saves, careless, upsets, applyVars>>

\* Its own value wins over whatever the file holds by then.
BeginUp(w) ==
  /\ At(w, "up")
  /\ up' = [up EXCEPT ![w] = [envFile EXCEPT ![save[w].key] = save[w].text[save[w].key]]]
  /\ save' = [save EXCEPT ![w] = Over(w)]
  /\ UNCHANGED <<envFile, backup, saves, stored, careless, created, panelServes, applied, window,
                 asks, upsets>>

\* A killed process leaves the file, and its copy, as they are.
Killed(w) ==
  /\ save[w].pc \notin {"idle", "over"}
  /\ Upset
  /\ save' = [save EXCEPT ![w] = Over(w)]
  /\ panelServes' = (panelServes /\ w # "panel")
  /\ UNCHANGED <<envFile, backup, saves, stored, careless, created, up, applied, window, asks>>

(***************************************************************************)
(* The gateway's containers                                                *)
(***************************************************************************)

saveVars == <<envFile, backup, save, saves, stored, careless>>

ApplierRuns == up["applier"] # NoText

\* A window in the middle of a probe has its connection broken.
CutOff(v) == IF window[v].seen = "unknown" THEN window[v]
                                           ELSE [window[v] EXCEPT !.seen = "cut off"]

\* Compose creates a container again when its settings differ.  The panel ends
\* between two of its turns, and is away until its new container runs.
Recreate(u, c) ==
  /\ up[u] # NoText /\ created[c] # up[u]
  /\ c = "panel" => At("panel", "idle")
  /\ created' = [created EXCEPT ![c] = up[u]]
  /\ panelServes' = (panelServes /\ c # "panel")
  /\ window' = IF c = "panel" THEN [v \in Windows |-> CutOff(v)] ELSE window
  /\ UNCHANGED <<saveVars, up, applied, asks, upsets>>

PanelReturns ==
  /\ ~panelServes
  /\ panelServes' = TRUE
  /\ UNCHANGED <<saveVars, created, up, applied, window, asks, upsets>>

\* With --wait, a run that ends well has everything in place.
Outcome(u, how) ==
  /\ up' = [up EXCEPT ![u] = NoText]
  /\ applied' = IF u = "applier" THEN how ELSE applied
  /\ window' = IF u = "applier" THEN window ELSE Disquiet
  /\ UNCHANGED <<saveVars, created, panelServes, asks>>

UpSucceeds(u) ==
  /\ up[u] # NoText
  /\ panelServes /\ \A c \in Parts : created[c] = up[u]
  /\ Outcome(u, "ok")
  /\ UNCHANGED upsets

UpFails(u) == up[u] # NoText /\ Upset /\ Outcome(u, "failed")

(***************************************************************************)
(* The dialog                                                              *)
(***************************************************************************)

Enter(v, new) == window' = [window EXCEPT ![v] = new]
Watching(v)       == window[v].phase \in {"applying", "waiting"}

\* What a panel says of a key: saved, and not what the panel was created with.
IsPending == \E k \in Keys : envFile[k] # 0 /\ envFile[k] # created["panel"][k]

\* What the window knows of pending settings when it asks may be old.
Confirm(v, wasPending) ==
  /\ window[v].phase = "idle"
  /\ saves + asks < MaxDeeds
  /\ asks' = asks + 1
  /\ Enter(v, [NoDialog EXCEPT !.phase = "starting", !.wasPending = wasPending,
                 !.asked = envFile,
                 !.quiet = /\ \A w \in Writers : save[w].pc \in {"idle", "over"}
                           /\ \A u \in Ups \ {"applier"} : up[u] = NoText])
  /\ UNCHANGED <<saveVars, created, panelServes, up, applied, upsets>>

\* The panel starts the applier, which reads the file.
Start(v) ==
  /\ window[v].phase = "starting"
  /\ panelServes /\ ~ApplierRuns
  /\ up' = [up EXCEPT !["applier"] = envFile]
  /\ window' = [x \in Windows |->
       [window[x] EXCEPT !.started = TRUE, !.phase = IF x = v THEN "sent" ELSE @]]
  /\ UNCHANGED <<saveVars, created, panelServes, applied, asks, upsets>>

Answered(v) ==
  /\ window[v].phase = "sent" /\ panelServes
  /\ Enter(v, [window[v] EXCEPT !.phase = "applying"])
  /\ UNCHANGED <<saveVars, created, panelServes, up, applied, asks, upsets>>

\* An apply is running already, or a proxy answers for a panel that is away.
Refused(v) ==
  /\ window[v].phase = "starting"
  /\ ~panelServes \/ ApplierRuns
  /\ Enter(v, NoDialog)
  /\ UNCHANGED <<saveVars, created, panelServes, up, applied, asks, upsets>>

\* No answer at all: the window watches what may or may not have begun.
Unanswered(v) ==
  /\ window[v].phase \in {"starting", "sent"}
  /\ ~panelServes
  /\ Enter(v, [window[v] EXCEPT !.phase = "waiting", !.sawOffline = TRUE])
  /\ UNCHANGED <<saveVars, created, panelServes, up, applied, asks, upsets>>

\* An idle window finds an apply that somebody else started.
Resume(v) ==
  /\ window[v].phase = "idle" /\ panelServes /\ ApplierRuns
  /\ Enter(v, [NoDialog EXCEPT !.phase = "waiting", !.wasPending = IsPending])
  /\ UNCHANGED <<saveVars, created, panelServes, up, applied, asks, upsets>>

\* A probe: first what is pending, then, behind an await, how the applier is.
Look(v) ==
  /\ Watching(v) /\ window[v].seen = "unknown" /\ panelServes
  /\ Enter(v, [window[v] EXCEPT !.seen = IF IsPending THEN "pending" ELSE "settled"])
  /\ UNCHANGED <<saveVars, created, panelServes, up, applied, asks, upsets>>

\* Mutant of Settled: that nothing is pending is enough.
SettledInFile(v) == window[v].seen = "settled"

Settled(v) == window[v].seen = "settled" /\ ~ApplierRuns

Proved(v) == window[v].sawOffline \/ (~ApplierRuns /\ applied = "ok") \/ ~window[v].wasPending

Judge(v) ==
  /\ Watching(v) /\ window[v].seen \in {"pending", "settled"} /\ panelServes
  /\ Enter(v, [window[v] EXCEPT
       !.seen = "unknown",
       !.phase = IF ~ApplierRuns /\ applied = "failed" THEN "failed"
                 ELSE IF Settled(v) /\ Proved(v) THEN "reconnected"
                 ELSE IF window[v].sawOffline THEN "waiting" ELSE "applying"])
  /\ UNCHANGED <<saveVars, created, panelServes, up, applied, asks, upsets>>

NoPanel(v) ==
  /\ Watching(v) /\ (~panelServes \/ window[v].seen = "cut off")
  /\ Enter(v, [window[v] EXCEPT !.seen = "unknown", !.sawOffline = TRUE, !.phase = "waiting"])
  /\ UNCHANGED <<saveVars, created, panelServes, up, applied, asks, upsets>>

\* The panel asks for its new credentials (the code calls this reconnected too),
\* or the time is over.
GivesUp(v) ==
  /\ Watching(v)
  /\ \E phase \in {"login", "timeout"} : Enter(v, [window[v] EXCEPT !.phase = phase,
                                                                   !.seen = "unknown"])
  /\ UNCHANGED <<saveVars, created, panelServes, up, applied, asks, upsets>>

Dismiss(v) ==
  /\ window[v].phase \in {"reconnected", "login", "failed", "timeout"}
  /\ Enter(v, NoDialog)
  /\ UNCHANGED <<saveVars, created, panelServes, up, applied, asks, upsets>>

SettingsNext ==
  \/ \E w \in Writers :
       \/ \E k \in Keys : AskSave(w, k)
       \/ Copy(w) \/ Truncate(w) \/ Fill(w) \/ Restore(w) \/ Unlink(w)
       \/ BeginUp(w) \/ Killed(w)
  \/ \E u \in Ups : (\E c \in Parts : Recreate(u, c)) \/ UpSucceeds(u) \/ UpFails(u)
  \/ PanelReturns
  \/ \E v \in Windows :
       \/ \E wasPending \in BOOLEAN : Confirm(v, wasPending)
       \/ Start(v) \/ Answered(v) \/ Refused(v) \/ Unanswered(v) \/ Resume(v) \/ Look(v) \/ Judge(v)
       \/ NoPanel(v) \/ GivesUp(v) \/ Dismiss(v)

SettingsSpec == SettingsInit /\ [][SettingsNext]_settingsVars

(***************************************************************************)
(* Properties                                                              *)
(***************************************************************************)

\* Files, containers and dialogs have the shapes above.
SettingsTypeOK ==
  /\ envFile \in Text /\ stored \in Text
  /\ backup \in [Writers -> Text \cup {NoText}]
  /\ save \in [Writers -> Save]
  /\ created \in [Parts -> Text]
  /\ up \in [Ups -> Text \cup {NoText}]
  /\ applied \in {"idle", "ok", "failed"}
  /\ window \in [Windows -> Window]
  /\ careless \in BOOLEAN /\ panelServes \in BOOLEAN
  /\ saves \in Nat /\ asks \in Nat /\ saves + asks <= MaxDeeds
  /\ upsets \in 0..MaxUpsets

\* No single failure, and no process killed at any point of a write, costs a
\* setting: what was said to be saved is in .env, in a copy beside it, or in the
\* hands of the process that is writing it, until it is saved anew; as long as no
\* save went on from a cut file or beside another.
SavedIsKept ==
  (~careless /\ upsets <= 1) =>
    \A k \in Keys : \/ envFile[k] >= stored[k]
                    \/ \E w \in Writers : backup[w] # NoText /\ backup[w][k] >= stored[k]
                    \/ \E w \in Writers : At(w, "fill") /\ save[w].text[k] >= stored[k]

\* When a dialog says that the gateway is back, the panel and Traefik run with
\* the settings that were saved when it was asked to apply them: unless somebody
\* saved, or ran `up` by hand, meanwhile, or the applier was never started.
BackMeansApplied ==
  [][\A v \in Windows :
       (/\ window[v].phase # "reconnected" /\ window'[v].phase = "reconnected"
        /\ window[v].quiet /\ window[v].started)
         => \A c \in Parts : created[c] = window[v].asked]_settingsVars
=============================================================================
