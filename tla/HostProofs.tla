----------------------------- MODULE HostProofs -----------------------------
(***************************************************************************)
(* Theorems of Bridges, of Settings, of Actions and of the host they make. *)
(*                                                                         *)
(* OneRunningBridge is not inductive: it says nothing of the opens that    *)
(* looked and have not started yet.  BridgesInv adds them.  For a service  *)
(* nobody crossed, the bridges that run and the opens between their look   *)
(* and their start are at most one together; and an open that is about to  *)
(* start has created a bridge to the service it was asked for.             *)
(*                                                                         *)
(* SavedIsKept is not inductive: the file and the copy are only as good as *)
(* what the writers hold.  SettingsInv says where a write stands at each   *)
(* of its steps, that writes do not overlap until somebody was careless,   *)
(* and that a write that was given up in the middle leaves a cut file,     *)
(* which makes the next one careless.  DialogInv adds what a quiet window  *)
(* knows of the applier it started.                                        *)
(*                                                                         *)
(* The actions on a project keep its order because of what is left of      *)
(* their calls: StopsInOrder and StartsInOrder say that nothing is left    *)
(* that would stop or start a container too early.  They hold of the whole *)
(* list at the start by what orderProjectServices yields, which is shown   *)
(* by induction over the services still to be placed.                      *)
(*                                                                         *)
(* A step of the host is a step of one of the three, so that it keeps what *)
(* each of them keeps.                                                     *)
(***************************************************************************)
EXTENDS MCHost, SetLemmas, TLAPS

(***************************************************************************)
(* Bridges                                                                 *)
(***************************************************************************)

OneStarting  == \A t \in Targets \ crossed : \A o, p \in Starting(t) : o = p

NoneBesides  == \A t \in Targets \ crossed : Starting(t) = {} \/ Running(t) = {}

StartsItsOwn ==
  \A o \in Openers : opening[o].pc = "start" =>
    /\ opening[o].bridge \in BridgeIds
    /\ bridge[opening[o].bridge].state # "unborn"
    /\ bridge[opening[o].bridge].target = opening[o].target

BridgesInv == BridgesTypeOK /\ OneRunningBridge /\ OneStarting /\ NoneBesides /\ StartsItsOwn

LEMMA BridgesInitInv == BridgesInit => BridgesInv
  BY DEF BridgesInit, BridgesInv, BridgesTypeOK, OneRunningBridge, OneStarting, NoneBesides,
         StartsItsOwn, Starting, Running, InState, To, Resting, Opening, BridgeContainer

\* A step that takes running bridges away, leaves the opens that start, or some of
\* them, where they are, and no bridge its target, keeps the invariant.
LEMMA Fewer ==
  ASSUME BridgesInv, BridgesTypeOK',
         crossed' = crossed,
         \A b \in BridgeIds : /\ bridge'[b].state = "running" => bridge[b].state = "running"
                              /\ bridge'[b].state = "unborn" => bridge[b].state = "unborn"
                              /\ bridge'[b].target = bridge[b].target,
         \A o \in Openers : opening'[o].pc \in {"create", "start"} => opening'[o] = opening[o]
  PROVE  BridgesInv'
<1>1. \A t : Running(t)' \subseteq Running(t)
  BY DEF Running, InState, To
<1>2. \A t : Starting(t)' \subseteq Starting(t)
  BY DEF Starting
<1>3. OneRunningBridge'
  BY <1>1 DEF BridgesInv, OneRunningBridge
<1>4. OneStarting'
  BY <1>2 DEF BridgesInv, OneStarting
<1>5. NoneBesides'
  BY <1>1, <1>2 DEF BridgesInv, NoneBesides
<1>6. StartsItsOwn'
  BY DEF BridgesInv, StartsItsOwn
<1> QED
  BY <1>3, <1>4, <1>5, <1>6 DEF BridgesInv

LEMMA AskOpenInv ==
  ASSUME BridgesInv, NEW o \in Openers, NEW t \in Targets, AskOpen(o, t)
  PROVE  BridgesInv'
<1> USE DEF BridgesInv
<1>1. opening' = [opening EXCEPT ![o] = [Resting EXCEPT !.pc = "create", !.target = t]]
  BY DEF AskOpen
<1>2. [Resting EXCEPT !.pc = "create", !.target = t] \in Opening
  BY DEF Resting, Opening
<1>3. /\ bridge' = bridge /\ reachable' = reachable /\ opening[o].pc = "idle"
      /\ crossed' = IF Starting(t) = {} THEN crossed ELSE crossed \cup {t}
  BY DEF AskOpen
<1>4. BridgesTypeOK'
  BY <1>1, <1>2, <1>3 DEF BridgesTypeOK
<1>5. opening'[o].pc = "create" /\ opening'[o].target = t
  BY <1>1 DEF BridgesTypeOK, Resting
<1>6. \A p \in Openers \ {o} : opening'[p] = opening[p]
  BY <1>1 DEF BridgesTypeOK
<1>7. Running(t) = {}
  BY DEF AskOpen, Existing, Running, Listed, InState
<1>8. \A u : Running(u)' = Running(u)
  BY <1>3 DEF Running, InState, To
<1>9. \A u \in Targets \ {t} : Starting(u)' = Starting(u)
  BY <1>3, <1>5, <1>6 DEF Starting
<1>10. Starting(t) = {} => Starting(t)' = {o}
  BY <1>3, <1>5, <1>6 DEF Starting
<1>11. OneRunningBridge'
  BY <1>3, <1>8 DEF OneRunningBridge
<1>12. OneStarting'
  BY <1>3, <1>9, <1>10 DEF OneStarting
<1>13. NoneBesides'
  BY <1>3, <1>7, <1>8, <1>9 DEF NoneBesides
<1>14. StartsItsOwn'
  BY <1>3, <1>5, <1>6 DEF StartsItsOwn
<1> QED
  BY <1>4, <1>11, <1>12, <1>13, <1>14

LEMMA CreateInv ==
  ASSUME BridgesInv, NEW o \in Openers, NEW b \in BridgeIds, NEW expires \in BOOLEAN,
         CreateContainer(o, b, expires)
  PROVE  BridgesInv'
<1> USE DEF BridgesInv
<1> DEFINE new == [state |-> "created", target |-> opening[o].target, expires |-> expires]
           op  == [opening[o] EXCEPT !.pc = "start", !.bridge = b]
<1>1. /\ bridge' = [bridge EXCEPT ![b] = new]
      /\ crossed' = crossed /\ reachable' = reachable
      /\ opening[o].pc = "create" /\ bridge[b].state = "unborn"
  BY DEF CreateContainer
<1>2. opening[o] \in Opening
  BY DEF BridgesTypeOK
<1>3. opening' = [opening EXCEPT ![o] = op]
  BY DEF CreateContainer, BridgesTypeOK
<1>4. op \in Opening /\ new \in BridgeContainer
  BY <1>2 DEF Opening, BridgeContainer
<1>5. BridgesTypeOK'
  BY <1>1, <1>3, <1>4 DEF BridgesTypeOK
<1>6. opening'[o].pc = "start" /\ opening'[o].target = opening[o].target /\ opening'[o].bridge = b
  BY <1>2, <1>3 DEF BridgesTypeOK, Opening
<1>7. \A p \in Openers \ {o} : opening'[p] = opening[p]
  BY <1>3 DEF BridgesTypeOK
<1>8. bridge'[b].state = "created" /\ bridge'[b].target = opening[o].target
  BY <1>1 DEF BridgesTypeOK
<1>9. \A a \in BridgeIds \ {b} : bridge'[a] = bridge[a]
  BY <1>1 DEF BridgesTypeOK
<1>10. \A t : Running(t)' = Running(t)
  BY <1>1, <1>8, <1>9 DEF Running, InState, To
<1>11. \A t : Starting(t)' = Starting(t)
  BY <1>1, <1>6, <1>7 DEF Starting
<1>12. OneRunningBridge' /\ OneStarting' /\ NoneBesides'
  BY <1>1, <1>10, <1>11 DEF OneRunningBridge, OneStarting, NoneBesides
<1>13. StartsItsOwn'
  BY <1>1, <1>6, <1>7, <1>8, <1>9 DEF StartsItsOwn
<1> QED
  BY <1>5, <1>12, <1>13

LEMMA StartInv ==
  ASSUME BridgesInv, NEW o \in Openers, StartContainer(o)
  PROVE  BridgesInv'
<1> USE DEF BridgesInv
<1> DEFINE b == opening[o].bridge
           new == [bridge[b] EXCEPT !.state = "running"]
           op  == [opening[o] EXCEPT !.pc = "settle"]
<1>1. /\ crossed' = crossed /\ reachable' = reachable
      /\ opening[o].pc = "start" /\ bridge[b].state = "created"
  BY DEF StartContainer
<1>2. b \in BridgeIds /\ bridge[b].target = opening[o].target
  BY <1>1 DEF StartsItsOwn
<1>3. opening[o] \in Opening /\ bridge[b] \in BridgeContainer
  BY <1>2 DEF BridgesTypeOK
<1>4. bridge' = [bridge EXCEPT ![b] = new] /\ opening' = [opening EXCEPT ![o] = op]
  BY <1>2 DEF StartContainer, Become, Proceed, BridgesTypeOK
<1>5. op \in Opening /\ new \in BridgeContainer
  BY <1>3 DEF Opening, BridgeContainer
<1>6. BridgesTypeOK'
  BY <1>1, <1>4, <1>5 DEF BridgesTypeOK
<1>7. opening'[o].pc = "settle"
  BY <1>3, <1>4 DEF BridgesTypeOK, Opening
<1>8. \A p \in Openers \ {o} : opening'[p] = opening[p]
  BY <1>4 DEF BridgesTypeOK
<1>9. bridge'[b].state = "running" /\ bridge'[b].target = opening[o].target
  BY <1>2, <1>3, <1>4 DEF BridgesTypeOK, BridgeContainer
<1>10. \A a \in BridgeIds \ {b} : bridge'[a] = bridge[a]
  BY <1>4 DEF BridgesTypeOK
<1>. PICK t : t = opening[o].target
  OBVIOUS
<1>11. \A u : u # t => Running(u)' = Running(u)
  BY <1>1, <1>2, <1>9, <1>10 DEF Running, InState, To
<1>. PICK c : c = b
  OBVIOUS
<1>12. \A a \in Running(t)' : a = c \/ a \in Running(t)
  BY <1>10 DEF Running, InState, To
<1>13. \A u : Starting(u)' \subseteq Starting(u) \ {o}
  BY <1>7, <1>8 DEF Starting
<1>14. o \in Starting(t)
  BY <1>1 DEF Starting
<1>15. t \in Targets \ crossed => Running(t) = {} /\ Starting(t)' = {}
  BY <1>13, <1>14 DEF NoneBesides, OneStarting
<1>16. OneRunningBridge'
  BY <1>1, <1>11, <1>12, <1>15 DEF OneRunningBridge
<1>17. OneStarting'
  BY <1>1, <1>13 DEF OneStarting
<1>18. NoneBesides'
  BY <1>1, <1>11, <1>13, <1>15 DEF NoneBesides
<1>19. StartsItsOwn'
  BY <1>1, <1>2, <1>7, <1>8, <1>9, <1>10 DEF StartsItsOwn
<1> QED
  BY <1>6, <1>16, <1>17, <1>18, <1>19

\* What becomes of a bridge when its state changes.
LEMMA BecomeKeeps ==
  ASSUME BridgesTypeOK, NEW b, NEW s \in {"exited", "removed"}, Become(b, s)
  PROVE  /\ bridge' \in [BridgeIds -> BridgeContainer]
         /\ \A a \in BridgeIds : /\ bridge'[a].state = "running" => bridge[a].state = "running"
                                 /\ bridge'[a].state = "unborn" => bridge[a].state = "unborn"
                                 /\ bridge'[a].target = bridge[a].target
<1>1. CASE b \in BridgeIds
  <2> DEFINE new == [bridge[b] EXCEPT !.state = s]
  <2>1. bridge[b] \in BridgeContainer
    BY <1>1 DEF BridgesTypeOK
  <2>2. new \in BridgeContainer /\ new.state = s /\ new.target = bridge[b].target
    BY <2>1 DEF BridgeContainer
  <2>3. bridge' = [bridge EXCEPT ![b] = new]
    BY <1>1 DEF Become, BridgesTypeOK
  <2> HIDE DEF new
  <2> QED
    BY <1>1, <2>2, <2>3 DEF BridgesTypeOK
<1>2. CASE b \notin BridgeIds
  <2>1. bridge' = bridge
    BY <1>2 DEF Become, BridgesTypeOK
  <2> QED
    BY <2>1 DEF BridgesTypeOK
<1> QED
  BY <1>1, <1>2

\* An opener that comes to rest.
LEMMA RestKeeps ==
  ASSUME BridgesTypeOK, NEW o \in Openers, Rest(o)
  PROVE  /\ opening' \in [Openers -> Opening]
         /\ \A p \in Openers : opening'[p].pc \in {"create", "start"} => opening'[p] = opening[p]
<1>1. Resting \in Opening /\ Resting.pc = "idle"
  BY DEF Resting, Opening
<1> QED
  BY <1>1 DEF Rest, BridgesTypeOK

\* One that goes on, and starts nothing.
LEMMA ProceedKeeps ==
  ASSUME BridgesTypeOK, NEW o \in Openers, NEW op \in Opening,
         op.pc \notin {"create", "start"}, opening' = [opening EXCEPT ![o] = op]
  PROVE  /\ opening' \in [Openers -> Opening]
         /\ \A p \in Openers : opening'[p].pc \in {"create", "start"} => opening'[p] = opening[p]
  BY DEF BridgesTypeOK

LEMMA SettleInv ==
  ASSUME BridgesInv, NEW o \in Openers, Settle(o)
  PROVE  BridgesInv'
<1> USE DEF BridgesInv
<1>1. bridge' = bridge /\ reachable' = reachable /\ crossed' = crossed
  BY DEF Settle
<1>2. CASE Rest(o)
  BY <1>1, <1>2, RestKeeps, Fewer DEF BridgesTypeOK
<1>3. CASE Proceed(o, "clear")
  <2> DEFINE op == [opening[o] EXCEPT !.pc = "clear"]
  <2>1. opening[o] \in Opening
    BY DEF BridgesTypeOK
  <2>2. op \in Opening /\ op.pc = "clear"
    BY <2>1 DEF Opening
  <2>3. opening' = [opening EXCEPT ![o] = op]
    BY <1>3 DEF Proceed
  <2> HIDE DEF op
  <2> QED
    BY <1>1, <2>2, <2>3, ProceedKeeps, Fewer DEF BridgesTypeOK
<1> QED
  BY <1>2, <1>3 DEF Settle

LEMMA AskCloseInv ==
  ASSUME BridgesInv, NEW o \in Openers, NEW listed \in SUBSET BridgeIds, AskClose(o, listed)
  PROVE  BridgesInv'
<1> USE DEF BridgesInv
<1> DEFINE op == [Resting EXCEPT !.pc = "remove", !.todo = listed]
<1>1. op \in Opening /\ op.pc = "remove"
  BY DEF Resting, Opening
<1>2. /\ opening' = [opening EXCEPT ![o] = op]
      /\ bridge' = bridge /\ reachable' = reachable /\ crossed' = crossed
  BY DEF AskClose
<1> HIDE DEF op
<1> QED
  BY <1>1, <1>2, ProceedKeeps, Fewer DEF BridgesTypeOK

LEMMA RemoveInv ==
  ASSUME BridgesInv, NEW o \in Openers, RemoveNext(o)
  PROVE  BridgesInv'
<1> USE DEF BridgesInv
<1>1. reachable' = reachable /\ crossed' = crossed /\ opening[o].pc = "remove"
  BY DEF RemoveNext
<1>2. PICK b \in opening[o].todo :
         /\ IF b \in Listed THEN Become(b, "removed") ELSE UNCHANGED bridge
         /\ IF opening[o].todo = {b}
              THEN Rest(o)
              ELSE opening' = [opening EXCEPT ![o].todo = @ \ {b}]
  BY DEF RemoveNext
<1>3. /\ bridge' \in [BridgeIds -> BridgeContainer]
      /\ \A a \in BridgeIds : /\ bridge'[a].state = "running" => bridge[a].state = "running"
                              /\ bridge'[a].state = "unborn" => bridge[a].state = "unborn"
                              /\ bridge'[a].target = bridge[a].target
  BY <1>2, BecomeKeeps DEF BridgesTypeOK
<1>4. /\ opening' \in [Openers -> Opening]
      /\ \A p \in Openers : opening'[p].pc \in {"create", "start"} => opening'[p] = opening[p]
  <2>1. CASE Rest(o)
    BY <2>1, RestKeeps
  <2>2. CASE opening' = [opening EXCEPT ![o].todo = @ \ {b}]
    <3> DEFINE op == [opening[o] EXCEPT !.todo = opening[o].todo \ {b}]
    <3>1. opening[o] \in Opening
      BY DEF BridgesTypeOK
    <3>2. op \in Opening /\ op.pc = "remove"
      BY <1>1, <3>1 DEF Opening
    <3>3. opening' = [opening EXCEPT ![o] = op]
      BY <2>2
    <3> HIDE DEF op
    <3> QED
      BY <3>2, <3>3, ProceedKeeps
  <2> QED
    BY <1>2, <2>1, <2>2
<1> QED
  BY <1>1, <1>3, <1>4, Fewer DEF BridgesTypeOK

LEMMA BridgesNextInv ==
  ASSUME BridgesInv, [BridgesNext]_bridgeVars
  PROVE  BridgesInv'
<1>1. CASE UNCHANGED bridgeVars
  BY <1>1 DEF bridgeVars, BridgesInv, BridgesTypeOK, OneRunningBridge, OneStarting, NoneBesides,
              StartsItsOwn, Starting, Running, InState, To
<1>2. ASSUME NEW o \in Openers, OpenerStep(o) PROVE BridgesInv'
  <2>1. ASSUME NEW t \in Targets, AskOpen(o, t) PROVE BridgesInv'
    BY <2>1, AskOpenInv
  <2>2. ASSUME NEW b \in BridgeIds, NEW expires \in BOOLEAN, CreateContainer(o, b, expires)
        PROVE BridgesInv'
    BY <2>2, CreateInv
  <2>3. CASE StartContainer(o)
    BY <2>3, StartInv
  <2>4. CASE GiveUp(o)
    BY <2>4, RestKeeps, Fewer DEF GiveUp, BridgesInv, BridgesTypeOK
  <2>5. CASE Settle(o)
    BY <2>5, SettleInv
  <2>6. CASE Clear(o)
    BY <2>6, RestKeeps, BecomeKeeps, Fewer DEF Clear, BridgesInv, BridgesTypeOK
  <2>7. CASE CloseOne(o)
    BY <2>7, AskCloseInv DEF CloseOne, Listed, InState
  <2>8. CASE CloseAll(o)
    BY <2>8, AskCloseInv DEF CloseAll, Listed, InState
  <2>9. CASE Collect(o)
    BY <2>9, AskCloseInv DEF Collect, InState
  <2>10. CASE RemoveNext(o)
    BY <2>10, RemoveInv
  <2> QED
    BY <1>2, <2>1, <2>2, <2>3, <2>4, <2>5, <2>6, <2>7, <2>8, <2>9, <2>10 DEF OpenerStep
<1>3. ASSUME NEW b \in BridgeIds, Exits(b) PROVE BridgesInv'
  BY <1>3, BecomeKeeps, Fewer DEF Exits, BridgesInv, BridgesTypeOK
<1>4. ASSUME NEW t \in Targets, ServiceTurns(t) PROVE BridgesInv'
  BY <1>4, Fewer DEF ServiceTurns, BridgesInv, BridgesTypeOK
<1> QED
  BY <1>1, <1>2, <1>3, <1>4 DEF BridgesNext

\* Whatever is opened, closed and collected, containers and openers have the
\* shapes that core/access.ts and commands/access.ts work with.
THEOREM BridgesTypeInvariant == BridgesSpec => []BridgesTypeOK
<1>1. BridgesInv => BridgesTypeOK
  BY DEF BridgesInv
<1> QED
  BY BridgesInitInv, BridgesNextInv, <1>1, PTL DEF BridgesSpec

\* For any number of panels' requests, commands, services and bridges: a service
\* has one running bridge, unless an open looked while another was about to start.
THEOREM OneBridge == BridgesSpec => []OneRunningBridge
<1>1. BridgesInv => OneRunningBridge
  BY DEF BridgesInv
<1> QED
  BY BridgesInitInv, BridgesNextInv, <1>1, PTL DEF BridgesSpec

(***************************************************************************)
(* Settings                                                                *)
(***************************************************************************)

SaveTypeOK ==
  /\ envFile \in Text /\ stored \in Text
  /\ backup \in [Writers -> Text \cup {NoText}]
  /\ save \in [Writers -> Save]
  /\ careless \in BOOLEAN
  /\ saves \in Nat /\ asks \in Nat /\ upsets \in Nat

\* A write has a newer value for its key than any that was stored, and has not
\* succeeded before its text is in the file.
Newest ==
  /\ \A k \in Keys : stored[k] <= saves + 2
  /\ \A w \in Writers : Writing(w) =>
       /\ save[w].text[save[w].key] <= saves + 2
       /\ save[w].pc # "unlink" => ~save[w].ok

OneWriter == \A v, w \in Writers : (Writing(v) /\ Writing(w)) => v = w

Covers(text) == \A k \in Keys : text[k] >= stored[k]

HasCopy(w) == backup[w] # NoText /\ Covers(backup[w])

\* Where the file, the copy and the text stand at each step of a write.
WriteStands(w) ==
  /\ At(w, "copy") => Covers(envFile) /\ Covers(save[w].text)
  /\ At(w, "cut") =>
       Covers(envFile) /\ Covers(save[w].text) /\ (upsets = 0 => HasCopy(w))
  /\ At(w, "fill") =>
       envFile = Cut /\ Covers(save[w].text) /\ (upsets = 0 => HasCopy(w))
  /\ At(w, "restore") => upsets > 0 /\ HasCopy(w)
  /\ At(w, "unlink") =>
       Covers(envFile) /\ (save[w].ok => envFile[save[w].key] >= save[w].text[save[w].key])

AtRest ==
  (\A w \in Writers : ~Writing(w)) =>
    Covers(envFile) \/ (envFile = Cut /\ \E w \in Writers : HasCopy(w))

Stands == (~careless /\ upsets <= 1) => (OneWriter /\ AtRest /\ \A w \in Writers : WriteStands(w))

SettingsInv == SaveTypeOK /\ Newest /\ Stands

LEMMA NumbersAreText == \A n \in 0..MaxDeeds + 2 : All(n) \in Text
  BY DEF All, Text

LEMMA NoTextIsNoText == NoText \notin Text
<1>1. Text \subseteq [Keys -> Int]
  BY SettingsConstants DEF Text
<1> QED
  BY <1>1, SettingsConstants

LEMMA NoSaveIsSave == /\ NoSave \in Save
                      /\ \A w : NoSave.pc = "idle" /\ Over(w) \in Save
                                /\ Over(w).pc \in {"idle", "over"}
<1>1. (CHOOSE k \in Keys : TRUE) \in Keys
  BY SettingsConstants
<1>2. Cut \in Text
  BY NumbersAreText, SettingsConstants DEF Cut
<1>3. NoSave \in Save /\ NoSave.pc = "idle"
  BY <1>1, <1>2 DEF NoSave, Save
<1>4. ASSUME NEW w PROVE Over(w) \in Save /\ Over(w).pc \in {"idle", "over"}
  BY <1>3 DEF Over, Save
<1> QED
  BY <1>3, <1>4

LEMMA SettingsInitInv == SettingsInit => SettingsInv
<1> SUFFICES ASSUME SettingsInit PROVE SettingsInv
  OBVIOUS
<1>1. SaveTypeOK
  <2>1. All(2) \in Text
    BY NumbersAreText, SettingsConstants
  <2> QED
    BY <2>1, NoSaveIsSave DEF SettingsInit, SaveTypeOK
<1>2. \A w \in Writers : save[w].pc = "idle"
  BY NoSaveIsSave DEF SettingsInit
<1>3. \A k \in Keys : stored[k] = 2 /\ envFile[k] = 2
  BY DEF SettingsInit, All
<1>4. Newest
  BY <1>2, <1>3 DEF Newest, Writing, SettingsInit
<1>5. Covers(envFile)
  BY <1>3 DEF Covers
<1>6. Stands
  BY <1>2, <1>5 DEF Stands, OneWriter, AtRest, WriteStands, Writing, At
<1> QED
  BY <1>1, <1>4, <1>6 DEF SettingsInv

\* What happens to containers, to windows and to writers that do not write, and
\* what fails there, is no matter.
LEMMA Elsewhere ==
  ASSUME SettingsInv,
         UNCHANGED <<envFile, backup, saves, stored, careless>>,
         save' \in [Writers -> Save],
         \A w \in Writers : (Writing(w) \/ Writing(w)') => save'[w] = save[w],
         asks' \in Nat, upsets' \in Nat, upsets' >= upsets
  PROVE  SettingsInv'
<1>1. /\ envFile' = envFile /\ backup' = backup
      /\ saves' = saves /\ stored' = stored /\ careless' = careless
  OBVIOUS
<1>2. \A w \in Writers : /\ Writing(w)' <=> Writing(w)
                         /\ Writing(w) => save'[w] = save[w]
  BY DEF Writing
<1>3. SaveTypeOK'
  BY <1>1 DEF SettingsInv, SaveTypeOK
<1>4. Newest'
  BY <1>1, <1>2 DEF SettingsInv, Newest
<1>5. ASSUME ~careless', upsets' <= 1 PROVE OneWriter' /\ AtRest' /\ (\A w \in Writers : WriteStands(w)')
  <2>1. ~careless /\ upsets <= 1 /\ (upsets' = 0 => upsets = 0) /\ (upsets > 0 => upsets' > 0)
    BY <1>1, <1>5 DEF SettingsInv, SaveTypeOK
  <2>2. OneWriter /\ AtRest /\ \A w \in Writers : WriteStands(w)
    BY <2>1 DEF SettingsInv, Stands
  <2>3. OneWriter' /\ AtRest'
    BY <1>1, <1>2, <2>2 DEF OneWriter, AtRest, Covers, HasCopy
  <2>4. ASSUME NEW w \in Writers PROVE WriteStands(w)'
    <3>1. CASE Writing(w)
      BY <1>1, <1>2, <2>1, <2>2, <3>1 DEF WriteStands, At, Covers, HasCopy
    <3>2. CASE ~Writing(w)
      BY <1>2, <3>2 DEF WriteStands, At, Writing
    <3> QED
      BY <3>1, <3>2
  <2> QED
    BY <2>3, <2>4
<1> QED
  BY <1>3, <1>4, <1>5 DEF SettingsInv, Stands

\* The steps of a write: only one writer writes, and what it leaves behind is
\* enough for the others, which do not.
LEMMA WriterSteps ==
  ASSUME SettingsInv, SaveTypeOK', Newest', NEW w \in Writers,
         \A v \in Writers \ {w} : save'[v] = save[v],
         Writing(w),
         careless' = careless, upsets' >= upsets,
         (~careless /\ upsets' <= 1) =>
           /\ WriteStands(w)'
           /\ ~Writing(w)' => Covers(envFile)' \/ (envFile' = Cut /\ HasCopy(w)')
  PROVE  SettingsInv'
<1>1. ASSUME ~careless', upsets' <= 1 PROVE OneWriter' /\ AtRest' /\ (\A v \in Writers : WriteStands(v)')
  <2>1. ~careless /\ upsets <= 1
    BY <1>1 DEF SettingsInv, SaveTypeOK
  <2>2. OneWriter
    BY <2>1 DEF SettingsInv, Stands
  <2>3. \A v \in Writers \ {w} : ~Writing(v) /\ ~Writing(v)'
    BY <2>2 DEF OneWriter, Writing
  <2>4. OneWriter'
    BY <2>3 DEF OneWriter
  <2>5. AtRest'
    BY <1>1 DEF AtRest
  <2>6. \A v \in Writers \ {w} : WriteStands(v)'
    BY <2>3 DEF WriteStands, Writing, At
  <2> QED
    BY <1>1, <2>4, <2>5, <2>6
<1> QED
  BY <1>1 DEF SettingsInv, Stands

\* What the invariant says of a writer that writes.
LEMMA WriterKnows ==
  ASSUME SettingsInv, NEW w \in Writers, ~careless, upsets <= 1
  PROVE  WriteStands(w)
  BY DEF SettingsInv, Stands

\* A step that leaves the numbers, and every save but that of w, as they are.
LEMMA NewestKept ==
  ASSUME SettingsInv, NEW w \in Writers, saves' = saves, stored' = stored,
         \A v \in Writers \ {w} : save'[v] = save[v],
         Writing(w)' => /\ Writing(w)
                        /\ save'[w].key = save[w].key /\ save'[w].text = save[w].text
                        /\ save'[w].pc # "unlink" => (save[w].pc # "unlink" /\ save'[w].ok = save[w].ok)
  PROVE  Newest'
  BY DEF SettingsInv, Newest, Writing

\* A writer that goes on to the next step of its write.
LEMMA StepKeeps ==
  ASSUME SaveTypeOK, NEW w \in Writers, NEW pc \in {"cut", "fill", "restore", "unlink", "up"}, Step(w, pc)
  PROVE  /\ save' \in [Writers -> Save]
         /\ save'[w].pc = pc /\ save'[w].key = save[w].key
         /\ save'[w].text = save[w].text /\ save'[w].ok = save[w].ok
         /\ \A v \in Writers \ {w} : save'[v] = save[v]
<1> DEFINE new == [save[w] EXCEPT !.pc = pc]
<1>1. save[w] \in Save
  BY DEF SaveTypeOK
<1>2. /\ new \in Save /\ new.pc = pc /\ new.key = save[w].key
      /\ new.text = save[w].text /\ new.ok = save[w].ok
  BY <1>1 DEF Save
<1>3. save' = [save EXCEPT ![w] = new]
  BY DEF Step
<1> HIDE DEF new
<1> QED
  BY <1>2, <1>3 DEF SaveTypeOK

LEMMA CopyInv ==
  ASSUME SettingsInv, NEW w \in Writers, Copy(w)
  PROVE  SettingsInv'
<1> USE DEF SettingsInv
<1>1. /\ At(w, "copy") /\ Writing(w) /\ Step(w, "cut")
      /\ envFile' = envFile /\ saves' = saves /\ stored' = stored /\ careless' = careless
      /\ asks' = asks
  BY DEF Copy, At, Writing, applyVars
<1>2. \/ backup' = [backup EXCEPT ![w] = envFile] /\ upsets' = upsets
      \/ backup' = backup /\ upsets' = upsets + 1
  BY DEF Copy, Upset
<1>3. SaveTypeOK'
  BY <1>1, <1>2, StepKeeps DEF SaveTypeOK
<1>4. Newest'
  BY <1>1, StepKeeps, NewestKept DEF At, Writing
<1>5. upsets' >= upsets /\ (upsets' = 0 => backup'[w] = envFile)
  BY <1>2 DEF SaveTypeOK
<1>6. envFile # NoText
  BY NoTextIsNoText DEF SaveTypeOK
<1>7. ASSUME ~careless, upsets' <= 1 PROVE WriteStands(w)'
  <2>1. Covers(envFile) /\ Covers(save[w].text)
    BY <1>1, <1>3, <1>5, <1>7, WriterKnows DEF WriteStands, SaveTypeOK
  <2> QED
    BY <1>1, <1>5, <1>6, <2>1, StepKeeps DEF WriteStands, At, Covers, HasCopy
<1>8. Writing(w)'
  BY <1>1, StepKeeps DEF Writing
<1> QED
  BY <1>1, <1>3, <1>4, <1>5, <1>7, <1>8, StepKeeps, WriterSteps

LEMMA TruncateInv ==
  ASSUME SettingsInv, NEW w \in Writers, Truncate(w)
  PROVE  SettingsInv'
<1> USE DEF SettingsInv
<1>1. /\ At(w, "cut") /\ Writing(w) /\ Step(w, "fill")
      /\ envFile' = Cut /\ backup' = backup
      /\ saves' = saves /\ stored' = stored /\ careless' = careless
      /\ asks' = asks /\ upsets' = upsets
  BY DEF Truncate, At, Writing, applyVars
<1>2. Cut \in Text
  BY NumbersAreText, SettingsConstants DEF Cut
<1>3. SaveTypeOK'
  BY <1>1, <1>2, StepKeeps DEF SaveTypeOK
<1>4. Newest'
  BY <1>1, StepKeeps, NewestKept DEF At, Writing
<1>5. ASSUME ~careless, upsets' <= 1 PROVE WriteStands(w)'
  <2>1. Covers(save[w].text) /\ (upsets = 0 => HasCopy(w))
    BY <1>1, <1>5, WriterKnows DEF WriteStands
  <2> QED
    BY <1>1, <2>1, StepKeeps DEF WriteStands, At, Covers, HasCopy, Cut, All
<1>6. Writing(w)' /\ upsets' >= upsets
  BY <1>1, StepKeeps DEF Writing, SaveTypeOK
<1> QED
  BY <1>1, <1>3, <1>4, <1>5, <1>6, StepKeeps, WriterSteps

LEMMA FillInv ==
  ASSUME SettingsInv, NEW w \in Writers, Fill(w)
  PROVE  SettingsInv'
<1> USE DEF SettingsInv
<1>1. /\ At(w, "fill") /\ Writing(w)
      /\ backup' = backup /\ saves' = saves /\ stored' = stored /\ careless' = careless
      /\ asks' = asks
  BY DEF Fill, At, Writing, applyVars
<1>2. CASE /\ envFile' = save[w].text
           /\ save' = [save EXCEPT ![w].pc = "unlink", ![w].ok = TRUE]
           /\ upsets' = upsets
  <2> DEFINE new == [save[w] EXCEPT !.pc = "unlink", !.ok = TRUE]
  <2>1. save[w] \in Save
    BY DEF SaveTypeOK
  <2>2. /\ new \in Save /\ new.pc = "unlink" /\ new.ok
        /\ new.key = save[w].key /\ new.text = save[w].text
    BY <2>1 DEF Save
  <2>3. save' = [save EXCEPT ![w] = new]
    BY <1>2
  <2> HIDE DEF new
  <2>4. save'[w] = new /\ (\A v \in Writers \ {w} : save'[v] = save[v])
    BY <2>3 DEF SaveTypeOK
  <2>5. save[w].text \in Text /\ save[w].key \in Keys
    BY <2>1 DEF Save
  <2>6. SaveTypeOK'
    BY <1>1, <1>2, <2>2, <2>3, <2>5 DEF SaveTypeOK
  <2>7. Newest'
    BY <1>1, <2>2, <2>4, NewestKept
  <2>8. ASSUME ~careless, upsets' <= 1 PROVE WriteStands(w)'
    <3>1. Covers(save[w].text)
      BY <1>1, <1>2, <2>8, WriterKnows DEF WriteStands
    <3>2. save[w].text[save[w].key] >= save[w].text[save[w].key]
      BY <2>5 DEF Text
    <3> QED
      BY <1>1, <1>2, <2>2, <2>4, <3>1, <3>2 DEF WriteStands, At, Covers
  <2>9. Writing(w)' /\ upsets' >= upsets
    BY <1>2, <2>2, <2>4 DEF Writing, SaveTypeOK
  <2> QED
    BY <1>1, <2>4, <2>6, <2>7, <2>8, <2>9, WriterSteps
<1>3. CASE upsets' = upsets + 1 /\ Step(w, "restore") /\ envFile' = envFile
  <2>1. SaveTypeOK'
    BY <1>1, <1>3, StepKeeps DEF SaveTypeOK
  <2>2. Newest'
    BY <1>1, <1>3, StepKeeps, NewestKept DEF At, Writing
  <2>3. ASSUME ~careless, upsets' <= 1 PROVE WriteStands(w)'
    <3>1. upsets = 0 /\ upsets' > 0
      BY <1>3, <2>3 DEF SaveTypeOK
    <3>2. HasCopy(w)
      BY <1>1, <2>3, <3>1, WriterKnows DEF WriteStands
    <3> QED
      BY <1>1, <1>3, <3>1, <3>2, StepKeeps DEF WriteStands, At, Covers, HasCopy
  <2>4. Writing(w)' /\ upsets' >= upsets
    BY <1>3, StepKeeps DEF Writing, SaveTypeOK
  <2> QED
    BY <1>1, <1>3, <2>1, <2>2, <2>3, <2>4, StepKeeps, WriterSteps
<1> QED
  BY <1>2, <1>3 DEF Fill, Upset

LEMMA RestoreInv ==
  ASSUME SettingsInv, NEW w \in Writers, Restore(w)
  PROVE  SettingsInv'
<1> USE DEF SettingsInv
<1>1. /\ At(w, "restore") /\ Writing(w) /\ Step(w, "unlink")
      /\ backup' = backup /\ saves' = saves /\ stored' = stored /\ careless' = careless
      /\ asks' = asks
  BY DEF Restore, At, Writing, applyVars
<1>2. \/ /\ envFile' = IF backup[w] = NoText THEN envFile ELSE backup[w]
         /\ upsets' = upsets
      \/ envFile' = envFile /\ upsets' = upsets + 1
  BY DEF Restore, Upset
<1>3. SaveTypeOK'
  BY <1>1, <1>2, StepKeeps DEF SaveTypeOK
<1>4. Newest'
  <2>1. Newest
    OBVIOUS
  <2> QED
    BY <1>1, <2>1, StepKeeps DEF Newest, At, Writing
<1>5. upsets' >= upsets
  BY <1>2 DEF SaveTypeOK
<1>6. ASSUME ~careless, upsets' <= 1 PROVE WriteStands(w)'
  <2>1. upsets > 0 /\ HasCopy(w)
    BY <1>1, <1>3, <1>5, <1>6, WriterKnows DEF WriteStands, SaveTypeOK
  <2>2. envFile' = backup[w]
    BY <1>2, <1>6, <2>1 DEF HasCopy, SaveTypeOK
  <2>3. ~save[w].ok
    BY <1>1 DEF Newest, At
  <2> QED
    BY <1>1, <2>1, <2>2, <2>3, StepKeeps DEF WriteStands, At, Covers, HasCopy
<1>7. Writing(w)'
  BY <1>1, StepKeeps DEF Writing
<1> QED
  BY <1>1, <1>3, <1>4, <1>5, <1>6, <1>7, StepKeeps, WriterSteps

\* A write that is over, whatever became of it.
LEMMA OverKeeps ==
  ASSUME SaveTypeOK, NEW w \in Writers, save' = [save EXCEPT ![w] = Over(w)]
  PROVE  /\ save' \in [Writers -> Save]
         /\ save'[w].pc \in {"idle", "over"}
         /\ \A v \in Writers \ {w} : save'[v] = save[v]
<1>1. Over(w) \in Save /\ Over(w).pc \in {"idle", "over"}
  BY NoSaveIsSave
<1> QED
  BY <1>1 DEF SaveTypeOK

LEMMA UnlinkInv ==
  ASSUME SettingsInv, NEW w \in Writers, Unlink(w)
  PROVE  SettingsInv'
<1> USE DEF SettingsInv
<1> DEFINE key == save[w].key
           value == save[w].text[key]
<1>1. /\ At(w, "unlink") /\ Writing(w)
      /\ backup' = [backup EXCEPT ![w] = NoText]
      /\ stored' = IF save[w].ok THEN [stored EXCEPT ![key] = value] ELSE stored
      /\ envFile' = envFile /\ saves' = saves /\ careless' = careless
      /\ asks' = asks /\ upsets' = upsets
  BY DEF Unlink, At, Writing, applyVars
<1>2. /\ save' \in [Writers -> Save] /\ ~Writing(w)'
      /\ \A v \in Writers \ {w} : save'[v] = save[v]
  BY StepKeeps, OverKeeps DEF Unlink, Writing
<1>3. save[w].text \in Text /\ key \in Keys /\ value \in 0..MaxDeeds + 2
  BY DEF SaveTypeOK, Save, Text
<1>4. value <= saves + 2
  BY <1>1 DEF Newest
<1> HIDE DEF value, key
<1>5. stored' \in Text
  BY <1>1, <1>3 DEF SaveTypeOK, Text
<1>6. SaveTypeOK'
  BY <1>1, <1>2, <1>5 DEF SaveTypeOK
<1>7. \A k \in Keys : stored'[k] = (IF save[w].ok /\ k = key THEN value ELSE stored[k])
  BY <1>1, <1>3 DEF SaveTypeOK, Text
<1>8. Newest'
  <2>1. \A k \in Keys : stored'[k] <= saves' + 2
    BY <1>1, <1>4, <1>7 DEF Newest
  <2>2. \A v \in Writers : Writing(v)' => v # w /\ Writing(v) /\ save'[v] = save[v]
    BY <1>2 DEF Writing
  <2> QED
    BY <1>1, <2>1, <2>2 DEF Newest
<1>9. ASSUME ~careless, upsets' <= 1 PROVE WriteStands(w)' /\ Covers(envFile)'
  <2>1. Covers(envFile) /\ (save[w].ok => envFile[key] >= value)
    BY <1>1, <1>9, WriterKnows DEF WriteStands, key, value
  <2>2. Covers(envFile)'
    BY <1>1, <1>7, <2>1 DEF Covers
  <2> QED
    BY <1>2, <2>2 DEF WriteStands, At, Writing
<1>10. upsets' >= upsets
  BY <1>1 DEF SaveTypeOK
<1> QED
  BY <1>1, <1>2, <1>6, <1>8, <1>9, <1>10, WriterSteps

LEMMA AskSaveInv ==
  ASSUME SettingsInv, NEW w \in Writers, NEW k \in Keys, AskSave(w, k)
  PROVE  SettingsInv'
<1> USE DEF SettingsInv
<1> DEFINE text == [envFile EXCEPT ![k] = saves + 3]
           new  == [pc |-> "copy", key |-> k, ok |-> FALSE, text |-> text]
<1>1. /\ saves + asks < MaxDeeds /\ saves' = saves + 1
      /\ save' = [save EXCEPT ![w] = new]
      /\ careless' = (careless \/ envFile = Cut \/ \E v \in Writers : Writing(v))
      /\ envFile' = envFile /\ backup' = backup /\ stored' = stored
      /\ asks' = asks /\ upsets' = upsets
  BY DEF AskSave
<1>2. saves + 3 \in 0..MaxDeeds + 2
  BY <1>1, SettingsConstants DEF SaveTypeOK
<1>3. text \in Text /\ text[k] = saves + 3 /\ \A j \in Keys \ {k} : text[j] = envFile[j]
  BY <1>2 DEF SaveTypeOK, Text
<1> HIDE DEF text
<1>4. new \in Save /\ new.pc = "copy" /\ new.key = k /\ ~new.ok /\ new.text = text
  BY <1>3 DEF Save
<1> HIDE DEF new
<1>5. save'[w] = new /\ \A v \in Writers \ {w} : save'[v] = save[v]
  BY <1>1 DEF SaveTypeOK
<1>6. SaveTypeOK'
  BY <1>1, <1>4 DEF SaveTypeOK
<1>7. Newest'
  <2>1. \A j \in Keys : stored'[j] <= saves' + 2
    BY <1>1 DEF Newest, SaveTypeOK, Text
  <2>2. save'[w].text[save'[w].key] <= saves' + 2 /\ ~save'[w].ok
    BY <1>1, <1>3, <1>4, <1>5 DEF SaveTypeOK
  <2>3. ASSUME NEW v \in Writers \ {w}, Writing(v)'
        PROVE  /\ save'[v].text[save'[v].key] <= saves' + 2
               /\ save'[v].pc # "unlink" => ~save'[v].ok
    <3>1. Writing(v) /\ save'[v] = save[v]
      BY <1>5, <2>3 DEF Writing
    <3>2. save[v].text[save[v].key] \in Int
      BY DEF SaveTypeOK, Save, Text
    <3> QED
      BY <1>1, <3>1, <3>2 DEF Newest, SaveTypeOK
  <2> QED
    BY <2>1, <2>2, <2>3 DEF Newest
<1>8. ASSUME ~careless', upsets' <= 1 PROVE OneWriter' /\ AtRest' /\ (\A v \in Writers : WriteStands(v)')
  <2>1. ~careless /\ envFile # Cut /\ \A v \in Writers : ~Writing(v)
    BY <1>1, <1>8
  <2>2. Covers(envFile)
    BY <1>1, <1>8, <2>1 DEF Stands, AtRest
  <2>3. \A v \in Writers \ {w} : ~Writing(v)'
    BY <1>5, <2>1 DEF Writing
  <2>4. Writing(w)'
    BY <1>4, <1>5 DEF Writing
  <2>5. Covers(envFile)'
    BY <1>1, <2>2 DEF Covers
  <2>6. \A j \in Keys : text[j] >= stored'[j]
    BY <1>1, <1>3, <2>2 DEF Covers, Newest, SaveTypeOK, Text
  <2>7. WriteStands(w)'
    BY <1>4, <1>5, <2>5, <2>6 DEF WriteStands, At, Covers
  <2>8. \A v \in Writers \ {w} : WriteStands(v)'
    BY <2>3 DEF WriteStands, At, Writing
  <2> QED
    BY <2>3, <2>4, <2>7, <2>8 DEF OneWriter, AtRest
<1> QED
  BY <1>6, <1>7, <1>8 DEF Stands

LEMMA KilledInv ==
  ASSUME SettingsInv, NEW w \in Writers, Killed(w)
  PROVE  SettingsInv'
<1> USE DEF SettingsInv
<1>1. /\ save[w].pc \notin {"idle", "over"}
      /\ save' = [save EXCEPT ![w] = Over(w)]
      /\ envFile' = envFile /\ backup' = backup /\ saves' = saves /\ stored' = stored
      /\ careless' = careless /\ asks' = asks /\ upsets' = upsets + 1
  BY DEF Killed, Upset
<1>2. /\ save' \in [Writers -> Save] /\ ~Writing(w)' /\ ~At(w, "up")'
      /\ \A v \in Writers \ {w} : save'[v] = save[v]
  BY <1>1, OverKeeps DEF Writing, At
<1>3. upsets' \in Nat /\ upsets' >= upsets /\ upsets' > 0
  BY <1>1 DEF SaveTypeOK
<1>4. CASE ~Writing(w)
  <2>1. \A v \in Writers : (Writing(v) \/ Writing(v)') => save'[v] = save[v]
    BY <1>2, <1>4
  <2> QED
    BY <1>1, <1>2, <1>3, <2>1, Elsewhere DEF SaveTypeOK
<1>5. CASE Writing(w)
  <2>1. SaveTypeOK'
    BY <1>1, <1>2, <1>3 DEF SaveTypeOK
  <2>2. Newest'
    BY <1>1, <1>2, <1>5, NewestKept
  <2>3. ASSUME ~careless, upsets' <= 1
        PROVE  WriteStands(w)' /\ (Covers(envFile)' \/ (envFile' = Cut /\ HasCopy(w)'))
    <3>1. upsets = 0
      BY <1>1, <2>3 DEF SaveTypeOK
    <3>2. save[w].pc \in {"copy", "cut", "fill", "restore", "unlink"}
      BY <1>5 DEF Writing, SaveTypeOK, Save
    <3>3. Covers(envFile) \/ (envFile = Cut /\ HasCopy(w))
      BY <2>3, <3>1, <3>2, WriterKnows DEF WriteStands, At
    <3>4. Covers(envFile)' \/ (envFile' = Cut /\ HasCopy(w)')
      BY <1>1, <3>3 DEF Covers, HasCopy
    <3>5. WriteStands(w)'
      BY <1>2 DEF WriteStands, At, Writing
    <3> QED
      BY <3>4, <3>5
  <2> QED
    BY <1>1, <1>2, <1>3, <1>5, <2>1, <2>2, <2>3, WriterSteps
<1> QED
  BY <1>4, <1>5

LEMMA BeginUpInv ==
  ASSUME SettingsInv, NEW w \in Writers, BeginUp(w)
  PROVE  SettingsInv'
<1> USE DEF SettingsInv
<1>1. /\ At(w, "up") /\ save' = [save EXCEPT ![w] = Over(w)]
      /\ UNCHANGED <<envFile, backup, saves, stored, careless>>
      /\ asks' = asks /\ upsets' = upsets
  BY DEF BeginUp
<1>2. \A v \in Writers : (Writing(v) \/ Writing(v)') => save'[v] = save[v]
  BY <1>1, OverKeeps DEF Writing, At
<1>3. save' \in [Writers -> Save]
  BY <1>1, OverKeeps
<1>4. asks' \in Nat /\ upsets' \in Nat /\ upsets' >= upsets
  BY <1>1 DEF SaveTypeOK
<1> QED
  BY <1>1, <1>2, <1>3, <1>4, Elsewhere

\* Steps of containers and windows.
LEMMA NoSaveInv ==
  ASSUME SettingsInv, UNCHANGED saveVars, asks' \in {asks, asks + 1}, upsets' \in {upsets, upsets + 1}
  PROVE  SettingsInv'
<1> USE DEF SettingsInv
<1>1. UNCHANGED <<envFile, backup, saves, stored, careless>> /\ save' = save
  BY DEF saveVars
<1>2. asks' \in Nat /\ upsets' \in Nat /\ upsets' >= upsets
  BY DEF SaveTypeOK
<1> QED
  BY <1>1, <1>2, Elsewhere DEF SaveTypeOK

LEMMA SettingsNextInv ==
  ASSUME SettingsInv, [SettingsNext]_settingsVars
  PROVE  SettingsInv'
<1>1. CASE UNCHANGED settingsVars
  BY <1>1, NoSaveInv DEF settingsVars, saveVars
<1>2. ASSUME NEW w \in Writers, NEW k \in Keys, AskSave(w, k) PROVE SettingsInv'
  BY <1>2, AskSaveInv
<1>3. ASSUME NEW w \in Writers, Copy(w) \/ Truncate(w) \/ Fill(w) PROVE SettingsInv'
  BY <1>3, CopyInv, TruncateInv, FillInv
<1>4. ASSUME NEW w \in Writers, Restore(w) \/ Unlink(w) PROVE SettingsInv'
  BY <1>4, RestoreInv, UnlinkInv
<1>5. ASSUME NEW w \in Writers, BeginUp(w) \/ Killed(w) PROVE SettingsInv'
  BY <1>5, BeginUpInv, KilledInv
<1>6. ASSUME NEW u \in Ups, NEW c \in Parts, Recreate(u, c) PROVE SettingsInv'
  BY <1>6, NoSaveInv DEF Recreate
<1>7. ASSUME NEW u \in Ups, UpSucceeds(u) \/ UpFails(u) PROVE SettingsInv'
  BY <1>7, NoSaveInv DEF UpSucceeds, UpFails, Outcome, Upset
<1>8. CASE PanelReturns
  BY <1>8, NoSaveInv DEF PanelReturns
<1>9. ASSUME NEW v \in Windows, NEW wasPending \in BOOLEAN, Confirm(v, wasPending) PROVE SettingsInv'
  BY <1>9, NoSaveInv DEF Confirm
<1>10. ASSUME NEW v \in Windows,
              Start(v) \/ Answered(v) \/ Refused(v) \/ Unanswered(v) \/ Resume(v) \/ Look(v)
       PROVE  SettingsInv'
  BY <1>10, NoSaveInv DEF Start, Answered, Refused, Unanswered, Resume, Look
<1>11. ASSUME NEW v \in Windows, Judge(v) \/ NoPanel(v) \/ GivesUp(v) \/ Dismiss(v)
       PROVE  SettingsInv'
  BY <1>11, NoSaveInv DEF Judge, NoPanel, GivesUp, Dismiss
<1> QED
  BY <1>1, <1>2, <1>3, <1>4, <1>5, <1>6, <1>7, <1>8, <1>9, <1>10, <1>11 DEF SettingsNext

\* What the invariant is for.
LEMMA InvKeeps == SettingsInv => SavedIsKept
<1> SUFFICES ASSUME SettingsInv, ~careless, upsets <= 1, NEW k \in Keys
             PROVE  \/ envFile[k] >= stored[k]
                    \/ \E w \in Writers : backup[w] # NoText /\ backup[w][k] >= stored[k]
                    \/ \E w \in Writers : At(w, "fill") /\ save[w].text[k] >= stored[k]
  BY DEF SavedIsKept
<1>1. CASE \A w \in Writers : ~Writing(w)
  BY <1>1 DEF SettingsInv, Stands, AtRest, Covers, HasCopy
<1>2. ASSUME NEW w \in Writers, Writing(w)
      PROVE  \/ envFile[k] >= stored[k]
             \/ HasCopy(w)
             \/ At(w, "fill") /\ save[w].text[k] >= stored[k]
  <2>1. save[w].pc \in {"copy", "cut", "fill", "restore", "unlink"}
    BY <1>2 DEF Writing, SettingsInv, SaveTypeOK, Save
  <2>2. WriteStands(w)
    BY WriterKnows
  <2> QED
    BY <2>1, <2>2 DEF WriteStands, At, Covers
<1> QED
  BY <1>1, <1>2 DEF HasCopy, Covers

\* For any number of commands, keys, saves and windows: no single failure and no
\* process killed in the middle of a write costs a setting.
THEOREM SavedStays == SettingsSpec => []SavedIsKept
  BY SettingsInitInv, SettingsNextInv, InvKeeps, PTL DEF SettingsSpec

(***************************************************************************)
(* Settings: the dialog                                                    *)
(***************************************************************************)

\* As long as nobody saved and nobody ran `up` by hand since a dialog asked: the
\* file is as it was then, and an applier that was started since runs with it, has
\* failed, or has left the containers with it.
Watched(v) ==
  window[v].quiet =>
    /\ \A w \in Writers : save[w].pc \in {"idle", "over"}
    /\ \A u \in Ups \ {"applier"} : up[u] = NoText
    /\ envFile = window[v].asked
    /\ window[v].started =>
         \/ up["applier"] = window[v].asked
         \/ up["applier"] = NoText /\ (applied = "failed" \/ \A c \in Parts : created[c] = window[v].asked)

DialogInv == SettingsInv /\ SettingsTypeOK /\ \A v \in Windows : Watched(v)

\* What becomes of a dialog m when it does not ask, nor conclude.
Follows(m, n) ==
  /\ n \in Window
  /\ n.quiet => m.quiet /\ n.asked = m.asked /\ n.started = m.started
  /\ n.phase = "reconnected" => m.phase = "reconnected"

LEMMA NoDialogIs ==
  /\ NoDialog \in Window /\ ~NoDialog.quiet /\ NoDialog.phase = "idle" /\ ~NoDialog.started
  /\ \A wasPending \in BOOLEAN :
       LET n == [NoDialog EXCEPT !.phase = "waiting", !.wasPending = wasPending]
       IN  n \in Window /\ ~n.quiet /\ n.phase = "waiting"
<1>1. Cut \in Text
  BY NumbersAreText, SettingsConstants DEF Cut
<1> QED
  BY <1>1 DEF NoDialog, Window

LEMMA Following ==
  ASSUME NEW m \in Window
  PROVE  /\ Follows(m, m) /\ Follows(m, NoDialog)
         /\ \A wasPending \in BOOLEAN :
              Follows(m, [NoDialog EXCEPT !.phase = "waiting", !.wasPending = wasPending])
         /\ Follows(m, [m EXCEPT !.quiet = FALSE]) /\ Follows(m, [m EXCEPT !.seen = "cut off"])
         /\ Follows(m, [m EXCEPT !.phase = "applying"])
         /\ Follows(m, [m EXCEPT !.phase = "waiting", !.sawOffline = TRUE])
         /\ \A what \in {"pending", "settled"} : Follows(m, [m EXCEPT !.seen = what])
         /\ Follows(m, [m EXCEPT !.seen = "unknown", !.sawOffline = TRUE, !.phase = "waiting"])
         /\ \A phase \in {"login", "timeout"} : Follows(m, [m EXCEPT !.phase = phase, !.seen = "unknown"])
<1>1. Follows(m, m) /\ Follows(m, NoDialog)
  BY NoDialogIs DEF Follows
<1>2. ASSUME NEW wasPending \in BOOLEAN
      PROVE  Follows(m, [NoDialog EXCEPT !.phase = "waiting", !.wasPending = wasPending])
  BY NoDialogIs DEF Follows
<1>3. Follows(m, [m EXCEPT !.quiet = FALSE])
  BY DEF Follows, Window
<1>4. Follows(m, [m EXCEPT !.seen = "cut off"])
  BY DEF Follows, Window
<1>5. Follows(m, [m EXCEPT !.phase = "applying"])
  BY DEF Follows, Window
<1>6. Follows(m, [m EXCEPT !.phase = "waiting", !.sawOffline = TRUE])
  BY DEF Follows, Window
<1>7. ASSUME NEW what \in {"pending", "settled"} PROVE Follows(m, [m EXCEPT !.seen = what])
  BY DEF Follows, Window
<1>8. Follows(m, [m EXCEPT !.seen = "unknown", !.sawOffline = TRUE, !.phase = "waiting"])
  BY DEF Follows, Window
<1>9. ASSUME NEW phase \in {"login", "timeout"}
      PROVE  Follows(m, [m EXCEPT !.phase = phase, !.seen = "unknown"])
  BY DEF Follows, Window
<1> QED
  BY <1>1, <1>2, <1>3, <1>4, <1>5, <1>6, <1>7, <1>8, <1>9

AllFollow == window' \in [Windows -> Window] /\ \A x \in Windows : Follows(window[x], window'[x])

LEMMA EnterFollows ==
  ASSUME SettingsTypeOK, NEW v \in Windows, NEW n, Enter(v, n), Follows(window[v], n)
  PROVE  AllFollow
<1>1. \A x \in Windows : window[x] \in Window /\ Follows(window[x], window[x])
  BY Following DEF SettingsTypeOK
<1>2. window \in [Windows -> Window] /\ n \in Window
  BY DEF SettingsTypeOK, Follows
<1>3. window' = [window EXCEPT ![v] = n]
  BY DEF Enter
<1> HIDE DEF Follows
<1> QED
  BY <1>1, <1>2, <1>3 DEF AllFollow

LEMMA EachFollows ==
  ASSUME SettingsTypeOK
  PROVE  /\ window' = window => AllFollow
         /\ window' = Disquiet => AllFollow /\ \A v \in Windows : ~window'[v].quiet
         /\ window' = [v \in Windows |-> CutOff(v)] => AllFollow
<1>1. \A x \in Windows : window[x] \in Window
  BY DEF SettingsTypeOK
<1>2. ASSUME window' = window PROVE AllFollow
  BY <1>1, <1>2, Following DEF AllFollow, SettingsTypeOK
<1>3. ASSUME window' = Disquiet PROVE AllFollow /\ \A v \in Windows : ~window'[v].quiet
  <2>1. \A x \in Windows : window'[x] = [window[x] EXCEPT !.quiet = FALSE]
    BY <1>3 DEF Disquiet
  <2>2. \A x \in Windows : Follows(window[x], window'[x])
    BY <1>1, <2>1, Following
  <2>3. \A x \in Windows : ~window'[x].quiet /\ window'[x] \in Window
    BY <1>1, <2>1, <2>2 DEF Follows, Window
  <2>4. window' \in [Windows -> Window]
    BY <1>3, <2>3 DEF Disquiet
  <2> QED
    BY <2>2, <2>3, <2>4 DEF AllFollow
<1>4. ASSUME window' = [v \in Windows |-> CutOff(v)] PROVE AllFollow
  <2>1. \A x \in Windows : window'[x] = CutOff(x)
    BY <1>4
  <2>2. \A x \in Windows : Follows(window[x], window'[x])
    BY <1>1, <2>1, Following DEF CutOff
  <2>3. \A x \in Windows : window'[x] \in Window
    BY <2>2 DEF Follows
  <2>4. window' \in [Windows -> Window]
    BY <1>4, <2>3
  <2> QED
    BY <2>2, <2>4 DEF AllFollow
<1> QED
  BY <1>2, <1>3, <1>4

\* The steps of the dialogs but Confirm, Start and Judge.
LEMMA DialogsFollow ==
  ASSUME SettingsTypeOK, NEW v \in Windows,
         \/ Answered(v) \/ Refused(v) \/ Unanswered(v) \/ Resume(v) \/ Look(v)
         \/ NoPanel(v) \/ GivesUp(v) \/ Dismiss(v)
  PROVE  /\ AllFollow
         /\ UNCHANGED <<saveVars, created, panelServes, up, applied, asks, upsets>>
<1>0. window[v] \in Window
  BY DEF SettingsTypeOK
<1>1. CASE Answered(v)
  BY <1>0, <1>1, Following, EnterFollows DEF Answered
<1>2. CASE Refused(v)
  BY <1>0, <1>2, Following, EnterFollows DEF Refused
<1>3. CASE Unanswered(v)
  BY <1>0, <1>3, Following, EnterFollows DEF Unanswered
<1>4. CASE Resume(v)
  <2>1. IsPending \in BOOLEAN
    BY DEF IsPending
  <2> QED
    BY <1>0, <1>4, <2>1, Following, EnterFollows DEF Resume
<1>5. CASE Look(v)
  <2> DEFINE what == IF IsPending THEN "pending" ELSE "settled"
  <2>1. Enter(v, [window[v] EXCEPT !.seen = what]) /\ what \in {"pending", "settled"}
    BY <1>5 DEF Look
  <2> HIDE DEF what
  <2> QED
    BY <1>0, <1>5, <2>1, Following, EnterFollows DEF Look
<1>6. CASE NoPanel(v)
  BY <1>0, <1>6, Following, EnterFollows DEF NoPanel
<1>7. CASE GivesUp(v)
  BY <1>0, <1>7, Following, EnterFollows DEF GivesUp
<1>8. CASE Dismiss(v)
  BY <1>0, <1>8, Following, EnterFollows DEF Dismiss
<1> QED
  BY <1>1, <1>2, <1>3, <1>4, <1>5, <1>6, <1>7, <1>8

\* A dialog stays watched as the containers and the runs of `up` go on.
LEMMA WatchedKept ==
  ASSUME DialogInv, AllFollow,
         (\E x \in Windows : window'[x].quiet) =>
           /\ UNCHANGED <<envFile, save>>
           /\ \A u \in Ups \ {"applier"} : up'[u] = up[u]
           /\ \/ UNCHANGED <<created, applied>> /\ up'["applier"] = up["applier"]
              \/ up["applier"] # NoText /\ up'["applier"] = up["applier"]
              \/ up["applier"] # NoText /\ up'["applier"] = NoText /\ applied' = "failed"
              \/ /\ up'["applier"] = NoText /\ created' = created
                 /\ up["applier"] # NoText /\ \A c \in Parts : created[c] = up["applier"]
  PROVE  \A v \in Windows : Watched(v)'
<1> SUFFICES ASSUME NEW v \in Windows, window'[v].quiet PROVE Watched(v)'
  BY DEF Watched
<1>1. /\ window[v].quiet /\ window'[v].asked = window[v].asked
      /\ window'[v].started = window[v].started
  BY DEF AllFollow, Follows
<1>2. Watched(v) /\ window[v].asked # NoText
  BY NoTextIsNoText DEF DialogInv, SettingsTypeOK, Window
<1>3. \A w \in Writers : save'[w].pc \in {"idle", "over"}
  BY <1>1, <1>2 DEF Watched
<1>4. \A u \in Ups \ {"applier"} : up'[u] = NoText
  BY <1>1, <1>2 DEF Watched
<1>5. envFile' = window'[v].asked
  BY <1>1, <1>2 DEF Watched
<1>6. ASSUME window'[v].started
      PROVE  \/ up'["applier"] = window'[v].asked
             \/ up'["applier"] = NoText
                /\ (applied' = "failed" \/ \A c \in Parts : created'[c] = window'[v].asked)
  BY <1>1, <1>2, <1>6 DEF Watched
<1> QED
  BY <1>3, <1>4, <1>5, <1>6 DEF Watched

LEMMA DialogInit == SettingsInit => DialogInv
<1> SUFFICES ASSUME SettingsInit PROVE DialogInv
  OBVIOUS
<1>1. SettingsInv
  BY SettingsInitInv
<1>2. All(1) \in Text /\ All(2) \in Text
  BY NumbersAreText, SettingsConstants
<1>3. SettingsTypeOK
  <2>1. window \in [Windows -> Window]
    BY NoDialogIs DEF SettingsInit
  <2>2. created \in [Parts -> Text] /\ up \in [Ups -> Text \cup {NoText}]
    BY <1>2 DEF SettingsInit
  <2>3. /\ applied \in {"idle", "ok", "failed"} /\ panelServes \in BOOLEAN
        /\ saves \in Nat /\ asks \in Nat /\ saves + asks <= MaxDeeds /\ upsets \in 0..MaxUpsets
    BY SettingsConstants DEF SettingsInit
  <2> QED
    BY <1>1, <2>1, <2>2, <2>3 DEF SettingsTypeOK, SettingsInv, SaveTypeOK
<1>4. \A v \in Windows : Watched(v)
  BY NoDialogIs DEF SettingsInit, Watched
<1> QED
  BY <1>1, <1>3, <1>4 DEF DialogInv

\* No window is quiet beside a writer at work.
LEMMA NotQuiet ==
  ASSUME DialogInv, NEW w \in Writers, save[w].pc \notin {"idle", "over"}, window' = window
  PROVE  AllFollow /\ \A v \in Windows : ~window'[v].quiet
  BY EachFollows DEF DialogInv, Watched

\* Saving leaves no dialog quiet, and the rest typed.
LEMMA SavingKeeps ==
  ASSUME DialogInv, SettingsInv', NEW w \in Writers,
         \/ \E k \in Keys : AskSave(w, k)
         \/ Copy(w) \/ Truncate(w) \/ Fill(w) \/ Restore(w) \/ Unlink(w) \/ BeginUp(w) \/ Killed(w)
  PROVE  DialogInv'
<1>0. SettingsTypeOK /\ SaveTypeOK'
  BY DEF DialogInv, SettingsInv
<1>1. AllFollow /\ \A v \in Windows : ~window'[v].quiet
  <2>1. CASE \E k \in Keys : AskSave(w, k)
    BY <1>0, <2>1, EachFollows DEF AskSave
  <2>2. CASE ~\E k \in Keys : AskSave(w, k)
    <3>1. save[w].pc \notin {"idle", "over"} /\ window' = window
      BY <2>2 DEF Copy, Truncate, Fill, Restore, Unlink, BeginUp, Killed, At, applyVars
    <3> QED
      BY <3>1, NotQuiet
  <2> QED
    BY <2>1, <2>2
<1>2. \A v \in Windows : Watched(v)'
  BY <1>1 DEF Watched
<1>3. created' = created /\ applied' = applied
  BY DEF AskSave, Copy, Truncate, Fill, Restore, Unlink, BeginUp, Killed, applyVars
<1>4. panelServes' \in BOOLEAN
  BY <1>0 DEF AskSave, Copy, Truncate, Fill, Restore, Unlink, BeginUp, Killed, applyVars, SettingsTypeOK
<1>5. saves' \in Nat /\ asks' \in Nat /\ saves' + asks' <= MaxDeeds
  BY <1>0, SettingsConstants
     DEF AskSave, Copy, Truncate, Fill, Restore, Unlink, BeginUp, Killed, applyVars, SettingsTypeOK
<1>6. upsets' \in 0..MaxUpsets
  BY <1>0, SettingsConstants
     DEF AskSave, Copy, Truncate, Fill, Restore, Unlink, BeginUp, Killed, applyVars, Upset, SettingsTypeOK
<1>7. up' \in [Ups -> Text \cup {NoText}]
  <2>1. CASE BeginUp(w)
    <3> DEFINE text == [envFile EXCEPT ![save[w].key] = save[w].text[save[w].key]]
    <3>1. up' = [up EXCEPT ![w] = text]
      BY <2>1 DEF BeginUp
    <3>2. save[w] \in Save /\ envFile \in Text
      BY <1>0 DEF SettingsTypeOK
    <3>3. text \in Text
      BY <3>2 DEF Save, Text
    <3> HIDE DEF text
    <3> QED
      BY <1>0, <3>1, <3>3 DEF SettingsTypeOK
  <2>2. CASE ~BeginUp(w)
    <3>1. up' = up
      BY <2>2 DEF AskSave, Copy, Truncate, Fill, Restore, Unlink, Killed, applyVars
    <3> QED
      BY <1>0, <3>1 DEF SettingsTypeOK
  <2> QED
    BY <2>1, <2>2
<1>8. SettingsTypeOK'
  BY <1>0, <1>1, <1>3, <1>4, <1>5, <1>6, <1>7 DEF SettingsTypeOK, SaveTypeOK, AllFollow
<1> QED
  BY <1>2, <1>8 DEF DialogInv

\* Runs of `up`.
LEMMA RunsKeep ==
  ASSUME DialogInv, SettingsInv', NEW u \in Ups,
         (\E c \in Parts : Recreate(u, c)) \/ UpSucceeds(u) \/ UpFails(u)
  PROVE  DialogInv'
<1>0. SettingsTypeOK /\ UNCHANGED saveVars
  BY DEF DialogInv, Recreate, UpSucceeds, UpFails, Outcome
<1>1. AllFollow
  BY <1>0, EachFollows DEF Recreate, UpSucceeds, UpFails, Outcome
<1>2. ASSUME NEW x \in Windows, window'[x].quiet PROVE u = "applier"
  <2>1. Watched(x) /\ window[x].quiet
    BY <1>1, <1>2 DEF DialogInv, AllFollow, Follows
  <2> QED
    BY <2>1 DEF Watched, Recreate, UpSucceeds, UpFails
<1>3. up[u] # NoText /\ up \in [Ups -> Text \cup {NoText}]
  BY <1>0 DEF Recreate, UpSucceeds, UpFails, SettingsTypeOK
<1>4. \A v \in Windows : Watched(v)'
  <2>1. CASE \E c \in Parts : Recreate(u, c)
    BY <1>0, <1>1, <1>2, <1>3, <2>1, WatchedKept DEF Recreate, saveVars
  <2>2. CASE UpSucceeds(u)
    BY <1>0, <1>1, <1>2, <1>3, <2>2, WatchedKept DEF UpSucceeds, Outcome, saveVars
  <2>3. CASE UpFails(u)
    BY <1>0, <1>1, <1>2, <1>3, <2>3, WatchedKept DEF UpFails, Outcome, saveVars
  <2> QED
    BY <2>1, <2>2, <2>3
<1>5. created' \in [Parts -> Text] /\ panelServes' \in BOOLEAN
  <2>1. up[u] \in Text
    BY <1>3
  <2> QED
    BY <1>0, <2>1 DEF Recreate, UpSucceeds, UpFails, Outcome, SettingsTypeOK
<1>6. up' \in [Ups -> Text \cup {NoText}]
  BY <1>3 DEF Recreate, UpSucceeds, UpFails, Outcome
<1>7. applied' \in {"idle", "ok", "failed"}
  BY <1>0 DEF Recreate, UpSucceeds, UpFails, Outcome, SettingsTypeOK
<1>8. asks' = asks /\ upsets' \in 0..MaxUpsets
  BY <1>0, SettingsConstants DEF Recreate, UpSucceeds, UpFails, Outcome, Upset, SettingsTypeOK
<1>9. SettingsTypeOK'
  BY <1>0, <1>1, <1>5, <1>6, <1>7, <1>8 DEF SettingsTypeOK, saveVars, AllFollow
<1> QED
  BY <1>4, <1>9 DEF DialogInv

\* A dialog that asks, when nobody saves and nobody runs `up`.
LEMMA ConfirmKeeps ==
  ASSUME DialogInv, SettingsInv', NEW v \in Windows, NEW wasPending \in BOOLEAN, Confirm(v, wasPending)
  PROVE  DialogInv'
<1> DEFINE quiet == /\ \A w \in Writers : save[w].pc \in {"idle", "over"}
                    /\ \A u \in Ups \ {"applier"} : up[u] = NoText
           n == [NoDialog EXCEPT !.phase = "starting", !.wasPending = wasPending,
                   !.asked = envFile, !.quiet = quiet]
<1>0. SettingsTypeOK /\ envFile \in Text /\ window \in [Windows -> Window]
  BY DEF DialogInv, SettingsTypeOK
<1>1. window' = [window EXCEPT ![v] = n]
  BY DEF Confirm, Enter
<1>2. quiet \in BOOLEAN /\ (quiet => /\ \A w \in Writers : save[w].pc \in {"idle", "over"}
                                     /\ \A u \in Ups \ {"applier"} : up[u] = NoText)
  OBVIOUS
<1> HIDE DEF quiet
<1>3. n \in Window /\ n.quiet = quiet /\ n.asked = envFile /\ ~n.started
  BY <1>0, <1>2, NoDialogIs DEF NoDialog, Window
<1> HIDE DEF n
<1>4. UNCHANGED <<saveVars, created, panelServes, up, applied, upsets>>
  BY DEF Confirm
<1>5. ASSUME NEW x \in Windows PROVE Watched(x)'
  <2>1. CASE x = v
    <3>1. window'[x] = n
      BY <1>0, <1>1, <2>1
    <3> QED
      BY <1>2, <1>3, <1>4, <3>1 DEF Watched, saveVars
  <2>2. CASE x # v
    <3>1. window'[x] = window[x] /\ Watched(x)
      BY <1>0, <1>1, <2>2 DEF DialogInv
    <3> QED
      BY <1>4, <3>1 DEF Watched, saveVars
  <2> QED
    BY <2>1, <2>2
<1>6. asks' \in Nat /\ saves + asks' <= MaxDeeds
  BY <1>0, SettingsConstants DEF Confirm, SettingsTypeOK
<1>7. window' \in [Windows -> Window]
  BY <1>0, <1>1, <1>3
<1>8. SettingsTypeOK'
  BY <1>0, <1>4, <1>6, <1>7 DEF SettingsTypeOK, saveVars
<1> QED
  BY <1>5, <1>8 DEF DialogInv

\* The panel starts the applier.
LEMMA StartKeeps ==
  ASSUME DialogInv, SettingsInv', NEW v \in Windows, Start(v)
  PROVE  DialogInv'
<1>0. SettingsTypeOK /\ envFile \in Text /\ window \in [Windows -> Window]
      /\ up \in [Ups -> Text \cup {NoText}] /\ "applier" \in Ups
  BY DEF DialogInv, SettingsTypeOK, Ups
<1>1. /\ up' = [up EXCEPT !["applier"] = envFile]
      /\ window' = [x \in Windows |->
           [window[x] EXCEPT !.started = TRUE, !.phase = IF x = v THEN "sent" ELSE @]]
      /\ UNCHANGED <<saveVars, created, panelServes, applied, asks, upsets>>
  BY DEF Start
<1>2. ASSUME NEW x \in Windows
      PROVE  window'[x] \in Window /\ window'[x].quiet = window[x].quiet
             /\ window'[x].asked = window[x].asked
  <2> DEFINE m == window[x]
             phase == IF x = v THEN "sent" ELSE m.phase
  <2>1. m \in Window /\ phase \in {"idle", "starting", "sent", "applying", "waiting", "reconnected",
                                   "login", "failed", "timeout"}
    BY <1>0 DEF Window
  <2>2. window'[x] = [m EXCEPT !.started = TRUE, !.phase = phase]
    BY <1>1
  <2> HIDE DEF m, phase
  <2>3. window'[x] \in Window /\ window'[x].quiet = m.quiet /\ window'[x].asked = m.asked
    BY <2>1, <2>2 DEF Window
  <2> QED
    BY <2>3 DEF m
<1>3. \A x \in Windows : Watched(x) /\ up'["applier"] = envFile
        /\ \A u \in Ups \ {"applier"} : up'[u] = up[u]
  BY <1>0, <1>1 DEF DialogInv
<1>4. \A x \in Windows : Watched(x)'
  BY <1>1, <1>2, <1>3 DEF Watched, saveVars
<1>5. window' \in [Windows -> Window] /\ up' \in [Ups -> Text \cup {NoText}]
  BY <1>0, <1>1, <1>2
<1>6. SettingsTypeOK'
  BY <1>0, <1>1, <1>5 DEF SettingsTypeOK, saveVars
<1> QED
  BY <1>4, <1>6 DEF DialogInv

\* The dialog concludes, or goes on.
LEMMA JudgeIs ==
  ASSUME SettingsTypeOK, NEW v \in Windows, Judge(v)
  PROVE  /\ window' \in [Windows -> Window]
         /\ \A x \in Windows : /\ window'[x].quiet = window[x].quiet /\ window'[x].asked = window[x].asked
                               /\ window'[x].started = window[x].started
                               /\ x # v => window'[x] = window[x]
         /\ window'[v].phase = "reconnected" => ~ApplierRuns /\ applied # "failed"
         /\ UNCHANGED <<saveVars, created, panelServes, up, applied, asks, upsets>>
<1> DEFINE m == window[v]
           phase == IF ~ApplierRuns /\ applied = "failed" THEN "failed"
                    ELSE IF Settled(v) /\ Proved(v) THEN "reconnected"
                    ELSE IF m.sawOffline THEN "waiting" ELSE "applying"
           n == [m EXCEPT !.seen = "unknown", !.phase = phase]
<1>1. window' = [window EXCEPT ![v] = n]
  BY DEF Judge, Enter
<1>2. /\ phase \in {"failed", "reconnected", "waiting", "applying"}
      /\ phase = "reconnected" => ~ApplierRuns /\ applied # "failed"
  BY DEF Settled
<1>3. m \in Window /\ window \in [Windows -> Window]
  BY DEF SettingsTypeOK
<1> HIDE DEF m, phase
<1>4. /\ n \in Window /\ n.phase = phase /\ n.quiet = m.quiet /\ n.asked = m.asked
      /\ n.started = m.started
  BY <1>2, <1>3 DEF Window
<1> HIDE DEF n
<1>5. \A x \in Windows : window'[x] = IF x = v THEN n ELSE window[x]
  BY <1>1, <1>3
<1>6. window' \in [Windows -> Window]
  BY <1>1, <1>3, <1>4
<1> QED
  BY <1>2, <1>4, <1>5, <1>6 DEF Judge, m

LEMMA JudgeKeeps ==
  ASSUME DialogInv, SettingsInv', NEW v \in Windows, Judge(v)
  PROVE  DialogInv'
<1>0. SettingsTypeOK
  BY DEF DialogInv
<1>1. /\ window' \in [Windows -> Window]
      /\ \A x \in Windows : /\ window'[x].quiet = window[x].quiet /\ window'[x].asked = window[x].asked
                            /\ window'[x].started = window[x].started
      /\ UNCHANGED <<saveVars, created, panelServes, up, applied, asks, upsets>>
  BY <1>0, JudgeIs
<1>2. \A x \in Windows : Watched(x)'
  BY <1>1 DEF DialogInv, Watched, saveVars
<1>3. SettingsTypeOK'
  BY <1>0, <1>1 DEF SettingsTypeOK, saveVars
<1> QED
  BY <1>2, <1>3 DEF DialogInv

LEMMA DialogNext ==
  ASSUME DialogInv, [SettingsNext]_settingsVars
  PROVE  DialogInv'
<1>0. SettingsInv /\ SettingsInv' /\ SettingsTypeOK
  BY SettingsNextInv DEF DialogInv
<1>1. ASSUME AllFollow, UNCHANGED <<saveVars, created, up, applied, asks, upsets>>, panelServes' \in BOOLEAN
      PROVE  DialogInv'
  <2>1. \A v \in Windows : Watched(v)'
    BY <1>1, WatchedKept DEF saveVars
  <2>2. SettingsTypeOK'
    BY <1>0, <1>1 DEF SettingsTypeOK, saveVars, AllFollow
  <2> QED
    BY <1>0, <2>1, <2>2 DEF DialogInv
<1>2. CASE UNCHANGED settingsVars
  <2>1. AllFollow
    BY <1>0, <1>2, EachFollows DEF settingsVars
  <2> QED
    BY <1>0, <1>1, <1>2, <2>1 DEF settingsVars, saveVars, SettingsTypeOK
<1>3. ASSUME NEW w \in Writers,
             \/ \E k \in Keys : AskSave(w, k)
             \/ Copy(w) \/ Truncate(w) \/ Fill(w) \/ Restore(w) \/ Unlink(w) \/ BeginUp(w) \/ Killed(w)
      PROVE  DialogInv'
  BY <1>0, <1>3, SavingKeeps
<1>4. ASSUME NEW u \in Ups, (\E c \in Parts : Recreate(u, c)) \/ UpSucceeds(u) \/ UpFails(u)
      PROVE  DialogInv'
  BY <1>0, <1>4, RunsKeep
<1>5. CASE PanelReturns
  <2>1. AllFollow
    BY <1>0, <1>5, EachFollows DEF PanelReturns
  <2> QED
    BY <1>1, <1>5, <2>1 DEF PanelReturns
<1>6. ASSUME NEW v \in Windows, NEW wasPending \in BOOLEAN, Confirm(v, wasPending) PROVE DialogInv'
  BY <1>0, <1>6, ConfirmKeeps
<1>7. ASSUME NEW v \in Windows, Start(v) PROVE DialogInv'
  BY <1>0, <1>7, StartKeeps
<1>8. ASSUME NEW v \in Windows, Judge(v) PROVE DialogInv'
  BY <1>0, <1>8, JudgeKeeps
<1>9. ASSUME NEW v \in Windows,
             \/ Answered(v) \/ Refused(v) \/ Unanswered(v) \/ Resume(v) \/ Look(v)
             \/ NoPanel(v) \/ GivesUp(v) \/ Dismiss(v)
      PROVE  DialogInv'
  BY <1>0, <1>1, <1>9, DialogsFollow DEF SettingsTypeOK
<1> QED
  BY <1>2, <1>3, <1>4, <1>5, <1>6, <1>7, <1>8, <1>9 DEF SettingsNext

\* Only Judge says that the gateway is back.
LEMMA BackIsJudged ==
  ASSUME DialogInv, [SettingsNext]_settingsVars, NEW v \in Windows,
         window[v].phase # "reconnected", window'[v].phase = "reconnected",
         window[v].quiet, window[v].started, NEW c \in Parts
  PROVE  created[c] = window[v].asked
<1>0. SettingsTypeOK /\ window \in [Windows -> Window] /\ Watched(v)
  BY DEF DialogInv, SettingsTypeOK
<1>1. ~AllFollow
  BY DEF AllFollow, Follows
<1>2. window' # window /\ window' # Disquiet /\ window' # [x \in Windows |-> CutOff(x)]
  BY <1>0, <1>1, EachFollows
<1>3. ASSUME NEW x \in Windows, NEW wasPending \in BOOLEAN, Confirm(x, wasPending) PROVE FALSE
  <2> DEFINE quiet == /\ \A w \in Writers : save[w].pc \in {"idle", "over"}
                      /\ \A u \in Ups \ {"applier"} : up[u] = NoText
             n == [NoDialog EXCEPT !.phase = "starting", !.wasPending = wasPending,
                     !.asked = envFile, !.quiet = quiet]
  <2>1. window' = [window EXCEPT ![x] = n]
    BY <1>3 DEF Confirm, Enter
  <2> HIDE DEF quiet
  <2>2. n.phase = "starting"
    BY DEF NoDialog
  <2> HIDE DEF n
  <2> QED
    BY <1>0, <2>1, <2>2
<1>4. ASSUME NEW x \in Windows, Start(x) PROVE FALSE
  <2> DEFINE m == window[v]
             phase == IF v = x THEN "sent" ELSE m.phase
  <2>1. window'[v] = [m EXCEPT !.started = TRUE, !.phase = phase]
    BY <1>4 DEF Start
  <2>2. m \in Window /\ phase # "reconnected"
    BY <1>0
  <2> HIDE DEF m, phase
  <2>3. window'[v].phase = phase
    BY <2>1, <2>2 DEF Window
  <2> QED
    BY <2>2, <2>3
<1>5. ASSUME NEW x \in Windows, Judge(x) PROVE created[c] = window[v].asked
  <2>1. x = v
    BY <1>0, <1>5, JudgeIs
  <2>2. ~ApplierRuns /\ applied # "failed"
    BY <1>0, <1>5, <2>1, JudgeIs
  <2>3. up["applier"] = NoText /\ window[v].asked # NoText
    BY <1>0, <2>2, NoTextIsNoText DEF ApplierRuns, Window
  <2> QED
    BY <1>0, <2>2, <2>3 DEF Watched
<1>6. ASSUME NEW x \in Windows,
             \/ Answered(x) \/ Refused(x) \/ Unanswered(x) \/ Resume(x) \/ Look(x)
             \/ NoPanel(x) \/ GivesUp(x) \/ Dismiss(x)
      PROVE  FALSE
  BY <1>0, <1>1, <1>6, DialogsFollow
<1>7. ASSUME NEW w \in Writers,
             \/ \E k \in Keys : AskSave(w, k)
             \/ Copy(w) \/ Truncate(w) \/ Fill(w) \/ Restore(w) \/ Unlink(w) \/ BeginUp(w) \/ Killed(w)
      PROVE  FALSE
  BY <1>2, <1>7 DEF AskSave, Copy, Truncate, Fill, Restore, Unlink, BeginUp, Killed, applyVars
<1>8. ASSUME NEW u \in Ups, (\E x \in Parts : Recreate(u, x)) \/ UpSucceeds(u) \/ UpFails(u)
      PROVE  FALSE
  BY <1>2, <1>8 DEF Recreate, UpSucceeds, UpFails, Outcome
<1>9. CASE PanelReturns
  BY <1>2, <1>9 DEF PanelReturns
<1>10. CASE UNCHANGED settingsVars
  BY <1>2, <1>10 DEF settingsVars
<1> QED
  BY <1>3, <1>4, <1>5, <1>6, <1>7, <1>8, <1>9, <1>10 DEF SettingsNext

\* The file, the writers, the runs of `up` and the dialogs have the shapes the model
\* declares.
THEOREM SettingsTypeCorrect == SettingsSpec => []SettingsTypeOK
<1>1. DialogInv => SettingsTypeOK
  BY DEF DialogInv
<1>2. DialogInv /\ [SettingsNext]_settingsVars => DialogInv'
  BY DialogNext
<1> QED
  BY <1>1, <1>2, DialogInit, PTL DEF SettingsSpec

\* A dialog that says the gateway is back tells the truth: unless somebody saved or
\* ran `up` by hand since it asked, or the applier was not started, panel and Traefik
\* run with what was saved then, though the panel it asked was away meanwhile
\* (useApply's probes).
THEOREM BackMeansIt == SettingsSpec => BackMeansApplied
<1>1. DialogInv /\ [SettingsNext]_settingsVars => DialogInv'
  BY DialogNext
<1>2. DialogInv /\ [SettingsNext]_settingsVars =>
        [\A v \in Windows :
           (/\ window[v].phase # "reconnected" /\ window'[v].phase = "reconnected"
            /\ window[v].quiet /\ window[v].started)
             => \A c \in Parts : created[c] = window[v].asked]_settingsVars
  BY BackIsJudged
<1> QED
  BY <1>1, <1>2, DialogInit, PTL DEF SettingsSpec, BackMeansApplied

(***************************************************************************)
(* Actions: the order of a project's services                              *)
(***************************************************************************)

ServicesOf(members) == {c[1] : c \in members}

InServices(members, S) == {c \in members : c[1] \in S}

Ready(S, verb) == {s \in S : Before(s, verb) \cap S = {}}

FirstReady(S, verb) == CHOOSE s \in Ready(S, verb) : \A t \in Ready(S, verb) : s <= t

\* The order of the services of each set.
From(members, verb) ==
  CHOOSE f : f = [S \in SUBSET Services |->
    IF Ready(S, verb) = {}
      THEN InOrder(InServices(members, S))
      ELSE <<Representative(FirstReady(S, verb), verb, members)>> \o f[S \ {FirstReady(S, verb)}]]

LEMMA OrderedIs ==
  ASSUME NEW members, NEW verb
  PROVE  Ordered(members, verb) = From(members, verb)[ServicesOf(members)]
BY DEF Ordered, From, FirstReady, Ready, InServices, ServicesOf

LEMMA ContainersFinite ==
  /\ Containers \subseteq Services \X Nat
  /\ \A members \in SUBSET Containers : IsFiniteSet(members) /\ ServicesOf(members) \subseteq Services
<1>1. Cardinality(Services) \in Nat
  BY ActionConstants, FS_CardinalityType
<1>2. Containers \subseteq Services \X Nat
  BY <1>1 DEF Containers
<1> DEFINE all == Services \X (1..Cardinality(Services) + 1)
<1>3. IsFiniteSet(all)
  <2>1. IsFiniteSet(1..Cardinality(Services) + 1)
    BY <1>1, FS_Interval
  <2> QED
    BY <2>1, ActionConstants, FS_Product
<1>4. Containers \in SUBSET all
  BY DEF Containers
<1> HIDE DEF all
<1>5. IsFiniteSet(Containers)
  BY <1>3, <1>4, FS_Subset
<1>6. \A members \in SUBSET Containers : IsFiniteSet(members)
  BY <1>5, FS_Subset
<1>7. \A members \in SUBSET Containers : ServicesOf(members) \subseteq Services
  BY <1>2 DEF ServicesOf
<1> QED
  BY <1>2, <1>6, <1>7

LEMMA FirstReadyIs ==
  ASSUME NEW S \in SUBSET Services, NEW verb, Ready(S, verb) # {}
  PROVE  FirstReady(S, verb) \in Ready(S, verb)
<1> DEFINE T == Ready(S, verb)
           f == [s \in T |-> -s]
<1>1. T \in SUBSET Services /\ \A s \in T : s \in Int
  BY ActionConstants DEF Ready
<1>2. IsFiniteSet(T)
  BY <1>1, ActionConstants, FS_Subset
<1>3. \A s \in T : f[s] = -s /\ f[s] \in Int
  BY <1>1
<1>4. \E s \in T : \A t \in T : f[t] <= f[s]
  <2> HIDE DEF f, T
  <2> QED
    BY <1>2, <1>3, FiniteMaximum DEF T
<1>5. \E s \in T : \A t \in T : s <= t
  BY <1>1, <1>3, <1>4
<1> QED
  BY <1>5 DEF FirstReady

LEMMA RepresentativeIs ==
  ASSUME NEW members \in SUBSET Containers, NEW s \in ServicesOf(members), NEW verb
  PROVE  Representative(s, verb, members) \in InServices(members, {s})
<1> DEFINE S == {c \in members : c[1] = s}
           first == Before(s, verb) \cap {m[1] : m \in members} = {}
           f == [c \in S |-> IF first THEN -c[2] ELSE c[2]]
<1>1. S # {} /\ S \in SUBSET members
  BY DEF ServicesOf
<1>2. IsFiniteSet(S)
  BY <1>1, ContainersFinite, FS_Subset
<1>3. \A c \in S : c[2] \in Nat /\ c = <<s, c[2]>>
  BY <1>1, ContainersFinite
<1> HIDE DEF first
<1>4. \A c \in S : f[c] = (IF first THEN -c[2] ELSE c[2]) /\ f[c] \in Int
  BY <1>3
<1>5. \E c \in S : \A d \in S : f[d] <= f[c]
  <2> HIDE DEF f, S
  <2> QED
    BY <1>1, <1>2, <1>4, FiniteMaximum
<1>6. \E c \in S : \A d \in S \ {c} : IF first THEN c[2] < d[2] ELSE c[2] > d[2]
  <2>1. PICK c \in S : \A d \in S : f[d] <= f[c]
    BY <1>5
  <2>2. ASSUME NEW d \in S \ {c} PROVE IF first THEN c[2] < d[2] ELSE c[2] > d[2]
    <3>1. c[2] # d[2] /\ c[2] \in Nat /\ d[2] \in Nat /\ f[d] <= f[c]
      BY <1>3, <2>1
    <3> QED
      BY <1>4, <3>1
  <2> QED
    BY <2>2
<1>7. Representative(s, verb, members) \in S
  BY <1>6 DEF Representative, first
<1> QED
  BY <1>7 DEF InServices

LEMMA InOrderIs ==
  ASSUME NEW S \in SUBSET Containers
  PROVE  /\ InOrder(S) \in Seq(S)
         /\ \A c \in S : \E i \in DOMAIN InOrder(S) : InOrder(S)[i] = c
<1> DEFINE R == {e \in S \X S : Earlier(e[1], e[2])}
           n == Cardinality(S)
<1>1. IsFiniteSet(S) /\ n \in Nat
  BY ContainersFinite, FS_CardinalityType
<1>2. \A c \in S : c[1] \in Int /\ c[2] \in Nat /\ c = <<c[1], c[2]>>
  <2>1. S \subseteq Services \X Nat
    BY ContainersFinite
  <2>2. Services \subseteq Int
    BY ActionConstants
  <2> SUFFICES ASSUME NEW c \in S PROVE c[1] \in Int /\ c[2] \in Nat /\ c = <<c[1], c[2]>>
    OBVIOUS
  <2>3. PICK s \in Services, k \in Nat : c = <<s, k>>
    BY <2>1
  <2> QED
    BY <2>2, <2>3
<1>3. \A x, y \in S : <<x, y>> \in R <=> Earlier(x, y)
  OBVIOUS
<1>4. \A x, y \in S : x # y => <<x, y>> \in R \/ <<y, x>> \in R
  BY <1>2, <1>3 DEF Earlier
<1>5. \A x, y, z \in S : <<x, y>> \in R /\ <<y, z>> \in R => <<x, z>> \in R
  <2> SUFFICES ASSUME NEW x \in S, NEW y \in S, NEW z \in S, Earlier(x, y), Earlier(y, z)
               PROVE  Earlier(x, z)
    BY <1>3
  <2>1. /\ x[1] \in Int /\ y[1] \in Int /\ z[1] \in Int
        /\ x[2] \in Nat /\ y[2] \in Nat /\ z[2] \in Nat
    BY <1>2
  <2> QED
    BY <2>1 DEF Earlier
<1> HIDE DEF R
<1>6. \E q \in [1..n -> S] : \A i, j \in DOMAIN q : i < j => Earlier(q[i], q[j])
  <2>1. PICK q \in [1..n -> S] : \A i, j \in DOMAIN q : i < j => <<q[i], q[j]>> \in R
    BY <1>1, <1>4, <1>5, Sortable
  <2> QED
    BY <1>3, <2>1
<1> DEFINE p == InOrder(S)
<1>7. p \in [1..n -> S] /\ \A i, j \in DOMAIN p : i < j => Earlier(p[i], p[j])
  BY <1>6 DEF InOrder
<1> HIDE DEF p
<1>8. \A i, j \in 1..n : i < j => p[i] # p[j]
  <2>1. \A x \in S : ~Earlier(x, x)
    BY <1>2 DEF Earlier
  <2> QED
    BY <1>7, <2>1
<1>9. \A c \in S : \E i \in 1..n : p[i] = c
  BY <1>1, <1>7, <1>8, SortedHasAll
<1>10. p \in Seq(S) /\ DOMAIN p = 1..n
  <2> HIDE DEF n
  <2> QED
    BY <1>1, <1>7
<1> QED
  BY <1>9, <1>10 DEF p

\* The recursion ends: each step leaves one service fewer.
LEMMA RestEnds ==
  ASSUME NEW verb
  PROVE  Ends(SUBSET Services, [T \in SUBSET Services |-> Cardinality(T)], Cardinality(Services),
              {T \in SUBSET Services : Ready(T, verb) = {}},
              [T \in SUBSET Services |-> T \ {FirstReady(T, verb)}])
<1>1. \A T \in SUBSET Services : /\ Cardinality(T) \in Nat /\ Cardinality(T) <= Cardinality(Services)
                                 /\ IsFiniteSet(T)
  BY ActionConstants, FS_Subset, FS_CardinalityType
<1>2. ASSUME NEW T \in SUBSET Services, Ready(T, verb) # {}
      PROVE  Cardinality(T \ {FirstReady(T, verb)}) < Cardinality(T)
  <2>1. FirstReady(T, verb) \in T
    BY <1>2, FirstReadyIs DEF Ready
  <2>2. Cardinality(T \ {FirstReady(T, verb)}) = Cardinality(T) - 1
    BY <1>1, <2>1, FS_RemoveElement
  <2> QED
    BY <1>1, <2>2
<1> DEFINE D == SUBSET Services
           done == {T \in D : Ready(T, verb) = {}}
           prev == [T \in D |-> T \ {FirstReady(T, verb)}]
           level == [T \in D |-> Cardinality(T)]
<1>3. Cardinality(Services) \in Nat
  BY ActionConstants, FS_CardinalityType
<1>4. level \in [D -> 0..Cardinality(Services)]
  BY <1>1, <1>3
<1>5. prev \in [D -> D]
  OBVIOUS
<1>6. ASSUME NEW T \in D, T \notin done PROVE level[prev[T]] < level[T]
  <2>1. prev[T] = T \ {FirstReady(T, verb)} /\ prev[T] \in D
    OBVIOUS
  <2> QED
    BY <1>2, <1>6, <2>1
<1> QED
  BY <1>3, <1>4, <1>5, <1>6 DEF Ends

LEMMA FromIs ==
  ASSUME NEW members \in SUBSET Containers, NEW verb, NEW S \in SUBSET Services
  PROVE  From(members, verb)[S] =
           IF Ready(S, verb) = {}
             THEN InOrder(InServices(members, S))
             ELSE <<Representative(FirstReady(S, verb), verb, members)>>
                  \o From(members, verb)[S \ {FirstReady(S, verb)}]
<1> DEFINE D == SUBSET Services
           E == Containers \cup {Representative(s, verb, members) : s \in Services}
           V == Seq(E)
           level == [T \in D |-> Cardinality(T)]
           done == {T \in D : Ready(T, verb) = {}}
           base == [T \in D |-> InOrder(InServices(members, T))]
           rest(T) == T \ {FirstReady(T, verb)}
           prev == [T \in D |-> rest(T)]
           head(T) == Representative(FirstReady(T, verb), verb, members)
           join(T, v) == IF T \in done THEN <<>> ELSE <<head(T)>> \o v
           step == [x \in D \X V |-> join(x[1], x[2])]
<1>2. base \in [D -> V]
  <2> SUFFICES ASSUME NEW T \in D PROVE InOrder(InServices(members, T)) \in Seq(E)
    OBVIOUS
  <2>1. InServices(members, T) \in SUBSET Containers
    BY DEF InServices
  <2>2. InOrder(InServices(members, T)) \in Seq(InServices(members, T))
    BY <2>1, InOrderIs
  <2>3. InServices(members, T) \subseteq E
    BY <2>1
  <2> HIDE DEF E
  <2> QED
    BY <2>2, <2>3
<1>4. step \in [D \X V -> V]
  <2> SUFFICES ASSUME NEW T \in D, NEW v \in V PROVE join(T, v) \in V
    OBVIOUS
  <2>1. CASE T \in done
    BY <2>1
  <2>2. CASE T \notin done
    <3>1. FirstReady(T, verb) \in Services
      BY <2>2, FirstReadyIs DEF Ready
    <3>2. head(T) \in E
      BY <3>1
    <3> HIDE DEF head, E, done
    <3> QED
      BY <2>2, <3>2
  <2> QED
    BY <2>1, <2>2
<1>6. \E f \in [D -> V] :
        \A T \in D : f[T] = IF T \in done THEN base[T] ELSE step[<<T, f[prev[T]]>>]
  <2> DEFINE top == Cardinality(Services)
  <2>1. Ends(D, level, top, done, prev)
    BY RestEnds
  <2> HIDE DEF D, V, level, done, base, prev, step, top
  <2>2. HasValues(D, V, base, step)
    BY <1>2, <1>4 DEF HasValues
  <2> QED
    BY <2>1, <2>2, Recursion
<1>7. PICK f \in [D -> V] :
        \A T \in D : f[T] = IF T \in done THEN base[T] ELSE step[<<T, f[prev[T]]>>]
  BY <1>6
<1>8. ASSUME NEW T \in D
      PROVE  (IF T \in done THEN base[T] ELSE step[<<T, f[prev[T]]>>])
               = IF Ready(T, verb) = {} THEN InOrder(InServices(members, T))
                 ELSE <<head(T)>> \o f[rest(T)]
  <2>1. CASE T \in done
    BY <2>1
  <2>2. CASE T \notin done
    <3>1. f[rest(T)] \in V /\ <<T, f[rest(T)]>> \in D \X V
      BY <1>7
    <3>2. step[<<T, f[prev[T]]>>] = join(T, f[rest(T)])
      BY <3>1
    <3> QED
      BY <2>2, <3>2
  <2> QED
    BY <2>1, <2>2
<1>9. f = [T \in D |-> IF Ready(T, verb) = {} THEN InOrder(InServices(members, T))
                       ELSE <<head(T)>> \o f[rest(T)]]
  <2> HIDE DEF done, base, step, prev, head, rest
  <2> QED
    BY <1>7, <1>8
<1>10. \E g : g = [T \in D |-> IF Ready(T, verb) = {} THEN InOrder(InServices(members, T))
                               ELSE <<head(T)>> \o g[rest(T)]]
  <2> HIDE DEF head, rest
  <2> QED
    BY <1>9
<1> DEFINE g == From(members, verb)
<1>11. g = [T \in D |-> IF Ready(T, verb) = {} THEN InOrder(InServices(members, T))
                        ELSE <<head(T)>> \o g[rest(T)]]
  BY <1>10 DEF From
<1> HIDE DEF g
<1> QED
  BY <1>11 DEF g

\* What holds of the sets with no service ready, and of a set when it holds of what
\* is left without its first, holds of every set.
LEMMA OneByOne ==
  ASSUME NEW verb, NEW Good, Good \subseteq SUBSET Services,
         \A S \in SUBSET Services : Ready(S, verb) = {} => S \in Good,
         \A S \in SUBSET Services :
           Ready(S, verb) # {} /\ S \ {FirstReady(S, verb)} \in Good => S \in Good
  PROVE  \A S \in SUBSET Services : S \in Good
<1> DEFINE D == SUBSET Services
           done == {T \in D : Ready(T, verb) = {}}
           prev == [T \in D |-> T \ {FirstReady(T, verb)}]
           level == [T \in D |-> Cardinality(T)]
           top == Cardinality(Services)
<1>1. Ends(D, level, top, done, prev)
  BY RestEnds
<1>2. /\ \A S \in D : S \in done => S \in Good
      /\ \A S \in D : S \notin done /\ prev[S] \in Good => S \in Good
      /\ Good \subseteq D
  OBVIOUS
<1> HIDE DEF D, done, prev, level, top
<1>3. \A S \in D : S \in Good
  BY <1>1, <1>2, RecursionKeeps
<1> QED
  BY <1>3 DEF D

LEMMA HeadOf ==
  ASSUME NEW q, NEW S, q \in Seq(S), q # <<>>
  PROVE  /\ Head(q) \in S /\ Head(q) = q[1] /\ 1 \in DOMAIN q
         /\ Tail(q) \in Seq(S)
         /\ Len(q) \in Nat /\ Len(Tail(q)) = Len(q) - 1 /\ DOMAIN q = 1..Len(q)
         /\ \A i \in DOMAIN Tail(q) : i + 1 \in DOMAIN q /\ Tail(q)[i] = q[i + 1] /\ i \in Nat \ {0}
         /\ \A i \in DOMAIN q : i # 1 => i - 1 \in DOMAIN Tail(q) /\ Tail(q)[i - 1] = q[i]
  OBVIOUS

LEMMA Joined ==
  ASSUME NEW S, NEW h \in S, NEW q \in Seq(S)
  PROVE  /\ <<h>> \o q \in Seq(S)
         /\ DOMAIN (<<h>> \o q) = 1..Len(q) + 1 /\ Len(q) \in Nat /\ DOMAIN q = 1..Len(q)
         /\ (<<h>> \o q)[1] = h
         /\ \A i \in 1..Len(q) : (<<h>> \o q)[i + 1] = q[i]
         /\ \A i \in 1..Len(q) + 1 : i # 1 => i - 1 \in 1..Len(q) /\ (<<h>> \o q)[i] = q[i - 1]
  OBVIOUS

\* The order is one of the containers there are.
LEMMA OrderedType ==
  ASSUME NEW members \in SUBSET Containers, NEW verb
  PROVE  Ordered(members, verb) \in Seq(members)
<1> DEFINE F(S) == From(members, verb)[S]
           services == ServicesOf(members)
           Good == {S \in SUBSET Services : S \subseteq services => F(S) \in Seq(members)}
<1>1. services \in SUBSET Services
  BY ContainersFinite
<1>2. ASSUME NEW S \in SUBSET Services, Ready(S, verb) = {} PROVE S \in Good
  <2>1. InServices(members, S) \in SUBSET Containers /\ InServices(members, S) \subseteq members
    BY DEF InServices
  <2>2. F(S) = InOrder(InServices(members, S))
    BY <1>2, FromIs
  <2>3. InOrder(InServices(members, S)) \in Seq(InServices(members, S))
    BY <2>1, InOrderIs
  <2>4. F(S) \in Seq(members)
    <3> HIDE DEF F
    <3> QED
      BY <2>1, <2>2, <2>3
  <2> QED
    BY <2>4
<1>3. ASSUME NEW S \in SUBSET Services, Ready(S, verb) # {}, S \ {FirstReady(S, verb)} \in Good
      PROVE  S \in Good
  <2> SUFFICES ASSUME S \subseteq services PROVE F(S) \in Seq(members)
    OBVIOUS
  <2> DEFINE next == FirstReady(S, verb)
             head == Representative(next, verb, members)
  <2>1. next \in S
    BY <1>3, FirstReadyIs DEF Ready
  <2>2. head \in members
    BY <2>1, RepresentativeIs DEF InServices
  <2>3. F(S) = <<head>> \o F(S \ {next})
    BY <1>3, FromIs
  <2>4. F(S \ {next}) \in Seq(members)
    BY <1>3
  <2> HIDE DEF F, head, next
  <2> QED
    BY <2>2, <2>3, <2>4, Joined
<1> HIDE DEF Good
<1>4. Good \subseteq SUBSET Services
  BY DEF Good
<1>5. services \in Good
  BY <1>1, <1>2, <1>3, <1>4, OneByOne
<1>6. F(services) \in Seq(members)
  BY <1>5 DEF Good
<1> QED
  BY <1>6, OrderedIs

\* Of services whose dependencies have no cycle, some wait for none of the others.
LEMMA SomeReady ==
  ASSUME NEW S \in SUBSET Services, S # {}, NEW verb, Acyclic, needs \subseteq Services \X Services
  PROVE  Ready(S, verb) # {}
<1>1. PICK rank \in [Services -> 1..Cardinality(Services)] :
        \A edge \in needs : rank[edge[2]] < rank[edge[1]]
  BY DEF Acyclic
<1>2. Cardinality(Services) \in Nat /\ IsFiniteSet(S)
  BY ActionConstants, FS_CardinalityType, FS_Subset
<1>3. \A s \in Services : rank[s] \in Int
  BY <1>1, <1>2
<1>4. \A s, d \in Services : <<s, d>> \in needs => rank[d] < rank[s]
  BY <1>1
<1> DEFINE f == [s \in S |-> IF verb = "start" THEN -rank[s] ELSE rank[s]]
<1>5. \A s \in S : f[s] = (IF verb = "start" THEN -rank[s] ELSE rank[s]) /\ f[s] \in Int
  BY <1>3
<1>6. PICK s \in S : \A t \in S : f[t] <= f[s]
  <2> HIDE DEF f
  <2> QED
    BY <1>2, <1>5, FiniteMaximum
<1>7. ASSUME NEW d \in Before(s, verb), d \in S PROVE FALSE
  <2>0. d \in Services /\ s \in Services /\ rank[d] \in Int /\ rank[s] \in Int /\ f[d] <= f[s]
    BY <1>3, <1>6, <1>7
  <2>1. CASE verb = "start"
    <3>1. rank[d] < rank[s]
      BY <1>4, <1>7, <2>0, <2>1 DEF Before
    <3>2. -rank[d] <= -rank[s]
      BY <1>5, <1>7, <2>0, <2>1
    <3> QED
      BY <2>0, <3>1, <3>2
  <2>2. CASE verb # "start"
    <3>1. rank[s] < rank[d]
      BY <1>4, <1>7, <2>0, <2>2 DEF Before
    <3>2. rank[d] <= rank[s]
      BY <1>5, <1>7, <2>0, <2>2
    <3> QED
      BY <2>0, <3>1, <3>2
  <2> QED
    BY <2>1, <2>2
<1> QED
  BY <1>7 DEF Ready

OneEach(members) == \A c, d \in members : c[1] = d[1] => c = d

\* No container is left out when each service has one.
LEMMA OrderedAll ==
  ASSUME NEW members \in SUBSET Containers, NEW verb, OneEach(members)
  PROVE  \A c \in members : \E i \in DOMAIN Ordered(members, verb) : Ordered(members, verb)[i] = c
<1> DEFINE F(S) == From(members, verb)[S]
           Lists(S) == \A c \in InServices(members, S) : \E i \in DOMAIN F(S) : F(S)[i] = c
           services == ServicesOf(members)
           Good == {S \in SUBSET Services : S \subseteq services => F(S) \in Seq(members) /\ Lists(S)}
<1>1. services \in SUBSET Services
  BY ContainersFinite
<1>2. ASSUME NEW S \in SUBSET Services, Ready(S, verb) = {} PROVE S \in Good
  <2>1. InServices(members, S) \in SUBSET Containers /\ InServices(members, S) \subseteq members
    BY DEF InServices
  <2>2. F(S) = InOrder(InServices(members, S))
    BY <1>2, FromIs
  <2>3. /\ InOrder(InServices(members, S)) \in Seq(InServices(members, S))
        /\ \A c \in InServices(members, S) :
             \E i \in DOMAIN InOrder(InServices(members, S)) : InOrder(InServices(members, S))[i] = c
    BY <2>1, InOrderIs
  <2>4. F(S) \in Seq(members) /\ Lists(S)
    <3> HIDE DEF F
    <3> QED
      BY <2>1, <2>2, <2>3
  <2> QED
    BY <2>4
<1>3. ASSUME NEW S \in SUBSET Services, Ready(S, verb) # {}, S \ {FirstReady(S, verb)} \in Good
      PROVE  S \in Good
  <2> SUFFICES ASSUME S \subseteq services PROVE F(S) \in Seq(members) /\ Lists(S)
    OBVIOUS
  <2> DEFINE next == FirstReady(S, verb)
             head == Representative(next, verb, members)
             rest == F(S \ {next})
  <2>1. next \in S
    BY <1>3, FirstReadyIs DEF Ready
  <2>2. head \in members /\ head[1] = next
    BY <2>1, RepresentativeIs DEF InServices
  <2>3. F(S) = <<head>> \o rest
    BY <1>3, FromIs
  <2>4. rest \in Seq(members) /\ Lists(S \ {next})
    BY <1>3
  <2>5. ASSUME NEW c \in InServices(members, S) PROVE \E i \in DOMAIN F(S) : F(S)[i] = c
    <3>1. CASE c[1] = next
      <4>1. c = head
        BY <2>2, <2>5, <3>1 DEF OneEach, InServices
      <4> HIDE DEF F, head, next, rest
      <4>2. 1 \in DOMAIN F(S) /\ F(S)[1] = head
        BY <2>2, <2>3, <2>4, Joined
      <4> QED
        BY <4>1, <4>2
    <3>2. CASE c[1] # next
      <4>1. c \in InServices(members, S \ {next})
        BY <2>5, <3>2 DEF InServices
      <4>2. PICK i \in DOMAIN rest : rest[i] = c
        BY <2>4, <4>1
      <4> HIDE DEF F, head, next, rest
      <4>3. i + 1 \in DOMAIN F(S) /\ F(S)[i + 1] = c
        BY <2>2, <2>3, <2>4, <4>2, Joined
      <4> QED
        BY <4>3
    <3> QED
      BY <3>1, <3>2
  <2> HIDE DEF F, head, next, rest
  <2>6. F(S) \in Seq(members)
    BY <2>2, <2>3, <2>4, Joined
  <2> QED
    BY <2>5, <2>6
<1> HIDE DEF Good
<1>4. Good \subseteq SUBSET Services
  BY DEF Good
<1>5. services \in Good
  BY <1>1, <1>2, <1>3, <1>4, OneByOne
<1>6. Lists(services) /\ InServices(members, services) = members
  BY <1>5 DEF Good, InServices, ServicesOf
<1> QED
  BY <1>6, OrderedIs

\* Each comes after the containers of the services that must come before its own.
LEMMA OrderedAfter ==
  ASSUME NEW members \in SUBSET Containers, NEW verb, OneEach(members),
         Acyclic, needs \subseteq Services \X Services
  PROVE  \A i \in DOMAIN Ordered(members, verb) : \A d \in members :
           d[1] \in Before(Ordered(members, verb)[i][1], verb) =>
             \E j \in DOMAIN Ordered(members, verb) : j < i /\ Ordered(members, verb)[j] = d
<1> DEFINE F(S) == From(members, verb)[S]
           After(S) == \A i \in DOMAIN F(S) : \A d \in InServices(members, S) :
                         d[1] \in Before(F(S)[i][1], verb) => \E j \in DOMAIN F(S) : j < i /\ F(S)[j] = d
           services == ServicesOf(members)
           Good == {S \in SUBSET Services : S \subseteq services => F(S) \in Seq(members) /\ After(S)}
<1>1. services \in SUBSET Services
  BY ContainersFinite
<1>2. ASSUME NEW S \in SUBSET Services, Ready(S, verb) = {} PROVE S \in Good
  <2>0. S = {}
    BY <1>2, SomeReady
  <2>1. InServices(members, S) \in SUBSET Containers /\ InServices(members, S) = {}
    BY <2>0 DEF InServices
  <2>2. F(S) = InOrder(InServices(members, S))
    BY <1>2, FromIs
  <2>3. InOrder(InServices(members, S)) \in Seq(InServices(members, S))
    BY <2>1, InOrderIs
  <2>4. F(S) \in Seq(members) /\ After(S)
    <3> HIDE DEF F
    <3> QED
      BY <2>1, <2>2, <2>3
  <2> QED
    BY <2>4
<1>3. ASSUME NEW S \in SUBSET Services, Ready(S, verb) # {}, S \ {FirstReady(S, verb)} \in Good
      PROVE  S \in Good
  <2> SUFFICES ASSUME S \subseteq services PROVE F(S) \in Seq(members) /\ After(S)
    OBVIOUS
  <2> DEFINE next == FirstReady(S, verb)
             head == Representative(next, verb, members)
             rest == F(S \ {next})
  <2>1. next \in S /\ Before(next, verb) \cap S = {}
    BY <1>3, FirstReadyIs DEF Ready
  <2>2. head \in members /\ head[1] = next
    BY <2>1, RepresentativeIs DEF InServices
  <2>3. F(S) = <<head>> \o rest
    BY <1>3, FromIs
  <2>4. rest \in Seq(members) /\ After(S \ {next})
    BY <1>3
  <2>5. ASSUME NEW i \in DOMAIN F(S), NEW d \in InServices(members, S),
               d[1] \in Before(F(S)[i][1], verb)
        PROVE  \E j \in DOMAIN F(S) : j < i /\ F(S)[j] = d
    <3>1. i # 1
      <4>1. ASSUME i = 1 PROVE F(S)[i] = head
        <5> HIDE DEF F, head, next, rest
        <5> QED
          BY <2>2, <2>3, <2>4, <4>1, Joined
      <4>2. d[1] \in S
        BY <2>5 DEF InServices
      <4> QED
        BY <2>1, <2>2, <2>5, <4>1, <4>2
    <3>2. /\ i - 1 \in DOMAIN rest /\ F(S)[i] = rest[i - 1] /\ i \in Nat /\ i > 1
          /\ 1 \in DOMAIN F(S) /\ F(S)[1] = head
          /\ \A j \in DOMAIN rest : j + 1 \in DOMAIN F(S) /\ F(S)[j + 1] = rest[j] /\ j \in Nat
      <4> HIDE DEF F, head, next, rest
      <4> QED
        BY <2>2, <2>3, <2>4, <2>5, <3>1, Joined
    <3>3. CASE d[1] = next
      <4>1. d = head
        BY <2>2, <2>5, <3>3 DEF OneEach, InServices
      <4> QED
        BY <3>2, <4>1
    <3>4. CASE d[1] # next
      <4>1. d \in InServices(members, S \ {next})
        BY <2>5, <3>4 DEF InServices
      <4>2. d[1] \in Before(rest[i - 1][1], verb)
        BY <2>5, <3>2
      <4> HIDE DEF F, head, next, rest
      <4>3. PICK j \in DOMAIN rest : j < i - 1 /\ rest[j] = d
        BY <2>4, <3>2, <4>1, <4>2 DEF rest
      <4> QED
        BY <3>2, <4>3
    <3> QED
      BY <3>3, <3>4
  <2> HIDE DEF F, head, next, rest
  <2>6. F(S) \in Seq(members)
    BY <2>2, <2>3, <2>4, Joined
  <2> QED
    BY <2>5, <2>6
<1> HIDE DEF Good
<1>4. Good \subseteq SUBSET Services
  BY DEF Good
<1>5. services \in Good
  BY <1>1, <1>2, <1>3, <1>4, OneByOne
<1>6. After(services) /\ InServices(members, services) = members
  BY <1>5 DEF Good, InServices, ServicesOf
<1> QED
  BY <1>6, OrderedIs

(***************************************************************************)
(* Actions: the steps                                                      *)
(***************************************************************************)

LEMMA CallsAre ==
  ASSUME NEW members \in SUBSET Containers, NEW verb \in {"start", "stop"}
  PROVE  /\ Calls(members, verb) \in Seq(Call)
         /\ DOMAIN Calls(members, verb) = DOMAIN Ordered(members, verb)
         /\ \A i \in DOMAIN Calls(members, verb) :
              /\ Calls(members, verb)[i].verb = verb
              /\ Calls(members, verb)[i].on = Ordered(members, verb)[i]
              /\ Calls(members, verb)[i].on \in members
<1> DEFINE order == Ordered(members, verb)
           q == [i \in DOMAIN order |-> [verb |-> verb, on |-> order[i]]]
<1>1. order \in Seq(members)
  BY OrderedType
<1>2. Calls(members, verb) = q
  BY DEF Calls
<1>3. \A i \in DOMAIN order : order[i] \in members
  <2> HIDE DEF order
  <2> QED
    BY <1>1
<1>4. \A i \in DOMAIN order : [verb |-> verb, on |-> order[i]] \in Call
  BY <1>3 DEF Call, Verbs
<1>5. q \in Seq(Call)
  <2>1. DOMAIN order = 1..Len(order) /\ Len(order) \in Nat
    <3> HIDE DEF order
    <3> QED
      BY <1>1
  <2>2. q \in [1..Len(order) -> Call]
    <3> HIDE DEF order
    <3> QED
      BY <1>4, <2>1
  <2> HIDE DEF q, order
  <2> QED
    BY <2>1, <2>2
<1> QED
  BY <1>2, <1>3, <1>5

\* The calls of an action on a project.
Stops(members, verb)  == IF verb = "start" THEN <<>> ELSE Calls(members, "stop")
Starts(members, verb) == IF verb = "stop" THEN <<>> ELSE Calls(members, "start")

LEMMA StopsAndStarts ==
  ASSUME NEW members \in SUBSET Containers, NEW verb
  PROVE  LET p == Stops(members, verb)
             q == Starts(members, verb)
         IN  /\ p \in Seq(Call) /\ q \in Seq(Call)
             /\ \A i \in DOMAIN p : p[i].verb = "stop" /\ p[i].on \in members
             /\ \A i \in DOMAIN q : q[i].verb = "start" /\ q[i].on \in members
<1>1. <<>> \in Seq(Call) /\ DOMAIN <<>> = {}
  OBVIOUS
<1> QED
  BY <1>1, CallsAre DEF Stops, Starts

LEMMA Both ==
  ASSUME NEW S, NEW p \in Seq(S), NEW q \in Seq(S)
  PROVE  /\ p \o q \in Seq(S) /\ Len(p) \in Nat /\ Len(q) \in Nat
         /\ DOMAIN p = 1..Len(p) /\ DOMAIN q = 1..Len(q) /\ DOMAIN (p \o q) = 1..Len(p) + Len(q)
         /\ \A i \in 1..Len(p) : (p \o q)[i] = p[i]
         /\ \A i \in 1..Len(q) : (p \o q)[Len(p) + i] = q[i]
         /\ \A i \in 1..Len(p) + Len(q) : i > Len(p) =>
              i - Len(p) \in 1..Len(q) /\ (p \o q)[i] = q[i - Len(p)]
  OBVIOUS

LEMMA NoActIsAct == /\ NoAct \in Act
                    /\ NoAct.pc = "idle" /\ NoAct.verb = "start" /\ NoAct.members = {}
                    /\ NoAct.left = <<>> /\ NoAct.results = {} /\ NoAct.force = FALSE
  BY DEF NoAct, Act, States, Verbs

LEMMA ActorsType ==
  ASSUME ActionsTypeOK, NEW a \in Actors
  PROVE  /\ act[a] \in Act
         /\ act[a].members \in SUBSET Containers /\ act[a].known \in [Containers -> States]
         /\ act[a].left \in Seq(Call) /\ act[a].results \in SUBSET Result
         /\ act[a].force \in BOOLEAN /\ act[a].calm \in BOOLEAN
  BY DEF ActionsTypeOK, Act

\* What an actor asks for.
Asked(m) ==
  /\ m \in Act
  /\ m.known = container
  /\ m.pc = "one" \/ (m.pc = "project" /\ m.members = Present /\ m.verb \in Verbs
                      /\ m.left = Stops(Present, m.verb) \o Starts(Present, m.verb))
  /\ m.pc = "one" => /\ Len(m.left) = 1
                     /\ m.left[1].verb = "remove" =>
                          m.verb = "remove" /\ (container[m.left[1].on] = "running" => m.force)
  /\ m.calm => Supplied /\ Acyclic /\ Busy = {}

LEMMA AskIs ==
  ASSUME ActionsTypeOK, NEW a \in Actors, NEW new \in Act, Ask(a, new),
         new.pc = "one" \/ (new.pc = "project" /\ new.members = Present /\ new.verb \in Verbs
                            /\ new.left = Stops(Present, new.verb) \o Starts(Present, new.verb)),
         new.pc = "one" => /\ Len(new.left) = 1
                           /\ new.left[1].verb = "remove" =>
                                new.verb = "remove" /\ (container[new.left[1].on] = "running" => new.force)
  PROVE  \E m : Asked(m) /\ Disturb(a, m) /\ actions' = actions + 1 /\ actions < MaxActions
                /\ UNCHANGED <<needs, container, meddling>>
<1> DEFINE calm == Supplied /\ Acyclic /\ Busy = {}
           m == [new EXCEPT !.known = container, !.calm = calm]
<1>1. Disturb(a, m)
  BY DEF Ask
<1>2. container \in [Containers -> States] /\ calm \in BOOLEAN
  BY DEF ActionsTypeOK
<1> HIDE DEF calm
<1>3. m \in Act
  BY <1>2 DEF Act
<1>4. /\ m.known = container /\ m.calm = calm /\ m.pc = new.pc /\ m.members = new.members
      /\ m.verb = new.verb /\ m.left = new.left /\ m.force = new.force
  BY DEF Act
<1> HIDE DEF m
<1>5. Asked(m)
  BY <1>3, <1>4 DEF Asked, calm
<1> QED
  BY <1>1, <1>5 DEF Ask

\* What an actor asks for, seen from the three requests.
LEMMA AsksAre ==
  ASSUME ActionsTypeOK, NEW a \in Actors, NEW verb \in Verbs, NEW c \in Containers, NEW force \in BOOLEAN,
         AskProject(a, verb) \/ AskOne(a, verb, c) \/ AskRemoval(a, c, force)
  PROVE  \E m : Asked(m) /\ Disturb(a, m) /\ actions' = actions + 1 /\ actions < MaxActions
                /\ UNCHANGED <<needs, container, meddling>>
<1>0. Present \in SUBSET Containers
  BY DEF Present
<1>1. CASE AskProject(a, verb)
  <2> DEFINE plan == (IF verb = "start" THEN <<>> ELSE Calls(Present, "stop"))
                     \o (IF verb = "stop" THEN <<>> ELSE Calls(Present, "start"))
             new == [NoAct EXCEPT !.pc = "project", !.verb = verb, !.members = Present, !.left = plan]
  <2>1. plan = Stops(Present, verb) \o Starts(Present, verb) /\ plan \in Seq(Call)
    BY <1>0, StopsAndStarts, Both DEF Stops, Starts
  <2>2. Ask(a, new)
    BY <1>1 DEF AskProject
  <2> HIDE DEF plan
  <2>3. /\ new.pc = "project" /\ new.verb = verb /\ new.members = Present /\ new.left = plan
    BY DEF NoAct
  <2>4. new \in Act
    BY <1>0, <2>1, NoActIsAct DEF Act
  <2> HIDE DEF new
  <2> QED
    BY <2>1, <2>2, <2>3, <2>4, AskIs
<1>2. CASE AskOne(a, verb, c)
  <2> DEFINE call == [verb |-> verb, on |-> c]
             new == [NoAct EXCEPT !.pc = "one", !.verb = verb, !.left = <<call>>]
  <2>1. Ask(a, new)
    BY <1>2 DEF AskOne
  <2>2. call \in Call /\ call.verb # "remove"
    BY DEF Call, Verbs
  <2> HIDE DEF call
  <2>3. new.pc = "one" /\ new.left = <<call>>
    BY DEF NoAct
  <2>4. new \in Act
    <3>1. <<call>> \in Seq(Call) /\ verb \in Verbs \cup {"remove"}
      BY <2>2
    <3> QED
      BY <3>1, NoActIsAct DEF Act
  <2> HIDE DEF new
  <2>5. Len(new.left) = 1 /\ new.left[1].verb # "remove"
    BY <2>2, <2>3
  <2> QED
    BY <2>1, <2>3, <2>4, <2>5, AskIs
<1>3. CASE AskRemoval(a, c, force)
  <2> DEFINE call == [verb |-> "remove", on |-> c]
             new == [NoAct EXCEPT !.pc = "one", !.verb = "remove", !.force = force, !.left = <<call>>]
  <2>1. Ask(a, new) /\ (container[c] = "running" => force)
    BY <1>3 DEF AskRemoval
  <2>2. call \in Call /\ call.on = c
    BY DEF Call
  <2> HIDE DEF call
  <2>3. new.pc = "one" /\ new.left = <<call>> /\ new.verb = "remove" /\ new.force = force
    BY DEF NoAct
  <2>4. new \in Act
    <3>1. <<call>> \in Seq(Call) /\ verb \in Verbs \cup {"remove"}
      BY <2>2
    <3> QED
      BY <3>1, NoActIsAct DEF Act
  <2> HIDE DEF new
  <2>5. Len(new.left) = 1 /\ new.left[1].on = c
    BY <2>2, <2>3
  <2> QED
    BY <2>1, <2>3, <2>4, <2>5, AskIs
<1> QED
  BY <1>1, <1>2, <1>3

\* m after its first call.
Next1(m, n, became) ==
  LET call == Head(m.left)
  IN  /\ n \in Act
      /\ n.pc = m.pc /\ n.verb = m.verb /\ n.members = m.members /\ n.force = m.force
      /\ n.left = Tail(m.left)
      /\ n.results = m.results \cup {[call |-> call, became |-> became]}
      /\ \A c \in Containers : n.known[c] = IF c = call.on /\ became = "done" THEN Where(call.verb)
                                                                              ELSE m.known[c]
      /\ n.calm = (m.calm /\ became # "failed")

LEMMA WhereIs == /\ \A verb \in Verbs \cup {"remove"} : Where(verb) \in States
                 /\ Where("start") = "running" /\ Where("stop") = "exited" /\ Where("remove") = "gone"
                 /\ Where("restart") = "running"
  BY DEF Where, States, Verbs

LEMMA ReportIs ==
  ASSUME ActionsTypeOK, NEW a \in Actors, Pending(a), NEW became \in {"done", "skipped", "failed"}
  PROVE  Next1(act[a], Report(a, became), became)
<1> DEFINE m == act[a]
           call == Head(m.left)
           result == [call |-> call, became |-> became]
           known == [m.known EXCEPT ![call.on] = IF became = "done" THEN Where(call.verb) ELSE @]
           calm == m.calm /\ became # "failed"
           n == [m EXCEPT !.left = Tail(m.left), !.results = m.results \cup {result},
                          !.known = known, !.calm = calm]
<1>1. call \in Call /\ Tail(m.left) \in Seq(Call)
  BY ActorsType, HeadOf DEF Pending
<1>2. call.on \in Containers /\ call.verb \in Verbs \cup {"remove"}
  BY <1>1 DEF Call
<1>3. Report(a, became) = n
  BY DEF Report
<1>4. result \in Result
  BY <1>1 DEF Result
<1>5. m.known \in [Containers -> States] /\ Where(call.verb) \in States
  BY <1>2, ActorsType, WhereIs
<1>6. /\ known \in [Containers -> States]
      /\ \A c \in Containers : known[c] = IF c = call.on /\ became = "done" THEN Where(call.verb)
                                                                            ELSE m.known[c]
  <2> HIDE DEF m, call
  <2> QED
    BY <1>2, <1>5
<1>7. m \in Act /\ calm \in BOOLEAN /\ m.results \in SUBSET Result
  BY ActorsType
<1> HIDE DEF known, result, calm
<1>8. n \in Act
  BY <1>1, <1>4, <1>6, <1>7 DEF Act
<1>9. /\ n.pc = m.pc /\ n.verb = m.verb /\ n.members = m.members /\ n.force = m.force
      /\ n.left = Tail(m.left) /\ n.results = m.results \cup {result} /\ n.known = known /\ n.calm = calm
  BY <1>7 DEF Act
<1> HIDE DEF n
<1> QED
  BY <1>3, <1>6, <1>8, <1>9 DEF Next1, result, calm

\* What the actor does of its calls.
Works(a) == Skip(a) \/ Perform(a) \/ FindDone(a) \/ DockerFails(a)

\* Another's step leaves x where it is, and tells it that it is no longer alone
\* when the containers changed.
Unmoved(x) ==
  /\ act'[x] \in Act
  /\ act'[x].pc = act[x].pc /\ act'[x].verb = act[x].verb /\ act'[x].members = act[x].members
  /\ act'[x].known = act[x].known /\ act'[x].left = act[x].left
  /\ act'[x].results = act[x].results /\ act'[x].force = act[x].force
  /\ act'[x].calm => act[x].calm /\ container' = container

Apart(a) == \A x \in Actors \ {a} : Unmoved(x)

LEMMA Quiet ==
  ASSUME NEW m \in Act
  PROVE  LET n == [m EXCEPT !.calm = FALSE]
         IN  /\ n \in Act /\ n.pc = m.pc /\ n.verb = m.verb /\ n.members = m.members
             /\ n.known = m.known /\ n.left = m.left /\ n.results = m.results /\ n.force = m.force
             /\ ~n.calm
  BY DEF Act

LEMMA DisturbIs ==
  ASSUME ActionsTypeOK, NEW a \in Actors, NEW n \in Act, Disturb(a, n)
  PROVE  act'[a] = n /\ act' \in [Actors -> Act] /\ Apart(a)
<1>1. act' = [x \in Actors |-> IF x = a THEN n ELSE [act[x] EXCEPT !.calm = FALSE]]
  BY DEF Disturb
<1>2. \A x \in Actors : x # a => act'[x] = [act[x] EXCEPT !.calm = FALSE]
  BY <1>1
<1>3. \A x \in Actors : act[x] \in Act
  BY ActorsType
<1>4. Apart(a)
  <2> SUFFICES ASSUME NEW x \in Actors \ {a} PROVE Unmoved(x)
    BY DEF Apart
  <2> DEFINE m == act[x]
  <2>1. m \in Act /\ act'[x] = [m EXCEPT !.calm = FALSE]
    BY <1>2, <1>3
  <2> HIDE DEF m
  <2>2. /\ act'[x] \in Act
        /\ act'[x].pc = m.pc /\ act'[x].verb = m.verb
        /\ act'[x].members = m.members
        /\ act'[x].known = m.known /\ act'[x].left = m.left
        /\ act'[x].results = m.results /\ act'[x].force = m.force
        /\ ~act'[x].calm
    BY <2>1, Quiet
  <2> QED
    BY <2>2 DEF m, Unmoved
<1>5. \A x \in Actors : act'[x] \in Act
  <2>1. act'[a] = n
    BY <1>1
  <2>2. \A x \in Actors : x # a => act'[x] \in Act
    BY <1>4 DEF Apart, Unmoved
  <2> QED
    BY <2>1, <2>2
<1> QED
  BY <1>1, <1>4, <1>5

LEMMA AloneIs ==
  ASSUME ActionsTypeOK, NEW a \in Actors, NEW n \in Act, act' = [act EXCEPT ![a] = n],
         container' = container
  PROVE  act'[a] = n /\ act' \in [Actors -> Act] /\ Apart(a)
<1>1. act \in [Actors -> Act]
  BY DEF ActionsTypeOK
<1> QED
  BY <1>1 DEF Apart, Unmoved

\* The containers after a step of the actor's, and what it says of it.
LEMMA WorksIs ==
  ASSUME ActionsTypeOK, NEW a \in Actors, Works(a)
  PROVE  LET call == Head(act[a].left)
         IN  /\ Pending(a) /\ act' \in [Actors -> Act] /\ Apart(a) /\ needs' = needs
             /\ \E became \in {"done", "skipped", "failed"} :
                  /\ Next1(act[a], act'[a], became)
                  /\ \/ became = "skipped" /\ Skips(a, call) /\ container' = container
                     \/ became = "failed" /\ container' = container
                     \/ /\ became = "done" /\ ~Skips(a, call) /\ Obeys(a, call)
                        /\ container' = [container EXCEPT ![call.on] = Where(call.verb)]
                     \/ /\ became = "done" /\ ~Skips(a, call) /\ Already(call)
                        /\ container' = container
<1> DEFINE call == Head(act[a].left)
<1>1. Pending(a) /\ needs' = needs
  BY DEF Works, Skip, Perform, FindDone, DockerFails
<1>2. \A became \in {"done", "skipped", "failed"} :
        Next1(act[a], Report(a, became), became) /\ Report(a, became) \in Act
  BY <1>1, ReportIs DEF Next1
<1>3. CASE Skip(a)
  <2>1. Skips(a, call) /\ container' = container /\ act' = [act EXCEPT ![a] = Report(a, "skipped")]
    BY <1>3 DEF Skip
  <2>2. act'[a] = Report(a, "skipped") /\ act' \in [Actors -> Act] /\ Apart(a)
    BY <1>2, <2>1, AloneIs
  <2> QED
    BY <1>1, <1>2, <2>1, <2>2
<1>4. CASE Perform(a)
  <2>1. /\ ~Skips(a, call) /\ Obeys(a, call) /\ Disturb(a, Report(a, "done"))
        /\ container' = [container EXCEPT ![call.on] = Where(call.verb)]
    BY <1>4 DEF Perform
  <2>2. act'[a] = Report(a, "done") /\ act' \in [Actors -> Act] /\ Apart(a)
    BY <1>2, <2>1, DisturbIs
  <2> QED
    BY <1>1, <1>2, <2>1, <2>2
<1>5. CASE FindDone(a)
  <2> DEFINE became == IF Already(call) /\ a \in ActionCommands THEN "done" ELSE "failed"
  <2>1. ~Skips(a, call) /\ container' = container /\ act' = [act EXCEPT ![a] = Report(a, became)]
    BY <1>5 DEF FindDone
  <2>2. became \in {"done", "skipped", "failed"} /\ (became = "failed" \/ (became = "done" /\ Already(call)))
    OBVIOUS
  <2> HIDE DEF became
  <2>3. act'[a] = Report(a, became) /\ act' \in [Actors -> Act] /\ Apart(a)
    BY <1>2, <2>1, <2>2, AloneIs
  <2>4. Next1(act[a], act'[a], became)
    BY <1>2, <2>2, <2>3
  <2> HIDE DEF call
  <2> QED
    BY <1>1, <2>1, <2>2, <2>3, <2>4 DEF call
<1>6. CASE DockerFails(a)
  <2>1. container' = container /\ act' = [act EXCEPT ![a] = Report(a, "failed")]
    BY <1>6 DEF DockerFails
  <2>2. act'[a] = Report(a, "failed") /\ act' \in [Actors -> Act] /\ Apart(a)
    BY <1>2, <2>1, AloneIs
  <2> QED
    BY <1>1, <1>2, <2>1, <2>2
<1> QED
  BY <1>3, <1>4, <1>5, <1>6 DEF Works

LEMMA OthersMoveIs ==
  ASSUME ActionsTypeOK, NEW c \in Containers, NEW state \in States, OthersMove(c, state)
  PROVE  act' \in [Actors -> Act] /\ (\A x \in Actors : ~act'[x].calm /\ Unmoved(x))
         /\ needs' = needs /\ container' \in [Containers -> States]
<1>1. \A x \in Actors : act'[x] = [act[x] EXCEPT !.calm = FALSE] /\ act[x] \in Act
  BY ActorsType DEF OthersMove
<1>2. ASSUME NEW x \in Actors PROVE ~act'[x].calm /\ Unmoved(x)
  <2> DEFINE m == act[x]
  <2>1. m \in Act /\ act'[x] = [m EXCEPT !.calm = FALSE]
    BY <1>1
  <2> HIDE DEF m
  <2>2. /\ act'[x] \in Act
        /\ act'[x].pc = m.pc /\ act'[x].verb = m.verb
        /\ act'[x].members = m.members
        /\ act'[x].known = m.known /\ act'[x].left = m.left
        /\ act'[x].results = m.results /\ act'[x].force = m.force
        /\ ~act'[x].calm
    BY <2>1, Quiet
  <2> QED
    BY <2>2 DEF m, Unmoved
<1>3. needs' = needs /\ container' \in [Containers -> States]
  BY DEF OthersMove, ActionsTypeOK
<1>4. act' \in [Actors -> Act]
  <2>1. act' = [x \in Actors |-> [act[x] EXCEPT !.calm = FALSE]]
    BY DEF OthersMove
  <2> QED
    BY <1>2, <2>1 DEF Unmoved
<1> QED
  BY <1>2, <1>3, <1>4

AnyAsks(a) == \E verb \in Verbs, c \in Containers, force \in BOOLEAN :
                AskProject(a, verb) \/ AskOne(a, verb, c) \/ AskRemoval(a, c, force)

LEMMA StepsAre ==
  ASSUME ActionsNext
  PROVE  \/ \E a \in Actors : AnyAsks(a) \/ Works(a) \/ Answer(a)
         \/ \E c \in Containers, state \in States : OthersMove(c, state)
<1>1. CASE \E a \in Actors, verb \in Verbs : AskProject(a, verb)
  <2>1. \E c : c \in Containers
    BY <1>1 DEF AskProject, Present
  <2> QED
    BY <1>1, <2>1 DEF AnyAsks
<1>2. CASE \E a \in Actors, verb \in Verbs, c \in Containers : AskOne(a, verb, c)
  BY <1>2 DEF AnyAsks
<1>3. CASE \E a \in Actors, c \in Containers, force \in BOOLEAN : AskRemoval(a, c, force)
  <2>1. "start" \in Verbs
    BY DEF Verbs
  <2> QED
    BY <1>3, <2>1 DEF AnyAsks
<1>4. CASE \E a \in Actors : ActorStep(a) \/ DockerFails(a)
  BY <1>4 DEF ActorStep, Works
<1> QED
  BY <1>1, <1>2, <1>3, <1>4 DEF ActionsNext

\* A removal is the only call of its action, and was forced when its container was
\* seen to run.
RemovalAsked(m) ==
  \A i \in DOMAIN m.left : m.left[i].verb = "remove" =>
    Len(m.left) = 1 /\ m.verb = "remove" /\ (m.known[m.left[i].on] = "running" => m.force)

RemovalsAsked == ActionsTypeOK /\ \A a \in Actors : RemovalAsked(act[a])

LEMMA RemovalsInit == ActionsInit => RemovalsAsked
<1> SUFFICES ASSUME ActionsInit PROVE RemovalsAsked
  OBVIOUS
<1>1. \A a \in Actors : act[a] = NoAct
  BY DEF ActionsInit
<1>2. RemovalAsked(NoAct)
  BY NoActIsAct DEF RemovalAsked
<1>3. ActionsTypeOK
  BY NoActIsAct, ActionConstants DEF ActionsInit, ActionsTypeOK, States
<1> QED
  BY <1>1, <1>2, <1>3 DEF RemovalsAsked

LEMMA UnmovedKeepsRemovals ==
  ASSUME NEW x \in Actors, Unmoved(x), RemovalAsked(act[x])
  PROVE  RemovalAsked(act'[x])
  BY DEF Unmoved, RemovalAsked

LEMMA AskedRemoval ==
  ASSUME NEW m, Asked(m)
  PROVE  RemovalAsked(m)
<1>0. m \in Act /\ m.left \in Seq(Call)
  BY DEF Asked, Act
<1>1. CASE m.pc = "one"
  BY <1>0, <1>1 DEF Asked, RemovalAsked
<1>2. CASE m.pc # "one"
  <2>0. m.left = Stops(Present, m.verb) \o Starts(Present, m.verb)
    BY <1>2 DEF Asked
  <2> DEFINE members == Present
             verb == m.verb
             p == Stops(members, verb)
             q == Starts(members, verb)
  <2>1. m.left = p \o q /\ members \in SUBSET Containers
    BY <2>0 DEF Present
  <2> HIDE DEF members, verb
  <2>2. /\ p \in Seq(Call) /\ q \in Seq(Call)
        /\ \A i \in DOMAIN p : p[i].verb = "stop"
        /\ \A i \in DOMAIN q : q[i].verb = "start"
    BY <2>1, StopsAndStarts
  <2> HIDE DEF p, q
  <2>3. ASSUME NEW i \in DOMAIN m.left PROVE m.left[i].verb # "remove"
    <3>1. i \in 1..Len(p) + Len(q) /\ Len(p) \in Nat /\ Len(q) \in Nat
      BY <2>1, <2>2, Both
    <3>2. CASE i <= Len(p)
      BY <2>1, <2>2, <3>1, <3>2, Both
    <3>3. CASE i > Len(p)
      BY <2>1, <2>2, <3>1, <3>3, Both
    <3> QED
      BY <3>1, <3>2, <3>3
  <2> QED
    BY <2>3 DEF RemovalAsked
<1> QED
  BY <1>1, <1>2

LEMMA Next1Removal ==
  ASSUME NEW m \in Act, m.left # <<>>, NEW n, NEW became, Next1(m, n, became), RemovalAsked(m)
  PROVE  RemovalAsked(n)
<1>1. m.left \in Seq(Call) /\ n.left = Tail(m.left)
  BY DEF Next1, Act
<1> DEFINE q == m.left
<1>2. /\ Len(q) \in Nat /\ DOMAIN q = 1..Len(q) /\ q = m.left
      /\ \A i \in DOMAIN Tail(q) : i + 1 \in DOMAIN q /\ Tail(q)[i] = q[i + 1] /\ i \in Nat \ {0}
  BY <1>1, HeadOf
<1> HIDE DEF q
<1>3. \A i \in DOMAIN n.left : n.left[i].verb # "remove"
  <2> SUFFICES ASSUME NEW i \in DOMAIN Tail(q), Tail(q)[i].verb = "remove" PROVE FALSE
    BY <1>1, <1>2
  <2>1. q[i + 1].verb = "remove" /\ i + 1 \in 1..Len(q) /\ i \in Nat /\ i # 0
    BY <1>2
  <2>2. Len(q) = 1
    BY <1>2, <2>1 DEF RemovalAsked
  <2> QED
    BY <1>2, <2>1, <2>2
<1> QED
  BY <1>3 DEF RemovalAsked

LEMMA RemovalsNext == RemovalsAsked /\ [ActionsNext]_actionVars => RemovalsAsked'
<1> SUFFICES ASSUME RemovalsAsked, [ActionsNext]_actionVars PROVE RemovalsAsked'
  OBVIOUS
<1>0. ActionsTypeOK /\ \A a \in Actors : RemovalAsked(act[a]) /\ act[a] \in Act
  BY ActorsType DEF RemovalsAsked
<1>1. CASE UNCHANGED actionVars
  BY <1>0, <1>1 DEF actionVars, RemovalsAsked, ActionsTypeOK, RemovalAsked, Act, Acyclic
<1>2. ASSUME NEW a \in Actors, AnyAsks(a) PROVE RemovalsAsked'
  <2>1. PICK m : Asked(m) /\ Disturb(a, m) /\ actions' = actions + 1 /\ actions < MaxActions
                 /\ UNCHANGED <<needs, container, meddling>>
    BY <1>0, <1>2, AsksAre DEF AnyAsks
  <2>2. act'[a] = m /\ act' \in [Actors -> Act] /\ Apart(a)
    BY <1>0, <2>1, DisturbIs DEF Asked
  <2>3. \A x \in Actors : RemovalAsked(act'[x])
    BY <1>0, <2>1, <2>2, AskedRemoval, UnmovedKeepsRemovals DEF Apart
  <2>4. ActionsTypeOK'
    BY <1>0, <2>1, <2>2, ActionConstants DEF ActionsTypeOK
  <2> QED
    BY <2>3, <2>4 DEF RemovalsAsked
<1>3. ASSUME NEW a \in Actors, Works(a) PROVE RemovalsAsked'
  <2> DEFINE call == Head(act[a].left)
  <2>1. /\ Pending(a) /\ act' \in [Actors -> Act] /\ Apart(a) /\ needs' = needs
        /\ \E became \in {"done", "skipped", "failed"} : Next1(act[a], act'[a], became)
        /\ container' = container \/ container' = [container EXCEPT ![call.on] = Where(call.verb)]
    BY <1>0, <1>3, WorksIs
  <2>2. \A x \in Actors : RemovalAsked(act'[x])
    <3>1. RemovalAsked(act'[a])
      BY <1>0, <2>1, Next1Removal DEF Pending
    <3>2. \A x \in Actors : x # a => RemovalAsked(act'[x])
      BY <1>0, <2>1, UnmovedKeepsRemovals DEF Apart
    <3> QED
      BY <3>1, <3>2
  <2>3. container' \in [Containers -> States]
    <3>1. call \in Call
      BY <1>0, <2>1, ActorsType, HeadOf DEF Pending
    <3>2. Where(call.verb) \in States /\ container \in [Containers -> States]
      BY <1>0, <3>1, WhereIs DEF Call, ActionsTypeOK
    <3> QED
      BY <2>1, <3>2
  <2>4. actions' \in 0..MaxActions /\ meddling' \in 0..MaxMeddling
    BY <1>0, <1>3, ActionConstants
       DEF Works, Skip, Perform, FindDone, DockerFails, Meddle, ActionsTypeOK
  <2> QED
    BY <1>0, <2>1, <2>2, <2>3, <2>4 DEF RemovalsAsked, ActionsTypeOK
<1>4. ASSUME NEW a \in Actors, Answer(a) PROVE RemovalsAsked'
  <2>1. /\ act' = [act EXCEPT ![a] = NoAct] /\ act \in [Actors -> Act]
        /\ UNCHANGED <<needs, container, actions, meddling>>
    BY <1>0, <1>4 DEF Answer, ActionsTypeOK
  <2>2. act' \in [Actors -> Act]
    BY <2>1, NoActIsAct
  <2>3. RemovalAsked(NoAct)
    BY NoActIsAct DEF RemovalAsked
  <2>4. \A x \in Actors : RemovalAsked(act'[x])
    BY <1>0, <2>1, <2>3
  <2> QED
    BY <1>0, <2>1, <2>2, <2>4 DEF RemovalsAsked, ActionsTypeOK
<1>5. ASSUME NEW c \in Containers, NEW state \in States, OthersMove(c, state) PROVE RemovalsAsked'
  <2>1. act' \in [Actors -> Act] /\ (\A x \in Actors : Unmoved(x))
        /\ needs' = needs /\ container' \in [Containers -> States]
    BY <1>0, <1>5, OthersMoveIs
  <2>2. \A x \in Actors : RemovalAsked(act'[x])
    BY <1>0, <2>1, UnmovedKeepsRemovals
  <2>3. actions' = actions /\ meddling' \in 0..MaxMeddling
    BY <1>0, <1>5, ActionConstants DEF OthersMove, Meddle, ActionsTypeOK
  <2> QED
    BY <1>0, <2>1, <2>2, <2>3 DEF RemovalsAsked, ActionsTypeOK
<1> QED
  BY <1>1, <1>2, <1>3, <1>4, <1>5, StepsAre

LEMMA GoesWhenForced ==
  ASSUME RemovalsAsked, [ActionsNext]_actionVars, NEW c \in Containers,
         container[c] = "running", container'[c] = "gone"
  PROVE  \/ meddling' # meddling
         \/ \E a \in Actors : act[a].verb = "remove" /\ act[a].force
                              /\ Len(act'[a].left) < Len(act[a].left)
<1>0. ActionsTypeOK /\ container \in [Containers -> States]
  BY DEF RemovalsAsked, ActionsTypeOK
<1>1. container' # container
  OBVIOUS
<1>2. CASE UNCHANGED actionVars
  BY <1>1, <1>2 DEF actionVars
<1>3. ASSUME NEW a \in Actors, AnyAsks(a) PROVE FALSE
  BY <1>1, <1>3 DEF AnyAsks, AskProject, AskOne, AskRemoval, Ask
<1>4. ASSUME NEW a \in Actors, Works(a)
      PROVE  /\ act[a].verb = "remove" /\ act[a].force
             /\ Len(act'[a].left) < Len(act[a].left)
  <2> DEFINE m == act[a]
             call == Head(m.left)
  <2>1. /\ Pending(a) /\ act'[a].left = Tail(m.left)
        /\ Obeys(a, call) /\ container' = [container EXCEPT ![call.on] = Where(call.verb)]
    BY <1>0, <1>1, <1>4, WorksIs DEF Next1
  <2>2. /\ call \in Call /\ call = m.left[1] /\ 1 \in DOMAIN m.left
        /\ Len(m.left) \in Nat /\ Len(Tail(m.left)) = Len(m.left) - 1
    BY <1>0, <2>1, ActorsType, HeadOf DEF Pending
  <2>3. call.on = c /\ Where(call.verb) = "gone"
    <3> HIDE DEF call
    <3> QED
      BY <1>0, <2>1
  <2>4. call.verb \in Verbs \cup {"remove"}
    BY <2>2 DEF Call
  <2>5. call.verb = "remove"
    BY <2>3, <2>4 DEF Where, Verbs
  <2>6. m.known[c] = "running"
    BY <2>1, <2>3, <2>5 DEF Obeys, Removable
  <2>7. m.verb = "remove" /\ m.force
    BY <2>2, <2>3, <2>5, <2>6 DEF RemovalsAsked, RemovalAsked
  <2> QED
    BY <2>1, <2>2, <2>7
<1>5. ASSUME NEW a \in Actors, Answer(a) PROVE FALSE
  BY <1>1, <1>5 DEF Answer
<1>6. ASSUME NEW d \in Containers, NEW state \in States, OthersMove(d, state) PROVE meddling' # meddling
  BY <1>0, <1>6, ActionConstants DEF OthersMove, Meddle, ActionsTypeOK
<1> QED
  BY <1>2, <1>3, <1>4, <1>5, <1>6, StepsAre

\* Containers, and the requests and commands that act on them, have the shapes the
\* model declares.
THEOREM ActionsTypeCorrect == ActionsSpec => []ActionsTypeOK
<1>1. ActionsSpec => []RemovalsAsked
  BY RemovalsInit, RemovalsNext, PTL DEF ActionsSpec
<1>2. RemovalsAsked => ActionsTypeOK
  BY DEF RemovalsAsked
<1> QED
  BY <1>1, <1>2, PTL

\* A container that runs is removed by somebody else's hand or because the operator
\* forced it, whatever became of it since the request read its state
\* (routes/actions.ts, DELETE).
THEOREM RemovedWhenForced == ActionsSpec => RunningGoesOnlyWhenForced
<1>1. RemovalsAsked /\ [ActionsNext]_actionVars
        => [\A c \in Containers : (container[c] = "running" /\ container'[c] = "gone")
              => \/ meddling' # meddling
                 \/ \E a \in Actors : act[a].verb = "remove" /\ act[a].force
                                      /\ Len(act'[a].left) < Len(act[a].left)]_actionVars
  BY GoesWhenForced
<1> QED
  BY <1>1, RemovalsInit, RemovalsNext, PTL DEF ActionsSpec, RunningGoesOnlyWhenForced

(***************************************************************************)
(* Actions on a project whose services have one container each             *)
(***************************************************************************)

OneOfEach == \A s \in Services : Replicas[s] = 1

SomeFailed(m) == \E r \in m.results : r.became = "failed"

Started(m, c) == [call |-> [verb |-> "start", on |-> c], became |-> "done"] \in m.results

Waits(m, verb, c) == \E i \in DOMAIN m.left : m.left[i].verb = verb /\ m.left[i].on = c

\* The calls to come are stops, then starts.
StopsFirst(m) ==
  /\ \A i \in DOMAIN m.left : m.left[i].verb \in {"stop", "start"}
  /\ \A i, j \in DOMAIN m.left : (i < j /\ m.left[i].verb = "start") => m.left[j].verb = "start"

\* A restart has started each of its containers, or has it still to start, and to
\* stop before if it knows it to run.
BringsBack(m) ==
  \A c \in m.members :
    \/ SomeFailed(m) \/ Started(m, c)
    \/ Waits(m, "start", c) /\ (m.known[c] = "running" => Waits(m, "stop", c))

\* Each dependent that runs is stopped before what it needs.
StopsInOrder(m) ==
  \A i \in DOMAIN m.left : m.left[i].verb = "stop" =>
    \A d \in Containers : (<<d[1], m.left[i].on[1]>> \in needs /\ container[d] = "running") =>
      \E j \in DOMAIN m.left : j < i /\ m.left[j].verb = "stop" /\ m.left[j].on = d

\* What a container needs runs, or is started before it.
StartsInOrder(m) ==
  \A i \in DOMAIN m.left : m.left[i].verb = "start" =>
    \A d \in Present : <<m.left[i].on[1], d[1]>> \in needs =>
      \/ \E j \in DOMAIN m.left : j < i /\ m.left[j].verb = "start" /\ m.left[j].on = d
      \/ container[d] = "running" /\ ~Waits(m, "stop", d)

Undisturbed(m) == m.known = container /\ Supplied /\ StopsInOrder(m) /\ StartsInOrder(m)

ProjectInOrder(m) ==
  m.pc = "project" => /\ StopsFirst(m)
                      /\ m.verb = "restart" => BringsBack(m)
                      /\ m.calm => Undisturbed(m)

ProjectsInOrder == RemovalsAsked /\ \A a \in Actors : ProjectInOrder(act[a])

LEMMA OneOfEachIs ==
  ASSUME OneOfEach
  PROVE  OneEach(Containers)
<1>1. ASSUME NEW c \in Containers PROVE c = <<c[1], 1>>
  <2>1. PICK s \in Services, k \in 1..Cardinality(Services) + 1 : c = <<s, k>>
    BY DEF Containers
  <2>2. Cardinality(Services) \in Nat
    BY ActionConstants, FS_CardinalityType
  <2>3. k <= 1 /\ k \in Nat /\ k >= 1
    BY <2>1, <2>2 DEF OneOfEach, Containers
  <2> QED
    BY <2>1, <2>3
<1> QED
  BY <1>1 DEF OneEach

\* The plan, by its parts.
LEMMA PlanIs ==
  ASSUME NEW m, Asked(m), m.pc = "project"
  PROVE  \E p, q \in Seq(Call) :
           /\ p = Stops(Present, m.verb) /\ q = Starts(Present, m.verb) /\ m.left = p \o q
           /\ \A i \in DOMAIN p : p[i].verb = "stop" /\ p[i].on \in Present
           /\ \A i \in DOMAIN q : q[i].verb = "start" /\ q[i].on \in Present
           /\ Len(p) \in Nat /\ Len(q) \in Nat
           /\ DOMAIN p = 1..Len(p) /\ DOMAIN q = 1..Len(q) /\ DOMAIN m.left = 1..Len(p) + Len(q)
           /\ \A i \in 1..Len(p) : m.left[i] = p[i]
           /\ \A i \in 1..Len(q) : m.left[Len(p) + i] = q[i]
           /\ \A i \in DOMAIN m.left : \/ i \in DOMAIN p
                                       \/ i > Len(p) /\ i - Len(p) \in DOMAIN q /\ m.left[i] = q[i - Len(p)]
<1>0. m.left = Stops(Present, m.verb) \o Starts(Present, m.verb)
  BY DEF Asked
<1> DEFINE members == Present
           verb == m.verb
           p == Stops(members, verb)
           q == Starts(members, verb)
<1>1. m.left = p \o q /\ members \in SUBSET Containers
  BY <1>0 DEF Present
<1> HIDE DEF members, verb
<1>2. /\ p \in Seq(Call) /\ q \in Seq(Call)
      /\ \A i \in DOMAIN p : p[i].verb = "stop" /\ p[i].on \in members
      /\ \A i \in DOMAIN q : q[i].verb = "start" /\ q[i].on \in members
  BY <1>1, StopsAndStarts
<1> HIDE DEF p, q
<1>3. /\ Len(p) \in Nat /\ Len(q) \in Nat
      /\ DOMAIN p = 1..Len(p) /\ DOMAIN q = 1..Len(q) /\ DOMAIN m.left = 1..Len(p) + Len(q)
      /\ \A i \in 1..Len(p) : m.left[i] = p[i]
      /\ \A i \in 1..Len(q) : m.left[Len(p) + i] = q[i]
      /\ \A i \in 1..Len(p) + Len(q) : i > Len(p) =>
           i - Len(p) \in 1..Len(q) /\ m.left[i] = q[i - Len(p)]
  BY <1>1, <1>2, Both
<1>4. \A i \in DOMAIN m.left : \/ i \in DOMAIN p
                               \/ i > Len(p) /\ i - Len(p) \in DOMAIN q /\ m.left[i] = q[i - Len(p)]
  BY <1>3
<1> QED
  BY <1>1, <1>2, <1>3, <1>4 DEF p, q, members, verb

LEMMA AskedInOrder ==
  ASSUME NEW m, Asked(m), OneOfEach, needs \in Graphs, container \in [Containers -> States]
  PROVE  ProjectInOrder(m)
<1> SUFFICES ASSUME m.pc = "project" PROVE ProjectInOrder(m)
  BY DEF ProjectInOrder
<1>0. /\ Present \in SUBSET Containers /\ OneEach(Present) /\ m.verb \in Verbs /\ m.members = Present
      /\ m.known = container
  BY OneOfEachIs DEF Present, OneEach, Asked
<1>1. PICK p, q \in Seq(Call) :
        /\ p = Stops(Present, m.verb) /\ q = Starts(Present, m.verb) /\ m.left = p \o q
        /\ \A i \in DOMAIN p : p[i].verb = "stop" /\ p[i].on \in Present
        /\ \A i \in DOMAIN q : q[i].verb = "start" /\ q[i].on \in Present
        /\ Len(p) \in Nat /\ Len(q) \in Nat
        /\ DOMAIN p = 1..Len(p) /\ DOMAIN q = 1..Len(q) /\ DOMAIN m.left = 1..Len(p) + Len(q)
        /\ \A i \in 1..Len(p) : m.left[i] = p[i]
        /\ \A i \in 1..Len(q) : m.left[Len(p) + i] = q[i]
        /\ \A i \in DOMAIN m.left : \/ i \in DOMAIN p
                                    \/ i > Len(p) /\ i - Len(p) \in DOMAIN q /\ m.left[i] = q[i - Len(p)]
  BY PlanIs
<1>2. ASSUME NEW i \in DOMAIN m.left, m.left[i].verb = "stop"
      PROVE  i \in DOMAIN p /\ m.left[i] = p[i] /\ m.verb # "start"
  <2>1. i \in DOMAIN p
    BY <1>1, <1>2
  <2>2. m.verb # "start"
    BY <1>1, <2>1 DEF Stops
  <2> QED
    BY <1>1, <2>1, <2>2
<1>3. ASSUME NEW i \in DOMAIN m.left, m.left[i].verb = "start"
      PROVE  /\ i > Len(p) /\ i - Len(p) \in DOMAIN q /\ m.left[i] = q[i - Len(p)]
             /\ m.verb # "stop"
  <2>1. i > Len(p) /\ i - Len(p) \in DOMAIN q /\ m.left[i] = q[i - Len(p)]
    BY <1>1, <1>3
  <2>2. m.verb # "stop"
    BY <1>1, <2>1 DEF Starts
  <2> QED
    BY <2>1, <2>2
<1>4. StopsFirst(m)
  <2>1. ASSUME NEW i \in DOMAIN m.left PROVE m.left[i].verb \in {"stop", "start"}
    <3>1. CASE i \in DOMAIN p
      BY <1>1, <3>1
    <3>2. CASE i \notin DOMAIN p
      <4>1. i - Len(p) \in DOMAIN q /\ m.left[i] = q[i - Len(p)]
        BY <1>1, <3>2
      <4>2. q[i - Len(p)].verb = "start"
        BY <1>1, <4>1
      <4> QED
        BY <4>1, <4>2
    <3> QED
      BY <3>1, <3>2
  <2>2. ASSUME NEW i \in DOMAIN m.left, NEW j \in DOMAIN m.left, i < j, m.left[i].verb = "start"
        PROVE  m.left[j].verb = "start"
    <3>1. i > Len(p)
      BY <1>3, <2>2
    <3>2. j > Len(p) /\ j \notin 1..Len(p)
      BY <1>1, <2>2, <3>1
    <3> QED
      BY <1>1, <3>2
  <2> QED
    BY <2>1, <2>2 DEF StopsFirst
<1>5. ASSUME m.verb = "restart" PROVE BringsBack(m)
  <2> SUFFICES ASSUME NEW c \in Present PROVE Waits(m, "start", c) /\ Waits(m, "stop", c)
    BY <1>0 DEF BringsBack
  <2>1. p = Calls(Present, "stop") /\ q = Calls(Present, "start")
    BY <1>1, <1>5 DEF Stops, Starts
  <2>2. PICK i \in DOMAIN p : p[i].on = c
    BY <1>0, <2>1, CallsAre, OrderedAll
  <2>3. PICK j \in DOMAIN q : q[j].on = c
    BY <1>0, <2>1, CallsAre, OrderedAll
  <2>4. i \in DOMAIN m.left /\ m.left[i].verb = "stop" /\ m.left[i].on = c
    BY <1>1, <2>2
  <2>5. Len(p) + j \in DOMAIN m.left /\ m.left[Len(p) + j].verb = "start" /\ m.left[Len(p) + j].on = c
    BY <1>1, <2>3
  <2> QED
    BY <2>4, <2>5 DEF Waits
<1>6. ASSUME m.calm PROVE Undisturbed(m)
  <2>0. Supplied /\ Acyclic /\ needs \subseteq Services \X Services
    BY <1>6, ActionConstants DEF Asked
  <2>1. StopsInOrder(m)
    <3> SUFFICES ASSUME NEW i \in DOMAIN m.left, m.left[i].verb = "stop", NEW d \in Containers,
                        <<d[1], m.left[i].on[1]>> \in needs, container[d] = "running"
                 PROVE  \E j \in DOMAIN m.left : j < i /\ m.left[j].verb = "stop" /\ m.left[j].on = d
      BY DEF StopsInOrder
    <3>1. i \in DOMAIN p /\ m.left[i] = p[i] /\ p = Calls(Present, "stop")
      BY <1>1, <1>2 DEF Stops
    <3>2. d \in Present
      BY DEF Present
    <3>3. i \in DOMAIN Ordered(Present, "stop") /\ p[i].on = Ordered(Present, "stop")[i]
      BY <1>0, <3>1, CallsAre
    <3>4. d[1] \in Before(Ordered(Present, "stop")[i][1], "stop")
      BY <2>0, <3>1, <3>3 DEF Before
    <3>5. PICK j \in DOMAIN Ordered(Present, "stop") : j < i /\ Ordered(Present, "stop")[j] = d
      BY <1>0, <2>0, <3>2, <3>3, <3>4, OrderedAfter
    <3>6. j \in DOMAIN p /\ p[j].on = d /\ p[j].verb = "stop"
      BY <1>0, <3>1, <3>5, CallsAre
    <3> QED
      BY <1>1, <3>5, <3>6
  <2>2. StartsInOrder(m)
    <3> SUFFICES ASSUME NEW i \in DOMAIN m.left, m.left[i].verb = "start", NEW d \in Present,
                        <<m.left[i].on[1], d[1]>> \in needs
                 PROVE  \E j \in DOMAIN m.left : j < i /\ m.left[j].verb = "start" /\ m.left[j].on = d
      BY DEF StartsInOrder
    <3>0. /\ i > Len(p) /\ i - Len(p) \in DOMAIN q /\ m.left[i] = q[i - Len(p)] /\ i \in Int
          /\ m.verb # "stop"
      BY <1>1, <1>3
    <3>k. PICK k \in DOMAIN q : k = i - Len(p) /\ m.left[i] = q[k]
      BY <3>0
    <3>1. q = Calls(Present, "start")
      BY <1>1, <3>0 DEF Starts
    <3>3. k \in DOMAIN Ordered(Present, "start") /\ q[k].on = Ordered(Present, "start")[k]
      BY <1>0, <3>1, CallsAre
    <3>4. d[1] \in Before(Ordered(Present, "start")[k][1], "start")
      BY <2>0, <3>k, <3>3 DEF Before
    <3>5. PICK j \in DOMAIN Ordered(Present, "start") : j < k /\ Ordered(Present, "start")[j] = d
      BY <1>0, <2>0, <3>3, <3>4, OrderedAfter
    <3>6. j \in DOMAIN q /\ q[j].on = d /\ q[j].verb = "start"
      BY <1>0, <3>1, <3>5, CallsAre
    <3>7. Len(p) + j \in DOMAIN m.left /\ m.left[Len(p) + j] = q[j] /\ Len(p) + j < i
      BY <1>1, <3>0, <3>k, <3>5, <3>6
    <3> QED
      BY <3>6, <3>7
  <2> QED
    BY <1>0, <2>0, <2>1, <2>2 DEF Undisturbed
<1> QED
  BY <1>4, <1>5, <1>6 DEF ProjectInOrder

\* Calls that wait, after the first of them was dealt with.
LEMMA OneFewer ==
  ASSUME NEW m \in Act, m.left # <<>>, NEW n, n.left = Tail(m.left)
  PROVE  LET call == Head(m.left)
         IN  /\ call = m.left[1] /\ 1 \in DOMAIN m.left /\ call \in Call
             /\ \A i \in DOMAIN n.left : i \in Nat /\ i >= 1 /\ i + 1 \in DOMAIN m.left /\ n.left[i] = m.left[i + 1]
             /\ \A i \in DOMAIN m.left : i \in Nat /\ i >= 1 /\ (i > 1 =>
                  i - 1 \in DOMAIN n.left /\ n.left[i - 1] = m.left[i])
             /\ \A verb, c : Waits(n, verb, c) => Waits(m, verb, c)
             /\ \A verb, c : Waits(m, verb, c) => Waits(n, verb, c) \/ (call.verb = verb /\ call.on = c)
<1> DEFINE q == m.left
           t == Tail(q)
           call == Head(q)
<1>1. q \in Seq(Call) /\ q # <<>>
  BY DEF Act
<1> HIDE DEF q
<1>2. /\ call \in Call /\ call = q[1] /\ 1 \in DOMAIN q
      /\ \A i \in DOMAIN t : i \in Nat /\ i >= 1 /\ i + 1 \in DOMAIN q /\ t[i] = q[i + 1]
      /\ \A i \in DOMAIN q : i \in Nat /\ i >= 1 /\ (i > 1 => i - 1 \in DOMAIN t /\ t[i - 1] = q[i])
  <2>1. /\ DOMAIN q = 1..Len(q) /\ Len(q) \in Nat
    BY <1>1
  <2> QED
    BY <1>1, <2>1, HeadOf
<1>3. n.left = t /\ m.left = q
  BY DEF q
<1> HIDE DEF t, call
<1>4. \A verb, c : Waits(n, verb, c) => Waits(m, verb, c)
  BY <1>2, <1>3 DEF Waits
<1>5. ASSUME NEW verb, NEW c, Waits(m, verb, c)
      PROVE  Waits(n, verb, c) \/ (call.verb = verb /\ call.on = c)
  <2>1. PICK i \in DOMAIN q : q[i].verb = verb /\ q[i].on = c
    BY <1>3, <1>5 DEF Waits
  <2>2. CASE i = 1
    BY <1>2, <2>1, <2>2
  <2>3. CASE i # 1
    <3>1. i - 1 \in DOMAIN t /\ t[i - 1] = q[i]
      BY <1>2, <2>3
    <3> QED
      BY <1>3, <2>1, <3>1 DEF Waits
  <2> QED
    BY <2>2, <2>3
<1> QED
  BY <1>2, <1>3, <1>4, <1>5 DEF q, t, call

LEMMA StopsFirstKept ==
  ASSUME NEW m \in Act, m.left # <<>>, NEW n, n.left = Tail(m.left), StopsFirst(m)
  PROVE  /\ StopsFirst(n)
         /\ Head(m.left).verb \in {"start", "stop"}
         /\ Head(m.left).verb = "start" => \A c : ~Waits(m, "stop", c) /\ ~Waits(n, "stop", c)
<1> DEFINE call == Head(m.left)
<1>1. /\ call = m.left[1] /\ 1 \in DOMAIN m.left
      /\ \A i \in DOMAIN n.left : i \in Nat /\ i >= 1 /\ i + 1 \in DOMAIN m.left /\ n.left[i] = m.left[i + 1]
      /\ \A i \in DOMAIN m.left : i \in Nat /\ i >= 1
      /\ \A verb, c : Waits(n, verb, c) => Waits(m, verb, c)
  BY OneFewer
<1> HIDE DEF call
<1>2. StopsFirst(n)
  <2>1. \A i \in DOMAIN n.left : n.left[i].verb \in {"stop", "start"}
    BY <1>1 DEF StopsFirst
  <2>2. ASSUME NEW i \in DOMAIN n.left, NEW j \in DOMAIN n.left, i < j, n.left[i].verb = "start"
        PROVE  n.left[j].verb = "start"
    <3>1. i + 1 < j + 1 /\ i + 1 \in DOMAIN m.left /\ j + 1 \in DOMAIN m.left
      BY <1>1, <2>2
    <3>2. m.left[i + 1].verb = "start"
      BY <1>1, <2>2
    <3>3. m.left[j + 1].verb = "start"
      BY <3>1, <3>2 DEF StopsFirst
    <3> QED
      BY <1>1, <3>3
  <2> QED
    BY <2>1, <2>2 DEF StopsFirst
<1>3. call.verb \in {"start", "stop"}
  BY <1>1 DEF StopsFirst
<1>4. ASSUME call.verb = "start", NEW c, Waits(m, "stop", c) PROVE FALSE
  <2>1. PICK i \in DOMAIN m.left : m.left[i].verb = "stop"
    BY <1>4 DEF Waits
  <2>2. i # 1
    BY <1>1, <1>4, <2>1
  <2>3. 1 < i
    BY <1>1, <2>2
  <2> QED
    BY <1>1, <1>4, <2>1, <2>3 DEF StopsFirst
<1> QED
  BY <1>1, <1>2, <1>3, <1>4 DEF call

\* A restart goes on bringing back its containers.
LEMMA BringsBackKept ==
  ASSUME NEW m \in Act, m.left # <<>>, NEW n, NEW became \in {"done", "skipped", "failed"},
         Next1(m, n, became), StopsFirst(m), BringsBack(m),
         became = "skipped" =>
           ((Head(m.left).verb = "start") <=> (m.known[Head(m.left).on] = "running"))
  PROVE  BringsBack(n)
<1> DEFINE call == Head(m.left)
<1>1. /\ call \in Call
      /\ \A verb, c : Waits(m, verb, c) => Waits(n, verb, c) \/ (call.verb = verb /\ call.on = c)
      /\ \A verb, c : Waits(n, verb, c) => Waits(m, verb, c)
  BY OneFewer DEF Next1
<1>2. /\ call.verb \in {"start", "stop"}
      /\ call.verb = "start" => \A c : ~Waits(m, "stop", c) /\ ~Waits(n, "stop", c)
  BY StopsFirstKept DEF Next1
<1>3. /\ n.members = m.members /\ n.results = m.results \cup {[call |-> call, became |-> became]}
      /\ \A c \in Containers : n.known[c] = IF c = call.on /\ became = "done" THEN Where(call.verb)
                                                                              ELSE m.known[c]
      /\ became = "skipped" => ((call.verb = "start") <=> (m.known[call.on] = "running"))
      /\ m.members \subseteq Containers
  BY DEF Next1, Act
<1>4. call = [verb |-> call.verb, on |-> call.on] /\ call.on \in Containers
  BY <1>1 DEF Call
<1> HIDE DEF call
<1> SUFFICES ASSUME NEW c \in m.members
             PROVE  \/ SomeFailed(n) \/ Started(n, c)
                    \/ Waits(n, "start", c) /\ (n.known[c] = "running" => Waits(n, "stop", c))
  BY <1>3 DEF BringsBack
<1>5. SomeFailed(m) => SomeFailed(n)
  BY <1>3 DEF SomeFailed
<1>6. Started(m, c) => Started(n, c)
  BY <1>3 DEF Started
<1>7. became = "failed" => SomeFailed(n)
  <2> DEFINE r == [call |-> call, became |-> became]
  <2>1. r \in n.results /\ r.became = became
    BY <1>3
  <2> HIDE DEF r
  <2> QED
    BY <2>1 DEF SomeFailed
<1> SUFFICES ASSUME ~SomeFailed(m), ~Started(m, c), became # "failed",
                    Waits(m, "start", c), m.known[c] = "running" => Waits(m, "stop", c)
             PROVE  \/ Started(n, c)
                    \/ Waits(n, "start", c) /\ (n.known[c] = "running" => Waits(n, "stop", c))
  BY <1>5, <1>6, <1>7 DEF BringsBack
<1>8. CASE call.verb = "start" /\ call.on = c
  <2>1. m.known[c] # "running"
    BY <1>2, <1>8
  <2>2. became = "done"
    BY <1>3, <1>8, <2>1
  <2>3. [call |-> [verb |-> "start", on |-> c], became |-> "done"] \in n.results
    BY <1>3, <1>4, <1>8, <2>2
  <2> QED
    BY <2>3 DEF Started
<1>9. CASE call.verb = "stop" /\ call.on = c
  <2>1. Waits(n, "start", c)
    BY <1>1, <1>9
  <2>2. became = "done" => n.known[c] # "running"
    BY <1>3, <1>9, WhereIs
  <2>3. became = "skipped" => n.known[c] # "running"
    BY <1>3, <1>9
  <2> QED
    BY <2>1, <2>2, <2>3
<1>10. CASE call.on # c
  <2>1. n.known[c] = m.known[c]
    BY <1>3, <1>10
  <2> QED
    BY <1>1, <1>10, <2>1
<1> QED
  BY <1>2, <1>8, <1>9, <1>10

\* The next call of an undisturbed action leaves each service that runs with those
\* it needs.
LEMMA UndisturbedKept ==
  ASSUME ActionsTypeOK, NEW a \in Actors, Works(a), act[a].pc = "project",
         StopsFirst(act[a]), Undisturbed(act[a]), act'[a].calm
  PROVE  Undisturbed(act[a])' /\ act'[a].known = container'
<1> DEFINE call == Head(act[a].left)
           m == act[a]
           n == act'[a]
<1>0. /\ m \in Act /\ m.left # <<>> /\ n \in Act /\ needs' = needs
      /\ container \in [Containers -> States] /\ n.left = Tail(m.left)
      /\ n.known \in [Containers -> States]
  BY ActorsType, WorksIs DEF ActionsTypeOK, Pending, Next1, Act
<1>1. PICK became \in {"done", "skipped", "failed"} :
        /\ Next1(m, n, became)
        /\ \/ became = "skipped" /\ Skips(a, call) /\ container' = container
           \/ became = "failed" /\ container' = container
           \/ /\ became = "done" /\ ~Skips(a, call) /\ Obeys(a, call)
              /\ container' = [container EXCEPT ![call.on] = Where(call.verb)]
           \/ became = "done" /\ ~Skips(a, call) /\ Already(call) /\ container' = container
  BY WorksIs
<1>2. /\ call = m.left[1] /\ 1 \in DOMAIN m.left /\ call \in Call
      /\ \A i \in DOMAIN n.left : i \in Nat /\ i >= 1 /\ i + 1 \in DOMAIN m.left /\ n.left[i] = m.left[i + 1]
      /\ \A i \in DOMAIN m.left : i \in Nat /\ i >= 1 /\ (i > 1 =>
           i - 1 \in DOMAIN n.left /\ n.left[i - 1] = m.left[i])
      /\ \A verb, c : Waits(n, verb, c) => Waits(m, verb, c)
  BY <1>0, OneFewer
<1>3. /\ call.verb \in {"start", "stop"}
      /\ call.verb = "start" => \A c : ~Waits(m, "stop", c) /\ ~Waits(n, "stop", c)
  BY <1>0, StopsFirstKept
<1>4. /\ m.known = container /\ Supplied /\ StopsInOrder(m) /\ StartsInOrder(m) /\ m.pc = "project"
      /\ call.on \in Containers
  BY <1>2 DEF Undisturbed, Call
<1>5. became # "failed"
      /\ \A c \in Containers : n.known[c] = IF c = call.on /\ became = "done" THEN Where(call.verb)
                                                                              ELSE m.known[c]
  BY <1>1 DEF Next1
<1>6. Skips(a, call) <=> ((call.verb = "start") <=> (container[call.on] = "running"))
  BY <1>4 DEF Skips
<1> HIDE DEF call
<1>7. /\ Obeys(a, call) => container[call.on] = IF call.verb = "start" THEN "exited" ELSE "running"
      /\ Already(call) => container[call.on] = Where(call.verb)
  BY <1>3 DEF Obeys, Already
<1>8. Where("start") = "running" /\ Where("stop") = "exited"
  BY WhereIs
\* What became of the container.
<1>9. \/ container' = container /\ (call.verb = "start" <=> container[call.on] = "running")
      \/ /\ call.verb = "start" /\ container[call.on] = "exited"
         /\ container' = [container EXCEPT ![call.on] = "running"]
      \/ /\ call.verb = "stop" /\ container[call.on] = "running"
         /\ container' = [container EXCEPT ![call.on] = "exited"]
  BY <1>1, <1>3, <1>5, <1>6, <1>7, <1>8
<1>10. \A c \in Containers : n.known[c] = container'[c]
  BY <1>0, <1>1, <1>3, <1>4, <1>5, <1>6, <1>7, <1>8
<1>11. /\ container' \in [Containers -> States]
       /\ \A c \in Containers : (container[c] = "gone") <=> (container'[c] = "gone")
       /\ \A c \in Containers : c # call.on => container'[c] = container[c]
       /\ container'[call.on] = IF call.verb = "start" THEN "running" ELSE container'[call.on]
       /\ call.verb = "stop" => container'[call.on] # "running"
  BY <1>0, <1>3, <1>4, <1>9 DEF States
<1>12. n.known = container'
  BY <1>0, <1>10, <1>11
<1>13. Present' = Present
  BY <1>11 DEF Present
<1>14. Supplied'
  <2> SUFFICES ASSUME NEW c \in Present, NEW d \in Present, <<c[1], d[1]>> \in needs,
                      container'[c] = "running"
               PROVE  container'[d] = "running"
    BY <1>0, <1>13 DEF Supplied
  <2>0. c \in Containers /\ d \in Containers
    BY DEF Present
  <2>1. CASE call.verb = "start"
    <3>1. container'[call.on] = "running"
      BY <1>11, <2>1
    <3>2. CASE d = call.on
      BY <3>1, <3>2
    <3>3. CASE d # call.on /\ c = call.on
      <4>1. container[d] = "running"
        BY <1>2, <1>4, <2>1, <3>3 DEF StartsInOrder
      <4> QED
        BY <1>11, <2>0, <3>3, <4>1
    <3>4. CASE d # call.on /\ c # call.on
      <4>1. container[c] = "running"
        BY <1>11, <2>0, <3>4
      <4>2. container[d] = "running"
        BY <1>4, <4>1 DEF Supplied
      <4> QED
        BY <1>11, <2>0, <3>4, <4>2
    <3> QED
      BY <3>2, <3>3, <3>4
  <2>2. CASE call.verb = "stop"
    <3>1. c # call.on
      BY <1>11, <2>2
    <3>2. container[c] = "running"
      BY <1>11, <2>0, <3>1
    <3>3. container[d] = "running"
      BY <1>4, <3>2 DEF Supplied
    <3>4. d # call.on
      BY <1>2, <1>4, <2>0, <2>2, <3>2 DEF StopsInOrder
    <3> QED
      BY <1>11, <2>0, <3>3, <3>4
  <2> QED
    BY <1>3, <2>1, <2>2
<1>15. ASSUME NEW i \in DOMAIN n.left, n.left[i].verb = "stop", NEW d \in Containers,
              <<d[1], n.left[i].on[1]>> \in needs, container'[d] = "running"
       PROVE  \E j \in DOMAIN n.left : j < i /\ n.left[j].verb = "stop" /\ n.left[j].on = d
  <2>1. Waits(n, "stop", n.left[i].on)
    BY <1>15 DEF Waits
  <2>2. call.verb = "stop"
    BY <1>3, <2>1
  <2>3. d # call.on /\ container[d] = "running"
    BY <1>11, <1>15, <2>2
  <2>4. i + 1 \in DOMAIN m.left /\ m.left[i + 1] = n.left[i] /\ i \in Nat
    BY <1>2
  <2>5. PICK j \in DOMAIN m.left : j < i + 1 /\ m.left[j].verb = "stop" /\ m.left[j].on = d
    BY <1>4, <1>15, <2>3, <2>4 DEF StopsInOrder
  <2>6. j # 1
    BY <1>2, <2>3, <2>5
  <2>7. j - 1 \in DOMAIN n.left /\ n.left[j - 1] = m.left[j] /\ j - 1 < i
    BY <1>2, <2>4, <2>5, <2>6
  <2> QED
    BY <2>5, <2>7
<1>16. ASSUME NEW i \in DOMAIN n.left, n.left[i].verb = "start", NEW d \in Present,
              <<n.left[i].on[1], d[1]>> \in needs
       PROVE  \/ \E j \in DOMAIN n.left : j < i /\ n.left[j].verb = "start" /\ n.left[j].on = d
              \/ container'[d] = "running" /\ ~Waits(n, "stop", d)
  <2>0. d \in Containers
    BY DEF Present
  <2>1. i + 1 \in DOMAIN m.left /\ m.left[i + 1] = n.left[i] /\ i \in Nat
    BY <1>2
  <2>2. \/ \E j \in DOMAIN m.left : j < i + 1 /\ m.left[j].verb = "start" /\ m.left[j].on = d
        \/ container[d] = "running" /\ ~Waits(m, "stop", d)
    BY <1>4, <1>16, <2>1 DEF StartsInOrder
  <2>3. CASE container[d] = "running" /\ ~Waits(m, "stop", d)
    <3>1. ~Waits(n, "stop", d)
      BY <1>2, <2>3
    <3>2. Waits(m, call.verb, call.on)
      BY <1>2 DEF Waits
    <3>3. d # call.on \/ call.verb = "start"
      BY <1>3, <2>3, <3>2
    <3>4. container'[d] = "running"
      BY <1>11, <2>0, <2>3, <3>3
    <3> QED
      BY <3>1, <3>4
  <2>4. ASSUME NEW j \in DOMAIN m.left, j < i + 1, m.left[j].verb = "start", m.left[j].on = d
        PROVE  \/ \E k \in DOMAIN n.left : k < i /\ n.left[k].verb = "start" /\ n.left[k].on = d
               \/ container'[d] = "running" /\ ~Waits(n, "stop", d)
    <3>1. CASE j = 1
      <4>1. call.verb = "start" /\ call.on = d
        BY <1>2, <2>4, <3>1
      <4> QED
        BY <1>3, <1>11, <4>1
    <3>2. CASE j # 1
      <4>1. j - 1 \in DOMAIN n.left /\ n.left[j - 1] = m.left[j] /\ j - 1 < i
        BY <1>2, <2>1, <2>4, <3>2
      <4> QED
        BY <2>4, <4>1
    <3> QED
      BY <3>1, <3>2
  <2> QED
    BY <2>2, <2>3, <2>4
<1>17. StopsInOrder(act[a])'
  BY <1>0, <1>15 DEF StopsInOrder
<1>18. StartsInOrder(act[a])'
  BY <1>0, <1>13, <1>16 DEF StartsInOrder, Waits
<1> QED
  BY <1>12, <1>14, <1>17, <1>18 DEF Undisturbed

LEMMA UnmovedKeepsOrder ==
  ASSUME NEW x \in Actors, Unmoved(x), ProjectInOrder(act[x]), needs' = needs
  PROVE  ProjectInOrder(act[x])'
<1>1. SUFFICES ASSUME act[x].pc = "project" PROVE ProjectInOrder(act[x])'
  BY DEF Unmoved, ProjectInOrder
<1> DEFINE m == act[x]
           n == act'[x]
<1>2. /\ n.pc = m.pc /\ n.verb = m.verb /\ n.members = m.members
      /\ n.known = m.known /\ n.left = m.left /\ n.results = m.results
      /\ n.calm => m.calm /\ container' = container
  BY DEF Unmoved
<1> HIDE DEF m, n
<1>3. StopsFirst(m) => StopsFirst(n)
  BY <1>2 DEF StopsFirst
<1>4. BringsBack(m) => BringsBack(n)
  <2>1. SomeFailed(m) <=> SomeFailed(n)
    BY <1>2 DEF SomeFailed
  <2>2. \A c : Started(m, c) <=> Started(n, c)
    BY <1>2 DEF Started
  <2>3. \A verb, c : Waits(m, verb, c) <=> Waits(n, verb, c)
    BY <1>2 DEF Waits
  <2> QED
    BY <1>2, <2>1, <2>2, <2>3 DEF BringsBack
<1>5. ASSUME n.calm, Undisturbed(m) PROVE Undisturbed(act[x])'
  <2>1. container' = container
    BY <1>2, <1>5
  <2>2. StopsInOrder(m) => StopsInOrder(act[x])'
    BY <1>2, <2>1 DEF StopsInOrder, n
  <2>3. StartsInOrder(m) => StartsInOrder(act[x])'
    BY <1>2, <2>1 DEF StartsInOrder, Waits, Present, n
  <2>4. Supplied => Supplied'
    BY <2>1 DEF Supplied, Present
  <2>5. m.known = container => n.known = container'
    BY <1>2, <2>1
  <2> QED
    BY <1>5, <2>2, <2>3, <2>4, <2>5 DEF Undisturbed, n
<1> QED
  BY <1>1, <1>2, <1>3, <1>4, <1>5 DEF ProjectInOrder, m, n

LEMMA ProjectsInit == ActionsInit => ProjectsInOrder
<1> SUFFICES ASSUME ActionsInit PROVE ProjectsInOrder
  OBVIOUS
<1>1. \A a \in Actors : act[a] = NoAct
  BY DEF ActionsInit
<1> QED
  BY <1>1, RemovalsInit, NoActIsAct DEF ProjectsInOrder, ProjectInOrder

LEMMA ProjectsNext ==
  ASSUME OneOfEach, ProjectsInOrder, [ActionsNext]_actionVars
  PROVE  ProjectsInOrder'
<1>0. /\ RemovalsAsked /\ RemovalsAsked' /\ ActionsTypeOK /\ ActionsTypeOK'
      /\ \A a \in Actors : ProjectInOrder(act[a]) /\ act[a] \in Act
  BY RemovalsNext, ActorsType DEF ProjectsInOrder, RemovalsAsked
<1> SUFFICES ASSUME NEW x \in Actors PROVE ProjectInOrder(act[x])'
  BY <1>0 DEF ProjectsInOrder
<1>1. CASE UNCHANGED actionVars
  <2>1. Unmoved(x) /\ needs' = needs
    BY <1>0, <1>1 DEF actionVars, Unmoved
  <2> QED
    BY <1>0, <2>1, UnmovedKeepsOrder
<1>2. ASSUME NEW a \in Actors, AnyAsks(a) PROVE ProjectInOrder(act[x])'
  <2>1. PICK m : Asked(m) /\ Disturb(a, m) /\ UNCHANGED <<needs, container>>
    BY <1>0, <1>2, AsksAre DEF AnyAsks
  <2>2. act'[a] = m /\ Apart(a)
    BY <1>0, <2>1, DisturbIs DEF Asked
  <2>3. CASE x # a
    BY <1>0, <2>1, <2>2, <2>3, UnmovedKeepsOrder DEF Apart
  <2>4. CASE x = a
    <3>1. ProjectInOrder(m)
      BY <1>0, <2>1, AskedInOrder DEF ActionsTypeOK
    <3>2. ProjectInOrder(m) => ProjectInOrder(act[x])'
      BY <2>1, <2>2, <2>4
         DEF ProjectInOrder, StopsFirst, BringsBack, SomeFailed, Started, Waits, Undisturbed, Supplied,
             StopsInOrder, StartsInOrder, Present
    <3> QED
      BY <3>1, <3>2
  <2> QED
    BY <2>3, <2>4
<1>3. ASSUME NEW a \in Actors, Works(a) PROVE ProjectInOrder(act[x])'
  <2> DEFINE m == act[a]
             n == act'[a]
             call == Head(m.left)
  <2>1. /\ Pending(a) /\ Apart(a) /\ needs' = needs
        /\ \E became \in {"done", "skipped", "failed"} :
             Next1(m, n, became) /\ (became = "skipped" => Skips(a, call))
    BY <1>0, <1>3, WorksIs
  <2>2. CASE x # a
    BY <1>0, <2>1, <2>2, UnmovedKeepsOrder DEF Apart
  <2>3. CASE x = a
    <3>1. SUFFICES ASSUME n.pc = "project" PROVE ProjectInOrder(act[x])'
      BY <2>3 DEF ProjectInOrder
    <3>2. PICK became \in {"done", "skipped", "failed"} :
            Next1(m, n, became) /\ (became = "skipped" => Skips(a, call))
      BY <2>1
    <3>3. m.left # <<>> /\ m \in Act /\ m.pc = "project"
          /\ n.left = Tail(m.left) /\ n.verb = m.verb /\ (n.calm => m.calm)
      BY <1>0, <2>1, <3>1, <3>2 DEF Pending, Next1
    <3>4. StopsFirst(m) /\ (m.verb = "restart" => BringsBack(m)) /\ (m.calm => Undisturbed(m))
      BY <1>0, <3>3 DEF ProjectInOrder
    <3>5. StopsFirst(n)
      BY <3>3, <3>4, StopsFirstKept
    <3>6. became = "skipped" => ((call.verb = "start") <=> (m.known[call.on] = "running"))
      BY <3>2 DEF Skips
    <3>7. n.verb = "restart" => BringsBack(n)
      <4> HIDE DEF m, n
      <4> QED
        BY <3>2, <3>3, <3>4, <3>6, BringsBackKept
    <3>8. n.calm => Undisturbed(act[a])'
      BY <1>0, <1>3, <3>3, <3>4, UndisturbedKept
    <3> QED
      BY <2>3, <3>5, <3>7, <3>8 DEF ProjectInOrder, StopsFirst, BringsBack, SomeFailed, Started, Waits
  <2> QED
    BY <2>2, <2>3
<1>4. ASSUME NEW a \in Actors, Answer(a) PROVE ProjectInOrder(act[x])'
  <2>1. act' = [act EXCEPT ![a] = NoAct] /\ act \in [Actors -> Act] /\ container' = container
        /\ needs' = needs
    BY <1>0, <1>4 DEF Answer, ActionsTypeOK
  <2>2. CASE x # a
    <3>1. Unmoved(x)
      BY <1>0, <2>1, <2>2 DEF Unmoved
    <3> QED
      BY <1>0, <2>1, <3>1, UnmovedKeepsOrder
  <2>3. CASE x = a
    BY <2>1, <2>3, NoActIsAct DEF ProjectInOrder
  <2> QED
    BY <2>2, <2>3
<1>5. ASSUME NEW c \in Containers, NEW state \in States, OthersMove(c, state)
      PROVE  ProjectInOrder(act[x])'
  BY <1>0, <1>5, OthersMoveIs, UnmovedKeepsOrder
<1> QED
  BY <1>1, <1>2, <1>3, <1>4, <1>5, StepsAre

LEMMA RestartFollows == ProjectsInOrder => RestartBringsBack
<1> SUFFICES ASSUME ProjectsInOrder, NEW a \in Actors,
                    act[a].pc = "project", act[a].verb = "restart", act[a].left = <<>>,
                    \A r \in act[a].results : r.became # "failed",
                    NEW c \in act[a].members
             PROVE  [call |-> [verb |-> "start", on |-> c], became |-> "done"] \in act[a].results
  BY DEF RestartBringsBack
<1>1. BringsBack(act[a])
  BY DEF ProjectsInOrder, ProjectInOrder
<1>2. ~SomeFailed(act[a])
  BY DEF SomeFailed
<1>3. ~Waits(act[a], "start", c)
  BY DEF Waits
<1> QED
  BY <1>1, <1>2, <1>3 DEF BringsBack, Started

LEMMA SuppliedFollows == ProjectsInOrder => NothingRunsWithoutItsNeeds
  BY DEF ProjectsInOrder, ProjectInOrder, Undisturbed, NothingRunsWithoutItsNeeds

\* When each service has one container, a restart that reports no failure has
\* started all that it stopped and all that it found stopped, whatever others did
\* beside it (runProjectAction, actions.ts).
THEOREM RestartCorrect == ASSUME OneOfEach PROVE ActionsSpec => []RestartBringsBack
<1>1. ProjectsInOrder /\ [ActionsNext]_actionVars => ProjectsInOrder'
  BY ProjectsNext
<1> QED
  BY <1>1, ProjectsInit, RestartFollows, PTL DEF ActionsSpec

\* When each service has one container and the dependencies have no cycle, no
\* service runs without one it needs at any moment of an action that nobody disturbs
\* (orderedProjectContainers, actions.ts).
THEOREM OrderRespectsNeeds == ASSUME OneOfEach PROVE ActionsSpec => []NothingRunsWithoutItsNeeds
<1>1. ProjectsInOrder /\ [ActionsNext]_actionVars => ProjectsInOrder'
  BY ProjectsNext
<1> QED
  BY <1>1, ProjectsInit, SuppliedFollows, PTL DEF ActionsSpec

(***************************************************************************)
(* The host's parts together                                               *)
(***************************************************************************)

\* Every behaviour of the composition is one of each part: a step of one part
\* leaves the others where they are.  What is proved of a part holds of the
\* composition.
THEOREM HostIsItsParts == Spec => BridgesSpec /\ ActionsSpec /\ SettingsSpec
<1>1. Init => BridgesInit /\ ActionsInit /\ SettingsInit
  BY DEF Init
<1>2. [Next]_hostVars => /\ [BridgesNext]_bridgeVars
                         /\ [ActionsNext]_actionVars
                         /\ [SettingsNext]_settingsVars
  <2> SUFFICES ASSUME [Next]_hostVars
               PROVE  /\ [BridgesNext]_bridgeVars
                      /\ [ActionsNext]_actionVars
                      /\ [SettingsNext]_settingsVars
    OBVIOUS
  <2>1. CASE OfBridges /\ BridgesNext
    BY <2>1 DEF OfBridges
  <2>2. CASE OfActions /\ ActionsNext
    BY <2>2 DEF OfActions
  <2>3. CASE OfSettings /\ SettingsNext
    BY <2>3 DEF OfSettings
  <2>4. CASE OfRunner \/ OfShares \/ UNCHANGED hostVars
    BY <2>4 DEF OfRunner, OfShares, hostVars
  <2> QED
    BY <2>1, <2>2, <2>3, <2>4 DEF Next
<1> QED
  BY <1>1, <1>2, PTL DEF Spec, BridgesSpec, ActionsSpec, SettingsSpec

\* The state of the host's parts has the shapes the model declares.
THEOREM HostTypeCorrect == Spec => []HostTypeOK
<1>1. BridgesTypeOK /\ ActionsTypeOK /\ SettingsTypeOK <=> HostTypeOK
  BY DEF HostTypeOK
<1> QED
  BY <1>1, HostIsItsParts, BridgesTypeInvariant, ActionsTypeCorrect, SettingsTypeCorrect, PTL
=============================================================================
