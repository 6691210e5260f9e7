-------------------------------- MODULE Live --------------------------------
(***************************************************************************)
(* The snapshot cache, the hub, and the browsers.                          *)
(*                                                                         *)
(* A change of Docker's state reaches the hub as an event, unless the      *)
(* stream is down: the hub drops the cached snapshot and tells every       *)
(* connected browser, which fetches again a little later.  Building a      *)
(* snapshot lists the containers, then inspects them; a read joins the     *)
(* build under way, but a forced read starts one of its own, and whichever *)
(* build ends last is cached, for a second.  A listing that fails makes a  *)
(* snapshot too: without containers, it says that Docker was out of reach, *)
(* and is cached and handed out like any other.                            *)
(*                                                                         *)
(* Docker's state is the number of changes there were.                     *)
(***************************************************************************)
EXTENDS Integers

CONSTANTS
  Browsers,
  Builds,          \* bound: builds under way at once
  NoBuild,
  MaxChanges,      \* bound
  MaxBreaks        \* bound: lost streams, of Docker's or of a browser's, and
                   \* listings that fail

ASSUME LiveConstants ==
  NoBuild \notin Builds /\ MaxChanges \in Nat /\ MaxBreaks \in Nat

VARIABLES
  docker,      \* the state of Docker
  stream,      \* Docker's event stream is up
  heard,       \* the last change the hub heard of
  cached,      \* the cached snapshot; NoSnapshot when dropped or a second old
  pending,     \* the build a read joins
  builds,      \* builds[b]
  browser,     \* browser[w]
  forced,      \* a request that reads with force
  lost,        \* the last change was not heard of: the stream was down
  overtaken,   \* at the last event, a snapshot listed before it was not yet cached
  refused,     \* a listing failed, and nothing was published since
  breaks

liveVars == <<docker, stream, heard, cached, pending, builds, browser, forced, lost,
              overtaken, refused, breaks>>

NoSnapshot  == -1
Unreachable == -2                      \* the snapshot that has reachable = false
Snapshot    == 0..MaxChanges
HandedOut   == Snapshot \cup {Unreachable}

\* dirty: the browser was told and will fetch; missed: it was not, being away.
Window == [up : BOOLEAN, dirty : BOOLEAN, missed : BOOLEAN,
           build : Builds \cup {NoBuild}, view : HandedOut \cup {NoSnapshot}]

Building == [pc : {"free", "listing", "listed"}, of : HandedOut \cup {NoSnapshot}]

\* asked: Docker's state at the call; stale: the answer showed an older one.
Forced == [build : Builds \cup {NoBuild}, asked : Snapshot, stale : BOOLEAN]

LiveInit ==
  /\ docker = 0
  /\ stream = TRUE
  /\ heard = 0
  /\ cached = NoSnapshot
  /\ pending = NoBuild
  /\ builds = [b \in Builds |-> [pc |-> "free", of |-> NoSnapshot]]
  /\ browser = [w \in Browsers |-> [up |-> TRUE, dirty |-> TRUE, missed |-> FALSE,
                                    build |-> NoBuild, view |-> NoSnapshot]]
  /\ forced = [build |-> NoBuild, asked |-> 0, stale |-> FALSE]
  /\ lost = FALSE
  /\ overtaken = FALSE
  /\ refused = FALSE
  /\ breaks = 0

cache   == <<cached, pending, builds>>
readers == <<browser, forced>>
blame   == <<lost, overtaken, refused>>

Break == breaks < MaxBreaks /\ breaks' = breaks + 1

(***************************************************************************)
(* Docker and the hub                                                      *)
(***************************************************************************)

DockerChanges ==
  /\ docker < MaxChanges
  /\ docker' = docker + 1
  /\ lost' = (lost \/ ~stream)
  /\ UNCHANGED <<stream, heard, cache, readers, overtaken, refused, breaks>>

Told(w) == IF browser[w].up THEN [browser[w] EXCEPT !.dirty = TRUE, !.missed = FALSE]
                            ELSE [browser[w] EXCEPT !.missed = TRUE]

\* Mutant: the browsers are told, and the cached snapshot stays.
HearOnly ==
  /\ stream /\ heard < docker
  /\ heard' = heard + 1
  /\ browser' = [w \in Browsers |-> Told(w)]
  /\ overtaken' = (\E b \in Builds : builds[b].pc = "listed" /\ builds[b].of < heard')
  /\ lost' = FALSE
  /\ refused' = FALSE
  /\ UNCHANGED <<docker, stream, cache, forced, breaks>>

\* One event: invalidate, then publish.  A build under way is left alone.
Hear ==
  /\ stream /\ heard < docker
  /\ heard' = heard + 1
  /\ cached' = NoSnapshot
  /\ browser' = [w \in Browsers |-> Told(w)]
  /\ overtaken' = (\E b \in Builds : builds[b].pc = "listed" /\ builds[b].of < heard')
  /\ lost' = FALSE
  /\ refused' = FALSE
  /\ UNCHANGED <<docker, stream, pending, builds, forced, breaks>>

\* What was not read from the stream is gone with it.
StreamBreaks ==
  /\ stream
  /\ Break
  /\ stream' = FALSE
  /\ lost' = (lost \/ heard < docker)
  /\ UNCHANGED <<docker, heard, cache, readers, overtaken, refused>>

\* The loop connects again and hears what happens from now on.
StreamReturns ==
  /\ ~stream
  /\ stream' = TRUE
  /\ heard' = docker
  /\ UNCHANGED <<docker, cache, readers, blame, breaks>>

(***************************************************************************)
(* The cache                                                               *)
(***************************************************************************)

FreeBuilds == {b \in Builds : builds[b].pc = "free"}

NextBuild  == CHOOSE b \in FreeBuilds : TRUE

\* A new build, which reads from now on join.
StartBuild(b) ==
  /\ FreeBuilds # {}
  /\ builds' = [builds EXCEPT ![b] = [pc |-> "listing", of |-> NoSnapshot]]
  /\ pending' = b
  /\ UNCHANGED cached

ListContainers(b) ==
  /\ builds[b].pc = "listing"
  /\ builds' = [builds EXCEPT ![b] = [pc |-> "listed", of |-> docker]]
  /\ UNCHANGED <<docker, stream, heard, cached, pending, readers, blame, breaks>>

\* The catch of buildSnapshot: there is nothing to inspect, and no error.
ListingFails(b) ==
  /\ builds[b].pc = "listing"
  /\ Break
  /\ builds' = [builds EXCEPT ![b] = [pc |-> "listed", of |-> Unreachable]]
  /\ refused' = TRUE
  /\ UNCHANGED <<docker, stream, heard, cached, pending, readers, lost, overtaken>>

\* Whoever waits for this build has it; and no build is pending any more, even
\* when another one still is.
FinishBuild(b) ==
  /\ builds[b].pc = "listed"
  /\ cached' = builds[b].of
  /\ pending' = NoBuild
  /\ builds' = [builds EXCEPT ![b] = [pc |-> "free", of |-> NoSnapshot]]
  /\ browser' = [w \in Browsers |->
       IF browser[w].build = b THEN [browser[w] EXCEPT !.build = NoBuild, !.view = builds[b].of]
       ELSE browser[w]]
  /\ forced' = IF forced.build = b
               THEN [build |-> NoBuild, asked |-> 0, stale |-> builds[b].of \in 0..(forced.asked - 1)]
               ELSE forced
  /\ UNCHANGED <<docker, stream, heard, blame, breaks>>

\* A second passed.
Expire ==
  /\ cached # NoSnapshot
  /\ cached' = NoSnapshot
  /\ UNCHANGED <<docker, stream, heard, pending, builds, readers, blame, breaks>>

(***************************************************************************)
(* Readers                                                                 *)
(***************************************************************************)

\* The debounce ends and the browser fetches: an answer still under way is
\* dropped for the new one.
Fetch(w) ==
  /\ browser[w].dirty
  /\ \/ /\ cached # NoSnapshot
        /\ browser' = [browser EXCEPT ![w].dirty = FALSE, ![w].build = NoBuild, ![w].view = cached]
        /\ UNCHANGED cache
     \/ /\ cached = NoSnapshot /\ pending # NoBuild
        /\ browser' = [browser EXCEPT ![w].dirty = FALSE, ![w].build = pending]
        /\ UNCHANGED cache
     \/ /\ cached = NoSnapshot /\ pending = NoBuild
        /\ StartBuild(NextBuild)
        /\ browser' = [browser EXCEPT ![w].dirty = FALSE, ![w].build = NextBuild]
  /\ UNCHANGED <<docker, stream, heard, forced, blame, breaks>>

\* Mutant: a forced read joins the build under way, too.
ForceJoined ==
  /\ forced.build = NoBuild
  /\ \/ /\ pending # NoBuild
        /\ forced' = [build |-> pending, asked |-> docker, stale |-> FALSE]
        /\ UNCHANGED cache
     \/ /\ pending = NoBuild
        /\ StartBuild(NextBuild)
        /\ forced' = [build |-> NextBuild, asked |-> docker, stale |-> FALSE]
  /\ UNCHANGED <<docker, stream, heard, browser, blame, breaks>>

\* cache.get(true), as sharing, bridges and the actions on containers call it.
ForceRead ==
  /\ forced.build = NoBuild
  /\ StartBuild(NextBuild)
  /\ forced' = [build |-> NextBuild, asked |-> docker, stale |-> FALSE]
  /\ UNCHANGED <<docker, stream, heard, browser, blame, breaks>>

BrowserBreaks(w) ==
  /\ browser[w].up
  /\ Break
  /\ browser' = [browser EXCEPT ![w].up = FALSE]
  /\ UNCHANGED <<docker, stream, heard, cache, forced, blame>>

\* The server says hello; the page notes that it is live and fetches nothing.
BrowserReturns(w) ==
  /\ ~browser[w].up
  /\ browser' = [browser EXCEPT ![w].up = TRUE]
  /\ UNCHANGED <<docker, stream, heard, cache, forced, blame, breaks>>

HubStep      == Hear \/ StreamReturns
BuildStep(b) == ListContainers(b) \/ FinishBuild(b)

LiveNext ==
  \/ DockerChanges \/ HubStep \/ StreamBreaks
  \/ \E b \in Builds : BuildStep(b) \/ ListingFails(b)
  \/ Expire
  \/ ForceRead
  \/ \E w \in Browsers : Fetch(w) \/ BrowserBreaks(w) \/ BrowserReturns(w)

\* The hub's loop goes on, and a build ends, its listing answered or not.
LiveFairness ==
  /\ WF_liveVars(HubStep)
  /\ \A b \in Builds : WF_liveVars(BuildStep(b))
  /\ \A w \in Browsers : SF_liveVars(Fetch(w)) /\ WF_liveVars(BrowserReturns(w))

LiveSpec == LiveInit /\ [][LiveNext]_liveVars /\ LiveFairness

(***************************************************************************)
(* Properties                                                              *)
(***************************************************************************)

LiveTypeOK ==
  /\ docker \in Snapshot /\ heard \in 0..docker
  /\ stream \in BOOLEAN /\ lost \in BOOLEAN /\ overtaken \in BOOLEAN /\ refused \in BOOLEAN
  /\ cached \in HandedOut \cup {NoSnapshot}
  /\ pending \in Builds \cup {NoBuild}
  /\ builds \in [Builds -> Building]
  /\ browser \in [Browsers -> Window]
  /\ forced \in Forced
  /\ breaks \in 0..MaxBreaks

\* A forced read never answers with a state older than the one it was asked in,
\* whatever builds are under way and in whichever order they end.  It may answer
\* that Docker was out of reach.
ForcedReadIsFresh == ~forced.stale

UpToDate ==
  \A w \in Browsers : \/ browser[w].view = docker
                      \/ browser[w].view = Unreachable /\ refused
                      \/ browser[w].missed \/ lost \/ overtaken

\* In the end every browser shows what Docker runs, unless
\*   - it was away at the last event (the hello of its return fetches nothing),
\*   - the hub did not hear of the last change,
\*   - it heard of it while an older listing was still to be cached, or
\*   - the page shows that Docker was out of reach, and no event came after the
\*     listing that failed: the hub's own return to Docker tells no page to fetch
\*     again.
BrowsersCatchUp == <>[]UpToDate
=============================================================================
