# Portta, specified and checked

Portta is a development gateway: Traefik routes local host names to containers of
many Compose projects, a web panel (Node, Hono) manages them, a small ForwardAuth
service keeps strangers out, and a `portta` command does the same from a shell.
There is no central lock and hardly a transaction: the parts share files, a Docker
daemon and a Postgres database. This directory holds TLA+ specifications of the
parts whose state is shared that way, the TLC configurations that check them on
small instances, and TLAPS proofs of theorems about them. Paths below are relative
to `src/`; `server/` stands for `apps/web/src/server/`, `ui/` for `apps/web/src/ui/`.

Run everything from this directory:

    tlc -workers 2 -config Shares.cfg MCShares.tla      # any .cfg, see "Runs"
    tlapm SharesProofs.tla                              # and the other *Proofs

## 1. Inventory

### Parts, state, operations

| Part | State | Operations | Code |
|---|---|---|---|
| Temporary shares | `portta-shares.yaml`: one router and one record per share | create, regenerate, revoke, list; expiry is lazy | `server/core/shares.ts`, `server/routes/shares.ts` |
| Protection store, API tokens | `protections.json`: credentials with epochs, tokens | set, remove, create token, revoke token; atomic write by rename | `packages/core/src/protections.ts`, `server/routes/tokens.ts` |
| Login routers | `portta-auth.yaml`, rendered from the store | rendered after each change, and at every start of the panel | `packages/core/src/dynamic.ts`, `server/core/dynamic.ts` |
| Commands on both | the same three files, from another process | `share revoke`, `share gc`, `auth protect`, `auth unprotect` | `packages/cli/src/commands/share.ts`, `auth.ts` |
| Auth service | limiter buckets in memory; sessions are signed cookies and kept nowhere | login, verify, logout | `apps/auth/src/app.ts`, `rate-limit.ts`, `session.ts` |
| Runner and project operations | `state/runner/request.json`, one prepared container, what it has read | rebuild, remove, start a remembered environment, forget it | `server/core/operations.ts`, `runner.ts`, `scripts/lib/runner-exec.sh` |
| Board | rows with a column and a sparse position; row and advisory locks | create, move, renumber, set a status, remove | `server/db/tasks.ts` |
| Task tree and drafts | parent links, draft flags | set a parent behind a walk, open a draft, edit and publish it, sweep, remove with what is below | `server/routes/tasks.ts`, `server/db/tasks.ts` |
| GitHub synchronisation | one row per issue, parent links, a cursor, a running flag | a pass by timer, button and webhook | `server/integrations/github/sync/` |
| Tasks bound to issues | a binding with its state and the time of the answer it was made from | edit and push, pull, create from an issue, settle a conflict | `server/core/task-write.ts`, `server/integrations/github/tasks.ts` |
| Development sessions | session rows, activity events, what the watcher saw last (in memory) | start, patch, end, abandon, the watcher's tick, pruning | `server/core/commit-watch.ts`, `server/db/sessions.ts` |
| Snapshot cache, events | the last inventory, builds in flight; the hub's stream; the browsers' pages | read, forced read, expire, drop on Docker's events, fetch when told | `server/core/inventory.ts`, `server/core/events.ts`, `ui/lib/live.ts` |
| TCP bridges | containers of the panel's own | open, close, collect | `server/core/access.ts`, `packages/cli/src/commands/access.ts` |
| Container actions | none of its own | start, stop, restart and remove over a snapshot, one container or a project in its order | `server/core/actions.ts`, `packages/core/src/project-order.ts`, `packages/cli/src/commands/projects.ts` |
| Settings, apply | `.env`, a prepared applier container, the browser's dialog | save, apply, watch | `packages/core/src/env.ts`, `server/core/configview.ts`, `apply.ts`, `packages/cli/src/commands/config.ts`, `ui/lib/use-apply.ts` |
| Environments table | rows of the environments seen | upsert off the request path, forget | `server/db/index.ts`, `server/db/environments.ts` |
| Overrides and aliases | one YAML file | synchronous rewrite | `server/core/overrides.ts` |
| Inventory, discovery, diagnostics, git scan, metrics | none | pure functions and reports | `packages/core/src/`, `server/core/git.ts`, `metrics.ts` |
| Web interface, command line, installer | client caches, none on the server | — | `apps/web/src/ui/`, `packages/cli/`, `bin/` |

### How they interact, and what makes it hard

- **Shared files without locks.** The panel and every command read whole documents,
  change them in memory and write them back. Node runs one handler between two
  awaits, so a handler without an await is atomic towards other requests, never
  towards a command, whose own reads and writes fall between the panel's. `createShare` and `regenerateShare` have exactly one await, the
  scrypt hash, and it falls between the read of the store and its write. `.env` is
  truncated and rewritten in place, because a bind mount follows the inode.
- **One document, two owners.** API tokens live in the document that shares rewrite.
- **Several files, one operation.** A create writes store, login routers and share
  routers in this order, a revoke the other way round; a process may die in between.
- **A mailbox of one place.** The panel hands the runner a job by writing a file and
  starting a container; the script reads the file one `jq` at a time, later.
- **Effects before causes.** After a removal the panel cleans up when the runner was
  started, not when it is done.
- **Checks before awaits.** The limiter is asked before body and password are awaited
  and told of a failure after them. A walk up the parents reads one row at a time and
  the parent is written after it. An open looks for a bridge and creates one later.
- **Some writers lock, others do not.** A move locks its row, a column and neighbours; a
  creation locks the column; the synchronisation and a removal lock a row.
- **Two masters.** An issue changes on GitHub and here; passes and pushes overlap, each
  with what it read some awaits ago, and a binding says who is ahead.
- **Progress that is kept in parts.** The cursor, the ten pages of a pass, the last five
  events of the watcher: each must be enough for whoever goes on after a failure.
- **State that disappears.** A removed record takes its epoch along; the limiter is
  gone after a restart, as is what the watcher saw; cookies survive both. Applying
  settings takes the panel away that is asked how it went.
- **Old pictures.** Handlers decide on a snapshot of Docker's state that may be of
  any age; a build that began before an event may be cached after it.

### What correct means

- *Shares and protections.* A protected route never exists without its credential, unless
  an operator takes it away;
  a container is shared once; the newest password shown is the one in force;
  a password changes only with its epoch; a withdrawn share does not come back and
  leaves nothing behind; a token is what its owner was told; each operation happens
  as a whole or not at all, crashes included; every operation ends.
- *Runner.* What Compose runs is the job of the request that started it, in one
  piece; nothing is destroyed that nobody confirmed by name; an environment whose
  directory is there stays remembered; requests are answered, the runner stops.
- *Auth service.* A session that is accepted belongs to the credential in force; the
  limiter admits nobody once enough failures count, overshoots by a bounded number,
  and keeps its lock; every login is answered.
- *Board and tree.* A card lands where it was dropped, between the neighbours it was given,
  and moves nobody else; two appended cards never tie; every move ends, deadlocks
  included. No task is below itself; a walk ends; the sweep of old drafts takes no work.
- *GitHub.* What the cursor leaves behind is as it is on GitHub; a complete pass leaves the
  links GitHub has; the projection was real at the time it says; a pass never
  overwrites an edit GitHub has not had; tasks do not stray; in the end task and issue
  agree, or the binding says that they do not.
- *Sessions.* Each commit up to the one the watcher saw was told, and each active session
  has it, through failures and restarts.
- *Cache.* A forced read is never older than its question; in the end pages show what runs.
- *Host.* A service has one running bridge; stops and starts keep the order of what
  services need; a restart brings back what it stopped; nothing that runs is
  removed unforced; a setting said to be saved is not lost; "the gateway is back"
  means that what was asked to be applied is applied.

`PROJECT.json` lists each hazard at its line, with the properties that cover it or the
reason why none does.

## 2. Plan

What many actors share and what destroys or exposes something came first.

1. `Shares` and `ShareDirectory` — files without locks, refinement. **Done.**
2. `Runner` — mailbox, script, cleanup. **Done.**
3. `Auth` — limiter and sessions. **Done**, without the Basic and Bearer branches.
4. `Board`, `TaskTree` — locks beside writes without them, walks, drafts. **Done.**
5. `IssueSync`, `Binding` — cursor, overlapping passes, pushes and pulls. **Done.**
6. `Sessions` — the watcher between a file, events and rows. **Done.**
7. `Live` — builds in flight, forced reads, events, pages. **Done.**
8. `Bridges`, `Actions` — Docker, call by call. **Done**, see the components' notes for
   what is left out.
9. `Settings` — `.env` written in place, the applier, the dialog. **Done.**

Every invariant and every action property that a passing run checks is stated by a theorem;
what is left to TLC is liveness (section 6).

## 3. The modules

| Module | What it is |
|---|---|
| `Shares` | shares, protection store, tokens, login routers, the panel's requests and the commands |
| `ShareDirectory` | what sharing promises, every operation one step |
| `Runner` | dispatch of a job, the script that runs it, cleanup, remembered environments |
| `Auth` | login, limiter, sessions, changes of the credential meanwhile |
| `Board` | moves of tasks as transactions, and the writes beside them |
| `TaskTree` | parents, drafts, the sweep, removal with what is below |
| `IssueSync` | passes that project a repository's issues and links |
| `Binding` | one issue, its row, its task, edits and passes on both sides |
| `Sessions` | the watcher of a repository, its events, and the sessions' rows |
| `Live` | snapshot cache, hub and browsers |
| `Bridges` | opening, closing and collecting bridges |
| `Actions` | actions on containers and on a project in its order |
| `Settings` | saving `.env`, applying it, and the dialog that watches |
| `MCShares`, `MCRunner`, `MCAuth`, `MCActions` | instances of one module for TLC |
| `MCPanel` | `Board`, `TaskTree`, `IssueSync`, `Binding`, `Sessions` and `Live` in one run |
| `MCHost` | `Bridges`, `Actions` and `Settings`, and the liveness of `Shares` and `Runner` |
| `SharesProofs`, `RunnerProofs`, `AuthProofs` | theorems of the module each is named after |
| `TasksProofs`, `GitHubProofs` | theorems of `Board` and `TaskTree`; of `Binding` and `IssueSync` |
| `PanelProofs`, `HostProofs` | theorems of `Sessions`, `Live` and `MCPanel`; of `Bridges`, `Actions`, `Settings` and `MCHost` |
| `SetLemmas` | facts about finite sets, sequences and recursive functions that several proofs need |

Definitions whose comment starts with "Mutant" are wrong on purpose: each is a plausible
bug in the definition that follows it, put in its place to see that a property notices.
`PROJECT.json` pairs them with properties, and maps each definition to its source lines.

`MCPanel` and `MCHost` do not compose: their parts share no state in the models, so that
checking all interleavings of them would show nothing more and cost everything. A behaviour is of one
part, chosen at the start. Parts that do interact are one module: the store, the two routers'
files and the commands in `Shares`; the file, the container and the database in `Runner`; the
issue, the row, the binding and the task in `Binding`; the cache, the hub and the pages in `Live`.

### Shares

`shares`, `store` and `loginRouters` are the three files. `op[p]` is what request or
command `p` still holds in local variables: the list it saw, the list it will write, the
store it read and changed, the password it hashes. Each read of a file and each write is a
step of its own, so that another process comes between them; `loop` is the request that
holds the panel's event loop and so keeps other *requests* out until it awaits or ends.

| Action | Code |
|---|---|
| `CreatePublic`, then `WriteRouter` | `createShare` without a password: no await between the read and the write of the list |
| `CreateProtected`, then `WriteStore`, `WriteAuth`, `WriteRouter` | `createShare`: both reads up to the await; then store, login routers, share routers |
| `Regenerate`, then `WriteStore`, `WriteAuth` | `regenerateShare`; refused when the host's record is not the share's |
| `Protect`, then the same | `portta auth protect`, of any host that can be named, in the scope of the record it finds |
| `Revoke`, `Collect`, then `WriteRouter`, `ReadStore`, `WriteStore`, `WriteAuth` | `revokeShare`, `share revoke`, `share gc`: the list is read and decided on, written; then the store is read, written |
| `Unprotect`, then `WriteStore`, `WriteAuth` | `portta auth unprotect`, of any host with a record, a routed share's included |
| `CreateToken`, `RevokeToken`, then `WriteStore` | `POST` and `DELETE /auth/tokens`, without an await |
| `PanelStart`, then `WriteAuth` | the reconcile at the start |
| `PanelCrash`, `CommandDies`, `Tick` | crashes; time |

The store that `setProtection` extends is read *before* the await in its second argument
is reached: JavaScript evaluates arguments from left to right. That is why `op` keeps it.

A record is kept by its host, as `protectionForHost` finds it, with a scope that is the
share's (`share:<id>`) or the host's own (`host:<host>`). An id stands for its share's host
too. So `auth unprotect` of a share's host takes the share's record from under its router,
`auth protect` of one with a record rewrites that record under its scope, and of one without
makes a `host:` record, which `regenerateShare` then refuses to replace and a withdrawal
does not remove. The host of a share that is still being made has random characters nobody
knows, so a command cannot name it before its record is in the store (`Nameable`).

Ghosts, which the program does not have: `told` and `toldToken` (what callers were
answered), `used` (ids drawn), `withdrawn` (ids that left the list), `killed` (a command died
between two writes), `unguarded` (hosts whose record was taken by `auth unprotect` and not set
again), `outdated` (who read the store before its last write and is about to write it), and
`stale`: some document was overwritten from a read older than it. For the store that is
a write by somebody `outdated`, so that two writers who read the same store count as
overlapping even when the file looks the same again in between. Most properties are stated for
`~stale`, because with it they fail, as the run `shares_lost_credential` shows; the ghost
separates that one cause from all the others, and what is checked is that crashes,
commands, expiry and orders of requests are not causes of their own. `unguarded` is an
exception of `CredentialBeforeRouter` only, and only for the share whose record was asked away.

Abstractions: ids do not repeat (two random bytes in the code). Parsing, hashing and host
names are the record they yield. The write of a file is one step (how `.env` is torn is in
`Settings`). Two reads at the beginning of one request are one step. The panel's and the
dashboard's own records, which the panel sets from its configuration when it starts and when settings are
saved, are left out.

### ShareDirectory

Shares that are reachable, the password each destination accepts, what an operator waived
the password of, and tokens; `Publish`, `Rotate`, `Remove`, `Unguard`, `Waive`, `Issue`, `Pass`.
`Rotate` and `Unguard` are of whatever asks for a password, `Guardable`: project hosts and routed
protected shares. The mapping in `Shares` hides a record whose share is not routed yet, or not
any more, or is public; `waived` is `unguarded`, and `Waive` what is noted of a host that is not
guardable, where it shows nowhere. `ImplementsDirectory` says that every step of the handlers and
commands, a crash included, is one whole operation or none.

### Runner

`label`, `volumes` and `dirs` are the host; `rows`, `records`, `snapshot` and `seen` the
panel's knowledge of it; `file` is `request.json` as a reader finds it, empty between the
truncation and the write of `writeFileSync`; `runner` is the container with the fields its
script has read so far; `op[r]` is how far request `r` got.

| Action | Code |
|---|---|
| `Rebuild`, `Remove`, `StartRemembered` | the handlers up to `dispatchRunner` |
| `Inspect`, `Truncate`, `Fill`, `Start` | `dispatchRunner`: status, request file, start |
| `Cleanup`, `Forget` | `cleanupPorttaRecords` |
| `ForgetRemembered` | `DELETE /environments/:project` |
| `ReadVerb` … `ReadDir`, `Check` | `runner-exec.sh` up to Compose, a read per field |
| `Build`, `Up`, `Down`, `RemoveDirectory`, `Fails` | the Compose commands and `rm` |
| `Refresh`, `RecordSeen` | a new snapshot; its rows, written later |
| `HostUp`, `PanelCrash` | the owner's `compose up`; the panel dies |

Ghosts: `raced` (two requests were past the check at once), `asked` (losses an operator
asked for by name), and `runner.for` (the job of the request that started the container).

Abstractions: the runner is prepared (`PORTTA_RUNNER=true`). Only the verbs the panel sends.
A Compose command succeeds or fails as a whole, although `down` and `rm` are separate
steps. The deletions of `cleanupPorttaRecords` before the row's are one step. Refusals that
only keep an action from being taken (dirty checkout, not operable) are left out: a
removal is taken to be admitted, which allows more, not less.

### Auth

`store[s]` is the record of a scope, changed by other processes; `buckets` the limiter;
`sessions` every cookie ever issued, because a browser may send any of them again;
`op[r]` a login with the record it read before its awaits.

| Action | Code |
|---|---|
| `Begin` | `POST /__portta/auth/login` up to `verifyPassword`; a locked key changes nothing |
| `Accept` | `limiter.success`, `issueSession` with the epoch that was read |
| `Refuse`, `Answer` | `limiter.failure` before and after its delay |
| `SetCredential`, `RemoveCredential` | `setProtection`, `removeProtection` |
| `Restart`, `Tick` | the limiter is lost, the sessions are not; time |

Ghosts: `life` in a record and `removals` (which records of a scope were created after a
removal), and `failed` (failures that count, kept beside the limiter so that a limiter
that forgets is noticed). Every credential set is a new one, and its
store is taken to be written without the overwrites `Shares` is about. The failures of a
bucket are a set of times, numbered where two fall on one time, since all the code asks of
its list is how many are left and when they were. A guess of 0
stands for a wrong user name or password. `Limit`, `Window`, `Lock` are 5, 10 and 15
minutes in the code; the assumption `Window <= Lock` is what `FailuresLock` needs.

### Board

`row[t]` is a task's committed row; `rowLock` and `columnLock` are Postgres' locks; `txn[m]`
is the transaction of move `m`, whose writes become visible when it commits.

| Action | Code |
|---|---|
| `AskMove` | `POST /tasks/:id/move` up to `moveTask`: the neighbours must exist |
| `TakeRow`, `TakeColumn`, `TakeNeighbour` | `moveTask`: `FOR UPDATE`, `pg_advisory_xact_lock`, a neighbour with its checks |
| `Renumber`, `LockNext`, `Rank` | no room left: every other row of the column is locked and numbered anew |
| `Commit`, `DeadlockAbort` | the position computed and written; Postgres ends a ring of waiters |
| `Create`, `SetStatus`, `Remove` | a creation under the column's lock; the synchronisation's status; a removal |

`NextToLock` is the row of the renumbering that `ORDER BY position, id` yields next.

Ghost: `placed` in a row says how it got there (appended, between neighbours, carried by the
synchronisation, which keeps a position of another column). Positions are sparse by `Step`, 2 here and 1024 in the
code: what matters is that the middle of two may be one of them.

### TaskTree

`tree[t]` is a row with its parent, its draft flag and whether it was edited; `ask[c]` a
request between two of its queries.

| Action | Code |
|---|---|
| `AskParent`, `Walk`, `WriteParent` | `PATCH /tasks/:id` with a parent: `wouldCycle` one query at a time, then the write |
| `AskEdit`, `WriteStatus`, `WriteEdit` | an edit that publishes a draft; with a status it is two writes |
| `AskDraft`, `Sweep`, `FindDraft`, `CreateDraft` | opening a draft: the old ones are listed and removed one by one, the caller's own is looked for, one is created |
| `Publish`, `Delete`, `GrowOld`, `Stop` | a task created without a draft; removal with all below; a day passes; a request is cut |

`Below(S)` is the least set that holds `S` and, with a task, all that hang below it: what
`ON DELETE CASCADE` removes, cycle or not.

Ghosts: `crossed` (a parent was written on the strength of a walk another parent's write
overtook: then two requests do close a cycle), and `late` (drafts first edited while a sweep
was removing what it had listed). Both are what the code leaves open; the properties say that
nothing else breaks them.

### IssueSync

`issue` and `parentOf` are GitHub's; `projected`, `links` and `cursor` the database's;
`pass[s]` is the pass of the timer or of a request.

| Action | Code |
|---|---|
| `Tick`, `Button`, `Delivery` | the timer, `POST …/sync`, a webhook (which reads from the beginning) |
| `FetchPage`, `Upsert`, `FetchChildren`, `ReplaceLinks`, `RecordCursor` | `syncRepositoryIssues`: pages, rows, children, links, cursor |
| `FailPass`, `RestartPanel` | a call fails; the process ends |
| `Edit`, `EditChildren` | somebody changes an issue or hangs one below another |

Ghosts: `raced` (two passes at once, or a page list that moved under a pass) and `complete`
in a pass. What the code leaves open then — an older answer over a newer row, an issue that
slips from a page to one already read — is listed below and not in a property.

### Binding

One issue. `history` is the issue on GitHub after each change; `stored` the projected row;
`task` and `binding` the panel's side; `worker[w]` what the timer and a request are doing.

| Action | Code |
|---|---|
| `EditTask`, `FindLink`, `Plan`, `MarkPending`, `Send`, `SendFails`, `StoreAnswer`, `MarkPushed`, `MarkError` | `write` of a task and `pushToGitHub` |
| `StartPass` … `RecordPass` | `syncRepositoryIssues` and `applyIssueToTask`: fetch, store, create and bind, or reconcile |
| `Verdict` | `reconcileBinding`, whose times are whole seconds: a later change may have the second of the known one (`sameSecond`) |
| `SettleRemote`, `SettleLocal` | the two ways to resolve a conflict |

Ghosts: `strays` and `mishaps`: which of five overlaps the code leaves open has happened
(an edit over a pass's decision, an older answer over a newer row, a push that marks the
binding while another edit waits, two passes that both create, a restart in between).

### Sessions

`scan` is the file the host writes; `activity` the events; `seen` what the watcher saw
last; `watch` its tick; `dev[s]` a session's row.

| Action | Code |
|---|---|
| `ListSessions`, `ReadScan`, `Recall`, `TellCommits`, `RecordCommits`, `EndTick` | `createCommitWatch`'s tick |
| `TellingFails`, `TickFails`, `RestartWatch` | an event that cannot be appended is dropped; anything else ends the tick; the memory is lost |
| `StartSession`, `ReadSession`, `WriteSession`, `AbandonStale`, `PruneActivity` | the routes and the housekeeping |

Ghosts: `told`, `untold` and `missed`, the latter two for what the code says it gives up: commits
before the first sight, beyond the scan's list, of an event that was dropped.

### Live

`docker` counts changes; `cached`, `pending` and `builds` are `createSnapshotCache`'s;
`heard` and `stream` the hub's; `browser[w]` a page.

| Action | Code |
|---|---|
| `StartBuild`, `ListContainers`, `FinishBuild`, `Expire` | `build`, its two phases and what it leaves in the cache; a second passes |
| `ListingFails` | `buildSnapshot`'s catch: a snapshot that is not `reachable` and lists nothing, cached like any other |
| `ForceRead`, `Fetch` | `get(true)`, and `get()` by a page that was told |
| `Hear`, `StreamBreaks`, `StreamReturns` | `LiveHub` on an event, its reconnection |
| `BrowserBreaks`, `BrowserReturns` | `useLive` |

Ghosts: `lost` and `overtaken` (the last change was not heard of; an older listing was still
to be cached when it was), `missed` in a page (it was away at the last event), `refused` (a listing
failed, and no event came since). What those stand for is what the code leaves open: the
hub publishes nothing when it has connected to Docker again (`events.ts:85`), so a page that was
given an unreachable snapshot shows it until the next event. `BrowsersCatchUp` allows a page to show
`Unreachable` then, and no other state than Docker's.

### Bridges

| Action | Code |
|---|---|
| `AskOpen`, `CreateContainer`, `StartContainer`, `Settle`, `Clear` | `openBridge` and `accessOpen`, each await a step |
| `CloseOne`, `CloseAll`, `Collect`, `RemoveNext` | `closeBridge`, `access close`, `access gc`: list, then remove one by one |
| `GiveUp`, `Exits`, `ServiceTurns` | a step refused or a process ended; a forwarder ends; a service comes and goes |

Ghost: `crossed`, the services for which an open looked while another was between its look
and its start. Then there are two bridges, by the code.

### Actions

`needs` is the graph the labels give; `container[c]` Docker's state; `act[a]` the action with the
states it read (`known`) and the calls it has left.

| Action | Code |
|---|---|
| `AskProject`, `AskOne`, `AskRemoval` | `runProjectAction`, `runContainerAction`, `removeContainer` up to their first call, `projectAction` of the command |
| `Skip`, `Perform`, `FindDone`, `DockerFails`, `Answer` | one container: left out by the state read, done, already done, refused; the answer |
| `OthersMove` | the owner's own `docker` |

`Ordered` is `orderProjectServices`: by dependencies, by name among what is ready, and by
name altogether (`InOrder`) behind a cycle. Ghost: `calm` (nothing failed and nobody else acted since).

### Settings

`envFile` is `.env` as a reader finds it, `backup[w]` the copy beside it, `save[w]` the write in
progress; `created[c]` the settings a container was created with; `up[u]` a run of `compose up`;
`window[v]` the dialog of a browser.

| Action | Code |
|---|---|
| `AskSave`, `Copy`, `Truncate`, `Fill`, `Restore`, `Unlink`, `Killed` | `patchConfig`, `configSet`, and `writeEnvFile` call by call |
| `BeginUp`, `Recreate`, `UpSucceeds`, `UpFails`, `PanelReturns` | `apply` of the command; `portta up --wait` in the applier |
| `Confirm`, `Start`, `Answered`, `Refused`, `Unanswered` | the dialog's request and `POST /gateway/apply` |
| `Resume`, `Look`, `Judge`, `NoPanel`, `GivesUp`, `Dismiss` | `useApply`'s probes: what is pending, then, behind an await, how the applier is |

Ghosts: `stored` (what was last said to be saved), `careless` (a save went on from a file that
had been cut, or beside another: the later one then writes what the earlier one had not, or nothing), and
in a dialog `asked`, `started`, `quiet`. The grace period and the budget are left out: any probe
may judge, and any may be the last.

## 4. Runs

| Run | cfg, instance | Result |
|---|---|---|
| `shares_safety` | `Shares.cfg`: 2 requests, 1 command, 2 ids, 1 host, 2 containers, 1 token, 1 tick, 2 passwords, symmetric, up to the first overwrite from an old read | holds, 3,205,569 states: types, credential before router, one share per container, tokens, newest password, login routers, epochs, withdrawn stays withdrawn, refinement |
| `shares_lost_credential` | `SharesLostCredential.cfg`: 2 requests, no command | **violated**: a protected router without a credential |
| `shares_orphan` | `SharesOrphan.cfg`: 1 request, 1 tick | **violated**: a record stays after its share expired |
| `runner_safety` | `Runner.cfg`: 2 requests, 2 projects, 2 jobs, symmetric | holds: types, the job run is the job asked, losses were confirmed |
| `runner_mixed_job` | `RunnerMixedJob.cfg`: as `runner_safety` | **violated**: volumes lost whose project nobody named |
| `runner_forgotten` | `RunnerForgotten.cfg`: 1 request, 1 project, 1 job | **violated**: directory there, row gone |
| `auth_logins` | `Auth.cfg`: 2 logins, 1 scope, 1 address, limit 2, window 2, lock 3, clock to 4, 2 credentials | holds: types, sessions follow the credential, failures lock, overshoot, lock lasts; logins are answered |
| `auth_removed` | `AuthRemoved.cfg`: 1 login, 2 scopes, 2 credentials | **violated**: an old session is accepted after remove and set |
| `panel` | `Panel.cfg`. Board: 4 tasks, 2 columns, 2 movers, 2 moves, 1 other write. Tree: 4 tasks, 2 clients, 3 requests, 1 stop. Sync: 3 issues, pages of 1, 2 pages, 3 events. Binding: 2 fields, 2 edits, 1 trouble. Sessions: 2, commits to 3, scan of 2, 2 recent events, 1 failure, 3 happenings. Live: 1 page, 3 builds, 2 changes, 2 breaks | holds, 1,134,952 states: types, appended cards differ, moves keep the order, no cycle, sweep keeps work, cursor covers, links of a complete pass, projection was real, edits kept, no stray, commits told, sessions have them, forced reads fresh; everything settles |
| `binding_cleared` | `BindingCleared.cfg`: a title and 2 fields that are labels, 1 edit | **violated**: setting one label drops the other |
| `host` | `Host.cfg`. Bridges: 1 request, 1 command, 1 service, 3 containers. Actions: 3 services, 3 graphs, 1 request, 1 command, 2 actions, 1 meddling. Settings: 2 keys, 1 command, 1 window, 2 deeds, 1 upset. Shares and Runner, for liveness: 2 requests, 1 command, 1 id, no host, 1 password; 2 jobs | holds, 747,278 states: types, one running bridge, nothing runs without its needs, restart brings back, removal of what runs is forced, saved is kept, back means applied; operations end |
| `actions_scaled` | `ActionsScaled.cfg`: 2 services of 2 containers each | **violated**: an action on the project leaves a container out |

`CHECK_DEADLOCK FALSE` is in every cfg: clock, passwords, jobs, moves, edits are bounded, and a
behaviour that has used them up may stop.

Why the bounds are enough. *Shares*: every hazard is a pair — two requests at one await, or a request and a command — and
needs one or two shares; one command does one thing after another, any number of times, so that
`unprotect`, `protect`, `revoke` and `gc` come in any order under two open requests; two commands
at once are left to the theorems, which hold for any number. One tick expires a share, since its lifetime is 1; two passwords allow a create and a
regenerate, or two of either, or one of them and a `protect`. `UntilStale` stops at the first
overwrite from an old read: every property but two says nothing after it, and those two (types, one
share per container) are theorems with no such limit. The violations of the other two runs are found
without the constraint. *Runner*: two jobs are one after the
other or overlapping, and a job that follows one meets all it can leave behind; three
were checked once and found nothing else. *Auth*: two logins are enough to pass one
check together; clock 4 is longer than the window and than the lock, and than a
session's life; two credentials make one change. *Board*: two moves meet at every lock, and
`Step` 2 leaves room for one card, so that the second needs the renumbering. *Tree*: three
requests are a walk, the write that overtakes it and a removal below both. *Sync*: pages of
one make every boundary a page boundary; two pages of three issues make a pass stop short. *Binding*: an edit on each side and one
failure meet in every order. *Sessions*: three happenings move the head forth and back around a
failed tick; five were checked once. *Live*: three builds are the one that is old, the one that
is cached and the forced one; two breaks are a lost stream and a failed listing, or one of them and a
page that was away. *Bridges*: three containers are the old one, the one to come
and the one of the other opener; two requests beside a command were checked once (1.58 million
states). *Actions*: three services have every shape of dependency, chain, fork, join and cycles; all 64
graphs were checked once (4.96 million states); the run has a chain against the order of names, a join, and a cycle with a service behind it. *Settings*: two deeds are two saves, a save and an apply, or an apply and
its retry, over every mixture of settings already pending; three deeds over one key and two upsets
over two were checked once.

### Disagreements between code and text

1. `shares_lost_credential`. `core/shares.ts:280`: "Credential first, router second". Two
   creates whose hashes overlap write two stores read before either record existed; one
   record is lost, and an interruption leaves its router.
2. `shares_orphan`. `docs/authentication.md:54`: "revoke and garbage collection remove its
   protection record". `createShare` drops expired shares from the list first, and
   garbage collection looks only there.
3. `runner_mixed_job`. ADR 0030: no volume goes "unless the operator names the project".
   Two dispatches find the runner stopped, the second rewrites the file while the script
   reads it; it runs the verb of one on the project of the other.
4. `runner_forgotten`. `core/operations.ts:424`: "Only removing the directory forgets it".
   The row goes when the runner was started; `rm` may fail afterwards.
5. `auth_removed`. `docs/authentication.md:21`: "changing or removing its credential
   invalidates the previous sessions". The epoch is removed with the record, and starts
   at 1 again.
6. `binding_cleared`. `docs/github.md:579`: "setting a priority never silently drops a
   status". `planIssuePatch` (`github/tasks.ts:122`) sends the labels outside the
   convention and the one that changed.
7. `actions_scaled`. `docs/commands.md:102`: "Act on every container in a project".
   `orderProjectServices` (`project-order.ts:79`) keeps one container for each service.

### Met while modelling, without a run

What the code leaves open and says nothing else about, or where a run would show no more
than the reading does. The ghosts above keep these causes apart from the properties.

- *Bridges.* Two opens at once create two bridges. `existing` of the panel counts
  containers that exited or never started, so that after a failed start a retry is answered
  with a dead bridge; one removed while it settles is answered as open, against the comment at
  `access.ts:458`. A created container whose start failed stays until it is collected.
  `access gc` may remove a bridge that another open has just created.
- *Shares.* Overlapping writers, whichever they are, lose one of the two writes: a revoked token or a
  withdrawn share comes back, an older password replaces a newer one. `auth unprotect` of a
  share's host leaves the share routed without a record, and a `protect` after it makes a record that
  neither regenerate nor the share's removal touches.
- *Actions.* The command's project actions take in one-off containers, which the comment at
  `actions.ts:148` keeps the panel from. Services behind a cycle fall back to name order like its
  members. The panel reports 304 as a failure, the command does not.
- *Tasks.* Two requests that hang tasks below one another close a cycle. A move before a card
  only, may tie with a card that arrived unseen. A start is two writes (`routes/tasks.ts:187`)
  against "in one write" (`routes/tasks.ts:515`). The sweep removes what was published below a draft
  nobody edited, and a draft edited after it was listed.
- *GitHub.* Overlapping passes can write an older answer over a newer row, against
  `schedule.ts:63`. A page that moves under a pass hides an issue from it. A pass that resumes from a
  cursor drops the links of parents it did not read, and one that finds none clears none. A full
  pass cut at ten pages pulls the cursor back. More than ten pages within one second would hold the
  cursor for ever. A push that marks the binding hides an edit that waits; an edit over a pass's decision, or
  cut off by a restart, is marked as synchronised. Unlinking a task and a pass creates another.
- *Sessions.* A heartbeat that read the row before the session ended makes it active again.
  Going back to an older commit tells it again.
- *Live.* A browser that was away fetches nothing when it is greeted, against the comment at
  `live.ts:31`.
- *Runner.* Two starts that overlap may run the second job twice.
- *Settings.* Two failures can lose the file: no copy, and a write that fails. A save on top of
  a file that a killed process had cut copies the cut file over the copy, if the process has the
  same number (in a container it has), and keeps nothing but its own key. Two saves at once lose one.
- *Others.* Rows of environments are written after the snapshot they come from, and may
  come back after they were forgotten. The limiter's buckets are never taken out but by a
  success. A share's id is two random bytes and may be one in use. The YAML files of the
  gateway are written in place by the commands. Whether a checkout is dirty is read from
  an older file. Overrides are rewritten by panel and commands without a lock.

## 5. Fairness

Each specification assumes weak fairness of the steps that continue what has begun, and of
nothing else: no request, command, edit, tick, restart or failure need ever happen, but
for the two timers named.

- `Shares`: `WF(Step(k))` per command, because the operating system schedules every process, and
  `SF(Step(r))` per request: while its hash is computed others take the event loop and give it
  back, so that its next step is enabled again and again but not all the time; libuv puts its
  callback into the queue and Node runs the queue in order. A step of a panel that is down is not
  enabled; its operations ended with the crash.
- `Runner`: `WF(PanelStep(r))` per request, for the same reason and because Docker answers
  or the client times out; `WF(Script)` because `docker compose` ends, well or badly.
- `Auth`: `WF` of a login's own steps: hashing ends, timers fire.
- `Board`: `WF(MoverStep(m) \/ DeadlockAbort(m))`: a statement runs when its lock is free, and
  Postgres looks for deadlocks.
- `TaskTree`: `WF(Walk(c))`: a query ends.
- `IssueSync`: `WF(Tick)`, the timer, and `WF(PassStep(s))`. A pass that fails for ever is
  excluded by the bound on failures, which stands for GitHub coming back.
- `Binding`: `WF` of the timer's pass and of the workers' steps.
- `Live`: `WF` of the hub, of builds and of a page's reconnection, because each is a timer or a call
  that ends; `SF(Fetch(w))`, because in the model a fetch waits for a free build, of which the
  code has as many as it needs.
- `Sessions`, `Bridges`, `Actions`, `Settings`: none; what is checked there is safety.

`MCPanel` and `MCHost` state the same fairness once more, each conjunct in the behaviours of its part.

## 6. Proofs

All theorems are checked by TLAPS for any values of the constants under the assumptions
that the modules name.

| Theorem | States |
|---|---|
| `SharesProofs!TypeCorrect` | `Spec => []TypeOK` |
| `SharesProofs!CredentialFirst` | `Spec => []CredentialBeforeRouter` |
| `SharesProofs!OneShare` | `Spec => []OneSharePerContainer` |
| `SharesProofs!TokensStay` | `Spec => []TokensAsTold` |
| `SharesProofs!NewestStays` | `Spec => []NewestPasswordWins` |
| `SharesProofs!RoutersFollow` | `Spec => []LoginRoutersFollowStore` |
| `SharesProofs!EpochsRise` | `Spec => PasswordChangeBumpsEpoch` |
| `SharesProofs!WithdrawnStays` | `Spec => []WithdrawnStaysWithdrawn` |
| `SharesProofs!DirectoryImplemented` | `Spec => ImplementsDirectory`, the refinement |
| `RunnerProofs!TypeCorrect` | `Spec => []TypeOK` |
| `RunnerProofs!AskedIsRun` | `Spec => []RunsWhatWasAsked` |
| `RunnerProofs!LossesConfirmed` | `Spec => DestroysOnlyWhatWasConfirmed` |
| `AuthProofs!TypeCorrect` | `Spec => []TypeOK` |
| `AuthProofs!SessionsCurrent` | `Spec => []SessionsFollowTheCredential` |
| `AuthProofs!LockStays` | `Spec => LockLasts` |
| `AuthProofs!LockWhileFailuresCount` | `Spec => []FailuresLock` |
| `AuthProofs!OvershootBounded` | `Spec => []OvershootIsBounded` |
| `AuthProofs!LimiterCorrect` | the invariant of the limiter, `Spec => [](LimiterTyped /\ BucketsInv)` |
| `InvariantCorrect` in these three | `Spec => []IInv`, the inductive invariant behind them |
| `TasksProofs!BoardTypeCorrect` | `BoardSpec => []BoardTypeOK` |
| `TasksProofs!AppendedStayApart` | `BoardSpec => []AppendedDiffer` |
| `TasksProofs!MovesInOrder` | `BoardSpec => MovesKeepOrder` |
| `TasksProofs!TreeInvariant` | `TreeSpec => []TreeInv`, types and the invariant of the walks |
| `TasksProofs!NeverBelowItself` | `TreeSpec => []NoTaskBelowItself` |
| `TasksProofs!SweepKeeps` | `TreeSpec => SweepKeepsWork` |
| `GitHubProofs!BindTypeCorrect` | `BindSpec => []BindTypeOK` |
| `GitHubProofs!ProjectionIsReal` | `BindSpec => []ProjectionWasReal` |
| `GitHubProofs!EditsKept` | `BindSpec => EditsAreKept` |
| `GitHubProofs!NoStray` | `BindSpec => []NoStrayTask` |
| `GitHubProofs!SyncTypeCorrect` | `SyncSpec => []SyncTypeOK` |
| `GitHubProofs!CursorNeverSkips` | `SyncSpec => []CursorCovers` |
| `GitHubProofs!CompleteRunHasLinks` | `SyncSpec => LinksOfCompleteRun` |
| `PanelProofs!LiveTypeCorrect` | `LiveSpec => []LiveTypeOK` |
| `PanelProofs!ForcedIsFresh` | `LiveSpec => []ForcedReadIsFresh` |
| `PanelProofs!SessionsTypeCorrect` | `SessionSpec => []SessionTypeOK` |
| `PanelProofs!SeenIsTold` | `SessionSpec => []SeenWasTold` |
| `PanelProofs!ActiveHaveThem` | `SessionSpec => []ActiveSessionHasThem` |
| `PanelProofs!PanelIsItsParts` | the composition of `MCPanel` begins as each part does and makes steps of each part |
| `PanelProofs!PanelTypeCorrect` | `Spec => []PanelTypeOK` of that composition |
| `HostProofs!BridgesTypeInvariant` | `BridgesSpec => []BridgesTypeOK` |
| `HostProofs!OneBridge` | `BridgesSpec => []OneRunningBridge` |
| `HostProofs!SettingsTypeCorrect` | `SettingsSpec => []SettingsTypeOK` |
| `HostProofs!SavedStays` | `SettingsSpec => []SavedIsKept` |
| `HostProofs!BackMeansIt` | `SettingsSpec => BackMeansApplied` |
| `HostProofs!ActionsTypeCorrect` | `ActionsSpec => []ActionsTypeOK` |
| `HostProofs!RemovedWhenForced` | `ActionsSpec => RunningGoesOnlyWhenForced` |
| `HostProofs!RestartCorrect` | with one container per service, `ActionsSpec => []RestartBringsBack` |
| `HostProofs!OrderRespectsNeeds` | with one container per service, `ActionsSpec => []NothingRunsWithoutItsNeeds` |
| `HostProofs!HostIsItsParts` | the composition of `MCHost` implements `BridgesSpec`, `ActionsSpec` and `SettingsSpec` |
| `HostProofs!HostTypeCorrect` | `Spec => []HostTypeOK` of that composition |

The assumptions: parties and scopes are distinct, lifetimes positive (`Shares`); jobs are
counted and `"nothing"` is no project (`Runner`); the limits of `Auth`; commits, the scan
and the look back are positive (`Sessions`); the labelled fields are fields, and none is
called `"whole"` (`Binding`); requests are finitely many, which a bound that counts them needs
(`RequestsAreFinite` of `Auth`); the tree at the start hangs in no circle and from nothing that is gone, and positions
differ on the board at the start (`TreeStart`, `BoardStartDiffers`); openers are panel's or command's, never both (`Bridges`);
there is a key, no text is no file's text, and no command is called like the panel or the
applier (`Settings`); bounds are natural numbers everywhere.

*Shares.* `CredentialBeforeRouter` is not inductive: nothing in it says that the credential
a create wrote is still there when its router is written. `IInv` adds the shape of an
operation at each program counter, that what it works on was drawn, and what the list it is
going to write has over the one it read (`OpsInv`); the same of the files (`FilesInv`); that
the id of a create in progress is nobody else's, but that a command may protect or unprotect its
host once its record is in the store (`ExclusiveInv`); that whoever is not `outdated` builds on
the store as it is, under a password newer than any stored or told (`BuiltInv`); and, while
nothing is stale, that a create past its store has its record there or it was taken by name, that
a withdrawal past its list has no router left, and that what is about to be told is no newer than
the record (`FreshInv`). `CredentialBeforeRouter`, `NewestPasswordWins` and `TokensAsTold` are
conjuncts themselves: a write of the store keeps them because the writer is not outdated, and if it
is, the write is stale and they say nothing from there on. Most actions only begin an operation
over files they leave alone: one lemma, `OpensKeeps`, serves them all, and each of the three
writers has one of its own. The epochs follow from what one write may change. For
what was withdrawn, `WithdrawnInv` adds that no create in progress has such an id. The login routers are those
of the store, or somebody is about to write them, or the panel's start will (`RoutersOrWriter`).
The refinement maps each write that takes effect to the directory's step of that name, and
everything else to a stutter or to `Waive`.

*Runner.* While no two dispatches overlapped, a request past its check is alone there and
finds the runner stopped (`SoleInv`); so the file holds its job from the start of the
container to its end (`FileInv`), what the script has read is a prefix of that job
(`ReadInv`), and Compose runs in the project's directory (`HomeInv`). `ProperInv` says,
overlap or not, that a job asks for no more than was confirmed. Of these,
`SoleInv` is the one that an unchecked start breaks.

*Auth.* The property compares sessions with the store, but a login holds a record across
its awaits. `CopiesInv` says of both kinds of copies: within the life of a record its epoch
is at most the store's, and with the same epoch comes the same password. A change within
a life raises the epoch, a removal ends the life (`LivesInv`). That a lock lasts is a fact of
each step once buckets are known to have their shape (`Bucketed`): a failure locks from now
on or leaves the lock there is, and only a restart, or a right password whose verification
had begun, takes the bucket away. For what the limiter counts, `BucketsInv` says that the
failures that count are those the bucket keeps within the window, and that a bucket with as many
as the limit is locked for a lock's time after each of them (`LockedByFailures`); since a
lock is no shorter than the window, they no longer count when it ends. The overshoot follows by counting: a failure moves a login from
those being verified to those that failed, and a login begins only where there are
fewer failures than the limit.

*Board.* `AppendedDiffer` is not inductive between the reading of the highest position and the
commit that writes it. `BoardInv` adds what a move holds at each step (`Holds`): the locks of its
row, of its column and of the neighbours it has checked, which are in that column still;
that the rows it renumbers are all of the column but those the synchronisation carried in (`Covers`);
and where it is about to land (`Lands`): beyond all appended ones, or between its neighbours,
renumbered or not. That the others keep their order is shown of the renumbering: of two rows, more
come before the later one.

*TaskTree.* A walk climbs one row at a time. `TreeInv` says of a walk under way that what it has
met holds the parent it was asked for and, with every task, that task's parent, up to the one that is
read next (`Walked`), unless somebody overtook it. So the rest, which holds the task that
moves, is closed under children and without the new parent, and hanging the task there closes no cycle. `Below` is a
least set: whatever is closed under children contains it, which is all the proof needs of it. For the sweep,
`StillListed`: what is listed for removal is an unedited draft still, or was edited meanwhile.

*Live.* A forced read answers with the build it waits for, and the property says nothing of
it before the answer. `LiveInv` adds that this build is under way, and that its listing,
once made, is no older than the question (`AskedFirst`), or failed and shows no state at all.

*Sessions.* The watcher compares a file with what it remembers, or with the newest event it
finds. `ToldInv` says of all four places a head is kept in that the commits up to it were
told or are named exceptions: what was seen (the property), the events (`EventsTold`),
what the tick compares with (`PreviousTold`), and what it found once it has told
(`NowTold`). `HeldInv` says the same of what each session has, one session after another
while a tick records: those it did not list are excused (`OthersExcused`), those it has
still to record have all but what is new (`RestComes`).

*Binding.* What a pass fetched and what a push was answered travel in the workers across
their awaits before they are stored. `RealInv` says of the row and of every worker that it
holds a version GitHub had, under the number it had; `Shapes` is what that needs of types.
`EditsAreKept` needs to know what the binding's state is worth. `SyncedClean` says: when it
is `synced` and no mishap happened, GitHub has had every field of the task, or the request is
settling for GitHub's version, or it is pushing the one field GitHub has not had.
`TimerClean`, `RequestClean` and `AppliedClean` carry that across the await between a pass's
decision and its write; `WholeClean` does for a push of the whole task, and `Stepping` says
that what is applied is a version. A task that is clean satisfies all of them, so each
action has only the unclean one to look at. `StrayInv`, for `NoStrayTask`: once there is
a binding there always is one, and while one pass runs at a time, the pass that found none is the only
worker that can make one, so its own binding succeeds. The bounds in `BindTypeOK` need counting:
a request that may still change the issue is counted with the changes made (`ChangesCounted`),
and a task without a binding belongs to a worker about to bind it, or to a restart, until
there is a binding; then at most two more come (`StraysCounted`).

*IssueSync.* The cursor moves at the end of a pass, long after what it stands for was read.
`CursorInv` says of a pass that nobody raced: the pages read so far are the beginning of one
listing in the order of its dates (`OnPage`); what was read and no longer holds is of an issue
that has changed since, no earlier than all that was read, so it is behind no cursor this pass
can record (`StillToRead`); and past the pages, an issue that the cursor will have passed has its
row, or is about to get it (`Covered`). GitHub's clock bounds all the dates (`Dated`), and no
listing holds an issue that is not open (`AllOpened`, `Unopened`).
For the links, `LinksInv`: GitHub's own links close no circle (`NoCircle`); what a
complete pass has read so far is the beginning of the whole listing (`WholePages`), and afterwards no
issue and no link is dropped on the way (`NothingLost`). `AllAccepted` then shows that `visibleLinks` refuses none of
them: what lies above an issue in some of the links lies above it in all of them, and there the child does not.
`ListingIs` and `ChildrenAre` are what the proofs know of a listing: it has every entry once, in
order.

*Bridges.* The property counts running containers and says nothing of an open that looked
and is about to start one. `BridgesInv` adds that at most one open is between its look and
its start (`OneStarting`), and none beside a running bridge (`NoneBesides`), unless opens
crossed; and that it starts a container it created for its own target (`StartsItsOwn`).
Most actions only take away, and one lemma serves them all (`Fewer`).

*Settings.* Where a setting is depends on how far the write got. `WriteStands` says at each
step what the file, the copy and the writer's own text are worth; `OneWriter` that nobody
writes beside another, and `AtRest` that with nobody writing the file is whole, or it was
cut and a copy is — as long as nobody was careless. That a write which died leaves a
file recognisably cut is what makes `careless` catch the next one. For the dialog,
`Watched` says of a window that is still quiet that nobody writes, that nobody but the applier runs `up`, that the file is
what was asked for, and, once it was started, that the applier runs with that text, or it failed, or every part was created with it.

*Actions.* `RemovalsAsked` says that each call is on a container of the action's own, and that what it is about to
remove it read as not running, or was forced to. For the order, `ProjectInOrder` says of an action on a project that
all its stops come before its starts; that while it is calm every container that runs and needs one
about to be stopped is stopped before it (`StopsInOrder`), and what a container about to be started
needs runs, or is started before it (`StartsInOrder`); and that each member was started or is still
to be, or a failure was reported (`BringsBack`). What `Ordered` yields is shown by
`SetLemmas!Recursion`: on every finite set of services the recursion ends in a sequence of all of
them, none before one it needs. Both theorems assume one container per service (`OneOfEach`): with
more, `orderProjectServices` keeps one of each service, the disagreement `actions_scaled` shows,
and neither holds.

*Host.* `HostIsItsParts`: the steps of the composition are the steps of one part and leave the
others' variables alone, so each part's theorems hold of the whole. `PanelIsItsParts` says the same
of `MCPanel` but for fairness, which the parts share there; `PanelTypeCorrect` takes the inductive
invariant of each part over to the composition.

*SetLemmas.* What the provers' library states with an operator as a parameter cannot be used, so
induction goes by the least counterexample: `LeastNumber` and `SmallestSubset` give the smallest
number or set in a given set of them, and a step that leads below it is the
contradiction. `Recursion` and `RecursionKeeps` state that way what a recursive function on the subsets of a
finite set yields, `FiniteMaximum` and `Sortable` that such a set has a greatest element and can be listed in order.

The invariants of the earlier modules' proofs were checked with TLC before they were proved;
in the others the property was, and the strengthening is proved at once.

Only model-checked: all liveness (`EveryLoginIsAnswered`, `EverythingSettles`,
`OperationsEnd`): fairness and `ENABLED` are beyond the prover.

## 7. Not modelled

The models cover the parts where several actors share state. `PROJECT.json` states for
each component what was left out of it. As a whole:

- *Overrides and aliases.* One file, rewritten in one synchronous turn by the panel or a
  command. The one hazard, two processes at once, is that of `.env` in `Settings`; it is
  named at the end of section 4.
- *Git scan and host metrics.* Reports a host process writes and the panel reads; their
  age matters to who reads them, and is modelled there (`Sessions`' scan).
- *Inventory, discovery and diagnostics.* Pure functions from Docker's answers to tables:
  no state, no order of events; their unit tests compare inputs and outputs. What the
  cache does with their result is `Live`.
- *Web interface.* Pages that show what routes answer. The two pieces with a protocol of
  their own are modelled: the stream of changes (`Live`) and the apply dialog (`Settings`).
- *Command line and installer.* Parsing, printing, and one-shot scripts on the host. The
  commands that write shared state are in `Shares`, `Bridges`, `Actions` and `Settings`.
- *Within the modelled parts.* Basic and Bearer branches and the pages of the auth
  service; installations, rate limits, signatures, comments of the GitHub integration;
  task notes and links between tasks and environments; migrations; container logs; what
  each setting allows; the wording of every answer.

This leaves most lines of the repository unmapped: they render, parse, describe or
forward, and a model of them would restate them.
