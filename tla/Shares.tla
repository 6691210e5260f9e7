------------------------------- MODULE Shares -------------------------------
(***************************************************************************)
(* Temporary shares and the credentials behind them.                       *)
(*                                                                         *)
(* Three files carry the state, and nothing locks any of them:             *)
(*   portta-shares.yaml   the routers Traefik serves, one per share;       *)
(*   protections.json     the credentials the auth service checks, and the *)
(*                        API tokens, in one document;                     *)
(*   portta-auth.yaml     the login routers, rendered from the store.      *)
(* The panel answers several requests on one event loop: a request keeps   *)
(* the loop between two awaits, and the only await in these handlers is    *)
(* the password hash, AFTER the files were read and BEFORE they are        *)
(* written.  Every portta command is another process over the same files:  *)
(* its steps fall between any two of the panel's, and between a read of    *)
(* one file and the write that follows from it.  A process may die between *)
(* any two steps.                                                          *)
(***************************************************************************)
EXTENDS Integers, FiniteSets

CONSTANTS
  Requests,     \* panel requests that may be open at the same time
  Commands,     \* portta commands, each in a process of its own
  Ids,          \* share ids, drawn at random and taken not to repeat; an id
                \* stands for the host of its share as well
  Hosts,        \* project hosts `portta auth protect` may name
  Containers,   \* containers assertShareable accepts
  Tokens,       \* ids of API tokens
  Ttls,         \* lifetimes a caller may ask for
  MaxClock,     \* bound: the clock stops here
  MaxPassword   \* bound: passwords generated in one behaviour

ASSUME PartiesAreDistinct == Requests \cap Commands = {}
ASSUME ScopesAreDistinct == Ids \cap Hosts = {} /\ (Ids \cup Hosts) \cap Tokens = {}
ASSUME TtlsArePositive == Ttls \subseteq Nat \ {0}
ASSUME BoundsAreNaturals == MaxClock \in Nat /\ MaxPassword \in Nat

VARIABLES
  shares,       \* portta-shares.yaml: the set of shares routed
  store,        \* protections.json: protections and tokens
  loginRouters, \* portta-auth.yaml: the scopes that have a login router
  op,           \* op[p]: what request or command p is in the middle of
  loop,         \* the request holding the panel's event loop, or Nobody
  panelUp,      \* whether the panel process is running
  clock,        \* the time, in seconds
  issued,       \* how many passwords were generated so far
  used,         \* share ids drawn so far
  told,         \* told[s]: newest password a caller was shown for scope s
  toldToken,    \* toldToken[t]: what a caller was told of token t
  outdated,     \* those about to write the store, written since they read it
  stale,        \* a document was overwritten from a read older than it
  unguarded,    \* hosts left without a record by `portta auth unprotect`
  withdrawn,    \* ids of the shares that have left the list
  killed        \* a command died between the store and portta-auth.yaml

files   == <<shares, store, loginRouters>>
history == <<told, toldToken, outdated, stale, unguarded, withdrawn, killed>>
vars    == <<files, op, loop, panelUp, clock, issued, used, history>>

(***************************************************************************)
(* Data                                                                    *)
(***************************************************************************)

Parties == Requests \cup Commands
Scopes  == Ids \cup Hosts
Nobody  == "nobody"

Modes == {"public", "protected"}

Share == [id : Ids, container : Containers, mode : Modes, expiresAt : Nat]

\* The record of a host.  Its scope is "share" when createShare made it
\* (share:<id>) and "host" when a command did (host:<host>); a store never
\* holds two records of one host (parseProtectionStore).  Every record written
\* has epoch >= 1.
Protection   == [password : Nat, epoch : Nat, scope : {"none", "share", "host"}]
NoProtection == [password |-> 0, epoch |-> 0, scope |-> "none"]

TokenStates == {"none", "active", "revoked"}

Store == [protections : [Scopes -> Protection], tokens : [Tokens -> TokenStates]]

Has(st, s)    == st.protections[s] # NoProtection
Protected(st) == {s \in Scopes : Has(st, s)}

IdsOf(list)    == {s.id : s \in list}
Live(list, at) == {s \in list : s.expiresAt > at}

\* An operation in progress: what it read, and what it is going to write.
\*   "router": it read the share list, and writes next;
\*   "clear" : the routers are gone, and it reads the store;
\*   "store" : it read the store, and writes its own version of it;
\*   "auth"  : it renders portta-auth.yaml from the store it has in memory.
Operation ==
  [pc      : {"idle", "router", "clear", "store", "auth"},
   kind    : {"none", "create", "regenerate", "protect", "unprotect", "clear",
              "token", "start"},
   targets : SUBSET (Scopes \cup Tokens),   \* what it sets, clears or revokes
   password: Nat,
   seen    : SUBSET Share,      \* the share list as it was read
   next    : SUBSET Share,      \* the share list it will write
   store   : Store]             \* the store it will write, or has written

EmptyStore == [protections |-> [s \in Scopes |-> NoProtection],
               tokens      |-> [t \in Tokens |-> "none"]]

Idle == [pc |-> "idle", kind |-> "none", targets |-> {}, password |-> 0,
         seen |-> {}, next |-> {}, store |-> EmptyStore]

(***************************************************************************)
(* setProtection and removeProtection on a store already in memory.        *)
(***************************************************************************)

\* Mutant: the store is rebuilt without the tokens it carried.
WithProtectionNoTokens(st, s, scope, pw) ==
  [protections |-> [st.protections EXCEPT
                      ![s] = [password |-> pw, epoch |-> @.epoch + 1, scope |-> scope]],
   tokens      |-> [t \in Tokens |-> "none"]]

\* Mutant: a record that exists keeps the epoch it had.
WithProtectionSameEpoch(st, s, scope, pw) ==
  [st EXCEPT !.protections[s] =
     [password |-> pw, epoch |-> IF @.epoch = 0 THEN 1 ELSE @.epoch, scope |-> scope]]

\* Mutant: a record that exists is kept instead of replaced.
WithProtectionKept(st, s, scope, pw) ==
  [st EXCEPT !.protections[s] =
     IF @ = NoProtection THEN [password |-> pw, epoch |-> 1, scope |-> scope]
                         ELSE [@ EXCEPT !.epoch = @ + 1]]

WithProtection(st, s, scope, pw) ==
  [st EXCEPT !.protections[s] =
     [password |-> pw, epoch |-> @.epoch + 1, scope |-> scope]]

\* A host whose record has another scope is refused.
Collides(st, s, scope) == st.protections[s].scope \notin {"none", scope}

WithoutProtections(st, gone) ==
  [st EXCEPT !.protections = [s \in Scopes |-> IF s \in gone THEN NoProtection ELSE @[s]]]

(***************************************************************************)
(* Turns.  A panel request starts only when the loop is free and keeps it  *)
(* to the next await; a command has a process of its own.                  *)
(***************************************************************************)

MayRun(p) == p \in Requests => panelUp /\ loop \in {Nobody, p}

\* p goes on in the same segment, with record o.
Continue(p, o) ==
  /\ op' = [op EXCEPT ![p] = o]
  /\ loop' = IF p \in Requests THEN p ELSE loop

\* p awaits the hash: the loop is free for others.
Await(p, o) ==
  /\ op' = [op EXCEPT ![p] = o]
  /\ UNCHANGED loop

\* Mutant: a handler that never returns to the event loop.
FinishHoldingLoop(p) ==
  /\ op' = [op EXCEPT ![p] = Idle]
  /\ loop' = IF p \in Requests THEN p ELSE loop

Finish(p) ==
  /\ op' = [op EXCEPT ![p] = Idle]
  /\ loop' = IF p \in Requests THEN Nobody ELSE loop

Starts(p) ==
  /\ op[p].pc = "idle"
  /\ p \in Requests => panelUp /\ loop = Nobody

(***************************************************************************)
(* createShare                                                             *)
(***************************************************************************)

\* Mutant: the container's own share is not looked for.
AlreadySharedNever(kept, c) == FALSE

AlreadyShared(kept, c) == \E s \in kept : s.container = c

\* Mutant: the lifetime is taken away instead of added.
NewShareBackwards(i, c, mode, ttl) ==
  [id |-> i, container |-> c, mode |-> mode, expiresAt |-> clock - ttl]

NewShare(i, c, mode, ttl) ==
  [id |-> i, container |-> c, mode |-> mode, expiresAt |-> clock + ttl]

\* Mutant: an id derived from what is shared now, free again once it is not.
FreshNow(i) == i \notin IdsOf(shares) /\ \A p \in Parties : i \notin op[p].targets

Fresh(i) == i \notin used

\* A public share awaits nothing: the list is read and written in one turn of
\* the panel, though not of the host.
CreatePublic(r, i, c, ttl) ==
  LET kept == Live(shares, clock)
  IN /\ Starts(r)
     /\ Fresh(i)
     /\ ~AlreadyShared(kept, c)
     /\ Continue(r, [Idle EXCEPT !.pc = "router", !.kind = "create", !.targets = {i},
                                 !.seen = shares,
                                 !.next = kept \cup {NewShare(i, c, "public", ttl)}])
     /\ used' = used \cup {i}
     /\ UNCHANGED <<files, panelUp, clock, issued, history>>

\* Both files are read here: the share list by loadShares, and the store
\* because setProtection's first argument is evaluated before the await in
\* its second.
CreateProtected(r, i, c, ttl) ==
  LET kept == Live(shares, clock)
  IN /\ Starts(r)
     /\ Fresh(i)
     /\ issued < MaxPassword
     /\ ~AlreadyShared(kept, c)
     /\ Await(r, [pc |-> "store", kind |-> "create", targets |-> {i},
                  password |-> issued + 1, seen |-> shares,
                  next |-> kept \cup {NewShare(i, c, "protected", ttl)},
                  store |-> WithProtection(store, i, "share", issued + 1)])
     /\ used' = used \cup {i}
     /\ issued' = issued + 1
     /\ UNCHANGED <<files, panelUp, clock, history>>

(***************************************************************************)
(* regenerateShare, and `portta auth protect`, which has the same shape.   *)
(***************************************************************************)

Hash(p, kind, s, scope) ==
  /\ Starts(p)
  /\ issued < MaxPassword
  /\ Await(p, [Idle EXCEPT !.pc = "store", !.kind = kind, !.targets = {s},
                           !.password = issued + 1,
                           !.store = WithProtection(store, s, scope, issued + 1)])
  /\ issued' = issued + 1
  /\ UNCHANGED <<files, panelUp, clock, used, history>>

\* Refused, with nothing written, when a command has given the share's host a
\* record of its own.
Regenerate(r, i) ==
  /\ \E s \in shares : s.id = i /\ s.mode = "protected"
  /\ ~Collides(store, i, "share")
  /\ Hash(r, "regenerate", i, "share")

\* Hosts a command can name: those of projects, those the store lists, and
\* those of shares that are or were routed.  The host of a share that is being
\* made has a random part nobody knows yet.
Nameable ==
  Hosts \cup Protected(store)
    \cup {i \in used : \A p \in Parties : op[p].kind = "create" => i \notin op[p].targets}

\* A host that has a record, a share's included, keeps that record's scope.
Protect(k, s) ==
  /\ s \in Nameable
  /\ Hash(k, "protect", s, IF Has(store, s) THEN store.protections[s].scope ELSE "host")

(***************************************************************************)
(* What follows a read of the store: writeProtectionStore, then            *)
(* portta-auth.yaml, and for a new share the router last.                  *)
(***************************************************************************)

\* The store written is the one read before, with this operation's change.
WriteStore(p) ==
  /\ op[p].pc = "store"
  /\ MayRun(p)
  /\ store' = op[p].store
  /\ IF op[p].kind = "token" THEN Finish(p) ELSE Continue(p, [op[p] EXCEPT !.pc = "auth"])
  /\ toldToken' = [t \in Tokens |-> IF t \in op[p].targets THEN op[p].store.tokens[t]
                                                          ELSE toldToken[t]]
  /\ stale' = (stale \/ p \in outdated)
  /\ outdated' = {q \in Parties \ {p} : op[q].pc = "store"}
  /\ unguarded' = IF op[p].kind = "unprotect" THEN unguarded \cup op[p].targets
                                              ELSE unguarded \ op[p].targets
  /\ UNCHANGED <<shares, loginRouters, panelUp, clock, issued, used, told, withdrawn, killed>>

\* What the caller is shown: the password, unless the share left the list.
Answered(p) ==
  [s \in Scopes |->
     IF s \in op[p].targets /\ (op[p].kind = "protect" \/ s \in IdsOf(shares))
     THEN op[p].password ELSE told[s]]

\* Mutant: the login routers are not rendered again.
WriteAuthSkipped(p) ==
  /\ op[p].pc = "auth"
  /\ MayRun(p)
  /\ stale' = (stale \/ op[p].store.protections # store.protections)
  /\ IF op[p].kind = "create"
     THEN Continue(p, [op[p] EXCEPT !.pc = "router"]) /\ UNCHANGED told
     ELSE /\ Finish(p)
          /\ told' = IF op[p].kind \in {"regenerate", "protect"} THEN Answered(p) ELSE told
  /\ UNCHANGED <<files, panelUp, clock, issued, used, toldToken, outdated, unguarded,
                 withdrawn, killed>>

WriteAuth(p) ==
  /\ op[p].pc = "auth"
  /\ MayRun(p)
  /\ loginRouters' = Protected(op[p].store)
  /\ stale' = (stale \/ op[p].store.protections # store.protections)
  /\ IF op[p].kind = "create"
     THEN Continue(p, [op[p] EXCEPT !.pc = "router"]) /\ UNCHANGED told
     ELSE /\ Finish(p)
          /\ told' = IF op[p].kind \in {"regenerate", "protect"} THEN Answered(p) ELSE told
  /\ UNCHANGED <<shares, store, panelUp, clock, issued, used, toldToken, outdated,
                 unguarded, withdrawn, killed>>

\* saveShares writes a list made from the one read before.  A new share is
\* answered with its password; a withdrawal goes on to the store.
WriteRouter(p) ==
  /\ op[p].pc = "router"
  /\ MayRun(p)
  /\ shares' = op[p].next
  /\ withdrawn' = withdrawn \cup (IdsOf(shares) \ IdsOf(op[p].next))
  /\ stale' = (stale \/ op[p].seen # shares)
  /\ IF op[p].kind = "create"
     THEN /\ Finish(p)
          /\ told' = [s \in Scopes |-> IF s \in op[p].targets THEN op[p].password ELSE told[s]]
     ELSE /\ Continue(p, [Idle EXCEPT !.pc = "clear", !.kind = "clear",
                                      !.targets = op[p].targets])
          /\ UNCHANGED told
  /\ UNCHANGED <<store, loginRouters, panelUp, clock, issued, used, toldToken, outdated,
                 unguarded, killed>>

(***************************************************************************)
(* revokeShare and `portta share revoke`; `portta share gc`; `portta auth  *)
(* unprotect`.  The routers go first, then a fresh read of the store.      *)
(***************************************************************************)

\* Mutant: the credential goes first and the router second.
WithdrawCredentialFirst(p, gone) ==
  /\ Starts(p)
  /\ Continue(p, [Idle EXCEPT !.pc = "store", !.kind = "create", !.targets = gone,
                              !.seen = shares,
                              !.next = {s \in shares : s.id \notin gone},
                              !.store = WithoutProtections(store, gone)])
  /\ UNCHANGED <<files, panelUp, clock, issued, used, history>>

Withdraw(p, gone) ==
  /\ Starts(p)
  /\ Continue(p, [Idle EXCEPT !.pc = "router", !.kind = "clear", !.targets = gone,
                              !.seen = shares,
                              !.next = {s \in shares : s.id \notin gone}])
  /\ UNCHANGED <<files, panelUp, clock, issued, used, history>>

Revoke(p, i) ==
  /\ i \in IdsOf(shares)
  /\ Withdraw(p, {i})

\* Mutant: a share is collected in the last second of its life.
CollectEarly(k) ==
  LET expired == IdsOf(shares \ Live(shares, clock + 1))
  IN expired # {} /\ Withdraw(k, expired)

Collect(k) ==
  LET expired == IdsOf(shares \ Live(shares, clock))
  IN expired # {} /\ Withdraw(k, expired)

\* Only records whose scope is share:<id> go: the one a command gave the host of
\* a share stays.
ReadStore(p) ==
  LET gone == {s \in op[p].targets : store.protections[s].scope = "share"}
  IN /\ op[p].pc = "clear"
     /\ MayRun(p)
     /\ Continue(p, [op[p] EXCEPT !.pc = "store", !.store = WithoutProtections(store, gone)])
     /\ UNCHANGED <<files, panelUp, clock, issued, used, history>>

\* protectionForHost finds the record by host and removes it whatever its scope:
\* that of a share is taken from under its router.
Unprotect(k, s) ==
  /\ Starts(k)
  /\ Has(store, s)
  /\ Continue(k, [Idle EXCEPT !.pc = "store", !.kind = "unprotect", !.targets = {s},
                              !.store = WithoutProtections(store, {s})])
  /\ UNCHANGED <<files, panelUp, clock, issued, used, history>>

(***************************************************************************)
(* POST and DELETE /auth/tokens: the store is read and written in one turn *)
(* of the panel.                                                           *)
(***************************************************************************)

SetToken(r, t, to) ==
  /\ Starts(r)
  /\ Continue(r, [Idle EXCEPT !.pc = "store", !.kind = "token", !.targets = {t},
                              !.store = [store EXCEPT !.tokens[t] = to]])
  /\ UNCHANGED <<files, panelUp, clock, issued, used, history>>

\* A new token has a random id: one that was never told to anybody.
CreateToken(r, t) == store.tokens[t] = "none" /\ toldToken[t] = "none" /\ SetToken(r, t, "active")
RevokeToken(r, t) == store.tokens[t] # "none" /\ SetToken(r, t, "revoked")

(***************************************************************************)
(* The world outside                                                       *)
(***************************************************************************)

Tick ==
  /\ clock < MaxClock
  /\ clock' = clock + 1
  /\ UNCHANGED <<files, op, loop, panelUp, issued, used, history>>

PanelCrash ==
  /\ panelUp
  /\ panelUp' = FALSE
  /\ op' = [p \in Parties |-> IF p \in Requests THEN Idle ELSE op[p]]
  /\ loop' = Nobody
  /\ outdated' = outdated \ Requests
  /\ UNCHANGED <<files, clock, issued, used, told, toldToken, stale, unguarded, withdrawn, killed>>

\* reconcilePanelProtection reads the store and renders portta-auth.yaml again at
\* every start, before any request is answered.
PanelStart(r) ==
  /\ ~panelUp
  /\ panelUp' = TRUE
  /\ Continue(r, [Idle EXCEPT !.pc = "auth", !.kind = "start", !.store = store])
  /\ UNCHANGED <<files, clock, issued, used, history>>

CommandDies(k) ==
  /\ op[k].pc # "idle"
  /\ op' = [op EXCEPT ![k] = Idle]
  /\ outdated' = outdated \ {k}
  /\ killed' = (killed \/ op[k].pc = "auth")
  /\ UNCHANGED <<files, loop, panelUp, clock, issued, used, told, toldToken, stale, unguarded,
                 withdrawn>>

(***************************************************************************)
(* The specification                                                       *)
(***************************************************************************)

Init ==
  /\ shares = {}
  /\ store = EmptyStore
  /\ loginRouters = {}
  /\ op = [p \in Parties |-> Idle]
  /\ loop = Nobody
  /\ panelUp = TRUE
  /\ clock = 0
  /\ issued = 0
  /\ used = {}
  /\ told = [s \in Scopes |-> 0]
  /\ toldToken = [t \in Tokens |-> "none"]
  /\ outdated = {}
  /\ stale = FALSE
  /\ unguarded = {}
  /\ withdrawn = {}
  /\ killed = FALSE

\* The rest of an operation that has begun.
Step(p) == WriteStore(p) \/ WriteAuth(p) \/ WriteRouter(p) \/ ReadStore(p)

Next ==
  \/ \E r \in Requests, i \in Ids, c \in Containers, ttl \in Ttls :
       CreatePublic(r, i, c, ttl) \/ CreateProtected(r, i, c, ttl)
  \/ \E r \in Requests, i \in Ids : Regenerate(r, i)
  \/ \E r \in Requests : PanelStart(r)
  \/ \E p \in Parties, i \in Ids : Revoke(p, i)
  \/ \E k \in Commands : Collect(k) \/ CommandDies(k)
  \/ \E k \in Commands, s \in Scopes : Protect(k, s) \/ Unprotect(k, s)
  \/ \E p \in Parties : Step(p)
  \/ \E r \in Requests, t \in Tokens : CreateToken(r, t) \/ RevokeToken(r, t)
  \/ Tick \/ PanelCrash

\* A process that is running takes its next step.  The operating system starves
\* no command.  A request waits for the event loop, which others hold in the
\* meantime, again and again: its hash once computed, its callback is in the
\* queue, and Node runs the queue in order.
Fairness ==
  /\ \A r \in Requests : SF_vars(Step(r))
  /\ \A k \in Commands : WF_vars(Step(k))

Spec == Init /\ [][Next]_vars /\ Fairness

(***************************************************************************)
(* Correctness                                                             *)
(***************************************************************************)

\* Every variable keeps its type: in particular the share list holds whole
\* records and the store one record per scope (parseShares, parseRecord).
TypeOK ==
  /\ shares \subseteq Share
  /\ store \in Store
  /\ loginRouters \subseteq Scopes
  /\ op \in [Parties -> Operation]
  /\ loop \in Requests \cup {Nobody}
  /\ panelUp \in BOOLEAN
  /\ clock \in Nat
  /\ issued \in Nat
  /\ used \subseteq Ids
  /\ told \in [Scopes -> Nat]
  /\ toldToken \in [Tokens -> TokenStates]
  /\ outdated \subseteq Parties
  /\ stale \in BOOLEAN
  /\ unguarded \subseteq Scopes
  /\ withdrawn \subseteq Ids
  /\ killed \in BOOLEAN

\* "Credential first, router second": whatever crashes, and whichever requests
\* and commands run beside each other, a protected share that Traefik routes has
\* a record the auth service can check, unless some document was overwritten
\* from a read older than it, or somebody took that share's record away with
\* `portta auth unprotect` and nobody gave it another.
RoutedHasCredential ==
  \A s \in shares : s.mode = "protected" => Has(store, s.id) \/ s.id \in unguarded

CredentialBeforeRouter == ~stale => RoutedHasCredential

\* The same sentence with nothing in progress and no exception.  The code does
\* not keep it: a hash awaited across another request's writes ends in a store
\* without that request's credential, under a router that stays.
RestingRouteHasCredential ==
  (panelUp /\ \A p \in Parties : op[p] = Idle) => RoutedHasCredential

\* "Revoke and garbage collection remove its protection record": with nothing
\* in progress, a share that was made and is no longer listed has no record
\* left in the store.  The code does not keep it: createShare drops expired
\* shares from the list and leaves their records, and gc then finds nothing.
WithdrawnLeavesNoCredential ==
  (panelUp /\ \A p \in Parties : op[p] = Idle) =>
    \A i \in Ids : told[i] # 0 /\ i \notin IdsOf(shares) => store.protections[i].scope # "share"

\* createShare refuses a second share of a container: no crash, no expiry and no
\* two creations that read the same list end in two routers for one container.
OneSharePerContainer ==
  \A s, t \in shares : s.container = t.container => s = t

\* Tokens live in the document every share rewrites.  What the caller of the
\* tokens API was told of a token is what the store says of it.
TokensAsTold == ~stale => store.tokens = toldToken

\* The record of a host, a project's or a share's, is never older than the
\* password somebody was shown for it last: an answered regenerate or protect is
\* not undone by one that started before it, an unprotect between them included.
NewestPasswordWins ==
  ~stale => \A s \in Protected(store) : store.protections[s].password >= told[s]

\* Sessions are bound to an epoch, so a record that stays may change its
\* password only together with its epoch, and the epoch never goes back.
PasswordChangeBumpsEpoch ==
  [][\A s \in Scopes :
       (~stale' /\ Has(store, s) /\ Has(store, s)') =>
         LET old == store.protections[s]
             new == store'.protections[s]
         IN new.epoch >= old.epoch /\ (new.password # old.password => new.epoch > old.epoch)
    ]_store

\* A share that left the list, revoked, collected or expired, does not come back,
\* whatever lists were read while it was there and whatever crashes, unless one of
\* those lists was written over a newer one.
WithdrawnStaysWithdrawn == ~stale => withdrawn \cap IdsOf(shares) = {}

\* With nobody between the store and portta-auth.yaml, the login routers are
\* those of the protections in the store: a crash of the panel between the two
\* is made good when it starts again.
LoginRoutersFollowStore ==
  (~stale /\ ~killed /\ panelUp /\ \A p \in Parties : op[p].pc # "auth")
    => loginRouters = Protected(store)

\* Every operation ends: no request keeps the loop, and none waits for ever
\* behind one that does.
EveryOperationEnds == \A p \in Parties : op[p].pc # "idle" ~> op[p].pc = "idle"

(***************************************************************************)
(* Refinement: the files implement the directory of ShareDirectory.  A     *)
(* record whose share is not routed yet, or not any more, or is public,    *)
(* protects nothing: the mapping hides it.                                 *)
(***************************************************************************)

Accepted ==
  [s \in Scopes |->
     IF s \in Hosts \/ (\E x \in shares : x.id = s /\ x.mode = "protected")
     THEN store.protections[s].password ELSE 0]

Directory == INSTANCE ShareDirectory WITH
  routed <- shares, accepted <- Accepted, waived <- unguarded, tokens <- store.tokens

\* As long as nothing is overwritten from an old read, each step of the
\* handlers, crashes included, is one whole operation of the directory or
\* none at all.
ImplementsDirectory ==
  /\ Directory!DInit
  /\ [][stale' \/ Directory!DNext]_<<shares, Accepted, unguarded, store.tokens, clock>>
=============================================================================
