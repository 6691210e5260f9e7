---------------------------- MODULE SharesProofs ----------------------------
(***************************************************************************)
(* Theorems of Shares, for any number of requests, commands, shares, hosts, *)
(* containers and tokens, and for any bounds.                              *)
(***************************************************************************)
EXTENDS Shares, TLAPS

USE DEF Parties, Scopes, Modes, TokenStates

(***************************************************************************)
(* The inductive invariant.  Its parts say what an operation in progress   *)
(* still holds, and how that relates to what the files hold now.           *)
(***************************************************************************)

Pw(st, s) == st.protections[s].password
Ep(st, s) == st.protections[s].epoch

Creating(o) == o.kind = "create"
Sets(o)     == o.kind \in {"create", "regenerate", "protect"}
Awaits(o)   == o.pc \in {"auth", "router"}    \* its store is written

\* What the program counter and the kind say of an operation.
Shape(o) ==
  /\ o.pc = "idle" => o = Idle
  /\ o.pc = "router" => o.kind \in {"create", "clear"}
  /\ o.pc = "clear" => o.kind = "clear"
  /\ o.pc = "store" => o.kind \notin {"start", "none"}
  /\ o.pc = "auth" => o.kind \notin {"token", "none"}
  /\ o.kind \in {"create", "regenerate"} => \E i \in Ids : o.targets = {i}
  /\ o.kind \in {"protect", "unprotect"} => \E s \in Scopes : o.targets = {s}
  /\ o.kind = "token" => \E t \in Tokens : o.targets = {t}
  /\ o.kind = "clear" => o.targets \subseteq Ids
  /\ o.kind \in {"start", "none"} => o.targets = {}
  /\ Creating(o) => o.pc \in {"store", "auth", "router"}

\* A store holds records of hosts that exist, under passwords that were made.
Sound(st, ids, n) ==
  \A s \in Scopes :
    /\ Pw(st, s) <= n
    /\ Has(st, s) => Pw(st, s) >= 1 /\ s \in ids \cup Hosts

\* An operation works on what was drawn and made so far.
Known(o, ids, n) ==
  /\ o.targets \subseteq ids \cup Hosts \cup Tokens
  /\ \A s \in o.seen : s.id \in ids
  /\ Sound(o.store, ids, n)
  /\ o.password <= n

\* No list, read or written, names a container twice, or an id.
Sparse(list) ==
  \A s, t \in list : s.container = t.container \/ s.id = t.id => s = t

\* A create writes what was alive in the list it read, and its own share.
Adds(o, n, at, now) ==
  /\ at <= now
  /\ n.id \in o.targets
  /\ o.next = Live(o.seen, at) \cup {n}
  /\ \A x \in Live(o.seen, at) : x.container # n.container
  /\ \A x \in o.seen : x.id # n.id

\* A withdrawal writes the list it read without one share, or without those
\* that had expired.
Drops(o, now) ==
  /\ o.next = {s \in o.seen : s.id \notin o.targets}
  /\ o.targets # {} /\ o.targets \subseteq IdsOf(o.seen)
  /\ \/ \E i \in Ids : o.targets = {i}
     \/ \E at \in Nat : at <= now /\ o.targets = IdsOf(o.seen \ Live(o.seen, at))

Listing(o, now) ==
  /\ Sparse(o.seen)
  /\ Creating(o) => \E n \in Share, at \in Nat : Adds(o, n, at, now)
  /\ o.kind = "clear" /\ o.pc = "router" => Drops(o, now)

\* The store an operation is about to write is st, but for what it changes.
BuiltOn(o, st) ==
  /\ \A s \in Scopes \ o.targets : o.store.protections[s] = st.protections[s]
  /\ \A t \in Tokens \ o.targets : o.store.tokens[t] = st.tokens[t]
  /\ \A s \in Scopes \cap o.targets :
       /\ Sets(o) => Pw(o.store, s) = o.password /\ Ep(o.store, s) = Ep(st, s) + 1
       /\ ~Sets(o) => o.store.protections[s] \in {NoProtection, st.protections[s]}
       /\ o.kind = "unprotect" => Has(st, s) /\ o.store.protections[s] = NoProtection
  /\ \A t \in Tokens \cap o.targets :
       <<st.tokens[t], o.store.tokens[t]>> \in
         {<<"none", "active">>, <<"active", "revoked">>, <<"revoked", "revoked">>}

OpsInv ==
  \A p \in Parties : Shape(op[p]) /\ Known(op[p], used, issued) /\ Listing(op[p], clock)

FilesInv ==
  /\ \A s \in shares : s.id \in used
  /\ Sparse(shares)
  /\ Sound(store, used, issued)
  /\ \A s \in Scopes : told[s] <= issued

\* The id of a create in progress is nobody else's until its record is in the
\* store: from there on a command can name its host, but nothing lists it.
Exclusive(p) ==
  Creating(op[p]) => \A i \in op[p].targets :
    /\ \A s \in shares : s.id # i
    /\ \A q \in Parties : \A s \in op[q].seen : s.id # i
    /\ \A q \in Parties \ {p} : i \in op[q].targets =>
         op[q].kind \in {"protect", "unprotect"} /\ Awaits(op[p])
    /\ op[p].pc = "store" =>
         ~Has(store, i) /\ \A q \in Parties \ {p} : ~Has(op[q].store, i)

ExclusiveInv == \A p \in Parties : Exclusive(p)

\* The password p is about to write is newer than any that is in the store, that
\* was told, or that is about to be told.
Newer(p) ==
  Sets(op[p]) => \A s \in op[p].targets :
    /\ Pw(store, s) < op[p].password
    /\ told[s] < op[p].password
    /\ \A q \in Parties : Sets(op[q]) /\ Awaits(op[q]) /\ s \in op[q].targets
                            => op[q].password < op[p].password

\* Whoever has not missed a write of the store builds on the store as it is.
BuiltInv ==
  \A p \in Parties : p \notin outdated /\ op[p].pc = "store"
                       => BuiltOn(op[p], store) /\ Newer(p)

Guarded(i) == Has(store, i) \/ i \in unguarded

\* With no overwrite from an old read: a create past its store has its record
\* there, a withdrawal past its list has no router left, and what is about to be
\* told is no newer than the record.
FreshInv ==
  ~stale =>
    /\ \A p \in Parties : Creating(op[p]) /\ Awaits(op[p]) =>
         \A n \in op[p].next : n.id \in op[p].targets /\ n.mode = "protected" => Guarded(n.id)
    /\ \A p \in Parties : op[p].kind = "clear" /\ op[p].pc \in {"clear", "store"} =>
         \A s \in shares : s.id \notin op[p].targets
    /\ \A p \in Parties : Sets(op[p]) /\ Awaits(op[p]) =>
         \A s \in op[p].targets : Has(store, s) => Pw(store, s) >= op[p].password

IInv ==
  /\ TypeOK
  /\ OpsInv
  /\ FilesInv
  /\ ExclusiveInv
  /\ BuiltInv
  /\ FreshInv
  /\ CredentialBeforeRouter
  /\ NewestPasswordWins
  /\ TokensAsTold

(***************************************************************************)
(* Types.                                                                  *)
(***************************************************************************)

LEMMA EmptyStoreType == EmptyStore \in Store
BY DEF EmptyStore, Store, Protection, NoProtection

LEMMA IdleType == Idle \in Operation
BY EmptyStoreType DEF Idle, Operation

LEMMA WithProtectionType ==
  ASSUME NEW st \in Store, NEW s \in Scopes, NEW scope \in {"none", "share", "host"}, NEW pw \in Nat
  PROVE  WithProtection(st, s, scope, pw) \in Store
BY DEF WithProtection, Store, Protection

LEMMA WithoutProtectionsType ==
  ASSUME NEW st \in Store, NEW gone
  PROVE  WithoutProtections(st, gone) \in Store
BY DEF WithoutProtections, Store, Protection, NoProtection

LEMMA NewShareType ==
  ASSUME TypeOK, NEW i \in Ids, NEW c \in Containers, NEW mode \in Modes, NEW ttl \in Ttls
  PROVE  NewShare(i, c, mode, ttl) \in Share
BY TtlsArePositive DEF TypeOK, NewShare, Share

\* The fields of an operation that is Idle.
LEMMA IdleFields ==
  /\ Idle.pc = "idle" /\ Idle.kind = "none" /\ Idle.targets = {} /\ Idle.password = 0
  /\ Idle.seen = {} /\ Idle.next = {} /\ Idle.store = EmptyStore
BY DEF Idle

\* The record p is left with: the parts of a step that concern op and loop.
Leaves(p, o) ==
  /\ op' = [op EXCEPT ![p] = o]
  /\ loop' \in Requests \cup {Nobody}

LEMMA TurnsLeave ==
  ASSUME TypeOK, NEW p \in Parties, NEW o, Continue(p, o) \/ Await(p, o) \/ (o = Idle /\ Finish(p))
  PROVE  Leaves(p, o)
BY DEF TypeOK, Continue, Await, Finish, Leaves

LEMMA LeavesType ==
  ASSUME TypeOK, NEW p \in Parties, NEW o \in Operation, Leaves(p, o)
  PROVE  /\ op' \in [Parties -> Operation] /\ loop' \in Requests \cup {Nobody}
         /\ op'[p] = o /\ \A q \in Parties \ {p} : op'[q] = op[q]
BY DEF TypeOK, Leaves

\* The record each operation opens with, and its type.
RouterRecord(kind, targets, next) ==
  [Idle EXCEPT !.pc = "router", !.kind = kind, !.targets = targets, !.seen = shares,
               !.next = next]

CreateRecord(i, next) ==
  [pc |-> "store", kind |-> "create", targets |-> {i}, password |-> issued + 1,
   seen |-> shares, next |-> next, store |-> WithProtection(store, i, "share", issued + 1)]

HashRecord(kind, s, scope) ==
  [Idle EXCEPT !.pc = "store", !.kind = kind, !.targets = {s}, !.password = issued + 1,
               !.store = WithProtection(store, s, scope, issued + 1)]

StoreRecord(kind, targets, st) ==
  [Idle EXCEPT !.pc = "store", !.kind = kind, !.targets = targets, !.store = st]

StartRecord == [Idle EXCEPT !.pc = "auth", !.kind = "start", !.store = store]

ClearRecord(targets) == [Idle EXCEPT !.pc = "clear", !.kind = "clear", !.targets = targets]

LEMMA RouterRecordType ==
  ASSUME TypeOK, NEW kind \in {"create", "clear"}, NEW targets \in SUBSET Ids,
         NEW next \in SUBSET Share
  PROVE  LET o == RouterRecord(kind, targets, next)
         IN /\ o \in Operation
            /\ o.pc = "router" /\ o.kind = kind /\ o.targets = targets /\ o.password = 0
            /\ o.seen = shares /\ o.next = next /\ o.store = EmptyStore
<1>1. shares \in SUBSET Share
  BY DEF TypeOK
<1> QED
  BY <1>1, EmptyStoreType DEF RouterRecord, Idle, Operation

LEMMA CreateRecordType ==
  ASSUME TypeOK, NEW i \in Ids, NEW next \in SUBSET Share
  PROVE  LET o == CreateRecord(i, next)
         IN /\ o \in Operation
            /\ o.pc = "store" /\ o.kind = "create" /\ o.targets = {i} /\ o.password = issued + 1
            /\ o.seen = shares /\ o.next = next
            /\ o.store = WithProtection(store, i, "share", issued + 1)
<1>1. shares \in SUBSET Share /\ issued + 1 \in Nat /\ store \in Store
  BY DEF TypeOK
<1>2. WithProtection(store, i, "share", issued + 1) \in Store
  BY <1>1, WithProtectionType
<1> QED
  BY <1>1, <1>2 DEF CreateRecord, Operation

LEMMA HashRecordType ==
  ASSUME TypeOK, NEW kind \in {"regenerate", "protect"}, NEW s \in Scopes,
         NEW scope \in {"none", "share", "host"}
  PROVE  LET o == HashRecord(kind, s, scope)
         IN /\ o \in Operation
            /\ o.pc = "store" /\ o.kind = kind /\ o.targets = {s} /\ o.password = issued + 1
            /\ o.seen = {} /\ o.next = {}
            /\ o.store = WithProtection(store, s, scope, issued + 1)
<1>1. issued + 1 \in Nat /\ store \in Store
  BY DEF TypeOK
<1>2. WithProtection(store, s, scope, issued + 1) \in Store
  BY <1>1, WithProtectionType
<1> QED
  BY <1>1, <1>2 DEF HashRecord, Idle, Operation

LEMMA StoreRecordType ==
  ASSUME NEW kind \in {"unprotect", "token"},
         NEW x \in Scopes \cup Tokens, NEW st \in Store
  PROVE  LET o == StoreRecord(kind, {x}, st)
         IN /\ o \in Operation
            /\ o.pc = "store" /\ o.kind = kind /\ o.targets = {x} /\ o.password = 0
            /\ o.seen = {} /\ o.next = {} /\ o.store = st
BY DEF StoreRecord, Idle, Operation

LEMMA StartRecordType ==
  ASSUME TypeOK
  PROVE  LET o == StartRecord
         IN /\ o \in Operation
            /\ o.pc = "auth" /\ o.kind = "start" /\ o.targets = {} /\ o.password = 0
            /\ o.seen = {} /\ o.next = {} /\ o.store = store
BY DEF StartRecord, Idle, Operation, TypeOK

LEMMA ClearRecordType ==
  ASSUME NEW targets \in SUBSET (Scopes \cup Tokens)
  PROVE  LET o == ClearRecord(targets)
         IN /\ o \in Operation
            /\ o.pc = "clear" /\ o.kind = "clear" /\ o.targets = targets /\ o.password = 0
            /\ o.seen = {} /\ o.next = {} /\ o.store = EmptyStore
BY EmptyStoreType DEF ClearRecord, Idle, Operation

LEMMA AtType ==
  ASSUME NEW o \in Operation, NEW pc \in {"store", "auth", "router"}, NEW st \in Store
  PROVE  LET a == [o EXCEPT !.pc = pc]
             b == [o EXCEPT !.pc = pc, !.store = st]
         IN /\ a \in Operation /\ a.pc = pc /\ a.kind = o.kind /\ a.targets = o.targets
            /\ a.password = o.password /\ a.seen = o.seen /\ a.next = o.next /\ a.store = o.store
            /\ b \in Operation /\ b.pc = pc /\ b.kind = o.kind /\ b.targets = o.targets
            /\ b.password = o.password /\ b.seen = o.seen /\ b.next = o.next /\ b.store = st
BY DEF Operation

(***************************************************************************)
(* The steps: what each leaves in op, and that it keeps the types.         *)
(***************************************************************************)

LEMMA CreatePublicType ==
  ASSUME TypeOK, NEW r \in Requests, NEW i \in Ids, NEW c \in Containers, NEW ttl \in Ttls,
         CreatePublic(r, i, c, ttl)
  PROVE  LET next == Live(shares, clock) \cup {NewShare(i, c, "public", ttl)}
         IN TypeOK' /\ next \in SUBSET Share /\ Leaves(r, RouterRecord("create", {i}, next))
<1> DEFINE next == Live(shares, clock) \cup {NewShare(i, c, "public", ttl)}
           o == RouterRecord("create", {i}, next)
<1>1. next \in SUBSET Share
  BY NewShareType DEF TypeOK, Live
<1>2. Leaves(r, o)
  BY TurnsLeave DEF CreatePublic, RouterRecord
<1>3. o \in Operation
  BY <1>1, RouterRecordType
<1> HIDE DEF next, o
<1>4. TypeOK'
  BY <1>2, <1>3, LeavesType DEF TypeOK, CreatePublic, files, history
<1> QED
  BY <1>1, <1>2, <1>4 DEF next, o

LEMMA CreateProtectedType ==
  ASSUME TypeOK, NEW r \in Requests, NEW i \in Ids, NEW c \in Containers, NEW ttl \in Ttls,
         CreateProtected(r, i, c, ttl)
  PROVE  LET next == Live(shares, clock) \cup {NewShare(i, c, "protected", ttl)}
         IN TypeOK' /\ next \in SUBSET Share /\ Leaves(r, CreateRecord(i, next))
<1> DEFINE next == Live(shares, clock) \cup {NewShare(i, c, "protected", ttl)}
           o == CreateRecord(i, next)
<1>1. next \in SUBSET Share
  BY NewShareType DEF TypeOK, Live
<1>2. Leaves(r, o)
  BY TurnsLeave DEF CreateProtected, CreateRecord
<1>3. o \in Operation
  BY <1>1, CreateRecordType
<1> HIDE DEF next, o
<1>4. TypeOK'
  BY <1>2, <1>3, LeavesType DEF TypeOK, CreateProtected, files, history
<1> QED
  BY <1>1, <1>2, <1>4 DEF next, o

LEMMA HashType ==
  ASSUME TypeOK, NEW p \in Parties, NEW kind \in {"regenerate", "protect"},
         NEW s \in Scopes, NEW scope \in {"none", "share", "host"}, Hash(p, kind, s, scope)
  PROVE  TypeOK' /\ Leaves(p, HashRecord(kind, s, scope))
<1> DEFINE o == HashRecord(kind, s, scope)
<1>1. Leaves(p, o)
  BY TurnsLeave DEF Hash, HashRecord
<1>2. o \in Operation
  BY HashRecordType
<1> HIDE DEF o
<1>3. TypeOK'
  BY <1>1, <1>2, LeavesType DEF TypeOK, Hash, files, history
<1> QED
  BY <1>1, <1>3 DEF o

LEMMA WithdrawType ==
  ASSUME TypeOK, NEW p \in Parties, NEW gone \in SUBSET Ids, Withdraw(p, gone)
  PROVE  LET next == {s \in shares : s.id \notin gone}
         IN TypeOK' /\ next \in SUBSET Share /\ Leaves(p, RouterRecord("clear", gone, next))
<1> DEFINE next == {s \in shares : s.id \notin gone}
           o == RouterRecord("clear", gone, next)
<1>1. next \in SUBSET Share
  BY DEF TypeOK
<1>2. Leaves(p, o)
  BY TurnsLeave DEF Withdraw, RouterRecord
<1>3. o \in Operation
  BY <1>1, RouterRecordType
<1> HIDE DEF next, o
<1>4. TypeOK'
  BY <1>2, <1>3, LeavesType DEF TypeOK, Withdraw, files, history
<1> QED
  BY <1>1, <1>2, <1>4 DEF next, o

\* The records of shares that ReadStore finds among its targets.
Gone(p) == {s \in op[p].targets : store.protections[s].scope = "share"}

LEMMA ReadStoreType ==
  ASSUME TypeOK, NEW p \in Parties, ReadStore(p)
  PROVE  /\ TypeOK'
         /\ Leaves(p, [op[p] EXCEPT !.pc = "store", !.store = WithoutProtections(store, Gone(p))])
<1> DEFINE st == WithoutProtections(store, Gone(p))
           o == [op[p] EXCEPT !.pc = "store", !.store = st]
<1>1. st \in Store
  BY WithoutProtectionsType DEF TypeOK
<1>2. Leaves(p, o)
  BY TurnsLeave DEF ReadStore, Gone
<1>3. op[p] \in Operation
  BY DEF TypeOK
<1>4. o \in Operation
  <2> HIDE DEF st
  <2> QED BY <1>1, <1>3, AtType
<1> HIDE DEF st, o
<1>5. TypeOK'
  BY <1>2, <1>4, LeavesType DEF TypeOK, ReadStore, files, history
<1> QED
  BY <1>2, <1>5 DEF st, o

LEMMA UnprotectType ==
  ASSUME TypeOK, NEW k \in Commands, NEW s \in Scopes, Unprotect(k, s)
  PROVE  /\ TypeOK'
         /\ Leaves(k, StoreRecord("unprotect", {s}, WithoutProtections(store, {s})))
<1> DEFINE st == WithoutProtections(store, {s})
           o == StoreRecord("unprotect", {s}, st)
<1>1. st \in Store
  BY WithoutProtectionsType DEF TypeOK
<1>2. Leaves(k, o)
  BY TurnsLeave DEF Unprotect, StoreRecord
<1>3. o \in Operation
  <2> HIDE DEF st
  <2> QED BY <1>1, StoreRecordType
<1> HIDE DEF st, o
<1>4. TypeOK'
  BY <1>2, <1>3, LeavesType DEF TypeOK, Unprotect, files, history
<1> QED
  BY <1>2, <1>4 DEF st, o

LEMMA SetTokenType ==
  ASSUME TypeOK, NEW r \in Requests, NEW t \in Tokens, NEW to \in TokenStates, SetToken(r, t, to)
  PROVE  LET st == [store EXCEPT !.tokens[t] = to]
         IN TypeOK' /\ st \in Store /\ Leaves(r, StoreRecord("token", {t}, st))
<1> DEFINE st == [store EXCEPT !.tokens[t] = to]
           o == StoreRecord("token", {t}, st)
<1>1. st \in Store
  BY DEF TypeOK, Store
<1>2. Leaves(r, o)
  BY TurnsLeave DEF SetToken, StoreRecord
<1>3. o \in Operation
  <2> HIDE DEF st
  <2> QED BY <1>1, StoreRecordType
<1> HIDE DEF st, o
<1>4. TypeOK'
  BY <1>2, <1>3, LeavesType DEF TypeOK, SetToken, files, history
<1> QED
  BY <1>1, <1>2, <1>4 DEF st, o

LEMMA PanelStartType ==
  ASSUME TypeOK, NEW r \in Requests, PanelStart(r)
  PROVE  TypeOK' /\ Leaves(r, StartRecord)
<1>1. Leaves(r, StartRecord)
  BY TurnsLeave DEF PanelStart, StartRecord
<1> QED
  BY <1>1, StartRecordType, LeavesType DEF TypeOK, PanelStart, files, history

\* What an operation goes on with once its store is written.
Written(o) == IF o.kind = "token" THEN Idle ELSE [o EXCEPT !.pc = "auth"]

\* What it goes on with once portta-auth.yaml is.
Rendered(o) == IF o.kind = "create" THEN [o EXCEPT !.pc = "router"] ELSE Idle

\* What it goes on with once the share list is.
Listed(o) == IF o.kind = "create" THEN Idle ELSE ClearRecord(o.targets)

LEMMA WriteStoreType ==
  ASSUME TypeOK, OpsInv, NEW p \in Parties, WriteStore(p)
  PROVE  TypeOK' /\ Leaves(p, Written(op[p])) /\ Written(op[p]) \in Operation
<1>1. op[p] \in Operation /\ op[p].store \in Store
  BY DEF TypeOK, Operation
<1>2. Leaves(p, Written(op[p]))
  BY TurnsLeave DEF WriteStore, Written
<1>3. Written(op[p]) \in Operation
  BY <1>1, IdleType, AtType DEF Written
<1>4. toldToken' \in [Tokens -> TokenStates]
  BY <1>1 DEF WriteStore, TypeOK, Store
<1>5. unguarded' \subseteq Scopes
  <2>1. op[p].kind = "unprotect" => op[p].targets \subseteq Scopes
    BY DEF OpsInv, Shape
  <2> QED
    BY <2>1 DEF WriteStore, TypeOK
<1> QED
  BY <1>1, <1>2, <1>3, <1>4, <1>5, LeavesType DEF TypeOK, WriteStore

LEMMA WriteAuthType ==
  ASSUME TypeOK, NEW p \in Parties, WriteAuth(p)
  PROVE  TypeOK' /\ Leaves(p, Rendered(op[p])) /\ Rendered(op[p]) \in Operation
<1>1. op[p] \in Operation /\ op[p].password \in Nat /\ op[p].store \in Store
  BY DEF TypeOK, Operation
<1>2. Leaves(p, Rendered(op[p]))
  BY TurnsLeave DEF WriteAuth, Rendered
<1>3. Rendered(op[p]) \in Operation
  BY <1>1, IdleType, AtType DEF Rendered
<1>4. told' \in [Scopes -> Nat]
  BY <1>1 DEF WriteAuth, TypeOK, Answered
<1>5. loginRouters' \subseteq Scopes
  BY DEF WriteAuth, Protected
<1> QED
  BY <1>2, <1>3, <1>4, <1>5, LeavesType DEF TypeOK, WriteAuth

LEMMA WriteRouterType ==
  ASSUME TypeOK, NEW p \in Parties, WriteRouter(p)
  PROVE  TypeOK' /\ Leaves(p, Listed(op[p])) /\ Listed(op[p]) \in Operation
<1>1. op[p] \in Operation /\ op[p].password \in Nat /\ op[p].next \subseteq Share
      /\ op[p].targets \in SUBSET (Scopes \cup Tokens)
  BY DEF TypeOK, Operation
<1>2. Leaves(p, Listed(op[p]))
  BY TurnsLeave DEF WriteRouter, Listed, ClearRecord
<1>3. Listed(op[p]) \in Operation
  BY <1>1, IdleType, ClearRecordType DEF Listed
<1>4. told' \in [Scopes -> Nat]
  BY <1>1 DEF WriteRouter, TypeOK
<1>5. withdrawn' \subseteq Ids
  BY <1>1 DEF WriteRouter, TypeOK, IdsOf, Share
<1> QED
  BY <1>1, <1>2, <1>3, <1>4, <1>5, LeavesType DEF TypeOK, WriteRouter

(***************************************************************************)
(* What the operators on stores do, and what is monotone.                  *)
(***************************************************************************)

LEMMA SetFields ==
  ASSUME NEW st \in Store, NEW s \in Scopes, NEW scope \in {"none", "share", "host"}, NEW pw \in Nat
  PROVE  LET w == WithProtection(st, s, scope, pw)
         IN /\ w \in Store /\ w.tokens = st.tokens
            /\ Pw(w, s) = pw /\ Ep(w, s) = Ep(st, s) + 1
            /\ \A x \in Scopes \ {s} : w.protections[x] = st.protections[x]
BY DEF WithProtection, Store, Protection, Pw, Ep

LEMMA ClearFields ==
  ASSUME NEW st \in Store, NEW gone
  PROVE  LET w == WithoutProtections(st, gone)
         IN /\ w \in Store /\ w.tokens = st.tokens
            /\ \A x \in Scopes :
                 w.protections[x] = IF x \in gone THEN NoProtection ELSE st.protections[x]
<1>1. WithoutProtections(st, gone).protections
        = [s \in Scopes |-> IF s \in gone THEN NoProtection ELSE st.protections[s]]
  BY DEF WithoutProtections, Store
<1>2. WithoutProtections(st, gone).tokens = st.tokens
  BY DEF WithoutProtections, Store
<1> QED
  BY <1>1, <1>2, WithoutProtectionsType


LEMMA NoProtectionFields ==
  NoProtection.password = 0 /\ NoProtection.epoch = 0
BY DEF NoProtection

LEMMA StoreFields ==
  ASSUME NEW st \in Store, NEW s \in Scopes
  PROVE  /\ st.protections[s] \in Protection
         /\ Pw(st, s) \in Nat /\ Ep(st, s) \in Nat
         /\ Has(st, s) <=> st.protections[s] # NoProtection
         /\ Pw(st, s) # 0 => Has(st, s)
         /\ ~Has(st, s) => Pw(st, s) = 0 /\ Ep(st, s) = 0
BY NoProtectionFields DEF Store, Protection, Pw, Ep, Has

LEMMA EmptyHasNone ==
  /\ \A s \in Scopes : ~Has(EmptyStore, s)
  /\ \A ids, n : n \in Nat => Sound(EmptyStore, ids, n)
BY NoProtectionFields DEF Has, EmptyStore, Sound, Pw

\* What an operation knows stays true as ids are drawn and passwords made.
LEMMA SoundGrows ==
  ASSUME NEW st \in Store, NEW ids, NEW more, ids \subseteq more,
         NEW n \in Nat, NEW m \in Nat, n <= m, Sound(st, ids, n)
  PROVE  Sound(st, more, m)
<1>1. \A s \in Scopes : Pw(st, s) \in Nat
  BY StoreFields
<1> QED
  BY <1>1 DEF Sound

LEMMA KnownGrows ==
  ASSUME NEW o \in Operation, NEW ids, NEW more, ids \subseteq more,
         NEW n \in Nat, NEW m \in Nat, n <= m, Known(o, ids, n)
  PROVE  Known(o, more, m)
<1>1. o.store \in Store /\ o.password \in Nat
  BY DEF Operation
<1>2. Sound(o.store, more, m)
  BY <1>1, SoundGrows DEF Known
<1> QED
  BY <1>1, <1>2 DEF Known

LEMMA ListingAges ==
  ASSUME NEW o, NEW now \in Nat, NEW later \in Nat, now <= later, Listing(o, now)
  PROVE  Listing(o, later)
<1>1. \A n \in Share, at \in Nat : Adds(o, n, at, now) => Adds(o, n, at, later)
  BY DEF Adds
<1>2. Drops(o, now) => Drops(o, later)
  BY DEF Drops
<1> QED
  BY <1>1, <1>2 DEF Listing

LEMMA IdleInv ==
  ASSUME NEW ids, NEW n \in Nat, NEW now
  PROVE  Shape(Idle) /\ Known(Idle, ids, n) /\ Listing(Idle, now)
BY IdleFields, EmptyHasNone DEF Shape, Known, Listing, Sparse, Creating

\* Types of what the invariant speaks of.
LEMMA OpType ==
  ASSUME TypeOK, NEW p \in Parties
  PROVE  /\ op[p] \in Operation /\ op[p].store \in Store /\ op[p].password \in Nat
         /\ op[p].targets \subseteq Scopes \cup Tokens
         /\ op[p].seen \subseteq Share /\ op[p].next \subseteq Share
BY DEF TypeOK, Operation

LEMMA FileType ==
  ASSUME TypeOK
  PROVE  /\ shares \subseteq Share /\ store \in Store /\ issued \in Nat /\ clock \in Nat
         /\ used \subseteq Ids /\ told \in [Scopes -> Nat]
         /\ \A s \in shares : s.id \in Ids
BY DEF TypeOK, Share

\* Who creates, sets or takes away names scopes; a create, ids.
LEMMA TargetsByKind ==
  ASSUME NEW o, Shape(o)
  PROVE  /\ Sets(o) => o.targets \subseteq Scopes
         /\ Creating(o) => o.targets \subseteq Ids
         /\ o.kind = "unprotect" => o.targets \subseteq Scopes
         /\ o.kind = "clear" => o.targets \subseteq Ids
         /\ o.kind = "token" => o.targets \subseteq Tokens
BY DEF Shape, Sets, Creating

(***************************************************************************)
(* An operation opens, or goes on without writing: it holds what it has    *)
(* read, and what it is going to write is built on the files as they are.  *)
(***************************************************************************)

Untouched ==
  UNCHANGED <<shares, store, told, toldToken, stale, unguarded, clock>>

Opens(p, o) ==
  /\ op'[p] = o /\ \A q \in Parties \ {p} : op'[q] = op[q]
  /\ Untouched /\ outdated' = outdated
  /\ used \subseteq used' /\ issued <= issued'
  /\ o \in Operation /\ Shape(o) /\ Known(o, used', issued') /\ Listing(o, clock)
  /\ \A s \in o.seen : s \in shares \/ s \in op[p].seen
  /\ \A s \in Scopes : Has(o.store, s) => Has(store, s) \/ s \in o.targets
  /\ o.pc = "store" => BuiltOn(o, store) /\ (Sets(o) => issued < o.password)
  /\ Sets(o) /\ Awaits(o) => o.password = 0
  /\ Creating(o) => o.targets \cap used = {}
  /\ Creating(o) /\ Awaits(o) => \A n \in o.next : n.id \in o.targets => n.mode = "public"
  /\ ~stale /\ o.kind = "clear" /\ o.pc \in {"clear", "store"} =>
       \A s \in shares : s.id \notin o.targets
  /\ \A q \in Parties \ {p} : Creating(op[q]) /\ op[q].targets \cap o.targets \cap used # {} =>
       o.kind \in {"protect", "unprotect"} /\ Awaits(op[q])

LEMMA OpensKeeps ==
  ASSUME IInv, TypeOK', NEW p \in Parties, NEW o, Opens(p, o)
  PROVE  IInv'
<1>1. TypeOK /\ \A q \in Parties : op[q] \in Operation /\ op'[q] \in Operation
  BY DEF IInv, TypeOK
<1>2. issued \in Nat /\ issued' \in Nat /\ issued <= issued' /\ used \subseteq used' /\ clock \in Nat
  BY <1>1 DEF Opens, TypeOK
<1>3. op'[p] = o /\ \A q \in Parties \ {p} : op'[q] = op[q]
  BY DEF Opens
<1>4. /\ shares' = shares /\ store' = store /\ told' = told /\ toldToken' = toldToken
      /\ stale' = stale /\ unguarded' = unguarded /\ clock' = clock /\ outdated' = outdated
  BY DEF Opens, Untouched
<1>5. /\ Shape(o) /\ Known(o, used', issued') /\ Listing(o, clock)
      /\ o \in Operation /\ o.store \in Store /\ o.password \in Nat
  BY <1>1, <1>3 DEF Opens, Operation
<1>6. \A q \in Parties \ {p} : /\ Shape(op[q]) /\ Known(op[q], used, issued)
                               /\ Listing(op[q], clock)
  BY DEF IInv, OpsInv
<1>7. OpsInv'
  <2>1. \A q \in Parties \ {p} : Known(op[q], used', issued')
    BY <1>1, <1>2, <1>6, KnownGrows
  <2> QED
    BY <1>3, <1>4, <1>5, <1>6, <2>1 DEF OpsInv
<1>8. FilesInv'
  <2>1. Sound(store, used', issued')
    BY <1>1, <1>2, SoundGrows DEF IInv, FilesInv, TypeOK
  <2>2. \A s \in Scopes : told[s] \in Nat
    BY <1>1 DEF TypeOK
  <2> QED
    BY <1>2, <1>4, <2>1, <2>2 DEF IInv, FilesInv
<1>9. ExclusiveInv'
  <2> SUFFICES ASSUME NEW q \in Parties, Creating(op'[q]), NEW i \in op'[q].targets
               PROVE  /\ \A s \in shares : s.id # i
                      /\ \A x \in Parties : \A s \in op'[x].seen : s.id # i
                      /\ \A x \in Parties \ {q} : i \in op'[x].targets =>
                           op'[x].kind \in {"protect", "unprotect"} /\ Awaits(op'[q])
                      /\ op'[q].pc = "store" =>
                           ~Has(store, i) /\ \A x \in Parties \ {q} : ~Has(op'[x].store, i)
    BY <1>4 DEF ExclusiveInv, Exclusive
  <2>0. Known(op[p], used, issued)
    BY DEF IInv, OpsInv
  <2>1. CASE q = p
    <3>1. i \in Ids /\ i \in o.targets /\ i \notin used
      BY <1>3, <1>5, <2>1, TargetsByKind DEF Opens
    <3>2. i \notin used \cup Hosts \cup Tokens
      BY <3>1, ScopesAreDistinct
    <3>3. \A s \in shares : s.id # i
      BY <3>1 DEF IInv, FilesInv
    <3>4. \A x \in Parties \ {p} : \A s \in op[x].seen : s.id # i
      BY <1>6, <3>1 DEF Known
    <3>5. \A s \in o.seen : s.id # i
      BY <2>0, <3>1, <3>3 DEF Opens, Known
    <3>6. \A x \in Parties \ {p} : i \notin op[x].targets
      BY <1>6, <3>2 DEF Known
    <3>7. ~Has(store, i)
      BY <3>1, <3>2 DEF IInv, FilesInv, Sound
    <3>8. \A x \in Parties \ {p} : ~Has(op[x].store, i)
      BY <1>6, <3>1, <3>2 DEF Known, Sound
    <3> QED
      BY <1>3, <2>1, <3>3, <3>4, <3>5, <3>6, <3>7, <3>8
  <2>2. CASE q # p
    <3>1. op'[q] = op[q] /\ Exclusive(q) /\ i \in op[q].targets /\ Creating(op[q])
      BY <1>3, <2>2 DEF IInv, ExclusiveInv
    <3>2. i \in Ids /\ i \in used
      <4>1. i \in Ids /\ i \in used \cup Hosts \cup Tokens
        BY <1>6, <2>2, <3>1, TargetsByKind DEF Known
      <4> QED
        BY <4>1, ScopesAreDistinct
    <3>3. \A s \in o.seen : s.id # i
      BY <3>1 DEF Opens, Exclusive
    <3>4. i \in o.targets => o.kind \in {"protect", "unprotect"} /\ Awaits(op[q])
      BY <2>2, <3>1, <3>2 DEF Opens
    <3>5. op[q].pc = "store" => ~Has(o.store, i)
      BY <3>1, <3>2, <3>4 DEF Opens, Exclusive, Awaits
    <3> QED
      BY <1>3, <2>2, <3>1, <3>3, <3>4, <3>5 DEF Exclusive
  <2> QED
    BY <2>1, <2>2
<1>10. BuiltInv'
  <2> SUFFICES ASSUME NEW q \in Parties, q \notin outdated, op'[q].pc = "store"
               PROVE  BuiltOn(op'[q], store) /\ Newer(q)'
    BY <1>4 DEF BuiltInv
  <2>1. CASE q = p
    <3>1. BuiltOn(o, store) /\ (Sets(o) => issued < o.password)
      BY <1>3, <2>1 DEF Opens
    <3>2. ~Awaits(o)
      BY <1>3, <2>1 DEF Awaits
    <3>3. \A s \in Scopes : /\ Pw(store, s) \in Nat /\ Pw(store, s) <= issued
                            /\ told[s] \in Nat /\ told[s] <= issued
      BY <1>1, StoreFields DEF IInv, FilesInv, Sound, TypeOK
    <3>4. \A x \in Parties \ {p} : op[x].password \in Nat /\ op[x].password <= issued
      BY <1>1, <1>6 DEF Known, Operation
    <3>5. Sets(o) => o.targets \subseteq Scopes
      BY <1>5, TargetsByKind
    <3> QED
      BY <1>2, <1>3, <1>4, <1>5, <2>1, <3>1, <3>2, <3>3, <3>4, <3>5 DEF Newer, Pw
  <2>2. CASE q # p
    <3>1. op'[q] = op[q] /\ BuiltOn(op[q], store) /\ Newer(q) /\ Shape(op[q])
      BY <1>3, <1>6, <2>2 DEF IInv, BuiltInv
    <3>2. Sets(o) /\ Awaits(o) => o.password = 0
      BY DEF Opens
    <3>3. \A s \in Scopes : told[s] \in Nat
      BY <1>1 DEF TypeOK
    <3>4. op[q].password \in Nat /\ (Sets(op[q]) => op[q].targets \subseteq Scopes)
      BY <1>1, <3>1, TargetsByKind DEF Operation
    <3> QED
      BY <1>3, <1>4, <2>2, <3>1, <3>2, <3>3, <3>4 DEF Newer, Pw
  <2> QED
    BY <2>1, <2>2
<1>11. FreshInv'
  <2> SUFFICES ASSUME ~stale PROVE FreshInv'
    BY <1>4 DEF FreshInv
  <2>1. /\ \A q \in Parties : Creating(op[q]) /\ Awaits(op[q]) =>
              \A n \in op[q].next : n.id \in op[q].targets /\ n.mode = "protected" => Guarded(n.id)
        /\ \A q \in Parties : op[q].kind = "clear" /\ op[q].pc \in {"clear", "store"} =>
              \A s \in shares : s.id \notin op[q].targets
        /\ \A q \in Parties : Sets(op[q]) /\ Awaits(op[q]) =>
              \A s \in op[q].targets : Has(store, s) => Pw(store, s) >= op[q].password
    BY DEF IInv, FreshInv
  <2>2. \A i : Guarded(i)' <=> Guarded(i)
    BY <1>4 DEF Guarded, Has
  <2>3. Creating(o) /\ Awaits(o) => \A n \in o.next : n.id \in o.targets => n.mode = "public"
    BY DEF Opens
  <2>4. \A q \in Parties : Creating(op'[q]) /\ Awaits(op'[q]) =>
          \A n \in op'[q].next : n.id \in op'[q].targets /\ n.mode = "protected" => Guarded(n.id)'
    BY <1>3, <2>1, <2>2, <2>3
  <2>5. \A q \in Parties : op'[q].kind = "clear" /\ op'[q].pc \in {"clear", "store"} =>
          \A s \in shares' : s.id \notin op'[q].targets
    BY <1>3, <1>4, <2>1 DEF Opens
  <2>6. Sets(o) /\ Awaits(o) => \A s \in o.targets : Pw(store, s) >= o.password
    <3>1. \A s \in Scopes : Pw(store, s) \in Nat
      BY <1>1, StoreFields DEF TypeOK
    <3>2. Sets(o) /\ Awaits(o) => o.password = 0 /\ o.targets \subseteq Scopes
      BY <1>5, TargetsByKind DEF Opens
    <3> QED
      BY <3>1, <3>2
  <2>7. \A q \in Parties : Sets(op'[q]) /\ Awaits(op'[q]) =>
          \A s \in op'[q].targets : Has(store', s) => Pw(store', s) >= op'[q].password
    BY <1>3, <1>4, <2>1, <2>6
  <2> QED
    BY <2>4, <2>5, <2>7 DEF FreshInv
<1>12. CredentialBeforeRouter' /\ NewestPasswordWins' /\ TokensAsTold'
  BY <1>4 DEF IInv, CredentialBeforeRouter, RoutedHasCredential, NewestPasswordWins,
              TokensAsTold, Has, Protected
<1> QED
  BY <1>7, <1>8, <1>9, <1>10, <1>11, <1>12 DEF IInv

LEMMA WithdrawOpens ==
  ASSUME IInv, NEW p \in Parties, NEW gone \in SUBSET Ids, Withdraw(p, gone),
         gone # {}, gone \subseteq IdsOf(shares),
         \/ \E i \in Ids : gone = {i}
         \/ gone = IdsOf(shares \ Live(shares, clock))
  PROVE  IInv'
<1> DEFINE next == {s \in shares : s.id \notin gone}
           o == RouterRecord("clear", gone, next)
<1>1. TypeOK /\ TypeOK' /\ next \in SUBSET Share /\ Leaves(p, o)
  BY WithdrawType DEF IInv
<1>2. /\ o \in Operation
      /\ o.pc = "router" /\ o.kind = "clear" /\ o.targets = gone /\ o.password = 0
      /\ o.seen = shares /\ o.next = next /\ o.store = EmptyStore
  BY <1>1, RouterRecordType
<1> HIDE DEF o
<1>3. op'[p] = o /\ \A q \in Parties \ {p} : op'[q] = op[q]
  BY <1>1, <1>2, LeavesType
<1>4. Untouched /\ outdated' = outdated /\ used' = used /\ issued' = issued
  BY DEF Withdraw, Untouched, files, history
<1>5. issued \in Nat /\ clock \in Nat
  BY <1>1, FileType
<1>6. Shape(o)
  BY <1>2 DEF Shape, Creating
<1>7. Known(o, used, issued)
  <2>1. gone \subseteq used /\ \A s \in shares : s.id \in used
    BY DEF IInv, FilesInv, IdsOf
  <2> QED
    BY <1>2, <1>5, <2>1, EmptyHasNone DEF Known
<1>8. Listing(o, clock)
  <2>1. /\ o.next = {s \in o.seen : s.id \notin o.targets}
        /\ o.targets # {} /\ o.targets \subseteq IdsOf(o.seen)
    BY <1>2
  <2>2. \/ \E i \in Ids : o.targets = {i}
        \/ o.targets = IdsOf(o.seen \ Live(o.seen, clock))
    BY <1>2
  <2>3. clock \in Nat /\ clock <= clock
    BY <1>5
  <2>4. Drops(o, clock)
    BY <2>1, <2>2, <2>3, Zenon DEF Drops
  <2> QED
    BY <1>2, <2>4 DEF Listing, Creating, IInv, FilesInv
<1>9. \A q \in Parties : Creating(op[q]) => op[q].targets \cap gone = {}
  BY DEF IInv, ExclusiveInv, Exclusive, IdsOf
<1>10. Opens(p, o)
  BY <1>2, <1>3, <1>4, <1>5, <1>6, <1>7, <1>8, <1>9, EmptyHasNone DEF Opens, Sets, Creating
<1> QED
  BY <1>1, <1>10, OpensKeeps

LEMMA CreatePublicOpens ==
  ASSUME IInv, NEW r \in Requests, NEW i \in Ids, NEW c \in Containers, NEW ttl \in Ttls,
         CreatePublic(r, i, c, ttl)
  PROVE  IInv'
<1> DEFINE new == NewShare(i, c, "public", ttl)
           next == Live(shares, clock) \cup {new}
           o == RouterRecord("create", {i}, next)
<1>1. TypeOK /\ TypeOK' /\ next \in SUBSET Share /\ Leaves(r, o)
  BY CreatePublicType DEF IInv
<1>2. /\ o \in Operation
      /\ o.pc = "router" /\ o.kind = "create" /\ o.targets = {i} /\ o.password = 0
      /\ o.seen = shares /\ o.next = next /\ o.store = EmptyStore
  BY <1>1, RouterRecordType
<1>3. /\ new \in Share /\ new.id = i /\ new.container = c /\ new.mode = "public"
      /\ \A x \in Live(shares, clock) : x.container # c
  BY <1>1 DEF NewShare, CreatePublic, AlreadyShared
<1>4. i \notin used /\ Untouched /\ outdated' = outdated /\ used' = used \cup {i} /\ issued' = issued
  BY DEF CreatePublic, Fresh, Untouched, files, history
<1> HIDE DEF new, o
<1>5. op'[r] = o /\ \A q \in Parties \ {r} : op'[q] = op[q]
  BY <1>1, <1>2, LeavesType
<1>6. issued \in Nat /\ clock \in Nat
  BY <1>1, FileType
<1>7. \A s \in shares : s.id \in used
  BY DEF IInv, FilesInv
<1>8. Shape(o)
  BY <1>2 DEF Shape, Creating
<1>9. Known(o, used', issued)
  BY <1>2, <1>4, <1>6, <1>7, EmptyHasNone DEF Known
<1>10. Listing(o, clock)
  <2>1. Adds(o, new, clock, clock)
    BY <1>2, <1>3, <1>4, <1>6, <1>7 DEF Adds
  <2> QED
    BY <1>2, <1>3, <1>6, <2>1 DEF Listing, Creating, IInv, FilesInv
<1>11. \A n \in next : n.id = i => n.mode = "public"
  BY <1>3, <1>4, <1>7 DEF Live
<1>12. Opens(r, o)
  BY <1>2, <1>4, <1>5, <1>6, <1>8, <1>9, <1>10, <1>11, EmptyHasNone DEF Opens, Sets, Creating
<1> QED
  BY <1>1, <1>12, OpensKeeps

\* A password that was just made, on a store as it is.
LEMMA SetOnStore ==
  ASSUME IInv, NEW s \in Scopes, NEW scope \in {"none", "share", "host"}
  PROVE  LET w == WithProtection(store, s, scope, issued + 1)
         IN /\ w \in Store /\ w.tokens = store.tokens
            /\ Pw(w, s) = issued + 1 /\ Ep(w, s) = Ep(store, s) + 1
            /\ \A x \in Scopes \ {s} : w.protections[x] = store.protections[x]
            /\ \A ids : used \subseteq ids /\ s \in ids \cup Hosts => Sound(w, ids, issued + 1)
            /\ \A x \in Scopes : Has(w, x) => Has(store, x) \/ x = s
<1> DEFINE w == WithProtection(store, s, scope, issued + 1)
<1>1. store \in Store /\ issued \in Nat /\ issued + 1 \in Nat
  BY FileType DEF IInv
<1>2. /\ w \in Store /\ w.tokens = store.tokens
      /\ Pw(w, s) = issued + 1 /\ Ep(w, s) = Ep(store, s) + 1
      /\ \A x \in Scopes \ {s} : w.protections[x] = store.protections[x]
  BY <1>1, SetFields
<1> HIDE DEF w
<1>3. \A x \in Scopes \ {s} : (Has(w, x) <=> Has(store, x)) /\ Pw(w, x) = Pw(store, x)
  BY <1>2 DEF Has, Pw
<1>4. ASSUME NEW ids, used \subseteq ids, s \in ids \cup Hosts
      PROVE  Sound(w, ids, issued + 1)
  <2>1. Sound(store, used, issued) /\ \A x \in Scopes : Pw(store, x) \in Nat
    BY <1>1, StoreFields DEF IInv, FilesInv
  <2> QED
    BY <1>1, <1>2, <1>3, <1>4, <2>1 DEF Sound
<1> QED
  BY <1>2, <1>3, <1>4 DEF w

LEMMA CreateProtectedOpens ==
  ASSUME IInv, NEW r \in Requests, NEW i \in Ids, NEW c \in Containers, NEW ttl \in Ttls,
         CreateProtected(r, i, c, ttl)
  PROVE  IInv'
<1> DEFINE new == NewShare(i, c, "protected", ttl)
           next == Live(shares, clock) \cup {new}
           w == WithProtection(store, i, "share", issued + 1)
           o == CreateRecord(i, next)
<1>1. TypeOK /\ TypeOK' /\ next \in SUBSET Share /\ Leaves(r, o)
  BY CreateProtectedType DEF IInv
<1>2. /\ o \in Operation
      /\ o.pc = "store" /\ o.kind = "create" /\ o.targets = {i} /\ o.password = issued + 1
      /\ o.seen = shares /\ o.next = next /\ o.store = w
  BY <1>1, CreateRecordType
<1>3. /\ new \in Share /\ new.id = i /\ new.container = c
      /\ \A x \in Live(shares, clock) : x.container # c
  BY <1>1 DEF NewShare, CreateProtected, AlreadyShared
<1>4. i \notin used /\ Untouched /\ outdated' = outdated /\ used' = used \cup {i}
      /\ issued' = issued + 1
  BY DEF CreateProtected, Fresh, Untouched, files, history
<1>5. /\ w.tokens = store.tokens
      /\ Pw(w, i) = issued + 1 /\ Ep(w, i) = Ep(store, i) + 1
      /\ \A x \in Scopes \ {i} : w.protections[x] = store.protections[x]
      /\ Sound(w, used', issued + 1)
      /\ \A x \in Scopes : Has(w, x) => Has(store, x) \/ x = i
  BY <1>4, SetOnStore
<1> HIDE DEF new, w, o
<1>6. op'[r] = o /\ \A q \in Parties \ {r} : op'[q] = op[q]
  BY <1>1, <1>2, LeavesType
<1>7. issued \in Nat /\ clock \in Nat
  BY <1>1, FileType
<1>8. \A s \in shares : s.id \in used
  BY DEF IInv, FilesInv
<1>9. Shape(o)
  BY <1>2 DEF Shape, Creating
<1>10. Known(o, used', issued')
  BY <1>2, <1>4, <1>5, <1>7, <1>8 DEF Known
<1>11. Listing(o, clock)
  <2>1. Adds(o, new, clock, clock)
    BY <1>2, <1>3, <1>4, <1>7, <1>8 DEF Adds
  <2> QED
    BY <1>2, <1>3, <1>7, <2>1 DEF Listing, Creating, IInv, FilesInv
<1>12. BuiltOn(o, store)
  <2>1. i \notin Tokens
    BY ScopesAreDistinct
  <2> QED
    BY <1>2, <1>5, <2>1 DEF BuiltOn, Sets
<1>13. Opens(r, o)
  BY <1>2, <1>4, <1>5, <1>6, <1>7, <1>9, <1>10, <1>11, <1>12 DEF Opens, Sets, Creating, Awaits
<1> QED
  BY <1>1, <1>13, OpensKeeps

LEMMA HashOpens ==
  ASSUME IInv, NEW p \in Parties, NEW kind \in {"regenerate", "protect"}, NEW s \in Scopes,
         NEW scope \in {"none", "share", "host"}, Hash(p, kind, s, scope),
         kind = "regenerate" => s \in IdsOf(shares),
         kind = "protect" => s \in Nameable
  PROVE  IInv'
<1> DEFINE w == WithProtection(store, s, scope, issued + 1)
           o == HashRecord(kind, s, scope)
<1>1. TypeOK /\ TypeOK' /\ Leaves(p, o)
  BY HashType DEF IInv
<1>2. /\ o \in Operation
      /\ o.pc = "store" /\ o.kind = kind /\ o.targets = {s} /\ o.password = issued + 1
      /\ o.seen = {} /\ o.next = {} /\ o.store = w
  BY <1>1, HashRecordType
<1>3. Untouched /\ outdated' = outdated /\ used' = used /\ issued' = issued + 1
  BY DEF Hash, Untouched, files, history
<1>4. s \in used \cup Hosts
  <2>1. \A x \in Protected(store) : x \in used \cup Hosts
    BY DEF IInv, FilesInv, Sound, Protected
  <2>2. \A x \in IdsOf(shares) : x \in used
    BY DEF IInv, FilesInv, IdsOf
  <2> QED
    BY <2>1, <2>2 DEF Nameable
<1>5. /\ w.tokens = store.tokens
      /\ Pw(w, s) = issued + 1 /\ Ep(w, s) = Ep(store, s) + 1
      /\ \A x \in Scopes \ {s} : w.protections[x] = store.protections[x]
      /\ Sound(w, used, issued + 1)
      /\ \A x \in Scopes : Has(w, x) => Has(store, x) \/ x = s
  BY <1>4, SetOnStore
<1> HIDE DEF w, o
<1>6. op'[p] = o /\ \A q \in Parties \ {p} : op'[q] = op[q]
  BY <1>1, <1>2, LeavesType
<1>7. issued \in Nat /\ clock \in Nat
  BY <1>1, FileType
<1>8. Shape(o)
  <2>1. kind = "regenerate" => s \in Ids
    BY <1>1, FileType DEF IdsOf
  <2> QED
    BY <1>2, <2>1 DEF Shape, Creating
<1>9. Known(o, used, issued')
  BY <1>2, <1>3, <1>4, <1>5, <1>7 DEF Known
<1>10. Listing(o, clock)
  BY <1>2 DEF Listing, Creating, Sparse
<1>11. BuiltOn(o, store)
  <2>1. s \notin Tokens
    BY ScopesAreDistinct
  <2> QED
    BY <1>2, <1>5, <2>1 DEF BuiltOn, Sets
<1>12. ASSUME NEW q \in Parties, Creating(op[q]), s \in op[q].targets
       PROVE  kind = "protect" /\ Awaits(op[q])
  <2>1. Exclusive(q) /\ Shape(op[q])
    BY DEF IInv, ExclusiveInv, OpsInv
  <2>2. kind = "protect"
    BY <1>12, <2>1 DEF Exclusive, IdsOf
  <2>3. s \in Ids /\ s \notin Hosts
    BY <1>12, <2>1, ScopesAreDistinct, TargetsByKind
  <2>4. Has(store, s)
    BY <1>12, <2>2, <2>3 DEF Nameable, Protected, Creating
  <2>5. op[q].pc \in {"auth", "router"}
    BY <1>12, <2>1, <2>4 DEF Exclusive, Shape
  <2> QED
    BY <2>2, <2>5 DEF Awaits
<1>13. Opens(p, o)
  BY <1>2, <1>3, <1>5, <1>6, <1>7, <1>8, <1>9, <1>10, <1>11, <1>12
  DEF Opens, Sets, Creating, Awaits
<1> QED
  BY <1>1, <1>13, OpensKeeps

\* Records taken out of a store as it is.
LEMMA ClearOnStore ==
  ASSUME IInv, NEW gone
  PROVE  LET w == WithoutProtections(store, gone)
         IN /\ w \in Store /\ w.tokens = store.tokens
            /\ \A x \in Scopes :
                 w.protections[x] = IF x \in gone THEN NoProtection ELSE store.protections[x]
            /\ Sound(w, used, issued)
            /\ \A x \in Scopes : Has(w, x) => Has(store, x)
<1> DEFINE w == WithoutProtections(store, gone)
<1>1. store \in Store /\ issued \in Nat
  BY FileType DEF IInv
<1>2. /\ w \in Store /\ w.tokens = store.tokens
      /\ \A x \in Scopes :
           w.protections[x] = IF x \in gone THEN NoProtection ELSE store.protections[x]
  BY <1>1, ClearFields
<1> HIDE DEF w
<1>3. \A x \in Scopes : Has(w, x) => Has(store, x) /\ Pw(w, x) = Pw(store, x)
  BY <1>2 DEF Has, Pw
<1>4. \A x \in Scopes : ~Has(w, x) => Pw(w, x) = 0
  BY <1>2, StoreFields
<1>5. Sound(w, used, issued)
  BY <1>1, <1>3, <1>4 DEF IInv, FilesInv, Sound
<1> QED
  BY <1>2, <1>3, <1>5 DEF w

LEMMA ReadStoreOpens ==
  ASSUME IInv, NEW p \in Parties, ReadStore(p)
  PROVE  IInv'
<1>2. PICK w \in Store :
      /\ w = WithoutProtections(store, Gone(p)) /\ w.tokens = store.tokens
      /\ \A x \in Scopes :
           w.protections[x] = IF x \in Gone(p) THEN NoProtection ELSE store.protections[x]
      /\ Sound(w, used, issued)
      /\ \A x \in Scopes : Has(w, x) => Has(store, x)
  BY ClearOnStore
<1> DEFINE o == [op[p] EXCEPT !.pc = "store", !.store = w]
<1>1. TypeOK /\ TypeOK' /\ Leaves(p, o)
  BY <1>2, ReadStoreType DEF IInv
<1>3. op[p].pc = "clear" /\ Untouched /\ outdated' = outdated /\ used' = used /\ issued' = issued
  BY DEF ReadStore, Untouched, files, history
<1>4. op[p] \in Operation /\ Shape(op[p]) /\ Known(op[p], used, issued) /\ Listing(op[p], clock)
  BY <1>1, OpType DEF IInv, OpsInv
<1>5. /\ o \in Operation
      /\ o.pc = "store" /\ o.kind = op[p].kind /\ o.targets = op[p].targets
      /\ o.password = op[p].password /\ o.seen = op[p].seen /\ o.next = op[p].next
      /\ o.store = w
  BY <1>4 DEF Operation
<1>6. op[p].kind = "clear" /\ op[p].targets \subseteq Ids
  BY <1>3, <1>4, TargetsByKind DEF Shape
<1> HIDE DEF o
<1>7. op'[p] = o /\ \A q \in Parties \ {p} : op'[q] = op[q]
  BY <1>1, <1>5, LeavesType
<1>8. issued \in Nat /\ clock \in Nat
  BY <1>1, FileType
<1>9. Shape(o)
  BY <1>5, <1>6 DEF Shape, Creating
<1>10. Known(o, used, issued)
  BY <1>2, <1>4, <1>5 DEF Known
<1>11. Listing(o, clock)
  BY <1>4, <1>5, <1>6 DEF Listing, Creating
<1>12. BuiltOn(o, store)
  <2>1. op[p].targets \cap Tokens = {}
    BY <1>6, ScopesAreDistinct
  <2>2. Gone(p) \subseteq op[p].targets
    BY DEF Gone
  <2> QED
    BY <1>2, <1>5, <1>6, <2>1, <2>2 DEF BuiltOn, Sets
<1>13. \A q \in Parties \ {p} : Creating(op[q]) => op[q].targets \cap o.targets = {}
  BY <1>5, <1>6 DEF IInv, ExclusiveInv, Exclusive
<1>14. ~stale => \A s \in shares : s.id \notin o.targets
  BY <1>3, <1>5, <1>6 DEF IInv, FreshInv
<1>15. Opens(p, o)
  BY <1>2, <1>3, <1>5, <1>6, <1>7, <1>8, <1>9, <1>10, <1>11, <1>12, <1>13, <1>14
  DEF Opens, Sets, Creating
<1> QED
  BY <1>1, <1>15, OpensKeeps

LEMMA UnprotectOpens ==
  ASSUME IInv, NEW k \in Commands, NEW s \in Scopes, Unprotect(k, s)
  PROVE  IInv'
<1>2. PICK w \in Store :
      /\ w = WithoutProtections(store, {s}) /\ w.tokens = store.tokens
      /\ \A x \in Scopes :
           w.protections[x] = IF x \in {s} THEN NoProtection ELSE store.protections[x]
      /\ Sound(w, used, issued)
      /\ \A x \in Scopes : Has(w, x) => Has(store, x)
  BY ClearOnStore
<1> DEFINE o == StoreRecord("unprotect", {s}, w)
<1>1. TypeOK /\ TypeOK' /\ Leaves(k, o)
  BY <1>2, UnprotectType DEF IInv
<1>3. s \in Scopes \cup Tokens
  OBVIOUS
<1>4. /\ o \in Operation
      /\ o.pc = "store" /\ o.kind = "unprotect" /\ o.targets = {s} /\ o.password = 0
      /\ o.seen = {} /\ o.next = {} /\ o.store = w
  BY <1>3 DEF StoreRecord, Idle, Operation
<1>5. Has(store, s) /\ Untouched /\ outdated' = outdated /\ used' = used /\ issued' = issued
  BY DEF Unprotect, Untouched, files, history
<1> HIDE DEF o
<1>6. op'[k] = o /\ \A q \in Parties \ {k} : op'[q] = op[q]
  BY <1>1, <1>4, LeavesType
<1>7. issued \in Nat /\ clock \in Nat
  BY <1>1, FileType
<1>8. Shape(o)
  BY <1>4 DEF Shape, Creating
<1>9. Known(o, used, issued)
  BY <1>2, <1>4, <1>5, <1>7 DEF Known, IInv, FilesInv, Sound
<1>10. Listing(o, clock)
  BY <1>4 DEF Listing, Creating, Sparse
<1>11. BuiltOn(o, store)
  <2>1. s \notin Tokens
    BY ScopesAreDistinct
  <2> QED
    BY <1>2, <1>4, <1>5, <2>1 DEF BuiltOn, Sets
<1>12. ASSUME NEW q \in Parties, Creating(op[q]), s \in op[q].targets
       PROVE  Awaits(op[q])
  BY <1>5, <1>12 DEF IInv, ExclusiveInv, Exclusive, OpsInv, Shape, Awaits
<1>13. \A x \in Scopes : Has(o.store, x) => Has(store, x)
  BY <1>2, <1>4
<1>14. Opens(k, o)
  BY <1>13, <1>4, <1>5, <1>6, <1>7, <1>8, <1>9, <1>10, <1>11, <1>12 DEF Opens, Sets, Creating
<1> QED
  BY <1>1, <1>14, OpensKeeps

LEMMA SetTokenOpens ==
  ASSUME IInv, NEW r \in Requests, NEW t \in Tokens, NEW to \in TokenStates, SetToken(r, t, to),
         <<store.tokens[t], to>> \in
           {<<"none", "active">>, <<"active", "revoked">>, <<"revoked", "revoked">>}
  PROVE  IInv'
<1>0. PICK w \in Store : w = [store EXCEPT !.tokens[t] = to]
  BY SetTokenType DEF IInv
<1> DEFINE o == StoreRecord("token", {t}, w)
<1>1. TypeOK /\ TypeOK' /\ Leaves(r, o)
  BY <1>0, SetTokenType DEF IInv
<1>2. /\ w.protections = store.protections /\ w.tokens[t] = to
      /\ \A u \in Tokens \ {t} : w.tokens[u] = store.tokens[u]
  BY <1>0, <1>1 DEF TypeOK, Store
<1>3. t \in Scopes \cup Tokens
  OBVIOUS
<1>4. /\ o \in Operation
      /\ o.pc = "store" /\ o.kind = "token" /\ o.targets = {t} /\ o.password = 0
      /\ o.seen = {} /\ o.next = {} /\ o.store = w
  BY <1>3 DEF StoreRecord, Idle, Operation
<1>5. Untouched /\ outdated' = outdated /\ used' = used /\ issued' = issued
  BY DEF SetToken, Untouched, files, history
<1> HIDE DEF o
<1>6. op'[r] = o /\ \A q \in Parties \ {r} : op'[q] = op[q]
  BY <1>1, <1>4, LeavesType
<1>7. issued \in Nat /\ clock \in Nat
  BY <1>1, FileType
<1>8. Shape(o)
  BY <1>4 DEF Shape, Creating
<1>9. Known(o, used, issued) /\ \A x \in Scopes : Has(w, x) => Has(store, x)
  BY <1>2, <1>4, <1>7 DEF Known, IInv, FilesInv, Sound, Pw, Has
<1>10. Listing(o, clock)
  BY <1>4 DEF Listing, Creating, Sparse
<1>11. t \notin Scopes
  BY ScopesAreDistinct
<1>12. BuiltOn(o, store)
  BY <1>2, <1>4, <1>11 DEF BuiltOn, Sets
<1>13. \A q \in Parties : Creating(op[q]) => t \notin op[q].targets
  BY <1>11, TargetsByKind DEF IInv, OpsInv
<1>14. Opens(r, o)
  BY <1>4, <1>5, <1>6, <1>7, <1>8, <1>9, <1>10, <1>12, <1>13 DEF Opens, Sets, Creating
<1> QED
  BY <1>1, <1>14, OpensKeeps

LEMMA PanelStartOpens ==
  ASSUME IInv, NEW r \in Requests, PanelStart(r)
  PROVE  IInv'
<1> DEFINE o == StartRecord
<1>1. TypeOK /\ TypeOK' /\ Leaves(r, o)
  BY PanelStartType DEF IInv
<1>2. /\ o \in Operation
      /\ o.pc = "auth" /\ o.kind = "start" /\ o.targets = {} /\ o.password = 0
      /\ o.seen = {} /\ o.next = {} /\ o.store = store
  BY <1>1, StartRecordType
<1>3. Untouched /\ outdated' = outdated /\ used' = used /\ issued' = issued
  BY DEF PanelStart, Untouched, files, history
<1> HIDE DEF o
<1>4. op'[r] = o /\ \A q \in Parties \ {r} : op'[q] = op[q]
  BY <1>1, <1>2, LeavesType
<1>5. issued \in Nat /\ clock \in Nat
  BY <1>1, FileType
<1>6. Shape(o)
  BY <1>2 DEF Shape, Creating
<1>7. Known(o, used, issued)
  BY <1>2, <1>5 DEF Known, IInv, FilesInv
<1>8. Listing(o, clock)
  BY <1>2 DEF Listing, Creating, Sparse
<1>9. Opens(r, o)
  BY <1>2, <1>3, <1>4, <1>5, <1>6, <1>7, <1>8 DEF Opens, Sets, Creating
<1> QED
  BY <1>1, <1>9, OpensKeeps

(***************************************************************************)
(* Time passes, and operations end without a write.                        *)
(***************************************************************************)

LEMMA EndsKeeps ==
  ASSUME IInv, TypeOK',
         \A q \in Parties : \/ op'[q] = Idle
                            \/ op'[q] = op[q] /\ (q \in outdated' <=> q \in outdated),
         UNCHANGED <<shares, store, told, toldToken, stale, unguarded, issued, used>>,
         clock <= clock'
  PROVE  IInv'
<1>1. TypeOK /\ issued \in Nat /\ clock \in Nat /\ clock' \in Nat
  BY DEF IInv, TypeOK
<1>2. /\ shares' = shares /\ store' = store /\ told' = told /\ toldToken' = toldToken
      /\ stale' = stale /\ unguarded' = unguarded /\ issued' = issued /\ used' = used
  OBVIOUS
<1>3. /\ ~Creating(Idle) /\ ~Sets(Idle) /\ Idle.kind # "clear" /\ Idle.pc # "store"
      /\ Idle.targets = {} /\ Idle.seen = {} /\ \A s \in Scopes : ~Has(Idle.store, s)
  BY IdleFields, EmptyHasNone DEF Creating, Sets
<1>4. OpsInv'
  <2> SUFFICES ASSUME NEW q \in Parties
               PROVE  Shape(op'[q]) /\ Known(op'[q], used, issued) /\ Listing(op'[q], clock')
    BY <1>2 DEF OpsInv
  <2>1. Shape(op[q]) /\ Known(op[q], used, issued) /\ Listing(op[q], clock')
    BY <1>1, ListingAges DEF IInv, OpsInv
  <2> QED
    BY <1>1, <2>1, IdleInv
<1>5. FilesInv'
  BY <1>2 DEF IInv, FilesInv
<1>6. ExclusiveInv'
  <2> SUFFICES ASSUME NEW q \in Parties, Creating(op'[q]), NEW i \in op'[q].targets
               PROVE  /\ \A s \in shares : s.id # i
                      /\ \A x \in Parties : \A s \in op'[x].seen : s.id # i
                      /\ \A x \in Parties \ {q} : i \in op'[x].targets =>
                           op'[x].kind \in {"protect", "unprotect"} /\ Awaits(op'[q])
                      /\ op'[q].pc = "store" =>
                           ~Has(store, i) /\ \A x \in Parties \ {q} : ~Has(op'[x].store, i)
    BY <1>2 DEF ExclusiveInv, Exclusive
  <2>1. op'[q] = op[q] /\ Exclusive(q) /\ Shape(op[q])
    BY <1>3 DEF IInv, ExclusiveInv, OpsInv
  <2>2. i \in Scopes
    BY <2>1, TargetsByKind
  <2> QED
    BY <1>3, <2>1, <2>2 DEF Exclusive
<1>7. BuiltInv'
  <2> SUFFICES ASSUME NEW q \in Parties, q \notin outdated', op'[q].pc = "store"
               PROVE  BuiltOn(op'[q], store) /\ Newer(q)'
    BY <1>2 DEF BuiltInv
  <2>1. op'[q] = op[q] /\ BuiltOn(op[q], store) /\ Newer(q)
    BY <1>3 DEF IInv, BuiltInv
  <2> QED
    BY <1>2, <1>3, <2>1 DEF Newer, Pw
<1>8. FreshInv'
  BY <1>2, <1>3 DEF IInv, FreshInv, Guarded, Has, Pw
<1>9. CredentialBeforeRouter' /\ NewestPasswordWins' /\ TokensAsTold'
  BY <1>2 DEF IInv, CredentialBeforeRouter, RoutedHasCredential, NewestPasswordWins,
              TokensAsTold, Has, Protected
<1> QED
  BY <1>4, <1>5, <1>6, <1>7, <1>8, <1>9 DEF IInv

(***************************************************************************)
(* The store is written.  Whoever missed no write puts back every record   *)
(* and token but those it changes.                                         *)
(***************************************************************************)

\* The record the store holds for a scope the write is about.
LEMMA WrittenTarget ==
  ASSUME IInv, NEW p \in Parties, WriteStore(p), ~stale', NEW s \in Scopes, s \in op[p].targets
  PROVE  /\ Sets(op[p]) => Has(store', s) /\ Pw(store', s) = op[p].password
                             /\ Pw(store, s) < op[p].password /\ told[s] < op[p].password
         /\ ~Sets(op[p]) => store'.protections[s] \in {NoProtection, store.protections[s]}
         /\ op[p].kind = "unprotect" => s \in unguarded'
<1>1. op[p].pc = "store" /\ p \notin outdated /\ store' = op[p].store
  BY DEF WriteStore
<1>2. BuiltOn(op[p], store) /\ Newer(p)
  BY <1>1 DEF IInv, BuiltInv
<1>3. Pw(store, s) \in Nat /\ op[p].password \in Nat /\ op[p].store \in Store
  BY FileType, OpType, StoreFields DEF IInv
<1>4. ASSUME Sets(op[p])
      PROVE  Has(store', s) /\ Pw(store', s) = op[p].password
               /\ Pw(store, s) < op[p].password /\ told[s] < op[p].password
  <2>1. Pw(op[p].store, s) = op[p].password
    BY <1>2, <1>4 DEF BuiltOn
  <2>2. Pw(store, s) < op[p].password /\ told[s] < op[p].password
    BY <1>2, <1>4 DEF Newer
  <2>3. Pw(op[p].store, s) # 0
    BY <1>3, <2>1, <2>2
  <2>4. Has(op[p].store, s)
    BY <1>3, <2>3, StoreFields
  <2> QED
    BY <1>1, <2>1, <2>2, <2>4
<1>5. ~Sets(op[p]) => store'.protections[s] \in {NoProtection, store.protections[s]}
  BY <1>1, <1>2 DEF BuiltOn
<1>6. op[p].kind = "unprotect" => s \in unguarded'
  BY DEF WriteStore
<1> QED
  BY <1>4, <1>5, <1>6

\* And for one it is not about: the record it held, waived as it was.
LEMMA WrittenElsewhere ==
  ASSUME IInv, NEW p \in Parties, WriteStore(p), ~stale', NEW s \in Scopes, s \notin op[p].targets
  PROVE  /\ store'.protections[s] = store.protections[s]
         /\ s \in unguarded' <=> s \in unguarded
<1>1. op[p].pc = "store" /\ p \notin outdated /\ store' = op[p].store
  BY DEF WriteStore
<1>2. BuiltOn(op[p], store)
  BY <1>1 DEF IInv, BuiltInv
<1> QED
  BY <1>1, <1>2 DEF BuiltOn, WriteStore

LEMMA WriteStoreKeeps ==
  ASSUME IInv, NEW p \in Parties, WriteStore(p)
  PROVE  IInv'
<1> DEFINE o == Written(op[p])
<1>1. /\ TypeOK /\ TypeOK' /\ Leaves(p, o) /\ o \in Operation
      /\ op[p] \in Operation /\ Shape(op[p]) /\ Known(op[p], used, issued) /\ Listing(op[p], clock)
      /\ op[p].password \in Nat /\ issued \in Nat
  BY WriteStoreType, OpType, FileType DEF IInv, OpsInv
<1>2. /\ op[p].pc = "store" /\ store' = op[p].store /\ stale' = (stale \/ p \in outdated)
      /\ outdated' = {q \in Parties \ {p} : op[q].pc = "store"}
      /\ shares' = shares /\ told' = told /\ clock' = clock /\ issued' = issued /\ used' = used
  BY DEF WriteStore
<1>3. \/ o = Idle
      \/ /\ o.pc = "auth" /\ o.kind = op[p].kind /\ o.targets = op[p].targets
         /\ o.password = op[p].password /\ o.seen = op[p].seen /\ o.next = op[p].next
         /\ o.store = op[p].store /\ op[p].kind # "token"
  BY <1>1 DEF Written, Operation
<1>4. op'[p] = o /\ \A q \in Parties \ {p} : op'[q] = op[q]
  BY <1>1, LeavesType
<1> HIDE DEF o
<1>5. /\ ~Creating(Idle) /\ ~Sets(Idle) /\ Idle.kind # "clear" /\ Idle.pc = "idle"
      /\ Idle.targets = {} /\ Idle.seen = {} /\ \A s \in Scopes : ~Has(Idle.store, s)
  BY IdleFields, EmptyHasNone DEF Creating, Sets
<1>6. OpsInv'
  <2>1. Shape(o)
    BY <1>1, <1>2, <1>3, <1>5, IdleInv DEF Shape, Creating
  <2>2. Known(o, used, issued)
    BY <1>1, <1>3, IdleInv DEF Known
  <2>3. Listing(o, clock)
    <3>1. Creating(op[p]) => \E n \in Share, at \in Nat : Adds(op[p], n, at, clock)
      BY <1>1 DEF Listing
    <3>2. o # Idle => \A n \in Share, at \in Nat : Adds(op[p], n, at, clock) => Adds(o, n, at, clock)
      BY <1>3 DEF Adds
    <3>3. o # Idle => Listing(o, clock)
      BY <1>1, <1>3, <3>1, <3>2 DEF Listing, Creating
    <3> QED
      BY <1>1, <3>3, IdleInv
  <2> QED
    BY <1>2, <1>4, <2>1, <2>2, <2>3 DEF OpsInv, IInv
<1>7. FilesInv'
  BY <1>1, <1>2 DEF IInv, FilesInv, Known
<1>8. ExclusiveInv'
  <2> SUFFICES ASSUME NEW q \in Parties, Creating(op'[q]), NEW i \in op'[q].targets
               PROVE  /\ \A s \in shares : s.id # i
                      /\ \A x \in Parties : \A s \in op'[x].seen : s.id # i
                      /\ \A x \in Parties \ {q} : i \in op'[x].targets =>
                           op'[x].kind \in {"protect", "unprotect"} /\ Awaits(op'[q])
                      /\ op'[q].pc = "store" =>
                           ~Has(store', i) /\ \A x \in Parties \ {q} : ~Has(op'[x].store, i)
    BY <1>2 DEF ExclusiveInv, Exclusive
  <2>1. /\ Creating(op[q]) /\ i \in op[q].targets /\ Exclusive(q) /\ Shape(op[q])
        /\ op'[q] # Idle /\ (Awaits(op[q]) => Awaits(op'[q]))
    BY <1>3, <1>4, <1>5 DEF IInv, ExclusiveInv, OpsInv, Creating, Awaits
  <2>2. i \in Scopes
    BY <2>1, TargetsByKind
  <2>3. \A x \in Parties : \A s \in op'[x].seen : s.id # i
    BY <1>3, <1>4, <1>5, <2>1 DEF Exclusive
  <2>4. \A x \in Parties \ {q} : i \in op'[x].targets =>
          op'[x].kind \in {"protect", "unprotect"} /\ Awaits(op'[q])
    BY <1>3, <1>4, <1>5, <2>1 DEF Exclusive
  <2>5. op'[q].pc = "store" => q # p /\ op[q].pc = "store"
    BY <1>3, <1>4, <1>5
  <2>6. op'[q].pc = "store" => ~Has(store', i) /\ \A x \in Parties \ {q} : ~Has(op'[x].store, i)
    BY <1>2, <1>3, <1>4, <1>5, <2>1, <2>2, <2>5 DEF Exclusive
  <2> QED
    BY <2>1, <2>3, <2>4, <2>6 DEF Exclusive
<1>9. BuiltInv'
  <2>1. o.pc # "store"
    BY <1>3, <1>5
  <2>2. \A q \in Parties : op'[q].pc = "store" => q \in outdated'
    BY <1>2, <1>4, <2>1
  <2> QED
    BY <2>2 DEF BuiltInv
<1>10. ASSUME ~stale', NEW i \in Ids, Guarded(i),
              i \in op[p].targets => Sets(op[p]) \/ op[p].kind = "unprotect"
       PROVE  Guarded(i)'
  BY <1>10, WrittenTarget, WrittenElsewhere DEF Guarded, Has
<1>11. FreshInv'
  <2> SUFFICES ASSUME ~stale' PROVE FreshInv'
    BY DEF FreshInv
  <2>1. /\ \A q \in Parties : Creating(op[q]) /\ Awaits(op[q]) =>
              \A n \in op[q].next : n.id \in op[q].targets /\ n.mode = "protected" => Guarded(n.id)
        /\ \A q \in Parties : op[q].kind = "clear" /\ op[q].pc \in {"clear", "store"} =>
              \A s \in shares : s.id \notin op[q].targets
        /\ \A q \in Parties : Sets(op[q]) /\ Awaits(op[q]) =>
              \A s \in op[q].targets : Has(store, s) => Pw(store, s) >= op[q].password
    BY <1>2 DEF IInv, FreshInv
  <2>2. BuiltOn(op[p], store) /\ Newer(p)
    BY <1>2 DEF IInv, BuiltInv
  <2>3. ASSUME NEW q \in Parties, Creating(op'[q]), Awaits(op'[q]), NEW n \in op'[q].next,
               n.id \in op'[q].targets, n.mode = "protected"
        PROVE  Guarded(n.id)'
    <3>1. Creating(op[q]) /\ n.id \in op[q].targets /\ n \in op[q].next /\ n.id \in Ids
          /\ Exclusive(q)
      BY <1>3, <1>4, <1>5, <2>3, TargetsByKind DEF IInv, ExclusiveInv, OpsInv, Creating
    <3>2. CASE q = p
      <4>1. Sets(op[p]) /\ n.id \in op[p].targets
        BY <3>1, <3>2 DEF Sets, Creating
      <4>2. n.id \in Scopes
        BY <3>1
      <4> QED
        BY <4>1, <4>2, WrittenTarget DEF Guarded
    <3>3. CASE q # p
      <4>1. Guarded(n.id)
        BY <1>4, <2>1, <2>3, <3>1, <3>3
      <4>2. n.id \in op[p].targets => op[p].kind \in {"protect", "unprotect"}
        BY <3>1, <3>3 DEF Exclusive
      <4> QED
        BY <1>10, <3>1, <4>1, <4>2 DEF Sets
    <3> QED
      BY <3>2, <3>3
  <2>4. \A q \in Parties : op'[q].kind = "clear" /\ op'[q].pc \in {"clear", "store"} =>
          \A s \in shares' : s.id \notin op'[q].targets
    BY <1>2, <1>3, <1>4, <1>5, <2>1
  <2>5. ASSUME NEW q \in Parties, Sets(op'[q]), Awaits(op'[q]), NEW s \in op'[q].targets,
               Has(store', s)
        PROVE  Pw(store', s) >= op'[q].password
    <3>1. Sets(op[q]) /\ op'[q].targets = op[q].targets /\ op'[q].password = op[q].password
          /\ s \in Scopes /\ op[q].password \in Nat /\ Pw(store', s) \in Nat
      <4>1. Sets(op[q]) /\ op'[q].targets = op[q].targets /\ op'[q].password = op[q].password
        BY <1>3, <1>4, <1>5, <2>5 DEF Sets
      <4>2. Shape(op[q]) /\ op[q].password \in Nat
        BY <1>1, OpType DEF IInv, OpsInv
      <4>3. store' \in Store
        BY <1>1 DEF TypeOK
      <4>4. s \in Scopes
        BY <2>5, <4>1, <4>2, TargetsByKind
      <4> QED
        BY <4>1, <4>2, <4>3, <4>4, StoreFields
    <3>2. CASE s \in op[p].targets /\ Sets(op[p])
      <4>1. Pw(store', s) = op[p].password
        BY <3>1, <3>2, WrittenTarget
      <4>2. q # p => op[q].password < op[p].password
        <5>1. q # p => Awaits(op[q])
          BY <1>4, <2>5
        <5> QED
          BY <2>2, <2>5, <3>1, <3>2, <5>1 DEF Newer
      <4> QED
        BY <1>1, <3>1, <4>1, <4>2
    <3>3. CASE s \notin op[p].targets \/ ~Sets(op[p])
      <4>1. q # p /\ op'[q] = op[q]
        BY <1>4, <2>5, <3>1, <3>3
      <4>2. store'.protections[s] = store.protections[s]
        BY <2>5, <3>1, <3>3, WrittenTarget, WrittenElsewhere DEF Has
      <4> QED
        BY <2>1, <2>5, <4>1, <4>2 DEF Has, Pw
    <3> QED
      BY <3>2, <3>3
  <2> QED
    BY <2>3, <2>4, <2>5 DEF FreshInv
<1>12. CredentialBeforeRouter'
  <2> SUFFICES ASSUME ~stale', NEW s \in shares, s.mode = "protected"
               PROVE  Guarded(s.id)'
    BY <1>2 DEF CredentialBeforeRouter, RoutedHasCredential, Guarded
  <2>1. s.id \in Ids /\ Guarded(s.id)
    BY <1>1, <1>2, FileType DEF IInv, CredentialBeforeRouter, RoutedHasCredential, Guarded
  <2>2. s.id \in op[p].targets => op[p].kind \notin {"clear", "token", "start", "none"}
    <3>1. op[p].kind # "start" /\ op[p].kind # "none"
      BY <1>1, <1>2 DEF Shape
    <3>2. op[p].kind = "clear" => s.id \notin op[p].targets
      BY <1>2 DEF IInv, FreshInv
    <3>3. op[p].kind = "token" => s.id \notin op[p].targets
      BY <1>1, <2>1, ScopesAreDistinct, TargetsByKind
    <3> QED
      BY <3>1, <3>2, <3>3
  <2>3. s.id \in op[p].targets => Sets(op[p]) \/ op[p].kind = "unprotect"
    BY <1>1, <2>2 DEF Sets, Operation
  <2> QED
    BY <1>10, <2>1, <2>3
<1>13. NewestPasswordWins'
  <2> SUFFICES ASSUME ~stale', NEW s \in Scopes, Has(store', s)
               PROVE  Pw(store', s) >= told[s]
    BY <1>2 DEF NewestPasswordWins, Protected, Pw
  <2>1. Has(store, s) => Pw(store, s) >= told[s]
    BY <1>2 DEF IInv, NewestPasswordWins, Protected, Pw
  <2>2. told[s] \in Nat
    BY <1>1 DEF TypeOK
  <2>3. CASE s \in op[p].targets /\ Sets(op[p])
    BY <1>1, <2>2, <2>3, WrittenTarget
  <2>4. CASE s \notin op[p].targets \/ ~Sets(op[p])
    <3>1. store'.protections[s] = store.protections[s]
      BY <2>4, WrittenTarget, WrittenElsewhere DEF Has
    <3> QED
      BY <2>1, <3>1 DEF Has, Pw
  <2> QED
    BY <2>3, <2>4
<1>14. TokensAsTold'
  <2> SUFFICES ASSUME ~stale' PROVE store'.tokens = toldToken'
    BY DEF TokensAsTold
  <2>1. BuiltOn(op[p], store) /\ store.tokens = toldToken
    BY <1>2 DEF IInv, BuiltInv, TokensAsTold
  <2>2. \A t \in Tokens : op[p].store.tokens[t] = toldToken'[t]
    BY <2>1 DEF BuiltOn, WriteStore
  <2>3. store'.tokens = [t \in Tokens |-> store'.tokens[t]]
        /\ toldToken' = [t \in Tokens |-> toldToken'[t]]
    BY <1>1 DEF TypeOK, Store
  <2> QED
    BY <1>2, <2>2, <2>3
<1> QED
  BY <1>1, <1>6, <1>7, <1>8, <1>9, <1>11, <1>12, <1>13, <1>14 DEF IInv

(***************************************************************************)
(* portta-auth.yaml and the share list are written, and callers answered.  *)
(***************************************************************************)

\* p goes on without the store, and may have told somebody its password.
Answers(p) ==
  /\ store' = store /\ toldToken' = toldToken /\ outdated' = outdated /\ unguarded' = unguarded
  /\ clock' = clock /\ issued' = issued /\ used' = used
  /\ stale => stale'
  /\ \A q \in Parties \ {p} : op'[q] = op[q]
  /\ op'[p].pc # "store" /\ (Sets(op'[p]) => op'[p].targets = op[p].targets /\ Sets(op[p])
                                /\ Awaits(op[p]) /\ op'[p].password = op[p].password)
  /\ \A s \in Scopes : \/ told'[s] = told[s]
                       \/ /\ Sets(op[p]) /\ Awaits(op[p]) /\ s \in op[p].targets
                          /\ told'[s] = op[p].password

LEMMA AnswersKeeps ==
  ASSUME IInv, TypeOK', NEW p \in Parties, Answers(p)
  PROVE  /\ \A s \in Scopes : told'[s] <= issued
         /\ BuiltInv' /\ NewestPasswordWins' /\ TokensAsTold'
<1>1. /\ TypeOK /\ issued \in Nat /\ op[p].password \in Nat /\ op[p].password <= issued
      /\ \A s \in Scopes : told[s] \in Nat /\ told'[s] \in Nat
  BY FileType, OpType DEF IInv, OpsInv, Known, TypeOK
<1>2. \A s \in Scopes : told'[s] <= issued
  BY <1>1 DEF IInv, FilesInv, Answers
<1>3. BuiltInv'
  <2> SUFFICES ASSUME NEW q \in Parties, q \notin outdated, op'[q].pc = "store"
               PROVE  BuiltOn(op'[q], store') /\ Newer(q)'
    BY DEF BuiltInv, Answers
  <2>1. q # p /\ op'[q] = op[q] /\ store' = store
    BY DEF Answers
  <2>2. BuiltOn(op[q], store) /\ Newer(q) /\ Shape(op[q]) /\ op[q].password \in Nat
    BY <1>1, <2>1, OpType DEF IInv, BuiltInv, OpsInv
  <2>3. ASSUME Sets(op[q]), NEW s \in op[q].targets
        PROVE  /\ told'[s] < op[q].password
               /\ \A x \in Parties : Sets(op'[x]) /\ Awaits(op'[x]) /\ s \in op'[x].targets
                                       => op'[x].password < op[q].password
    <3>1. s \in Scopes
      BY <2>2, <2>3, TargetsByKind
    <3>2. told'[s] < op[q].password
      BY <2>2, <2>3, <3>1 DEF Answers, Newer
    <3>3. \A x \in Parties : Sets(op'[x]) /\ Awaits(op'[x]) /\ s \in op'[x].targets
                               => op'[x].password < op[q].password
      BY <2>2, <2>3 DEF Answers, Newer
    <3> QED
      BY <3>2, <3>3
  <2> QED
    BY <2>1, <2>2, <2>3 DEF Newer, Pw
<1>4. NewestPasswordWins'
  <2> SUFFICES ASSUME ~stale, NEW s \in Scopes, Has(store, s)
               PROVE  Pw(store, s) >= told'[s]
    BY DEF NewestPasswordWins, Protected, Pw, Answers, Has
  <2>1. Pw(store, s) >= told[s]
    BY DEF IInv, NewestPasswordWins, Protected, Pw
  <2>2. Sets(op[p]) /\ Awaits(op[p]) /\ s \in op[p].targets => Pw(store, s) >= op[p].password
    BY DEF IInv, FreshInv
  <2> QED
    BY <2>1, <2>2 DEF Answers
<1>5. TokensAsTold'
  BY DEF IInv, TokensAsTold, Answers
<1> QED
  BY <1>2, <1>3, <1>4, <1>5

LEMMA WriteAuthKeeps ==
  ASSUME IInv, NEW p \in Parties, WriteAuth(p)
  PROVE  IInv'
<1> DEFINE o == Rendered(op[p])
<1>1. /\ TypeOK /\ TypeOK' /\ Leaves(p, o) /\ o \in Operation
      /\ op[p] \in Operation /\ Shape(op[p]) /\ Known(op[p], used, issued) /\ Listing(op[p], clock)
      /\ issued \in Nat
  BY WriteAuthType, OpType, FileType DEF IInv, OpsInv
<1>2. /\ op[p].pc = "auth" /\ store' = store /\ shares' = shares /\ clock' = clock
      /\ issued' = issued /\ used' = used /\ unguarded' = unguarded
  BY DEF WriteAuth
<1>3. \/ o = Idle /\ ~Creating(op[p])
      \/ /\ o.pc = "router" /\ o.kind = "create" /\ op[p].kind = "create"
         /\ o.targets = op[p].targets
         /\ o.password = op[p].password /\ o.seen = op[p].seen /\ o.next = op[p].next
         /\ o.store = op[p].store
  BY <1>1 DEF Rendered, Operation, Creating
<1>4. op'[p] = o /\ \A q \in Parties \ {p} : op'[q] = op[q]
  BY <1>1, LeavesType
<1> HIDE DEF o
<1>5. /\ ~Creating(Idle) /\ ~Sets(Idle) /\ Idle.kind # "clear" /\ Idle.pc = "idle"
      /\ Idle.targets = {} /\ Idle.seen = {} /\ \A s \in Scopes : ~Has(Idle.store, s)
  BY IdleFields, EmptyHasNone DEF Creating, Sets
<1>6. OpsInv'
  <2>1. Shape(o)
    BY <1>1, <1>2, <1>3, <1>5, IdleInv DEF Shape, Creating
  <2>2. Known(o, used, issued)
    BY <1>1, <1>3, IdleInv DEF Known
  <2>3. Listing(o, clock)
    <3>1. Creating(op[p]) => \E n \in Share, at \in Nat : Adds(op[p], n, at, clock)
      BY <1>1 DEF Listing
    <3>2. o # Idle => \A n \in Share, at \in Nat : Adds(op[p], n, at, clock) => Adds(o, n, at, clock)
      BY <1>3 DEF Adds
    <3>3. o # Idle => Listing(o, clock)
      BY <1>1, <1>3, <3>1, <3>2 DEF Listing, Creating
    <3> QED
      BY <1>1, <3>3, IdleInv
  <2> QED
    BY <1>2, <1>4, <2>1, <2>2, <2>3 DEF OpsInv, IInv
<1>7. Answers(p)
  <2>1. \A s \in Scopes : \/ told'[s] = told[s]
                          \/ /\ Sets(op[p]) /\ Awaits(op[p]) /\ s \in op[p].targets
                             /\ told'[s] = op[p].password
    BY <1>2 DEF WriteAuth, Answered, Sets, Awaits
  <2>2. stale => stale'
    BY DEF WriteAuth
  <2>3. toldToken' = toldToken /\ outdated' = outdated
    BY DEF WriteAuth
  <2> QED
    BY <1>2, <1>3, <1>4, <1>5, <2>1, <2>2, <2>3 DEF Answers, Sets, Awaits, Creating
<1>8. /\ \A s \in Scopes : told'[s] <= issued
      /\ BuiltInv' /\ NewestPasswordWins' /\ TokensAsTold'
  BY <1>1, <1>7, AnswersKeeps
<1>9. FilesInv'
  BY <1>2, <1>8 DEF IInv, FilesInv
<1>10. ExclusiveInv'
  <2> SUFFICES ASSUME NEW q \in Parties, Creating(op'[q]), NEW i \in op'[q].targets
               PROVE  /\ \A s \in shares : s.id # i
                      /\ \A x \in Parties : \A s \in op'[x].seen : s.id # i
                      /\ \A x \in Parties \ {q} : i \in op'[x].targets =>
                           op'[x].kind \in {"protect", "unprotect"} /\ Awaits(op'[q])
                      /\ op'[q].pc = "store" =>
                           ~Has(store, i) /\ \A x \in Parties \ {q} : ~Has(op'[x].store, i)
    BY <1>2 DEF ExclusiveInv, Exclusive
  <2>1. /\ Creating(op[q]) /\ i \in op[q].targets /\ Exclusive(q) /\ Shape(op[q])
        /\ (Awaits(op[q]) => Awaits(op'[q])) /\ (op'[q].pc = "store" => op[q].pc = "store")
    BY <1>3, <1>4, <1>5 DEF IInv, ExclusiveInv, OpsInv, Creating, Awaits
  <2>2. i \in Scopes
    BY <2>1, TargetsByKind
  <2> QED
    BY <1>3, <1>4, <1>5, <2>1, <2>2 DEF Exclusive
<1>11. FreshInv'
  <2>1. \A i : Guarded(i)' <=> Guarded(i)
    BY <1>2 DEF Guarded, Has
  <2>2. ~stale' => ~stale
    BY DEF WriteAuth
  <2> QED
    BY <1>2, <1>3, <1>4, <1>5, <2>1, <2>2 DEF IInv, FreshInv, Creating, Sets, Awaits, Has, Pw
<1>12. CredentialBeforeRouter'
  BY <1>2 DEF IInv, CredentialBeforeRouter, RoutedHasCredential, Has, WriteAuth
<1> QED
  BY <1>1, <1>6, <1>8, <1>9, <1>10, <1>11, <1>12 DEF IInv

\* The list a create or a withdrawal writes.
LEMMA WrittenList ==
  ASSUME IInv, NEW p \in Parties, op[p].pc = "router"
  PROVE  /\ Sparse(op[p].next)
         /\ \A s \in op[p].next :
              \/ s \in op[p].seen /\ (op[p].kind = "clear" => s.id \notin op[p].targets)
              \/ Creating(op[p]) /\ s.id \in op[p].targets
         /\ \A s \in op[p].next : s.id \in used
<1>1. /\ Shape(op[p]) /\ Known(op[p], used, issued) /\ Listing(op[p], clock)
      /\ op[p].next \subseteq Share /\ op[p].seen \subseteq Share
  BY OpType DEF IInv, OpsInv
<1>2. CASE Creating(op[p])
  <2>1. PICK n \in Share, at \in Nat : Adds(op[p], n, at, clock)
    BY <1>1, <1>2 DEF Listing
  <2>2. /\ n.id \in op[p].targets /\ op[p].next = Live(op[p].seen, at) \cup {n}
        /\ \A x \in Live(op[p].seen, at) : x.container # n.container
        /\ \A x \in op[p].seen : x.id # n.id
    BY <2>1 DEF Adds
  <2>3. Live(op[p].seen, at) \subseteq op[p].seen
    BY DEF Live
  <2>4. Sparse(op[p].next)
    BY <1>1, <2>2, <2>3 DEF Sparse, Listing
  <2>5. n.id \in used
    <3>1. n.id \in Ids
      BY DEF Share
    <3> QED
      BY <1>1, <2>2, <3>1, ScopesAreDistinct DEF Known
  <2>6. op[p].kind # "clear"
    BY <1>2 DEF Creating
  <2> QED
    BY <1>1, <1>2, <2>2, <2>3, <2>4, <2>5, <2>6 DEF Known
<1>3. CASE ~Creating(op[p])
  <2>1. op[p].kind = "clear"
    BY <1>1, <1>3 DEF Shape, Creating
  <2>2. op[p].next = {s \in op[p].seen : s.id \notin op[p].targets}
    BY <1>1, <2>1 DEF Listing, Drops
  <2> QED
    BY <1>1, <2>2 DEF Sparse, Listing, Known
<1> QED
  BY <1>2, <1>3

LEMMA WriteRouterKeeps ==
  ASSUME IInv, NEW p \in Parties, WriteRouter(p)
  PROVE  IInv'
<1> DEFINE o == Listed(op[p])
<1>1. /\ TypeOK /\ TypeOK' /\ Leaves(p, o) /\ o \in Operation
      /\ op[p] \in Operation /\ Shape(op[p]) /\ Known(op[p], used, issued) /\ Listing(op[p], clock)
      /\ issued \in Nat
  BY WriteRouterType, OpType, FileType DEF IInv, OpsInv
<1>2. /\ op[p].pc = "router" /\ store' = store /\ shares' = op[p].next /\ clock' = clock
      /\ issued' = issued /\ used' = used /\ unguarded' = unguarded
      /\ ~stale' => ~stale /\ op[p].seen = shares
  BY DEF WriteRouter
<1>3. op[p].targets \in SUBSET (Scopes \cup Tokens)
  BY <1>1 DEF Operation
<1>4. \/ o = Idle /\ op[p].kind = "create"
      \/ /\ op[p].kind = "clear"
         /\ o.pc = "clear" /\ o.kind = "clear" /\ o.targets = op[p].targets /\ o.password = 0
         /\ o.seen = {} /\ o.next = {} /\ o.store = EmptyStore
  <2>1. op[p].kind \in {"create", "clear"}
    BY <1>1, <1>2 DEF Shape
  <2> QED
    BY <1>3, <2>1, ClearRecordType DEF Listed
<1>5. op'[p] = o /\ \A q \in Parties \ {p} : op'[q] = op[q]
  BY <1>1, LeavesType
<1> HIDE DEF o
<1>6. /\ ~Creating(Idle) /\ ~Sets(Idle) /\ Idle.kind # "clear" /\ Idle.pc = "idle"
      /\ Idle.targets = {} /\ Idle.seen = {} /\ \A s \in Scopes : ~Has(Idle.store, s)
  BY IdleFields, EmptyHasNone DEF Creating, Sets
<1>7. /\ Sparse(op[p].next)
      /\ \A s \in op[p].next :
           \/ s \in op[p].seen /\ (op[p].kind = "clear" => s.id \notin op[p].targets)
           \/ Creating(op[p]) /\ s.id \in op[p].targets
      /\ \A s \in op[p].next : s.id \in used
  BY <1>2, WrittenList
<1>8. OpsInv'
  <2>1. Shape(o)
    BY <1>1, <1>4, IdleInv DEF Shape, Creating
  <2>2. Known(o, used, issued)
    BY <1>1, <1>4, IdleInv, EmptyHasNone DEF Known
  <2>3. Listing(o, clock)
    BY <1>1, <1>4, IdleInv DEF Listing, Creating, Sparse
  <2> QED
    BY <1>2, <1>5, <2>1, <2>2, <2>3 DEF OpsInv, IInv
<1>9. Answers(p)
  <2>1. \A s \in Scopes : \/ told'[s] = told[s]
                          \/ /\ Sets(op[p]) /\ Awaits(op[p]) /\ s \in op[p].targets
                             /\ told'[s] = op[p].password
    BY <1>1, <1>2 DEF WriteRouter, Sets, Awaits, TypeOK
  <2>2. (stale => stale') /\ toldToken' = toldToken /\ outdated' = outdated
    BY DEF WriteRouter
  <2> QED
    BY <1>2, <1>4, <1>5, <1>6, <2>1, <2>2 DEF Answers, Sets
<1>10. /\ \A s \in Scopes : told'[s] <= issued
       /\ BuiltInv' /\ NewestPasswordWins' /\ TokensAsTold'
  BY <1>1, <1>9, AnswersKeeps
<1>11. FilesInv'
  BY <1>2, <1>7, <1>10 DEF IInv, FilesInv
<1>12. ExclusiveInv'
  <2> SUFFICES ASSUME NEW q \in Parties, Creating(op'[q]), NEW i \in op'[q].targets
               PROVE  /\ \A s \in op[p].next : s.id # i
                      /\ \A x \in Parties : \A s \in op'[x].seen : s.id # i
                      /\ \A x \in Parties \ {q} : i \in op'[x].targets =>
                           op'[x].kind \in {"protect", "unprotect"} /\ Awaits(op'[q])
                      /\ op'[q].pc = "store" =>
                           ~Has(store, i) /\ \A x \in Parties \ {q} : ~Has(op'[x].store, i)
    BY <1>2 DEF ExclusiveInv, Exclusive
  <2>1. /\ q # p /\ op'[q] = op[q] /\ Creating(op[q]) /\ i \in op[q].targets
        /\ Exclusive(q) /\ Shape(op[q])
    BY <1>4, <1>5, <1>6 DEF IInv, ExclusiveInv, OpsInv, Creating
  <2>2. i \in Scopes
    BY <2>1, TargetsByKind
  <2>3. i \notin op[p].targets
    BY <1>4, <2>1 DEF Exclusive
  <2>4. \A s \in op[p].next : s.id # i
    BY <1>7, <2>1, <2>3 DEF Exclusive
  <2> QED
    BY <1>4, <1>5, <1>6, <2>1, <2>2, <2>3, <2>4, EmptyHasNone DEF Exclusive
<1>13. FreshInv'
  <2> SUFFICES ASSUME ~stale' PROVE FreshInv'
    BY DEF FreshInv
  <2>1. \A i : Guarded(i)' <=> Guarded(i)
    BY <1>2 DEF Guarded, Has
  <2>2. \A q \in Parties : Creating(op'[q]) /\ Awaits(op'[q]) =>
          \A n \in op'[q].next : n.id \in op'[q].targets /\ n.mode = "protected" => Guarded(n.id)'
    BY <1>2, <1>4, <1>5, <1>6, <2>1 DEF IInv, FreshInv, Creating
  <2>3. ASSUME NEW q \in Parties, op'[q].kind = "clear", op'[q].pc \in {"clear", "store"},
               NEW s \in op[p].next
        PROVE  s.id \notin op'[q].targets
    <3>1. CASE q = p
      BY <1>4, <1>5, <1>6, <1>7, <2>3, <3>1 DEF Creating
    <3>2. CASE q # p
      <4>1. op'[q] = op[q] /\ \A x \in shares : x.id \notin op[q].targets
        BY <1>2, <1>5, <2>3, <3>2 DEF IInv, FreshInv
      <4>2. Exclusive(p)
        BY DEF IInv, ExclusiveInv
      <4> QED
        BY <1>2, <1>7, <2>3, <3>2, <4>1, <4>2 DEF Exclusive
    <3> QED
      BY <3>1, <3>2
  <2>4. \A q \in Parties : Sets(op'[q]) /\ Awaits(op'[q]) =>
          \A s \in op'[q].targets : Has(store', s) => Pw(store', s) >= op'[q].password
    BY <1>2, <1>4, <1>5, <1>6 DEF IInv, FreshInv, Sets
  <2> QED
    BY <1>2, <2>2, <2>3, <2>4 DEF FreshInv
<1>14. CredentialBeforeRouter'
  <2> SUFFICES ASSUME ~stale', NEW s \in op[p].next, s.mode = "protected"
               PROVE  Guarded(s.id)
    BY <1>2 DEF CredentialBeforeRouter, RoutedHasCredential, Guarded, Has
  <2>1. CASE s \in shares
    BY <1>2, <2>1 DEF IInv, CredentialBeforeRouter, RoutedHasCredential, Guarded
  <2>2. CASE s \notin shares
    <3>1. Creating(op[p]) /\ Awaits(op[p]) /\ s.id \in op[p].targets
      BY <1>2, <1>7, <2>2 DEF Awaits
    <3> QED
      BY <1>2, <3>1 DEF IInv, FreshInv
  <2> QED
    BY <2>1, <2>2
<1> QED
  BY <1>1, <1>8, <1>10, <1>11, <1>12, <1>13, <1>14 DEF IInv

(***************************************************************************)
(* The invariant holds initially and every action keeps it.                *)
(***************************************************************************)

LEMMA InitInv == Init => IInv
<1> SUFFICES ASSUME Init PROVE IInv
  OBVIOUS
<1>1. /\ shares = {} /\ store = EmptyStore /\ op = [p \in Parties |-> Idle]
      /\ clock = 0 /\ issued = 0 /\ used = {} /\ told = [s \in Scopes |-> 0]
      /\ toldToken = [t \in Tokens |-> "none"] /\ outdated = {} /\ stale = FALSE
  BY DEF Init
<1>2. TypeOK
  <2>1. op \in [Parties -> Operation]
    BY <1>1, IdleType
  <2>2. store \in Store
    BY <1>1, EmptyStoreType
  <2>3. told \in [Scopes -> Nat] /\ toldToken \in [Tokens -> TokenStates]
    BY <1>1
  <2>4. shares \subseteq Share /\ clock \in Nat /\ issued \in Nat /\ used \subseteq Ids
    BY <1>1
  <2> QED
    BY <2>1, <2>2, <2>3, <2>4 DEF Init, TypeOK
<1>3. \A p \in Parties : op[p] = Idle
  BY <1>1
<1>4. /\ ~Creating(Idle) /\ ~Sets(Idle) /\ Idle.kind # "clear" /\ Idle.pc = "idle"
  BY IdleFields DEF Creating, Sets
<1>5. OpsInv
  BY <1>1, <1>3, IdleInv DEF OpsInv
<1>6. FilesInv
  BY <1>1, EmptyHasNone DEF FilesInv, Sparse
<1>7. ExclusiveInv /\ BuiltInv /\ FreshInv
  BY <1>3, <1>4 DEF ExclusiveInv, Exclusive, BuiltInv, FreshInv
<1>8. CredentialBeforeRouter /\ NewestPasswordWins
  BY <1>1, EmptyHasNone DEF CredentialBeforeRouter, RoutedHasCredential, NewestPasswordWins,
                            Protected
<1>9. TokensAsTold
  BY <1>1 DEF TokensAsTold, EmptyStore
<1> QED
  BY <1>2, <1>5, <1>6, <1>7, <1>8, <1>9 DEF IInv

LEMMA NextInv == IInv /\ [Next]_vars => IInv'
<1> SUFFICES ASSUME IInv, [Next]_vars
             PROVE  IInv'
  OBVIOUS
<1>1. TypeOK /\ clock \in Nat /\ shares \subseteq Share /\ store \in Store
  BY FileType DEF IInv
<1>2. ASSUME NEW r \in Requests, NEW i \in Ids, NEW c \in Containers, NEW ttl \in Ttls,
             CreatePublic(r, i, c, ttl) \/ CreateProtected(r, i, c, ttl)
      PROVE  IInv'
  BY <1>2, CreatePublicOpens, CreateProtectedOpens
<1>3. ASSUME NEW r \in Requests, NEW i \in Ids, Regenerate(r, i)
      PROVE  IInv'
  <2>1. i \in IdsOf(shares) /\ Hash(r, "regenerate", i, "share")
    BY <1>3 DEF Regenerate, IdsOf
  <2> QED
    BY <2>1, HashOpens
<1>4. ASSUME NEW r \in Requests, PanelStart(r)
      PROVE  IInv'
  BY <1>4, PanelStartOpens
<1>5. ASSUME NEW p \in Parties, NEW i \in Ids, Revoke(p, i)
      PROVE  IInv'
  <2>1. {i} \in SUBSET Ids /\ {i} # {} /\ {i} \subseteq IdsOf(shares) /\ Withdraw(p, {i})
    BY <1>5 DEF Revoke
  <2> QED
    BY <2>1, WithdrawOpens
<1>6. ASSUME NEW k \in Commands, Collect(k)
      PROVE  IInv'
  <2> DEFINE gone == IdsOf(shares \ Live(shares, clock))
  <2>1. gone \in SUBSET Ids /\ gone # {} /\ gone \subseteq IdsOf(shares) /\ Withdraw(k, gone)
    BY <1>1, <1>6, FileType DEF Collect, IdsOf
  <2> QED
    BY <2>1, WithdrawOpens
<1>7. ASSUME NEW k \in Commands, CommandDies(k)
      PROVE  IInv'
  <2>1. TypeOK'
    BY <1>1, <1>7, IdleType DEF TypeOK, CommandDies, files
  <2>2. \A q \in Parties : \/ op'[q] = Idle
                           \/ op'[q] = op[q] /\ (q \in outdated' <=> q \in outdated)
    BY <1>1, <1>7 DEF TypeOK, CommandDies
  <2> QED
    BY <1>1, <1>7, <2>1, <2>2, EndsKeeps DEF CommandDies, files
<1>8. ASSUME NEW k \in Commands, NEW s \in Scopes, Protect(k, s)
      PROVE  IInv'
  <2> DEFINE scope == IF Has(store, s) THEN store.protections[s].scope ELSE "host"
  <2>1. s \in Nameable /\ Hash(k, "protect", s, scope)
    BY <1>8 DEF Protect
  <2>2. scope \in {"none", "share", "host"}
    BY <1>1 DEF Store, Protection
  <2> QED
    BY <2>1, <2>2, HashOpens
<1>9. ASSUME NEW k \in Commands, NEW s \in Scopes, Unprotect(k, s)
      PROVE  IInv'
  BY <1>9, UnprotectOpens
<1>10. ASSUME NEW p \in Parties, Step(p)
       PROVE  IInv'
  BY <1>10, WriteStoreKeeps, WriteAuthKeeps, WriteRouterKeeps, ReadStoreOpens DEF Step
<1>11. ASSUME NEW r \in Requests, NEW t \in Tokens, CreateToken(r, t) \/ RevokeToken(r, t)
       PROVE  IInv'
  <2>1. CASE CreateToken(r, t)
    BY <2>1, SetTokenOpens DEF CreateToken
  <2>2. CASE RevokeToken(r, t)
    <3>1. store.tokens[t] \in {"active", "revoked"}
      BY <1>1, <2>2 DEF RevokeToken, Store
    <3> QED
      BY <2>2, <3>1, SetTokenOpens DEF RevokeToken
  <2> QED
    BY <1>11, <2>1, <2>2
<1>12. CASE Tick
  <2>1. clock' \in Nat /\ clock <= clock'
    BY <1>1, <1>12 DEF Tick
  <2>2. TypeOK'
    BY <1>1, <1>12, <2>1 DEF TypeOK, Tick, files, history
  <2> QED
    BY <1>12, <2>1, <2>2, EndsKeeps DEF Tick, files, history
<1>13. CASE PanelCrash
  <2>1. op' \in [Parties -> Operation]
    BY <1>1, <1>13, IdleType DEF TypeOK, PanelCrash
  <2>2. TypeOK'
    BY <1>1, <1>13, <2>1 DEF TypeOK, PanelCrash, files
  <2>3. \A q \in Parties : \/ op'[q] = Idle
                           \/ op'[q] = op[q] /\ (q \in outdated' <=> q \in outdated)
    BY <1>13 DEF PanelCrash
  <2> QED
    BY <1>1, <1>13, <2>2, <2>3, EndsKeeps DEF PanelCrash, files
<1>14. CASE UNCHANGED vars
  <2>1. TypeOK'
    BY <1>1, <1>14 DEF TypeOK, vars, files, history
  <2> QED
    BY <1>1, <1>14, <2>1, EndsKeeps DEF vars, files, history
<1> QED
  BY <1>2, <1>3, <1>4, <1>5, <1>6, <1>7, <1>8, <1>9, <1>10, <1>11, <1>12, <1>13, <1>14 DEF Next

(***************************************************************************)
(* What the invariant says of the safety properties.                       *)
(***************************************************************************)

\* Every state that can be reached satisfies the inductive invariant: what each
\* operation in progress has read and is going to write, and how that relates
\* to what the files hold.
THEOREM InvariantCorrect == Spec => []IInv
  BY InitInv, NextInv, PTL DEF Spec

\* Every variable keeps its type.
THEOREM TypeCorrect == Spec => []TypeOK
<1>1. IInv => TypeOK
  BY DEF IInv
<1> QED
  BY <1>1, InvariantCorrect, PTL

\* Credential first, router second: no crash and no interleaving of panel and
\* commands leaves a protected share routed without a record, unless a document
\* was overwritten from an old read or that share's record was taken away by
\* `portta auth unprotect`.
THEOREM CredentialFirst == Spec => []CredentialBeforeRouter
<1>1. IInv => CredentialBeforeRouter
  BY DEF IInv
<1> QED
  BY <1>1, InvariantCorrect, PTL

\* The share list never names a container twice, whoever overwrites it: each
\* list written comes from one that was read, and names a new container at most.
THEOREM OneShare == Spec => []OneSharePerContainer
<1>1. IInv => OneSharePerContainer
  BY DEF IInv, FilesInv, Sparse, OneSharePerContainer
<1> QED
  BY <1>1, InvariantCorrect, PTL

\* What a caller of the tokens API was told of a token is what the store says,
\* whatever shares and protections are written into the same document.
THEOREM TokensStay == Spec => []TokensAsTold
<1>1. IInv => TokensAsTold
  BY DEF IInv
<1> QED
  BY <1>1, InvariantCorrect, PTL

\* No record is older than the password its caller was shown last: whoever
\* builds on an old store has missed the write that gave the newer one.
THEOREM NewestStays == Spec => []NewestPasswordWins
<1>1. IInv => NewestPasswordWins
  BY DEF IInv
<1> QED
  BY <1>1, InvariantCorrect, PTL

(***************************************************************************)
(* What one step does to the store and to the list.                        *)
(***************************************************************************)

\* Only WriteStore writes the store, and only WriteRouter the share list.
LEMMA Writers ==
  ASSUME TypeOK, [Next]_vars
  PROVE  /\ ~stale' => ~stale
         /\ \/ store' = store /\ unguarded' = unguarded
            \/ \E p \in Parties : WriteStore(p)
         /\ \/ shares' = shares
            \/ \E p \in Parties : WriteRouter(p)
         /\ clock' = clock \/ Tick
<1> DEFINE Quiet == /\ shares' = shares /\ store' = store /\ unguarded' = unguarded
                    /\ stale' = stale
<1>1. ASSUME NEW r \in Requests, NEW i \in Ids, NEW c \in Containers, NEW ttl \in Ttls,
             CreatePublic(r, i, c, ttl) \/ CreateProtected(r, i, c, ttl)
      PROVE  Quiet /\ clock' = clock
  BY <1>1 DEF CreatePublic, CreateProtected, files, history
<1>2. ASSUME NEW r \in Requests, NEW i \in Ids, Regenerate(r, i)
      PROVE  Quiet /\ clock' = clock
  BY <1>2 DEF Regenerate, Hash, files, history
<1>3. ASSUME NEW r \in Requests, PanelStart(r)
      PROVE  Quiet /\ clock' = clock
  BY <1>3 DEF PanelStart, files, history
<1>4. ASSUME NEW p \in Parties, NEW i \in Ids, Revoke(p, i)
      PROVE  Quiet /\ clock' = clock
  BY <1>4 DEF Revoke, Withdraw, files, history
<1>5. ASSUME NEW k \in Commands, Collect(k) \/ CommandDies(k)
      PROVE  Quiet /\ clock' = clock
  BY <1>5 DEF Collect, Withdraw, CommandDies, files, history
<1>6. ASSUME NEW k \in Commands, NEW s \in Scopes, Protect(k, s) \/ Unprotect(k, s)
      PROVE  Quiet /\ clock' = clock
  BY <1>6 DEF Protect, Hash, Unprotect, files, history
<1>7. ASSUME NEW p \in Parties, WriteStore(p)
      PROVE  shares' = shares /\ clock' = clock /\ (~stale' => ~stale)
  BY <1>7 DEF WriteStore
<1>8. ASSUME NEW p \in Parties, WriteAuth(p)
      PROVE  /\ shares' = shares /\ store' = store /\ unguarded' = unguarded /\ clock' = clock
             /\ ~stale' => ~stale
  BY <1>8 DEF WriteAuth
<1>9. ASSUME NEW p \in Parties, WriteRouter(p)
      PROVE  /\ store' = store /\ unguarded' = unguarded /\ clock' = clock
             /\ ~stale' => ~stale
  BY <1>9 DEF WriteRouter
<1>10. ASSUME NEW p \in Parties, ReadStore(p)
       PROVE  Quiet /\ clock' = clock
  BY <1>10 DEF ReadStore, files, history
<1>11. ASSUME NEW r \in Requests, NEW t \in Tokens, CreateToken(r, t) \/ RevokeToken(r, t)
       PROVE  Quiet /\ clock' = clock
  BY <1>11 DEF CreateToken, RevokeToken, SetToken, files, history
<1>12. ASSUME Tick PROVE Quiet
  BY <1>12 DEF Tick, files, history
<1>13. ASSUME PanelCrash \/ UNCHANGED vars
       PROVE  Quiet /\ clock' = clock
  BY <1>13 DEF PanelCrash, vars, files, history
<1> QED
  BY <1>1, <1>2, <1>3, <1>4, <1>5, <1>6, <1>7, <1>8, <1>9, <1>10, <1>11, <1>12, <1>13
  DEF Next, Step

LEMMA EpochStep ==
  ASSUME IInv, [Next]_vars, ~stale', NEW s \in Scopes, Has(store, s), Has(store', s)
  PROVE  /\ Ep(store', s) >= Ep(store, s)
         /\ Pw(store', s) # Pw(store, s) => Ep(store', s) > Ep(store, s)
<1>1. TypeOK /\ Ep(store, s) \in Nat
  BY FileType, StoreFields DEF IInv
<1>2. CASE store' = store
  BY <1>1, <1>2
<1>3. ASSUME NEW p \in Parties, WriteStore(p)
      PROVE  store'.protections[s] = store.protections[s] \/ Ep(store', s) = Ep(store, s) + 1
  <2>1. BuiltOn(op[p], store) /\ store' = op[p].store
    BY <1>3 DEF IInv, BuiltInv, WriteStore
  <2> QED
    BY <2>1 DEF BuiltOn, Has
<1> QED
  BY <1>1, <1>2, <1>3, Writers DEF Ep, Pw

\* A record that stays changes its password only together with its epoch, and
\* its epoch never falls.
THEOREM EpochsRise == Spec => PasswordChangeBumpsEpoch
<1>1. IInv /\ [Next]_vars =>
        [\A s \in Scopes :
           (~stale' /\ Has(store, s) /\ Has(store, s)') =>
             LET old == store.protections[s]
                 new == store'.protections[s]
             IN new.epoch >= old.epoch /\ (new.password # old.password => new.epoch > old.epoch)
        ]_store
  BY EpochStep DEF Has, Ep, Pw
<1> QED
  BY <1>1, InvariantCorrect, PTL DEF Spec, PasswordChangeBumpsEpoch

\* What left the list was drawn, and belongs to no create in progress.
WithdrawnInv ==
  /\ withdrawn \subseteq used
  /\ \A p \in Parties : Creating(op[p]) => op[p].targets \cap withdrawn = {}
  /\ WithdrawnStaysWithdrawn

\* A create in progress after a step was in progress before it, or has just drawn
\* its id.
Creations ==
  \A p \in Parties : Creating(op'[p]) =>
    \/ Creating(op[p]) /\ op'[p].targets = op[p].targets
    \/ op'[p].targets \cap used = {}

\* All but WriteRouter leave the list, and what has left it, alone.
LEMMA StepsCreate ==
  ASSUME TypeOK, [Next]_vars
  PROVE  /\ Creations /\ used \subseteq used'
         /\ \/ shares' = shares /\ withdrawn' = withdrawn /\ (~stale' => ~stale)
            \/ \E p \in Parties : WriteRouter(p)
<1> DEFINE Rests == shares' = shares /\ withdrawn' = withdrawn /\ (~stale' => ~stale)
<1>1. op \in [Parties -> Operation]
  BY DEF TypeOK
<1>2. ASSUME NEW p \in Parties, NEW o, Leaves(p, o),
             \/ ~Creating(o)
             \/ Creating(op[p]) /\ o.targets = op[p].targets
             \/ o.targets \cap used = {}
      PROVE  Creations
  BY <1>1, <1>2 DEF Leaves, Creations
<1>3. ASSUME NEW r \in Requests, NEW i \in Ids, NEW c \in Containers, NEW ttl \in Ttls,
             CreatePublic(r, i, c, ttl)
      PROVE  Creations /\ used \subseteq used' /\ Rests
  <2> DEFINE o == [Idle EXCEPT !.pc = "router", !.kind = "create", !.targets = {i},
                               !.seen = shares,
                               !.next = Live(shares, clock) \cup {NewShare(i, c, "public", ttl)}]
  <2>1. Leaves(r, o) /\ i \notin used /\ used' = used \cup {i} /\ Rests
    BY <1>3, TurnsLeave DEF CreatePublic, Parties, Fresh, files, history
  <2>2. o.targets = {i}
    BY DEF Idle
  <2> HIDE DEF o
  <2> QED
    BY <1>2, <2>1, <2>2 DEF Parties
<1>4. ASSUME NEW r \in Requests, NEW i \in Ids, NEW c \in Containers, NEW ttl \in Ttls,
             CreateProtected(r, i, c, ttl)
      PROVE  Creations /\ used \subseteq used' /\ Rests
  <2> DEFINE o == CreateRecord(i, Live(shares, clock) \cup {NewShare(i, c, "protected", ttl)})
  <2>1. Leaves(r, o) /\ i \notin used /\ used' = used \cup {i} /\ Rests
    BY <1>4, TurnsLeave DEF CreateProtected, CreateRecord, Parties, Fresh, files, history
  <2>2. o.targets = {i}
    BY DEF CreateRecord
  <2> HIDE DEF o
  <2> QED
    BY <1>2, <2>1, <2>2 DEF Parties
<1>5. ASSUME NEW p \in Parties, NEW kind \in {"regenerate", "protect"}, NEW s, NEW scope,
             Hash(p, kind, s, scope)
      PROVE  Creations /\ used \subseteq used' /\ Rests
  <2>1. Leaves(p, HashRecord(kind, s, scope)) /\ used' = used /\ Rests
    BY <1>5, TurnsLeave DEF Hash, HashRecord, files, history
  <2>2. ~Creating(HashRecord(kind, s, scope))
    BY DEF HashRecord, Idle, Creating
  <2> QED
    BY <1>2, <2>1, <2>2
<1>6. ASSUME NEW p \in Parties, NEW gone, Withdraw(p, gone)
      PROVE  Creations /\ used \subseteq used' /\ Rests
  <2> DEFINE o == RouterRecord("clear", gone, {s \in shares : s.id \notin gone})
  <2>1. Leaves(p, o) /\ used' = used /\ Rests
    BY <1>6, TurnsLeave DEF Withdraw, RouterRecord, files, history
  <2>2. ~Creating(o)
    BY DEF RouterRecord, Idle, Creating
  <2> HIDE DEF o
  <2> QED
    BY <1>2, <2>1, <2>2
<1>7. ASSUME NEW p \in Parties, NEW kind \in {"unprotect", "token"}, NEW targets, NEW st,
             Continue(p, StoreRecord(kind, targets, st)),
             UNCHANGED <<files, used, history>>
      PROVE  Creations /\ used \subseteq used' /\ Rests
  <2>1. Leaves(p, StoreRecord(kind, targets, st)) /\ used' = used /\ Rests
    BY <1>7, TurnsLeave DEF files, history
  <2>2. ~Creating(StoreRecord(kind, targets, st))
    BY DEF StoreRecord, Idle, Creating
  <2> QED
    BY <1>2, <2>1, <2>2
<1>8. ASSUME NEW r \in Requests, PanelStart(r)
      PROVE  Creations /\ used \subseteq used' /\ Rests
  <2>1. Leaves(r, StartRecord) /\ used' = used /\ Rests
    BY <1>8, TurnsLeave DEF PanelStart, StartRecord, Parties, files, history
  <2>2. ~Creating(StartRecord)
    BY DEF StartRecord, Idle, Creating
  <2> QED
    BY <1>2, <2>1, <2>2 DEF Parties
<1>9. ASSUME NEW p \in Parties, Step(p)
      PROVE  Creations /\ used \subseteq used' /\ (Rests \/ WriteRouter(p))
  <2> DEFINE onward(pc) == [op[p] EXCEPT !.pc = pc]
             built(st)  == [op[p] EXCEPT !.pc = "store", !.store = st]
  <2>1. \/ Leaves(p, Idle)
        \/ \E pc : Leaves(p, onward(pc))
        \/ \E st : Leaves(p, built(st))
        \/ Leaves(p, ClearRecord(op[p].targets))
    <3>1. WriteStore(p) => Leaves(p, Idle) \/ Leaves(p, onward("auth"))
      BY TurnsLeave DEF WriteStore
    <3>2. WriteAuth(p) => Leaves(p, Idle) \/ Leaves(p, onward("router"))
      BY TurnsLeave DEF WriteAuth
    <3>3. WriteRouter(p) => Leaves(p, Idle) \/ Leaves(p, ClearRecord(op[p].targets))
      BY TurnsLeave DEF WriteRouter, ClearRecord
    <3>4. ReadStore(p) => \E st : Leaves(p, built(st))
      BY TurnsLeave DEF ReadStore
    <3> QED
      BY <1>9, <3>1, <3>2, <3>3, <3>4 DEF Step
  <2>2. ~Creating(Idle) /\ ~Creating(ClearRecord(op[p].targets))
    BY DEF Idle, ClearRecord, Creating
  <2>3. /\ \A pc : onward(pc).kind = op[p].kind /\ onward(pc).targets = op[p].targets
        /\ \A st : built(st).kind = op[p].kind /\ built(st).targets = op[p].targets
    <3>1. op[p] \in Operation
      BY <1>1
    <3> QED
      BY <3>1 DEF Operation
  <2> HIDE DEF onward, built
  <2>4. Creations
    BY <1>2, <2>1, <2>2, <2>3 DEF Creating
  <2>5. used' = used /\ (Rests \/ WriteRouter(p))
    <3>1. WriteStore(p) => used' = used /\ Rests
      BY DEF WriteStore
    <3>2. WriteAuth(p) => used' = used /\ Rests
      BY DEF WriteAuth
    <3>3. WriteRouter(p) => used' = used
      BY DEF WriteRouter
    <3>4. ReadStore(p) => used' = used /\ Rests
      BY DEF ReadStore, files, history
    <3> QED
      BY <1>9, <3>1, <3>2, <3>3, <3>4 DEF Step
  <2> QED
    BY <2>4, <2>5
<1>10. ASSUME \/ Tick
              \/ PanelCrash
              \/ \E k \in Commands : CommandDies(k)
              \/ UNCHANGED vars
       PROVE  Creations /\ used \subseteq used' /\ Rests
  <2>1. \A p \in Parties : op'[p] = op[p] \/ op'[p] = Idle
    BY <1>1, <1>10 DEF Tick, PanelCrash, CommandDies, vars
  <2>2. used' = used /\ Rests
    BY <1>10 DEF Tick, PanelCrash, CommandDies, vars, files, history
  <2> QED
    BY <2>1, <2>2, IdleFields DEF Creations, Creating
<1>11. ASSUME NEW r \in Requests, NEW i \in Ids, Regenerate(r, i)
       PROVE  Creations /\ used \subseteq used' /\ Rests
  BY <1>5, <1>11 DEF Regenerate, Parties
<1>12. ASSUME NEW p \in Parties, NEW i \in Ids, Revoke(p, i)
       PROVE  Creations /\ used \subseteq used' /\ Rests
  BY <1>6, <1>12 DEF Revoke
<1>13. ASSUME NEW k \in Commands, Collect(k)
       PROVE  Creations /\ used \subseteq used' /\ Rests
  BY <1>6, <1>13 DEF Collect, Parties
<1>14. ASSUME NEW k \in Commands, NEW s \in Scopes, Protect(k, s)
       PROVE  Creations /\ used \subseteq used' /\ Rests
  BY <1>5, <1>14 DEF Protect, Parties
<1>15. ASSUME NEW k \in Commands, NEW s \in Scopes, Unprotect(k, s)
       PROVE  Creations /\ used \subseteq used' /\ Rests
  BY <1>7, <1>15 DEF Unprotect, StoreRecord, Parties
<1>16. ASSUME NEW r \in Requests, NEW t \in Tokens, CreateToken(r, t) \/ RevokeToken(r, t)
       PROVE  Creations /\ used \subseteq used' /\ Rests
  BY <1>7, <1>16 DEF CreateToken, RevokeToken, SetToken, StoreRecord, Parties
<1> QED
  BY <1>3, <1>4, <1>8, <1>9, <1>10, <1>11, <1>12, <1>13, <1>14, <1>15, <1>16 DEF Next

LEMMA WithdrawnNext == IInv /\ WithdrawnInv /\ [Next]_vars => WithdrawnInv'
<1> SUFFICES ASSUME IInv, WithdrawnInv, [Next]_vars PROVE WithdrawnInv'
  OBVIOUS
<1>1. Creations /\ used \subseteq used'
  BY StepsCreate DEF IInv
<1>2. ASSUME shares' = shares, withdrawn' = withdrawn, ~stale' => ~stale
      PROVE  WithdrawnInv'
  BY <1>1, <1>2 DEF WithdrawnInv, WithdrawnStaysWithdrawn, Creations, IdsOf, Creating
<1>3. ASSUME NEW p \in Parties, WriteRouter(p)
      PROVE  WithdrawnInv'
  <2>1. /\ op[p].pc = "router" /\ shares' = op[p].next
        /\ withdrawn' = withdrawn \cup (IdsOf(shares) \ IdsOf(shares'))
        /\ ~stale' => ~stale /\ op[p].seen = shares
    BY <1>3 DEF WriteRouter
  <2>2. \A s \in shares : s.id \in used
    BY DEF IInv, FilesInv
  <2>3. withdrawn' \subseteq used'
    BY <1>1, <2>1, <2>2 DEF WithdrawnInv, IdsOf
  <2>4. \A q \in Parties : Creating(op[q]) => op[q].targets \cap IdsOf(shares) = {}
    BY DEF IInv, ExclusiveInv, Exclusive, IdsOf
  <2>5. \A q \in Parties : Creating(op'[q]) => op'[q].targets \cap withdrawn' = {}
    <3>1. IdsOf(shares) \subseteq used
      BY <2>2 DEF IdsOf
    <3> QED
      BY <1>1, <2>1, <2>4, <3>1 DEF WithdrawnInv, Creations
  <2>6. ASSUME ~stale' PROVE withdrawn' \cap IdsOf(shares') = {}
    <3>1. IdsOf(shares') \subseteq IdsOf(shares) \cup (IF Creating(op[p]) THEN op[p].targets ELSE {})
      BY <2>1, <2>6, WrittenList DEF IdsOf
    <3>2. withdrawn \cap IdsOf(shares) = {}
      BY <2>1, <2>6 DEF WithdrawnInv, WithdrawnStaysWithdrawn
    <3> QED
      BY <2>1, <3>1, <3>2 DEF WithdrawnInv
  <2> QED
    BY <2>3, <2>5, <2>6 DEF WithdrawnInv, WithdrawnStaysWithdrawn, Creating
<1> QED
  BY <1>2, <1>3, StepsCreate DEF IInv

\* A share that was revoked, collected or dropped when it had expired does not
\* come back: saveShares adds to the list it read only the share its request
\* created, and that has never been listed.
THEOREM WithdrawnStays == Spec => []WithdrawnStaysWithdrawn
<1>1. Init => WithdrawnInv
  BY IdleFields DEF Init, WithdrawnInv, WithdrawnStaysWithdrawn, Creating, IdsOf
<1>2. WithdrawnInv => WithdrawnStaysWithdrawn
  BY DEF WithdrawnInv
<1> QED
  BY <1>1, <1>2, WithdrawnNext, InvariantCorrect, PTL DEF Spec

(***************************************************************************)
(* The login routers.                                                      *)
(***************************************************************************)

\* With nothing overwritten or killed and the panel there, login routers that
\* are not those of the store are about to be written by somebody.
RoutersOrWriter ==
  (~stale /\ ~killed /\ panelUp) =>
    loginRouters = Protected(store) \/ \E p \in Parties : op[p].pc = "auth"

LEMMA RoutersNext == IInv /\ RoutersOrWriter /\ [Next]_vars => RoutersOrWriter'
<1> SUFFICES ASSUME IInv, RoutersOrWriter, [Next]_vars, ~stale', ~killed', panelUp'
             PROVE  loginRouters' = Protected(store)' \/ \E p \in Parties : op'[p].pc = "auth"
  BY DEF RoutersOrWriter
<1> DEFINE Goal == loginRouters' = Protected(store)' \/ \E p \in Parties : op'[p].pc = "auth"
<1> USE DEF RoutersOrWriter
<1>0. TypeOK
  BY DEF IInv
\* Most steps leave both files and whoever is about to write.
<1>1. ASSUME store' = store, loginRouters' = loginRouters, ~stale, ~killed, panelUp,
             \A p \in Parties : op[p].pc = "auth" => op'[p] = op[p]
      PROVE  Goal
  BY <1>1 DEF Protected, Has
<1>2. ASSUME NEW r \in Requests, NEW i \in Ids, NEW c \in Containers, NEW ttl \in Ttls,
             CreatePublic(r, i, c, ttl) \/ CreateProtected(r, i, c, ttl)
      PROVE  Goal
  BY <1>0, <1>1, <1>2 DEF CreatePublic, CreateProtected, Starts, Await, Continue, files,
                          history, TypeOK
<1>3. ASSUME NEW p \in Parties, NEW kind, NEW s, NEW scope, Hash(p, kind, s, scope) PROVE Goal
  BY <1>0, <1>1, <1>3 DEF Hash, Starts, Await, files, history, TypeOK
<1>4. ASSUME NEW r \in Requests, PanelStart(r) PROVE Goal
  <2>1. op'[r] = StartRecord
    BY <1>0, <1>4, PanelStartType, StartRecordType, LeavesType
  <2>2. op'[r].pc = "auth"
    BY <1>0, <2>1, StartRecordType
  <2> QED
    BY <2>2
<1>5. ASSUME NEW p \in Parties, NEW gone, Withdraw(p, gone) PROVE Goal
  BY <1>0, <1>1, <1>5 DEF Withdraw, Starts, Continue, files, history, TypeOK
<1>6. ASSUME NEW k \in Commands, CommandDies(k) PROVE Goal
  BY <1>0, <1>1, <1>6 DEF CommandDies, files, TypeOK
<1>7. ASSUME NEW k \in Commands, NEW s \in Scopes, Unprotect(k, s) PROVE Goal
  BY <1>0, <1>1, <1>7 DEF Unprotect, Starts, Continue, files, history, TypeOK
<1>8. ASSUME NEW p \in Parties, WriteStore(p) PROVE Goal
  <2>1. CASE op[p].kind = "token"
    <3>1. BuiltOn(op[p], store) /\ Shape(op[p]) /\ op[p].pc = "store" /\ store' = op[p].store
      BY <1>8 DEF IInv, BuiltInv, OpsInv, WriteStore
    <3>2. \A s \in Scopes : s \notin op[p].targets
      BY <2>1, <3>1, ScopesAreDistinct, TargetsByKind
    <3>3. Protected(store') = Protected(store)
      BY <3>1, <3>2 DEF BuiltOn, Protected, Has
    <3>4. /\ loginRouters' = loginRouters /\ ~stale /\ ~killed /\ panelUp
          /\ op' = [op EXCEPT ![p] = Idle]
      BY <1>8, <2>1 DEF WriteStore, Finish
    <3>5. \A q \in Parties : op[q].pc = "auth" => op'[q] = op[q]
      BY <1>0, <3>1, <3>4 DEF TypeOK
    <3> QED
      BY <3>3, <3>4, <3>5 DEF Protected, Has
  <2>2. CASE op[p].kind # "token"
    <3>1. op' = [op EXCEPT ![p] = [op[p] EXCEPT !.pc = "auth"]] /\ op[p] \in Operation
      BY <1>0, <1>8, <2>2, OpType DEF WriteStore, Continue
    <3>2. op'[p].pc = "auth"
      BY <1>0, <3>1 DEF TypeOK, Operation
    <3> QED
      BY <3>2
  <2> QED
    BY <2>1, <2>2
<1>9. ASSUME NEW p \in Parties, WriteAuth(p) PROVE Goal
  <2>1. /\ loginRouters' = Protected(op[p].store) /\ store' = store
        /\ op[p].store.protections = store.protections
    BY <1>9 DEF WriteAuth
  <2> QED
    BY <2>1 DEF Protected, Has
<1>10. ASSUME NEW p \in Parties, WriteRouter(p) PROVE Goal
  BY <1>0, <1>1, <1>10 DEF WriteRouter, Finish, Continue, TypeOK
<1>11. ASSUME NEW p \in Parties, ReadStore(p) PROVE Goal
  BY <1>0, <1>1, <1>11 DEF ReadStore, Continue, files, history, TypeOK
<1>12. ASSUME NEW r \in Requests, NEW t \in Tokens, NEW to, SetToken(r, t, to) PROVE Goal
  BY <1>0, <1>1, <1>12 DEF SetToken, Starts, Continue, files, history, TypeOK
<1>13. CASE Tick \/ UNCHANGED vars
  BY <1>1, <1>13 DEF Tick, vars, files, history
<1>14. CASE PanelCrash
  BY <1>14 DEF PanelCrash
<1> QED
  BY <1>2, <1>3, <1>4, <1>5, <1>6, <1>7, <1>8, <1>9, <1>10, <1>11, <1>12, <1>13, <1>14
     DEF Next, Step, Revoke, Collect, Regenerate, Protect, CreateToken, RevokeToken

\* The login routers are those of the store whenever nobody is between the two:
\* a panel that died there renders them at its start.
THEOREM RoutersFollow == Spec => []LoginRoutersFollowStore
<1>1. Init => RoutersOrWriter
  BY DEF Init, RoutersOrWriter, Protected, Has, EmptyStore
<1>2. RoutersOrWriter => LoginRoutersFollowStore
  BY DEF RoutersOrWriter, LoginRoutersFollowStore
<1> QED
  BY <1>1, <1>2, InvariantCorrect, RoutersNext, PTL DEF Spec

(***************************************************************************)
(* Every step is one operation of the directory, or none.                  *)
(***************************************************************************)

DirectoryStep ==
  stale' \/ Directory!DNext
         \/ UNCHANGED <<shares, Accepted, unguarded, store.tokens, clock>>

\* The destinations that ask for a password.
Asks(list, s) == s \in Hosts \/ \E x \in list : x.id = s /\ x.mode = "protected"

LEMMA AcceptedAt ==
  ASSUME NEW s \in Scopes
  PROVE  /\ Accepted[s] = IF Asks(shares, s) THEN Pw(store, s) ELSE 0
         /\ Accepted'[s] = IF Asks(shares', s) THEN Pw(store', s) ELSE 0
  BY DEF Accepted, Asks, Pw

\* Records that change behind no such destination change nothing.
LEMMA AcceptedKept ==
  ASSUME shares' = shares,
         \A s \in Scopes : Asks(shares, s) => Pw(store', s) = Pw(store, s)
  PROVE  Accepted' = Accepted
  BY DEF Accepted, Asks, Pw

LEMMA GuardableAsks ==
  ASSUME TypeOK, NEW s
  PROVE  s \in Directory!Guardable <=> s \in Scopes /\ Asks(shares, s)
BY FileType DEF Directory!Guardable, Asks

\* A share that comes brings its password, and takes the place of expired ones.
LEMMA PublishStep ==
  ASSUME IInv, TypeOK', ~stale, NEW n \in Share, NEW at \in Nat, at <= clock,
         shares' = Live(shares, at) \cup {n}, \A x \in shares : x.id # n.id,
         \A x \in Live(shares, at) : x.container # n.container,
         n.mode = "protected" => Guarded(n.id),
         store' = store, clock' = clock, unguarded' = unguarded
  PROVE  Directory!Publish
<1>1. /\ TypeOK /\ clock \in Nat /\ \A x \in shares : x \in Share /\ x.id \in Ids
      /\ Sparse(shares)
  BY FileType DEF IInv, FilesInv
<1>2. n \in shares' \ shares /\ n.id \in Ids /\ n.id \in Scopes /\ n.id \notin Hosts
  BY ScopesAreDistinct DEF Share
<1>3. n.id \notin Directory!RoutedIds(shares)
  BY DEF Directory!RoutedIds
<1>4. \A x \in shares' \ {n} : x \in shares /\ x.container # n.container
  BY DEF Live
<1>5. shares \ shares' \subseteq Directory!Expired(shares)
  BY <1>1 DEF Live, Directory!Expired, Share
<1>6. IF n.mode = "protected" THEN Accepted'[n.id] # 0 \/ n.id \in unguarded
                              ELSE Accepted'[n.id] = 0
  <2>1. CASE n.mode = "protected"
    <3>1. Asks(shares', n.id)
      BY <2>1 DEF Asks
    <3>2. Has(store, n.id) => Pw(store, n.id) # 0
      BY <1>2 DEF IInv, FilesInv, Sound
    <3> QED
      BY <1>2, <2>1, <3>1, <3>2, AcceptedAt DEF Guarded
  <2>2. CASE n.mode # "protected"
    <3>1. ~Asks(shares', n.id)
      BY <1>2, <1>4, <2>2 DEF Asks
    <3> QED
      BY <1>2, <2>2, <3>1, AcceptedAt
  <2> QED
    BY <2>1, <2>2
<1>7. ASSUME NEW x \in Scopes \ {n.id}
      PROVE  Accepted'[x] = IF x \in Directory!RoutedIds(shares \ shares') THEN 0 ELSE Accepted[x]
  <2>1. CASE x \in Directory!RoutedIds(shares \ shares')
    <3>1. PICK y \in shares : y \notin shares' /\ y.id = x
      BY <2>1 DEF Directory!RoutedIds
    <3>2. \A z \in shares' : z.id # x
      BY <1>1, <1>4, <3>1 DEF Sparse
    <3>3. x \notin Hosts
      BY <1>1, <3>1, ScopesAreDistinct
    <3> QED
      BY <2>1, <3>2, <3>3, AcceptedAt DEF Asks
  <2>2. CASE x \notin Directory!RoutedIds(shares \ shares')
    <3>1. Asks(shares', x) <=> Asks(shares, x)
      BY <1>4, <2>2 DEF Asks, Directory!RoutedIds
    <3> QED
      BY <2>2, <3>1, AcceptedAt
  <2> QED
    BY <2>1, <2>2
<1> QED
  BY <1>2, <1>3, <1>4, <1>5, <1>6, <1>7 DEF Directory!Publish

\* Shares that go take their passwords with them.
LEMMA RemoveStep ==
  ASSUME IInv, ~stale, NEW gone \in SUBSET Ids, gone # {}, gone \subseteq IdsOf(shares),
         shares' = {s \in shares : s.id \notin gone}, store' = store, clock' = clock,
         unguarded' = unguarded,
         \/ \E i \in Ids : gone = {i}
         \/ \E at \in Nat : at <= clock /\ gone = IdsOf(shares \ Live(shares, at))
  PROVE  Directory!Remove
<1>1. /\ TypeOK /\ clock \in Nat /\ \A x \in shares : x \in Share /\ x.id \in Ids
      /\ Sparse(shares)
  BY FileType DEF IInv, FilesInv
<1>2. shares' \subseteq shares /\ shares' # shares
  BY DEF IdsOf
<1>3. \/ shares \ shares' \subseteq Directory!Expired(shares)
      \/ \E i \in Directory!RoutedIds(shares) : shares' = {s \in shares : s.id # i}
  <2>1. ASSUME NEW at \in Nat, at <= clock, gone = IdsOf(shares \ Live(shares, at))
        PROVE  shares \ shares' \subseteq Directory!Expired(shares)
    <3>1. \A s \in shares : s.id \in gone => s \notin Live(shares, at)
      BY <1>1, <2>1 DEF IdsOf, Sparse
    <3>2. \A s \in shares : s.expiresAt \in Nat
      BY <1>1 DEF Share
    <3>3. \A s \in shares : s \notin Live(shares, at) => s.expiresAt <= clock
      BY <1>1, <2>1, <3>2 DEF Live
    <3> QED
      BY <3>1, <3>3 DEF Directory!Expired
  <2>2. ASSUME NEW i \in Ids, gone = {i}
        PROVE  \E j \in Directory!RoutedIds(shares) : shares' = {s \in shares : s.id # j}
    BY <2>2 DEF IdsOf, Directory!RoutedIds
  <2> QED
    BY <2>1, <2>2
<1>4. ASSUME NEW x \in Scopes
      PROVE  Accepted'[x] = IF x \in Directory!RoutedIds(shares \ shares') THEN 0 ELSE Accepted[x]
  <2>1. CASE x \in Directory!RoutedIds(shares \ shares')
    <3>1. PICK y \in shares : y \notin shares' /\ y.id = x
      BY <2>1 DEF Directory!RoutedIds
    <3>2. (\A z \in shares' : z.id # x) /\ x \notin Hosts
      BY <1>1, <3>1, ScopesAreDistinct
    <3> QED
      BY <2>1, <3>2, AcceptedAt DEF Asks
  <2>2. CASE x \notin Directory!RoutedIds(shares \ shares')
    <3>1. Asks(shares', x) <=> Asks(shares, x)
      BY <2>2 DEF Asks, Directory!RoutedIds
    <3> QED
      BY <2>2, <3>1, AcceptedAt
  <2> QED
    BY <2>1, <2>2
<1> QED
  BY <1>2, <1>3, <1>4 DEF Directory!Remove

LEMMA WriteRouterStep ==
  ASSUME IInv, TypeOK', ~stale', NEW p \in Parties, WriteRouter(p)
  PROVE  Directory!Publish \/ Directory!Remove
<1>1. /\ store' = store /\ clock' = clock /\ unguarded' = unguarded /\ ~stale
      /\ op[p].pc = "router" /\ shares' = op[p].next /\ op[p].seen = shares
  BY DEF WriteRouter
<1>2. Shape(op[p]) /\ Listing(op[p], clock)
  BY DEF IInv, OpsInv
<1>3. CASE Creating(op[p])
  <2>1. PICK n \in Share, at \in Nat : Adds(op[p], n, at, clock)
    BY <1>2, <1>3 DEF Listing
  <2>2. /\ at <= clock /\ shares' = Live(shares, at) \cup {n}
        /\ \A x \in shares : x.id # n.id
        /\ \A x \in Live(shares, at) : x.container # n.container
        /\ n.id \in op[p].targets /\ n \in op[p].next
    BY <1>1, <2>1 DEF Adds
  <2>3. n.mode = "protected" => Guarded(n.id)
    BY <1>1, <1>3, <2>2 DEF IInv, FreshInv, Awaits
  <2> QED
    BY <1>1, <2>2, <2>3, PublishStep
<1>4. CASE ~Creating(op[p])
  <2>1. op[p].kind = "clear" /\ op[p].targets \in SUBSET Ids
    BY <1>1, <1>2, <1>4 DEF Shape, Creating
  <2>2. Drops(op[p], clock)
    BY <1>1, <1>2, <2>1 DEF Listing
  <2> QED
    BY <1>1, <2>1, <2>2, RemoveStep DEF Drops
<1> QED
  BY <1>3, <1>4

\* The store is written: one destination's password, one token, or records and
\* exemptions that no destination shows.
LEMMA WriteStoreStep ==
  ASSUME IInv, TypeOK', ~stale', NEW p \in Parties, WriteStore(p)
  PROVE  DirectoryStep
<1>1. /\ TypeOK /\ op[p].pc = "store" /\ shares' = shares /\ clock' = clock /\ ~stale
      /\ store \in Store /\ store' = op[p].store /\ unguarded' \subseteq Scopes
      /\ unguarded \subseteq Scopes
  BY FileType DEF WriteStore, IInv, TypeOK
<1>2. Shape(op[p]) /\ BuiltOn(op[p], store) /\ op[p] \in Operation
  BY <1>1, OpType DEF IInv, OpsInv, BuiltInv, WriteStore
<1>3. \A s \in Scopes : s \notin op[p].targets =>
        Pw(store', s) = Pw(store, s) /\ (s \in unguarded' <=> s \in unguarded)
  BY WrittenElsewhere DEF Pw
<1>4. CASE op[p].kind = "token"
  <2>1. PICK t \in Tokens : op[p].targets = {t}
    BY <1>2, <1>4 DEF Shape
  <2>2. \A s \in Scopes : s \notin op[p].targets
    BY <2>1, ScopesAreDistinct
  <2>3. Accepted' = Accepted /\ unguarded' = unguarded
    BY <1>1, <1>3, <2>2, AcceptedKept
  <2>4. /\ \A u \in Tokens \ {t} : store'.tokens[u] = store.tokens[u]
        /\ <<store.tokens[t], store'.tokens[t]>> \in
             {<<"none", "active">>, <<"active", "revoked">>, <<"revoked", "revoked">>}
    BY <1>1, <1>2, <2>1 DEF BuiltOn
  <2>5. CASE <<store.tokens[t], store'.tokens[t]>> \in
               {<<"none", "active">>, <<"active", "revoked">>}
    <3>1. Directory!Issue
      BY <1>1, <2>3, <2>4, <2>5 DEF Directory!Issue
    <3> QED
      BY <3>1 DEF DirectoryStep, Directory!DNext
  <2>6. CASE <<store.tokens[t], store'.tokens[t]>> = <<"revoked", "revoked">>
    <3>1. \A u \in Tokens : store'.tokens[u] = store.tokens[u]
      BY <2>4, <2>6
    <3>2. store'.tokens = store.tokens
      BY <3>1 DEF IInv, TypeOK, Store
    <3> QED
      BY <1>1, <2>3, <3>2 DEF DirectoryStep
  <2> QED
    BY <2>4, <2>5, <2>6
<1>5. ASSUME op[p].kind # "token" PROVE store'.tokens = store.tokens
  <2>1. op[p].targets \cap Tokens = {}
    BY <1>1, <1>2, <1>5, ScopesAreDistinct DEF Shape, Operation
  <2>2. \A u \in Tokens : store'.tokens[u] = store.tokens[u]
    BY <1>1, <1>2, <2>1 DEF BuiltOn
  <2> QED
    BY <2>2 DEF IInv, TypeOK, Store
\* Nothing it is about asks for a password.
<1>6. ASSUME op[p].kind # "token", \A s \in Scopes \cap op[p].targets : ~Asks(shares, s)
      PROVE  DirectoryStep
  <2>1. Accepted' = Accepted
    BY <1>1, <1>3, <1>6, AcceptedKept
  <2>2. \A s \in Directory!Guardable : s \in unguarded' <=> s \in unguarded
    BY <1>1, <1>3, <1>6, GuardableAsks
  <2>3. Directory!Waive
    BY <1>1, <1>5, <1>6, <2>1, <2>2 DEF Directory!Waive
  <2> QED
    BY <2>3 DEF DirectoryStep, Directory!DNext
<1>7. ASSUME op[p].kind # "token", NEW s \in Scopes \cap op[p].targets, Asks(shares, s)
      PROVE  DirectoryStep
  <2>1. s \in Directory!Guardable /\ s \in Scopes
    BY <1>1, <1>7, GuardableAsks
  <2>2. op[p].kind # "clear" /\ op[p].kind # "start" /\ op[p].kind # "none"
    <3>1. op[p].kind # "start" /\ op[p].kind # "none"
      BY <1>1, <1>2 DEF Shape
    <3>2. op[p].kind # "clear"
      <4> SUFFICES ASSUME op[p].kind = "clear" PROVE FALSE
        OBVIOUS
      <4>1. s \in Ids /\ s \notin Hosts
        BY <1>2, <1>7, TargetsByKind, ScopesAreDistinct
      <4>2. \A x \in shares : x.id # s
        BY <1>1, <1>7 DEF IInv, FreshInv
      <4> QED
        BY <1>7, <4>1, <4>2 DEF Asks
    <3> QED
      BY <3>1, <3>2
  <2>3. op[p].targets = {s} /\ (Sets(op[p]) \/ op[p].kind = "unprotect")
    BY <1>2, <1>7, <2>2 DEF Shape, Sets, Operation
  <2>4. /\ Accepted[s] = Pw(store, s) /\ Accepted'[s] = Pw(store', s)
        /\ \A x \in Scopes \ {s} : Accepted'[x] = Accepted[x]
    BY <1>1, <1>3, <1>7, <2>3, AcceptedAt
  <2>5. CASE Sets(op[p])
    <3>1. Pw(store', s) = op[p].password /\ Pw(store, s) < op[p].password
      BY <1>7, <2>5, WrittenTarget
    <3>2. Pw(store, s) \in Nat /\ op[p].password \in Nat
      BY <1>1, <2>1, OpType, StoreFields
    <3>3. Accepted'[s] # 0 /\ Accepted'[s] # Accepted[s]
      BY <2>4, <3>1, <3>2
    <3>4. unguarded' = unguarded \ {s}
      BY <2>3, <2>5 DEF WriteStore, Sets
    <3>5. Directory!Rotate
      BY <1>1, <1>5, <1>7, <2>1, <2>4, <3>3, <3>4 DEF Directory!Rotate
    <3> QED
      BY <3>5 DEF DirectoryStep, Directory!DNext
  <2>6. CASE op[p].kind = "unprotect"
    <3>1. Has(store, s) /\ op[p].store.protections[s] = NoProtection
      BY <1>2, <1>7, <2>6 DEF BuiltOn
    <3>2. Pw(store, s) # 0
      BY <2>1, <3>1 DEF IInv, FilesInv, Sound
    <3>3. Pw(store', s) = 0
      BY <1>1, <3>1, NoProtectionFields DEF Pw
    <3>4. unguarded' = unguarded \cup {s}
      BY <2>3, <2>6 DEF WriteStore
    <3>5. Directory!Unguard
      BY <1>1, <1>5, <1>7, <2>1, <2>4, <3>2, <3>3, <3>4 DEF Directory!Unguard
    <3> QED
      BY <3>5 DEF DirectoryStep, Directory!DNext
  <2> QED
    BY <2>3, <2>5, <2>6
<1> QED
  BY <1>4, <1>6, <1>7

LEMMA DirectoryNext == IInv /\ [Next]_vars => DirectoryStep
<1> SUFFICES ASSUME IInv, [Next]_vars, ~stale'
             PROVE  DirectoryStep
  BY DEF DirectoryStep
<1>1. TypeOK /\ TypeOK' /\ clock \in Nat
  BY NextInv, FileType DEF IInv
<1>2. ASSUME NEW p \in Parties, WriteStore(p) PROVE DirectoryStep
  BY <1>1, <1>2, WriteStoreStep
<1>3. ASSUME NEW p \in Parties, WriteRouter(p) PROVE DirectoryStep
  BY <1>1, <1>3, WriteRouterStep DEF DirectoryStep, Directory!DNext
<1>4. ASSUME shares' = shares, store' = store, unguarded' = unguarded
      PROVE  DirectoryStep
  <2>1. Accepted' = Accepted
    BY <1>4, AcceptedKept
  <2>2. CASE clock' = clock
    BY <1>4, <2>1, <2>2 DEF DirectoryStep
  <2>3. CASE Tick
    <3>1. clock' > clock
      BY <1>1, <2>3 DEF Tick
    <3>2. Directory!Pass
      BY <1>4, <2>1, <3>1 DEF Directory!Pass
    <3> QED
      BY <3>2 DEF DirectoryStep, Directory!DNext
  <2> QED
    BY <1>1, <2>2, <2>3, Writers
<1> QED
  BY <1>1, <1>2, <1>3, <1>4, Writers

LEMMA InitDirectory == Init => Directory!DInit
<1> SUFFICES ASSUME Init PROVE Directory!DInit
  OBVIOUS
<1>1. \A s \in Scopes : Pw(store, s) = 0
  BY DEF Init, EmptyStore, NoProtection, Pw
<1>2. Accepted = [s \in Scopes |-> 0]
  BY <1>1 DEF Accepted, Pw
<1> QED
  BY <1>2 DEF Init, EmptyStore, Directory!DInit

\* The files implement the directory: as long as no document is overwritten
\* from an old read, every step of the handlers, the commands and the crashes
\* is one whole operation of ShareDirectory or nothing at all.
THEOREM DirectoryImplemented == Spec => ImplementsDirectory
<1>1. IInv /\ [Next]_vars =>
        [stale' \/ Directory!DNext]_<<shares, Accepted, unguarded, store.tokens, clock>>
  BY DirectoryNext DEF DirectoryStep
<1> QED
  BY <1>1, InitDirectory, InvariantCorrect, PTL DEF Spec, ImplementsDirectory
=============================================================================
