-------------------------------- MODULE Auth --------------------------------
(***************************************************************************)
(* Logging in at the ForwardAuth service.                                  *)
(*                                                                         *)
(* The service answers several logins on one event loop.  A login reads    *)
(* the protection of its host, asks the limiter, and awaits the body and   *)
(* the password's verification before it goes on with the record it read:  *)
(* credentials are set and removed by other processes meanwhile, and other *)
(* logins succeed and fail.  Sessions are signed cookies; the service      *)
(* keeps none of them and may restart at any time.                         *)
(***************************************************************************)
EXTENDS Integers, FiniteSets

CONSTANTS
  Requests,       \* logins that may be open at the same time
  Scopes,         \* protections; each has a host of its own
  Addresses,      \* client addresses
  Limit,          \* failures that lock a scope for an address
  Window,         \* how long a failure counts
  Lock,           \* how long a lock lasts
  Life,           \* how long a session lasts
  MaxClock,       \* bound: the clock stops here
  MaxCredential   \* bound: credentials set in one behaviour

ASSUME LimitsArePositive == Limit \in Nat \ {0} /\ Window \in Nat \ {0} /\ Life \in Nat \ {0}
ASSUME LockOutlastsWindow == Lock \in Nat /\ Window <= Lock
ASSUME RequestsAreFinite == IsFiniteSet(Requests)
ASSUME BoundsAreNaturals == MaxClock \in Nat /\ MaxCredential \in Nat

VARIABLES
  store,     \* store[s]: the record of protections.json
  removals,  \* removals[s]: how often the record of s was removed
  issued,    \* credentials set so far; each is a new one
  sessions,  \* every session cookie that was ever issued
  buckets,   \* buckets[k]: what the limiter remembers of scope and address k
  op,        \* op[r]: what login r is in the middle of
  clock,     \* the time
  failed     \* failed[k]: failures since a success, as long as they count

vars == <<store, removals, issued, sessions, buckets, op, clock, failed>>

(***************************************************************************)
(* Data                                                                    *)
(***************************************************************************)

Keys == Scopes \X Addresses

\* password = 0 stands for "no record".  life tells the records of a scope
\* apart that were created after a removal; the program does not keep it.
Record   == [password : Nat, epoch : Nat, life : Nat]
NoRecord == [password |-> 0, epoch |-> 0, life |-> 0]

Has(s) == store[s] # NoRecord

Session == [scope : Scopes, record : Record, expiresAt : Nat]

\* The times of failures, in a set: nth tells those of one moment apart.
Failed      == [at : Nat, nth : Nat]
Bucket      == [failures : SUBSET Failed, lockedUntil : Nat]
EmptyBucket == [failures |-> {}, lockedUntil |-> 0]

Login == [pc : {"idle", "verifying", "delayed"}, key : Keys, guess : Nat, record : Record]

\* A key nobody asks about while a login is idle.
Idle == [pc |-> "idle", key |-> CHOOSE k \in Keys : TRUE, guess |-> 0, record |-> NoRecord]

(***************************************************************************)
(* The panel and the commands change the store.                            *)
(***************************************************************************)

NextRecord(s) == [password |-> issued + 1, epoch |-> store[s].epoch + 1, life |-> removals[s]]

SetCredential(s) ==
  /\ issued < MaxCredential
  /\ issued' = issued + 1
  /\ store' = [store EXCEPT ![s] = NextRecord(s)]
  /\ UNCHANGED <<removals, sessions, buckets, op, clock, failed>>

RemoveCredential(s) ==
  /\ Has(s)
  /\ store' = [store EXCEPT ![s] = NoRecord]
  /\ removals' = [removals EXCEPT ![s] = @ + 1]
  /\ UNCHANGED <<issued, sessions, buckets, op, clock, failed>>

(***************************************************************************)
(* LoginLimiter                                                            *)
(***************************************************************************)

Locked(k) == buckets[k].lockedUntil > clock

Recent(failures, at) == {f \in failures : f.at > at - Window}

OneMore(failures) ==
  LET recent == Recent(failures, clock)
  IN recent \cup {[at |-> clock, nth |-> Cardinality(recent)]}

\* Mutant: the limit has to be passed instead of reached.
FailureOneMore(bucket) ==
  LET failures == OneMore(bucket.failures)
  IN [failures    |-> failures,
      lockedUntil |-> IF Cardinality(failures) > Limit THEN clock + Lock ELSE bucket.lockedUntil]

\* Mutant: a failure below the limit takes the lock away.
FailureUnlocks(bucket) ==
  LET failures == OneMore(bucket.failures)
  IN [failures    |-> failures,
      lockedUntil |-> IF Cardinality(failures) >= Limit THEN clock + Lock ELSE 0]

Failure(bucket) ==
  LET failures == OneMore(bucket.failures)
  IN [failures    |-> failures,
      lockedUntil |-> IF Cardinality(failures) >= Limit THEN clock + Lock ELSE bucket.lockedUntil]

(***************************************************************************)
(* POST /__portta/auth/login                                               *)
(***************************************************************************)

\* Mutant: the limiter is told of failures and never asked.
BeginUnchecked(r, s, a, guess) ==
  /\ op[r].pc = "idle"
  /\ Has(s)
  /\ op' = [op EXCEPT ![r] = [pc |-> "verifying", key |-> <<s, a>>, guess |-> guess,
                              record |-> store[s]]]
  /\ UNCHANGED <<store, removals, issued, sessions, buckets, clock, failed>>

\* A locked key is answered at once and changes nothing.
Begin(r, s, a, guess) ==
  /\ op[r].pc = "idle"
  /\ Has(s)
  /\ ~Locked(<<s, a>>)
  /\ op' = [op EXCEPT ![r] = [pc |-> "verifying", key |-> <<s, a>>, guess |-> guess,
                              record |-> store[s]]]
  /\ UNCHANGED <<store, removals, issued, sessions, buckets, clock, failed>>

\* Mutant: the session is bound to the epoch of the moment.
IssuedNow(r) ==
  LET s == op[r].key[1]
  IN [scope |-> s, record |-> [op[r].record EXCEPT !.epoch = store[s].epoch],
      expiresAt |-> clock + Life]

\* Mutant: the lifetime is taken away instead of added.
IssuedBackwards(r) ==
  [scope |-> op[r].key[1], record |-> op[r].record, expiresAt |-> clock - Life]

Issued(r) == [scope |-> op[r].key[1], record |-> op[r].record, expiresAt |-> clock + Life]

\* The password is compared with the record read at the beginning.
Accept(r) ==
  /\ op[r].pc = "verifying"
  /\ op[r].guess = op[r].record.password
  /\ buckets' = [buckets EXCEPT ![op[r].key] = EmptyBucket]
  /\ failed' = [failed EXCEPT ![op[r].key] = {}]
  /\ sessions' = sessions \cup {Issued(r)}
  /\ op' = [op EXCEPT ![r] = Idle]
  /\ UNCHANGED <<store, removals, issued, clock>>

Refuse(r) ==
  /\ op[r].pc = "verifying"
  /\ op[r].guess # op[r].record.password
  /\ buckets' = [buckets EXCEPT ![op[r].key] = Failure(@)]
  /\ failed' = [failed EXCEPT ![op[r].key] = OneMore(@)]
  /\ op' = [op EXCEPT ![r].pc = "delayed"]
  /\ UNCHANGED <<store, removals, issued, sessions, clock>>

\* Mutant: a login whose key is locked by now is not answered.
AnswerUnlocked(r) ==
  /\ op[r].pc = "delayed"
  /\ ~Locked(op[r].key)
  /\ op' = [op EXCEPT ![r] = Idle]
  /\ UNCHANGED <<store, removals, issued, sessions, buckets, clock, failed>>

\* The progressive delay is over: 401, or 429 when the key is locked by now.
Answer(r) ==
  /\ op[r].pc = "delayed"
  /\ op' = [op EXCEPT ![r] = Idle]
  /\ UNCHANGED <<store, removals, issued, sessions, buckets, clock, failed>>

(***************************************************************************)
(* The world outside                                                       *)
(***************************************************************************)

Tick ==
  /\ clock < MaxClock
  /\ clock' = clock + 1
  /\ failed' = [k \in Keys |-> Recent(failed[k], clock')]
  /\ UNCHANGED <<store, removals, issued, sessions, buckets, op>>

\* The limiter lives in memory; the sessions live in the browsers.
Restart ==
  /\ buckets' = [k \in Keys |-> EmptyBucket]
  /\ op' = [r \in Requests |-> Idle]
  /\ failed' = [k \in Keys |-> {}]
  /\ UNCHANGED <<store, removals, issued, sessions, clock>>

(***************************************************************************)
(* The specification                                                       *)
(***************************************************************************)

Init ==
  /\ store = [s \in Scopes |-> NoRecord]
  /\ removals = [s \in Scopes |-> 0]
  /\ issued = 0
  /\ sessions = {}
  /\ buckets = [k \in Keys |-> EmptyBucket]
  /\ op = [r \in Requests |-> Idle]
  /\ clock = 0
  /\ failed = [k \in Keys |-> {}]

\* Passwords people try: those that were ever set, and one that was not.
Next ==
  \/ \E s \in Scopes : SetCredential(s) \/ RemoveCredential(s)
  \/ \E r \in Requests, s \in Scopes, a \in Addresses, guess \in 0..issued : Begin(r, s, a, guess)
  \/ \E r \in Requests : Accept(r) \/ Refuse(r) \/ Answer(r)
  \/ Tick \/ Restart

\* Hashing ends, timers fire.
Fairness == \A r \in Requests : WF_vars(Accept(r) \/ Refuse(r) \/ Answer(r))

Spec == Init /\ [][Next]_vars /\ Fairness

(***************************************************************************)
(* Correctness                                                             *)
(***************************************************************************)

\* Every variable keeps its type; a session ends after it was issued.
TypeOK ==
  /\ store \in [Scopes -> Record]
  /\ removals \in [Scopes -> Nat]
  /\ issued \in Nat
  /\ sessions \subseteq Session
  /\ buckets \in [Keys -> Bucket]
  /\ DOMAIN op = Requests
  /\ \A r \in Requests : op[r].pc # "idle" => op[r] \in Login
  /\ clock \in Nat
  /\ failed \in [Keys -> SUBSET Failed]

\* What /verify checks of a session.
Accepted(x) ==
  /\ Has(x.scope)
  /\ x.record.epoch = store[x.scope].epoch
  /\ clock < x.expiresAt

\* "Changing its credential invalidates the previous sessions": a session that
\* is accepted was issued for the password that is in force, also when that
\* was changed while the old one was being verified.
SessionsFollowTheCredential ==
  \A x \in sessions :
    Accepted(x) /\ x.record.life = store[x.scope].life =>
      x.record.password = store[x.scope].password

\* "Changing or removing its credential invalidates the previous sessions".
\* The code does not keep it: a record that is removed takes its epoch along,
\* and the next record of the scope starts at epoch 1 again.
ChangeOrRemovalEndsSessions ==
  \A x \in sessions : Accepted(x) => x.record.password = store[x.scope].password

\* "Five failures in ten minutes lock that pair for fifteen minutes": as long
\* as enough failures count, the limiter admits nobody.
FailuresLock == \A k \in Keys : Cardinality(failed[k]) >= Limit => Locked(k)

\* Logins that asked the limiter before it locked may still fail, one for
\* each that was open: however they interleave, no more passwords than that
\* are tried within a window.
Verifying(k) == {r \in Requests : op[r].pc = "verifying" /\ op[r].key = k}

OvershootIsBounded ==
  \A k \in Keys : Cardinality(failed[k]) + Cardinality(Verifying(k)) < Limit + Cardinality(Requests)

\* A lock only ends with its time, with the service, or with the right
\* password of a login that was open before it.
LockLasts ==
  [][\A k \in Keys : Locked(k) /\ ~Locked(k)' =>
       \/ clock' # clock
       \/ \A r \in Requests : op'[r] = Idle
       \/ \E r \in Verifying(k) : op[r].guess = op[r].record.password /\ op'[r] = Idle
    ]_buckets

\* Every login is answered.
EveryLoginIsAnswered == \A r \in Requests : op[r].pc # "idle" ~> op[r].pc = "idle"
=============================================================================
