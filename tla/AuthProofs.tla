----------------------------- MODULE AuthProofs -----------------------------
(***************************************************************************)
(* A session that is accepted was issued for the password in force, for    *)
(* any number of logins, scopes, addresses and credentials.                *)
(*                                                                         *)
(* The argument: within the life of a record the epoch only grows, and     *)
(* grows whenever the password changes.  Every copy of a record, in a      *)
(* session or kept by a login across its awaits, is one the store had      *)
(* before, so a copy with the store's epoch has the store's password.      *)
(*                                                                         *)
(* And the limiter keeps what it promises: the failures that lie within    *)
(* the window are always among the ones a bucket keeps, and a bucket that  *)
(* keeps as many as the limit was locked when the last of them came.       *)
(***************************************************************************)
EXTENDS Auth, FiniteSetTheorems, TLAPS

(***************************************************************************)
(* The inductive invariant                                                 *)
(***************************************************************************)

\* The types, but for the limiter's.
Typed ==
  /\ store \in [Scopes -> Record]
  /\ removals \in [Scopes -> Nat]
  /\ issued \in Nat
  /\ op \in [Requests -> [pc : {"idle", "verifying", "delayed"}, key : Keys \cup {Idle.key},
                          guess : Nat, record : Record]]
  /\ \A r \in Requests : op[r].pc # "idle" => op[r].key \in Keys
  /\ sessions \subseteq Session
  /\ clock \in Nat

\* rec is a copy of a record that scope s has, or had.
CopyOf(rec, s) ==
  /\ rec.life <= removals[s]
  /\ rec.life = removals[s] =>
       /\ Has(s)
       /\ rec.epoch <= store[s].epoch
       /\ rec.epoch = store[s].epoch => rec.password = store[s].password

\* A record that exists was created since the last removal.
LivesInv == \A s \in Scopes : Has(s) => store[s].life = removals[s]

CopiesInv ==
  /\ \A x \in sessions : CopyOf(x.record, x.scope)
  /\ \A r \in Requests : op[r].pc = "verifying" =>
        CopyOf(op[r].record, op[r].key[1])

IInv == Typed /\ LivesInv /\ CopiesInv

(***************************************************************************)
(* Types                                                                   *)
(***************************************************************************)

LEMMA IdleType ==
  /\ Idle \in [pc : {"idle", "verifying", "delayed"}, key : Keys \cup {Idle.key},
               guess : Nat, record : Record]
  /\ Idle.pc = "idle" /\ NoRecord \in Record
  BY DEF Idle, NoRecord, Record

LEMMA ScopeOfKey == \A k \in Keys : k[1] \in Scopes
  BY DEF Keys

LEMMA InitType == Init => Typed
  BY IdleType DEF Init, Typed

LEMMA NextType == Typed /\ [Next]_vars => Typed'
<1> SUFFICES ASSUME Typed, [Next]_vars PROVE Typed'
  OBVIOUS
<1> USE DEF Typed
<1>1. ASSUME NEW s \in Scopes, SetCredential(s)
      PROVE  Typed'
  <2>1. NextRecord(s) \in Record
    BY DEF NextRecord, Record
  <2> QED
    BY <1>1, <2>1 DEF SetCredential
<1>2. ASSUME NEW s \in Scopes, RemoveCredential(s)
      PROVE  Typed'
  BY <1>2, IdleType DEF RemoveCredential
<1>3. ASSUME NEW r \in Requests, NEW s \in Scopes, NEW a \in Addresses, NEW guess \in 0..issued,
             Begin(r, s, a, guess)
      PROVE  Typed'
  <2> DEFINE login == [pc |-> "verifying", key |-> <<s, a>>, guess |-> guess, record |-> store[s]]
  <2>1. login \in [pc : {"idle", "verifying", "delayed"}, key : Keys \cup {Idle.key},
                   guess : Nat, record : Record]
    BY DEF Keys
  <2>2. login.key \in Keys
    BY DEF Keys
  <2>3. op' = [op EXCEPT ![r] = login]
    BY <1>3 DEF Begin
  <2> HIDE DEF login
  <2> QED
    BY <1>3, <2>1, <2>2, <2>3 DEF Begin
<1>4. ASSUME NEW r \in Requests, Accept(r)
      PROVE  Typed'
  <2>1. op' \in [Requests -> [pc : {"idle", "verifying", "delayed"}, key : Keys \cup {Idle.key},
                             guess : Nat, record : Record]]
    BY <1>4, IdleType DEF Accept
  <2>2. op[r].record \in Record
    OBVIOUS
  <2>3. op[r].key[1] \in Scopes
    BY <1>4, ScopeOfKey DEF Accept
  <2>4. \A q \in Requests : op'[q].pc # "idle" => op'[q].key \in Keys
    BY <1>4, IdleType DEF Accept
  <2>5. Issued(r) \in Session
    BY <2>2, <2>3, LimitsArePositive DEF Issued, Session
  <2> QED
    BY <1>4, <2>1, <2>4, <2>5 DEF Accept
<1>5. ASSUME NEW r \in Requests, Refuse(r)
      PROVE  Typed'
  <2> DEFINE login == [op[r] EXCEPT !.pc = "delayed"]
  <2>1. login \in [pc : {"idle", "verifying", "delayed"}, key : Keys \cup {Idle.key},
                   guess : Nat, record : Record]
    OBVIOUS
  <2>2. login.key \in Keys
    BY <1>5 DEF Refuse
  <2>3. op' = [op EXCEPT ![r] = login]
    BY <1>5 DEF Refuse
  <2> HIDE DEF login
  <2> QED
    BY <1>5, <2>1, <2>2, <2>3 DEF Refuse
<1>6. ASSUME NEW r \in Requests, Answer(r)
      PROVE  Typed'
  BY <1>6, IdleType DEF Answer
<1>7. CASE Tick \/ UNCHANGED vars
  BY <1>7 DEF Tick, vars
<1>8. CASE Restart
  BY <1>8, IdleType DEF Restart
<1> QED
  BY <1>1, <1>2, <1>3, <1>4, <1>5, <1>6, <1>7, <1>8 DEF Next

(***************************************************************************)
(* Copies of records                                                       *)
(***************************************************************************)

\* A copy of a record stays one, whatever any step does to the store.
LEMMA CopyStep ==
  ASSUME Typed, LivesInv, [Next]_vars,
         NEW rec \in Record, NEW s \in Scopes, CopyOf(rec, s)
  PROVE  CopyOf(rec, s)'
<1> USE DEF Typed
<1>1. ASSUME NEW t \in Scopes, SetCredential(t)
      PROVE  CopyOf(rec, s)'
  <2>1. CASE s # t
    BY <1>1, <2>1 DEF SetCredential, CopyOf, Has
  <2>2. CASE s = t
    <3>1. store'[s] = NextRecord(s) /\ removals' = removals
      BY <1>1, <2>2 DEF SetCredential
    <3>2. NextRecord(s).epoch = store[s].epoch + 1 /\ NextRecord(s) # NoRecord
      BY DEF NextRecord, NoRecord, Record
    <3>3. rec.epoch \in Nat /\ store[s].epoch \in Nat
      BY DEF Record
    <3> QED
      BY <3>1, <3>2, <3>3 DEF CopyOf, Has
  <2> QED
    BY <2>1, <2>2
<1>2. ASSUME NEW t \in Scopes, RemoveCredential(t)
      PROVE  CopyOf(rec, s)'
  <2>1. CASE s # t
    BY <1>2, <2>1 DEF RemoveCredential, CopyOf, Has
  <2>2. CASE s = t
    <3>1. removals'[s] = removals[s] + 1
      BY <1>2, <2>2 DEF RemoveCredential
    <3>2. rec.life \in Nat /\ removals[s] \in Nat /\ rec.life <= removals[s]
      BY DEF Record, CopyOf
    <3> QED
      BY <3>1, <3>2 DEF CopyOf
  <2> QED
    BY <2>1, <2>2
<1>3. ASSUME UNCHANGED <<store, removals>>
      PROVE  CopyOf(rec, s)'
  BY <1>3 DEF CopyOf, Has
<1>4. ASSUME NEW r \in Requests,
             (\E t \in Scopes, a \in Addresses, guess \in 0..issued : Begin(r, t, a, guess))
               \/ Accept(r) \/ Refuse(r) \/ Answer(r)
      PROVE  UNCHANGED <<store, removals>>
  BY <1>4 DEF Begin, Accept, Refuse, Answer
<1>5. CASE Tick \/ Restart \/ UNCHANGED vars
  BY <1>3, <1>5 DEF Tick, Restart, vars
<1> QED
  BY <1>1, <1>2, <1>3, <1>4, <1>5 DEF Next

\* A record that exists is a copy of itself.
LEMMA CopyOfStored ==
  ASSUME Typed, LivesInv, NEW s \in Scopes, Has(s)
  PROVE  CopyOf(store[s], s)
  BY DEF Typed, LivesInv, CopyOf, Record

LEMMA NextLives == Typed /\ LivesInv /\ [Next]_vars => LivesInv'
<1> SUFFICES ASSUME Typed, LivesInv, [Next]_vars, NEW s \in Scopes
             PROVE  (Has(s) => store[s].life = removals[s])'
  BY DEF LivesInv
<1> USE DEF Typed, LivesInv, Has
<1>1. ASSUME NEW t \in Scopes, SetCredential(t)
      PROVE  store'[s] # NoRecord => store'[s].life = removals'[s]
  BY <1>1 DEF SetCredential, NextRecord
<1>2. ASSUME NEW t \in Scopes, RemoveCredential(t)
      PROVE  store'[s] # NoRecord => store'[s].life = removals'[s]
  BY <1>2 DEF RemoveCredential
<1>3. ASSUME NEW r \in Requests,
             (\E t \in Scopes, a \in Addresses, guess \in 0..issued : Begin(r, t, a, guess))
               \/ Accept(r) \/ Refuse(r) \/ Answer(r)
      PROVE  UNCHANGED <<store, removals>>
  BY <1>3 DEF Begin, Accept, Refuse, Answer
<1>4. CASE Tick \/ Restart \/ UNCHANGED vars
  BY <1>4 DEF Tick, Restart, vars
<1> QED
  BY <1>1, <1>2, <1>3, <1>4 DEF Next

\* A session copies what its login kept, and a login copies what the store has.
LEMMA NextCopies == IInv /\ [Next]_vars => CopiesInv'
<1> SUFFICES ASSUME IInv, [Next]_vars PROVE CopiesInv'
  OBVIOUS
<1>1. Typed /\ LivesInv /\ CopiesInv
  BY DEF IInv
<1>2. ASSUME NEW x \in sessions PROVE CopyOf(x.record, x.scope)'
  BY <1>1, <1>2, CopyStep DEF Typed, CopiesInv, Session
<1>3. ASSUME NEW r \in Requests, op[r].pc = "verifying",
             NEW rec \in Record, rec = op[r].record,
             NEW s \in Scopes, s = op[r].key[1]
      PROVE  CopyOf(rec, s) /\ CopyOf(rec, s)'
  BY <1>1, <1>3, CopyStep DEF CopiesInv
<1>4. ASSUME NEW x \in sessions' PROVE CopyOf(x.record, x.scope)'
  <2>1. CASE x \in sessions
    BY <1>2, <2>1
  <2>2. CASE x \notin sessions
    <3>1. PICK r \in Requests : Accept(r) /\ x = Issued(r)
      BY <1>4, <2>2 DEF Next, SetCredential, RemoveCredential, Begin, Accept, Refuse, Answer,
                        Tick, Restart, vars
    <3>2. op[r].record \in Record /\ op[r].key[1] \in Scopes /\ op[r].pc = "verifying"
      BY <1>1, <3>1, ScopeOfKey DEF Typed, Accept
    <3>3. x.record = op[r].record /\ x.scope = op[r].key[1]
      BY <3>1 DEF Issued
    <3> QED
      BY <1>3, <3>2, <3>3
  <2> QED
    BY <2>1, <2>2
<1>5. ASSUME NEW q \in Requests, op'[q].pc = "verifying", op'[q] # op[q]
      PROVE  \E s \in Scopes, a \in Addresses :
               /\ Has(s)
               /\ op'[q].key = <<s, a>>
               /\ op'[q].record = store[s]
               /\ UNCHANGED <<store, removals>>
  <2>1. PICK r \in Requests, s \in Scopes, a \in Addresses, guess \in 0..issued :
          Begin(r, s, a, guess) /\ q = r
    <3>1. ASSUME NEW r \in Requests, Accept(r) \/ Refuse(r) \/ Answer(r) PROVE FALSE
      BY <1>1, <1>5, <3>1, IdleType DEF Typed, Accept, Refuse, Answer
    <3>2. ~Restart /\ ~Tick /\ ~UNCHANGED vars
      BY <1>5, IdleType DEF Restart, Tick, vars
    <3>3. ASSUME NEW s \in Scopes PROVE ~SetCredential(s) /\ ~RemoveCredential(s)
      BY <1>5 DEF SetCredential, RemoveCredential
    <3>4. ASSUME NEW r \in Requests, NEW s \in Scopes, NEW a \in Addresses, NEW guess \in 0..issued,
                 Begin(r, s, a, guess)
          PROVE  q = r
      BY <1>1, <1>5, <3>4 DEF Typed, Begin
    <3> QED
      BY <3>1, <3>2, <3>3, <3>4 DEF Next
  <2>2. op'[q] = [pc |-> "verifying", key |-> <<s, a>>, guess |-> guess, record |-> store[s]]
    BY <1>1, <2>1 DEF Typed, Begin
  <2> QED
    BY <2>1, <2>2 DEF Begin
<1>6. ASSUME NEW q \in Requests, op'[q].pc = "verifying"
      PROVE  CopyOf(op[q].record, op[q].key[1])'
  <2>1. CASE op'[q] = op[q]
    <3>1. op[q].record \in Record /\ op[q].key[1] \in Scopes /\ op[q].pc = "verifying"
      BY <1>1, <1>6, <2>1, ScopeOfKey DEF Typed
    <3>2. PICK rec \in Record, s \in Scopes : rec = op[q].record /\ s = op[q].key[1]
      BY <3>1
    <3>3. CopyOf(rec, s)'
      BY <1>3, <3>1, <3>2
    <3> QED
      BY <2>1, <3>2, <3>3 DEF CopyOf, Has
  <2>2. CASE op'[q] # op[q]
    <3>1. PICK s \in Scopes, a \in Addresses :
            /\ Has(s)
            /\ op'[q].key = <<s, a>>
            /\ op'[q].record = store[s]
            /\ UNCHANGED <<store, removals>>
      BY <1>5, <1>6, <2>2
    <3>2. CopyOf(store[s], s)
      BY <1>1, <3>1, CopyOfStored
    <3> QED
      BY <3>1, <3>2 DEF CopyOf, Has
  <2> QED
    BY <2>1, <2>2
<1> QED
  BY <1>4, <1>6 DEF CopiesInv

(***************************************************************************)
(* The theorems                                                            *)
(***************************************************************************)

LEMMA NextInv == IInv /\ [Next]_vars => IInv'
  BY NextType, NextLives, NextCopies DEF IInv

\* Every copy of a record, in a session or in a login across its awaits, has
\* the password of the store as soon as it has its epoch and its life.
THEOREM InvariantCorrect == Spec => []IInv
<1>1. Init => IInv
  BY InitType, IdleType DEF Init, IInv, LivesInv, CopiesInv, Has
<1> QED
  BY <1>1, NextInv, PTL DEF Spec

\* A session /verify accepts was issued for the password in force, however
\* many credentials are set while passwords are being verified.
THEOREM SessionsCurrent == Spec => []SessionsFollowTheCredential
<1>1. IInv => SessionsFollowTheCredential
  <2> SUFFICES ASSUME IInv, NEW x \in sessions,
                      Accepted(x), x.record.life = store[x.scope].life
               PROVE  x.record.password = store[x.scope].password
    BY DEF SessionsFollowTheCredential
  <2>1. Has(x.scope) /\ x.record.epoch = store[x.scope].epoch
    BY DEF Accepted
  <2>2. x.record.life = removals[x.scope]
    BY <2>1 DEF IInv, Typed, LivesInv, Session
  <2> QED
    BY <2>1, <2>2 DEF IInv, CopiesInv, CopyOf
<1> QED
  BY <1>1, InvariantCorrect, PTL

(***************************************************************************)
(* The limiter.  A bucket keeps every failure that counted at the last     *)
(* one; those of them that count still are the ones there really were.     *)
(***************************************************************************)

\* The failures a bucket keeps lie behind, and nth tells those of now apart.
Kept(failures, now) ==
  /\ IsFiniteSet(failures)
  /\ \A f \in failures : f.at <= now
  /\ \A f \in failures : f.at = now => f.nth < Cardinality(Recent(failures, now))

\* A bucket with as many failures as the limit is locked for each of them.
LockedByFailures(b) ==
  Cardinality(b.failures) >= Limit => \A f \in b.failures : b.lockedUntil >= f.at + Lock

BucketsInv ==
  \A k \in Keys :
    /\ Kept(buckets[k].failures, clock)
    /\ LockedByFailures(buckets[k])
    /\ failed[k] = Recent(buckets[k].failures, clock)

LimiterTyped ==
  /\ buckets \in [Keys -> Bucket]
  /\ failed \in [Keys -> SUBSET Failed]

LEMMA EmptyBucketOK ==
  /\ EmptyBucket \in Bucket
  /\ LockedByFailures(EmptyBucket)
  /\ \A now : Kept(EmptyBucket.failures, now) /\ Recent(EmptyBucket.failures, now) = {}
  BY FS_EmptySet DEF EmptyBucket, Bucket, Kept, Recent, LockedByFailures

\* What counts at a moment counts the same when it is asked for again.
LEMMA RecentTwice ==
  ASSUME NEW failures, NEW now \in Nat
  PROVE  Recent(Recent(failures, now), now) = Recent(failures, now)
  BY DEF Recent

LEMMA RecentFinite ==
  ASSUME NEW failures, IsFiniteSet(failures), NEW now
  PROVE  /\ IsFiniteSet(Recent(failures, now))
         /\ Cardinality(Recent(failures, now)) \in Nat
         /\ Cardinality(Recent(failures, now)) <= Cardinality(failures)
         /\ Cardinality(failures) \in Nat
<1>1. Recent(failures, now) \subseteq failures
  BY DEF Recent
<1> QED
  BY <1>1, FS_Subset, FS_CardinalityType

LEMMA KeptRecent ==
  ASSUME NEW failures, NEW now \in Nat, Kept(failures, now)
  PROVE  Kept(Recent(failures, now), now)
<1>1. Recent(Recent(failures, now), now) = Recent(failures, now)
  BY RecentTwice
<1>2. IsFiniteSet(Recent(failures, now))
  BY RecentFinite DEF Kept
<1>3. Recent(failures, now) \subseteq failures
  BY DEF Recent
<1> QED
  BY <1>1, <1>2, <1>3 DEF Kept

\* One more failure is one more.
LEMMA OneMoreCounts ==
  ASSUME NEW failures \in SUBSET Failed, clock \in Nat, Kept(failures, clock)
  PROVE  /\ OneMore(failures) \in SUBSET Failed
         /\ Kept(OneMore(failures), clock)
         /\ Recent(OneMore(failures), clock) = OneMore(failures)
         /\ Cardinality(OneMore(failures)) = Cardinality(Recent(failures, clock)) + 1
<1> DEFINE recent == Recent(failures, clock)
           new == [at |-> clock, nth |-> Cardinality(recent)]
<1>1. IsFiniteSet(failures)
  BY DEF Kept
<1>2. /\ IsFiniteSet(recent)
      /\ Cardinality(recent) \in Nat
  BY <1>1, RecentFinite
<1>3. OneMore(failures) = recent \cup {new}
  BY DEF OneMore
<1>4. recent \subseteq Failed /\ new \in Failed
  BY <1>2 DEF Failed, Recent
<1>5. new \notin recent
  <2>1. ASSUME new \in recent PROVE FALSE
    <3>1. new \in failures /\ new.at = clock /\ new.nth = Cardinality(recent)
      BY <2>1 DEF Recent
    <3>2. new.nth < Cardinality(recent)
      BY <3>1 DEF Kept
    <3> HIDE DEF new
    <3> QED
      BY <1>2, <3>1, <3>2
  <2> QED
    BY <2>1
<1>6. IsFiniteSet(recent \cup {new}) /\ Cardinality(recent \cup {new}) = Cardinality(recent) + 1
  <2> HIDE DEF recent, new
  <2> QED
    BY <1>2, <1>5, FS_AddElement
<1>7. Recent(recent \cup {new}, clock) = recent \cup {new}
  BY LimitsArePositive DEF Recent
<1>8. ASSUME NEW f \in recent \cup {new}
      PROVE  f.at <= clock /\ (f.at = clock => f.nth < Cardinality(recent) + 1)
  <2>1. CASE f = new
    BY <1>2, <2>1
  <2>2. CASE f \in recent
    <3>1. f \in failures /\ f.at \in Nat /\ f.nth \in Nat
      BY <2>2, <1>4 DEF Recent, Failed
    <3>2. f.at <= clock /\ (f.at = clock => f.nth < Cardinality(recent))
      BY <3>1 DEF Kept
    <3> HIDE DEF recent
    <3> QED
      BY <1>2, <3>1, <3>2
  <2> QED
    BY <1>8, <2>1, <2>2
<1>9. Kept(recent \cup {new}, clock)
  <2> HIDE DEF recent, new
  <2> QED
    BY <1>6, <1>7, <1>8 DEF Kept
<1> QED
  BY <1>3, <1>4, <1>6, <1>7, <1>9

\* A failure locks from now on, or leaves the lock there is.
LEMMA FailureLocks ==
  ASSUME NEW b \in Bucket, clock \in Nat, Kept(b.failures, clock)
  PROVE  /\ Failure(b) \in Bucket
         /\ Failure(b).failures = OneMore(b.failures)
         /\ LockedByFailures(Failure(b))
         /\ Failure(b).lockedUntil > clock \/ Failure(b).lockedUntil = b.lockedUntil
<1> DEFINE failures == OneMore(b.failures)
           until == IF Cardinality(failures) >= Limit THEN clock + Lock ELSE b.lockedUntil
<1>1. Failure(b) = [failures |-> failures, lockedUntil |-> until]
  BY DEF Failure
<1>2. b.failures \in SUBSET Failed /\ b.lockedUntil \in Nat
  BY DEF Bucket
<1>3. failures \in SUBSET Failed /\ Kept(failures, clock)
  BY <1>2, OneMoreCounts
<1>4. Lock \in Nat /\ Lock > 0
  BY LimitsArePositive, LockOutlastsWindow
<1>5. until \in Nat /\ (until > clock \/ until = b.lockedUntil)
  BY <1>2, <1>4
<1>6. Cardinality(failures) >= Limit => \A f \in failures : until >= f.at + Lock
  <2> SUFFICES ASSUME Cardinality(failures) >= Limit, NEW f \in failures PROVE until >= f.at + Lock
    OBVIOUS
  <2>1. until = clock + Lock
    OBVIOUS
  <2>2. f.at \in Nat /\ f.at <= clock
    BY <1>3 DEF Failed, Kept
  <2> QED
    BY <1>4, <2>1, <2>2
<1> HIDE DEF failures, until
<1>7. Failure(b) \in Bucket
  BY <1>1, <1>3, <1>5 DEF Bucket
<1>8. Failure(b).failures = failures /\ Failure(b).lockedUntil = until
  BY <1>1
<1>9. LockedByFailures(Failure(b))
  BY <1>6, <1>8 DEF LockedByFailures
<1> QED
  BY <1>5, <1>7, <1>8, <1>9 DEF failures

LEMMA NextLimiterTyped ==
  Typed /\ LimiterTyped /\ BucketsInv /\ [Next]_vars => LimiterTyped'
<1> SUFFICES ASSUME Typed, LimiterTyped, BucketsInv, [Next]_vars PROVE LimiterTyped'
  OBVIOUS
<1>1. ASSUME NEW r \in Requests, Refuse(r) PROVE LimiterTyped'
  <2>1. PICK k \in Keys : k = op[r].key
    BY <1>1 DEF Typed, Refuse
  <2>2. /\ buckets' = [buckets EXCEPT ![k] = Failure(buckets[k])]
        /\ failed' = [failed EXCEPT ![k] = OneMore(failed[k])]
    BY <1>1, <2>1 DEF Refuse
  <2>3. clock \in Nat /\ Kept(buckets[k].failures, clock) /\ buckets[k] \in Bucket
    BY DEF Typed, BucketsInv, LimiterTyped
  <2>4. Failure(buckets[k]) \in Bucket
    BY <2>3, FailureLocks
  <2>5. failed[k] \in SUBSET Failed /\ Kept(failed[k], clock)
    BY KeptRecent, <2>3 DEF BucketsInv, LimiterTyped, Bucket
  <2>6. OneMore(failed[k]) \in SUBSET Failed
    BY <2>3, <2>5, OneMoreCounts
  <2> QED
    BY <2>2, <2>4, <2>6 DEF LimiterTyped
<1>2. ASSUME NEW r \in Requests, Accept(r) PROVE LimiterTyped'
  BY <1>2, EmptyBucketOK DEF Accept, LimiterTyped
<1>3. CASE Restart
  BY <1>3, EmptyBucketOK DEF Restart, LimiterTyped
<1>4. CASE Tick
  <2>1. \A k \in Keys : Recent(failed[k], clock') \in SUBSET Failed
    BY DEF Recent, LimiterTyped
  <2> QED
    BY <1>4, <2>1 DEF Tick, LimiterTyped
<1>5. ASSUME UNCHANGED <<buckets, failed>> PROVE LimiterTyped'
  BY <1>5 DEF LimiterTyped
<1> QED
  BY <1>1, <1>2, <1>3, <1>4, <1>5
     DEF Next, SetCredential, RemoveCredential, Begin, Answer, vars

\* What a key of the limiter owes, as a function of its bucket, of what really
\* failed, and of the time.
KeyInv(b, real, now) ==
  /\ Kept(b.failures, now)
  /\ LockedByFailures(b)
  /\ real = Recent(b.failures, now)

LEMMA KeyStep ==
  ASSUME Typed, LimiterTyped, BucketsInv, [Next]_vars, NEW k \in Keys
  PROVE  KeyInv(buckets[k], failed[k], clock)'
<1>0. /\ clock \in Nat /\ buckets[k] \in Bucket /\ buckets[k].failures \in SUBSET Failed
      /\ KeyInv(buckets[k], failed[k], clock)
  BY DEF Typed, LimiterTyped, BucketsInv, KeyInv, Bucket
<1>1. ASSUME NEW r \in Requests, Refuse(r) PROVE KeyInv(buckets[k], failed[k], clock)'
  <2>1. PICK q \in Keys : q = op[r].key
    BY <1>1 DEF Typed, Refuse
  <2>2. /\ buckets' = [buckets EXCEPT ![q] = Failure(buckets[q])]
        /\ failed' = [failed EXCEPT ![q] = OneMore(failed[q])]
        /\ clock' = clock
    BY <1>1, <2>1 DEF Refuse
  <2>3. CASE q # k
    <3>1. buckets'[k] = buckets[k] /\ failed'[k] = failed[k]
      BY <2>2, <2>3 DEF LimiterTyped
    <3> QED
      BY <1>0, <2>2, <3>1 DEF KeyInv
  <2>4. CASE q = k
    <3>1. buckets'[k] = Failure(buckets[k]) /\ failed'[k] = OneMore(failed[k])
      BY <2>2, <2>4 DEF LimiterTyped
    <3>2. /\ Failure(buckets[k]).failures = OneMore(buckets[k].failures)
          /\ LockedByFailures(Failure(buckets[k]))
      BY <1>0, FailureLocks DEF KeyInv
    <3>3. /\ Kept(OneMore(buckets[k].failures), clock)
          /\ Recent(OneMore(buckets[k].failures), clock) = OneMore(buckets[k].failures)
      BY <1>0, OneMoreCounts DEF KeyInv
    <3>4. OneMore(failed[k]) = OneMore(buckets[k].failures)
      BY <1>0, RecentTwice DEF KeyInv, OneMore
    <3> QED
      BY <2>2, <3>1, <3>2, <3>3, <3>4 DEF KeyInv
  <2> QED
    BY <2>3, <2>4
<1>2. ASSUME NEW r \in Requests, Accept(r) PROVE KeyInv(buckets[k], failed[k], clock)'
  <2>1. \/ buckets'[k] = buckets[k] /\ failed'[k] = failed[k]
        \/ buckets'[k] = EmptyBucket /\ failed'[k] = {}
    BY <1>2 DEF Accept, LimiterTyped
  <2>2. clock' = clock
    BY <1>2 DEF Accept
  <2> QED
    BY <1>0, <2>1, <2>2, EmptyBucketOK DEF KeyInv
<1>3. CASE Restart
  <2>1. buckets'[k] = EmptyBucket /\ failed'[k] = {}
    BY <1>3 DEF Restart
  <2> QED
    BY <2>1, EmptyBucketOK DEF KeyInv
<1>4. CASE Tick
  <2>1. buckets'[k] = buckets[k] /\ clock' = clock + 1 /\ failed'[k] = Recent(failed[k], clock')
    BY <1>4 DEF Tick
  <2>2. Kept(buckets[k].failures, clock + 1)
    BY <1>0 DEF Kept, KeyInv, Failed
  <2>3. Recent(Recent(buckets[k].failures, clock), clock + 1) = Recent(buckets[k].failures, clock + 1)
    BY <1>0, LimitsArePositive DEF Recent, Failed
  <2> QED
    BY <1>0, <2>1, <2>2, <2>3 DEF KeyInv
<1>5. ASSUME UNCHANGED <<buckets, failed, clock>> PROVE KeyInv(buckets[k], failed[k], clock)'
  BY <1>0, <1>5 DEF KeyInv
<1> QED
  BY <1>1, <1>2, <1>3, <1>4, <1>5
     DEF Next, SetCredential, RemoveCredential, Begin, Answer, vars

LEMMA NextBuckets == Typed /\ LimiterTyped /\ BucketsInv /\ [Next]_vars => BucketsInv'
  BY KeyStep DEF BucketsInv, KeyInv

\* What the limiter keeps is right: the failures that lie within the window are
\* the ones a bucket keeps of it (failure() forgets only older ones), and a bucket
\* that keeps as many as the limit was locked when the last of them came.
THEOREM LimiterCorrect == Spec => [](LimiterTyped /\ BucketsInv)
<1>1. Init => LimiterTyped /\ BucketsInv
  BY EmptyBucketOK DEF Init, LimiterTyped, BucketsInv
<1>2. IInv => Typed
  BY DEF IInv
<1> QED
  BY <1>1, <1>2, InvariantCorrect, NextLimiterTyped, NextBuckets, PTL DEF Spec

\* Every variable keeps its type, the limiter's sets of failures included.
THEOREM TypeCorrect == Spec => []TypeOK
<1>1. ASSUME Typed, LimiterTyped PROVE TypeOK
  <2>1. ASSUME NEW r \in Requests, op[r].pc # "idle" PROVE op[r] \in Login
    BY <1>1, <2>1 DEF Typed, Login
  <2> QED
    BY <1>1, <2>1 DEF Typed, LimiterTyped, TypeOK
<1>2. IInv => Typed
  BY DEF IInv
<1> QED
  BY <1>1, <1>2, InvariantCorrect, LimiterCorrect, PTL

\* As long as enough failures count, the key is locked.
LEMMA EnoughFailuresLock == Typed /\ LimiterTyped /\ BucketsInv => FailuresLock
<1> SUFFICES ASSUME Typed, LimiterTyped, BucketsInv,
                    NEW k \in Keys, Cardinality(failed[k]) >= Limit
             PROVE  Locked(k)
  BY DEF FailuresLock
<1> DEFINE kept == buckets[k].failures
           until == buckets[k].lockedUntil
<1>1. /\ failed[k] = Recent(kept, clock) /\ IsFiniteSet(kept) /\ clock \in Nat
      /\ kept \in SUBSET Failed /\ until \in Nat
  BY DEF Typed, LimiterTyped, BucketsInv, Bucket, Kept
<1>2. /\ Cardinality(failed[k]) \in Nat /\ Cardinality(failed[k]) <= Cardinality(kept)
      /\ Cardinality(kept) \in Nat
  BY <1>1, RecentFinite
<1>3. /\ Limit \in Nat /\ Limit > 0 /\ Window \in Nat /\ Lock \in Nat /\ Window <= Lock
  BY LimitsArePositive, LockOutlastsWindow
<1>4. PICK f \in failed[k] : TRUE
  BY <1>2, <1>3, FS_EmptySet
<1>5. f \in kept /\ f.at \in Nat /\ f.at > clock - Window
  BY <1>1, <1>4 DEF Recent, Failed
<1>6. Cardinality(kept) >= Limit
  BY <1>2, <1>3
<1>7. until >= f.at + Lock
  BY <1>5, <1>6 DEF BucketsInv, LockedByFailures
<1> HIDE DEF kept, until
<1>8. until > clock
  BY <1>1, <1>3, <1>5, <1>7
<1> QED
  BY <1>8 DEF Locked, until

\* "Five failures in ten minutes lock that pair for fifteen minutes": as long
\* as Limit failures lie within the window, the limiter admits nobody, although
\* it forgets the ones that left the window and counts while others are open.
THEOREM LockWhileFailuresCount == Spec => []FailuresLock
<1>1. IInv => Typed
  BY DEF IInv
<1> QED
  BY <1>1, EnoughFailuresLock, InvariantCorrect, LimiterCorrect, PTL

(***************************************************************************)
(* How many passwords are tried within a window                            *)
(***************************************************************************)

LEMMA VerifyingFinite ==
  ASSUME NEW k
  PROVE  /\ IsFiniteSet(Verifying(k)) /\ Cardinality(Verifying(k)) \in Nat
         /\ Cardinality(Verifying(k)) <= Cardinality(Requests)
         /\ Cardinality(Requests) \in Nat
<1>1. Verifying(k) \subseteq Requests
  BY DEF Verifying
<1> QED
  BY <1>1, RequestsAreFinite, FS_Subset, FS_CardinalityType

LEMMA FailedFinite ==
  ASSUME Typed, LimiterTyped, BucketsInv, NEW k \in Keys
  PROVE  IsFiniteSet(failed[k]) /\ Cardinality(failed[k]) \in Nat
  BY RecentFinite DEF BucketsInv, Kept

\* Fewer count, or verify, than before: what is bounded stays so.
LEMMA OvershootShrinks ==
  ASSUME Typed, LimiterTyped, BucketsInv, NEW k \in Keys,
         NEW F, F \subseteq failed[k], NEW V, V \subseteq Verifying(k),
         Cardinality(failed[k]) + Cardinality(Verifying(k)) < Limit + Cardinality(Requests)
  PROVE  Cardinality(F) + Cardinality(V) < Limit + Cardinality(Requests)
<1>1. /\ IsFiniteSet(failed[k]) /\ Cardinality(failed[k]) \in Nat
      /\ IsFiniteSet(Verifying(k)) /\ Cardinality(Verifying(k)) \in Nat
      /\ Cardinality(Requests) \in Nat
  BY FailedFinite, VerifyingFinite
<1>2. /\ Cardinality(F) \in Nat /\ Cardinality(F) <= Cardinality(failed[k])
      /\ Cardinality(V) \in Nat /\ Cardinality(V) <= Cardinality(Verifying(k))
  BY <1>1, FS_Subset, FS_CardinalityType
<1> QED
  BY <1>1, <1>2, LimitsArePositive

LEMMA NextOvershoot ==
  Typed /\ LimiterTyped /\ BucketsInv /\ OvershootIsBounded /\ [Next]_vars => OvershootIsBounded'
<1> SUFFICES ASSUME Typed, LimiterTyped, BucketsInv, OvershootIsBounded, [Next]_vars,
                    NEW k \in Keys
             PROVE  Cardinality(failed'[k]) + Cardinality(Verifying(k)')
                      < Limit + Cardinality(Requests)
  BY DEF OvershootIsBounded
<1>0. Cardinality(failed[k]) + Cardinality(Verifying(k)) < Limit + Cardinality(Requests)
  BY DEF OvershootIsBounded
<1>1. ASSUME failed'[k] \subseteq failed[k], Verifying(k)' \subseteq Verifying(k)
      PROVE  Cardinality(failed'[k]) + Cardinality(Verifying(k)')
               < Limit + Cardinality(Requests)
  BY <1>0, <1>1, OvershootShrinks
<1>2. ASSUME NEW r \in Requests, NEW s \in Scopes, NEW a \in Addresses, NEW guess \in 0..issued,
             Begin(r, s, a, guess), <<s, a>> = k
      PROVE  Cardinality(failed'[k]) + Cardinality(Verifying(k)')
               < Limit + Cardinality(Requests)
  <2>1. failed' = failed /\ ~Locked(k)
    BY <1>2 DEF Begin
  <2>2. ~(Cardinality(failed[k]) >= Limit)
    BY <2>1, EnoughFailuresLock DEF FailuresLock
  <2>3. Verifying(k)' \subseteq Requests
    BY DEF Verifying
  <2>4. Cardinality(Verifying(k)') \in Nat /\ Cardinality(Verifying(k)') <= Cardinality(Requests)
        /\ Cardinality(Requests) \in Nat
    BY <2>3, RequestsAreFinite, FS_Subset, FS_CardinalityType
  <2>5. Cardinality(failed[k]) \in Nat
    BY FailedFinite
  <2> QED
    BY <2>1, <2>2, <2>4, <2>5, LimitsArePositive
<1>3. ASSUME NEW r \in Requests, NEW s \in Scopes, NEW a \in Addresses, NEW guess \in 0..issued,
             Begin(r, s, a, guess), <<s, a>> # k
      PROVE  failed' = failed /\ Verifying(k)' \subseteq Verifying(k)
  BY <1>3 DEF Begin, Verifying, Typed
<1>4. ASSUME NEW r \in Requests, Refuse(r), op[r].key = k
      PROVE  Cardinality(failed'[k]) + Cardinality(Verifying(k)')
               < Limit + Cardinality(Requests)
  <2>1. failed'[k] = OneMore(failed[k])
    BY <1>4 DEF Refuse, LimiterTyped
  <2>2. /\ failed[k] \in SUBSET Failed /\ Kept(failed[k], clock) /\ clock \in Nat
        /\ Recent(failed[k], clock) = failed[k]
    BY KeptRecent, RecentTwice DEF Typed, LimiterTyped, BucketsInv
  <2>3. Cardinality(failed'[k]) = Cardinality(failed[k]) + 1
    BY <2>1, <2>2, OneMoreCounts
  <2>4. r \in Verifying(k) /\ Verifying(k)' = Verifying(k) \ {r}
    BY <1>4 DEF Refuse, Verifying, Typed
  <2>5. Cardinality(Verifying(k) \ {r}) = Cardinality(Verifying(k)) - 1
    BY <2>4, VerifyingFinite, FS_RemoveElement
  <2> QED
    BY <1>0, <2>3, <2>4, <2>5, FailedFinite, VerifyingFinite, LimitsArePositive
<1>5. ASSUME NEW r \in Requests, Refuse(r), op[r].key # k
      PROVE  failed'[k] = failed[k] /\ Verifying(k)' \subseteq Verifying(k)
  BY <1>5 DEF Refuse, Verifying, Typed, LimiterTyped
<1>6. ASSUME NEW r \in Requests, Accept(r)
      PROVE  failed'[k] \subseteq failed[k] /\ Verifying(k)' \subseteq Verifying(k)
  BY <1>6, IdleType DEF Accept, Verifying, Typed, LimiterTyped
<1>7. ASSUME NEW r \in Requests, Answer(r)
      PROVE  failed' = failed /\ Verifying(k)' \subseteq Verifying(k)
  BY <1>7, IdleType DEF Answer, Verifying, Typed
<1>8. CASE Tick
  <2>1. failed'[k] = Recent(failed[k], clock') /\ op' = op
    BY <1>8 DEF Tick
  <2> QED
    BY <1>1, <2>1 DEF Recent, Verifying
<1>9. CASE Restart
  <2>1. failed'[k] = {} /\ Verifying(k)' = {}
    BY <1>9, IdleType DEF Restart, Verifying
  <2> QED
    BY <1>1, <2>1
<1>10. ASSUME UNCHANGED <<failed, op>>
       PROVE  failed'[k] = failed[k] /\ Verifying(k)' = Verifying(k)
  BY <1>10 DEF Verifying
<1> QED
  BY <1>1, <1>2, <1>3, <1>4, <1>5, <1>6, <1>7, <1>8, <1>9, <1>10
     DEF Next, SetCredential, RemoveCredential, vars

\* Logins that asked before the lock may still fail, one for each that was
\* open: however many there are and however they interleave, the passwords
\* tried within a window stay below the limit and the logins open at a time.
THEOREM OvershootBounded == Spec => []OvershootIsBounded
<1>1. Init => OvershootIsBounded
  <2> SUFFICES ASSUME Init, NEW k \in Keys
               PROVE  Cardinality(failed[k]) + Cardinality(Verifying(k))
                        < Limit + Cardinality(Requests)
    BY DEF OvershootIsBounded
  <2>1. failed[k] = {} /\ Verifying(k) = {}
    BY IdleType DEF Init, Verifying
  <2> QED
    BY <2>1, VerifyingFinite, FS_EmptySet, LimitsArePositive
<1>2. IInv => Typed
  BY DEF IInv
<1> QED
  BY <1>1, <1>2, InvariantCorrect, LimiterCorrect, NextOvershoot, PTL DEF Spec

\* A lock ends with its time, with the service, or with the right password of
\* a login that was open before it: nobody who fails meanwhile opens it.
THEOREM LockStays == Spec => LockLasts
<1> DEFINE Opened(k) ==
      \/ clock' # clock
      \/ \A r \in Requests : op'[r] = Idle
      \/ \E r \in Verifying(k) : op[r].guess = op[r].record.password /\ op'[r] = Idle
<1>1. ASSUME Typed, LimiterTyped, BucketsInv, [Next]_vars, NEW k \in Keys, Locked(k), ~Locked(k)'
      PROVE  Opened(k)
  <2>1. ASSUME NEW r \in Requests, Accept(r) PROVE Opened(k)
    <3>1. op[r].key = k
      BY <1>1, <2>1 DEF Accept, Locked, LimiterTyped
    <3>2. r \in Verifying(k) /\ op[r].guess = op[r].record.password /\ op'[r] = Idle
      BY <1>1, <2>1, <3>1 DEF Accept, Verifying, Typed
    <3> QED
      BY <3>2
  <2>2. ASSUME NEW r \in Requests, Refuse(r) PROVE FALSE
    <3>1. op[r].key = k
      BY <1>1, <2>2 DEF Refuse, Locked, LimiterTyped
    <3>2. buckets'[k] = Failure(buckets[k]) /\ clock' = clock
      BY <1>1, <2>2, <3>1 DEF Refuse, LimiterTyped
    <3> QED
      BY <1>1, <3>2, FailureLocks DEF Locked, Typed, BucketsInv, LimiterTyped
  <2>3. CASE Restart
    BY <1>1, <2>3 DEF Restart
  <2>4. CASE Tick
    BY <1>1, <2>4 DEF Tick
  <2>5. ASSUME UNCHANGED <<buckets, clock>> PROVE FALSE
    BY <1>1, <2>5 DEF Locked
  <2> QED
    BY <1>1, <2>1, <2>2, <2>3, <2>4, <2>5
       DEF Next, SetCredential, RemoveCredential, Begin, Answer, vars
<1>2. Typed /\ LimiterTyped /\ BucketsInv /\ [Next]_vars =>
        [\A k \in Keys : Locked(k) /\ ~Locked(k)' => Opened(k)]_buckets
  BY <1>1
<1> HIDE DEF Opened
<1> QED
  <2>1. IInv => Typed
    BY DEF IInv
  <2> USE DEF Opened
  <2> QED
    BY <1>2, <2>1, InvariantCorrect, LimiterCorrect, PTL DEF Spec, LockLasts
=============================================================================
