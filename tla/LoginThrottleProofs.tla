------------------------ MODULE LoginThrottleProofs ------------------------
(* What the login throttle guarantees for any number of accounts and of     *)
(* simultaneous attempts, any MAX_FAILURES and any WINDOW.                  *)
EXTENDS LoginThrottle, FiniteSetTheorems, TLAPS

LEMMA Limits == MaxFailures \in Nat \ {0} /\ Window \in Nat \ {0}
  BY ThrottleAssumption

LEMMA RequestSets ==
  /\ Cardinality(Requests) \in Nat \ {0}
  /\ \A R \in SUBSET Requests :
       /\ IsFiniteSet(R)
       /\ Cardinality(R) \in Nat
       /\ Cardinality(R) <= Cardinality(Requests)
<1>1. IsFiniteSet(Requests) /\ Requests # {}
  BY ThrottleAssumption
<1>2. Cardinality(Requests) \in Nat \ {0}
  BY <1>1, FS_CardinalityType, FS_EmptySet
<1>3. ASSUME NEW R \in SUBSET Requests
      PROVE  /\ IsFiniteSet(R)
             /\ Cardinality(R) \in Nat
             /\ Cardinality(R) <= Cardinality(Requests)
  BY <1>1, FS_Subset, FS_CardinalityType
<1> QED
  BY <1>2, <1>3
-----------------------------------------------------------------------------
(* Types.                                                                   *)

LEMMA FinishType ==
  ASSUME ThrottleTypeOK, NEW r \in Requests,
         NEW reply \in {"none", "throttled", "denied", "granted"},
         Finish(r, reply)
  PROVE  req' \in [Requests -> Attempt]
<1>1. Idle(reply) \in Attempt
  BY DEF Idle, Attempt
<1> QED
  BY <1>1 DEF Finish, ThrottleTypeOK

\* A bucket is looked at field by field, a waiting attempt has an email.
LEMMA Fields ==
  ASSUME ThrottleTypeOK
  PROVE  /\ \A e \in Emails : /\ bucket[e].age \in 0 .. Window
                              /\ bucket[e].failures \in Nat
         /\ \A r \in Requests : req[r].pc = "select" => req[r].email \in Emails
<1>1. ASSUME NEW e \in Emails
      PROVE  bucket[e].age \in 0 .. Window /\ bucket[e].failures \in Nat
  BY DEF ThrottleTypeOK
<1>2. ASSUME NEW r \in Requests, req[r].pc = "select"
      PROVE  req[r].email \in Emails
  BY <1>2 DEF ThrottleTypeOK, Attempt
<1> QED
  BY <1>1, <1>2

LEMMA NoBucketType == NoBucket \in [age : 0 .. Window, failures : Nat]
  BY Limits DEF NoBucket

LEMMA NextThrottleType == ThrottleTypeOK /\ [ThrottleNext]_throttleVars
                            => ThrottleTypeOK'
<1> SUFFICES ASSUME ThrottleTypeOK, [ThrottleNext]_throttleVars
             PROVE  ThrottleTypeOK'
  OBVIOUS
<1> USE Limits
<1>1. CASE UNCHANGED throttleVars
  BY <1>1 DEF throttleVars, ThrottleTypeOK
<1>2. ASSUME NEW r \in Requests, Login(r) PROVE ThrottleTypeOK'
  <2>1. req' \in [Requests -> Attempt]
    <3>1. CASE Finish(r, "throttled")
      BY <3>1, FinishType
    <3>2. ASSUME NEW e \in Emails,
                 req' = [req EXCEPT ![r] = [pc |-> "select", email |-> e,
                                            reply |-> "none"]]
          PROVE  req' \in [Requests -> Attempt]
      <4>1. [pc |-> "select", email |-> e, reply |-> "none"] \in Attempt
        BY DEF Attempt
      <4> QED
        BY <3>2, <4>1 DEF ThrottleTypeOK
    <3> QED
      BY <1>2, <3>1, <3>2 DEF Login
  <2> QED
    BY <1>2, <2>1 DEF Login, ThrottleTypeOK
<1>3. ASSUME NEW r \in Requests, Fail(r) PROVE ThrottleTypeOK'
  <2>1. req' \in [Requests -> Attempt]
    BY <1>3, FinishType DEF Fail
  <2>2. bucket' \in [Emails -> [age : 0 .. Window, failures : Nat]]
    <3> DEFINE e == req[r].email
               next(f) ==
                 IF f = e
                 THEN [age |-> IF Fresh(e) THEN bucket[e].age ELSE 0,
                       failures |-> 1 + IF Fresh(e) THEN bucket[e].failures
                                                    ELSE 0]
                 ELSE IF Fresh(f) THEN bucket[f] ELSE NoBucket
    <3>1. e \in Emails
      BY <1>3, Fields DEF Fail
    <3>2. ASSUME NEW f \in Emails
          PROVE  next(f) \in [age : 0 .. Window, failures : Nat]
      <4>1. CASE f = e
        BY <3>1, <4>1, Fields
      <4>2. CASE f # e /\ Fresh(f)
        BY <4>2 DEF ThrottleTypeOK
      <4>3. CASE f # e /\ ~Fresh(f)
        BY <4>3, NoBucketType
      <4> QED
        BY <4>1, <4>2, <4>3
    <3>3. bucket' = [f \in Emails |-> next(f)]
      BY <1>3 DEF Fail, RecordFailure
    <3> QED
      BY <3>2, <3>3
  <2>3. recent' \in [Emails -> [0 .. Window - 1 -> Nat]]
    <3> DEFINE e == req[r].email
               row == [recent[e] EXCEPT ![0] = @ + 1]
    <3>1. e \in Emails /\ 0 \in 0 .. Window - 1
      BY <1>3, Fields DEF Fail
    <3>2. row \in [0 .. Window - 1 -> Nat]
      BY <3>1 DEF ThrottleTypeOK
    <3>3. recent' = [recent EXCEPT ![e] = row]
      BY <1>3 DEF Fail
    <3> QED
      BY <3>1, <3>2, <3>3 DEF ThrottleTypeOK
  <2> QED
    BY <2>1, <2>2, <2>3 DEF ThrottleTypeOK
<1>4. ASSUME NEW r \in Requests, Succeed(r) PROVE ThrottleTypeOK'
  <2>1. req' \in [Requests -> Attempt]
    BY <1>4 DEF Succeed, ThrottleTypeOK, Attempt
  <2>2. bucket' \in [Emails -> [age : 0 .. Window, failures : Nat]]
    BY <1>4, NoBucketType DEF Succeed, ThrottleTypeOK
  <2>3. recent' \in [Emails -> [0 .. Window - 1 -> Nat]]
    BY <1>4 DEF Succeed, NoFailures, ThrottleTypeOK
  <2> QED
    BY <2>1, <2>2, <2>3 DEF ThrottleTypeOK
<1>5. ASSUME NEW r \in Requests, StoreSession(r) \/ Abort(r)
      PROVE  ThrottleTypeOK'
  <2>1. req' \in [Requests -> Attempt]
    BY <1>5, FinishType DEF StoreSession, Abort
  <2> QED
    BY <1>5, <2>1 DEF StoreSession, Abort, ThrottleTypeOK
<1>6. CASE Tick
  <2>1. bucket' \in [Emails -> [age : 0 .. Window, failures : Nat]]
    BY <1>6, Fields DEF Tick, Fresh
  <2>2. recent' \in [Emails -> [0 .. Window - 1 -> Nat]]
    BY <1>6 DEF Tick, ThrottleTypeOK
  <2> QED
    BY <1>6, <2>1, <2>2 DEF Tick, ThrottleTypeOK
<1>7. CASE Restart
  BY <1>7 DEF Restart, ThrottleTypeOK, NoBucket, NoFailures, Idle, Attempt
<1> QED
  BY <1>1, <1>2, <1>3, <1>4, <1>5, <1>6, <1>7 DEF ThrottleNext
-----------------------------------------------------------------------------
(* The bound on what a window counts.                                       *)

\* The attempts that remain in flight.
LEMMA Settled ==
  ASSUME ThrottleTypeOK, NEW r \in Requests, NEW row, NEW e \in Emails,
         req' = [req EXCEPT ![r] = row], row.pc # "select"
  PROVE  InFlight(e)' = InFlight(e) \ {r}
<1>1. req'[r] = row /\ \A q \in Requests \ {r} : req'[q] = req[q]
  BY DEF ThrottleTypeOK
<1> QED
  BY <1>1 DEF InFlight
\* Once an attempt is settled one attempt less is in flight.
LEMMA OneLess ==
  ASSUME ThrottleTypeOK, NEW r \in Requests, NEW e \in Emails,
         r \in InFlight(e), InFlight(e)' = InFlight(e) \ {r}
  PROVE  /\ Cardinality(InFlight(e)) \in Nat
         /\ Cardinality(InFlight(e)') = Cardinality(InFlight(e)) - 1
<1>1. IsFiniteSet(InFlight(e)) /\ Cardinality(InFlight(e)) \in Nat
  BY RequestSets DEF InFlight
<1> QED
  BY <1>1, FS_RemoveElement

LEMMA NextWindowBound ==
  ASSUME ThrottleTypeOK, WindowBound, [ThrottleNext]_throttleVars
  PROVE  WindowBound'
<1> USE Limits
<1> DEFINE N == Cardinality(Requests)
<1> SUFFICES ASSUME NEW e \in Emails, Fresh(e)'
             PROVE  bucket'[e].failures + Cardinality(InFlight(e)')
                      <= MaxFailures - 1 + N
  BY DEF WindowBound
<1>1. /\ Cardinality(InFlight(e)) \in Nat /\ Cardinality(InFlight(e)') \in Nat
      /\ Cardinality(InFlight(e)') <= N /\ N \in Nat \ {0}
  BY RequestSets DEF InFlight
<1>2. Fresh(e) => bucket[e].failures + Cardinality(InFlight(e))
                    <= MaxFailures - 1 + N
  BY DEF WindowBound
<1>3. bucket[e].failures \in Nat /\ bucket[e].age \in 0 .. Window
  BY Fields
<1>4. CASE /\ bucket' = bucket
           /\ InFlight(e)' \subseteq InFlight(e)
  <2>1. Cardinality(InFlight(e)') <= Cardinality(InFlight(e))
    <3>1. IsFiniteSet(InFlight(e))
      BY RequestSets DEF InFlight
    <3> QED
      BY <1>4, <3>1, FS_Subset
  <2> QED
    BY <1>1, <1>2, <1>3, <1>4, <2>1 DEF Fresh
<1>5. CASE UNCHANGED throttleVars
  BY <1>4, <1>5 DEF throttleVars, InFlight
<1>6. ASSUME NEW r \in Requests, NEW reply, Finish(r, reply)
      PROVE  InFlight(e)' = InFlight(e) \ {r}
  <2>1. req' = [req EXCEPT ![r] = Idle(reply)]
    BY <1>6 DEF Finish
  <2>2. Idle(reply).pc # "select"
    BY DEF Idle
  <2> QED
    BY <2>1, <2>2, Settled
<1>7. ASSUME NEW r \in Requests, Login(r)
      PROVE  bucket'[e].failures + Cardinality(InFlight(e)')
               <= MaxFailures - 1 + N
  <2>1. bucket' = bucket
    BY <1>7 DEF Login
  <2>2. CASE Finish(r, "throttled")
    BY <1>4, <1>6, <2>1, <2>2
  <2>3. ASSUME NEW f \in Emails, Allowed(f),
               req' = [req EXCEPT ![r] = [pc |-> "select", email |-> f,
                                          reply |-> "none"]]
        PROVE  bucket'[e].failures + Cardinality(InFlight(e)')
                 <= MaxFailures - 1 + N
    <3>1. CASE f = e
      BY <1>1, <1>3, <2>1, <2>3, <3>1 DEF Allowed, Fresh
    <3>2. CASE f # e
      <4>1. InFlight(e)' \subseteq InFlight(e)
        BY <2>3, <3>2 DEF InFlight, ThrottleTypeOK
      <4> QED
        BY <1>4, <2>1, <4>1
    <3> QED
      BY <3>1, <3>2
  <2> QED
    BY <1>7, <2>2, <2>3 DEF Login
<1>8. ASSUME NEW r \in Requests, Fail(r)
      PROVE  bucket'[e].failures + Cardinality(InFlight(e)')
               <= MaxFailures - 1 + N
  <2>1. InFlight(e)' = InFlight(e) \ {r}
    BY <1>6, <1>8 DEF Fail
  <2>2. CASE req[r].email = e
    <3>1. r \in InFlight(e)
      BY <1>8, <2>2 DEF Fail, InFlight
    <3>2. Cardinality(InFlight(e)') = Cardinality(InFlight(e)) - 1
      BY <2>1, <3>1, OneLess
    <3>3. bucket'[e].failures = 1 + IF Fresh(e) THEN bucket[e].failures ELSE 0
      BY <1>8, <2>2 DEF Fail, RecordFailure
    <3>4. Cardinality(InFlight(e)) <= N
      BY RequestSets DEF InFlight
    <3> QED
      BY <1>1, <1>2, <1>3, <3>2, <3>3, <3>4
  <2>3. CASE req[r].email # e
    <3>1. bucket'[e] = IF Fresh(e) THEN bucket[e] ELSE NoBucket
      BY <1>8, <2>3 DEF Fail, RecordFailure
    <3>2. Fresh(e) /\ bucket'[e] = bucket[e]
      BY <3>1 DEF Fresh, NoBucket
    <3>3. InFlight(e)' = InFlight(e)
      BY <2>1, <2>3 DEF InFlight
    <3> QED
      BY <1>2, <3>2, <3>3
  <2> QED
    BY <2>2, <2>3
<1>9. ASSUME NEW r \in Requests, Succeed(r)
      PROVE  bucket'[e].failures + Cardinality(InFlight(e)')
               <= MaxFailures - 1 + N
  <2>1. CASE req[r].email = e
    BY <1>9, <2>1 DEF Succeed, Fresh, NoBucket, ThrottleTypeOK
  <2>2. CASE req[r].email # e
    <3>1. bucket'[e] = bucket[e]
      BY <1>9, <2>2 DEF Succeed, ThrottleTypeOK
    <3>2. InFlight(e)' = InFlight(e)
      BY <1>9, <2>2 DEF Succeed, InFlight, ThrottleTypeOK, Attempt
    <3> QED
      BY <1>2, <3>1, <3>2 DEF Fresh
  <2> QED
    BY <2>1, <2>2
<1>10. ASSUME NEW r \in Requests, StoreSession(r) \/ Abort(r)
       PROVE  bucket'[e].failures + Cardinality(InFlight(e)')
                <= MaxFailures - 1 + N
  BY <1>4, <1>6, <1>10 DEF StoreSession, Abort
<1>11. CASE Tick
  <2>1. InFlight(e)' = InFlight(e)
    BY <1>11 DEF Tick, InFlight
  <2>2. bucket'[e].failures = bucket[e].failures /\ Fresh(e)
    BY <1>3, <1>11 DEF Tick, Fresh
  <2> QED
    BY <1>2, <2>1, <2>2
<1>12. CASE Restart
  BY <1>12 DEF Restart, Fresh, NoBucket
<1> QED
  BY <1>5, <1>7, <1>8, <1>9, <1>10, <1>11, <1>12 DEF ThrottleNext

\* The types, and the bound: however many attempts the server handles at once,
\* a window never counts more than MAX_FAILURES - 1 and those attempts.
THEOREM ThrottleSafe == ThrottleSpec => [](ThrottleTypeOK /\ WindowBound)
<1>1. ThrottleInit => ThrottleTypeOK /\ WindowBound
  <2> SUFFICES ASSUME ThrottleInit PROVE ThrottleTypeOK /\ WindowBound
    OBVIOUS
  <2>1. ThrottleTypeOK
    BY NoBucketType, Limits
       DEF ThrottleInit, ThrottleTypeOK, NoFailures, Idle, Attempt
  <2>2. WindowBound
    BY Limits DEF ThrottleInit, WindowBound, Fresh, NoBucket
  <2> QED
    BY <2>1, <2>2
<1>2. ThrottleTypeOK /\ WindowBound /\ [ThrottleNext]_throttleVars
        => (ThrottleTypeOK /\ WindowBound)'
  BY NextThrottleType, NextWindowBound
<1> QED
  BY <1>1, <1>2, PTL DEF ThrottleSpec

\* The variables of LoginThrottle keep their types.
THEOREM ThrottleTyped == ThrottleSpec => []ThrottleTypeOK
  BY ThrottleSafe, PTL

\* Nobody is throttled by attempts on somebody else's account, nor let in by
\* them, however the attempts interleave.
THEOREM Isolation == ThrottleSpec => Isolated
<1> DEFINE Step == \A e \in Emails :
      /\ Allowed(e) /\ Throttled(e)' =>
           \E r \in InFlight(e) : req'[r].reply = "denied"
      /\ Throttled(e) /\ Allowed(e)' =>
           \/ \E r \in InFlight(e) : req'[r].pc = "session"
           \/ UNCHANGED req
           \/ req' = [r \in Requests |-> Idle("none")]
<1>1. ThrottleTypeOK /\ [ThrottleNext]_throttleVars => [Step]_throttleVars
  <2> SUFFICES ASSUME ThrottleTypeOK, ThrottleNext, NEW e \in Emails
               PROVE  /\ Allowed(e) /\ Throttled(e)' =>
                           \E r \in InFlight(e) : req'[r].reply = "denied"
                      /\ Throttled(e) /\ Allowed(e)' =>
                           \/ \E r \in InFlight(e) : req'[r].pc = "session"
                           \/ UNCHANGED req
                           \/ req' = [r \in Requests |-> Idle("none")]
    BY DEF throttleVars
  <2> USE Limits DEF Throttled
  <2>1. CASE bucket'[e] = bucket[e]
    BY <2>1 DEF Allowed, Fresh
  <2>2. ASSUME NEW r \in Requests, Fail(r), req[r].email = e
        PROVE  /\ r \in InFlight(e) /\ req'[r].reply = "denied"
               /\ Throttled(e) => Throttled(e)'
    <3>1. r \in InFlight(e) /\ req'[r].reply = "denied"
      BY <2>2 DEF Fail, Finish, Idle, InFlight, ThrottleTypeOK
    <3>2. ASSUME Throttled(e) PROVE Throttled(e)'
      <4>1. bucket'[e] = [age |-> bucket[e].age,
                          failures |-> 1 + bucket[e].failures]
        BY <2>2, <3>2 DEF Fail, RecordFailure, Allowed, Fresh
      <4> QED
        BY <3>2, <4>1, Fields DEF Allowed, Fresh
    <3> QED
      BY <3>1, <3>2
  <2>3. ASSUME NEW r \in Requests, Fail(r), req[r].email # e
        PROVE  Allowed(e)' <=> Allowed(e)
    <3>1. bucket'[e] = IF Fresh(e) THEN bucket[e] ELSE NoBucket
      BY <2>3 DEF Fail, RecordFailure
    <3> QED
      BY <3>1 DEF Allowed, Fresh, NoBucket
  <2>4. ASSUME NEW r \in Requests, Succeed(r), req[r].email = e
        PROVE  /\ r \in InFlight(e) /\ req'[r].pc = "session"
               /\ Allowed(e)'
    <3>1. r \in InFlight(e) /\ req'[r].pc = "session"
      BY <2>4 DEF Succeed, InFlight, ThrottleTypeOK, Attempt
    <3>2. Allowed(e)'
      BY <2>4 DEF Succeed, Allowed, Fresh, NoBucket, ThrottleTypeOK
    <3> QED
      BY <3>1, <3>2
  <2>5. ASSUME NEW r \in Requests, Succeed(r), req[r].email # e
        PROVE  bucket'[e] = bucket[e]
    BY <2>5 DEF Succeed, ThrottleTypeOK
  <2>6. CASE Tick
    <3>1. Throttled(e)' => Throttled(e)
      BY <2>6, Fields DEF Tick, Allowed, Fresh
    <3> QED
      BY <2>6, <3>1 DEF Tick
  <2>7. CASE Restart
    BY <2>7 DEF Restart, Allowed, Fresh, NoBucket
  <2>8. ASSUME NEW r \in Requests, Login(r) \/ StoreSession(r) \/ Abort(r)
        PROVE  bucket' = bucket
    BY <2>8 DEF Login, StoreSession, Abort
  <2> QED
    BY <2>1, <2>2, <2>3, <2>4, <2>5, <2>6, <2>7, <2>8 DEF ThrottleNext
<1> QED
  BY <1>1, ThrottleSafe, PTL DEF ThrottleSpec, Isolated
-----------------------------------------------------------------------------
(* What the limiter holds against an account, and what it forgets: the      *)
(* failures since the window was opened, and those of the last Window.      *)

Rows == [0 .. Window - 1 -> Nat]

LEMMA NumberedIs ==
  ASSUME NEW row \in Rows
  PROVE  /\ Numbered(row) \subseteq Int \X Nat
         /\ \A a \in Int, k \in Nat : <<a, k>> \in Numbered(row) <=>
              a \in 0 .. Window - 1 /\ 1 <= k /\ k <= row[a]
<1> USE Limits
<1>1. ASSUME NEW p \in Numbered(row)
      PROVE  p \in Int \X Nat
  <2>1. PICK a \in 0 .. Window - 1 : p \in {a} \X (1 .. row[a])
    BY DEF Numbered
  <2>2. row[a] \in Nat
    BY DEF Rows
  <2> QED BY <2>1, <2>2
<1>2. ASSUME NEW a \in Int, NEW k \in Nat
      PROVE  <<a, k>> \in Numbered(row) <=>
               a \in 0 .. Window - 1 /\ 1 <= k /\ k <= row[a]
  <2>1. <<a, k>> \in Numbered(row) <=>
          \E b \in 0 .. Window - 1 : <<a, k>> \in {b} \X (1 .. row[b])
    BY DEF Numbered
  <2>2. \A b \in 0 .. Window - 1 : row[b] \in Nat
    BY DEF Rows
  <2> QED BY <2>1, <2>2
<1> QED BY <1>1, <1>2

\* Failures that are all a tick older are as many.
LEMMA AllOlder ==
  ASSUME NEW S, NEW T, IsFiniteSet(S),
         S \subseteq Int \X Nat, T \subseteq Int \X Nat,
         \A a \in Int, k \in Nat : <<a, k>> \in S <=> <<a + 1, k>> \in T
  PROVE  IsFiniteSet(T) /\ Cardinality(T) = Cardinality(S)
<1> DEFINE f == [p \in S |-> <<p[1] + 1, p[2]>>]
<1>1. f \in [S -> T]
  OBVIOUS
<1>2. ASSUME NEW p \in S, NEW q \in S, f[p] = f[q]
      PROVE  p = q
  BY <1>2
<1>3. ASSUME NEW q \in T
      PROVE  \E p \in S : f[p] = q
  <2>1. PICK a \in Int, k \in Nat : q = <<a, k>>
    OBVIOUS
  <2>2. <<a - 1, k>> \in S
    BY <2>1
  <2>3. f[<<a - 1, k>>] = q
    BY <2>1, <2>2
  <2> QED BY <2>2, <2>3
<1> HIDE DEF f
<1>4. /\ \A p, q \in S : f[p] = f[q] => p = q
      /\ \A q \in T : \E p \in S : f[p] = q
  BY <1>2, <1>3
<1>5. f \in Bijection(S, T)
  BY <1>1, <1>4 DEF Bijection, Injection, Surjection, IsInjective
<1> QED BY <1>5, FS_Bijection DEF ExistsBijection

LEMMA TwoParts ==
  ASSUME NEW S, NEW T, IsFiniteSet(S), IsFiniteSet(T), S \cap T = {}
  PROVE  Cardinality(S \cup T) = Cardinality(S) + Cardinality(T)
<1>1. Cardinality(S \cap T) = 0
  BY FS_EmptySet
<1>2. Cardinality(S) \in Nat /\ Cardinality(T) \in Nat
  BY FS_CardinalityType
<1>3. Cardinality(S \cup T)
        = Cardinality(S) + Cardinality(T) - Cardinality(S \cap T)
  BY FS_Union, Zenon
<1> QED BY <1>1, <1>2, <1>3

\* The most that an open window has counted.
Bound == MaxFailures - 1 + Cardinality(Requests)

OfWindow(row, age) == {p \in Numbered(row) : p[1] <= age}
Before(row, age) == {p \in Numbered(row) : p[1] > age}

\* A window that is open has counted the failures since the one that opened
\* it; what else is recent is of one earlier window, whose first failure is
\* not recent any more.
Counts(row, age, failures) ==
  /\ IsFiniteSet(Numbered(row))
  /\ age < Window =>
       /\ Cardinality(OfWindow(row, age)) = failures
       /\ \E p \in Numbered(row) : p[1] = age
       /\ Cardinality(Before(row, age)) <= Bound - 1
  /\ age = Window =>
       /\ \A p \in Numbered(row) : p[1] # 0
       /\ Cardinality(Numbered(row)) <= Bound - 1

LEMMA BoundType == Bound \in Nat \ {0}
  BY Limits, RequestSets DEF Bound

\* No failure.
LEMMA CountsNone == Counts(NoFailures, Window, 0)
<1> USE Limits
<1>1. Numbered(NoFailures) = {}
  BY DEF Numbered, NoFailures
<1> QED BY <1>1, FS_EmptySet, BoundType DEF Counts

\* One failure more; a tick later.
Failed(row) == [row EXCEPT ![0] = @ + 1]
Later(row) == [a \in 0 .. Window - 1 |-> IF a = 0 THEN 0 ELSE row[a - 1]]

LEMMA OneMore ==
  ASSUME NEW row \in Rows
  PROVE  /\ Failed(row) \in Rows
         /\ <<0, row[0] + 1>> \notin Numbered(row)
         /\ Numbered(Failed(row)) = Numbered(row) \cup {<<0, row[0] + 1>>}
<1> USE Limits
<1> DEFINE new == <<0, row[0] + 1>>
           next == Failed(row)
<1>0. 0 \in 0 .. Window - 1 /\ row[0] \in Nat
  BY DEF Rows
<1>1. next \in Rows
  BY <1>0 DEF Rows, Failed
<1>2. new \notin Numbered(row)
  BY <1>0, NumberedIs
<1>3. \A a \in Int, k \in Nat : <<a, k>> \in Numbered(next) <=>
         <<a, k>> \in Numbered(row) \cup {new}
  <2> SUFFICES ASSUME NEW a \in Int, NEW k \in Nat
               PROVE  <<a, k>> \in Numbered(next) <=>
                        <<a, k>> \in Numbered(row) \/ <<a, k>> = new
    OBVIOUS
  <2>1. <<a, k>> \in Numbered(next) <=>
          a \in 0 .. Window - 1 /\ 1 <= k /\ k <= next[a]
    BY <1>1, NumberedIs
  <2>2. <<a, k>> \in Numbered(row) <=>
          a \in 0 .. Window - 1 /\ 1 <= k /\ k <= row[a]
    BY NumberedIs
  <2>3. a \in 0 .. Window - 1 =>
          next[a] = IF a = 0 THEN row[0] + 1 ELSE row[a]
    BY DEF Rows, Failed
  <2>4. a \in 0 .. Window - 1 => row[a] \in Nat
    BY DEF Rows
  <2> QED BY <1>0, <2>1, <2>2, <2>3, <2>4
<1>4. /\ Numbered(next) \subseteq Int \X Nat
      /\ Numbered(row) \cup {new} \subseteq Int \X Nat
  BY <1>0, <1>1, NumberedIs
<1>5. Numbered(next) = Numbered(row) \cup {new}
  <2> HIDE DEF new
  <2> QED BY <1>3, <1>4
<1> QED BY <1>1, <1>2, <1>5

LEMMA CountsFailure ==
  ASSUME NEW row \in Rows, NEW age \in 0 .. Window, NEW failures \in Nat,
         Counts(row, age, failures)
  PROVE  Counts(Failed(row), IF age < Window THEN age ELSE 0,
                1 + IF age < Window THEN failures ELSE 0)
<1> USE Limits
<1> DEFINE new == <<0, row[0] + 1>>
           next == Failed(row)
<1>1. /\ new \notin Numbered(row) /\ next \in Rows
      /\ Numbered(next) = Numbered(row) \cup {new}
  BY OneMore
<1>2. new[1] = 0
  OBVIOUS
<1>3. IsFiniteSet(Numbered(row)) /\ Numbered(row) \subseteq Int \X Nat
  BY NumberedIs DEF Counts
<1> HIDE DEF new
<1>4. IsFiniteSet(Numbered(next))
  BY <1>1, <1>3, FS_AddElement
<1>5. CASE age < Window
  <2>1. /\ OfWindow(next, age) = OfWindow(row, age) \cup {new}
        /\ new \notin OfWindow(row, age)
        /\ Before(next, age) = Before(row, age)
    BY <1>1, <1>2 DEF OfWindow, Before
  <2>2. IsFiniteSet(OfWindow(row, age))
    BY <1>3, FS_Subset DEF OfWindow
  <2>3. Cardinality(OfWindow(next, age)) = failures + 1
    <3>1. Cardinality(OfWindow(row, age)) = failures
      BY <1>5 DEF Counts
    <3>2. Cardinality(OfWindow(row, age) \cup {new}) = failures + 1
      BY <2>1, <2>2, <3>1, FS_AddElement
    <3> QED BY <2>1, <3>2
  <2>4. /\ \E p \in Numbered(next) : p[1] = age
        /\ Cardinality(Before(next, age)) <= Bound - 1
    BY <1>1, <1>5, <2>1 DEF Counts
  <2>5. age # Window /\ failures + 1 = 1 + failures
    BY <1>5
  <2> QED BY <1>4, <1>5, <2>3, <2>4, <2>5 DEF Counts
<1>6. CASE age = Window
  <2>0. \A p \in Numbered(row) : p[1] \in Int /\ p[1] > 0
    <3>1. \A p \in Numbered(row) : p = <<p[1], p[2]>> /\ p[1] \in Int /\ p[2] \in Nat
      BY <1>3
    <3>2. \A p \in Numbered(row) : p[1] \in 0 .. Window - 1
      BY <3>1, NumberedIs
    <3> QED BY <1>6, <3>2 DEF Counts
  <2>1. OfWindow(next, 0) = {new} /\ Before(next, 0) = Numbered(row)
    BY <1>1, <1>2, <2>0 DEF OfWindow, Before
  <2>2. Cardinality(OfWindow(next, 0)) = 1
    BY <2>1, FS_Singleton
  <2>3. /\ \E p \in Numbered(next) : p[1] = 0
        /\ Cardinality(Before(next, 0)) <= Bound - 1
    BY <1>1, <1>2, <1>6, <2>1 DEF Counts
  <2>4. 0 # Window
    OBVIOUS
  <2>5. Counts(next, 0, 1)
    BY <1>4, <2>2, <2>3, <2>4 DEF Counts
  <2> QED BY <1>6, <2>5
<1> QED BY <1>5, <1>6

\* A tick: all failures are older, and what falls out of the last Window is
\* what opened a window that expires.
LEMMA CountsTick ==
  ASSUME NEW row \in Rows, NEW age \in 0 .. Window, NEW failures \in Nat,
         Counts(row, age, failures), age < Window => failures <= Bound
  PROVE  Counts(Later(row), IF age < Window THEN age + 1 ELSE Window, failures)
<1> USE Limits, BoundType
<1> DEFINE next == Later(row)
           kept == {p \in Numbered(row) : p[1] < Window - 1}
<1>1. next \in Rows /\ \A a \in 0 .. Window - 1 : row[a] \in Nat
  BY DEF Rows, Later
<1>2. /\ IsFiniteSet(Numbered(row)) /\ Numbered(row) \subseteq Int \X Nat
      /\ Numbered(next) \subseteq Int \X Nat
  BY <1>1, NumberedIs DEF Counts
<1>3. ASSUME NEW a \in Int, NEW k \in Nat
      PROVE  <<a, k>> \in kept <=> <<a + 1, k>> \in Numbered(next)
  <2>1. <<a, k>> \in Numbered(row) <=>
          a \in 0 .. Window - 1 /\ 1 <= k /\ k <= row[a]
    BY NumberedIs
  <2>2. <<a + 1, k>> \in Numbered(next) <=>
          a + 1 \in 0 .. Window - 1 /\ 1 <= k /\ k <= next[a + 1]
    BY <1>1, NumberedIs
  <2>3. a + 1 \in 0 .. Window - 1 =>
          next[a + 1] = IF a + 1 = 0 THEN 0 ELSE row[a]
    BY DEF Later
  <2>4. <<a, k>> \in kept <=> <<a, k>> \in Numbered(row) /\ a < Window - 1
    OBVIOUS
  <2> HIDE DEF kept
  <2> QED BY <2>1, <2>2, <2>3, <2>4
<1>4. IsFiniteSet(kept) /\ kept \subseteq Int \X Nat
  BY <1>2, FS_Subset
<1>5. \A p \in Numbered(next) : p[1] \in Int /\ p[1] > 0
  <2> SUFFICES ASSUME NEW p \in Numbered(next)  PROVE p[1] \in Int /\ p[1] > 0
    OBVIOUS
  <2>1. p = <<p[1], p[2]>> /\ p[1] \in Int /\ p[2] \in Nat
    BY <1>2
  <2>2. p[1] \in 0 .. Window - 1 /\ 1 <= p[2] /\ p[2] <= next[p[1]]
    BY <1>1, <2>1, NumberedIs
  <2>3. p[1] = 0 => next[p[1]] = 0
    BY <2>2 DEF Later
  <2> QED BY <2>1, <2>2, <2>3
<1> HIDE DEF kept
<1>6. IsFiniteSet(Numbered(next)) /\ Cardinality(Numbered(next)) = Cardinality(kept)
  BY <1>2, <1>3, <1>4, AllOlder
<1>7. \A S \in SUBSET Numbered(row) :
         IsFiniteSet(S) /\ Cardinality(S) \in Nat
  BY <1>2, FS_Subset, FS_CardinalityType
<1>8. kept \subseteq Numbered(row) /\ \A p \in kept : p[1] < Window - 1
  BY DEF kept
<1>9. CASE age = Window
  <2>1. Cardinality(kept) <= Cardinality(Numbered(row))
    BY <1>2, <1>8, FS_Subset
  <2>2. Cardinality(kept) <= Bound - 1
    BY <1>7, <1>8, <1>9, <2>1 DEF Counts
  <2>3. Counts(next, Window, failures)
    BY <1>5, <1>6, <2>2 DEF Counts
  <2> QED BY <1>9, <2>3
<1>10. CASE age = Window - 1
  <2>1. PICK p \in Numbered(row) : p[1] = age
    BY <1>10 DEF Counts
  <2>2. p \in OfWindow(row, age) /\ kept \subseteq OfWindow(row, age) \ {p}
    BY <1>2, <1>8, <1>10, <2>1 DEF OfWindow
  <2>3. /\ OfWindow(row, age) \subseteq Numbered(row)
        /\ Cardinality(OfWindow(row, age)) = failures
    BY <1>10 DEF OfWindow, Counts
  <2>4. /\ IsFiniteSet(OfWindow(row, age) \ {p})
        /\ Cardinality(OfWindow(row, age) \ {p}) = failures - 1
    BY <1>7, <2>2, <2>3, FS_RemoveElement
  <2>5. Cardinality(kept) <= failures - 1
    BY <2>2, <2>4, FS_Subset
  <2>6. Cardinality(kept) <= Bound - 1
    BY <1>7, <1>8, <1>10, <2>5
  <2>7. Counts(next, Window, failures)
    BY <1>5, <1>6, <2>6 DEF Counts
  <2> QED BY <1>10, <2>7
<1>11. CASE age < Window - 1
  <2>1. \A a \in Int, k \in Nat : <<a, k>> \in OfWindow(row, age)
           <=> <<a + 1, k>> \in OfWindow(next, age + 1)
    <3> SUFFICES ASSUME NEW a \in Int, NEW k \in Nat
                 PROVE  <<a, k>> \in OfWindow(row, age)
                          <=> <<a + 1, k>> \in OfWindow(next, age + 1)
      OBVIOUS
    <3>1. <<a, k>> \in kept <=> <<a, k>> \in Numbered(row) /\ a < Window - 1
      BY DEF kept
    <3> QED BY <1>3, <1>11, <3>1 DEF OfWindow
  <2>2. Cardinality(OfWindow(next, age + 1)) = Cardinality(OfWindow(row, age))
    <3>1. /\ OfWindow(row, age) \subseteq Int \X Nat
          /\ OfWindow(next, age + 1) \subseteq Int \X Nat
          /\ IsFiniteSet(OfWindow(row, age))
      BY <1>2, <1>7 DEF OfWindow
    <3> QED BY <2>1, <3>1, AllOlder
  <2>3. PICK p \in Numbered(row) : p[1] = age
    BY <1>11 DEF Counts
  <2>4. \E q \in Numbered(next) : q[1] = age + 1
    <3>1. p = <<p[1], p[2]>> /\ p[2] \in Nat
      BY <1>2
    <3>2. <<age, p[2]>> \in kept
      BY <1>11, <2>3, <3>1 DEF kept
    <3>3. <<age + 1, p[2]>> \in Numbered(next)
      BY <1>3, <3>1, <3>2
    <3> QED BY <3>3
  <2> DEFINE old == {q \in Before(row, age) : q[1] < Window - 1}
  <2>5. \A a \in Int, k \in Nat :
           <<a, k>> \in old <=> <<a + 1, k>> \in Before(next, age + 1)
    <3> SUFFICES ASSUME NEW a \in Int, NEW k \in Nat
                 PROVE  <<a, k>> \in old <=> <<a + 1, k>> \in Before(next, age + 1)
      OBVIOUS
    <3>1. <<a, k>> \in kept <=> <<a, k>> \in Numbered(row) /\ a < Window - 1
      BY DEF kept
    <3> QED BY <1>3, <3>1 DEF Before
  <2>6. /\ old \subseteq Int \X Nat /\ old \subseteq Before(row, age)
        /\ Before(next, age + 1) \subseteq Int \X Nat
        /\ Before(row, age) \subseteq Numbered(row)
    BY <1>2 DEF Before
  <2> HIDE DEF old
  <2>7. Cardinality(Before(next, age + 1)) = Cardinality(old)
    BY <1>7, <2>5, <2>6, AllOlder
  <2>8. Cardinality(old) <= Cardinality(Before(row, age))
    BY <1>7, <2>6, FS_Subset
  <2>9. Cardinality(Before(next, age + 1)) <= Bound - 1
    BY <1>7, <1>11, <2>6, <2>7, <2>8 DEF Counts
  <2>10. age + 1 # Window /\ Cardinality(OfWindow(next, age + 1)) = failures
    BY <1>11, <2>2 DEF Counts
  <2>11. Counts(next, age + 1, failures)
    BY <1>6, <2>4, <2>9, <2>10 DEF Counts
  <2> QED BY <1>11, <2>11
<1> QED BY <1>9, <1>10, <1>11

Counted == \A e \in Emails :
  Counts(recent[e], bucket[e].age, bucket[e].failures)

LEMMA NextCounted ==
  ASSUME ThrottleTypeOK, WindowBound, Counted, [ThrottleNext]_throttleVars
  PROVE  Counted'
<1> USE Limits
<1> SUFFICES ASSUME NEW e \in Emails
             PROVE  Counts(recent'[e], bucket'[e].age, bucket'[e].failures)
  BY DEF Counted
<1>0. /\ Counts(recent[e], bucket[e].age, bucket[e].failures)
      /\ recent[e] \in Rows
      /\ bucket[e].age \in 0 .. Window /\ bucket[e].failures \in Nat
  BY Fields DEF Counted, ThrottleTypeOK, Rows
<1>1. CASE recent'[e] = recent[e] /\ bucket'[e] = bucket[e]
  BY <1>0, <1>1
<1>2. CASE recent'[e] = NoFailures /\ bucket'[e] = NoBucket
  BY <1>2, CountsNone DEF NoBucket
<1>3. ASSUME NEW r \in Requests, Fail(r)
      PROVE  Counts(recent'[e], bucket'[e].age, bucket'[e].failures)
  <2>1. req[r].email \in Emails
    BY <1>3, Fields DEF Fail
  <2>2. CASE req[r].email = e
    <3>1. recent'[e] = Failed(recent[e])
      BY <1>3, <2>1, <2>2 DEF Fail, Failed, ThrottleTypeOK
    <3>2. /\ bucket'[e].age = IF bucket[e].age < Window THEN bucket[e].age ELSE 0
          /\ bucket'[e].failures
               = 1 + IF bucket[e].age < Window THEN bucket[e].failures ELSE 0
      BY <1>3, <2>2 DEF Fail, RecordFailure, Fresh
    <3> QED BY <1>0, <3>1, <3>2, CountsFailure
  <2>3. CASE req[r].email # e
    <3>1. recent'[e] = recent[e]
      BY <1>3, <2>1, <2>3 DEF Fail, ThrottleTypeOK
    <3>2. bucket'[e] = IF Fresh(e) THEN bucket[e] ELSE NoBucket
      BY <1>3, <2>3 DEF Fail, RecordFailure
    <3>3. CASE ~Fresh(e)
      <4>1. bucket[e].age = Window
        BY <1>0, <3>3 DEF Fresh
      <4> QED BY <1>0, <3>1, <3>2, <3>3, <4>1 DEF Counts, NoBucket
    <3> QED BY <1>1, <3>1, <3>2, <3>3
  <2> QED BY <2>2, <2>3
<1>4. ASSUME NEW r \in Requests, Succeed(r)
      PROVE  Counts(recent'[e], bucket'[e].age, bucket'[e].failures)
  BY <1>1, <1>2, <1>4, Fields DEF Succeed, ThrottleTypeOK
<1>5. CASE Tick
  <2>1. /\ recent'[e] = Later(recent[e])
        /\ bucket'[e].age
             = IF bucket[e].age < Window THEN bucket[e].age + 1 ELSE Window
        /\ bucket'[e].failures = bucket[e].failures
    BY <1>5 DEF Tick, Later, Fresh
  <2>2. bucket[e].age < Window => bucket[e].failures <= Bound
    <3>1. Cardinality(InFlight(e)) \in Nat
      BY RequestSets DEF InFlight
    <3> QED BY <1>0, <3>1, BoundType DEF WindowBound, Fresh, Bound
  <2> QED BY <1>0, <2>1, <2>2, CountsTick
<1>6. CASE Restart
  BY <1>2, <1>6 DEF Restart
<1>7. ASSUME NEW r \in Requests, Login(r) \/ StoreSession(r) \/ Abort(r)
      PROVE  Counts(recent'[e], bucket'[e].age, bucket'[e].failures)
  BY <1>1, <1>7 DEF Login, StoreSession, Abort
<1>8. CASE UNCHANGED throttleVars
  BY <1>1, <1>8 DEF throttleVars
<1> QED BY <1>3, <1>4, <1>5, <1>6, <1>7, <1>8 DEF ThrottleNext

LEMMA CountedAlways == ThrottleSpec => []Counted
<1>1. ThrottleInit => Counted
  BY CountsNone DEF ThrottleInit, Counted, NoBucket
<1>2. ThrottleTypeOK /\ WindowBound /\ Counted /\ [ThrottleNext]_throttleVars
        => Counted'
  BY NextCounted
<1> QED BY <1>1, <1>2, ThrottleSafe, PTL DEF ThrottleSpec

\* In a stretch of Window, wherever it begins, no account sees more failures
\* than two windows count, less one, however the attempts are timed.
THEOREM RecentBounded == ThrottleSpec => []RecentBound
<1>1. ThrottleTypeOK /\ WindowBound /\ Counted => RecentBound
  <2> SUFFICES ASSUME ThrottleTypeOK, WindowBound, Counted, NEW e \in Emails
               PROVE  Cardinality(Numbered(recent[e])) <= 2 * Bound - 1
    BY DEF RecentBound, RecentFailures, Bound
  <2> DEFINE row == recent[e]
             age == bucket[e].age
  <2>1. Counts(row, age, bucket[e].failures) /\ age \in 0 .. Window
    BY Fields DEF Counted
  <2>2. /\ IsFiniteSet(Numbered(row)) /\ OfWindow(row, age) \subseteq Numbered(row)
        /\ Before(row, age) \subseteq Numbered(row)
        /\ row \in Rows
    BY <2>1 DEF Counts, OfWindow, Before, ThrottleTypeOK, Rows
  <2>3. /\ IsFiniteSet(OfWindow(row, age)) /\ IsFiniteSet(Before(row, age))
        /\ Cardinality(OfWindow(row, age)) \in Nat
        /\ Cardinality(Before(row, age)) \in Nat
        /\ Cardinality(Numbered(row)) \in Nat
    BY <2>2, FS_Subset, FS_CardinalityType
  <2>4. CASE age = Window
    BY <2>1, <2>3, <2>4, BoundType DEF Counts
  <2>5. CASE age < Window
    <3>1. bucket[e].failures <= Bound
      <4>1. Cardinality(InFlight(e)) \in Nat
        BY RequestSets DEF InFlight
      <4> QED BY <2>5, <4>1, Fields, BoundType DEF WindowBound, Fresh, Bound
    <3>2. /\ Numbered(row) = OfWindow(row, age) \cup Before(row, age)
          /\ OfWindow(row, age) \cap Before(row, age) = {}
      <4>1. \A p \in Numbered(row) : p[1] \in Int
        BY <2>2, NumberedIs
      <4> QED BY <2>1, <4>1 DEF OfWindow, Before
    <3>3. Cardinality(Numbered(row))
            = Cardinality(OfWindow(row, age)) + Cardinality(Before(row, age))
      <4>1. Cardinality(OfWindow(row, age) \cup Before(row, age))
              = Cardinality(OfWindow(row, age)) + Cardinality(Before(row, age))
        BY <2>3, <3>2, TwoParts
      <4> QED BY <3>2, <4>1
    <3>4. /\ Cardinality(OfWindow(row, age)) <= Bound
          /\ Cardinality(Before(row, age)) <= Bound - 1
      BY <2>1, <2>5, <3>1 DEF Counts
    <3> QED BY <2>3, <3>3, <3>4, BoundType
  <2> QED BY <2>1, <2>4, <2>5, Limits
<1> QED BY <1>1, CountedAlways, ThrottleSafe, PTL

\* Whoever is refused has failed MAX_FAILURES times in the last Window and has
\* not signed on since.
THEOREM NobodyThrottledInVain == ThrottleSpec => []JustThrottled
<1>1. ThrottleTypeOK /\ Counted => JustThrottled
  <2> SUFFICES ASSUME ThrottleTypeOK, Counted, NEW e \in Emails, Throttled(e)
               PROVE  Cardinality(Numbered(recent[e])) >= MaxFailures
    BY DEF JustThrottled, RecentFailures
  <2> DEFINE row == recent[e]
             age == bucket[e].age
  <2>1. /\ Counts(row, age, bucket[e].failures)
        /\ age < Window /\ bucket[e].failures \in Nat
        /\ bucket[e].failures >= MaxFailures
    BY Fields, Limits DEF Counted, Throttled, Allowed, Fresh
  <2>2. /\ IsFiniteSet(Numbered(row)) /\ OfWindow(row, age) \subseteq Numbered(row)
        /\ Cardinality(OfWindow(row, age)) = bucket[e].failures
    BY <2>1 DEF Counts, OfWindow
  <2>3. /\ Cardinality(OfWindow(row, age)) <= Cardinality(Numbered(row))
        /\ Cardinality(Numbered(row)) \in Nat
    BY <2>2, FS_Subset, FS_CardinalityType
  <2> QED BY <2>1, <2>2, <2>3, Limits
<1> QED BY <1>1, CountedAlways, ThrottleSafe, PTL
=============================================================================
