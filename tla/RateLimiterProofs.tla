-------------------------- MODULE RateLimiterProofs --------------------------
(***************************************************************************)
(* The rate limiter keeps its budget, and refuses only what exceeds it,    *)
(* for every number of keys and requests and whatever Burst, Period and    *)
(* the times of its clean-up are, as long as a bucket is full again before *)
(* its visitor may be forgotten.                                           *)
(***************************************************************************)
EXTENDS RateLimiter, TLAPS

-----------------------------------------------------------------------------
(***************************************************************************)
(* Arithmetic: what requests cost, and what a bucket holds.                *)
(***************************************************************************)
LEMMA FullNat == Full \in Nat
<1>1. Burst \in Nat /\ Period \in Nat
  BY LimitsAssumption
<1> QED
  BY <1>1 DEF Full

\* What the steps below need of the constants.
LEMMA Limits ==
  /\ Period \in Nat \ {0} /\ SweepEvery \in Nat \ {0}
  /\ EvictAfter \in Nat /\ MaxStall \in Nat
  /\ Full + MaxStall <= EvictAfter
  BY LimitsAssumption DEF Full

LEMMA CostStep ==
  ASSUME NEW i \in Int, NEW j \in Int
  PROVE  /\ Cost(i, j) \in Int
         /\ Cost(i, j + 1) = Cost(i, j) + Period
         /\ Cost(j, j) = Period
<1>1. Period \in Nat
  BY LimitsAssumption
<1>2. Cost(i, j) \in Int
  BY <1>1 DEF Cost
<1>3. Cost(i, j + 1) = Cost(i, j) + Period
  <2> DEFINE n == j - i + 1
  <2>1. n \in Int /\ (j + 1) - i + 1 = n + 1
    OBVIOUS
  <2> HIDE DEF n
  <2>2. (n + 1) * Period = n * Period + Period
    BY <1>1, <2>1
  <2> QED
    BY <2>1, <2>2 DEF Cost, n
<1>4. Cost(j, j) = Period
  <2>1. j - j + 1 = 1
    OBVIOUS
  <2>2. 1 * Period = Period
    BY <1>1
  <2> QED
    BY <2>1, <2>2 DEF Cost
<1> QED
  BY <1>2, <1>3, <1>4

\* A bucket written at or before now holds between nothing and Full.
LEMMA LevelRange ==
  ASSUME now \in Nat, NEW b \in Bucket, b.at <= now
  PROVE  Level(b) \in 0 .. Full
  BY FullNat DEF Level, Bucket

\* A bucket gains one unit in a tick, unless it is full.
LEMMA LevelTicks ==
  ASSUME now \in Nat, now' = now + 1, NEW b \in Bucket, b.at <= now
  PROVE  Level(b)' = IF Level(b) = Full THEN Full ELSE Level(b) + 1
  BY FullNat DEF Level, Bucket

\* What was just written to a bucket is what it holds.
LEMMA LevelWritten ==
  ASSUME now \in Nat, NEW c \in 0 .. Full
  PROVE  Level([credit |-> c, at |-> now]) = c
  BY FullNat DEF Level

\* A bucket that nobody has drawn from for long enough is full.
LEMMA LevelRefills ==
  ASSUME now \in Nat, NEW b \in Bucket, b.at + Full <= now
  PROVE  Level(b) = Full
  BY FullNat DEF Level, Bucket

LEMMA CreditRange ==
  ASSUME LimiterTypeOK, NEW k \in Keys, VisitorOK(k)
  PROVE  /\ Credit(k) \in 0 .. Full
         /\ Known(k) => Current(k) \in Bucket /\ Len(buckets[k]) \in DOMAIN buckets[k]
<1>1. CASE Known(k)
  <2>1. Len(buckets[k]) \in Nat \ {0} /\ buckets[k] \in Seq(Bucket)
    BY <1>1 DEF VisitorOK, Known, LimiterTypeOK
  <2>2. Len(buckets[k]) \in DOMAIN buckets[k] /\ Current(k) \in Bucket
    BY <2>1 DEF Current
  <2>3. Level(Current(k)) \in 0 .. Full
    BY <1>1, <2>2, LevelRange DEF VisitorOK, LimiterTypeOK
  <2> QED
    BY <1>1, <2>2, <2>3 DEF Credit
<1>2. CASE ~Known(k)
  BY <1>2, FullNat DEF Credit
<1> QED
  BY <1>1, <1>2

-----------------------------------------------------------------------------
LEMMA InitLimiterIInv == LimiterInit => LimiterIInv
<1> SUFFICES ASSUME LimiterInit PROVE LimiterIInv
  OBVIOUS
<1>1. LimiterTypeOK /\ ClockOK
  BY LimitsAssumption DEF LimiterInit, LimiterTypeOK, ClockOK, Unknown, Idle
<1>2. ASSUME NEW k \in Keys PROVE VisitorOK(k) /\ BudgetOK(k)
  <2>1. ~Known(k)
    BY DEF LimiterInit, Known, Unknown
  <2> QED
    BY <2>1 DEF LimiterInit, VisitorOK, BudgetOK, Credit
<1>3. ASSUME NEW r \in Requests PROVE RequestOK(r)
  BY DEF LimiterInit, RequestOK
<1>4. WithinBudget
  BY DEF LimiterInit, WithinBudget
<1> QED
  BY <1>1, <1>2, <1>3, <1>4 DEF LimiterIInv

-----------------------------------------------------------------------------
(***************************************************************************)
(* getVisitor.                                                             *)
(***************************************************************************)
LEMMA GetVisitorStep ==
  ASSUME LimiterIInv, NEW r \in Requests, NEW k \in Keys, GetVisitor(r, k)
  PROVE  LimiterIInv'
<1> USE Limits
<1> DEFINE n == IF Known(k) THEN visitors[k].bucket ELSE Len(buckets[k]) + 1
<1>0. /\ LimiterTypeOK /\ ClockOK /\ WithinBudget
      /\ VisitorOK(k)
      /\ visitors' = [visitors EXCEPT ![k] = [bucket |-> n, seen |-> now]]
      /\ requests' = [requests EXCEPT ![r] = [key |-> k, bucket |-> n, since |-> now]]
      /\ buckets' = IF Known(k) THEN buckets
                    ELSE [buckets EXCEPT ![k] = Append(@, [credit |-> Full, at |-> now])]
      /\ now' = now /\ allowed' = allowed /\ sweepAt' = sweepAt
  BY DEF LimiterIInv, GetVisitor
<1>1. /\ now \in Nat /\ sweepAt \in Nat
      /\ buckets \in [Keys -> Seq(Bucket)]
      /\ visitors \in [Keys -> [bucket : Nat, seen : Nat]]
      /\ requests \in [Requests -> [key : Keys \cup {0}, bucket : Nat, since : Nat]]
      /\ allowed \in [Keys -> Seq(Nat)]
  BY <1>0 DEF LimiterTypeOK
<1>2. [credit |-> Full, at |-> now] \in Bucket
  BY <1>1, FullNat DEF Bucket
<1>3. n \in Nat \ {0} /\ n = Len(buckets'[k])
  <2>1. CASE Known(k)
    BY <1>0, <1>1, <2>1 DEF Known, VisitorOK
  <2>2. CASE ~Known(k)
    <3>1. buckets'[k] = Append(buckets[k], [credit |-> Full, at |-> now])
      BY <1>0, <1>1, <2>2
    <3> QED
      BY <1>1, <1>2, <2>2, <3>1
  <2> QED
    BY <2>1, <2>2
<1> HIDE DEF n
<1>4. LimiterTypeOK' /\ ClockOK'
  <2>1. buckets' \in [Keys -> Seq(Bucket)]
    BY <1>0, <1>1, <1>2
  <2> QED
    BY <1>0, <1>1, <1>3, <2>1 DEF LimiterTypeOK, ClockOK, Bucket
<1>5. Known(k)' /\ visitors'[k] = [bucket |-> n, seen |-> now]
  BY <1>0, <1>1, <1>3 DEF Known
<1>6. /\ Level(Current(k))' = Credit(k)
      /\ Current(k)'.at <= now /\ Current(k)'.at <= now + MaxStall
  <2>1. CASE Known(k)
    <3>1. Current(k)' = Current(k)
      BY <1>0, <2>1 DEF Current
    <3>2. Current(k).at <= now /\ Current(k) \in Bucket
      BY <1>0, <2>1, CreditRange DEF VisitorOK
    <3> QED
      BY <1>0, <1>1, <2>1, <3>1, <3>2 DEF Credit, Level, Bucket
  <2>2. CASE ~Known(k)
    <3>1. Current(k)' = [credit |-> Full, at |-> now]
      BY <1>0, <1>1, <1>2, <2>2 DEF Current
    <3>2. Level([credit |-> Full, at |-> now]) = Full
      BY <1>1, FullNat, LevelWritten
    <3> QED
      BY <1>0, <1>1, <2>2, <3>1, <3>2 DEF Credit, Level
  <2> QED
    BY <2>1, <2>2
<1>7. ASSUME NEW j \in Keys PROVE VisitorOK(j)' /\ BudgetOK(j)'
  <2>0. VisitorOK(j) /\ BudgetOK(j)
    BY DEF LimiterIInv
  <2>1. CASE j = k
    <3>1. VisitorOK(k)'
      BY <1>0, <1>1, <1>3, <1>5, <1>6 DEF VisitorOK, ClockOK
    <3>2. Credit(k)' = Credit(k)
      BY <1>5, <1>6 DEF Credit
    <3> QED
      BY <1>0, <2>0, <2>1, <3>1, <3>2 DEF BudgetOK, Yields, LeftOver
  <2>2. CASE j # k
    <3>1. visitors'[j] = visitors[j] /\ buckets'[j] = buckets[j]
      BY <1>0, <1>1, <2>2
    <3> QED
      BY <1>0, <2>0, <3>1
         DEF VisitorOK, BudgetOK, Known, Current, Credit, Level, Yields, LeftOver
  <2> QED
    BY <2>1, <2>2
<1>8. ASSUME NEW s \in Requests PROVE RequestOK(s)'
  <2>0. RequestOK(s)
    BY DEF LimiterIInv
  <2>1. CASE s = r
    <3>1. requests'[s] = [key |-> k, bucket |-> n, since |-> now]
      BY <1>0, <1>1, <2>1
    <3> QED
      BY <1>0, <1>1, <1>5, <3>1 DEF RequestOK
  <2>2. CASE s # r
    <3>1. requests'[s] = requests[s]
      BY <1>0, <1>1, <2>2
    <3>2. CASE requests[s].key = k /\ requests[s] # Idle
      <4>1. Known(k) /\ n = visitors[k].bucket
        BY <2>0, <3>2 DEF RequestOK, n
      <4>2. requests[s].since <= now
        BY <1>0, <1>1, <2>0, <3>2 DEF RequestOK, VisitorOK
      <4> QED
        BY <1>0, <1>5, <2>0, <3>1, <3>2, <4>1, <4>2 DEF RequestOK
    <3>3. CASE requests[s].key # k /\ requests[s] # Idle
      <4>1. visitors'[requests[s].key] = visitors[requests[s].key]
        BY <1>0, <1>1, <2>0, <3>3 DEF RequestOK
      <4> QED
        BY <1>0, <2>0, <3>1, <3>3, <4>1 DEF RequestOK, Known
    <3> QED
      BY <3>1, <3>2, <3>3 DEF RequestOK
  <2> QED
    BY <2>1, <2>2
<1>9. WithinBudget'
  BY <1>0 DEF WithinBudget
<1> QED
  BY <1>4, <1>7, <1>8, <1>9 DEF LimiterIInv

-----------------------------------------------------------------------------
(***************************************************************************)
(* Allow: the token comes out of what the budget leaves over.              *)
(***************************************************************************)
LEMMA AllowStep ==
  ASSUME LimiterIInv, NEW r \in Requests, Allow(r)
  PROVE  LimiterIInv'
<1> USE Limits
<1>0. LimiterTypeOK /\ ClockOK /\ WithinBudget /\ RequestOK(r) /\ requests[r] # Idle
  BY DEF LimiterIInv, Allow
<1>1. /\ now \in Nat /\ sweepAt \in Nat
      /\ buckets \in [Keys -> Seq(Bucket)]
      /\ visitors \in [Keys -> [bucket : Nat, seen : Nat]]
      /\ requests \in [Requests -> [key : Keys \cup {0}, bucket : Nat, since : Nat]]
      /\ allowed \in [Keys -> Seq(Nat)]
  BY <1>0 DEF LimiterTypeOK
<1>2. PICK k \in Keys : k = requests[r].key
  BY <1>0 DEF RequestOK
<1>3. VisitorOK(k) /\ BudgetOK(k) /\ Known(k) /\ requests[r].bucket = Len(buckets[k])
  BY <1>0, <1>2 DEF LimiterIInv, RequestOK, VisitorOK
<1>4. PICK b \in Bucket :
        b = Current(k) /\ Len(buckets[k]) \in DOMAIN buckets[k] /\ Level(b) \in 0 .. Full
  BY <1>0, <1>3, CreditRange DEF Credit
<1>5. /\ Level(b) >= Period
      /\ buckets' = [buckets EXCEPT ![k][Len(buckets[k])] =
                        [credit |-> Level(b) - Period, at |-> now]]
      /\ allowed' = [allowed EXCEPT ![k] = Append(@, now)]
      /\ requests' = [requests EXCEPT ![r] = Idle]
      /\ now' = now /\ visitors' = visitors /\ sweepAt' = sweepAt
  BY <1>2, <1>3, <1>4 DEF Allow, Current
<1>6. PICK c \in Bucket :
        /\ c = [credit |-> Level(b) - Period, at |-> now]
        /\ Level(c) = Level(b) - Period /\ Level(b) - Period \in 0 .. Full
  <2>1. Level(b) - Period \in 0 .. Full
    BY <1>4, <1>5, FullNat
  <2> QED
    BY <1>1, <2>1, LevelWritten DEF Bucket
<1>7. PICK m \in Nat : m = Len(allowed[k])
  BY <1>1
<1>8. /\ buckets'[k] = [buckets[k] EXCEPT ![Len(buckets[k])] = c]
      /\ Len(buckets'[k]) = Len(buckets[k])
      /\ Current(k)' = c
  BY <1>1, <1>4, <1>5, <1>6 DEF Current
<1>9. /\ allowed'[k] = Append(allowed[k], now) /\ Len(allowed'[k]) = m + 1
      /\ allowed'[k][m + 1] = now
      /\ \A i \in 1 .. m : allowed'[k][i] = allowed[k][i] /\ allowed[k][i] \in Nat
      /\ Len(allowed[k]) = m
  <2>1. allowed'[k] = Append(allowed[k], now) /\ allowed[k] \in Seq(Nat)
    BY <1>1, <1>5
  <2> QED
    BY <1>1, <1>7, <2>1
<1>10. LimiterTypeOK' /\ ClockOK'
  <2>1. buckets' \in [Keys -> Seq(Bucket)]
    BY <1>1, <1>4, <1>5, <1>6, <1>7
  <2>2. allowed' \in [Keys -> Seq(Nat)]
    BY <1>1, <1>5, <1>7
  <2>3. requests' \in [Requests -> [key : Keys \cup {0}, bucket : Nat, since : Nat]]
    BY <1>1, <1>5 DEF Idle
  <2> QED
    BY <1>0, <1>1, <1>5, <2>1, <2>2, <2>3 DEF LimiterTypeOK, ClockOK, Bucket
<1>11. Credit(k) = Level(b) /\ Credit(k)' = Level(b) - Period
  <2>1. Level(c)' = Level(c)
    BY <1>5 DEF Level
  <2> QED
    BY <1>3, <1>4, <1>5, <1>6, <1>8, <2>1 DEF Credit, Known
<1>12. ASSUME NEW i \in 1 .. m
       PROVE  /\ Cost(i, m + 1) = Cost(i, m) + Period /\ Cost(i, m) \in Int
              /\ Yields(k, i)' = Yields(k, i)
              /\ LeftOver(k, i)' = LeftOver(k, i)
  <2>1. Cost(i, m + 1) = Cost(i, m) + Period /\ Cost(i, m) \in Int
    <3>1. i \in Int /\ m \in Int
      OBVIOUS
    <3> QED
      BY <3>1, CostStep
  <2>2. LeftOver(k, i)' = LeftOver(k, i)
    BY <1>5, <1>9 DEF LeftOver, Full
  <2>3. Yields(k, i)' = Cost(i, m + 1) + (Level(b) - Period)
    BY <1>9, <1>11 DEF Yields, Cost
  <2>4. Yields(k, i) = Cost(i, m) + Level(b)
    BY <1>9, <1>11 DEF Yields
  <2> QED
    BY <1>4, <2>1, <2>2, <2>3, <2>4, FullNat
<1>13. /\ Yields(k, m + 1)' = Level(b) /\ LeftOver(k, m + 1)' = Full
       /\ Cost(m + 1, m + 1) = Period
  <2>1. Cost(m + 1, m + 1) = Period
    <3>1. m + 1 \in Int
      OBVIOUS
    <3> QED
      BY <3>1, CostStep
  <2>2. Yields(k, m + 1)' = Cost(m + 1, m + 1) + (Level(b) - Period)
    BY <1>9, <1>11 DEF Yields, Cost
  <2>3. LeftOver(k, m + 1)' = Full + (now - now)
    BY <1>5, <1>9 DEF LeftOver, Full
  <2> QED
    BY <1>1, <1>4, <2>1, <2>2, <2>3, FullNat
<1>14. ASSUME NEW j \in Keys PROVE VisitorOK(j)' /\ BudgetOK(j)'
  <2>0. VisitorOK(j) /\ BudgetOK(j)
    BY DEF LimiterIInv
  <2>1. CASE j = k
    <3>1. VisitorOK(k)'
      <4>1. c.at = now
        BY <1>6
      <4>2. now <= visitors[k].seen + MaxStall
        BY <1>0, <1>1, <1>2 DEF RequestOK
      <4>3. now' = now /\ visitors' = visitors /\ sweepAt' = sweepAt
        BY <1>5
      <4> QED
        BY <1>1, <1>3, <1>8, <4>1, <4>2, <4>3 DEF VisitorOK, Known
    <3>2. \A i \in 1 .. m + 1 : Yields(k, i)' <= LeftOver(k, i)'
      <4>1. ASSUME NEW i \in 1 .. m PROVE Yields(k, i)' <= LeftOver(k, i)'
        BY <1>3, <1>9, <1>12 DEF BudgetOK
      <4>2. Yields(k, m + 1)' <= LeftOver(k, m + 1)'
        BY <1>4, <1>13, FullNat
      <4>3. \A i \in 1 .. m + 1 : i \in 1 .. m \/ i = m + 1
        BY <1>7
      <4> QED
        BY <4>1, <4>2, <4>3
    <3>3. \E i \in 1 .. m + 1 : Yields(k, i)' = LeftOver(k, i)'
      <4>1. CASE Credit(k) = Full
        <5>1. m + 1 \in 1 .. m + 1 /\ Yields(k, m + 1)' = LeftOver(k, m + 1)'
          BY <1>7, <1>11, <1>13, <4>1
        <5> QED
          BY <5>1
      <4>2. CASE \E i \in 1 .. m : Yields(k, i) = LeftOver(k, i)
        <5>1. PICK i \in 1 .. m : Yields(k, i) = LeftOver(k, i)
          BY <4>2
        <5>2. i \in 1 .. m + 1 /\ Yields(k, i)' = LeftOver(k, i)'
          BY <1>7, <1>12, <5>1
        <5> QED
          BY <5>2
      <4> QED
        BY <1>3, <1>9, <4>1, <4>2 DEF BudgetOK
    <3>4. BudgetOK(k)'
      BY <1>9, <3>2, <3>3 DEF BudgetOK
    <3> QED
      BY <2>1, <3>1, <3>4
  <2>2. CASE j # k
    <3>1. buckets'[j] = buckets[j] /\ allowed'[j] = allowed[j]
      BY <1>1, <1>5, <2>2
    <3> QED
      BY <1>5, <2>0, <3>1
         DEF VisitorOK, BudgetOK, Known, Current, Credit, Level, Yields, LeftOver
  <2> QED
    BY <2>1, <2>2
<1>15. ASSUME NEW s \in Requests PROVE RequestOK(s)'
  <2>0. RequestOK(s)
    BY DEF LimiterIInv
  <2> QED
    BY <1>1, <1>5, <2>0 DEF RequestOK, Known
<1>16. WithinBudget'
  <2> SUFFICES ASSUME NEW x \in Keys, NEW j \in 1 .. Len(allowed'[x]), NEW i \in 1 .. j
               PROVE  Cost(i, j) <= Full + (allowed'[x][j] - allowed'[x][i])
    BY DEF WithinBudget, Cost, Full
  <2>1. CASE x # k
    <3>1. allowed'[x] = allowed[x]
      BY <1>1, <1>5, <2>1
    <3> QED
      BY <1>0, <3>1 DEF WithinBudget
  <2>2. CASE x = k /\ j \in 1 .. m
    <3>1. i \in 1 .. m /\ allowed'[k][j] = allowed[k][j] /\ allowed'[k][i] = allowed[k][i]
      BY <1>7, <1>9, <2>2
    <3>2. Cost(i, j) <= Full + (allowed[k][j] - allowed[k][i])
      BY <1>0, <1>7, <1>9, <2>2 DEF WithinBudget
    <3> QED
      BY <2>2, <3>1, <3>2
  <2>3. CASE x = k /\ j = m + 1 /\ i \in 1 .. m
    <3>1. Cost(i, m) + Level(b) <= Full + (now - allowed[k][i])
      BY <1>3, <1>9, <1>11, <2>3 DEF BudgetOK, Yields, LeftOver
    <3>2. Cost(i, m + 1) = Cost(i, m) + Period /\ Cost(i, m) \in Int
      BY <1>12, <2>3
    <3>3. Level(b) \in Nat /\ Level(b) >= Period /\ allowed[k][i] \in Nat
      BY <1>4, <1>5, <1>9, <2>3, FullNat
    <3>4. Cost(i, m + 1) <= Full + (now - allowed[k][i])
      <4>1. ASSUME NEW p \in Int, NEW q \in Int, NEW v \in Int, NEW w \in Int,
                   p + v <= w, v >= Period, q = p + Period
            PROVE  q <= w
        BY <4>1
      <4>2. Full + (now - allowed[k][i]) \in Int
        BY <1>1, <3>3, FullNat, SMTT(60)
      <4>3. Cost(i, m + 1) \in Int
        BY <3>2
      <4>4. Level(b) \in Int
        BY <3>3
      <4> QED
        BY <3>1, <3>2, <3>3, <4>1, <4>2, <4>3, <4>4
    <3> QED
      BY <1>9, <2>3, <3>4
  <2>4. CASE x = k /\ j = m + 1 /\ i = m + 1
    BY <1>1, <1>4, <1>5, <1>9, <1>13, <2>4, FullNat
  <2>5. (x = k) => (j \in 1 .. m \/ (j = m + 1 /\ (i \in 1 .. m \/ i = m + 1)))
    BY <1>7, <1>9
  <2> QED
    BY <2>1, <2>2, <2>3, <2>4, <2>5
<1> QED
  BY <1>10, <1>14, <1>15, <1>16 DEF LimiterIInv

-----------------------------------------------------------------------------
(***************************************************************************)
(* A refusal changes nothing but the request.                              *)
(***************************************************************************)
LEMMA RefuseStep ==
  ASSUME LimiterIInv, NEW r \in Requests, Refuse(r)
  PROVE  LimiterIInv'
<1>1. /\ requests' = [requests EXCEPT ![r] = Idle]
      /\ now' = now /\ buckets' = buckets /\ visitors' = visitors
      /\ allowed' = allowed /\ sweepAt' = sweepAt
  BY DEF Refuse
<1>2. LimiterTypeOK' /\ ClockOK'
  BY <1>1 DEF LimiterIInv, LimiterTypeOK, ClockOK, Idle, Bucket, Full
<1>3. \A k \in Keys : VisitorOK(k)' /\ BudgetOK(k)'
  BY <1>1 DEF LimiterIInv, VisitorOK, BudgetOK, Known, Current, Credit, Level,
              Yields, LeftOver, Cost, Full
<1>4. \A s \in Requests : RequestOK(s)'
  BY <1>1 DEF LimiterIInv, LimiterTypeOK, RequestOK, Known
<1>5. WithinBudget'
  BY <1>1 DEF LimiterIInv, WithinBudget, Cost, Full
<1> QED
  BY <1>2, <1>3, <1>4, <1>5 DEF LimiterIInv

(***************************************************************************)
(* cleanup: whom it forgets has no request under way, and a full bucket.   *)
(***************************************************************************)
LEMMA CleanupStep ==
  ASSUME LimiterIInv, Cleanup
  PROVE  LimiterIInv'
<1> USE Limits, FullNat
<1>0. LimiterTypeOK /\ ClockOK /\ WithinBudget
  BY DEF LimiterIInv
<1>1. /\ now \in Nat /\ sweepAt \in Nat
      /\ buckets \in [Keys -> Seq(Bucket)]
      /\ visitors \in [Keys -> [bucket : Nat, seen : Nat]]
      /\ requests \in [Requests -> [key : Keys \cup {0}, bucket : Nat, since : Nat]]
      /\ allowed \in [Keys -> Seq(Nat)]
  BY <1>0 DEF LimiterTypeOK
<1>2. /\ visitors' = [k \in Keys |-> IF Stale(visitors[k]) THEN Unknown ELSE visitors[k]]
      /\ now = sweepAt /\ sweepAt' = now + SweepEvery
      /\ now' = now /\ buckets' = buckets /\ requests' = requests /\ allowed' = allowed
  BY DEF Cleanup
<1>3. LimiterTypeOK' /\ ClockOK'
  <2>1. visitors' \in [Keys -> [bucket : Nat, seen : Nat]]
    BY <1>1, <1>2 DEF Unknown
  <2>2. sweepAt' \in Nat /\ ClockOK'
    BY <1>1, <1>2 DEF ClockOK
  <2>3. LimiterTypeOK'
    BY <1>1, <1>2, <2>1, <2>2 DEF LimiterTypeOK, Bucket, Full
  <2> QED
    BY <2>2, <2>3
<1>4. ASSUME NEW k \in Keys, Stale(visitors[k])
      PROVE  /\ visitors'[k] = Unknown /\ ~Known(k)'
             /\ Credit(k) = Full /\ Credit(k)' = Full
  <2>1. VisitorOK(k) /\ Known(k) /\ now - visitors[k].seen > EvictAfter
    BY <1>4 DEF LimiterIInv, Stale, Known
  <2>2. Current(k) \in Bucket
    BY <1>0, <2>1, CreditRange
  <2>3. Current(k).at + Full <= now
    <3>1. Current(k).at \in Nat /\ visitors[k].seen \in Nat
      BY <1>1, <2>2 DEF Bucket
    <3> QED
      BY <1>1, <2>1, <3>1 DEF VisitorOK
  <2>4. Level(Current(k)) = Full
    BY <1>1, <2>2, <2>3, LevelRefills
  <2>5. visitors'[k] = Unknown /\ ~Known(k)'
    BY <1>2, <1>4 DEF Known, Unknown
  <2> QED
    BY <2>1, <2>4, <2>5 DEF Credit, Full
<1>5. ASSUME NEW k \in Keys, ~Stale(visitors[k])
      PROVE  /\ visitors'[k] = visitors[k] /\ Known(k)' = Known(k)
             /\ Credit(k)' = Credit(k)
  BY <1>2, <1>5 DEF Known, Credit, Level, Current, Full
<1>6. ASSUME NEW k \in Keys PROVE Credit(k)' = Credit(k)
  BY <1>4, <1>5
<1>7. ASSUME NEW k \in Keys PROVE VisitorOK(k)' /\ BudgetOK(k)'
  <2>0. VisitorOK(k) /\ BudgetOK(k)
    BY DEF LimiterIInv
  <2>1. BudgetOK(k)'
    BY <1>2, <1>6, <2>0 DEF BudgetOK, Yields, LeftOver, Cost, Full
  <2>2. CASE Stale(visitors[k])
    BY <1>4, <2>1, <2>2 DEF VisitorOK
  <2>3. CASE ~Stale(visitors[k])
    <3>1. Known(k) => sweepAt' <= visitors[k].seen + EvictAfter + SweepEvery
      BY <1>1, <1>2, <2>3 DEF Stale, Known
    <3> QED
      BY <1>2, <1>5, <2>0, <2>1, <2>3, <3>1 DEF VisitorOK, Current
  <2> QED
    BY <2>2, <2>3
<1>8. ASSUME NEW r \in Requests PROVE RequestOK(r)'
  <2> SUFFICES ASSUME requests[r] # Idle PROVE RequestOK(r)'
    BY <1>2 DEF RequestOK
  <2>1. RequestOK(r) /\ requests[r].key \in Keys
    BY DEF LimiterIInv, RequestOK
  <2>2. ~Stale(visitors[requests[r].key])
    BY <1>1, <2>1 DEF RequestOK, Stale
  <2> QED
    BY <1>2, <1>5, <2>1, <2>2 DEF RequestOK
<1>9. WithinBudget'
  BY <1>0, <1>2 DEF WithinBudget, Cost, Full
<1> QED
  BY <1>3, <1>7, <1>8, <1>9 DEF LimiterIInv

(***************************************************************************)
(* Time: a bucket gains at most what the budget does.                      *)
(***************************************************************************)
LEMMA TickStep ==
  ASSUME LimiterIInv, Tick
  PROVE  LimiterIInv'
<1> USE Limits, FullNat
<1>0. LimiterTypeOK /\ ClockOK /\ WithinBudget
  BY DEF LimiterIInv
<1>1. /\ now \in Nat /\ sweepAt \in Nat
      /\ buckets \in [Keys -> Seq(Bucket)]
      /\ visitors \in [Keys -> [bucket : Nat, seen : Nat]]
      /\ requests \in [Requests -> [key : Keys \cup {0}, bucket : Nat, since : Nat]]
      /\ allowed \in [Keys -> Seq(Nat)]
  BY <1>0 DEF LimiterTypeOK
<1>2. /\ now' = now + 1 /\ now < sweepAt
      /\ sweepAt' = sweepAt /\ visitors' = visitors /\ buckets' = buckets
      /\ requests' = requests /\ allowed' = allowed
      /\ \A r \in Requests : requests[r] # Idle => now - requests[r].since < MaxStall
  BY DEF Tick
<1>3. LimiterTypeOK' /\ ClockOK'
  <2>1. now' \in Nat /\ ClockOK'
    BY <1>0, <1>1, <1>2 DEF ClockOK
  <2>2. LimiterTypeOK'
    BY <1>1, <1>2, <2>1 DEF LimiterTypeOK, Bucket, Full
  <2> QED
    BY <2>1, <2>2
<1>4. ASSUME NEW k \in Keys
      PROVE  /\ Credit(k) \in 0 .. Full
             /\ Credit(k)' = IF Credit(k) = Full THEN Full ELSE Credit(k) + 1
  <2>0. VisitorOK(k) /\ Known(k)' = Known(k) /\ Current(k)' = Current(k)
    BY <1>2 DEF LimiterIInv, Known, Current
  <2>1. Credit(k) \in 0 .. Full
    BY <1>0, <2>0, CreditRange
  <2>2. CASE Known(k)
    <3>1. PICK b \in Bucket : b = Current(k) /\ b.at <= now
      BY <1>0, <2>0, <2>2, CreditRange DEF VisitorOK
    <3>2. Level(b)' = IF Level(b) = Full THEN Full ELSE Level(b) + 1
      BY <1>1, <1>2, <3>1, LevelTicks
    <3>3. Credit(k) = Level(b) /\ Credit(k)' = Level(b)'
      BY <2>0, <2>2, <3>1 DEF Credit, Level, Full
    <3> QED
      BY <2>1, <3>2, <3>3
  <2>3. CASE ~Known(k)
    BY <2>0, <2>1, <2>3 DEF Credit, Full
  <2> QED
    BY <2>2, <2>3
<1>5. ASSUME NEW k \in Keys, NEW i \in 1 .. Len(allowed[k])
      PROVE  /\ Yields(k, i) \in Int /\ LeftOver(k, i) \in Int
             /\ LeftOver(k, i)' = LeftOver(k, i) + 1
             /\ Yields(k, i)' = Yields(k, i) + (Credit(k)' - Credit(k))
  <2>1. Cost(i, Len(allowed[k])) \in Int
    <3>1. i \in Int /\ Len(allowed[k]) \in Int
      BY <1>1
    <3> QED
      BY <3>1, CostStep
  <2>2. allowed[k][i] \in Nat
    BY <1>1
  <2>3. LeftOver(k, i) \in Int /\ LeftOver(k, i)' = LeftOver(k, i) + 1
    <3>1. LeftOver(k, i) = Full + (now - allowed[k][i])
      BY DEF LeftOver
    <3>2. LeftOver(k, i)' = Full + ((now + 1) - allowed[k][i])
      BY <1>2 DEF LeftOver, Full
    <3> QED
      BY <1>1, <2>2, <3>1, <3>2, SMTT(60)
  <2>4. Yields(k, i) = Cost(i, Len(allowed[k])) + Credit(k)
    BY DEF Yields
  <2>5. Yields(k, i)' = Cost(i, Len(allowed[k])) + Credit(k)'
    BY <1>2 DEF Yields, Cost
  <2>6. Credit(k) \in Int /\ Credit(k)' \in Int
    BY <1>4
  <2> QED
    BY <2>1, <2>3, <2>4, <2>5, <2>6
<1>6. ASSUME NEW k \in Keys PROVE VisitorOK(k)' /\ BudgetOK(k)'
  <2>0. VisitorOK(k) /\ BudgetOK(k)
    BY DEF LimiterIInv
  <2>1. VisitorOK(k)'
    <3> SUFFICES ASSUME Known(k) PROVE VisitorOK(k)'
      BY <1>2 DEF VisitorOK, Known
    <3>1. Current(k) \in Bucket /\ Current(k)' = Current(k)
      BY <1>0, <1>2, <2>0, CreditRange DEF Current
    <3>2. Current(k).at \in Nat /\ visitors[k].seen \in Nat
      BY <1>1, <3>1 DEF Bucket
    <3> QED
      BY <1>1, <1>2, <2>0, <3>1, <3>2 DEF VisitorOK, Known
  <2>2. \A i \in 1 .. Len(allowed[k]) : Yields(k, i)' <= LeftOver(k, i)'
    <3> TAKE i \in 1 .. Len(allowed[k])
    <3>1. Yields(k, i) <= LeftOver(k, i)
      BY <2>0 DEF BudgetOK
    <3>2. Credit(k)' - Credit(k) \in {0, 1}
      BY <1>4
    <3> QED
      BY <1>5, <3>1, <3>2
  <2>3. CASE Credit(k)' = Full
    BY <1>2, <2>1, <2>2, <2>3 DEF BudgetOK, Full
  <2>4. CASE Credit(k)' # Full
    <3>1. Credit(k) # Full /\ Credit(k)' - Credit(k) = 1
      BY <1>4, <2>4
    <3>2. PICK i \in 1 .. Len(allowed[k]) : Yields(k, i) = LeftOver(k, i)
      BY <2>0, <3>1 DEF BudgetOK
    <3>3. Yields(k, i)' = LeftOver(k, i)'
      BY <1>5, <3>1, <3>2
    <3> QED
      BY <1>2, <2>1, <2>2, <3>3 DEF BudgetOK
  <2> QED
    BY <2>1, <2>3, <2>4, <2>2 DEF BudgetOK
<1>7. ASSUME NEW r \in Requests PROVE RequestOK(r)'
  <2>1. RequestOK(r)
    BY DEF LimiterIInv
  <2> QED
    BY <1>1, <1>2, <2>1 DEF RequestOK, Known
<1>8. WithinBudget'
  BY <1>0, <1>2 DEF WithinBudget, Cost, Full
<1> QED
  BY <1>3, <1>6, <1>7, <1>8 DEF LimiterIInv

-----------------------------------------------------------------------------
LEMMA LimiterIInvStep == LimiterIInv /\ [LimiterNext]_limiterVars => LimiterIInv'
<1> SUFFICES ASSUME LimiterIInv, [LimiterNext]_limiterVars PROVE LimiterIInv'
  OBVIOUS
<1>1. ASSUME NEW r \in Requests, NEW k \in Keys, GetVisitor(r, k) PROVE LimiterIInv'
  BY <1>1, GetVisitorStep
<1>2. ASSUME NEW r \in Requests, Allow(r) PROVE LimiterIInv'
  BY <1>2, AllowStep
<1>3. ASSUME NEW r \in Requests, Refuse(r) PROVE LimiterIInv'
  BY <1>3, RefuseStep
<1>4. CASE Cleanup
  BY <1>4, CleanupStep
<1>5. CASE Tick
  BY <1>5, TickStep
<1>6. CASE UNCHANGED limiterVars
  BY <1>6, ZenonT(60) DEF limiterVars, LimiterIInv, LimiterTypeOK, ClockOK, VisitorOK, BudgetOK,
              RequestOK, WithinBudget, Known, Current, Credit, Level, Yields, LeftOver,
              Cost, Full, Bucket
<1> QED
  BY <1>1, <1>2, <1>3, <1>4, <1>5, <1>6 DEF LimiterNext

(***************************************************************************)
(* The invariant the theorems below rest on.                               *)
(***************************************************************************)
THEOREM LimiterInductive == LimiterSpec => []LimiterIInv
  BY InitLimiterIInv, LimiterIInvStep, PTL DEF LimiterSpec

(***************************************************************************)
(* No key is let through more often than Burst and its rate allow, over    *)
(* any stretch of time, however visitors are forgotten and requests        *)
(* overlap (getVisitor, cleanup and Middleware).                           *)
(***************************************************************************)
THEOREM BudgetKept == LimiterSpec => []WithinBudget
<1>1. LimiterIInv => WithinBudget
  BY DEF LimiterIInv
<1> QED
  BY <1>1, LimiterInductive, PTL

(***************************************************************************)
(* The map holds no visitor that has been idle for longer than the two     *)
(* times of the clean-up together (cleanup).                               *)
(***************************************************************************)
THEOREM IdleAreForgotten == LimiterSpec => []ForgetsTheIdle
<1>1. LimiterIInv => ForgetsTheIdle
  <2> SUFFICES ASSUME LimiterIInv, NEW k \in Keys, Known(k)
               PROVE  now - visitors[k].seen <= EvictAfter + SweepEvery
    BY DEF ForgetsTheIdle
  <2>1. /\ now \in Nat /\ sweepAt \in Nat /\ visitors[k].seen \in Nat
        /\ now <= sweepAt /\ sweepAt <= visitors[k].seen + EvictAfter + SweepEvery
    BY DEF LimiterIInv, LimiterTypeOK, ClockOK, VisitorOK
  <2> QED
    BY <2>1, Limits
<1> QED
  BY <1>1, LimiterInductive, PTL

(***************************************************************************)
(* A request is turned away only when letting it through would break the   *)
(* budget of a stretch that ends now (Middleware).                         *)
(***************************************************************************)
THEOREM RefusalsAreDue == LimiterSpec => RefusedOverBudget
<1> DEFINE Due(r) ==
      (requests[r] # Idle /\ requests'[r] = Idle /\ allowed' = allowed) =>
        \E i \in 1 .. Len(allowed[requests[r].key]) :
          Cost(i, Len(allowed[requests[r].key])) + Period
            > Full + (now - allowed[requests[r].key][i])
<1>1. ASSUME LimiterIInv, NEW r \in Requests, Refuse(r) PROVE Due(r)
  <2>1. PICK k \in Keys : /\ k = requests[r].key /\ Known(k)
                          /\ requests[r].bucket = Len(buckets[k])
                          /\ VisitorOK(k) /\ BudgetOK(k)
    BY <1>1 DEF LimiterIInv, RequestOK, Refuse, VisitorOK
  <2>2. Credit(k) < Period /\ Credit(k) \in 0 .. Full
    <3>1. Credit(k) = Level(buckets[k][requests[r].bucket])
      BY <2>1 DEF Credit, Current
    <3>2. Credit(k) \in 0 .. Full
      BY <1>1, <2>1, CreditRange DEF LimiterIInv
    <3> QED
      BY <1>1, <2>1, <3>1, <3>2 DEF Refuse
  <2>3. Credit(k) # Full
    <3>1. Period <= Full
      <4>1. PICK n \in Nat : Burst = n + 1
        <5>1. Burst - 1 \in Nat /\ Burst = (Burst - 1) + 1
          BY LimitsAssumption
        <5> QED
          BY <5>1
      <4>2. Full = n * Period + Period /\ n * Period \in Nat
        BY <4>1, LimitsAssumption DEF Full
      <4> QED
        BY <4>2, Limits
    <3> QED
      BY <2>2, <3>1, FullNat, Limits
  <2>4. PICK i \in 1 .. Len(allowed[k]) : Yields(k, i) = LeftOver(k, i)
    BY <2>1, <2>3 DEF BudgetOK
  <2>5. Cost(i, Len(allowed[k])) \in Int /\ allowed[k] \in Seq(Nat)
    <3>1. allowed[k] \in Seq(Nat)
      BY <1>1 DEF LimiterIInv, LimiterTypeOK
    <3>2. i \in Int /\ Len(allowed[k]) \in Int
      BY <3>1
    <3> QED
      BY <3>1, <3>2, CostStep
  <2>6. Cost(i, Len(allowed[k])) + Credit(k) = Full + (now - allowed[k][i])
    BY <2>4 DEF Yields, LeftOver
  <2>7. Cost(i, Len(allowed[k])) + Period > Full + (now - allowed[k][i])
    BY <2>2, <2>5, <2>6, Limits, FullNat
  <2> QED
    BY <2>1, <2>7
<1>2. LimiterIInv /\ [LimiterNext]_limiterVars
        => [\A r \in Requests : Due(r)]_limiterVars
  <2> SUFFICES ASSUME LimiterIInv, LimiterNext, NEW r \in Requests,
                      requests[r] # Idle, requests'[r] = Idle, allowed' = allowed
               PROVE  Due(r)
    BY DEF limiterVars
  <2>1. LimiterTypeOK
    BY DEF LimiterIInv
  <2>2. ASSUME NEW s \in Requests, NEW k \in Keys, GetVisitor(s, k) PROVE FALSE
    BY <2>1, <2>2 DEF GetVisitor, LimiterTypeOK
  <2>3. ASSUME NEW s \in Requests, Allow(s) PROVE FALSE
    <3>1. /\ requests[s].key \in Keys
          /\ allowed' = [allowed EXCEPT ![requests[s].key] = Append(@, now)]
      BY <2>3 DEF LimiterIInv, RequestOK, Allow
    <3>2. allowed[requests[s].key] \in Seq(Nat) /\ now \in Nat
      BY <2>1, <3>1 DEF LimiterTypeOK
    <3>3. Len(allowed'[requests[s].key]) = Len(allowed[requests[s].key]) + 1
      BY <2>1, <3>1, <3>2 DEF LimiterTypeOK
    <3> QED
      BY <3>2, <3>3
  <2>4. ASSUME NEW s \in Requests, Refuse(s) PROVE s = r
    BY <2>1, <2>4 DEF Refuse, LimiterTypeOK
  <2>5. ~Cleanup /\ ~Tick
    BY DEF Cleanup, Tick
  <2> QED
    BY <1>1, <2>2, <2>3, <2>4, <2>5 DEF LimiterNext
<1> QED
  BY <1>2, LimiterInductive, PTL DEF LimiterSpec, RefusedOverBudget
==============================================================================
