---------------------------- MODULE RateLimiter ----------------------------
(***************************************************************************)
(* The rate limiters of internal/middleware/ratelimit.go (one token bucket *)
(* per client address) and user_ratelimit.go (one per user): the map of    *)
(* visitors behind a mutex, the goroutine that forgets the idle ones, and  *)
(* the requests, which take their bucket from the map in one step and draw *)
(* a token from it in a later one.  In between the visitor may be          *)
(* forgotten, and made again with another bucket.                          *)
(*                                                                         *)
(* A bucket is that of golang.org/x/time/rate, in whole units: it gains    *)
(* one unit per tick up to Full, and a request costs Period units.         *)
(***************************************************************************)
EXTENDS Integers, Sequences

CONSTANTS Keys,        \* the client addresses, or the users
          Requests,    \* the requests that may be under way at a time
          Burst,       \* tokens a bucket holds
          Period,      \* ticks in which a bucket gains one token
          EvictAfter,  \* idle ticks after which a visitor is forgotten
          SweepEvery,  \* ticks the clean-up sleeps
          MaxStall,    \* ticks a request may lose between its two steps
          MaxTime      \* bound on the clock, of the model only

(***************************************************************************)
(* The limiters are made with 10 tokens a second of at most 20, and by     *)
(* default one in two seconds of at most 5 or 3: a bucket is full again    *)
(* after 2 s, 10 s and 6 s, and a visitor is forgotten after 3 min or 10   *)
(* min.  A bucket that is forgotten has then been full for longer than a   *)
(* request stalls.                                                         *)
(***************************************************************************)
ASSUME LimitsAssumption ==
    /\ Burst \in Nat \ {0} /\ Period \in Nat \ {0}
    /\ SweepEvery \in Nat \ {0} /\ EvictAfter \in Nat
    /\ MaxStall \in Nat /\ MaxTime \in Nat
    /\ Burst * Period + MaxStall <= EvictAfter

VARIABLES now,       \* the clock
          buckets,   \* the buckets made for each key, the oldest first
          visitors,  \* the map: which bucket a key has, and when it was seen
          requests,  \* what each request holds
          allowed,   \* when the requests of each key were let through
          sweepAt    \* when the clean-up wakes

limiterVars == <<now, buckets, visitors, requests, allowed, sweepAt>>

Full == Burst * Period

Unknown == [bucket |-> 0, seen |-> 0]
Idle == [key |-> 0, bucket |-> 0, since |-> 0]

LimiterInit ==
    /\ now = 0
    /\ buckets = [k \in Keys |-> << >>]
    /\ visitors = [k \in Keys |-> Unknown]
    /\ requests = [r \in Requests |-> Idle]
    /\ allowed = [k \in Keys |-> << >>]
    /\ sweepAt = SweepEvery

Known(k) == visitors[k].bucket # 0

(***************************************************************************)
(* getVisitor: under the mutex, the visitor's bucket, or a full one.       *)
(***************************************************************************)
GetVisitor(r, k) ==
    /\ requests[r] = Idle
    /\ LET n == IF Known(k) THEN visitors[k].bucket ELSE Len(buckets[k]) + 1
       IN  /\ visitors' = [visitors EXCEPT ![k] = [bucket |-> n, seen |-> now]]
           /\ requests' = [requests EXCEPT ![r] =
                              [key |-> k, bucket |-> n, since |-> now]]
           /\ buckets' = IF Known(k) THEN buckets
                         ELSE [buckets EXCEPT ![k] =
                                  Append(@, [credit |-> Full, at |-> now])]
    /\ UNCHANGED <<now, allowed, sweepAt>>

(***************************************************************************)
(* limiter.Allow: a token is there or the request is turned away.          *)
(***************************************************************************)
MutLevel(b) ==
    LET filled == b.credit + ((now - b.at) \div Period) * Period
    IN  IF filled < Full THEN filled ELSE Full

Level(b) == LET filled == b.credit + (now - b.at)
            IN  IF filled < Full THEN filled ELSE Full

Allow(r) ==
    LET h == requests[r]
        b == buckets[h.key][h.bucket]
    IN  /\ h # Idle
        /\ Level(b) >= Period
        /\ buckets' = [buckets EXCEPT ![h.key][h.bucket] =
                          [credit |-> Level(b) - Period, at |-> now]]
        /\ allowed' = [allowed EXCEPT ![h.key] = Append(@, now)]
        /\ requests' = [requests EXCEPT ![r] = Idle]
        /\ UNCHANGED <<now, visitors, sweepAt>>

Refuse(r) ==
    LET h == requests[r]
    IN  /\ h # Idle
        /\ Level(buckets[h.key][h.bucket]) < Period
        /\ requests' = [requests EXCEPT ![r] = Idle]
        /\ UNCHANGED <<now, buckets, visitors, allowed, sweepAt>>

(***************************************************************************)
(* cleanup: it sleeps, takes the mutex and forgets who has not been seen.  *)
(***************************************************************************)
MutStale(v) == v.bucket # 0 /\ now - v.seen >= SweepEvery

Stale(v) == v.bucket # 0 /\ now - v.seen > EvictAfter

Cleanup ==
    /\ now = sweepAt
    /\ visitors' = [k \in Keys |->
                       IF Stale(visitors[k]) THEN Unknown ELSE visitors[k]]
    /\ sweepAt' = now + SweepEvery
    /\ UNCHANGED <<now, buckets, requests, allowed>>

(***************************************************************************)
(* Time passes; neither the clean-up nor a request is put off for ever.    *)
(***************************************************************************)
Tick ==
    /\ now < MaxTime
    /\ now < sweepAt
    /\ \A r \in Requests :
          requests[r] # Idle => now - requests[r].since < MaxStall
    /\ now' = now + 1
    /\ UNCHANGED <<buckets, visitors, requests, allowed, sweepAt>>

LimiterNext ==
    \/ \E r \in Requests, k \in Keys : GetVisitor(r, k)
    \/ \E r \in Requests : Allow(r) \/ Refuse(r)
    \/ Cleanup
    \/ Tick

LimiterSpec == LimiterInit /\ [][LimiterNext]_limiterVars

-----------------------------------------------------------------------------
(***************************************************************************)
(* Units the requests i .. j of a key have cost, and what a bucket yields  *)
(* at most between the moments they were let through.                      *)
(***************************************************************************)
Cost(i, j) == (j - i + 1) * Period

(***************************************************************************)
(* Over any stretch of time a key is let through at most Burst times plus  *)
(* once per Period, however its visitor is forgotten and made again and    *)
(* however its requests overlap (getVisitor, cleanup and Middleware).      *)
(***************************************************************************)
WithinBudget ==
    \A k \in Keys : \A j \in 1 .. Len(allowed[k]) : \A i \in 1 .. j :
        Cost(i, j) <= Full + (allowed[k][j] - allowed[k][i])

(***************************************************************************)
(* A request is turned away only when letting it through would break the   *)
(* budget of some stretch of time that ends now: the limiter never refuses *)
(* a key that keeps to its rate.                                           *)
(***************************************************************************)
RefusedOverBudget ==
    [][\A r \in Requests :
          (requests[r] # Idle /\ requests'[r] = Idle /\ allowed' = allowed) =>
             LET log == allowed[requests[r].key]
             IN  \E i \in 1 .. Len(log) :
                    Cost(i, Len(log)) + Period > Full + (now - log[i])]_limiterVars

(***************************************************************************)
(* The map remembers no visitor much longer than the idle time it is       *)
(* allowed: what it holds is bounded by the clients of that time.          *)
(***************************************************************************)
ForgetsTheIdle ==
    \A k \in Keys : Known(k) => now - visitors[k].seen <= EvictAfter + SweepEvery

-----------------------------------------------------------------------------
(***************************************************************************)
(* The inductive invariant.  A request holds the bucket that is in the map *)
(* now, for a visitor can be forgotten only when its last request is gone  *)
(* and its bucket full; and what a bucket can yield is what the budget     *)
(* leaves over every stretch that ends now, exactly over one of them.      *)
(***************************************************************************)
Bucket == [credit : 0 .. Full, at : Nat]

LimiterTypeOK ==
    /\ now \in Nat /\ sweepAt \in Nat
    /\ buckets \in [Keys -> Seq(Bucket)]
    /\ visitors \in [Keys -> [bucket : Nat, seen : Nat]]
    /\ requests \in [Requests -> [key : Keys \cup {0}, bucket : Nat, since : Nat]]
    /\ allowed \in [Keys -> Seq(Nat)]

ClockOK == now <= sweepAt /\ sweepAt <= now + SweepEvery

Current(k) == buckets[k][Len(buckets[k])]

VisitorOK(k) ==
    Known(k) =>
        /\ visitors[k].bucket = Len(buckets[k])
        /\ visitors[k].seen <= now
        /\ Current(k).at <= now
        /\ Current(k).at <= visitors[k].seen + MaxStall
        /\ sweepAt <= visitors[k].seen + EvictAfter + SweepEvery

RequestOK(r) ==
    requests[r] # Idle =>
        /\ requests[r].key \in Keys
        /\ Known(requests[r].key)
        /\ requests[r].bucket = visitors[requests[r].key].bucket
        /\ requests[r].since <= visitors[requests[r].key].seen
        /\ now <= requests[r].since + MaxStall

Credit(k) == IF Known(k) THEN Level(Current(k)) ELSE Full

Yields(k, i) == Cost(i, Len(allowed[k])) + Credit(k)

LeftOver(k, i) == Full + (now - allowed[k][i])

BudgetOK(k) ==
    /\ \A i \in 1 .. Len(allowed[k]) : Yields(k, i) <= LeftOver(k, i)
    /\ \/ Credit(k) = Full
       \/ \E i \in 1 .. Len(allowed[k]) : Yields(k, i) = LeftOver(k, i)

LimiterIInv ==
    /\ LimiterTypeOK /\ ClockOK
    /\ \A k \in Keys : VisitorOK(k) /\ BudgetOK(k)
    /\ \A r \in Requests : RequestOK(r)
    /\ WithinBudget
=============================================================================
