------------------------- MODULE StudySessionProofs -------------------------
(***************************************************************************)
(* Theorems about StudySession, for any number of requests, sessions and   *)
(* cards; and one request at a time, that it implements SessionLedger.     *)
(***************************************************************************)
EXTENDS StudySessionLedger, FiniteSetTheorems, TLAPS

\* Counters start at zero, are counted up by one, and add up.
LEMMA CountsType ==
  /\ Zero \in Counts
  /\ \A k \in Kinds : Zero[k] = 0
  /\ \A k \in Kinds : One(k) \in Counts
  /\ \A m, n \in Counts : /\ m ++ n \in Counts
                          /\ \A k \in Kinds : (m ++ n)[k] = m[k] + n[k]
BY DEF Zero, One, Counts, ++

\* Every card state is counted as one kind of review.
LEMMA KindType == \A s \in CardStates : KindOf[s] \in Kinds
BY DEF KindOf, Kinds, CardStates

\* A request not yet under way is well typed and has nothing pending.
LEMMA NewRequestType ==
  /\ NewRequest \in Request
  /\ \A how \in Ended : [NewRequest EXCEPT !.pc = how] \in Request
<1>1. NewRequest \in Request
  BY CountsType, ConstantsOK DEF NewRequest, Request, CardStates
<1> QED
  BY <1>1 DEF Request

\* A smaller finite set of reviews counts no more of any kind.
LEMMA CountsGrow ==
  ASSUME NEW L, NEW M, IsFiniteSet(M), L \subseteq M, NEW k
  PROVE  /\ IsFiniteSet(OfKind(M, k)) /\ IsFiniteSet(OfKind(L, k))
         /\ Cardinality(OfKind(L, k)) \in Nat /\ Cardinality(OfKind(M, k)) \in Nat
         /\ Cardinality(OfKind(L, k)) <= Cardinality(OfKind(M, k))
<1>1. OfKind(L, k) \subseteq OfKind(M, k) /\ OfKind(M, k) \subseteq M
  BY DEF OfKind
<1>2. IsFiniteSet(OfKind(M, k))
  BY <1>1, FS_Subset
<1>3. IsFiniteSet(OfKind(L, k))
      /\ Cardinality(OfKind(L, k)) <= Cardinality(OfKind(M, k))
  BY <1>1, <1>2, FS_Subset
<1> QED
  BY <1>2, <1>3, FS_CardinalityType

(***************************************************************************)
(* What IInv says of a request, when another one changes or the database   *)
(* does: its own part of the invariant survives if the reviews only grow   *)
(* by other requests' and the cards it has locked live on.                 *)
(***************************************************************************)
LEMMA OtherRequest ==
  ASSUME IInv, NEW s \in Requests, req'[s] = req[s],
         reviews \subseteq reviews', IsFiniteSet(reviews'),
         \A l \in reviews' \ reviews : l.by # s,
         \A c \in Cards : Locks(s, c) /\ cards[c].life = "live"
                            => cards'[c].life = "live"
  PROVE  (RequestOK(s) /\ PendingOK(s) /\ RequestCounts(s))'
<1>1. RequestOK(s) /\ PendingOK(s) /\ RequestCounts(s) /\ TypeOK
  BY DEF IInv
<1>2. RequestOK(s)'
  BY <1>1 DEF RequestOK, UnderWay
<1>3. PendingOK(s)'
  BY <1>1 DEF PendingOK, Locks, OfKind
<1>4. ASSUME UnderWay(s), NEW k \in Kinds
      PROVE  req[s].count[k] <= Cardinality(ReviewsOf(req[s].session, k)')
  <2> DEFINE S == ReviewsOf(req[s].session, k)
             T == ReviewsOf(req[s].session, k)'
  <2>1. S \subseteq T /\ T \subseteq reviews'
    BY <1>4 DEF ReviewsOf
  <2>2. IsFiniteSet(T)
    BY <2>1, FS_Subset
  <2>3. /\ Cardinality(S) <= Cardinality(T)
        /\ Cardinality(S) \in Nat /\ Cardinality(T) \in Nat
    BY <2>1, <2>2, FS_Subset, FS_CardinalityType
  <2>4. req[s].count[k] <= Cardinality(S)
    BY <1>1, <1>4 DEF RequestCounts
  <2>5. req[s].count[k] \in Nat
    BY <1>1, <1>4 DEF TypeOK, Request, Counts
  <2> QED
    BY <2>3, <2>4, <2>5
<1>5. RequestCounts(s)'
  BY <1>1, <1>4 DEF RequestCounts, UnderWay, ReviewsOf
<1> QED
  BY <1>2, <1>3, <1>5

(***************************************************************************)
(* Statements that only read, and failures, change one request.  What it   *)
(* becomes must be right by itself; every other part of IInv is kept.      *)
(***************************************************************************)
LEMMA ReadStep ==
  ASSUME IInv, NEW r \in Requests, NEW new \in Request,
         req' = [req EXCEPT ![r] = new], new.pc # "ok",
         UNCHANGED db, NoCount,
         (RequestOK(r) /\ PendingOK(r) /\ RequestCounts(r))'
  PROVE  IInv'
<1>1. /\ req \in [Requests -> Request] /\ req' \in [Requests -> Request]
      /\ req'[r] = new
      /\ \A s \in Requests \ {r} : req'[s] = req[s]
  BY DEF IInv, TypeOK
<1>2. /\ sessions' = sessions /\ cards' = cards /\ logs' = logs
      /\ reviews' = reviews /\ edits' = edits
  BY DEF db, NoCount
<1>3. TypeOK'
  BY <1>1, <1>2 DEF IInv, TypeOK
<1>4. \A s \in Requests : (RequestOK(s) /\ PendingOK(s) /\ RequestCounts(s))'
  BY <1>1, <1>2, OtherRequest DEF IInv
<1>5. (CountsWithinReviews /\ CardStateHasItsLog /\ NoOrphans)'
  BY <1>2 DEF IInv, CountsWithinReviews, ReviewsOf, CardStateHasItsLog, NoOrphans
<1>6. ReviewsAcknowledged'
  BY <1>1, <1>2 DEF IInv, ReviewsAcknowledged
<1> QED
  BY <1>2, <1>3, <1>4, <1>5, <1>6 DEF IInv

\* A request that ends without an effect.
LEMMA EndStep ==
  ASSUME IInv, NEW r \in Requests, NEW how \in {"refused", "failed"},
         End(r, how), req[r].pc # "ok", UNCHANGED db, NoCount
  PROVE  IInv'
<1> DEFINE new == [NewRequest EXCEPT !.pc = how]
<1>1. new \in Request
  BY NewRequestType DEF Ended
<1>2. req' = [req EXCEPT ![r] = new] /\ new.pc # "ok" /\ req'[r] = new
  BY <1>1 DEF End, IInv, TypeOK, NewRequest
<1>3. /\ new.pc = how /\ new.logged = {} /\ new.inc = Zero
      /\ \A c \in Cards : new.mine[c] = None
  BY DEF NewRequest
<1>4. RequestOK(r)'
  BY <1>2, <1>3 DEF RequestOK, UnderWay, InTx
<1>5. PendingOK(r)'
  <2>1. IsFiniteSet({}) /\ \A k \in Kinds : OfKind({}, k) = {}
    BY FS_EmptySet DEF OfKind
  <2>2. Cardinality({}) = 0
    BY FS_EmptySet
  <2>3. \A k \in Kinds : Zero[k] = Cardinality(OfKind({}, k))
    BY <2>1, <2>2, CountsType
  <2> QED
    BY <1>2, <1>3, <2>1, <2>3 DEF PendingOK
<1>6. RequestCounts(r)'
  BY <1>2, <1>3 DEF RequestCounts, UnderWay, InTx, IInv, NoCount
<1> QED
  BY <1>1, <1>2, <1>4, <1>5, <1>6, ReadStep

\* Reading the session: its counters were counted by committed reviews.
LEMMA LoadSessionStep ==
  ASSUME IInv, NEW r \in Requests, NEW u \in Users, NEW s \in Sessions,
         \/ SubmitLoadSession(r, u, s) \/ BatchLoadSession(r, u, s)
         \/ EndLoadSession(r, u, s)
  PROVE  IInv'
<1>1. PICK kind \in {"submit", "batch", "end"},
           next \in {"card", "item", "end"} :
        /\ LoadSession(r, u, s, kind, next)
        /\ kind = "submit" => next = "card"
        /\ kind = "batch" => next = "item"
        /\ kind = "end" => next = "end"
  BY DEF SubmitLoadSession, BatchLoadSession, EndLoadSession
<1>2. req[r].pc = "new" /\ UNCHANGED db /\ NoCount
  BY <1>1 DEF LoadSession
<1>3. CASE End(r, "refused")
  BY <1>2, <1>3, EndStep
<1>4. CASE Usable(s, u) /\ ~End(r, "refused")
  <2> DEFINE items == IF kind = "batch" THEN MaxItems ELSE 0
             new == [req[r] EXCEPT !.pc = next, !.kind = kind, !.session = s,
                                   !.count = sessions[s].count, !.item = items]
  <2>1. req' = [req EXCEPT ![r] = new]
    BY <1>1, <1>4 DEF LoadSession
  <2>2. req[r] \in Request /\ sessions[s].count \in Counts
    BY DEF IInv, TypeOK, Session
  <2>3. items \in 0..MaxItems
    BY ConstantsOK
  <2>4. new \in Request /\ new.pc # "ok"
    BY <2>2, <2>3, ZenonT(60) DEF Request, InTx
  <2>5. req'[r] = new
    BY <2>1 DEF IInv, TypeOK
  <2>6. /\ new.pc = next /\ new.kind = kind /\ new.session = s
        /\ new.count = sessions[s].count /\ new.logged = req[r].logged
        /\ new.inc = req[r].inc /\ new.mine = req[r].mine
    BY <2>2 DEF Request
  <2>7. RequestOK(r)'
    BY <1>1, <2>5, <2>6 DEF RequestOK, UnderWay
  <2>8. PendingOK(r)'
    BY <1>2, <2>5, <2>6 DEF IInv, PendingOK, InTx, OfKind
  <2>9. RequestCounts(r)'
    <3>1. \A k \in Kinds : sessions[s].count[k] <= Cardinality(ReviewsOf(s, k))
      BY DEF IInv, CountsWithinReviews
    <3>2. \A k \in Kinds : ReviewsOf(s, k)' = ReviewsOf(s, k)
      BY <1>2 DEF NoCount, ReviewsOf
    <3>3. \A l \in reviews : l.by # r
      BY <1>2 DEF IInv, RequestCounts
    <3> QED
      BY <1>2, <2>5, <2>6, <3>1, <3>2, <3>3 DEF RequestCounts, NoCount
  <2> QED
    BY <1>2, <2>1, <2>4, <2>7, <2>8, <2>9, ReadStep
<1> QED
  BY <1>1, <1>3, <1>4 DEF LoadSession

(***************************************************************************)
(* A step of a transaction, or its first one, that leaves what it is about *)
(* to write as it was.                                                     *)
(***************************************************************************)
LEMMA PendingKept ==
  ASSUME IInv, NEW r \in Requests, NEW new \in Request,
         req' = [req EXCEPT ![r] = new], UnderWay(r),
         new.pc \in InTx, UNCHANGED db, NoCount,
         new.session = req[r].session, new.count = req[r].count,
         new.kind = req[r].kind, new.item <= req[r].item,
         new.inc = req[r].inc, new.mine = req[r].mine,
         new.logged = req[r].logged, RequestOK(r)'
  PROVE  IInv'
<1>1. req'[r] = new /\ req[r].pc # "ok"
  BY DEF IInv, TypeOK, UnderWay, InTx
<1>2. cards' = cards /\ reviews' = reviews
  BY DEF db, NoCount
<1>3. new.item \in Nat /\ req[r].item \in Nat /\ req[r].logged \subseteq Review
  BY ConstantsOK DEF IInv, TypeOK, Request
<1>4. PendingOK(r)'
  <2>1. PendingOK(r)
    BY DEF IInv
  <2>2. \A l \in req[r].logged : l.item > req[r].item => l.item > new.item
    BY <1>3, ConstantsOK DEF Review
  <2>3. \A c \in Cards : req[r].mine[c] # None
          => cards[c].life = "live" /\ \E l \in req[r].logged : l.card = c
    BY <2>1 DEF PendingOK
  <2> QED
    BY <1>1, <1>2, <2>1, <2>2, <2>3 DEF PendingOK, OfKind
<1>5. RequestCounts(r)'
  BY <1>1, <1>2 DEF IInv, RequestCounts, UnderWay, ReviewsOf
<1>6. new.pc # "ok"
  BY DEF InTx
<1> QED
  BY <1>4, <1>5, <1>6, ReadStep

\* Reading the card a review is about.
LEMMA LoadCardStep ==
  ASSUME IInv, NEW r \in Requests, NEW c \in Cards,
         SubmitLoadCard(r, c) \/ BatchLoadCard(r, c)
  PROVE  IInv'
<1>1. /\ req[r].pc \in {"card", "item"} /\ UNCHANGED db /\ NoCount
      /\ req[r].pc = "item" => req[r].item > 0
  BY DEF SubmitLoadCard, BatchLoadCard
<1>2. CASE End(r, "refused")
  BY <1>1, <1>2, EndStep
<1>3. ASSUME NEW before \in CardStates, NEW sent \in SentStates,
             Reviewing(r, c, before, sent)
      PROVE  IInv'
  <2> DEFINE new == [req[r] EXCEPT !.pc = "write", !.card = c,
                                   !.state = before, !.sent = sent]
  <2>1. req' = [req EXCEPT ![r] = new]
    BY <1>3 DEF Reviewing
  <2>2. req[r] \in Request /\ sent \in CardStates
    BY ConstantsOK DEF IInv, TypeOK
  <2>3. new \in Request
    BY <2>2 DEF Request, InTx
  <2>4. /\ new.pc = "write" /\ new.card = c /\ new.session = req[r].session
        /\ new.count = req[r].count /\ new.kind = req[r].kind
        /\ new.item = req[r].item /\ new.inc = req[r].inc
        /\ new.mine = req[r].mine /\ new.logged = req[r].logged
    BY <2>2 DEF Request
  <2>5. new.item <= req[r].item
    BY <2>2, <2>4, ConstantsOK DEF Request
  <2>6. req'[r] = new
    BY <2>1 DEF IInv, TypeOK
  <2>7. RequestOK(r) /\ PendingOK(r)
    BY DEF IInv
  <2>8. req[r].pc = "card" => req[r].logged = {} /\ req[r].kind = "submit"
    BY <2>7 DEF PendingOK, RequestOK, InTx
  <2>9. RequestOK(r)'
    BY <1>1, <2>4, <2>6, <2>7, <2>8 DEF RequestOK, UnderWay, InTx
  <2> HIDE DEF new
  <2> QED
    BY <1>1, <2>1, <2>3, <2>4, <2>5, <2>9, PendingKept DEF UnderWay, InTx
<1>4. cards[c].state \in CardStates
      /\ req[r].mine[c] \in CardStates \cup {None}
  BY DEF IInv, TypeOK, Card, Request
<1> QED
  BY <1>2, <1>3, <1>4 DEF SubmitLoadCard, BatchLoadCard

\* Skipping an item leaves what the others have written.
LEMMA BatchSkipItemStep ==
  ASSUME IInv, NEW r \in Requests, BatchSkipItem(r)
  PROVE  IInv'
<1> DEFINE new == [req[r] EXCEPT !.item = @ - 1]
<1>1. req[r].pc = "item" /\ req[r].item > 0 /\ UNCHANGED db /\ NoCount
  BY DEF BatchSkipItem
<1>2. req[r] \in Request /\ req' = [req EXCEPT ![r] = new]
  BY DEF IInv, TypeOK, BatchSkipItem
<1>3. req[r].item - 1 \in 0..MaxItems /\ req[r].item - 1 <= req[r].item
  BY <1>1, <1>2, ConstantsOK DEF Request
<1>4. new \in Request
  BY <1>2, <1>3 DEF Request
<1>5. /\ new.pc = "item" /\ new.session = req[r].session
      /\ new.count = req[r].count /\ new.kind = req[r].kind
      /\ new.item = req[r].item - 1 /\ new.inc = req[r].inc
      /\ new.mine = req[r].mine /\ new.logged = req[r].logged
  BY <1>1, <1>2 DEF Request
<1>6. RequestOK(r)'
  <2>1. req'[r] = new /\ RequestOK(r)
    BY <1>2 DEF IInv, TypeOK
  <2> HIDE DEF new
  <2> QED
    BY <1>1, <1>5, <2>1 DEF RequestOK, UnderWay, InTx
<1> HIDE DEF new
<1> QED
  BY <1>1, <1>2, <1>3, <1>4, <1>5, <1>6, PendingKept DEF UnderWay, InTx

\* A batch one of whose statements failed.
LEMMA ReviewFailedStep ==
  ASSUME IInv, NEW r \in Requests, req[r].pc = "write", ReviewFailed(r),
         UNCHANGED db, NoCount
  PROVE  IInv'
<1>1. CASE req[r].kind = "batch"
  <2> DEFINE new == [req[r] EXCEPT !.pc = "doomed"]
  <2>1. req[r] \in Request /\ req' = [req EXCEPT ![r] = new]
    BY <1>1 DEF IInv, TypeOK, ReviewFailed
  <2>2. new \in Request
    BY <2>1 DEF Request, InTx
  <2>3. /\ new.pc = "doomed" /\ new.session = req[r].session
        /\ new.count = req[r].count /\ new.kind = req[r].kind
        /\ new.item = req[r].item /\ new.inc = req[r].inc
        /\ new.mine = req[r].mine /\ new.logged = req[r].logged
    BY <2>1 DEF Request
  <2>4. new.item <= req[r].item
    BY <2>1, <2>3, ConstantsOK DEF Request
  <2>5. RequestOK(r)'
    <3>1. req'[r] = new /\ RequestOK(r)
      BY <2>1 DEF IInv, TypeOK
    <3> HIDE DEF new
    <3> QED
      BY <1>1, <2>3, <3>1 DEF RequestOK, UnderWay, InTx
  <2> HIDE DEF new
  <2> QED
    BY <2>1, <2>2, <2>3, <2>4, <2>5, PendingKept DEF UnderWay, InTx
<1>2. CASE req[r].kind # "batch"
  BY <1>2, EndStep DEF ReviewFailed
<1> QED
  BY <1>1, <1>2

\* One more item done: one more log, one more increment, one more card locked.
LEMMA ReviewedStep ==
  ASSUME IInv, NEW r \in Requests, req[r].pc = "write", Reviewed(r),
         cards[req[r].card].life = "live", UNCHANGED db, NoCount
  PROVE  IInv'
<1> DEFINE old == req[r]
           k0 == KindOf[old.state]
           log == ReviewLog(r)
           items == IF old.kind = "batch" THEN old.item - 1 ELSE old.item
           new == [old EXCEPT
                     !.pc = IF old.kind = "batch" THEN "item" ELSE "commit",
                     !.item = items, !.inc = old.inc ++ One(k0),
                     !.mine[old.card] = old.sent,
                     !.logged = old.logged \cup {log}]
<1>1. old \in Request /\ RequestOK(r) /\ PendingOK(r) /\ RequestCounts(r)
  BY DEF IInv, TypeOK
<1>2. /\ old.card \in Cards /\ old.session \in Sessions
      /\ old.kind = "batch" => old.item > 0
      /\ old.kind # "batch" => old.kind = "submit" /\ old.logged = {}
  BY <1>1 DEF RequestOK, UnderWay, InTx
<1>3. req' = [req EXCEPT ![r] = new]
  BY DEF Reviewed
<1>4. /\ items \in 0..MaxItems
      /\ items = IF old.kind = "batch" THEN old.item - 1 ELSE old.item
      /\ old.item \in Nat
  BY <1>1, <1>2, ConstantsOK DEF Request
<1>5. /\ log \in Review /\ log.by = r /\ log.item = old.item
      /\ log.session = old.session /\ log.card = old.card
      /\ log.state = old.state
  BY <1>1, <1>2 DEF ReviewLog, Review, Request
<1>6. k0 \in Kinds /\ old.inc \in Counts /\ One(k0) \in Counts
  BY <1>1, KindType, CountsType DEF Request
<1>7. old.inc ++ One(k0) \in Counts
  BY <1>6, CountsType
<1>8. /\ old.logged \subseteq Review /\ old.sent \in CardStates
      /\ old.mine \in [Cards -> CardStates \cup {None}]
  BY <1>1 DEF Request
<1>9. [old.mine EXCEPT ![old.card] = old.sent] \in [Cards -> CardStates \cup {None}]
  BY <1>2, <1>8
<1>10. new \in Request
  BY <1>1, <1>4, <1>5, <1>7, <1>8, <1>9, ZenonT(60) DEF Request, InTx
<1>11. /\ new.pc = IF old.kind = "batch" THEN "item" ELSE "commit"
       /\ new.session = old.session /\ new.count = old.count
       /\ new.kind = old.kind /\ new.item = items
       /\ new.inc = old.inc ++ One(k0)
       /\ new.mine = [old.mine EXCEPT ![old.card] = old.sent]
       /\ new.logged = old.logged \cup {log}
  BY <1>1 DEF Request
<1>12. req'[r] = new
  BY <1>3 DEF IInv, TypeOK
<1>13. cards' = cards /\ reviews' = reviews
  BY DEF db, NoCount
<1> HIDE DEF new, items, log, k0, old
<1>14. RequestOK(r)'
  BY <1>2, <1>11, <1>12 DEF RequestOK, UnderWay, InTx
<1>15. PendingOK(r)'
  <2>1. IsFiniteSet(new.logged) /\ IsFiniteSet(old.logged)
    BY <1>1, <1>11, FS_AddElement DEF PendingOK, old
  <2>2. ASSUME NEW l \in new.logged
        PROVE  /\ l.by = r /\ l.session = new.session
               /\ new.mine[l.card] # None
               /\ new.kind = "batch" => l.item > new.item
    <3>1. old.sent # None
      BY <1>8, ConstantsOK
    <3>2. CASE l = log
      BY <1>2, <1>4, <1>5, <1>8, <1>11, <3>1, <3>2
    <3>3. CASE l \in old.logged
      <4>1. /\ l.by = r /\ l.session = old.session /\ old.mine[l.card] # None
            /\ old.kind = "batch" => l.item > old.item
        BY <1>1, <3>3 DEF PendingOK, old
      <4>2. l.card \in Cards /\ l.item \in Nat
        BY <1>8, <3>3, ConstantsOK DEF Review
      <4> QED
        BY <1>2, <1>4, <1>8, <1>11, <3>1, <4>1, <4>2
    <3> QED
      BY <1>11, <3>2, <3>3
  <2>3. ASSUME NEW c \in Cards, new.mine[c] # None
        PROVE  cards[c].life = "live" /\ \E l \in new.logged : l.card = c
    <3>1. CASE c = old.card
      BY <1>5, <1>11, <3>1 DEF old
    <3>2. CASE c # old.card
      <4>1. old.mine[c] # None
        BY <1>2, <1>8, <1>11, <2>3, <3>2
      <4> QED
        BY <1>1, <1>11, <4>1 DEF PendingOK, old
    <3> QED
      BY <3>1, <3>2
  <2>4. ASSUME NEW k \in Kinds
        PROVE  new.inc[k] = Cardinality(OfKind(new.logged, k))
    <3> DEFINE L == OfKind(old.logged, k)
    <3>1. IsFiniteSet(L) /\ Cardinality(L) \in Nat
      BY <2>1, CountsGrow
    <3>2. old.inc[k] = Cardinality(L) /\ old.inc[k] \in Nat
      BY <1>1, <1>6 DEF PendingOK, Counts, old
    <3>3. new.inc[k] = old.inc[k] + One(k0)[k]
      BY <1>6, <1>11, CountsType
    <3>4. CASE k = k0
      <4>1. log \notin old.logged
        <5>1. CASE old.kind = "batch"
          <6>1. log \in old.logged => log.item > old.item
            BY <1>1, <5>1 DEF PendingOK, old
          <6> QED
            BY <1>4, <1>5, <6>1
        <5> QED
          BY <1>2, <5>1
      <4>2. OfKind(new.logged, k) = L \cup {log} /\ log \notin L
        BY <1>5, <1>11, <3>4, <4>1 DEF OfKind, k0
      <4>3. Cardinality(L \cup {log}) = Cardinality(L) + 1
        BY <3>1, <4>2, FS_AddElement
      <4>4. One(k0)[k] = 1
        BY <1>6, <3>4 DEF One, Zero
      <4> QED
        BY <3>1, <3>2, <3>3, <4>2, <4>3, <4>4
    <3>5. CASE k # k0
      <4>1. One(k0)[k] = 0
        BY <1>6, <3>5 DEF One, Zero
      <4>2. OfKind(new.logged, k) = L
        BY <1>5, <1>11, <3>5 DEF OfKind, k0
      <4> QED
        BY <3>2, <3>3, <4>1, <4>2
    <3> QED
      BY <3>4, <3>5
  <2>5. new.pc \in InTx
    BY <1>11 DEF InTx
  <2> QED
    BY <1>12, <1>13, <2>1, <2>2, <2>3, <2>4, <2>5 DEF PendingOK
<1>16. RequestCounts(r)'
  <2>1. new.pc # "ok" /\ req[r].pc # "ok"
    BY <1>11 DEF old
  <2> QED
    BY <1>1, <1>11, <1>12, <1>13, <2>1 DEF RequestCounts, UnderWay, InTx, ReviewsOf, old
<1>17. new.pc # "ok"
  BY <1>11
<1> QED
  BY <1>3, <1>10, <1>14, <1>15, <1>16, <1>17, ReadStep

\* Updating a card and logging it, or failing to.
LEMMA ReviewWriteStep ==
  ASSUME IInv, NEW r \in Requests,
         ReviewWrite(r) \/ DeadlockAbort(r) \/ BatchAborted(r) \/ Fail(r)
  PROVE  IInv'
<1>1. CASE ReviewWrite(r)
  BY <1>1, ReviewedStep, ReviewFailedStep DEF ReviewWrite
<1>2. CASE DeadlockAbort(r)
  BY <1>2, ReviewFailedStep DEF DeadlockAbort, InDeadlock, WaitsFor
<1>3. CASE BatchAborted(r) \/ Fail(r)
  BY <1>3, EndStep DEF BatchAborted, Fail, UnderWay, InTx
<1> QED
  BY <1>1, <1>2, <1>3

\* What a request is once its effect is committed.
LEMMA AnsweredRequest ==
  ASSUME IInv, NEW r \in Requests, Answered(r)
  PROVE  /\ req' \in [Requests -> Request]
         /\ req'[r].pc = "ok" /\ req'[r].session = req[r].session
         /\ req'[r].kind = req[r].kind
         /\ \A s \in Requests \ {r} : req'[s] = req[s]
         /\ (RequestOK(r) /\ PendingOK(r) /\ RequestCounts(r))'
<1> DEFINE new == [NewRequest EXCEPT !.pc = "ok", !.kind = req[r].kind,
                                     !.session = req[r].session]
<1>1. req[r] \in Request /\ req \in [Requests -> Request]
  BY DEF IInv, TypeOK
<1>2. new \in Request
  BY <1>1, NewRequestType DEF Request, Ended
<1>3. req' = [req EXCEPT ![r] = new]
  BY DEF Answered
<1>4. /\ new.pc = "ok" /\ new.session = req[r].session /\ new.kind = req[r].kind
      /\ new.logged = {} /\ new.inc = Zero /\ \A c \in Cards : new.mine[c] = None
  BY DEF NewRequest
<1>5. req'[r] = new /\ \A s \in Requests \ {r} : req'[s] = req[s]
  BY <1>1, <1>3
<1> HIDE DEF new
<1>6. RequestOK(r)' /\ RequestCounts(r)'
  BY <1>4, <1>5 DEF RequestOK, RequestCounts, UnderWay, InTx
<1>7. PendingOK(r)'
  <2>1. IsFiniteSet({}) /\ \A k \in Kinds : OfKind({}, k) = {}
    BY FS_EmptySet DEF OfKind
  <2>2. \A k \in Kinds : Zero[k] = Cardinality(OfKind({}, k))
    BY <2>1, FS_EmptySet, CountsType
  <2> QED
    BY <1>4, <1>5, <2>1, <2>2 DEF PendingOK
<1> QED
  BY <1>1, <1>2, <1>3, <1>4, <1>5, <1>6, <1>7

\* The commit: as many logs appear as the counters grow by.
LEMMA CommitReviewsStep ==
  ASSUME IInv, NEW r \in Requests, CommitReviews(r)
  PROVE  IInv'
<1> DEFINE old == req[r]
           s0 == old.session
<1>1. /\ old \in Request /\ RequestOK(r) /\ PendingOK(r) /\ RequestCounts(r)
      /\ TypeOK
  BY DEF IInv, TypeOK
<1>2. /\ old.pc \in {"commit", "item"} /\ UnderWay(r) /\ s0 \in Sessions
      /\ old.pc = "commit" => old.kind = "submit" /\ old.logged # {}
      /\ old.pc = "item" => old.kind = "batch"
  BY <1>1 DEF CommitReviews, RequestOK, UnderWay, InTx
<1>3. /\ logs' = logs \cup old.logged /\ reviews' = reviews \cup old.logged
      /\ edits' = edits /\ Answered(r)
  BY DEF CommitReviews
<1>4. /\ old.count \in Counts /\ old.inc \in Counts
      /\ old.mine \in [Cards -> CardStates \cup {None}]
      /\ old.logged \subseteq Review
  BY <1>1 DEF Request
<1>5. \A l \in old.logged : /\ l.by = r /\ l.session = s0
                            /\ old.mine[l.card] # None
  BY <1>1 DEF PendingOK
<1>6. \A c \in Cards : old.mine[c] # None
         => cards[c].life = "live" /\ \E l \in old.logged : l.card = c
  BY <1>1 DEF PendingOK
<1>7. IsFiniteSet(reviews) /\ IsFiniteSet(old.logged) /\ IsFiniteSet(reviews')
  BY <1>1, <1>3, FS_Union DEF IInv, PendingOK
<1>8. \A l \in reviews : l.by # r
  BY <1>1, <1>2 DEF RequestCounts
<1>9. sessions' = [sessions EXCEPT ![s0].count = old.count ++ old.inc]
      /\ old.count ++ old.inc \in Counts
  BY <1>4, CountsType DEF CommitReviews
<1>10. /\ cards' \in [Cards -> Card]
       /\ \A c \in Cards :
            /\ cards'[c].life = cards[c].life
            /\ cards'[c].by = IF old.mine[c] = None THEN cards[c].by ELSE r
  <2>1. cards' = [c \in Cards |->
                    IF old.mine[c] = None THEN cards[c]
                    ELSE [cards[c] EXCEPT !.state = old.mine[c], !.by = r]]
    BY DEF CommitReviews
  <2>2. cards \in [Cards -> Card]
    BY <1>1 DEF TypeOK
  <2> QED
    BY <1>4, <2>1, <2>2 DEF Card
<1> HIDE DEF old, s0
<1>11. TypeOK'
  <2>1. sessions' \in [Sessions -> Session]
    BY <1>1, <1>2, <1>9 DEF TypeOK, Session
  <2>2. req' \in [Requests -> Request]
    BY <1>3, AnsweredRequest
  <2> QED
    BY <1>1, <1>3, <1>4, <1>10, <2>1, <2>2 DEF TypeOK
<1>12. \A s \in Requests : (RequestOK(s) /\ PendingOK(s) /\ RequestCounts(s))'
  <2>1. ASSUME NEW s \in Requests \ {r}
        PROVE  (RequestOK(s) /\ PendingOK(s) /\ RequestCounts(s))'
    <3>1. req'[s] = req[s]
      BY <1>3, AnsweredRequest
    <3>2. \A l \in reviews' \ reviews : l.by # s
      BY <1>3, <1>5
    <3> QED
      BY <1>3, <1>7, <1>10, <3>1, <3>2, OtherRequest
  <2> QED
    BY <1>3, <2>1, AnsweredRequest
<1>13. CountsWithinReviews'
  <2> SUFFICES ASSUME NEW s \in Sessions, NEW k \in Kinds
               PROVE  sessions'[s].count[k] <= Cardinality(ReviewsOf(s, k)')
    BY DEF CountsWithinReviews
  <2> DEFINE S == ReviewsOf(s, k)
             T == OfKind(old.logged, k)
             U == ReviewsOf(s, k)'
  <2>1. S \subseteq reviews /\ T \subseteq old.logged /\ U \subseteq reviews'
    BY DEF ReviewsOf, OfKind
  <2>2. IsFiniteSet(S) /\ IsFiniteSet(T) /\ IsFiniteSet(U)
    BY <1>7, <2>1, FS_Subset
  <2>3. Cardinality(S) \in Nat /\ Cardinality(T) \in Nat /\ Cardinality(U) \in Nat
    BY <2>2, FS_CardinalityType
  <2>4. CASE s = s0
    <3>1. S \cup T = U /\ S \cap T = {}
      BY <1>3, <1>5, <1>8, <2>4 DEF ReviewsOf, OfKind
    <3>2. Cardinality(S \cup T)
            = Cardinality(S) + Cardinality(T) - Cardinality(S \cap T)
      BY <2>2, FS_Union
    <3>3. Cardinality(S \cap T) = 0
      BY <3>1, FS_EmptySet
    <3>4. old.count[k] <= Cardinality(S) /\ old.inc[k] = Cardinality(T)
      BY <1>1, <1>2, <2>4 DEF RequestCounts, PendingOK, old, s0
    <3>5. sessions'[s].count[k] = old.count[k] + old.inc[k]
      BY <1>1, <1>4, <1>9, <2>4, CountsType DEF TypeOK, Session
    <3>6. old.count[k] \in Nat /\ old.inc[k] \in Nat
      BY <1>4 DEF Counts
    <3> HIDE DEF S, T, U
    <3>7. Cardinality(U) = Cardinality(S) + Cardinality(T)
      <4>1. Cardinality(U) = Cardinality(S \cup T)
        BY <3>1
      <4> QED
        BY <2>3, <3>2, <3>3, <4>1
    <3>8. sessions'[s].count[k] <= Cardinality(U)
      BY <2>3, <3>4, <3>5, <3>6, <3>7
    <3> QED
      BY <3>8 DEF U
  <2>5. CASE s # s0
    <3>1. sessions'[s] = sessions[s]
      BY <1>1, <1>9, <2>5 DEF TypeOK
    <3>2. sessions[s].count[k] <= Cardinality(S) /\ sessions[s].count[k] \in Nat
      BY <1>1 DEF IInv, CountsWithinReviews, TypeOK, Session, Counts
    <3>3. S \subseteq U
      BY <1>3 DEF ReviewsOf
    <3>4. Cardinality(S) <= Cardinality(U)
      BY <2>2, <3>3, FS_Subset
    <3> HIDE DEF S, U
    <3>5. sessions'[s].count[k] <= Cardinality(U)
      BY <2>3, <3>1, <3>2, <3>4
    <3> QED
      BY <3>5 DEF U
  <2> QED
    BY <2>4, <2>5
<1>14. CardStateHasItsLog'
  <2> SUFFICES ASSUME NEW c \in Cards, cards'[c].life = "live",
                      cards'[c].by # None
               PROVE  \E l \in logs' : l.by = cards'[c].by /\ l.card = c
    BY DEF CardStateHasItsLog
  <2>1. CASE old.mine[c] = None
    BY <1>3, <1>10, <2>1 DEF IInv, CardStateHasItsLog
  <2>2. CASE old.mine[c] # None
    BY <1>3, <1>5, <1>6, <1>10, <2>2
  <2> QED
    BY <2>1, <2>2
<1>15. ReviewsAcknowledged'
  <2> SUFFICES ASSUME NEW s \in Requests, req'[s].pc = "ok",
                      req'[s].kind = "submit"
               PROVE  \E l \in reviews' :
                        /\ l.by = s /\ l.session = req'[s].session
                        /\ l \in logs' \/ cards'[l.card].life = "deleted"
    BY DEF ReviewsAcknowledged
  <2>1. CASE s = r
    <3>1. old.kind = "submit" /\ req'[r].session = s0
      BY <1>3, <2>1, AnsweredRequest DEF old, s0
    <3>2. old.logged # {}
      BY <1>2, <3>1
    <3> QED
      BY <1>3, <1>5, <2>1, <3>1, <3>2
  <2>2. CASE s # r
    <3>1. req'[s] = req[s]
      BY <1>3, <2>2, AnsweredRequest
    <3>2. PICK l \in reviews : /\ l.by = s /\ l.session = req[s].session
                               /\ l \in logs \/ cards[l.card].life = "deleted"
      BY <3>1 DEF IInv, ReviewsAcknowledged
    <3>3. l.card \in Cards
      BY <1>1 DEF TypeOK, Review
    <3> QED
      BY <1>3, <1>10, <3>1, <3>2, <3>3
  <2> QED
    BY <2>1, <2>2
<1>16. NoOrphans'
  <2>1. \A l \in logs : l.card \in Cards /\ cards[l.card].life = "live"
    BY <1>1 DEF IInv, NoOrphans, TypeOK, Review
  <2>2. \A l \in old.logged : l.card \in Cards /\ cards[l.card].life = "live"
    BY <1>4, <1>5, <1>6 DEF Review
  <2> QED
    BY <1>3, <1>10, <2>1, <2>2 DEF NoOrphans
<1> QED
  BY <1>3, <1>7, <1>11, <1>12, <1>13, <1>14, <1>15, <1>16 DEF IInv

\* Statements that change sessions, not cards: counters as they were read by
\* some request, or a session not used before.
LEMMA EndWriteStep ==
  ASSUME IInv, NEW r \in Requests, EndWrite(r)
  PROVE  IInv'
<1>1. /\ req[r] \in Request /\ RequestOK(r) /\ RequestCounts(r) /\ TypeOK
      /\ req[r].pc = "end"
  BY DEF IInv, TypeOK, EndWrite
<1>2. req[r].session \in Sessions /\ UnderWay(r) /\ req[r].kind = "end"
  BY <1>1 DEF RequestOK, UnderWay
<1>3. /\ cards' = cards /\ logs' = logs /\ reviews' = reviews /\ edits' = edits
      /\ Answered(r)
      /\ sessions' = [sessions EXCEPT ![req[r].session] =
                        [@ EXCEPT !.ended = TRUE, !.count = req[r].count]]
  BY DEF EndWrite, NoCount
<1>4. /\ req' \in [Requests -> Request]
      /\ req'[r].kind = "end"
      /\ \A s \in Requests \ {r} : req'[s] = req[s]
      /\ (RequestOK(r) /\ PendingOK(r) /\ RequestCounts(r))'
  BY <1>2, <1>3, AnsweredRequest
<1>5. req[r].count \in Counts
  BY <1>1 DEF Request
<1>6. /\ sessions' \in [Sessions -> Session]
      /\ sessions'[req[r].session].count = req[r].count
      /\ \A s \in Sessions \ {req[r].session} : sessions'[s] = sessions[s]
  BY <1>1, <1>2, <1>3, <1>5 DEF TypeOK, Session
<1>7. TypeOK'
  BY <1>1, <1>3, <1>4, <1>6 DEF TypeOK
<1>8. \A s \in Requests : (RequestOK(s) /\ PendingOK(s) /\ RequestCounts(s))'
  BY <1>3, <1>4, OtherRequest DEF IInv
<1>9. CountsWithinReviews'
  BY <1>1, <1>2, <1>3, <1>6 DEF IInv, CountsWithinReviews, RequestCounts, ReviewsOf
<1>10. ReviewsAcknowledged'
  BY <1>3, <1>4 DEF IInv, ReviewsAcknowledged
<1>11. CardStateHasItsLog' /\ NoOrphans'
  BY <1>3 DEF IInv, CardStateHasItsLog, NoOrphans
<1> QED
  BY <1>3, <1>7, <1>8, <1>9, <1>10, <1>11 DEF IInv

\* A new session counts nothing.
LEMMA StartSessionStep ==
  ASSUME IInv, NEW u \in Users, NEW s \in Sessions, StartSession(u, s)
  PROVE  IInv'
<1>1. /\ cards' = cards /\ logs' = logs /\ reviews' = reviews /\ edits' = edits
      /\ req' = req /\ sessions' = [sessions EXCEPT ![s].user = u]
  BY DEF StartSession, NoCount
<1>2. TypeOK
  BY DEF IInv
<1>3. /\ sessions' \in [Sessions -> Session]
      /\ \A t \in Sessions : sessions'[t].count = sessions[t].count
  BY <1>1, <1>2 DEF TypeOK, Session
<1>4. TypeOK'
  BY <1>1, <1>2, <1>3 DEF TypeOK
<1>5. \A r \in Requests : (RequestOK(r) /\ PendingOK(r) /\ RequestCounts(r))'
  BY <1>1, OtherRequest DEF IInv
<1>6. (CountsWithinReviews /\ CardStateHasItsLog /\ ReviewsAcknowledged /\ NoOrphans)'
  BY <1>1, <1>3 DEF IInv, CountsWithinReviews, ReviewsOf, CardStateHasItsLog,
                    ReviewsAcknowledged, NoOrphans
<1> QED
  BY <1>1, <1>4, <1>5, <1>6 DEF IInv

\* The owner's edits wait for the locks of open transactions.
LEMMA CardEditStep ==
  ASSUME IInv, NEW c \in Cards, SetSuspended(c) \/ ResetFSRS(c) \/ DeleteCard(c)
  PROVE  IInv'
<1>1. /\ sessions' = sessions /\ req' = req /\ reviews' = reviews
      /\ edits' = edits + 1 /\ edits < MaxEdits
      /\ cards[c].life = "live" /\ \A r \in Requests : ~Locks(r, c)
  BY DEF SetSuspended, ResetFSRS, DeleteCard, Edit
<1>2. TypeOK
  BY DEF IInv
<1>3. /\ cards' \in [Cards -> Card]
      /\ \A d \in Cards \ {c} : cards'[d] = cards[d]
      /\ cards'[c].by \in {cards[c].by, None}
      /\ \/ cards'[c].life = "live" /\ logs' = logs
         \/ cards'[c].life = "deleted" /\ logs' = {l \in logs : l.card # c}
  <2>1. CASE SetSuspended(c)
    BY <1>1, <1>2, <2>1 DEF SetSuspended, TypeOK, Card
  <2>2. CASE ResetFSRS(c)
    BY <1>1, <1>2, <2>2 DEF ResetFSRS, TypeOK, Card, CardStates
  <2>3. CASE DeleteCard(c)
    BY <1>1, <1>2, <2>3 DEF DeleteCard, TypeOK, Card
  <2> QED
    BY <2>1, <2>2, <2>3
<1>4. TypeOK'
  BY <1>1, <1>2, <1>3, ConstantsOK DEF TypeOK
<1>5. \A r \in Requests : (RequestOK(r) /\ PendingOK(r) /\ RequestCounts(r))'
  <2>1. ASSUME NEW r \in Requests, NEW d \in Cards, Locks(r, d),
               cards[d].life = "live"
        PROVE  cards'[d].life = "live"
    BY <1>1, <1>3, <2>1
  <2> QED
    BY <1>1, <2>1, OtherRequest DEF IInv
<1>6. CountsWithinReviews'
  BY <1>1 DEF IInv, CountsWithinReviews, ReviewsOf
<1>7. CardStateHasItsLog'
  <2> SUFFICES ASSUME NEW d \in Cards, cards'[d].life = "live",
                      cards'[d].by # None
               PROVE  \E l \in logs' : l.by = cards'[d].by /\ l.card = d
    BY DEF CardStateHasItsLog
  <2>1. cards[d].life = "live" /\ cards'[d].by = cards[d].by
    BY <1>1, <1>3
  <2>2. PICK l \in logs : l.by = cards[d].by /\ l.card = d
    BY <2>1 DEF IInv, CardStateHasItsLog
  <2>3. l \in logs'
    BY <1>3, <2>2
  <2> QED
    BY <2>1, <2>2, <2>3
<1>8. ReviewsAcknowledged'
  <2> SUFFICES ASSUME NEW r \in Requests, req[r].pc = "ok",
                      req[r].kind = "submit"
               PROVE  \E l \in reviews :
                        /\ l.by = r /\ l.session = req[r].session
                        /\ l \in logs' \/ cards'[l.card].life = "deleted"
    BY <1>1 DEF ReviewsAcknowledged
  <2>1. PICK l \in reviews : /\ l.by = r /\ l.session = req[r].session
                             /\ l \in logs \/ cards[l.card].life = "deleted"
    BY DEF IInv, ReviewsAcknowledged
  <2>2. l.card \in Cards
    BY <1>2 DEF TypeOK, Review
  <2> QED
    BY <1>1, <1>3, <2>1, <2>2
<1>9. NoOrphans'
  <2>1. \A l \in logs : l.card \in Cards
    BY <1>2 DEF TypeOK, Review
  <2> QED
    BY <1>3, <2>1 DEF IInv, NoOrphans
<1> QED
  BY <1>1, <1>3, <1>4, <1>5, <1>6, <1>7, <1>8, <1>9 DEF IInv
----------------------------------------------------------------------------
\* The initial states satisfy the invariant.
LEMMA InitIInv == Init => IInv
<1> SUFFICES ASSUME Init PROVE IInv
  OBVIOUS
<1>1. TypeOK
  <2>1. sessions \in [Sessions -> Session]
    <3>1. FreeSession \in Session
      BY CountsType DEF FreeSession, Session
    <3>2. \A u \in Users : [FreeSession EXCEPT !.user = u] \in Session
      BY <3>1 DEF Session
    <3> QED
      BY <3>1, <3>2 DEF Init
  <2>2. cards \in [Cards -> Card]
    BY DEF Init, Card, CardStates
  <2> QED
    BY <2>1, <2>2, NewRequestType, ConstantsOK DEF Init, TypeOK
<1>2. /\ NewRequest.pc = "new" /\ NewRequest.logged = {}
      /\ NewRequest.inc = Zero /\ \A c \in Cards : NewRequest.mine[c] = None
  BY DEF NewRequest
<1>3. IsFiniteSet({}) /\ Cardinality({}) = 0
  BY FS_EmptySet
<1>4. \A k \in Kinds : OfKind({}, k) = {}
  BY DEF OfKind
<1>5. ASSUME NEW r \in Requests
      PROVE  RequestOK(r) /\ PendingOK(r) /\ RequestCounts(r)
  <2>1. req[r] = NewRequest /\ reviews = {}
    BY DEF Init
  <2>2. \A k \in Kinds : Zero[k] = Cardinality(OfKind({}, k))
    <3>1. \A k \in Kinds : Cardinality(OfKind({}, k)) = 0 /\ Zero[k] = 0
      BY <1>3, <1>4, CountsType
    <3> QED
      BY <3>1
  <2>3. RequestOK(r) /\ RequestCounts(r)
    BY <1>2, <2>1 DEF RequestOK, RequestCounts, UnderWay, InTx
  <2>4. PendingOK(r)
    BY <1>2, <1>3, <2>1, <2>2 DEF PendingOK
  <2> QED
    BY <2>3, <2>4
<1>6. CountsWithinReviews
  <2>1. \A s \in Sessions, k \in Kinds : ReviewsOf(s, k) = {}
    BY DEF Init, ReviewsOf
  <2>2. \A s \in Sessions : sessions[s].count = Zero
    BY DEF Init, FreeSession
  <2> QED
    BY <1>3, <2>1, <2>2, CountsType DEF CountsWithinReviews
<1>7. CardStateHasItsLog /\ ReviewsAcknowledged /\ NoOrphans
  BY <1>2 DEF Init, CardStateHasItsLog, ReviewsAcknowledged, NoOrphans
<1> QED
  BY <1>1, <1>3, <1>5, <1>6, <1>7 DEF Init, IInv

\* A stuttering step keeps the invariant.
LEMMA StutterStep == IInv /\ UNCHANGED vars => IInv'
<1> SUFFICES ASSUME IInv, UNCHANGED vars PROVE IInv'
  OBVIOUS
<1>1. /\ sessions' = sessions /\ cards' = cards /\ logs' = logs /\ req' = req
      /\ reviews' = reviews /\ edits' = edits
  BY DEF vars, db
<1>2. \A r \in Requests : (RequestOK(r) /\ PendingOK(r) /\ RequestCounts(r))'
  BY <1>1, OtherRequest DEF IInv
<1>3. TypeOK'
  BY <1>1 DEF IInv, TypeOK
<1>4. (CountsWithinReviews /\ CardStateHasItsLog /\ ReviewsAcknowledged /\ NoOrphans)'
  BY <1>1 DEF IInv, CountsWithinReviews, ReviewsOf, CardStateHasItsLog,
              ReviewsAcknowledged, NoOrphans
<1> QED
  BY <1>1, <1>2, <1>3, <1>4 DEF IInv

\* Every step keeps the invariant: one case per action.
LEMMA StepIInv == IInv /\ [Next]_vars => IInv'
<1> SUFFICES ASSUME IInv, [Next]_vars PROVE IInv'
  OBVIOUS
<1>1. ASSUME NEW r \in Requests, Arrive(r) PROVE IInv'
  BY <1>1, LoadSessionStep DEF Arrive
<1>2. ASSUME NEW r \in Requests, Step(r) \/ Fail(r) PROVE IInv'
  BY <1>2, LoadCardStep, BatchSkipItemStep, ReviewWriteStep, CommitReviewsStep,
     EndWriteStep DEF Step
<1>3. ASSUME NEW u \in Users, NEW s \in Sessions, StartSession(u, s) PROVE IInv'
  BY <1>3, StartSessionStep
<1>4. CASE CardEdit
  BY <1>4, CardEditStep DEF CardEdit
<1>5. CASE UNCHANGED vars
  BY <1>5, StutterStep
<1> QED
  BY <1>1, <1>2, <1>3, <1>4, <1>5 DEF Next

\* A session is written when it starts, by the commit of reviews, and when it
\* ends; reviews only by their commit.
LEMMA WritersOfSessions ==
  ASSUME Next
  PROVE  \/ UNCHANGED <<sessions, reviews>>
         \/ \E u \in Users, s \in Sessions : StartSession(u, s)
         \/ \E r \in Requests : CommitReviews(r)
         \/ \E r \in Requests : EndWrite(r)
<1>1. ASSUME NEW r \in Requests, Arrive(r) \/ Fail(r)
      PROVE  UNCHANGED <<sessions, reviews>>
  BY <1>1 DEF Arrive, SubmitLoadSession, BatchLoadSession, EndLoadSession,
              LoadSession, Fail, db, NoCount
<1>2. ASSUME NEW r \in Requests, Step(r)
      PROVE  UNCHANGED <<sessions, reviews>> \/ CommitReviews(r) \/ EndWrite(r)
  BY <1>2 DEF Step, SubmitLoadCard, BatchLoadCard, BatchSkipItem, ReviewWrite,
              DeadlockAbort, BatchAborted, db, NoCount
<1>3. CardEdit => UNCHANGED <<sessions, reviews>>
  BY DEF CardEdit, SetSuspended, ResetFSRS, DeleteCard, Edit
<1> QED
  BY <1>1, <1>2, <1>3 DEF Next

(***************************************************************************)
(* Whatever the requests and the card owners do, in any order, IInv holds. *)
(***************************************************************************)
THEOREM Inductive == Spec => []IInv
BY InitIInv, StepIInv, PTL DEF Spec

\* Every row and every request keeps its type.
THEOREM TypeCorrect == Spec => []TypeOK
<1>1. IInv => TypeOK
  BY DEF IInv
<1> QED
  BY <1>1, Inductive, PTL

(***************************************************************************)
(* A session never counts a review that was not committed (SubmitReview,   *)
(* BatchReview and EndSession, for any number of them at once).            *)
(***************************************************************************)
THEOREM CountsNeverInvented == Spec => []CountsWithinReviews
<1>1. IInv => CountsWithinReviews
  BY DEF IInv
<1> QED
  BY <1>1, Inductive, PTL

\* A card's state and the log of the review it came from are never parted.
THEOREM CardStateAlwaysLogged == Spec => []CardStateHasItsLog
<1>1. IInv => CardStateHasItsLog
  BY DEF IInv
<1> QED
  BY <1>1, Inductive, PTL

\* What SubmitReview reports as done is logged in its session.
THEOREM ReviewsStored == Spec => []ReviewsAcknowledged
<1>1. IInv => ReviewsAcknowledged
  BY DEF IInv
<1> QED
  BY <1>1, Inductive, PTL

\* No log outlives its card, even when a review races the deletion.
THEOREM NothingOrphaned == Spec => []NoOrphans
<1>1. IInv => NoOrphans
  BY DEF IInv
<1> QED
  BY <1>1, Inductive, PTL

(***************************************************************************)
(* A session once ended stays so: of all that write a session, only        *)
(* EndSession touches ended_at, and only to set it.                        *)
(***************************************************************************)
THEOREM EndIsFinal == Spec => EndedStaysEnded
<1> DEFINE Stays == \A s \in Sessions : sessions[s].ended => sessions'[s].ended
<1>1. IInv /\ [Next]_vars => [Stays]_vars
  <2> SUFFICES ASSUME IInv, Next, NEW s \in Sessions, sessions[s].ended
               PROVE  sessions'[s].ended
    OBVIOUS
  <2>1. sessions \in [Sessions -> Session] /\ sessions[s] \in Session
    BY DEF IInv, TypeOK
  <2>2. CASE UNCHANGED sessions
    BY <2>2
  <2>3. ASSUME NEW u \in Users, NEW t \in Sessions, StartSession(u, t)
        PROVE  sessions'[s].ended
    <3>1. sessions' = [sessions EXCEPT ![t].user = u]
      BY <2>3 DEF StartSession
    <3> QED
      BY <2>1, <3>1
  <2>4. ASSUME NEW r \in Requests, CommitReviews(r)
        PROVE  sessions'[s].ended
    <3>1. sessions' = [sessions EXCEPT ![req[r].session].count =
                         req[r].count ++ req[r].inc]
      BY <2>4 DEF CommitReviews
    <3> QED
      BY <2>1, <3>1
  <2>5. ASSUME NEW r \in Requests, EndWrite(r)
        PROVE  sessions'[s].ended
    <3>1. sessions' = [sessions EXCEPT ![req[r].session] =
                         [@ EXCEPT !.ended = TRUE, !.count = req[r].count]]
      BY <2>5 DEF EndWrite
    <3> QED
      BY <2>1, <3>1
  <2> QED
    BY <2>2, <2>3, <2>4, <2>5, WritersOfSessions
<1> QED
  BY <1>1, Inductive, PTL DEF Spec, EndedStaysEnded

(***************************************************************************)
(* Only the owner's own statement suspends or revives a card: no step of a *)
(* request does.                                                           *)
(***************************************************************************)
THEOREM SuspensionIsTheOwners == Spec => SuspensionKept
<1> DEFINE Kept == \A c \in Cards :
                     cards'[c].suspended # cards[c].suspended => req' = req
<1>1. IInv /\ [Next]_vars => [Kept]_vars
  <2> SUFFICES ASSUME IInv, Next, req' # req, NEW c \in Cards
               PROVE  cards'[c].suspended = cards[c].suspended
    OBVIOUS
  <2>1. cards \in [Cards -> Card] /\ cards[c] \in Card
    BY DEF IInv, TypeOK
  <2>2. ASSUME NEW r \in Requests, CommitReviews(r)
        PROVE  cards'[c].suspended = cards[c].suspended
    <3>1. cards'[c] = IF req[r].mine[c] = None THEN cards[c]
                      ELSE [cards[c] EXCEPT !.state = req[r].mine[c], !.by = r]
      BY <2>2 DEF CommitReviews
    <3> QED
      BY <2>1, <3>1 DEF Card
  <2>3. ASSUME NEW r \in Requests, Arrive(r) \/ Fail(r) \/ Step(r)
        PROVE  UNCHANGED cards \/ CommitReviews(r)
    BY <2>3 DEF Arrive, SubmitLoadSession, BatchLoadSession, EndLoadSession,
                LoadSession, Fail, Step, SubmitLoadCard, BatchLoadCard,
                BatchSkipItem, ReviewWrite, DeadlockAbort, BatchAborted,
                EndWrite, db
  <2>4. /\ CardEdit => req' = req
        /\ \A u \in Users, s \in Sessions : StartSession(u, s) => req' = req
    BY DEF CardEdit, SetSuspended, ResetFSRS, DeleteCard, Edit, StartSession
  <2> QED
    BY <2>2, <2>3, <2>4 DEF Next
<1> QED
  BY <1>1, Inductive, PTL DEF Spec, SuspensionKept

------------------------------------------------------------------------------
(***************************************************************************)
(* One request at a time, StudySession implements SessionLedger.           *)
(***************************************************************************)
\* Requests other than the one that moves, about a session nobody wrote.
LEMMA OthersKept ==
  ASSUME NEW r \in Requests, SerialOK(r), req'[r] = req[r],
         UnderWay(r) => sessions'[req[r].session] = sessions[req[r].session]
  PROVE  SerialOK(r)'
BY DEF SerialOK, UnderWay

\* A request that has ended is about no session.
LEMMA EndedOK ==
  ASSUME IInv, NEW r \in Requests, ~UnderWay(r), PendingOK(r)
  PROVE  SerialOK(r)
<1>1. req[r].pc \notin InTx /\ req[r].inc = Zero
  BY DEF PendingOK, UnderWay
<1> QED
  BY <1>1, CountsType DEF SerialOK

\* The same after a step.
LEMMA EndedOKNext ==
  ASSUME IInv', NEW r \in Requests, UnderWay(r)' = FALSE
  PROVE  SerialOK(r)'
<1>1. PendingOK(r)'
  BY DEF IInv
<1>2. req'[r].pc \notin InTx /\ req'[r].inc = Zero
  BY <1>1 DEF PendingOK, UnderWay
<1>3. \A k \in Kinds : req'[r].inc[k] = 0
  BY <1>2, CountsType
<1> QED
  BY <1>2, <1>3 DEF SerialOK, UnderWay

\* One step of request r that changes no session.
LEMMA RequestMoves ==
  ASSUME IInv, IInv', SerialIInv, NEW r \in Requests, Arrive(r) \/ Step(r) \/ Fail(r),
         UNCHANGED sessions
  PROVE  /\ SerialOK(r)'
         /\ \A s \in Requests \ {r} : req'[s] = req[s]
<1>1. /\ req \in [Requests -> Request] /\ req[r] \in Request
      /\ RequestOK(r) /\ PendingOK(r) /\ SerialOK(r)
  BY DEF IInv, TypeOK, SerialIInv
<1>2. ASSUME NEW how \in Ended, End(r, how)
      PROVE  SerialOK(r)' /\ \A s \in Requests \ {r} : req'[s] = req[s]
  <2>1. /\ req'[r].pc = how
        /\ \A s \in Requests \ {r} : req'[s] = req[s]
    BY <1>1, <1>2 DEF End, NewRequest
  <2>2. UnderWay(r)' = FALSE
    BY <2>1 DEF UnderWay, InTx, Ended
  <2> QED
    BY <2>1, <2>2, EndedOKNext
<1>3. ASSUME Answered(r)
      PROVE  SerialOK(r)' /\ \A s \in Requests \ {r} : req'[s] = req[s]
  <2>1. /\ req'[r].pc = "ok"
        /\ \A s \in Requests \ {r} : req'[s] = req[s]
    BY <1>3, AnsweredRequest
  <2>2. UnderWay(r)' = FALSE
    BY <2>1 DEF UnderWay, InTx
  <2> QED
    BY <2>1, <2>2, EndedOKNext
<1>4. ASSUME NEW u \in Users, NEW t \in Sessions,
             NEW kind \in {"submit", "batch", "end"}, NEW next \in {"card", "item", "end"},
             LoadSession(r, u, t, kind, next), ~End(r, "refused"),
             kind = "batch" <=> next = "item"
      PROVE  SerialOK(r)' /\ \A s \in Requests \ {r} : req'[s] = req[s]
  <2> DEFINE items == IF kind = "batch" THEN MaxItems ELSE 0
             new == [req[r] EXCEPT !.pc = next, !.kind = kind, !.session = t,
                                   !.count = sessions[t].count, !.item = items]
  <2>1. req' = [req EXCEPT ![r] = new] /\ Usable(t, u) /\ req[r].pc = "new"
    BY <1>4 DEF LoadSession
  <2>2. /\ req'[r].pc = next /\ req'[r].kind = kind /\ req'[r].session = t
        /\ req'[r].count = sessions[t].count /\ req'[r].item = items
        /\ req'[r].inc = req[r].inc
        /\ \A s \in Requests \ {r} : req'[s] = req[s]
    BY <1>1, <2>1 DEF Request
  <2>3. sessions[t].user # None /\ ~sessions[t].ended
    BY <2>1, ConstantsOK DEF Usable
  <2>4. req[r].inc = Zero
    BY <1>1, <2>1 DEF PendingOK, InTx
  <2>5. \A k \in Kinds : req'[r].inc[k] = 0
    BY <2>2, <2>4, CountsType
  <2>6. items \in Nat /\ (kind = "batch" => items = MaxItems)
    BY ConstantsOK
  <2> HIDE DEF items, new
  <2>7. SerialOK(r)'
    BY <2>2, <2>3, <2>5, <2>6, ConstantsOK DEF SerialOK, UnderWay, InTx
  <2> QED
    BY <2>2, <2>7
<1>5. ASSUME NEW new \in Request, req' = [req EXCEPT ![r] = new], UnderWay(r),
             new.session = req[r].session, new.count = req[r].count,
             new.kind = req[r].kind, new.inc = req[r].inc,
             new.item <= req[r].item, new.pc \in InTx,
             req[r].pc = "card" => req[r].kind = "submit"
      PROVE  SerialOK(r)' /\ \A s \in Requests \ {r} : req'[s] = req[s]
  <2>1. req'[r] = new /\ \A s \in Requests \ {r} : req'[s] = req[s]
    BY <1>1, <1>5
  <2>2. req[r].kind = "batch" => req[r].pc \in InTx
    BY <1>1, <1>5 DEF UnderWay, RequestOK
  <2>3. /\ new.item \in Nat /\ req[r].item \in Nat
        /\ \A k \in Kinds : req[r].inc[k] \in Nat
    BY <1>1, ConstantsOK DEF Request, Counts
  <2>4. \A k \in Kinds : req[r].inc[k] + req[r].item <= MaxItems
                           => req[r].inc[k] + new.item <= MaxItems
    BY <1>5, <2>3, ConstantsOK
  <2>5. SerialOK(r)'
    BY <1>1, <1>5, <2>1, <2>2, <2>4 DEF SerialOK, UnderWay
  <2> QED
    BY <2>1, <2>5
<1>6. CASE Arrive(r)
  <2>1. PICK u \in Users, t \in Sessions :
          \/ SubmitLoadSession(r, u, t) \/ BatchLoadSession(r, u, t)
          \/ EndLoadSession(r, u, t)
    BY <1>6 DEF Arrive
  <2> QED
    BY <1>2, <1>4, <2>1
       DEF SubmitLoadSession, BatchLoadSession, EndLoadSession, Ended
<1>7. ASSUME NEW c \in Cards, SubmitLoadCard(r, c) \/ BatchLoadCard(r, c)
      PROVE  SerialOK(r)' /\ \A s \in Requests \ {r} : req'[s] = req[s]
  <2>1. CASE End(r, "refused")
    BY <1>2, <2>1 DEF Ended
  <2>2. ASSUME NEW before \in CardStates, NEW sent \in SentStates,
               Reviewing(r, c, before, sent), req[r].pc \in {"card", "item"}
        PROVE  SerialOK(r)' /\ \A s \in Requests \ {r} : req'[s] = req[s]
    <3> DEFINE new == [req[r] EXCEPT !.pc = "write", !.card = c,
                                     !.state = before, !.sent = sent]
    <3>1. req' = [req EXCEPT ![r] = new]
      BY <2>2 DEF Reviewing
    <3>2. new \in Request
      BY <1>1, ConstantsOK DEF Request, InTx
    <3>3. /\ new.session = req[r].session /\ new.count = req[r].count
          /\ new.kind = req[r].kind /\ new.inc = req[r].inc
          /\ new.item = req[r].item /\ new.pc = "write" /\ req[r].item \in Nat
      BY <1>1, ConstantsOK DEF Request
    <3>4. UnderWay(r) /\ (req[r].pc = "card" => req[r].kind = "submit")
      BY <1>1, <2>2 DEF UnderWay, InTx, RequestOK
    <3>5. new.item <= req[r].item /\ new.pc \in InTx
      BY <3>3 DEF InTx
    <3> HIDE DEF new
    <3> QED
      BY <1>5, <3>1, <3>2, <3>3, <3>4, <3>5
  <2>3. cards[c].state \in CardStates
        /\ req[r].mine[c] \in CardStates \cup {None}
    BY <1>1 DEF IInv, TypeOK, Card, Request
  <2> QED
    BY <1>7, <2>1, <2>2, <2>3 DEF SubmitLoadCard, BatchLoadCard
<1>8. CASE BatchSkipItem(r)
  <2> DEFINE new == [req[r] EXCEPT !.item = @ - 1]
  <2>1. req' = [req EXCEPT ![r] = new] /\ req[r].pc = "item" /\ req[r].item > 0
    BY <1>1, <1>8 DEF BatchSkipItem
  <2>2. req[r].item - 1 \in 0..MaxItems /\ req[r].item - 1 <= req[r].item
    BY <1>1, <2>1, ConstantsOK DEF Request
  <2>3. new \in Request
    BY <1>1, <2>2 DEF Request
  <2>4. /\ new.session = req[r].session /\ new.count = req[r].count
        /\ new.kind = req[r].kind /\ new.inc = req[r].inc
        /\ new.item = req[r].item - 1 /\ new.pc = "item"
    BY <1>1, <2>1 DEF Request
  <2> HIDE DEF new
  <2> QED
    BY <1>5, <2>1, <2>2, <2>3, <2>4 DEF UnderWay, InTx
<1>9. ASSUME ReviewFailed(r), req[r].pc = "write"
      PROVE  SerialOK(r)' /\ \A s \in Requests \ {r} : req'[s] = req[s]
  <2>1. CASE req[r].kind = "batch"
    <3> DEFINE new == [req[r] EXCEPT !.pc = "doomed"]
    <3>1. req' = [req EXCEPT ![r] = new]
      BY <1>1, <1>9, <2>1 DEF ReviewFailed
    <3>2. new \in Request
      BY <1>1 DEF Request, InTx
    <3>3. /\ new.session = req[r].session /\ new.count = req[r].count
          /\ new.kind = req[r].kind /\ new.inc = req[r].inc
          /\ new.item = req[r].item /\ new.pc = "doomed" /\ req[r].item \in Nat
      BY <1>1, ConstantsOK DEF Request
    <3>4. new.item <= req[r].item
      BY <3>3
    <3> HIDE DEF new
    <3> QED
      BY <1>5, <1>9, <3>1, <3>2, <3>3, <3>4 DEF UnderWay, InTx
  <2>2. CASE req[r].kind # "batch"
    BY <1>2, <1>9, <2>2 DEF ReviewFailed, Ended
  <2> QED
    BY <2>1, <2>2
<1>10. ASSUME Reviewed(r), req[r].pc = "write"
       PROVE  SerialOK(r)' /\ \A s \in Requests \ {r} : req'[s] = req[s]
  <2> DEFINE k0 == KindOf[req[r].state]
             new == [req[r] EXCEPT
                       !.pc = IF req[r].kind = "batch" THEN "item" ELSE "commit",
                       !.item = IF req[r].kind = "batch" THEN req[r].item - 1
                                                         ELSE req[r].item,
                       !.inc = req[r].inc ++ One(k0),
                       !.mine[req[r].card] = req[r].sent,
                       !.logged = req[r].logged \cup {ReviewLog(r)}]
  <2>1. req' = [req EXCEPT ![r] = new]
    BY <1>10 DEF Reviewed
  <2>2. /\ req'[r] = new
        /\ \A s \in Requests \ {r} : req'[s] = req[s]
    BY <1>1, <2>1
  <2>3. /\ new.session = req[r].session /\ new.count = req[r].count
        /\ new.kind = req[r].kind /\ new.inc = req[r].inc ++ One(k0)
        /\ new.item = IF req[r].kind = "batch" THEN req[r].item - 1
                                               ELSE req[r].item
        /\ req[r].item \in Nat /\ req[r].inc \in Counts
    BY <1>1, ConstantsOK DEF Request
  <2> HIDE DEF new
  <2>4. k0 \in Kinds
    BY <1>1, KindType DEF Request
  <2>5. \A k \in Kinds : /\ One(k0)[k] \in 0..1 /\ req[r].inc[k] \in Nat
                         /\ new.inc[k] = req[r].inc[k] + One(k0)[k]
    BY <2>3, <2>4, CountsType DEF One, Zero, Counts
  <2> HIDE DEF k0
  <2>6. UnderWay(r) /\ req[r].pc \in InTx
    BY <1>10 DEF UnderWay, InTx
  <2>7. CASE req[r].kind = "batch"
    <3>1. \A k \in Kinds : req[r].inc[k] + req[r].item <= MaxItems
      BY <1>1, <2>6, <2>7 DEF SerialOK
    <3>2. \A k \in Kinds : new.inc[k] + new.item <= MaxItems
      BY <2>3, <2>5, <2>7, <3>1, ConstantsOK
    <3> QED
      BY <1>1, <2>2, <2>3, <2>6, <2>7, <3>2 DEF SerialOK, UnderWay
  <2>8. CASE req[r].kind # "batch"
    <3>1. req[r].logged = {}
      BY <1>1, <1>10, <2>8 DEF RequestOK
    <3>2. \A k \in Kinds : req[r].inc[k] = 0
      <4>1. \A k \in Kinds : OfKind({}, k) = {}
        BY DEF OfKind
      <4> QED
        BY <1>1, <3>1, <4>1, FS_EmptySet DEF PendingOK
    <3>3. \A k \in Kinds : new.inc[k] <= 1
      BY <2>5, <3>2
    <3> QED
      BY <1>1, <2>2, <2>3, <2>6, <2>8, <3>3 DEF SerialOK, UnderWay
  <2> QED
    BY <2>7, <2>8
<1>11. CASE ReviewWrite(r) \/ DeadlockAbort(r)
  BY <1>9, <1>10, <1>11 DEF ReviewWrite, DeadlockAbort, InDeadlock, WaitsFor
<1>12. CASE BatchAborted(r) \/ Fail(r)
  BY <1>2, <1>12 DEF BatchAborted, Fail, Ended
<1>13. CASE CommitReviews(r) \/ EndWrite(r)
  BY <1>3, <1>13 DEF CommitReviews, EndWrite
<1> QED
  BY <1>6, <1>7, <1>8, <1>11, <1>12, <1>13 DEF Step

\* What a request has read of a session is still so when another one moves.
LEMMA OtherSerial ==
  ASSUME IInv, SerialIInv, NEW r \in Requests, NEW s \in Requests \ {r},
         req'[s] = req[s], UnderWay(r), NEW t \in Sessions, t = req[r].session,
         \A u \in Sessions \ {t} : sessions'[u] = sessions[u]
  PROVE  SerialOK(s)'
<1>1. UnderWay(s) => req[s].session \in Sessions /\ req[s].session # t
  BY DEF SerialIInv, OneAtATime, IInv, RequestOK
<1> QED
  BY <1>1, OthersKept DEF SerialIInv

\* No request is under way in the initial states.
LEMMA InitSerial == Init => SerialIInv
<1> SUFFICES ASSUME Init PROVE SerialIInv
  OBVIOUS
<1>1. IInv
  BY InitIInv
<1>2. \A r \in Requests : ~UnderWay(r)
  BY DEF Init, NewRequest, UnderWay, InTx
<1>3. \A r \in Requests : SerialOK(r)
  BY <1>1, <1>2, EndedOK DEF IInv
<1>4. CountsAreExact
  <2>1. \A s \in Sessions, k \in Kinds : ReviewsOf(s, k) = {}
    BY DEF Init, ReviewsOf
  <2>2. \A s \in Sessions : sessions[s].count = Zero
    BY DEF Init, FreeSession
  <2>3. Cardinality({}) = 0
    BY FS_EmptySet
  <2> QED
    BY <2>1, <2>2, <2>3, CountsType DEF CountsAreExact
<1> QED
  BY <1>2, <1>3, <1>4 DEF SerialIInv, OneAtATime

\* A commit counts what it logs, in a session nobody else has written since.
LEMMA CommitIsExact ==
  ASSUME IInv, SerialIInv, NEW r \in Requests, CommitReviews(r)
  PROVE  CountsAreExact'
<1> DEFINE old == req[r]
           s0 == old.session
<1>1. /\ old \in Request /\ RequestOK(r) /\ PendingOK(r) /\ RequestCounts(r)
      /\ TypeOK /\ SerialOK(r)
  BY DEF IInv, TypeOK, SerialIInv
<1>2. /\ old.pc \in {"commit", "item"} /\ UnderWay(r) /\ s0 \in Sessions
  BY <1>1 DEF CommitReviews, RequestOK, UnderWay, InTx
<1>3. /\ reviews' = reviews \cup old.logged
      /\ sessions' = [sessions EXCEPT ![s0].count = old.count ++ old.inc]
  BY DEF CommitReviews
<1>4. /\ old.count \in Counts /\ old.inc \in Counts
      /\ old.count = sessions[s0].count
  BY <1>1, <1>2 DEF Request, SerialOK
<1>5. /\ \A l \in old.logged : l.by = r /\ l.session = s0
      /\ \A l \in reviews : l.by # r
      /\ IsFiniteSet(reviews) /\ IsFiniteSet(old.logged)
  BY <1>1, <1>2 DEF PendingOK, RequestCounts, IInv
<1> SUFFICES ASSUME NEW s \in Sessions, NEW k \in Kinds
             PROVE  sessions'[s].count[k] = Cardinality(ReviewsOf(s, k)')
  BY DEF CountsAreExact
<1> DEFINE S == ReviewsOf(s, k)
           T == OfKind(old.logged, k)
           U == ReviewsOf(s, k)'
<1>6. sessions[s].count[k] = Cardinality(S)
  BY DEF SerialIInv, CountsAreExact
<1>7. CASE s = s0
  <2>1. S \subseteq reviews /\ T \subseteq old.logged
    BY DEF ReviewsOf, OfKind
  <2>2. IsFiniteSet(S) /\ IsFiniteSet(T)
    BY <1>5, <2>1, FS_Subset
  <2>3. Cardinality(S) \in Nat /\ Cardinality(T) \in Nat
    BY <2>2, FS_CardinalityType
  <2>4. S \cup T = U /\ S \cap T = {}
    BY <1>3, <1>5, <1>7 DEF ReviewsOf, OfKind
  <2>5. Cardinality(S \cup T)
          = Cardinality(S) + Cardinality(T) - Cardinality(S \cap T)
    BY <2>2, FS_Union
  <2>6. Cardinality(S \cap T) = 0
    BY <2>4, FS_EmptySet
  <2>7. old.inc[k] = Cardinality(T)
    BY <1>1 DEF PendingOK
  <2>8. sessions'[s].count[k] = sessions[s].count[k] + old.inc[k]
    BY <1>1, <1>3, <1>4, <1>7, CountsType DEF TypeOK, Session
  <2> HIDE DEF S, T, U
  <2>9. Cardinality(U) = Cardinality(S \cup T)
    BY <2>4
  <2>10. Cardinality(U) = Cardinality(S) + Cardinality(T)
    BY <2>3, <2>5, <2>6, <2>9
  <2>11. sessions'[s].count[k] = Cardinality(U)
    BY <1>6, <2>7, <2>8, <2>10
  <2> QED
    BY <2>11 DEF U
<1>8. CASE s # s0
  <2>1. sessions'[s] = sessions[s]
    BY <1>1, <1>3, <1>8 DEF TypeOK
  <2>2. S = U
    BY <1>3, <1>5, <1>8 DEF ReviewsOf
  <2> QED
    BY <1>6, <2>1, <2>2
<1> QED
  BY <1>7, <1>8

\* Every step that keeps one request per session keeps the invariant.
LEMMA StepSerial ==
  ASSUME IInv, IInv', SerialIInv, Next, OneAtATime'
  PROVE  SerialIInv'
<1>1. TypeOK /\ \A r \in Requests : SerialOK(r) /\ RequestOK(r)
  BY DEF IInv, SerialIInv
<1>2. ASSUME UNCHANGED <<sessions, reviews>> PROVE CountsAreExact'
  BY <1>2 DEF SerialIInv, CountsAreExact, ReviewsOf
<1>3. ASSUME UNCHANGED req, UNCHANGED sessions
      PROVE  \A r \in Requests : SerialOK(r)'
  BY <1>1, <1>3, OthersKept
<1>4. ASSUME NEW r \in Requests, Arrive(r) \/ Step(r) \/ Fail(r),
             UNCHANGED sessions
      PROVE  \A s \in Requests : SerialOK(s)'
  <2>1. SerialOK(r)' /\ \A s \in Requests \ {r} : req'[s] = req[s]
    BY <1>4, RequestMoves
  <2> QED
    BY <1>1, <1>4, <2>1, OthersKept
<1>5. ASSUME NEW r \in Requests, CommitReviews(r) \/ EndWrite(r)
      PROVE  \A s \in Requests : SerialOK(s)'
  <2>1. Answered(r) /\ UnderWay(r)
    BY <1>5 DEF CommitReviews, EndWrite, UnderWay, InTx
  <2>2. req[r].session \in Sessions
    BY <1>1, <2>1 DEF RequestOK
  <2>3. \A u \in Sessions \ {req[r].session} : sessions'[u] = sessions[u]
    BY <1>1, <1>5, <2>2 DEF CommitReviews, EndWrite, TypeOK
  <2>4. /\ req'[r].pc = "ok"
        /\ \A s \in Requests \ {r} : req'[s] = req[s]
    BY <2>1, AnsweredRequest
  <2>5. SerialOK(r)'
    <3>1. UnderWay(r)' = FALSE
      BY <2>4 DEF UnderWay, InTx
    <3> QED
      BY <3>1, EndedOKNext
  <2>6. \A s \in Requests \ {r} : SerialOK(s)'
    BY <2>1, <2>2, <2>3, <2>4, OtherSerial
  <2> QED
    BY <2>5, <2>6
<1>6. ASSUME NEW r \in Requests, EndWrite(r) PROVE CountsAreExact'
  <2>1. /\ sessions' = [sessions EXCEPT ![req[r].session] =
                          [@ EXCEPT !.ended = TRUE, !.count = req[r].count]]
        /\ reviews' = reviews /\ UnderWay(r)
    BY <1>6 DEF EndWrite, NoCount, UnderWay
  <2>2. req[r].count = sessions[req[r].session].count
    BY <1>1, <2>1 DEF SerialOK
  <2>3. \A s \in Sessions : sessions'[s].count = sessions[s].count
    BY <1>1, <2>1, <2>2 DEF TypeOK, Session
  <2> QED
    BY <2>1, <2>3 DEF SerialIInv, CountsAreExact, ReviewsOf
<1>7. ASSUME NEW u \in Users, NEW t \in Sessions, StartSession(u, t)
      PROVE  SerialIInv'
  <2>1. /\ sessions' = [sessions EXCEPT ![t].user = u] /\ req' = req
        /\ reviews' = reviews /\ sessions[t] = FreeSession
    BY <1>7 DEF StartSession, NoCount
  <2>2. \A s \in Sessions : sessions'[s].count = sessions[s].count
    BY <1>1, <2>1 DEF TypeOK, Session
  <2>3. CountsAreExact'
    BY <2>1, <2>2 DEF SerialIInv, CountsAreExact, ReviewsOf
  <2>4. \A s \in Sessions \ {t} : sessions'[s] = sessions[s]
    BY <1>1, <2>1 DEF TypeOK
  <2>5. sessions[t].user = None
    BY <2>1 DEF FreeSession
  <2>6. \A r \in Requests : SerialOK(r)'
    BY <1>1, <2>1, <2>4, <2>5, OthersKept DEF SerialOK
  <2> QED
    BY <2>3, <2>6 DEF SerialIInv
<1>8. ASSUME NEW r \in Requests, Arrive(r) \/ Step(r) \/ Fail(r)
      PROVE  SerialIInv'
  <2>1. CASE CommitReviews(r) \/ EndWrite(r)
    BY <1>5, <1>6, <2>1, CommitIsExact DEF SerialIInv
  <2>2. CASE ~(CommitReviews(r) \/ EndWrite(r))
    <3>1. UNCHANGED <<sessions, reviews>>
      BY <1>8, <2>2 DEF Arrive, SubmitLoadSession, BatchLoadSession,
           EndLoadSession, LoadSession, Fail, Step, SubmitLoadCard,
           BatchLoadCard, BatchSkipItem, ReviewWrite, DeadlockAbort,
           BatchAborted, db, NoCount
    <3> QED
      BY <1>2, <1>4, <1>8, <3>1 DEF SerialIInv
  <2> QED
    BY <2>1, <2>2
<1>9. CASE CardEdit
  <2>1. UNCHANGED <<sessions, reviews>> /\ UNCHANGED req
    BY <1>9 DEF CardEdit, SetSuspended, ResetFSRS, DeleteCard, Edit
  <2> QED
    BY <1>2, <1>3, <2>1 DEF SerialIInv
<1> QED
  BY <1>7, <1>8, <1>9 DEF Next

\* A stuttering step keeps the invariant.
LEMMA StutterSerial == SerialIInv /\ UNCHANGED vars => SerialIInv'
BY DEF SerialIInv, vars, db, OneAtATime, CountsAreExact, ReviewsOf, SerialOK,
       UnderWay

(***************************************************************************)
(* One request at a time, what a request has read of its session is still  *)
(* so when it writes it back, and every review is counted.                 *)
(***************************************************************************)
THEOREM SerialInductive == SerialSpec => [](IInv /\ SerialIInv)
<1>1. Init => IInv /\ SerialIInv
  BY InitIInv, InitSerial
<1>2. IInv /\ SerialIInv /\ [Next /\ OneAtATime']_vars => (IInv /\ SerialIInv)'
  BY StepIInv, StepSerial, StutterSerial
<1> QED
  BY <1>1, <1>2, PTL DEF SerialSpec

\* One request at a time, a session's counters count every committed review.
THEOREM CountsExact == SerialSpec => []CountsAreExact
<1>1. SerialIInv => CountsAreExact
  BY DEF SerialIInv
<1> QED
  BY <1>1, SerialInductive, PTL

\* An initial state is an initial ledger.
LEMMA InitRefines == Init => Ledger!Init
<1> SUFFICES ASSUME Init PROVE Ledger!Init
  OBVIOUS
<1>1. \A s \in Sessions : LedgerOf[s] \in {Ledger!Blank, [Ledger!Blank EXCEPT !.state = "open"]}
  <2> SUFFICES ASSUME NEW s \in Sessions
               PROVE  LedgerOf[s] \in {Ledger!Blank, [Ledger!Blank EXCEPT !.state = "open"]}
    OBVIOUS
  <2>1. LedgerOf[s] = [state |-> SessionState(s), count |-> sessions[s].count]
    BY DEF LedgerOf
  <2>2. CASE sessions[s] = FreeSession
    BY <2>1, <2>2 DEF FreeSession, SessionState, Zero, Ledger!Blank
  <2>3. ASSUME NEW u \in Users, sessions[s] = [FreeSession EXCEPT !.user = u]
        PROVE  LedgerOf[s] = [Ledger!Blank EXCEPT !.state = "open"]
    <3>1. sessions[s].user = u /\ ~sessions[s].ended /\ sessions[s].count = Zero
      BY <2>3 DEF FreeSession
    <3>2. SessionState(s) = "open"
      BY <3>1, ConstantsOK DEF SessionState
    <3> QED
      BY <2>1, <3>1, <3>2 DEF Zero, Ledger!Blank
  <2> QED
    BY <2>2, <2>3 DEF Init
<1> QED
  BY <1>1 DEF Ledger!Init, LedgerOf

\* A session that nobody wrote looks the same in the ledger.
LEMMA LedgerKept ==
  UNCHANGED sessions => LedgerOf' = LedgerOf
BY DEF LedgerOf, SessionState

\* One session s was written.
LEMMA LedgerWritten ==
  ASSUME TypeOK, NEW s \in Sessions, TypeOK',
         \A t \in Sessions \ {s} : sessions'[t] = sessions[t]
  PROVE  LedgerOf' = [LedgerOf EXCEPT ![s] =
                        [state |-> SessionState(s)', count |-> sessions'[s].count]]
BY DEF LedgerOf, SessionState

\* StartSession opens an entry.
LEMMA StartRefines ==
  ASSUME IInv, IInv', NEW u \in Users, NEW s \in Sessions, StartSession(u, s)
  PROVE  Ledger!Open(s)
<1>1. sessions' = [sessions EXCEPT ![s].user = u] /\ sessions[s] = FreeSession
      /\ TypeOK /\ TypeOK'
  BY DEF StartSession, IInv
<1>2. /\ sessions'[s].user = u /\ sessions'[s].ended = sessions[s].ended
      /\ sessions'[s].count = sessions[s].count
      /\ \A t \in Sessions \ {s} : sessions'[t] = sessions[t]
  BY <1>1 DEF TypeOK, Session
<1>3. SessionState(s) = "none" /\ SessionState(s)' = "open"
  BY <1>1, <1>2, ConstantsOK DEF SessionState, FreeSession
<1>4. LedgerOf[s] = [state |-> "none", count |-> sessions[s].count]
  BY <1>3 DEF LedgerOf
<1>5. LedgerOf' = [LedgerOf EXCEPT ![s] = [state |-> "open", count |-> sessions[s].count]]
  BY <1>1, <1>2, <1>3, LedgerWritten
<1> QED
  <2>1. [LedgerOf[s] EXCEPT !.state = "open"]
          = [state |-> "open", count |-> sessions[s].count]
    BY <1>4
  <2>2. [LedgerOf EXCEPT ![s].state = "open"]
          = [LedgerOf EXCEPT ![s] = [state |-> "open", count |-> sessions[s].count]]
    BY <2>1, Zenon
  <2>3. LedgerOf[s].state = "none"
    BY <1>4
  <2> QED
    BY <1>5, <2>2, <2>3 DEF Ledger!Open

\* A commit is one Review of an entry that is open.
LEMMA CommitRefines ==
  ASSUME IInv, IInv', SerialIInv, NEW r \in Requests, CommitReviews(r)
  PROVE  Ledger!Next
<1>0. req[r].session \in Sessions
  BY DEF IInv, RequestOK, CommitReviews, UnderWay, InTx
<1> SUFFICES ASSUME NEW s \in Sessions, s = req[r].session
             PROVE  Ledger!Next
  BY <1>0
<1>1. /\ req[r] \in Request /\ RequestOK(r) /\ PendingOK(r) /\ SerialOK(r)
      /\ TypeOK /\ TypeOK'
  BY DEF IInv, TypeOK, SerialIInv
<1>2. /\ req[r].pc \in {"commit", "item"} /\ UnderWay(r) /\ s \in Sessions
      /\ req[r].pc \in InTx
      /\ req[r].pc = "commit" => req[r].kind = "submit"
      /\ req[r].pc = "item" => req[r].kind = "batch"
  BY <1>1 DEF CommitReviews, RequestOK, UnderWay, InTx
<1>3. /\ req[r].count \in Counts /\ req[r].inc \in Counts
      /\ sessions[s].user # None /\ ~sessions[s].ended
      /\ req[r].count = sessions[s].count
      /\ req[r].item \in Nat
  BY <1>1, <1>2, ConstantsOK DEF Request, SerialOK
<1>4. req[r].inc \in [Kinds -> 0..(MaxItems + 1)]
  <2>1. ASSUME NEW k \in Kinds PROVE req[r].inc[k] \in 0..(MaxItems + 1)
    <3>1. req[r].inc[k] \in Nat
      BY <1>3 DEF Counts
    <3>2. CASE req[r].kind = "batch"
      <4>1. req[r].inc[k] + req[r].item <= MaxItems
        BY <1>1, <1>2, <3>2 DEF SerialOK
      <4> QED
        BY <1>3, <3>1, <4>1, ConstantsOK
    <3>3. CASE req[r].kind = "submit"
      <4>1. req[r].inc[k] <= 1
        BY <1>1, <3>3 DEF SerialOK
      <4> QED
        BY <3>1, <4>1, ConstantsOK
    <3> QED
      BY <1>2, <3>2, <3>3
  <2> QED
    BY <1>3, <2>1 DEF Counts
<1>5. sessions' = [sessions EXCEPT ![s].count = req[r].count ++ req[r].inc]
  BY DEF CommitReviews
<1>6. /\ sessions'[s].user = sessions[s].user
      /\ sessions'[s].ended = sessions[s].ended
      /\ sessions'[s].count = req[r].count ++ req[r].inc
      /\ \A t \in Sessions \ {s} : sessions'[t] = sessions[t]
  BY <1>1, <1>2, <1>5 DEF TypeOK, Session
<1>7. SessionState(s) = "open" /\ SessionState(s)' = "open"
  BY <1>3, <1>6 DEF SessionState
<1>8. LedgerOf[s] = [state |-> "open", count |-> sessions[s].count]
  BY <1>2, <1>7 DEF LedgerOf
<1>9. req[r].count ++ req[r].inc
        = [k \in Kinds |-> sessions[s].count[k] + req[r].inc[k]]
  BY <1>3 DEF ++
<1>10. LedgerOf' = [LedgerOf EXCEPT ![s] =
                      [state |-> "open", count |-> req[r].count ++ req[r].inc]]
  BY <1>1, <1>2, <1>6, <1>7, LedgerWritten
<1>11. Ledger!Review(s, req[r].inc)
  <2>1. [LedgerOf[s] EXCEPT !.count = req[r].count ++ req[r].inc]
          = [state |-> "open", count |-> req[r].count ++ req[r].inc]
    BY <1>8
  <2>2. [LedgerOf EXCEPT ![s].count = req[r].count ++ req[r].inc]
          = [LedgerOf EXCEPT ![s] = [state |-> "open",
                                     count |-> req[r].count ++ req[r].inc]]
    BY <2>1, Zenon
  <2>3. LedgerOf[s].state = "open" /\ LedgerOf[s].count = sessions[s].count
    BY <1>8
  <2>4. req[r].count ++ req[r].inc
          = [k \in Kinds |-> LedgerOf[s].count[k] + req[r].inc[k]]
    BY <1>9, <2>3
  <2> QED
    BY <1>10, <2>2, <2>3, <2>4 DEF Ledger!Review
<1> QED
  BY <1>2, <1>4, <1>11 DEF Ledger!Next

\* EndSession closes an entry as it was counted.
LEMMA EndRefines ==
  ASSUME IInv, IInv', SerialIInv, NEW r \in Requests, EndWrite(r)
  PROVE  Ledger!Next
<1>0. req[r].session \in Sessions
  BY DEF IInv, RequestOK, EndWrite, UnderWay
<1> SUFFICES ASSUME NEW s \in Sessions, s = req[r].session
             PROVE  Ledger!Next
  BY <1>0
<1>1. /\ req[r] \in Request /\ RequestOK(r) /\ SerialOK(r) /\ TypeOK /\ TypeOK'
      /\ UnderWay(r)
  BY DEF IInv, TypeOK, SerialIInv, EndWrite, UnderWay
<1>2. /\ s \in Sessions /\ sessions[s].user # None /\ ~sessions[s].ended
      /\ req[r].count = sessions[s].count
  BY <1>1 DEF RequestOK, SerialOK
<1>3. sessions' = [sessions EXCEPT ![s] =
                     [@ EXCEPT !.ended = TRUE, !.count = req[r].count]]
  BY DEF EndWrite
<1>4. /\ sessions'[s].user = sessions[s].user
      /\ sessions'[s].ended
      /\ sessions'[s].count = sessions[s].count
      /\ \A t \in Sessions \ {s} : sessions'[t] = sessions[t]
  BY <1>1, <1>2, <1>3 DEF TypeOK, Session
<1>5. SessionState(s) = "open" /\ SessionState(s)' = "closed"
  BY <1>2, <1>4 DEF SessionState
<1>6. LedgerOf[s] = [state |-> "open", count |-> sessions[s].count]
  BY <1>2, <1>5 DEF LedgerOf
<1>7. LedgerOf' = [LedgerOf EXCEPT ![s] =
                     [state |-> "closed", count |-> sessions[s].count]]
  BY <1>1, <1>2, <1>4, <1>5, LedgerWritten
<1>8. Ledger!Close(s)
  <2>1. [LedgerOf[s] EXCEPT !.state = "closed"]
          = [state |-> "closed", count |-> sessions[s].count]
    BY <1>6
  <2>2. [LedgerOf EXCEPT ![s].state = "closed"]
          = [LedgerOf EXCEPT ![s] = [state |-> "closed", count |-> sessions[s].count]]
    BY <2>1, Zenon
  <2>3. LedgerOf[s].state = "open"
    BY <1>6
  <2> QED
    BY <1>7, <2>2, <2>3 DEF Ledger!Close
<1> QED
  BY <1>2, <1>8 DEF Ledger!Next

(***************************************************************************)
(* One request at a time, studying keeps the promise of SessionLedger:     *)
(* every commit of SubmitReview or BatchReview is a Review of a session    *)
(* still open, EndSession closes it as it was counted, StartSession opens  *)
(* it, and nothing else touches it.                                        *)
(***************************************************************************)
THEOREM StudyImplementsLedger == SerialSpec => RefinesLedger
<1>1. Init => Ledger!Init
  BY InitRefines
<1>2. /\ IInv /\ SerialIInv /\ IInv' /\ [Next /\ OneAtATime']_vars
      => [Ledger!Next]_LedgerOf
  <2>1. ASSUME IInv, SerialIInv, IInv', Next
        PROVE  Ledger!Next \/ LedgerOf' = LedgerOf
    <3>1. ASSUME NEW u \in Users, NEW s \in Sessions, StartSession(u, s)
          PROVE  Ledger!Next
      BY <2>1, <3>1, StartRefines DEF Ledger!Next
    <3> QED
      BY <2>1, <3>1, WritersOfSessions, LedgerKept, CommitRefines, EndRefines
  <2>2. UNCHANGED vars => LedgerOf' = LedgerOf
    BY LedgerKept DEF vars, db
  <2> QED
    BY <2>1, <2>2
<1> QED
  BY <1>1, <1>2, SerialInductive, PTL DEF RefinesLedger, Ledger!Spec, SerialSpec
==============================================================================
