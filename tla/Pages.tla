-------------------------------- MODULE Pages --------------------------------
(***************************************************************************)
(* The paged lists: pkg/pagination, and the list of a deck's cards, which  *)
(* is one query for the rows of a page and another for their number.       *)
(* Rows are a set of records [id, position, created, state, tags, front,   *)
(* back], a front and a back being the queries that ILIKE finds in them.   *)
(* Rows may share position and time of creation: all those of a clone of a *)
(* deck that was filled card by card do.  ORDER BY leaves such rows in any *)
(* order, anew in each query, so a page is a set of possible answers.      *)
(***************************************************************************)
EXTENDS Integers, Sequences, FiniteSets, SequencesExt

CONSTANTS DefaultLimit, MaxLimit,        \* 20 and 100 in the code
          AnyState, AnyTag, AnyQuery     \* a filter that was not given

ASSUME PagingOK == MaxLimit \in Nat /\ DefaultLimit \in 1 .. MaxLimit

NewParams(limit, offset) ==
    [limit |-> IF limit <= 0 \/ limit > MaxLimit THEN DefaultLimit ELSE limit,
     offset |-> IF offset < 0 THEN 0 ELSE offset]

Matches(row, filter) ==
    /\ filter.state = AnyState \/ row.state = filter.state
    /\ filter.tag = AnyTag \/ filter.tag \in row.tags
    /\ filter.query = AnyQuery \/ filter.query \in row.front \cup row.back

InListOrder(r, s) == \/ r.position < s.position
                     \/ r.position = s.position /\ r.created < s.created

Listings(rows) ==
    {s \in SetToSeqs(rows) : \A i, j \in DOMAIN s : i < j => ~InListOrder(s[j], s[i])}

ListCardsByDeckID(rows, filter, limit, offset) ==
    LET matching == {r \in rows : Matches(r, filter)}
        n == Cardinality(matching)
        end == IF offset + limit < n THEN offset + limit ELSE n
    IN  {SubSeq(all, offset + 1, end) : all \in Listings(matching)}

MutCountCardsByDeckID(rows, filter) == Cardinality(rows)

CountCardsByDeckID(rows, filter) ==
    Cardinality({r \in rows : filter.state = AnyState \/ r.state = filter.state}
                \cap {r \in rows : filter.tag = AnyTag \/ filter.tag \in r.tags}
                \cap {r \in rows : \/ filter.query = AnyQuery
                                   \/ filter.query \in r.front
                                   \/ filter.query \in r.back})

NewResponse(data, total, limit, offset) ==
    [data |-> data, total |-> total, limit |-> limit, offset |-> offset,
     hasMore |-> offset + limit < total]

(***************************************************************************)
(* The handler of a list: the answers a request for a page may get.        *)
(***************************************************************************)
ListPage(rows, filter, limit, offset) ==
    LET p == NewParams(limit, offset)
        total == CountCardsByDeckID(rows, filter)
    IN  {NewResponse(data, total, p.limit, p.offset) :
            data \in ListCardsByDeckID(rows, filter, p.limit, p.offset)}
=============================================================================
