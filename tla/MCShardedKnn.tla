---------------------------- MODULE MCShardedKnn ----------------------------
(* Instances of ShardedKnn for TLC. *)
EXTENDS ShardedKnn, SequencesExt

CONSTANTS exact, near, far

(* Rows on a line, in an order that mixes the shards; a new version of the *)
(* source turns it round.  Some neighbours of a row are equally far.       *)
Line == <<10, 13, 15, 11, 30, 40, 12, 20, 17>>
Place(v, i) == IF v = 0 THEN Line[i] ELSE Line[NRow + 1 - i]
MCDistance(v, q, i) == IF Place(v, q) < Place(v, i) THEN Place(v, i) - Place(v, q)
                       ELSE Place(v, q) - Place(v, i)

Nearest(v, s, q) ==
    LET order == SetToSortSeq({<<MCDistance(v, q, i), i>> : i \in ShardRows(s)}, Before)
    IN {order[r][2] : r \in 1..(IF Len(order) < K + 1 THEN Len(order) ELSE K + 1)}

(* An index returns K + 1 rows, or the whole shard if it has fewer.        *)
(* "exact" returns the nearest ones.  "near" misses the last row of a      *)
(* shard for the rows after the pilot batch, "far" the first row for all.  *)
MCReturned(v, b, s, q) ==
    IF b = exact \/ (b = near /\ q <= ChunkRows) \/ Cardinality(ShardRows(s)) < K + 2
    THEN Nearest(v, s, q)
    ELSE ShardRows(s) \ {IF b = near THEN CHOOSE i \in ShardRows(s) : \A j \in ShardRows(s) : i >= j
                         ELSE CHOOSE i \in ShardRows(s) : \A j \in ShardRows(s) : i <= j}
=============================================================================
