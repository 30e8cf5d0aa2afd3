----------------------------- MODULE GraphBuckets -----------------------------
(* The symmetric graph of a KNN table on disk, sorted bucket by bucket:      *)
(* bucketed_symmetrize_graph (src/massive_matrix.cpp) as called by           *)
(* massive_graph_sort_run (R/massive_graph.R) with sort_method = "bucketed". *)
(*                                                                           *)
(* An edge of the table becomes a pair in the bucket of its lower end.  One  *)
(* bucket after the other, the pairs are merged and give two rows each: one  *)
(* for this bucket and one that is handed to the bucket of the higher end,   *)
(* which comes later or is the same.  A bucket's rows are sorted and written *)
(* behind those of the buckets before it.                                    *)
(*                                                                           *)
(* With consume_knn the table is cut off block by block, from its end, and   *)
(* is gone before the first bucket.  Any step may fail, for want of space or *)
(* by an interruption of the user; what has been written is then removed.    *)
(*                                                                           *)
(* A record is 3 words of 4 bytes, an offset 2, an edge of the result 2.     *)
(* What waits in the buffer of a file counts as written.                     *)
EXTENDS Integers, FiniteSets, SequencesExt, FiniteSetsExt

CONSTANTS
    BucketCalls,   \* the calls, see BucketCallAssumption
    FanIn,         \* runs that are merged at once (32)
    MostBuckets    \* 64

(* table: row -> column -> the target and the value that makes its weight.   *)
ASSUME BucketCallAssumption ==
    /\ FanIn \in Nat \ {0, 1} /\ MostBuckets \in Nat \ {0, 1}
    /\ \A c \in BucketCalls :
          /\ {c.capacity, c.block} \subseteq Nat \ {0} /\ c.consume \in BOOLEAN
          /\ \A i \in 1..Len(c.table) :
                /\ Len(c.table[i]) = Len(c.table[1])
                /\ \A j \in 1..Len(c.table[i]) :
                      /\ c.table[i][j].to \in 1..Len(c.table) \ {i}
                      /\ c.table[i][j].weight \in Nat

VARIABLES
    asked,     \* the call
    doing,     \* what it is about to do
    knn,       \* file of the table -> rows left in it, 0 when it is removed
    buffers,   \* bucket -> pairs not yet in a run
    files,     \* what is in the work directory and the .part files
    bucket,    \* the bucket at work
    rowBuffer, \* its rows that are not yet in a run
    named,     \* files of the result that have their final name
    peak       \* GraphDiskPeak: the most words that were in files

bucketVars == <<asked, doing, knn, buffers, files, bucket, rowBuffer, named, peak>>

TableRows == Len(asked.table)
TableEdges == TableRows * Len(asked.table[1])
BucketCount ==
    Min({MostBuckets, TableRows,
         Max({2, (TableEdges + asked.capacity - 1) \div asked.capacity})})
Buckets == 0..BucketCount - 1
RowsPerBucket == (TableRows + BucketCount - 1) \div BucketCount
BucketOf(row) == Min({(row - 1) \div RowsPerBucket, BucketCount - 1})
LastRow(b) == Min({TableRows, (b + 1) * RowsPerBucket})

-----------------------------------------------------------------------------
(* A pair is the place in the table it was read from.                        *)

PairsOf(some) == {<<i, c>> : i \in some, c \in 1..Len(asked.table[1])}
From(p) == p[1]
To(p) == asked.table[p[1]][p[2]].to
Low(p) == Min({From(p), To(p)})
High(p) == Max({From(p), To(p)})
Back(p) == From(p) # Low(p)
SamePair(p, q) == Low(p) = Low(q) /\ High(p) = High(q)

(* The weight unites the two directions; here it names both.                 *)
Weight(p, back) == IF Back(p) = back THEN asked.table[p[1]][p[2]].weight ELSE 0
Both(p, pairs) ==
    [back \in BOOLEAN |-> Max({Weight(q, back) : q \in {q \in pairs : SamePair(p, q)}})]

RowRecord(source, target, weight) == [source |-> source, target |-> target, weight |-> weight]
RowsFrom(pairs) ==
    LET kept == {p \in pairs : \E b \in BOOLEAN : Both(p, pairs)[b] > 0}
    IN  {RowRecord(Low(p), High(p), Both(p, pairs)) : p \in kept}
        \cup {RowRecord(High(p), Low(p), Both(p, pairs)) : p \in kept}

Repeated(pairs) == \E p, q \in pairs : p # q /\ SamePair(p, q) /\ Back(p) = Back(q)

-----------------------------------------------------------------------------
(* Files                                                                     *)

NoFiles == [pairs |-> [b \in Buckets |-> <<>>], rows |-> <<>>,
            handed |-> [b \in Buckets |-> {}], offsets |-> <<>>, edges |-> <<>>]

Records(runs) == UNION Range(runs)
RecordsIn(runs) == FoldLeft(LAMBDA n, run : n + Cardinality(run), 0, runs)
Words(f) ==
    3 * (RecordsIn(f.rows) + MapThenSumSet(LAMBDA b : RecordsIn(f.pairs[b]) + Cardinality(f.handed[b]), Buckets))
    + 2 * Len(f.offsets) + 2 * Len(f.edges)

(* Files as they become, after a step that here grows them to "full".       *)
FilesBecome(full, f) ==
    /\ files' = f
    /\ peak' = Max({peak, Words(full)})

InOrder(S, Before(_, _)) ==
    [n \in 1..Cardinality(S) |-> CHOOSE x \in S : Cardinality({y \in S : Before(y, x)}) = n - 1]
ReadBefore(p, q) == p[1] < q[1] \/ (p[1] = q[1] /\ p[2] < q[2])
RowBefore(a, b) == a.source < b.source \/ (a.source = b.source /\ a.target < b.target)

(* GraphRunSorter: a run of so many records whenever so many are waiting.    *)
Spilled(runs, waiting, size) ==
    LET whole == Len(waiting) \div size
    IN  [runs |-> runs \o [r \in 1..whole |-> ToSet(SubSeq(waiting, (r - 1) * size + 1, r * size))],
         rest |-> SubSeq(waiting, whole * size + 1, Len(waiting))]
AllSpilled(runs, waiting) == IF waiting = <<>> THEN runs ELSE Append(runs, ToSet(waiting))

(* reduce_graph_runs: the smallest runs are merged, so many that no more     *)
(* than FanIn are left in the end.                                           *)
MergedRuns(runs) ==
    LET bySize == SortSeq(runs, LAMBDA a, b : Cardinality(a) < Cardinality(b))
        n == Min({FanIn, Len(runs) - FanIn + 1})
    IN  [new |-> Records(SubSeq(bySize, 1, n)), rest |-> SubSeq(bySize, n + 1, Len(runs))]

-----------------------------------------------------------------------------
BucketInit ==
    /\ asked \in BucketCalls
    /\ doing = "scan"
    /\ knn = [indices |-> TableRows, values |-> TableRows]
    /\ buffers = [b \in Buckets |-> <<>>]
    /\ files = NoFiles
    /\ bucket = 0 /\ rowBuffer = <<>> /\ named = 0 /\ peak = 0

(* Rows that have been read: those in buffers and in runs.                   *)
ReadPairs == UNION {ToSet(buffers[b]) \cup Records(files.pairs[b]) : b \in Buckets}
RowsRead == {p[1] : p \in ReadPairs}

(* A block from the front, or from the end if the table is consumed.         *)
Block ==
    LET n == Cardinality(RowsRead)
    IN  IF asked.consume
        THEN Max({1, TableRows - n - asked.block + 1})..TableRows - n
        ELSE n + 1..Min({TableRows, n + asked.block})

PairCapacity == Max({1, asked.capacity \div BucketCount})

Scan ==
    /\ doing = "scan"
    /\ LET of(b) == {p \in PairsOf(Block) : BucketOf(Low(p)) = b}
           all == [b \in Buckets |-> Spilled(files.pairs[b], buffers[b] \o InOrder(of(b), ReadBefore), PairCapacity)]
           grown == [files EXCEPT !.pairs = [b \in Buckets |-> all[b].runs]]
       IN  /\ FilesBecome(grown, grown)
           /\ buffers' = [b \in Buckets |-> all[b].rest]
    /\ IF asked.consume
       THEN knn' = [knn EXCEPT !.indices = @ - Cardinality(Block)] /\ doing' = "cut"
       ELSE /\ doing' = IF TableRows \in Block THEN "gather" ELSE "scan"
            /\ UNCHANGED knn
    /\ UNCHANGED <<asked, bucket, rowBuffer, named>>

(* The second file is cut off after the here.                               *)
Cut ==
    /\ doing = "cut"
    /\ knn' = [knn EXCEPT !.values = knn.indices]
    /\ doing' = IF knn.indices = 0 THEN "gather" ELSE "scan"
    /\ UNCHANGED <<asked, buffers, files, bucket, rowBuffer, named, peak>>

(* The last runs are written and the empty table is removed.                 *)
Gather ==
    /\ doing = "gather"
    /\ LET grown == [files EXCEPT !.pairs = [b \in Buckets |-> AllSpilled(@[b], buffers[b])]]
           open == [grown EXCEPT !.offsets = <<0>>]
       IN  FilesBecome(open, open)
    /\ buffers' = [b \in Buckets |-> <<>>]
    /\ doing' = "reducePairs"
    /\ UNCHANGED <<asked, knn, bucket, rowBuffer, named>>

ReducePairs ==
    /\ doing = "reducePairs"
    /\ LET runs == files.pairs[bucket]
           merged == MergedRuns(runs)
       IN  IF Len(runs) <= FanIn
           THEN doing' = "emit" /\ UNCHANGED <<files, peak>>
           ELSE /\ FilesBecome([files EXCEPT !.pairs[bucket] = Append(runs, merged.new)],
                               [files EXCEPT !.pairs[bucket] = Append(merged.rest, merged.new)])
                /\ UNCHANGED doing
    /\ UNCHANGED <<asked, knn, buffers, bucket, rowBuffer, named>>

(* What is left of the pairs of a bucket once its rows are out.              *)
WithoutPairs(f, b) == [f EXCEPT !.pairs[b] = <<>>]

Emit ==
    /\ doing = "emit"
    /\ LET pairs == Records(files.pairs[bucket])
           both == RowsFrom(pairs)
           here == {r \in both : BucketOf(r.source) = bucket}
           sorter == Spilled(<<>>, InOrder(here, RowBefore), asked.capacity)
           full == [files EXCEPT
                        !.rows = sorter.runs,
                        !.handed = [b \in Buckets |-> @[b] \cup {r \in both \ here : BucketOf(r.source) = b}]]
       IN  IF Repeated(pairs)
           THEN doing' = "refused" /\ UNCHANGED <<files, peak, rowBuffer>>
           ELSE IF \E r \in both : BucketOf(r.source) < bucket
           THEN doing' = "broken" /\ UNCHANGED <<files, peak, rowBuffer>>
           ELSE /\ FilesBecome(full, WithoutPairs(full, bucket))
                /\ rowBuffer' = sorter.rest
                /\ doing' = "drain"
    /\ UNCHANGED <<asked, knn, buffers, bucket, named>>

(* The rows other buckets have handed over.  Mutated form: a bucket without  *)
(* pairs of its own is passed over.                                          *)
HandedWithPairs(b) == IF \E p \in PairsOf(1..TableRows) : BucketOf(Low(p)) = b
                      THEN files.handed[b] ELSE {}
Handed(b) == files.handed[b]

Drain ==
    /\ doing = "drain"
    /\ LET sorter == Spilled(files.rows, rowBuffer \o InOrder(Handed(bucket), RowBefore), asked.capacity)
           full == [files EXCEPT !.rows = AllSpilled(sorter.runs, sorter.rest)]
       IN  FilesBecome(full, [full EXCEPT !.handed[bucket] = @ \ Handed(bucket)])
    /\ rowBuffer' = <<>>
    /\ doing' = "reduceRows"
    /\ UNCHANGED <<asked, knn, buffers, bucket, named>>

ReduceRows ==
    /\ doing = "reduceRows"
    /\ LET merged == MergedRuns(files.rows)
       IN  IF Len(files.rows) <= FanIn
           THEN doing' = "write" /\ UNCHANGED <<files, peak>>
           ELSE /\ FilesBecome([files EXCEPT !.rows = Append(@, merged.new)],
                               [files EXCEPT !.rows = Append(merged.rest, merged.new)])
                /\ UNCHANGED doing
    /\ UNCHANGED <<asked, knn, buffers, bucket, rowBuffer, named>>

(* The bucket's rows in order, and an offset behind each row it has.         *)
Write ==
    /\ doing = "write"
    /\ LET sorted == Records(files.rows)
           next == Len(files.offsets)
           upTo(i) == Len(files.edges) + Cardinality({r \in sorted : r.source <= i})
           full == [files EXCEPT
                        !.edges = @ \o InOrder(sorted, RowBefore),
                        !.offsets = @ \o [i \in 1..LastRow(bucket) - next + 1 |-> upTo(next + i - 1)]]
       IN  IF \E r \in sorted : \/ r.source \notin next..LastRow(bucket)
                              \/ \E s \in sorted : s # r /\ s.source = r.source /\ s.target = r.target
           THEN doing' = "broken" /\ UNCHANGED <<files, peak>>
           ELSE /\ FilesBecome(full, [full EXCEPT !.rows = <<>>])
                /\ doing' = "next"
    /\ UNCHANGED <<asked, knn, buffers, bucket, rowBuffer, named>>

NextBucket ==
    /\ doing = "next"
    /\ IF bucket = BucketCount - 1
       THEN doing' = "check" /\ UNCHANGED bucket
       ELSE doing' = "reducePairs" /\ bucket' = bucket + 1
    /\ UNCHANGED <<asked, knn, buffers, files, rowBuffer, named, peak>>

(* The budget from which the free space was demanded after the scan.         *)
PairsIn(b) == {p \in PairsOf(1..TableRows) : BucketOf(Low(p)) = b}
ReverseIn(b) == {p \in PairsOf(1..TableRows) : BucketOf(High(p)) = b /\ BucketOf(Low(p)) # b}
DiskBudget ==
    2 * (TableRows + 1)
    + Min({9 * TableEdges,
           5 * TableEdges + 18 * (Max({Cardinality(PairsIn(b)) : b \in Buckets})
                                  + Max({Cardinality(ReverseIn(b)) : b \in Buckets}))})

NothingLeft ==
    files.rows = <<>> /\ \A b \in Buckets : files.pairs[b] = <<>> /\ files.handed[b] = {}

CheckWork ==
    /\ doing = "check"
    /\ doing' = IF NothingLeft /\ peak <= DiskBudget THEN "rename" ELSE "broken"
    /\ UNCHANGED <<asked, knn, buffers, files, bucket, rowBuffer, named, peak>>

RenameNext ==
    /\ doing = "rename"
    /\ named' = named + 1
    /\ doing' = IF named = 2 THEN "returned" ELSE "rename"
    /\ UNCHANGED <<asked, knn, buffers, files, bucket, rowBuffer, peak>>

(* What an R caller leaves of a table the call has begun to consume: a file  *)
(* that is not as it was is removed, and the other with it.                  *)
KnnAfter == IF \E f \in DOMAIN knn : knn[f] # TableRows THEN [f \in DOMAIN knn |-> 0] ELSE knn

Ended == {"returned", "stopped"}

(* An exception, an interruption, or one of the call's own checks.           *)
Stop ==
    /\ doing \notin Ended \cup {"broken"}
    /\ doing' = "stopped"
    /\ knn' = IF asked.consume THEN KnnAfter ELSE knn
    /\ files' = NoFiles /\ buffers' = [b \in Buckets |-> <<>>] /\ rowBuffer' = <<>> /\ named' = 0
    /\ UNCHANGED <<asked, bucket, peak>>

BucketNext ==
    \/ Scan \/ Cut \/ Gather
    \/ ReducePairs \/ Emit \/ Drain \/ ReduceRows \/ Write \/ NextBucket
    \/ CheckWork \/ RenameNext
    \/ Stop

BucketSpec == BucketInit /\ [][BucketNext]_bucketVars

-----------------------------------------------------------------------------
(* The graph of the table: two points are joined when one lists the other    *)
(* with a weight, and both rows have the edge with the weights of both.      *)
SymmetricGraph == RowsFrom(PairsOf(1..TableRows))

(* A call that returns has written every edge of the graph once in both      *)
(* rows, in order, with the offsets of the rows; it never pushes to a bucket *)
(* that is done nor leaves a file, which stops it ("broken"), and is refused *)
(* for nothing but a repeated edge.  A table that was consumed is gone, and  *)
(* a call that stops leaves no half of one.                                  *)
BucketsMakeUnion ==
    /\ doing # "broken"
    /\ doing = "refused" => Repeated(PairsOf(1..TableRows))
    /\ doing = "returned" =>
          /\ files.edges = InOrder(SymmetricGraph, RowBefore)
          /\ files.offsets = [i \in 1..TableRows + 1 |->
                Cardinality({r \in SymmetricGraph : r.source < i})]
          /\ asked.consume => \A f \in DOMAIN knn : knn[f] = 0
    /\ doing = "stopped" =>
          /\ knn \in {[f \in DOMAIN knn |-> TableRows], [f \in DOMAIN knn |-> 0]}
          /\ ~asked.consume => knn.indices = TableRows

(* The space that was asked for is enough.  Before the scan:                 *)
(* massive_umap_fuzzy_preflight asks for a word (consumed) or three per      *)
(* edge, beside the table and a block.  After it: DiskBudget, which the call *)
(* checks only when all the work is done.                                    *)
DiskBudgetHolds ==
    /\ doing \notin {"scan", "cut", "gather"} => peak <= DiskBudget
    /\ doing \in {"scan", "cut", "gather"} =>
          Words(files) + Len(asked.table[1]) * (knn.indices + knn.values)
          <= 2 * TableEdges + 2 * (TableRows + 1)
             + (IF asked.consume THEN TableEdges + 3 * asked.block * Len(asked.table[1])
                ELSE 3 * TableEdges)

(* A call gives the graph or a clean stop, and within the space it asked for *)
(* (build_graph_bucketed and its preflight): the two above, together.        *)
BucketsSound == BucketsMakeUnion /\ DiskBudgetHolds
=============================================================================
