------------------------------ MODULE Evaluation ------------------------------
(* Scores of a layout against the data it was made from: neighbourhoods    *)
(* kept, trustworthiness and continuity over sampled rows (on threads or a *)
(* GPU) or over all ranks, silhouettes, votes of the neighbours' labels,   *)
(* the mix of batches, recall of a search, and distances of sampled pairs. *)
(*                                                                         *)
(* Every row (or pair) contributes a tuple of whole numbers from which its *)
(* terms follow; a total is the bag of the contributions it was added from,*)
(* so that a row lost or counted twice shows, and rounding does not.       *)
(* Points lie on a line; 0 is an absent label or neighbour.                  *)
EXTENDS Integers, FiniteSets, Sequences, SequencesExt, FiniteSetsExt, Bags

CONSTANTS
    Metrics,        \* the calls that are looked at
    ThreadsFrom,    \* as many sampled rows are worth more than one thread
    Block           \* threads that a GPU adds rows with, a power of two

ASSUME EvaluationSizes == ThreadsFrom \in Nat /\ Block \in {2, 4}

VARIABLES
    metric,     \* the call
    scoring,    \* where it is, on which device
    scorers,    \* its threads: rows still to be looked at, and their total
    pairwise,   \* distances of all pairs of rows
    outcome     \* the total, once the call has returned

evalVars == <<metric, scoring, scorers, pairwise, outcome>>

EvalPoints == 1..Len(metric.low)
Apart(line, i, j) == IF line[i] < line[j] THEN line[j] - line[i] ELSE line[i] - line[j]
Excess(rank, k) == IF rank > k THEN rank - k ELSE 0
Below(a, b) == a[1] < b[1] \/ (a[1] = b[1] /\ a[2] < b[2])
IsPoint(j) == j \in EvalPoints

-------------------------------------------------------------------------------
(* A sampled row: its k nearest rows in the layout against the table.      *)
Query(i) == metric.keep[i]
Compact == Len(metric.table) = Len(metric.keep)
TableRow(i) == metric.table[IF Compact THEN i ELSE Query(i)]

(* find_high_rank: the place in the table, or one past its end.            *)
HighRank(list, j) ==
    LET places == {p \in DOMAIN list : list[p] = j}
    IN IF places = {} THEN Len(list) + 1 ELSE Min(places)

LowKey(q, j) == <<Apart(metric.low, q, j), j>>

(* One pass over the candidates that keeps the k least of them.            *)
LowOrder(q) ==
    LET keep(best, j) ==
            IF j = q THEN best
            ELSE IF Len(best) < metric.k THEN Append(best, LowKey(q, j))
            ELSE LET last == CHOOSE p \in DOMAIN best :
                                \A o \in DOMAIN best : o = p \/ Below(best[o], best[p])
                 IN IF Below(LowKey(q, j), best[last])
                    THEN [best EXCEPT ![last] = LowKey(q, j)] ELSE best
    IN SortSeq(FoldLeft(keep, <<>>, [j \in EvalPoints |-> j]), Below)

Targets(i) ==
    SortSeq([p \in DOMAIN SelectSeq(SubSeq(TableRow(i), 1, metric.k), IsPoint) |->
                LowKey(Query(i), SelectSeq(SubSeq(TableRow(i), 1, metric.k), IsPoint)[p])], Below)

(* The CPU counts candidates at the first target behind each, and adds the *)
(* counts up over the targets; a GPU counts anew for each target.          *)
Nearer(q, key) == {j \in EvalPoints \ {q} : Below(LowKey(q, j), key)}
FirstBehind(targets, key) ==
    Min({p \in DOMAIN targets : Below(key, targets[p])} \cup {Len(targets) + 1})
CountedUp(i) ==
    LET targets == Targets(i)
        q == Query(i)
        at(p) == {j \in EvalPoints \ {q} : FirstBehind(targets, LowKey(q, j)) = p}
        counted == FoldLeft(LAMBDA sums, p : Append(sums, (IF sums = <<>> THEN 1 ELSE Last(sums))
                                                        + Cardinality(at(p))),
                          <<>>, [p \in DOMAIN targets |-> p])
    IN [p \in DOMAIN counted |-> Excess(counted[p], metric.k)]
CountedAnew(i) ==
    [p \in DOMAIN Targets(i) |->
        Excess(1 + Cardinality(Nearer(Query(i), Targets(i)[p])), metric.k)]
AddUp(seq) == FoldLeft(LAMBDA sum, x : sum + x, 0, seq)

(* The label that most of the rows have, the least of several; 0 for none. *)
HavingLabel(rows, label) ==
    Cardinality({p \in DOMAIN rows : IsPoint(rows[p]) /\ metric.labels[rows[p]] = label})
Voted(rows) ==
    FoldLeft(LAMBDA best, label :
                IF HavingLabel(rows, label) >
                        (IF best = 0 THEN 0 ELSE HavingLabel(rows, best)) THEN label ELSE best,
             0, [label \in 1..metric.levels |-> label])

Structure(i) ==
    LET low == LowOrder(Query(i))
        rank(p) == HighRank(TableRow(i), low[p][2])
        found == [p \in DOMAIN low |-> low[p][2]]
    IN IF ~IsPoint(Query(i)) \/ Len(low) < metric.k THEN <<>>
       ELSE <<Cardinality({p \in DOMAIN low : rank(p) <= metric.k}),
              AddUp([p \in DOMAIN low |-> Excess(rank(p), metric.k)]),
              AddUp(IF scoring.gpu THEN CountedAnew(i) ELSE CountedUp(i)),
              IF metric.levels = 0 \/ metric.labels[Query(i)] = 0 THEN 0
              ELSE IF Voted(found) = metric.labels[Query(i)] THEN 1
              ELSE IF Voted(found) = 0 THEN 0 ELSE 2>>

-------------------------------------------------------------------------------
(* Ranks of all rows, from distances that all threads have filled in.      *)
OrderBy(i, which) ==
    SortSeq(SelectSeq([j \in EvalPoints |-> j], LAMBDA j : j # i),
            LAMBDA a, b : Below(<<pairwise[i, a][which], a>>, <<pairwise[i, b][which], b>>))
PlaceIn(order, j) == CHOOSE p \in DOMAIN order : order[p] = j

ExactRanks(i) ==
    LET high == OrderBy(i, 1)
        low == OrderBy(i, 2)
        inHigh == [p \in DOMAIN low |-> PlaceIn(high, low[p])]
        inLow == [p \in DOMAIN high |-> PlaceIn(low, high[p])]
        at(k) == <<Cardinality({p \in 1..k : inHigh[p] <= k}),
                   AddUp([p \in 1..k |-> Excess(inHigh[p], k)]),
                   AddUp([p \in 1..k |-> Excess(inLow[p], k)]),
                   AddUp([p \in 1..k |-> Excess(inHigh[p], p) + Excess(p, inHigh[p])])>>
    IN [n \in DOMAIN metric.ks |-> at(metric.ks[n])]

(* Silhouettes: the mean distance to the rows of the own label and to the  *)
(* nearest other one, as fractions.                                        *)
Labelled == SelectSeq([j \in EvalPoints |-> j], LAMBDA j : metric.labels[j] \in 1..metric.levels)
Less(f, g) == f[1] * g[2] < g[1] * f[2]
ToLabel(i, label) ==
    LET rows == SelectSeq(Labelled, LAMBDA j : j # i /\ metric.labels[j] = label)
    IN <<AddUp([p \in DOMAIN rows |-> Apart(metric.low, i, rows[p])]), Len(rows)>>
Classes == {metric.labels[Labelled[p]] : p \in DOMAIN Labelled}

Silhouette(i) ==
    LET own == metric.labels[i]
        mean == [label \in Classes |-> ToLabel(i, label)]
        least(best, label) ==
            IF label = own THEN best
            ELSE IF best = <<>> THEN mean[label]
            ELSE IF Less(mean[label], best) THEN mean[label] ELSE best
        b == FoldLeft(least, <<>>, SelectSeq([l \in 1..metric.levels |-> l], LAMBDA l : l \in Classes))
        a == IF mean[own][2] > 0 THEN mean[own] ELSE <<0, 1>>
    IN IF own \notin 1..metric.levels \/ Cardinality(Classes) < 2 THEN <<>>
       ELSE <<b[1] * a[2] - a[1] * b[2], Max({b[1] * a[2], a[1] * b[2]})>>

(* Neighbours in the layout: their vote, the labels they have, and what    *)
(* they share with the table, at which ranks.                              *)
Entropy(rows) ==
    LET valid == AddUp([l \in 1..metric.levels |-> HavingLabel(rows, l)])
    IN IF valid = 0 THEN <<>> ELSE [l \in 1..metric.levels |-> <<HavingLabel(rows, l), valid>>]

Votes(i) ==
    LET rows == SubSeq(metric.found[i], 1, metric.k)
        table == SubSeq(metric.table[i], 1, metric.k)
        rank(p) == HighRank(table, rows[p])
    IN <<Voted(rows), Entropy(rows), Cardinality({p \in DOMAIN rows : rank(p) <= metric.k}),
         AddUp([p \in DOMAIN rows |-> Excess(rank(p), p) + Excess(p, rank(p))])>>

PairOf(i) == <<Apart(metric.low, metric.pairs[i][1], metric.pairs[i][2])>>

Contribution(i) ==
    CASE metric.kind = "structure" -> Structure(i)
      [] metric.kind = "exact" -> ExactRanks(i)
      [] metric.kind = "silhouette" -> Silhouette(i)
      [] metric.kind = "votes" -> Votes(i)
      [] metric.kind = "pairs" -> PairOf(i)

Tagged(i) == IF Contribution(i) = <<>> THEN EmptyBag ELSE SetToBag({<<i, Contribution(i)>>})

-------------------------------------------------------------------------------
(* Threads and their rows.                                                 *)
Items ==
    IF metric.kind = "structure" THEN Len(metric.keep)
    ELSE IF metric.kind = "pairs" THEN Len(metric.pairs) ELSE Len(metric.low)

Team ==
    CASE scoring.gpu -> Items
      [] ~scoring.gpu /\ metric.kind = "structure" ->
            IF Items >= ThreadsFrom THEN Min({Items, metric.threads}) ELSE 1
      [] ~scoring.gpu /\ metric.kind \in {"exact", "pairs"} -> Max({1, Min({Items, metric.threads})})
      [] ~scoring.gpu /\ metric.kind \in {"silhouette", "votes"} -> 1

EvenShare(t) == [next |-> (Items * (t - 1)) \div Team + 1, last |-> (Items * t) \div Team]

(* Mutated form: chunks of the rounded down size.                          *)
ChunkRoundedDown == Items \div Team
Chunk == (Items + Team - 1) \div Team
Chunked(t) == [next |-> (t - 1) * Chunk + 1, last |-> Min({Items, t * Chunk})]

ScorerOf(t) ==
    LET range == IF scoring.gpu THEN [next |-> t, last |-> t]
                 ELSE IF metric.kind = "structure" THEN Chunked(t) ELSE EvenShare(t)
    IN [next |-> range.next, last |-> range.last, total |-> EmptyBag]

At(pc) == scoring.pc = pc
Joined == \A t \in DOMAIN scorers : scorers[t].next > scorers[t].last

EvalInit ==
    /\ metric \in Metrics
    /\ scoring = [pc |-> "called", gpu |-> metric.gpu]
    /\ scorers = <<>> /\ outcome = EmptyBag
    /\ pairwise = [c \in EvalPoints \X EvalPoints |-> <<0, 0>>]

LaunchThreads ==
    /\ At("called")
    /\ scoring' = [scoring EXCEPT !.pc = IF metric.kind = "exact" THEN "distances" ELSE "rows"]
    /\ scorers' = [t \in 1..Team |-> ScorerOf(t)]
    /\ UNCHANGED <<metric, pairwise, outcome>>

(* Distances of a row to those behind it, both ways.                       *)
MeasureRow(t) ==
    /\ At("distances") /\ scorers[t].next <= scorers[t].last
    /\ LET i == scorers[t].next
           both(j) == <<Apart(metric.high, i, j), Apart(metric.low, i, j)>>
       IN pairwise' = [c \in EvalPoints \X EvalPoints |->
                IF c[1] = i /\ c[2] > i THEN both(c[2])
                ELSE IF c[2] = i /\ c[1] > i THEN both(c[1]) ELSE pairwise[c]]
    /\ scorers' = [scorers EXCEPT ![t].next = @ + 1]
    /\ UNCHANGED <<metric, scoring, outcome>>

AllMeasured ==
    /\ At("distances") /\ Joined
    /\ scoring' = [scoring EXCEPT !.pc = "rows"]
    /\ scorers' = [t \in 1..Team |-> ScorerOf(t)]
    /\ UNCHANGED <<metric, pairwise, outcome>>

ScoreRow(t) ==
    /\ At("rows") /\ scorers[t].next <= scorers[t].last
    /\ scorers' = [scorers EXCEPT ![t].next = @ + 1,
                                  ![t].total = @ (+) Tagged(scorers[t].next)]
    /\ UNCHANGED <<metric, scoring, pairwise, outcome>>

InOrder(totals) == FoldLeft(LAMBDA sum, x : sum (+) x, EmptyBag, totals)

(* reduce_width_kernel: every thread of a block adds every Block-th row,   *)
(* then half of the threads add those of the other half, and so on.        *)
Strides == IF Block = 4 THEN <<2, 1>> ELSE <<1>>
Halved(totals, stride) ==
    [p \in DOMAIN totals |-> IF p <= stride THEN totals[p] (+) totals[p + stride] ELSE totals[p]]
Reduced(totals) ==
    LET own(p) == SelectSeq([t \in DOMAIN totals |-> t], LAMBDA t : (t - 1) % Block = p - 1)
        sums == [p \in 1..Block |-> InOrder([n \in DOMAIN own(p) |-> totals[own(p)[n]]])]
    IN FoldLeft(Halved, sums, Strides)[1]

JoinScorers ==
    /\ At("rows") /\ Joined
    /\ LET totals == [t \in DOMAIN scorers |-> scorers[t].total]
       IN outcome' = IF scoring.gpu THEN Reduced(totals) ELSE InOrder(totals)
    /\ scoring' = [scoring EXCEPT !.pc = "done"]
    /\ scorers' = <<>>
    /\ UNCHANGED <<metric, pairwise>>

(* A GPU that fails, at any call; the score is then taken on the CPU.      *)
GpuFails ==
    /\ scoring.gpu /\ ~At("done")
    /\ scoring' = [pc |-> "called", gpu |-> FALSE]
    /\ scorers' = <<>>
    /\ UNCHANGED <<metric, pairwise, outcome>>

EvalNext ==
    \/ LaunchThreads \/ AllMeasured \/ JoinScorers \/ GpuFails
    \/ \E t \in DOMAIN scorers : MeasureRow(t) \/ ScoreRow(t)

-------------------------------------------------------------------------------
(* Properties.                                                             *)

(* Ranks said by counting: how many other rows are nearer.                 *)
RankOf(line, q, j) ==
    1 + Cardinality({c \in EvalPoints \ {q} : Below(<<Apart(line, q, c), c>>, <<Apart(line, q, j), j>>)})
NearestBy(line, q, k) == {j \in EvalPoints \ {q} : RankOf(line, q, j) <= k}

(* The label a vote must give: no other has more, or as many and is less.  *)
Winner(count) ==
    IF \A l \in DOMAIN count : count[l] = 0 THEN 0
    ELSE CHOOSE l \in DOMAIN count :
            \A o \in DOMAIN count \ {l} : count[o] < count[l] \/ (count[o] = count[l] /\ l < o)

StructureByRanks(i) ==
    LET q == metric.keep[i]
        closest == NearestBy(metric.low, q, metric.k)
        list == TableRow(i)
        listed == {p \in 1..metric.k : list[p] \in EvalPoints}
        winner == Winner([l \in 1..metric.levels |-> Cardinality({j \in closest : metric.labels[j] = l})])
    IN <<Cardinality({j \in closest : \E p \in 1..metric.k : list[p] = j}),
         MapThenSumSet(LAMBDA j : Excess(HighRank(list, j), metric.k), closest),
         MapThenSumSet(LAMBDA p : Excess(RankOf(metric.low, q, list[p]), metric.k), listed),
         IF metric.levels = 0 \/ metric.labels[q] = 0 \/ winner = 0 THEN 0
         ELSE IF winner = metric.labels[q] THEN 1 ELSE 2>>

RanksAt(i, k) ==
    LET closest == NearestBy(metric.low, i, k)
        off(j) == RankOf(metric.high, i, j) - RankOf(metric.low, i, j)
    IN <<Cardinality(closest \cap NearestBy(metric.high, i, k)),
         MapThenSumSet(LAMBDA j : Excess(RankOf(metric.high, i, j), k), closest),
         MapThenSumSet(LAMBDA j : Excess(RankOf(metric.low, i, j), k), NearestBy(metric.high, i, k)),
         MapThenSumSet(LAMBDA j : IF off(j) < 0 THEN -off(j) ELSE off(j), closest)>>

(* What a call must add up: one contribution of every row, said by ranks   *)
(* where the code sorts, selects and counts.                               *)
Expected ==
    CASE metric.kind = "structure" ->
            {<<i, StructureByRanks(i)>> : i \in {i \in DOMAIN metric.keep :
                                metric.keep[i] \in EvalPoints /\ Cardinality(EvalPoints) > metric.k}}
      [] metric.kind = "exact" ->
            {<<i, [n \in DOMAIN metric.ks |-> RanksAt(i, metric.ks[n])]>> : i \in EvalPoints}
      [] metric.kind = "silhouette" ->
            {<<i, Silhouette(i)>> : i \in {i \in EvalPoints : Silhouette(i) # <<>>}}
      [] metric.kind = "votes" -> {<<i, Votes(i)>> : i \in EvalPoints}
      [] metric.kind = "pairs" -> {<<i, PairOf(i)>> : i \in DOMAIN metric.pairs}

(* However the rows are split over threads, or added up on a GPU that may  *)
(* fail first, a score is made of every row once, with the ranks that      *)
(* counting gives: the heap of nearest rows, the histogram behind the      *)
(* continuity and the order of two phases over shared distances lose and   *)
(* add nothing.                                                            *)
ScoresExact == At("done") => outcome = SetToBag(Expected)
=============================================================================
