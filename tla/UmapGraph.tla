------------------------------ MODULE UmapGraph ------------------------------
(* The fuzzy graph of UMAP, built from a table of nearest neighbours: every  *)
(* row lists the points it found, each with a membership; an edge joins two  *)
(* points when one lists the other, and its weight unites both memberships.  *)
(*                                                                           *)
(*   direct   build_graph_csr_native_direct_values: threads count, then fill *)
(*   binary   umap_graph_csr_binary_union_cpp: the same, memberships of one  *)
(*   width    umap_graph_csr_cuda_like_cpp: rows of a fixed width, in order  *)
(*   device   prepare_device_knn_graph: the same by GPU threads in any order *)
(*   padded   prepare_umap_graph_adjacency: thinned, cut to MaxWidth, padded *)
(*                                                                           *)
(* A membership is a share of Full; one that exp() has rounded to nothing is *)
(* 0, and one below the code's 1e-6 is at most Tiny.                         *)
EXTENDS Integers, FiniteSets, SequencesExt, FiniteSetsExt

CONSTANTS
    GraphRequests,  \* the calls, see RequestAssumption
    Full, Tiny,
    MaxWidth        \* kMaxCudaNeighbors, and the widest row of a GPU (256)

GraphRoutes == {"direct", "binary", "width", "device", "padded"}

(* listed: row -> column -> the index in the table and how far it is.        *)
(* member: a distance that is finite -> the membership it comes to.          *)
ASSUME RequestAssumption ==
    /\ {Full, MaxWidth} \subseteq Nat \ {0} /\ Tiny \in 0..Full
    /\ \A r \in GraphRequests :
          /\ r.route \in GraphRoutes
          /\ {r.threads, r.budget, r.epochs} \subseteq Nat \ {0}
          /\ \A i \in 1..Len(r.listed) : Len(r.listed[i]) = Len(r.listed[1])
          /\ \A d \in DOMAIN r.member : r.member[d] \in 0..Full

VARIABLES
    request,
    stage,      \* the loop at work
    turn,       \* thread -> the row it comes to
    pending,    \* <<row, column>> that GPU threads have yet to take up
    counted,    \* row -> what this loop counted
    cursors,    \* thread -> row -> incoming_counts, then its next slot
    ends,       \* row -> the end of its slots in raw; of a GPU, row_counts
    raw, directed, incoming, union     \* rows of slots, see Allocate

graphVars == <<request, stage, turn, pending, counted, cursors, ends,
               raw, directed, incoming, union>>

N == Len(request.listed)
GraphRows == 1..N
Columns == IF request.route = "width" THEN Min({Len(request.listed[1]), request.budget})
           ELSE Len(request.listed[1])
Builders == 0..request.threads - 1
Threaded == {"direct", "binary"}
OfWidth == {"width", "device"}

-----------------------------------------------------------------------------
(* What the table says                                                       *)

(* Indices are read as 1..n when all of them are, and as 0..n-1 otherwise.   *)
IndexOffset ==
    LET all == {request.listed[i][j].index : i \in GraphRows, j \in 1..Columns}
    IN  IF all \subseteq GraphRows THEN 1 ELSE 0

Target(i, j) == request.listed[i][j].index - IndexOffset + 1
Finite(i, j) == request.listed[i][j].far \in DOMAIN request.member
Valid(i, j) == Target(i, j) \in GraphRows \ {i}
Member(i, j) ==
    IF request.route = "binary" THEN Full
    ELSE IF Finite(i, j) THEN request.member[request.listed[i][j].far] ELSE 0
Entry(to, weight) == [to |-> to, weight |-> weight]

Smaller(a, b) == IF a < b THEN a ELSE b
NearCount == Smaller(request.budget, Max({2, (65 * request.budget) \div 100}))

(* choose_budget_columns: the nearest 65 in 100 and the farthest for the     *)
(* rest.  A row that is in order is not sorted.                              *)
NearerColumn(i, a, b) ==
    LET x == request.listed[i][a]  y == request.listed[i][b]
    IN  x.far < y.far \/ (x.far = y.far /\ x.index < y.index)

Numbers(from, to) == [c \in 1..to - from + 1 |-> from - 1 + c]

BudgetColumns(i) ==
    LET inOrder == \A c \in 2..Columns : ~NearerColumn(i, c, c - 1)
        order == SortSeq(Numbers(1, Columns), LAMBDA a, b : NearerColumn(i, a, b))
        far == request.budget - NearCount
    IN  IF inOrder THEN Numbers(1, NearCount) \o Numbers(Columns - far + 1, Columns)
        ELSE SubSeq(order, 1, NearCount) \o SubSeq(order, Columns - far + 1, Columns)

(* The columns of row i that a threaded build takes.                         *)
TakenColumns(i) ==
    LET columns == IF request.route = "direct" /\ request.budget < Columns
                   THEN BudgetColumns(i) ELSE Numbers(1, Columns)
    IN  SelectSeq(columns,
                  LAMBDA j : Valid(i, j) /\ (request.route = "binary" \/ Finite(i, j)))

Members(i) ==
    SelectSeq([c \in 1..Len(TakenColumns(i)) |-> Entry(Target(i, TakenColumns(i)[c]), Member(i, TakenColumns(i)[c]))],
              LAMBDA e : e.weight > 0)

Unite(f, r) == f + r - (f * r) \div Full

-----------------------------------------------------------------------------
(* Rows of slots                                                             *)

NoSlots == [from |-> <<>>, slot |-> <<>>]
NoEntry == Entry(0, 0)

(* The first slot of every row, and of the row behind the last.              *)
Offsets(count) ==
    [i \in 1..N + 1 |-> 1 + MapThenSumSet(LAMBDA j : count[j], 1..i - 1)]
Allocate(count) ==
    LET from == Offsets(count) IN [from |-> from, slot |-> [p \in 1..from[N + 1] - 1 |-> NoEntry]]

Written(csr, first, entries) ==
    [csr EXCEPT !.slot = [p \in DOMAIN @ |->
        IF p \in first..first + Len(entries) - 1 THEN entries[p - first + 1] ELSE @[p]]]
Slots(csr, i) == SubSeq(csr.slot, csr.from[i], csr.from[i + 1] - 1)

ByTarget(entries) == SortSeq(entries, LAMBDA a, b : a.to < b.to)

(* A sorted row with every target once, at its largest weight.               *)
Compacted(entries) ==
    FoldLeft(LAMBDA s, e :
                IF s # <<>> /\ Last(s).to = e.to
                THEN Front(s) \o <<Entry(e.to, Max({e.weight, Last(s).weight}))>>
                ELSE Append(s, e),
             <<>>, entries)

(* merge_union_row: both rows are walked at once, as sorted rows are.        *)
UnionRow(i) ==
    LET out == Slots(directed, i)
        in == Slots(incoming, i)
        At(s, p) == IF p > Len(s) THEN Entry(N + 1, 0) ELSE s[p]
        Walk[p \in 1..Len(out) + 1, q \in 1..Len(in) + 1] ==
            LET a == At(out, p)  b == At(in, q)
            IN  IF p > Len(out) /\ q > Len(in) THEN <<>>
                ELSE IF a.to = b.to THEN <<Entry(a.to, Unite(a.weight, b.weight))>> \o Walk[p + 1, q + 1]
                ELSE IF a.to < b.to THEN <<a>> \o Walk[p + 1, q]
                ELSE <<b>> \o Walk[p, q + 1]
    IN  SelectSeq(Walk[1, 1], LAMBDA e : e.to # i /\ (request.route = "binary" \/ e.weight > Tiny))

-----------------------------------------------------------------------------
(* Threaded builds: a thread works on the rows of its part of the table.     *)
(* Small tables have one thread, larger ones up to request.threads.          *)

FirstRow(t) == (N * t) \div request.threads + 1
Begin == turn' = [t \in Builders |-> FirstRow(t)]

StageAfter == [countRaw |-> "fillRaw", fillRaw |-> "countDirected",
                countDirected |-> "fillDirected", fillDirected |-> "tally",
                tally |-> "fillIncoming", fillIncoming |-> "countUnion",
                countUnion |-> "fillUnion", fillUnion |-> "done"]

GraphInit ==
    /\ request \in GraphRequests
    /\ stage = IF request.route \in Threaded THEN "countRaw"
               ELSE IF request.route \in OfWidth THEN "prepare" ELSE "adjacency"
    /\ turn = [t \in Builders |-> FirstRow(t)]
    /\ pending = {}
    /\ counted = [i \in GraphRows |-> 0]
    /\ cursors = [t \in Builders |-> [i \in GraphRows |-> 0]]
    /\ ends = [i \in GraphRows |-> 0]
    /\ raw = NoSlots /\ directed = NoSlots /\ incoming = NoSlots /\ union = NoSlots

Count(i, n) ==
    /\ counted' = [counted EXCEPT ![i] = n]
    /\ UNCHANGED <<cursors, ends, directed, incoming, union>>

CountRaw(i) == Count(i, Len(TakenColumns(i))) /\ UNCHANGED raw

FillRaw(i) ==
    /\ raw' = Written(raw, raw.from[i], Members(i))
    /\ ends' = [ends EXCEPT ![i] = raw.from[i] + Len(Members(i))]
    /\ UNCHANGED <<counted, cursors, directed, incoming, union>>

RawRow(i) == SubSeq(raw.slot, raw.from[i], ends[i] - 1)

(* compact_directed_rows_inplace: the row is sorted where it is.             *)
CountDirected(i) ==
    /\ raw' = Written(raw, raw.from[i], ByTarget(RawRow(i)))
    /\ Count(i, Len(Compacted(ByTarget(RawRow(i)))))

FillDirected(i) ==
    /\ directed' = Written(directed, directed.from[i], Compacted(RawRow(i)))
    /\ UNCHANGED <<counted, cursors, ends, raw, incoming, union>>

Tally(t, i) ==
    /\ cursors' = [cursors EXCEPT ![t] = [v \in GraphRows |->
          @[v] + Cardinality({p \in directed.from[i]..directed.from[i + 1] - 1 :
                              directed.slot[p].to = v})]]
    /\ UNCHANGED <<counted, ends, raw, directed, incoming, union>>

(* One thread, one row: its entries go where the thread's cursors point.     *)
FillIncoming(t, i) ==
    LET Put(s, e) ==
            [s EXCEPT !.csr = Written(@, s.cursor[e.to], <<Entry(i, e.weight)>>),
                      !.cursor[e.to] = @ + 1]
        s == FoldLeft(Put, [csr |-> incoming, cursor |-> cursors[t]], Slots(directed, i))
    IN  /\ incoming' = s.csr
        /\ cursors' = [cursors EXCEPT ![t] = s.cursor]
        /\ UNCHANGED <<counted, ends, raw, directed, union>>

CountUnion(i) == Count(i, Len(UnionRow(i))) /\ UNCHANGED raw

FillUnion(i) ==
    /\ union' = Written(union, union.from[i], UnionRow(i))
    /\ UNCHANGED <<counted, cursors, ends, raw, directed, incoming>>

BuildRow(t) ==
    /\ request.route \in Threaded /\ stage # "done" /\ stage # "refused"
    /\ LET i == turn[t]
       IN  /\ i < FirstRow(t + 1)
           /\ CASE stage = "countRaw" -> CountRaw(i)
                [] stage = "fillRaw" -> FillRaw(i)
                [] stage = "countDirected" -> CountDirected(i)
                [] stage = "fillDirected" -> FillDirected(i)
                [] stage = "tally" -> Tally(t, i)
                [] stage = "fillIncoming" -> FillIncoming(t, i)
                [] stage = "countUnion" -> CountUnion(i)
                [] stage = "fillUnion" -> FillUnion(i)
    /\ turn' = [turn EXCEPT ![t] = @ + 1]
    /\ UNCHANGED <<request, stage, pending>>

(* Where a thread puts what it finds for row v: behind the threads before    *)
(* it.  Mutated form: every thread begins at the first slot of the row.      *)
ThreadStartsAlike(from, t, v) == from[v]
ThreadStarts(from, t, v) == from[v] + MapThenSumSet(LAMBDA s : cursors[s][v], 0..t - 1)

(* The threads are joined; the caller lays out what the next loop fills.     *)
JoinBuilders ==
    /\ request.route \in Threaded /\ stage \in DOMAIN StageAfter
    /\ \A t \in Builders : turn[t] = FirstRow(t + 1)
    /\ LET incomingCount == [v \in GraphRows |-> MapThenSumSet(LAMBDA t : cursors[t][v], Builders)]
           from == Offsets(incomingCount)
       IN  /\ raw' = IF stage = "countRaw" THEN Allocate(counted) ELSE raw
           /\ ends' = IF stage = "countRaw" THEN [i \in GraphRows |-> Offsets(counted)[i]] ELSE ends
           /\ directed' = IF stage = "countDirected" THEN Allocate(counted) ELSE directed
           /\ incoming' = IF stage = "tally" THEN Allocate(incomingCount) ELSE incoming
           /\ cursors' = IF stage = "tally"
                         THEN [t \in Builders |-> [v \in GraphRows |-> ThreadStarts(from, t, v)]]
                         ELSE cursors
           /\ union' = IF stage = "countUnion" THEN Allocate(counted) ELSE union
    /\ stage' = IF stage = "countRaw" /\ request.route = "binary" /\ \A i \in GraphRows : counted[i] = 0
                THEN "refused" ELSE StageAfter[stage]
    /\ Begin
    /\ UNCHANGED <<request, pending, counted>>

-----------------------------------------------------------------------------
(* Rows of a fixed width                                                     *)

Width == Smaller(MaxWidth, 2 * Columns)

(* prepare_directed_knn_kernel: a column that is no neighbour points to its  *)
(* own row (0 here), with nothing.                                           *)
Direct(i, j) ==
    IF ~Valid(i, j) \/ (request.route = "width" /\ ~Finite(i, j)) THEN NoEntry
    ELSE Entry(Target(i, j), Member(i, j))

Prepare ==
    /\ stage = "prepare"
    /\ stage' = "outgoing"
    /\ pending' = GraphRows \X (1..Columns)
    /\ directed' = [from |-> [i \in 1..N + 1 |-> (i - 1) * Columns + 1],
                    slot |-> [p \in 1..N * Columns |->
                                 Direct((p - 1) \div Columns + 1, ((p - 1) % Columns) + 1)]]
    /\ union' = [from |-> [i \in 1..N + 1 |-> (i - 1) * Width + 1],
                 slot |-> [p \in 1..N * Width |-> Entry((p - 1) \div Width + 1, 0)]]
    /\ UNCHANGED <<request, turn, counted, cursors, ends, raw, incoming>>

ListsInDirect(i, v) == \E p \in 1..Columns : Slots(directed, i)[p].to = v
ReverseWeight(i, v) ==
    IF ~ListsInDirect(i, v) THEN 0
    ELSE Slots(directed, i)[Min({p \in 1..Columns : Slots(directed, i)[p].to = v})].weight

(* atomicAdd hands out the next place of the row; one beyond the width is    *)
(* counted and not stored.                                                   *)
PutInRow(i, entry) ==
    /\ ends' = [ends EXCEPT ![i] = @ + 1]
    /\ union' = IF ends[i] < Width THEN Written(union, union.from[i] + ends[i], <<entry>>) ELSE union

Following == IF stage = "outgoing" THEN "incoming" ELSE "sort"

TakeUp(i, j) ==
    /\ stage \in {"outgoing", "incoming"}
    /\ <<i, j>> \in pending
    /\ request.route = "width" =>
          \A e \in pending : e[1] > i \/ (e[1] = i /\ e[2] >= j)
    /\ LET e == Slots(directed, i)[j]
       IN  IF e.to = 0 \/ e.weight = 0 THEN UNCHANGED <<ends, union>>
           ELSE IF stage = "outgoing"
           THEN PutInRow(i, Entry(e.to, Unite(e.weight, ReverseWeight(e.to, i))))
           ELSE IF ListsInDirect(e.to, i) THEN UNCHANGED <<ends, union>>
           ELSE PutInRow(e.to, Entry(i, e.weight))
    /\ IF pending = {<<i, j>>}
       THEN /\ stage' = Following
            /\ pending' = IF stage = "outgoing" THEN GraphRows \X (1..Columns) ELSE {}
       ELSE pending' = pending \ {<<i, j>>} /\ UNCHANGED stage
    /\ UNCHANGED <<request, turn, counted, cursors, raw, directed, incoming>>

Stored(i) == SubSeq(Slots(union, i), 1, Smaller(ends[i], Width))

(* sort_umap_union_rows_kernel, and the last loops of the CPU's version,     *)
(* which leave weak edges out.                                               *)
SortRows ==
    /\ stage = "sort"
    /\ LET kept(i) == IF request.route = "width" THEN SelectSeq(Stored(i), LAMBDA e : e.weight > Tiny)
                      ELSE Stored(i)
           rows == [i \in GraphRows |-> ByTarget(kept(i))]
           new == Allocate([i \in GraphRows |-> Len(rows[i])])
       IN  union' = [new EXCEPT !.slot = FlattenSeq(rows)]
    /\ stage' = "done"
    /\ UNCHANGED <<request, turn, pending, counted, cursors, ends, raw, directed, incoming>>

-----------------------------------------------------------------------------
(* prepare_umap_graph_adjacency: directed edges are sorted by their ends,    *)
(* united, and those that would be due less than once are left out.  A row   *)
(* is in order of weight and filled up with itself.                          *)

ListedBy(i, j) == {c \in 1..Columns : Valid(i, c) /\ Target(i, c) = j}
Strongest(i, j) == Max({0} \cup {Member(i, c) : c \in ListedBy(i, j)})

Stronger(a, b) == a.weight > b.weight \/ (a.weight = b.weight /\ a.to < b.to)

PadAdjacency ==
    /\ stage = "adjacency"
    /\ LET pairs == {<<a, b>> \in GraphRows \X GraphRows : a < b}
           both(e) == Unite(Strongest(e[1], e[2]), Strongest(e[2], e[1]))
           edges == {e \in pairs : both(e) > Tiny}
           most == Max({0} \cup {both(e) : e \in edges})
           kept == {e \in edges : both(e) * request.epochs >= most}
           around(i) == {Entry(e[2], both(e)) : e \in {e \in kept : e[1] = i}}
                        \cup {Entry(e[1], both(e)) : e \in {e \in kept : e[2] = i}}
           rows == [i \in GraphRows |->
                       LET all == SetToSortSeq(around(i), Stronger)
                       IN  SubSeq(all, 1, Smaller(Len(all), MaxWidth))]
           width == Max({1} \cup {Len(rows[i]) : i \in GraphRows})
       IN  /\ union' = [from |-> [i \in 1..N + 1 |-> (i - 1) * width + 1],
                        slot |-> FlattenSeq([i \in GraphRows |->
                            rows[i] \o [c \in 1..width - Len(rows[i]) |-> Entry(i, 0)]])]
           /\ ends' = [i \in GraphRows |-> Len(rows[i])]
    /\ stage' = "done"
    /\ UNCHANGED <<request, turn, pending, counted, cursors, raw, directed, incoming>>

-----------------------------------------------------------------------------
GraphNext ==
    \/ \E t \in Builders : BuildRow(t)
    \/ JoinBuilders
    \/ Prepare
    \/ \E e \in pending : TakeUp(e[1], e[2])
    \/ SortRows
    \/ PadAdjacency

GraphSpec == GraphInit /\ [][GraphNext]_graphVars

-----------------------------------------------------------------------------
(* The graph the table defines: the columns within the budget are those with *)
(* few nearer or few farther ones.                                           *)
RankOf(i, c) == Cardinality({d \in 1..Columns : NearerColumn(i, d, c)})
WithinBudget(i, c) ==
    request.route = "direct" /\ request.budget < Columns =>
        RankOf(i, c) < NearCount \/ RankOf(i, c) >= Columns - (request.budget - NearCount)

Membership(i, j) == Max({0} \cup {Member(i, c) : c \in {c \in ListedBy(i, j) : WithinBudget(i, c)}})
FuzzyEdges(i, least) ==
    {e \in {Entry(j, Unite(Membership(i, j), Membership(j, i))) : j \in GraphRows \ {i}} :
        e.weight > least}

(* Every build makes the fuzzy union, whatever its threads do: each edge     *)
(* once in both its rows, with one weight, rows in order of the points.      *)
(* What rows of a fixed width leave out is known: edges beyond the width of  *)
(* a full row, and the return edge of a point that is listed with a          *)
(* membership of nothing.  What the padded rows leave out are the edges due  *)
(* less than once and the weakest of a row that is full.                     *)
GraphIsUnion ==
    stage = "done" =>
        \A i \in GraphRows :
            LET row == SelectSeq(Slots(union, i), LAMBDA e : e.to # i)
                edges == ToSet(row)
                least == IF request.route = "device" THEN 0 ELSE Tiny
                listedWithNothing(v) == \E c \in ListedBy(i, v) : Member(i, c) = 0
                most == Max({0} \cup {e.weight : e \in UNION {FuzzyEdges(v, Tiny) : v \in GraphRows}})
                due == {e \in FuzzyEdges(i, Tiny) : e.weight * request.epochs >= most}
            IN  /\ \A p \in 1..Len(row) - 1 :
                      IF request.route = "padded" THEN Stronger(row[p], row[p + 1])
                      ELSE row[p].to < row[p + 1].to
                /\ edges \subseteq FuzzyEdges(i, least)
                /\ request.route \in Threaded => edges = FuzzyEdges(i, Tiny)
                /\ request.route \in OfWidth =>
                      \A e \in FuzzyEdges(i, least) \ edges :
                          ends[i] > Width \/ listedWithNothing(e.to)
                /\ request.route = "padded" =>
                      /\ edges \subseteq due
                      /\ Len(row) = Smaller(Cardinality(due), MaxWidth)
                      /\ \A e \in due \ edges, f \in edges : Stronger(f, e)
=============================================================================
