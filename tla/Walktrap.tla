------------------------------ MODULE Walktrap ------------------------------
(* Walktrap communities (walktrap.cpp): random walks of a few steps from   *)
(* every vertex, then the two adjacent communities whose walks differ      *)
(* least are merged until none are adjacent; the best partition on the way  *)
(* is returned.  Probabilities, distances and modularity are kept as whole  *)
(* numbers of a unit each, so that nothing is rounded; where rounding may  *)
(* order equal distances in the program, any of them is next.              *)
EXTENDS Integers, Sequences, FiniteSets, TLC, FiniteSetsExt, SequencesExt

CONSTANT WalkGraphs     \* the graphs: [n, edges, steps]

ASSUME WalkAssumption ==
    \A g \in WalkGraphs :
       /\ g.n \in Nat \ {0} /\ g.steps \in Nat \ {0}
       /\ \A e \in ToSet(g.edges) : {e.from, e.to} \subseteq 1..g.n /\ e.weight \in Nat

VARIABLES
    walk,       \* the graph with its edges added up, and its units
    walked,     \* steps of the walks that are done
    profile,    \* slot -> vertex -> where the walks of its members end, added up
    community,  \* id -> [active, size, slot, degree, nearby]
    pending,       \* candidate merges: [delta, left, right]
    alone,      \* the profiles before the first merge, kept for the properties
    merges,     \* the pairs joined, in order
    trace,      \* modularity at the start and after every merge
    bestMerges,       \* merges of the bestMerges partition
    membership  \* the result

agglomeration == <<profile, alone, community, pending, merges, trace, bestMerges>>
walkVars == <<walk, walked, agglomeration, membership>>

----------------------------------------------------------------------------
(* The graph and the walks                                                 *)

Lcm(a, b) == Min({x \in {a * i : i \in 1..b} : x % b = 0})
CommonMultiple(numbers) == FoldSet(Lcm, 1, numbers)

(* Parallel edges and both directions add up; loops are not edges.         *)
WeightOf(g) == [u \in 1..g.n |-> [v \in 1..g.n |->
    MapThenSumSet(LAMBDA i : g.edges[i].weight,
                  {i \in DOMAIN g.edges : u # v /\ {g.edges[i].from, g.edges[i].to} = {u, v}})]]
Linked(weight, u) == {v \in DOMAIN weight : weight[u][v] > 0}
SumOver(f) == MapThenSumSet(LAMBDA v : f[v], DOMAIN f)

Everyone == DOMAIN walk.weight
Links(u) == Cardinality(Linked(walk.weight, u))
(* A vertex has a loop of the mean weight of its edges, or of weight 1.    *)
Chance(u, v) ==
    IF u = v THEN walk.unit \div (Links(u) + 1)
    ELSE (walk.unit * walk.weight[u][v] * Links(u))
         \div Max({1, walk.degree[u] * (Links(u) + 1)})
InverseDegree(u) ==
    IF Links(u) = 0 THEN walk.unit
    ELSE (walk.unit * Links(u)) \div (walk.degree[u] * (Links(u) + 1))

Walk(f) == [v \in Everyone |-> MapThenSumSet(LAMBDA u : f[u] * Chance(u, v), Everyone)]

(* What merging two communities adds to the spread of the walks within     *)
(* communities: profiles p and q of sizes a and b, in walk.ward parts.     *)
Spread(p, a, q, b) ==
    (walk.ward \div (a * b * (a + b))) *
    MapThenSumSet(LAMBDA k : (b * p[k] - a * q[k]) * (b * p[k] - a * q[k]) * InverseDegree(k),
                  Everyone)

NoCommunity == [active |-> FALSE, size |-> 0, slot |-> 0, degree |-> 0, nearby |-> <<>>]
WalkTotal == SumOver(walk.degree) \div 2

Prepared(g) ==
    LET weight == WeightOf(g)
        degree == [u \in 1..g.n |-> SumOver(weight[u])]
        links(u) == Cardinality(Linked(weight, u))
    IN [n |-> g.n, steps |-> g.steps, weight |-> weight, degree |-> degree,
        unit |-> CommonMultiple({Max({1, degree[u]}) * (links(u) + 1) : u \in 1..g.n}),
        ward |-> CommonMultiple({a * b * (a + b) : <<a, b>> \in
                    {p \in (1..g.n) \X (1..g.n) : p[1] + p[2] <= g.n}})]

WalkInit ==
    /\ walk \in {Prepared(g) : g \in WalkGraphs}
    /\ walked = 0
    /\ profile = [i \in Everyone |-> [v \in Everyone |-> IF i = v THEN 1 ELSE 0]]
    /\ alone = <<>>
    /\ community = [i \in 1..2 * walk.n - 1 |-> NoCommunity]
    /\ pending = {} /\ merges = <<>> /\ trace = <<>> /\ bestMerges = 0 /\ membership = <<>>

(* A graph without weight is returned as it is.                            *)
NoEdges ==
    /\ membership = <<>> /\ WalkTotal = 0
    /\ membership' = [i \in Everyone |-> i]
    /\ UNCHANGED <<walk, walked, agglomeration>>

TakeStep ==
    /\ WalkTotal > 0 /\ walked < walk.steps
    /\ walked' = walked + 1
    /\ profile' = [i \in Everyone |-> Walk(profile[i])]
    /\ UNCHANGED <<walk, alone, community, pending, merges, trace, bestMerges, membership>>

----------------------------------------------------------------------------
(* The merges                                                              *)

Pair(delta, a, b) == [delta |-> delta, left |-> Min({a, b}), right |-> Max({a, b})]

WalkCandidates ==
    /\ walked = walk.steps /\ trace = <<>>
    /\ LET delta(u, v) == Spread(profile[u], 1, profile[v], 1) IN
       /\ community' = [i \in DOMAIN community |->
             IF i > walk.n THEN NoCommunity
             ELSE [active |-> TRUE, size |-> 1, slot |-> i, degree |-> walk.degree[i],
                   nearby |-> [v \in Linked(walk.weight, i) |->
                                [delta |-> delta(i, v), weight |-> walk.weight[i][v]]]]]
       /\ pending' = {Pair(delta(u, v), u, v) : <<u, v>> \in
                      {p \in Everyone \X Everyone : walk.weight[p[1]][p[2]] > 0}}
    /\ trace' = <<-SumOver([u \in Everyone |-> walk.degree[u] * walk.degree[u]])>>
    /\ alone' = profile
    /\ UNCHANGED <<walk, walked, profile, merges, bestMerges, membership>>

LeastDelta(c) == \A d \in pending : c.delta <= d.delta
Current(c) ==
    /\ community[c.left].active /\ community[c.right].active
    /\ c.right \in DOMAIN community[c.left].nearby
    /\ community[c.left].nearby[c.right].delta = c.delta

Stale ==
    \E c \in pending :
       /\ LeastDelta(c) /\ ~Current(c)
       /\ pending' = pending \ {c}
       /\ UNCHANGED <<walk, walked, profile, alone, community, merges, trace, bestMerges, membership>>

(* Mutated form: the sizes are not weighed.                                *)
MergedDeltaPlain(a, b, other, between, sums) ==
    IF other \in DOMAIN a.nearby \cap DOMAIN b.nearby
    THEN (2 * a.nearby[other].delta + 2 * b.nearby[other].delta - between) \div 3
    ELSE Spread(sums, a.size + b.size,
                profile[community[other].slot], community[other].size)
(* The distance to a community next to both follows from the three known   *)
(* ones; to any other it is taken from the walks.                          *)
MergedDelta(a, b, other, between, sums) ==
    LET o == community[other] IN
    IF other \in DOMAIN a.nearby \cap DOMAIN b.nearby
    THEN ((a.size + o.size) * a.nearby[other].delta + (b.size + o.size) * b.nearby[other].delta
              - o.size * between) \div (a.size + b.size + o.size)
    ELSE Spread(sums, a.size + b.size, profile[o.slot], o.size)

EdgeTo(c, other) == IF other \in DOMAIN c.nearby THEN c.nearby[other].weight ELSE 0
Without(nearby, ids) == [i \in DOMAIN nearby \ ids |-> nearby[i]]

Merge ==
    \E c \in pending :
       LET a == community[c.left]
           b == community[c.right]
           joined == walk.n + Len(merges) + 1
           between == a.nearby[c.right]
           sums == [k \in Everyone |-> profile[a.slot][k] + profile[b.slot][k]]
           adjacent == (DOMAIN a.nearby \cup DOMAIN b.nearby) \ {c.left, c.right}
           nearby == [o \in adjacent |->
                      [delta |-> MergedDelta(a, b, o, between.delta, sums),
                       weight |-> EdgeTo(a, o) + EdgeTo(b, o)]]
           gain == 4 * WalkTotal * between.weight - 2 * a.degree * b.degree
       IN
       /\ LeastDelta(c) /\ Current(c)
       /\ profile' = [profile EXCEPT ![a.slot] = sums]
       /\ community' = [i \in DOMAIN community |->
             CASE i = joined -> [active |-> TRUE, size |-> a.size + b.size, slot |-> a.slot,
                                 degree |-> a.degree + b.degree, nearby |-> nearby]
               [] i \in {c.left, c.right} -> [community[i] EXCEPT !.active = FALSE, !.nearby = <<>>]
               [] i \in adjacent -> [community[i] EXCEPT !.nearby =
                     Without(@, {c.left, c.right}) @@ (joined :> nearby[i])]
               [] OTHER -> community[i]]
       /\ pending' = (pending \ {c}) \cup {Pair(nearby[o].delta, joined, o) : o \in adjacent}
       /\ merges' = Append(merges, <<c.left, c.right>>)
       /\ trace' = Append(trace, Last(trace) + gain)
       /\ bestMerges' = IF Last(trace) + gain > trace[bestMerges + 1] THEN Len(merges) + 1 ELSE bestMerges
       /\ UNCHANGED <<walk, walked, alone, membership>>

(* replay_partition: who is in a community, and numbers for the            *)
(* communities by their first vertices.                                    *)
RECURSIVE MembersOf(_)
MembersOf(id) ==
    IF id <= walk.n THEN {id}
    ELSE MembersOf(merges[id - walk.n][1]) \cup MembersOf(merges[id - walk.n][2])
PartitionAfter(count) ==
    LET gone == UNION {ToSet(merges[i]) : i \in 1..count}
    IN {MembersOf(id) : id \in (1..walk.n + count) \ gone}
Replayed(count) ==
    LET parts == PartitionAfter(count)
        firsts == {Min(p) : p \in parts}
    IN [i \in Everyone |->
          Cardinality({f \in firsts : f <= Min(CHOOSE p \in parts : i \in p)})]

WalkReturn ==
    /\ trace # <<>> /\ pending = {} /\ membership = <<>>
    /\ membership' = Replayed(bestMerges)
    /\ UNCHANGED <<walk, walked, agglomeration>>

WalkNext == NoEdges \/ TakeStep \/ WalkCandidates \/ Stale \/ Merge \/ WalkReturn
----------------------------------------------------------------------------
(* Where the walks of some vertices end, added up.                         *)
WalksOfAll(vertices) ==
    [k \in Everyone |-> MapThenSumSet(LAMBDA i : alone[i][k], vertices)]
Cut(a, b) == MapThenSumSet(LAMBDA p : walk.weight[p[1]][p[2]], a \X b)

(* A community knows the communities that an edge leads to, the weight of  *)
(* these edges and how far their walks are from its own, as the walks of   *)
(* their vertices say; the slots it works with are reused by later ones.   *)
DistancesKept ==
    trace # <<>> =>
       LET active == {i \in DOMAIN community : community[i].active}
           of == [i \in active |-> MembersOf(i)]
       IN \A x, y \in active : x # y =>
             LET cut == Cut(of[x], of[y])
                 nearby == community[x].nearby
             IN IF cut = 0 THEN y \notin DOMAIN nearby
                ELSE /\ y \in DOMAIN nearby
                     /\ nearby[y] = [weight |-> cut,
                                   delta |-> Spread(WalksOfAll(of[x]), Cardinality(of[x]),
                                                    WalksOfAll(of[y]), Cardinality(of[y]))]

ModularityOf(parts) ==
    MapThenSumSet(LAMBDA p : 2 * WalkTotal * Cut(p, p)
        - MapThenSumSet(LAMBDA v : walk.degree[v], p) * MapThenSumSet(LAMBDA v : walk.degree[v], p),
        parts)
RECURSIVE ReachedIn(_, _)
ReachedIn(p, seen) ==
    LET more == seen \cup {v \in p : \E u \in seen : walk.weight[u][v] > 0}
    IN IF more = seen THEN seen ELSE ReachedIn(p, more)

(* The result is the first of the best partitions that the merges passed,  *)
(* by modularity; its communities hang together in the graph and are       *)
(* numbered from 1 in the order of their first vertices.                   *)
BestReturned ==
    (membership # <<>> /\ WalkTotal > 0) =>
       LET parts == {{i \in Everyone : membership[i] = l} : l \in ToSet(membership)} IN
       /\ \A i \in DOMAIN trace : trace[i] = ModularityOf(PartitionAfter(i - 1))
       /\ \A i \in DOMAIN trace :
             trace[i] <= ModularityOf(parts) /\ (i <= bestMerges => trace[i] < ModularityOf(parts))
       /\ \A p \in parts : ReachedIn(p, {Min(p)}) = p
       /\ \A i \in Everyone : membership[i] <= 1 + Max({0} \cup {membership[j] : j \in 1..i - 1})

(* Merging goes by exact distances and ends in the best partition: what a  *)
(* community knows of its neighbours equals what their walks say, and the  *)
(* result is the best, first, connected partition that was passed.         *)
WalktrapExact == DistancesKept /\ BestReturned

WalkSpec == WalkInit /\ [][WalkNext]_walkVars /\ WF_walkVars(WalkNext)
=============================================================================
