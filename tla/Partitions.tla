----------------------------- MODULE Partitions -----------------------------
(* Weighted undirected graphs, their partitions into communities, the      *)
(* modularity of a partition and the contraction of a graph: what the      *)
(* clustering code computes between two local moves.                       *)
(*                                                                         *)
(* Vertices and labels are 1..n.  An edge list is a function from pairs    *)
(* <<u, v>>, u <= v, to positive weights; weights are integers, and        *)
(* quality is multiplied by the square of the graph's volume, so that the  *)
(* code's tolerances (1e-12, 1e-9, 1e-7) become 0.                         *)
EXTENDS Integers, FiniteSets, FiniteSetsExt

CONSTANT Resolution     \* the resolution of modularity

ASSUME ResolutionAssumption == Resolution \in Nat \ {0}

Values(f) == {f[x] : x \in DOMAIN f}

-----------------------------------------------------------------------------
(* Graphs                                                                  *)

(* edge_key: an edge has one key whichever end names it first.             *)
Pair(u, v) == IF u <= v THEN <<u, v>> ELSE <<v, u>>

(* The adjacency holds each edge twice and a loop once, with twice its     *)
(* weight, so that a row adds up to the degree of its vertex.              *)
Graph(n, edge) ==
    LET row == [u \in 1..n |-> [v \in 1..n |->
                   IF Pair(u, v) \notin DOMAIN edge THEN 0
                   ELSE IF u = v THEN 2 * edge[<<u, u>>] ELSE edge[Pair(u, v)]]]
        degree == [u \in 1..n |-> MapThenSumSet(LAMBDA v : row[u][v], 1..n)]
    IN [n |-> n, edge |-> edge, row |-> row, degree |-> degree,
        volume |-> 2 * MapThenSumSet(LAMBDA e : edge[e], DOMAIN edge)]

Vertices(g) == 1..g.n
Neighbours(g, u) == {v \in Vertices(g) \ {u} : g.row[u][v] > 0}

(* Listed edges: loops are kept, weightless ones are dropped, and an edge  *)
(* listed more than once (in either direction) keeps its largest weight.   *)
EdgesOf(listed) ==
    LET heavy == {e \in listed : e.weight > 0}
    IN [p \in {Pair(e.from, e.to) : e \in heavy} |->
           Max({e.weight : e \in {f \in heavy : Pair(f.from, f.to) = p}})]

-----------------------------------------------------------------------------
(* Partitions                                                              *)

(* compact_membership: labels in the order of their first vertices.        *)
Compact(l) ==
    LET first == {u \in DOMAIN l : \A v \in DOMAIN l : v < u => l[v] # l[u]}
        head(u) == Min({v \in DOMAIN l : l[v] = l[u]})
    IN [u \in DOMAIN l |-> Cardinality({v \in first : v <= head(u)})]

(* MassiveLouvainLevel::compact: labels in the order of their old values.  *)
CompactInPlace(l) == [u \in DOMAIN l |-> Cardinality({c \in Values(l) : c <= l[u]})]

Groups(l) == Cardinality(Values(l))
Singletons(n) == [u \in 1..n |-> u]
Community(l, c) == {u \in DOMAIN l : l[u] = c}

(* massive_remap_louvain_cpp: every label is replaced by its image.        *)
Remap(l, mapping) == [u \in DOMAIN l |-> mapping[l[u]]]

Counts(g, l) == [c \in Vertices(g) |-> Cardinality(Community(l, c))]
Volumes(g, l) == [c \in Vertices(g) |->
                     MapThenSumSet(LAMBDA u : g.degree[u], Community(l, c))]

Inside(g, l, c) ==
    MapThenSumSet(LAMBDA e : g.edge[e],
                  {e \in DOMAIN g.edge : l[e[1]] = c /\ l[e[2]] = c})

Quality(g, l) ==
    LET volume == Volumes(g, l)
    IN MapThenSumSet(LAMBDA c : 2 * Inside(g, l, c) * g.volume
                                - Resolution * volume[c] * volume[c], Values(l))

(* louvain_move_score times the volume of the graph.                       *)
Score(g, inside, degree, volume) == inside * g.volume - Resolution * degree * volume

(* No proper part of a community is without an edge to the rest of it.     *)
InOnePiece(g, S) ==
    \A T \in SUBSET S \ {{}, S} : \E u \in T, v \in S \ T : g.row[u][v] > 0

Connected(g, l) == \A c \in Values(l) : InOnePiece(g, Community(l, c))

(* The piece of its community a vertex is in: the least set that holds the *)
(* vertex and, with a vertex, its neighbours in the community.             *)
Piece(g, l, u) ==
    LET closed == {T \in SUBSET Community(l, l[u]) :
                      /\ u \in T
                      /\ \A v \in T : Neighbours(g, v) \cap Community(l, l[u]) \subseteq T}
    IN {v \in Community(l, l[u]) : \A T \in closed : v \in T}

SplitDisconnected(g, l) ==
    Compact([u \in DOMAIN l |-> Min(Piece(g, l, u))])

-----------------------------------------------------------------------------
(* Contraction                                                             *)

(* aggregate_graph: the edges between two communities add up; those inside *)
(* one become its loop.  l is compact.                                     *)
Contract(g, l) ==
    LET joins(p) == {e \in DOMAIN g.edge : Pair(l[e[1]], l[e[2]]) = p}
    IN Graph(Groups(l), [p \in {Pair(l[e[1]], l[e[2]]) : e \in DOMAIN g.edge} |->
           MapThenSumSet(LAMBDA e : g.edge[e], joins(p))])

(* massive_contract_louvain_cpp reads the upper half of the rows; a loop   *)
(* counts half of what its row holds, and is skipped on the first level,   *)
(* where the fuzzy graph has none.                                         *)
CoarseEdges(g, l, contracted) ==
    LET read == {<<u, v>> \in Vertices(g) \X Vertices(g) :
                    g.row[u][v] > 0 /\ (u < v \/ (u = v /\ contracted))}
        weight(p) == IF p[1] = p[2] THEN g.row[p[1]][p[1]] \div 2 ELSE g.row[p[1]][p[2]]
    IN [q \in {Pair(l[p[1]], l[p[2]]) : p \in read} |->
           MapThenSumSet(weight, {p \in read : Pair(l[p[1]], l[p[2]]) = q})]

(* massive_coarse_csr_cpp writes both directions and doubles the diagonal. *)
CoarseCsr(n, edge) == Graph(n, edge)

(* The community of the parent partition that a refined community is in,   *)
(* as a partition of the contracted graph.                                 *)
CoarsePartition(refined, parent) ==
    [c \in Values(refined) |-> parent[Min(Community(refined, c))]]
=============================================================================
