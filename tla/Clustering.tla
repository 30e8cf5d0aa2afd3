----------------------------- MODULE Clustering -----------------------------
(* Multilevel Louvain and Leiden on a weighted graph.  One level moves     *)
(* vertices between communities (phase "move"); Leiden then splits every   *)
(* community again ("refine"); the communities become the vertices of the  *)
(* next level's graph.                                                     *)
(*                                                                         *)
(* The code has eight implementations of the two phases ("route"):         *)
(*   memory    graph_clustering.cpp, one thread                            *)
(*   parallel  graph_clustering.cpp, threads: local_move_parallel, and the *)
(*             memory refinement                                           *)
(*   stream    massive_matrix.cpp, one thread over a graph file            *)
(*   prepared  the same, rows prepared by threads, committed in order      *)
(*   device    one GPU, the graph in its memory                            *)
(*   devices   several GPUs under one coordinator                          *)
(*   chunks    one CUDA GPU, the graph read from the file chunk by chunk   *)
(*   metal     the same on Metal                                           *)
(* A file-backed Louvain changes to the in-memory code (resident,          *)
(* residentGpu) when a contracted graph fits into memory.                  *)
(*                                                                         *)
(* Random orders and colours are choices.  A colour class is any set of    *)
(* the vertices that are still to come: there are 8 colours and at most 8  *)
(* vertices, so every ordered partition into classes is one the hash could *)
(* give, and empty classes change nothing.                                 *)
EXTENDS Partitions

CONSTANTS
    Cases,          \* records of a graph, a method and a route to cluster it by
    MaxPasses,      \* passes of one local-moving phase
    Rounds,         \* outer iterations of leiden_partition
    ChunkRows       \* rows of a chunk of the streamed GPU routes

ASSUME ClusteringAssumption ==
    /\ MaxPasses \in Nat \ {0} /\ Rounds \in Nat \ {0} /\ ChunkRows \in Nat \ {0}
    /\ \A c \in Cases : /\ c.method \in {"louvain", "leiden"}
                        /\ c.graph.n \in 2..8 /\ c.graph.volume > 0

VARIABLES
    method, route, base,
    graph,      \* the graph of the level
    map,        \* vertex of the base graph -> vertex of this level
    phase,      \* move, moved, refine, refined, done; reduced, crossed and
                \* disconnected are the checks that stop a call
    labels,     \* the partition being changed
    count, volume, cut,   \* what is kept of every community while it changes
    todo,       \* vertices this pass has yet to visit
    wave, left, \* the colour class or batch at work, and what is left of it
    ready,      \* the labels the batch was prepared from
    pass, moved,
    start,      \* the labels a level is compared with, or goes back to
    parent,     \* the partition that refinement splits
    settled,    \* every phase so far ended with a pass without moves
    round,      \* outer iteration of leiden_partition; level 0 of a file is 1
    first       \* labels a round began from; of a file, what level 0 returned

vars == <<method, route, base, graph, map, phase, labels, count, volume, cut, todo,
          wave, left, ready, pass, moved, start, parent, settled, round, first>>

OneThread == {"memory", "resident"}
OneGpu == {"device", "residentGpu"}
Gpu == OneGpu \cup {"devices"}
Streamed == {"stream", "prepared"}
Chunked == {"chunks", "metal"}
OverFile == Streamed \cup Chunked

None == <<>>

(* The vertices a pass visits: move_row and the kernels leave a vertex     *)
(* without edges alone.                                                    *)
NonIsolated(g) == {u \in Vertices(g) : g.degree[u] > 0}

Kept(l) == IF route \in OverFile \cup {"devices"} THEN l ELSE None

(* The start of a local-moving phase from partition l of graph g.          *)
StartMove(g, l) ==
    /\ graph' = g
    /\ labels' = l
    /\ count' = Counts(g, l)
    /\ volume' = Volumes(g, l)
    /\ todo' = NonIsolated(g)
    /\ pass' = 1 /\ moved' = FALSE
    /\ phase' = IF g.n < 2 THEN "moved" ELSE "move"
    /\ start' = Kept(l)
    /\ cut' = None /\ parent' = None /\ wave' = {} /\ left' = {} /\ ready' = None

Init ==
    /\ \E c \in Cases : method = c.method /\ route = c.route /\ base = c.graph
    /\ graph = base
    /\ map = Singletons(base.n)
    /\ phase = "move"
    /\ labels = Singletons(base.n)
    /\ count = Counts(base, labels)
    /\ volume = Volumes(base, labels)
    /\ todo = NonIsolated(base)
    /\ pass = 1 /\ moved = FALSE
    /\ start = Kept(labels)
    /\ cut = None /\ parent = None /\ wave = {} /\ left = {} /\ ready = None
    /\ settled = TRUE
    /\ round = 1 /\ first = labels

Levels == <<method, route, base, map, settled, round, first>>

-----------------------------------------------------------------------------
(* One vertex                                                              *)

WeightTo(l, u, c) ==
    MapThenSumSet(LAMBDA v : graph.row[u][v], Neighbours(graph, u) \cap Community(l, c))

Touched(l, u) == {l[v] : v \in Neighbours(graph, u)}

(* local_move and refine_partition try the labels of a row in the order it *)
(* lists them; move_row tries them in order of their numbers.              *)
FirstTouched(l, u, S) == l[Min({v \in Neighbours(graph, u) : l[v] \in S})]

Best(S, score(_)) == {c \in S : \A d \in S : score(d) <= score(c)}

(* Where u goes when it has left its community: count and volume are       *)
(* without it, w holds its weight to each community.  A vertex that would  *)
(* rather be alone may take a label nobody uses.                           *)
Targets(u, w, without, space, listed, free) ==
    LET old == labels[u]
        score(c) == Score(graph, w[c], graph.degree[u], space[c])
        alone == score(old) < 0 /\ free # {}
        floor == IF alone THEN 0 ELSE score(old)
        better == {c \in listed \ {old} : without[c] > 0 /\ score(c) > floor}
    IN IF better # {} THEN Best(better, score)
       ELSE IF alone THEN free ELSE {old}

Weights(l, u) == [c \in Vertices(graph) |-> WeightTo(l, u, c)]

Leave(u) == [count EXCEPT ![labels[u]] = @ - 1]
Space(u) == [volume EXCEPT ![labels[u]] = @ - graph.degree[u]]
Unused(u) == {c \in Vertices(graph) : Leave(u)[c] = 0}

Place(u, c) ==
    /\ labels' = [labels EXCEPT ![u] = c]
    /\ count' = [Leave(u) EXCEPT ![c] = @ + 1]
    /\ volume' = [Space(u) EXCEPT ![c] = @ + graph.degree[u]]
    /\ moved' = (moved \/ c # labels[u])

(* local_move: of equally good communities the first one listed, of the    *)
(* free labels the smallest.                                               *)
MemoryMove(u) ==
    LET t == Targets(u, Weights(labels, u), Leave(u), Space(u),
                     Touched(labels, u), Unused(u))
        best == IF t \subseteq Unused(u) \ {labels[u]} THEN Min(t)
                ELSE IF labels[u] \in t THEN labels[u] ELSE FirstTouched(labels, u, t)
    IN route \in OneThread /\ Place(u, best)

(* MassiveLouvainLevel::move_row: the smallest of the best labels; a free  *)
(* label is the next one after a cursor, which may be any.                 *)
MoveRow(u, l) ==
    LET free == IF Leave(u)[labels[u]] > 0 THEN Unused(u) ELSE {}
        t == Targets(u, Weights(l, u), Leave(u), Space(u), Touched(l, u), free)
    IN \E c \in IF t \subseteq free THEN t ELSE {Min(t)} : Place(u, c)

(* A row's prepared weights are used unless a neighbour has moved since.   *)
Prepared(u, neighbours) ==
    IF \E v \in neighbours : labels[v] # ready[v] THEN labels ELSE ready

MoveVertex(u) ==
    /\ phase = "move" /\ route \in OneThread \cup Streamed /\ u \in todo
    /\ route = "prepared" => u \in left
    /\ \/ MemoryMove(u)
       \/ route = "stream" /\ MoveRow(u, labels)
       \/ route = "prepared" /\ MoveRow(u, Prepared(u, Neighbours(graph, u)))
    /\ todo' = todo \ {u}
    /\ left' = left \ {u}
    /\ ready' = IF left' = {} THEN None ELSE ready
    /\ UNCHANGED <<Levels, graph, phase, pass, start, cut, parent, wave>>

(* scan_rows_parallel and refine_rows_parallel: threads read the labels    *)
(* for the next rows of the order, then the rows are committed in order.   *)
(* The first pass of local moving has one thread.                          *)
PrepareRows ==
    /\ phase \in {"move", "refine"} /\ route = "prepared" /\ left = {}
    /\ \E batch \in SUBSET todo \ {{}} :
           /\ phase = "move" /\ pass = 1 => Cardinality(batch) = 1
           /\ left' = batch
    /\ ready' = labels
    /\ UNCHANGED <<Levels, graph, phase, labels, count, volume, cut, todo, wave,
                   pass, moved, start, parent>>

-----------------------------------------------------------------------------
(* One colour class                                                        *)

(* What a vertex of the class proposes, from the labels and totals of      *)
(* before the class: the smallest of the best labels that are better than  *)
(* where it is.  Nobody proposes to be alone.                              *)
Propose(u) ==
    LET score(c) == Score(graph, WeightTo(labels, u, c), graph.degree[u],
                          IF c = labels[u] THEN volume[c] - graph.degree[u] ELSE volume[c])
        better == {c \in Touched(labels, u) \ {labels[u]} :
                      count[c] > 0 /\ score(c) > score(labels[u])}
    IN IF better = {} THEN labels[u] ELSE Min(Best(better, score))

Proposed(S) == [u \in Vertices(graph) |-> IF u \in S THEN Propose(u) ELSE labels[u]]

(* local_move_parallel takes the proposals of a class together or not at   *)
(* all.  Mutated form: it takes them without asking.                       *)
TakenUnchecked(l) == l
Taken(l) == IF Quality(graph, l) >= Quality(graph, labels) THEN l ELSE labels

(* apply_moves_kernel changes the totals by atomic additions.  Mutated     *)
(* form: what a vertex brings is not taken from where it was.              *)
AppliedAdded(total, amount, l) ==
    [c \in Vertices(graph) |->
        total[c] + MapThenSumSet(LAMBDA u : amount[u],
                                 {u \in Vertices(graph) : l[u] = c /\ l[u] # labels[u]})]
Applied(total, amount, l) ==
    LET went == {u \in Vertices(graph) : l[u] # labels[u]}
        sum(S) == MapThenSumSet(LAMBDA u : amount[u], S)
    IN [c \in Vertices(graph) |->
           total[c] + sum({u \in went : l[u] = c}) - sum({u \in went : labels[u] = c})]

Ones == [u \in Vertices(graph) |-> 1]

(* The rows of a chunk are together in the GPU's memory.                   *)
Chunk(u) == (u - 1) \div ChunkRows
InFirstChunk(S) == {u \in S : \A v \in S : Chunk(u) <= Chunk(v)}

Apply(l) ==
    /\ labels' = l
    /\ moved' = (moved \/ l # labels)
    /\ count' = Applied(count, Ones, l)
    /\ volume' = Applied(volume, graph.degree, l)

ParallelColour(S) ==
    LET l == Taken(Proposed(S))
    IN /\ route = "parallel"
       /\ labels' = l
       /\ moved' = (moved \/ l # labels)
       /\ count' = Counts(graph, l) /\ volume' = Volumes(graph, l)

DeviceColour(S) == route \in OneGpu /\ Apply(Proposed(S))

(* Every device applies its own rows to its copy; the coordinator puts the *)
(* rows together and computes the totals again (coordinated_totals).       *)
CoordinatedColour(S) ==
    /\ route = "devices"
    /\ labels' = Proposed(S)
    /\ moved' = (moved \/ Proposed(S) # labels)
    /\ count' = Counts(graph, labels') /\ volume' = Volumes(graph, labels')

(* Chunk after chunk, all colours of a chunk before the next one.          *)
ChunkColour(S) ==
    /\ route \in Chunked
    /\ S \subseteq InFirstChunk(todo)
    /\ Apply(Proposed(S))

MoveColour(S) ==
    /\ phase = "move" /\ S # {}
    /\ \/ ParallelColour(S) \/ DeviceColour(S) \/ CoordinatedColour(S) \/ ChunkColour(S)
    /\ todo' = todo \ S
    /\ UNCHANGED <<Levels, graph, phase, pass, start, cut, parent, wave, left, ready>>

-----------------------------------------------------------------------------
(* Passes, and the end of local moving                                     *)

(* Another pass, unless this one moved nothing.                            *)
NextPass ==
    /\ phase = "move" /\ todo = {} /\ moved /\ pass < MaxPasses
    /\ route = "devices" => Quality(graph, labels) >= Quality(graph, start)
    /\ pass' = pass + 1 /\ moved' = FALSE
    /\ todo' = NonIsolated(graph)
    /\ start' = IF route = "devices" THEN labels ELSE start
    /\ UNCHANGED <<Levels, graph, phase, labels, count, volume, cut, wave, left,
                   ready, parent>>

(* What a phase returns.  Several devices go back one pass when it made    *)
(* things worse, a CUDA level over a file goes back to where it started.   *)
(* Mutated form: labels are not numbered again.                            *)
AfterPass(l) == IF Quality(graph, l) < Quality(graph, start) THEN start ELSE l
AfterLevel(l) ==
    IF Quality(graph, l) < Quality(graph, start) THEN start ELSE CompactInPlace(l)

Returned ==
    IF route = "devices" THEN Compact(AfterPass(labels))
    ELSE IF route = "chunks" THEN AfterLevel(labels)
    ELSE IF route \in OverFile THEN CompactInPlace(labels)
    ELSE Compact(labels)

(* MassiveLouvainLevel::modularity uses the totals that moves maintained.  *)
LevelScore ==
    LET used == {c \in Vertices(graph) : count[c] > 0}
    IN MapThenSumSet(LAMBDA c : 2 * Inside(graph, labels, c) * graph.volume
                                - Resolution * volume[c] * volume[c], used)

(* "local moves reduced modularity": a level over a file is audited.       *)
LevelReduced ==
    \/ route \in Streamed /\ LevelScore < Quality(graph, start)
    \/ route \in Chunked /\ Quality(graph, Returned) < Quality(graph, start)

EndMove ==
    /\ phase = "move" /\ todo = {}
    /\ \/ ~moved
       \/ pass = MaxPasses
       \/ route = "devices" /\ Quality(graph, labels) < Quality(graph, start)
    /\ phase' = IF LevelReduced THEN "reduced" ELSE "moved"
    /\ labels' = Returned
    /\ settled' = (settled /\ ~moved)
    /\ first' = IF route \in OverFile /\ round = 1 THEN Returned ELSE first
    /\ count' = None /\ volume' = None /\ start' = None /\ pass' = 1 /\ moved' = FALSE
    /\ UNCHANGED <<method, route, base, map, round, graph, cut, todo, wave, left,
                   ready, parent>>

-----------------------------------------------------------------------------
(* Refinement: every community of the parent partition is built again from *)
(* single vertices, which may join a community once.                       *)

InParent(u) == {v \in Neighbours(graph, u) : parent[v] = parent[u]}
ParentVolume(u) ==
    MapThenSumSet(LAMBDA v : graph.degree[v], {v \in Vertices(graph) : parent[v] = parent[u]})

(* A colour-0 vertex of the streamed GPU refinement never moves.           *)
StartRefine ==
    /\ phase = "moved" /\ method = "leiden" /\ Groups(labels) < graph.n
    /\ phase' = "refine"
    /\ parent' = labels
    /\ labels' = Singletons(graph.n)
    /\ count' = [u \in Vertices(graph) |-> 1]
    /\ volume' = graph.degree
    /\ cut' = IF route \in Gpu THEN None
              ELSE [u \in Vertices(graph) |->
                       MapThenSumSet(LAMBDA v : graph.row[u][v],
                                     {v \in Neighbours(graph, u) : labels[v] = labels[u]})]
    /\ \E stay \in SUBSET NonIsolated(graph) :
           /\ route \notin Chunked => stay = {}
           /\ todo' = NonIsolated(graph) \ stay
    /\ UNCHANGED <<Levels, graph, wave, left, ready, pass, moved, start>>

(* Well enough connected to the rest of the parent to be moved, or joined. *)
WellConnected(c, parentVolume) ==
    cut[c] * graph.volume >= Resolution * volume[c] * (parentVolume - volume[c])

(* The communities u may join and still be no worse than alone.            *)
Joinable(u, l) ==
    LET pv == ParentVolume(u)
        score(c) == Score(graph, WeightTo(l, u, c), volume[u], volume[c])
        open == {c \in {l[v] : v \in InParent(u)} \ {u} :
                    WellConnected(c, pv) /\ score(c) >= 0}
    IN IF count[u] = 1 /\ WellConnected(u, pv) THEN Best(open, score) ELSE {}

JoinFirst(u, c, l) ==
    /\ labels' = [labels EXCEPT ![u] = c]
    /\ count' = [count EXCEPT ![c] = @ + 1, ![u] = 0]
    /\ volume' = [volume EXCEPT ![c] = @ + volume[u], ![u] = 0]
    /\ cut' = [cut EXCEPT ![c] = @ + cut[u] - 2 * WeightTo(l, u, c), ![u] = 0]

Stay == UNCHANGED <<labels, count, volume, cut>>

(* refine_partition: one vertex of the order.                              *)
RefineMemory(u) ==
    LET open == Joinable(u, labels)
    IN IF open = {} THEN Stay
       ELSE JoinFirst(u, FirstTouched(labels, u, open), labels)

(* refine_row: the same, from prepared weights unless a neighbour of the   *)
(* same parent has another label by now.                                   *)
RefineRow(u, l) ==
    LET open == Joinable(u, l)
    IN IF open = {} THEN Stay
       ELSE JoinFirst(u, FirstTouched(l, u, open), l)

RefineVertex(u) ==
    /\ phase = "refine" /\ u \in todo
    /\ route = "prepared" => u \in left
    /\ \/ route \in {"memory", "parallel"} /\ RefineMemory(u)
       \/ route = "stream" /\ RefineRow(u, labels)
       \/ route = "prepared" /\ RefineRow(u, Prepared(u, InParent(u)))
    /\ todo' = todo \ {u}
    /\ left' = left \ {u}
    /\ ready' = IF left' = {} THEN None ELSE ready
    /\ UNCHANGED <<Levels, graph, phase, wave, pass, moved, start, parent>>

(* The in-memory GPU refinement is one pass of moves in which only single  *)
(* vertices move, and only inside their parent.  Several GPUs go back to   *)
(* single vertices if that made things worse.                              *)
ProposeJoin(u) ==
    LET score(c) == Score(graph, WeightTo(labels, u, c), graph.degree[u], volume[c])
        better == {c \in {labels[v] : v \in InParent(u)} \ {labels[u]} :
                      count[c] > 0 /\ score(c) > 0}
    IN IF count[labels[u]] # 1 \/ better = {} THEN labels[u] ELSE Min(Best(better, score))

RefineColour(S) ==
    /\ phase = "refine" /\ route \in Gpu /\ S # {}
    /\ LET l == [u \in Vertices(graph) |-> IF u \in S THEN ProposeJoin(u) ELSE labels[u]]
       IN /\ labels' = l
          /\ count' = IF route = "devices" THEN Counts(graph, l)
                      ELSE Applied(count, Ones, l)
          /\ volume' = IF route = "devices" THEN Volumes(graph, l)
                       ELSE Applied(volume, graph.degree, l)
    /\ todo' = todo \ S
    /\ UNCHANGED <<Levels, graph, phase, cut, wave, left, ready, pass, moved, start, parent>>

(* The streamed GPU refinement takes a colour through all chunks.  A label *)
(* may be joined only if its vertex has an earlier colour.                 *)
NextColour ==
    /\ phase = "refine" /\ route \in Chunked /\ left = {}
    /\ \E S \in SUBSET todo \ {{}} : wave' = S /\ left' = S
    /\ UNCHANGED <<Levels, graph, phase, labels, count, volume, cut, todo, ready,
                   pass, moved, start, parent>>

Earlier(c) == c \notin todo

CutProposal(u) ==
    LET score(c) == Score(graph, WeightTo(labels, u, c), volume[u], volume[c])
        allowed == {c \in {labels[v] : v \in InParent(u)} \ {u} :
                       /\ Earlier(c) /\ WellConnected(c, ParentVolume(u))
                       /\ score(c) >= 0}
    IN IF count[labels[u]] # 1 \/ ~WellConnected(u, ParentVolume(u)) \/ allowed = {}
       THEN labels[u] ELSE Min(Best(allowed, score))

(* Two vertices that join a community together do not cut it from each     *)
(* other.                                                                  *)
Together(l, u, S) ==
    MapThenSumSet(LAMBDA v : graph.row[u][v],
                  {v \in S \ {u} : l[v] = l[u]})

ChunkRefine ==
    /\ phase = "refine" /\ left # {} /\ route \in Chunked
    /\ LET S == InFirstChunk(left)
           l == [u \in Vertices(graph) |-> IF u \in S THEN CutProposal(u) ELSE labels[u]]
           joined == {u \in S : l[u] # labels[u]}
           change(u) == cut[u] - 2 * WeightTo(labels, u, l[u]) - Together(l, u, S)
       IN /\ labels' = l
          /\ count' = Applied(count, Ones, l)
          /\ volume' = Applied(volume, graph.degree, l)
          /\ cut' = [c \in Vertices(graph) |->
                        IF c \in joined THEN 0
                        ELSE cut[c] + MapThenSumSet(change, {u \in joined : l[u] = c})]
          /\ left' = left \ S
          /\ IF left' = {} THEN wave' = {} /\ todo' = todo \ wave
             ELSE UNCHANGED <<wave, todo>>
    /\ UNCHANGED <<Levels, graph, phase, ready, pass, moved, start, parent>>

Refined ==
    IF route \in Gpu
    THEN LET alone == Singletons(graph.n)
             worse == Quality(graph, labels) < Quality(graph, alone)
         IN SplitDisconnected(graph, IF route = "devices" /\ worse THEN alone
                                     ELSE Compact(labels))
    ELSE IF route \in OverFile THEN CompactInPlace(labels)
    ELSE Compact(labels)

(* "crossed a parent community", "fewer than its parent groups".           *)
Crossed == \/ \E u, v \in Vertices(graph) : labels[u] = labels[v] /\ parent[u] # parent[v]
           \/ Groups(labels) < Groups(parent)

EndRefine ==
    /\ phase = "refine" /\ todo = {} /\ left = {}
    /\ phase' = IF route \in OverFile /\ Crossed THEN "crossed" ELSE "refined"
    /\ labels' = Refined
    /\ count' = None /\ volume' = None /\ cut' = None
    /\ UNCHANGED <<Levels, graph, todo, wave, left, ready, pass, moved, start, parent>>

-----------------------------------------------------------------------------
(* Levels                                                                  *)

NextGraph(l) ==
    IF route \in OverFile
    THEN CoarseCsr(Groups(l), CoarseEdges(graph, l, round > 1))
    ELSE Contract(graph, l)

(* louvain_partition: the communities are the next level's vertices.       *)
LouvainLevel ==
    /\ phase = "moved" /\ method = "louvain" /\ route \notin OverFile
    /\ Groups(labels) < graph.n
    /\ map' = Remap(map, labels)
    /\ StartMove(NextGraph(labels), Singletons(Groups(labels)))
    /\ UNCHANGED <<method, route, base, settled, round, first>>

(* massive_louvain contracts its first level whatever it returned, and     *)
(* from then on uses memory for a graph that fits (one vertex always does).*)
LouvainFileLevel ==
    /\ phase = "moved" /\ method = "louvain" /\ route \in OverFile
    /\ round = 1 \/ Groups(labels) < graph.n
    /\ map' = Remap(map, labels)
    /\ \/ route' = IF route \in Chunked THEN "residentGpu" ELSE "resident"
       \/ route' = route /\ Groups(labels) > 1
    /\ round' = 2
    /\ LET g == NextGraph(labels) IN
       /\ graph' = g
       /\ labels' = Singletons(g.n)
       /\ count' = Counts(g, labels') /\ volume' = Volumes(g, labels')
       /\ todo' = NonIsolated(g)
       /\ pass' = 1 /\ moved' = FALSE
       /\ phase' = IF g.n < 2 THEN "moved" ELSE "move"
       /\ start' = IF route' \in OverFile THEN labels' ELSE None
       /\ cut' = None /\ parent' = None /\ wave' = {} /\ left' = {} /\ ready' = None
    /\ UNCHANGED <<method, base, settled, first>>

(* The next level of Leiden has the refined communities as vertices and    *)
(* starts from the parent partition.                                       *)
NextVertices == labels

LeidenLevel ==
    /\ phase = "refined"
    /\ Groups(NextVertices) < graph.n
    /\ route \in OverFile => Groups(NextVertices) > 1
    /\ map' = Remap(map, NextVertices)
    /\ LET coarse == CoarsePartition(NextVertices, parent)
       IN StartMove(NextGraph(NextVertices),
                    IF route \in OverFile THEN coarse ELSE Compact(coarse))
    /\ round' = IF route \in OverFile THEN 2 ELSE round
    /\ UNCHANGED <<method, route, base, settled, first>>

(* What the hierarchy returns for the vertices of the base graph.          *)
Flat(l) == Remap(map, l)

Final ==
    IF phase = "moved" THEN Flat(labels)
    ELSE IF route \in OverFile /\ Groups(labels) = 1 /\ graph.n > 1 THEN Flat(labels)
    ELSE Flat(parent)

HierarchyEnds ==
    LET n == Groups(labels)
        one == route \in OverFile /\ n = 1
        firstFileLevel == route \in OverFile /\ method = "louvain" /\ round = 1
    IN \/ phase = "moved" /\ n = graph.n /\ ~firstFileLevel
       \/ phase = "refined" /\ (n = graph.n \/ one)

(* leiden_partition starts again from what the hierarchy returned, until   *)
(* that is what it started from.                                           *)
NextRound ==
    /\ HierarchyEnds /\ method = "leiden" /\ route \notin OverFile
    /\ Compact(Final) # first /\ round < Rounds
    /\ map' = Singletons(base.n)
    /\ StartMove(base, Compact(Final))
    /\ first' = Compact(Final)
    /\ round' = round + 1
    /\ settled' = TRUE
    /\ UNCHANGED <<method, route, base>>

(* The checks of massive_louvain and massive_leiden on the final labels.   *)
FinalReduced ==
    /\ route \in OverFile \cup {"resident", "residentGpu"}
    /\ Quality(base, Final) < Quality(base, first)

Finish ==
    /\ HierarchyEnds
    /\ \/ method = "louvain" \/ route \in OverFile
       \/ Compact(Final) = first \/ round = Rounds
    /\ phase' = IF route \in Chunked /\ method = "leiden" /\ ~Connected(base, Final)
                THEN "disconnected"
                ELSE IF FinalReduced THEN "reduced" ELSE "done"
    /\ labels' = IF route \in OverFile THEN Final ELSE Compact(Final)
    /\ graph' = base /\ map' = Singletons(base.n)
    /\ count' = None /\ volume' = None /\ parent' = None /\ start' = None
    /\ todo' = {}
    /\ UNCHANGED <<method, route, base, settled, round, first, cut, wave, left, ready,
                   pass, moved>>

Next ==
    \/ \E u \in todo : MoveVertex(u) \/ RefineVertex(u)
    \/ \E S \in SUBSET todo : MoveColour(S) \/ RefineColour(S)
    \/ PrepareRows \/ NextPass \/ EndMove
    \/ StartRefine \/ NextColour \/ ChunkRefine \/ EndRefine
    \/ LouvainLevel \/ LouvainFileLevel \/ LeidenLevel
    \/ NextRound \/ Finish

Spec == Init /\ [][Next]_vars

-----------------------------------------------------------------------------
(* Properties                                                              *)

Changing == phase \in {"move", "refine"}

(* The totals the moves maintain are those of the partition: every route   *)
(* changes labels, counts and volumes in steps of its own, some of them    *)
(* for many vertices at once, and decides on the totals alone.  In         *)
(* refinement the cut of a community is the weight that leaves it for the  *)
(* rest of its parent; both Leiden conditions are tests of cuts that were  *)
(* updated, never computed again.  A contracted graph stands for the base  *)
(* graph: a partition of it is as good as the one it stands for.           *)
TotalsMatch ==
    /\ Changing => count = Counts(graph, labels) /\ volume = Volumes(graph, labels)
    /\ phase = "refine" /\ route \notin Gpu =>
          \A c \in Values(labels) :
              cut[c] = MapThenSumSet(
                  LAMBDA u : MapThenSumSet(LAMBDA v : graph.row[u][v],
                                           {v \in InParent(u) : labels[v] # c}),
                  Community(labels, c))
    /\ phase \in {"move", "moved"} =>
          graph.volume = base.volume /\ Quality(graph, labels) = Quality(base, Flat(labels))

(* What refinement hands to the next level: communities in one piece, each *)
(* inside one community of the parent.  And a Leiden hierarchy on one CPU  *)
(* thread all of whose phases ended with a pass without moves returns      *)
(* communities in one piece.                                               *)
LeidenConnected ==
    /\ phase = "refined" =>
          /\ Connected(graph, labels)
          /\ \A u, v \in Vertices(graph) : labels[u] = labels[v] => parent[u] = parent[v]
    /\ phase = "done" /\ method = "leiden" /\ settled /\ route \in {"memory"} \cup Streamed
          => Connected(base, labels)

(* What a hierarchy rests on, from the first move to the labels it returns: *)
(* the two above, together.                                                 *)
HierarchySound == TotalsMatch /\ LeidenConnected

(* Local moving never makes a partition worse: vertex by vertex on the CPU *)
(* and colour by colour with threads; several GPUs by pass, and CUDA over  *)
(* a file by level.                                                        *)
StepByStep == OneThread \cup Streamed \cup {"parallel"}
QualityNeverFalls ==
    [][phase = "move" /\ graph' = graph =>
        /\ route \in StepByStep => Quality(graph, labels') >= Quality(graph, labels)
        /\ phase' = "moved" /\ route \in {"devices", "chunks"} =>
              Quality(graph, labels') >= Quality(graph, start)]_vars
=============================================================================
