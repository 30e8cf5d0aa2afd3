---------------------------- MODULE MCClustering ----------------------------
(* Instances of Clustering for TLC. *)
EXTENDS Clustering

(* A graph from edges <<one end, other end, weight>>.                      *)
Weighted(n, edges) ==
    Graph(n, EdgesOf({[from |-> e[1], to |-> e[2], weight |-> e[3]] : e \in edges}))
Light(n, pairs) == Weighted(n, {<<e[1], e[2], 1>> : e \in pairs})

(* A fork, a triangle, a star, a triangle with a tail, two edges, a heavy  *)
(* and light ring.                                                         *)
Fork3 == Light(3, {<<1, 2>>, <<1, 3>>})
Ring3 == Light(3, {<<1, 2>>, <<1, 3>>, <<2, 3>>})
Star4 == Light(4, {<<1, 2>>, <<1, 3>>, <<1, 4>>})
Kite4 == Light(4, {<<1, 2>>, <<1, 3>>, <<2, 3>>, <<3, 4>>})
Pairs4 == Light(4, {<<1, 3>>, <<2, 4>>})
Heavy4 == Weighted(4, {<<1, 2, 3>>, <<2, 1, 2>>, <<3, 2, 2>>, <<1, 3, 0>>, <<3, 4, 3>>, <<1, 4, 1>>})

(* Local moving can end here with a community in two pieces: 6 leaves its  *)
(* neighbours 2 and 5, each of which stays with its own leaf.              *)
Tree7 == Weighted(7, {<<1, 5, 1>>, <<2, 4, 2>>, <<2, 6, 5>>, <<3, 6, 11>>,
                      <<3, 7, 6>>, <<5, 6, 2>>})

AllRoutes == {"memory", "parallel", "stream", "prepared", "device", "devices",
              "chunks", "metal"}
CasesOf(graphs, methods, routes) ==
    [graph : graphs, method : methods, route : routes]

MCCases ==
    CasesOf({Fork3, Ring3, Star4, Kite4, Pairs4, Heavy4}, {"louvain", "leiden"}, AllRoutes)
    \cup CasesOf({Tree7}, {"leiden"}, {"memory", "stream"})
=============================================================================
