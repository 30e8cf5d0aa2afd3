---------------------------- MODULE MCGraphSort ----------------------------
(* Six vertices with one neighbour each: a reciprocal pair and four single *)
(* edges.  A commit falls due after three of them, within a run of two.    *)
EXTENDS GraphSort

MCPairs == <<<<1, 2>>, <<2, 1>>, <<3, 1>>, <<4, 3>>, <<5, 4>>, <<6, 5>>>>
=============================================================================
