----------------------------- MODULE MCUmapGraph -----------------------------
EXTENDS UmapGraph
Near(i, d) == [index |-> i, far |-> d]
(* A row lists a point twice, another itself; 3 is found by all and finds    *)
(* one of them; 9 is no finite distance.                                     *)
Twice == <<<<Near(2, 1), Near(3, 2), Near(2, 0), Near(4, 3)>>,
           <<Near(3, 0), Near(2, 1), Near(1, 1), Near(4, 9)>>,
           <<Near(1, 3), Near(4, 3), Near(2, 4), Near(5, 2)>>,
           <<Near(3, 1), Near(5, 0), Near(1, 1), Near(2, 2)>>,
           <<Near(3, 0), Near(4, 1), Near(1, 2), Near(2, 2)>>>>
Once == <<<<Near(4, 0), Near(2, 1)>>, <<Near(4, 2), Near(1, 3)>>,
          <<Near(4, 1), Near(2, 4)>>, <<Near(3, 4), Near(1, 1)>>>>
Hub == <<<<Near(5, 0)>>, <<Near(5, 1)>>, <<Near(5, 2)>>, <<Near(5, 0)>>, <<Near(1, 4)>>>>
FromZero(table) == [i \in 1..Len(table) |-> [j \in 1..Len(table[i]) |->
                       [table[i][j] EXCEPT !.index = @ - 1]]]
Request(r, t, table, b) ==
    [route |-> r, threads |-> t, listed |-> table, budget |-> b, epochs |-> 3,
     member |-> (0 :> 100 @@ 1 :> 50 @@ 2 :> 20 @@ 3 :> 1 @@ 4 :> 0)]
MCGraphRequests ==
    {Request("direct", 2, Twice, 4), Request("direct", 3, Twice, 3), Request("direct", 2, FromZero(Twice), 1),
     Request("direct", 1, Hub, 3), Request("binary", 3, Twice, 4), Request("binary", 2, Once, 2),
     Request("binary", 1, <<<<Near(1, 0)>>, <<Near(2, 0)>>>>, 1),
     Request("width", 1, Once, 2), Request("width", 1, Twice, 2), Request("width", 1, Hub, 1), Request("device", 1, Once, 2),
     Request("device", 1, Hub, 1), Request("device", 1, FromZero(Hub), 1),
     Request("padded", 1, Twice, 4), Request("padded", 1, Once, 2), Request("padded", 1, Hub, 1)}
=============================================================================
