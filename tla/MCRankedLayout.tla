--------------------------- MODULE MCRankedLayout ---------------------------
EXTENDS RankedLayout
To(v, w) == [to |-> v, weight |-> w]
(* Three rows on two devices: one row of the second block does not exist.  *)
OnThree == [kind |-> "umap", store |-> "file", devices |-> 2, rows |-> 3, epochs |-> 3,
            negatives |-> 1, early |-> 1, every |-> 2, capacity |-> 3, chunk |-> 2,
            edges |-> 0 :> <<To(1, 4), To(2, 2)>> @@ 1 :> <<To(0, 4)>> @@ 2 :> <<To(0, 2), To(1, 1)>>,
            start |-> 0 :> 0 @@ 1 :> 5 @@ 2 :> -3]
InMemory(p) == [p EXCEPT !.store = "memory", !.every = 0, !.capacity = 2]
Tsne(p) == [p EXCEPT !.kind = "tsne", !.negatives = 0, !.epochs = 2, !.every = 1]
(* Two rows a device, and blocks of two rows that four rows do not fill    *)
(* on three devices.                                                       *)
Fourth(p) == [p EXCEPT !.rows = 4, !.edges = @ @@ 3 :> <<To(0, 3)>>, !.start = @ @@ 3 :> 7]
MCRankedPlans ==
    {OnThree, InMemory(OnThree), Tsne(OnThree), InMemory(Tsne(OnThree)),
     [OnThree EXCEPT !.devices = 1, !.chunk = 1], [Fourth(OnThree) EXCEPT !.devices = 3],
     [OnThree EXCEPT !.devices = 3, !.epochs = 2], [OnThree EXCEPT !.negatives = 9]}
=============================================================================
