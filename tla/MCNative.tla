------------------------------ MODULE MCNative ------------------------------
(* The compiled in-memory computations of an R session, which runs one at  *)
(* a time: "session" names the one that was called, and the state of the   *)
(* others, which share nothing with it, rests at its first value.          *)
EXTENDS MCClustering, MCUmapGraph, GraphBuckets, Hnsw, LayoutWorkers, WorkerPool,
        MCNearestRows

(* Rows in the plane, each with the level it is drawn to; loops for a      *)
(* pool.                                                                   *)
Line(xs) == [i \in 1..Len(xs) |-> <<xs[i], 0>>]
Copies == [place |-> Line(<<0, 9, 0, 0, 0, 0, 0>>), level |-> <<0, 0, 0, 1, 0, 0, 0>>,
           spanning |-> TRUE, effort |-> 4, beam |-> 7, k |-> 2,
           queries |-> <<<<8, 0>>, <<1, 0>>>>]
Mixed == [place |-> <<<<0, 0>>, <<4, 1>>, <<1, 3>>, <<5, 5>>, <<2, 2>>, <<3, 0>>>>,
          level |-> <<1, 0, 2, 1, 1, 1>>,
          spanning |-> FALSE, effort |-> 3, beam |-> 2, k |-> 3, queries |-> <<>>]
MCHnswCases == {Copies, [Copies EXCEPT !.spanning = FALSE, !.k = 6, !.queries = <<>>], Mixed,
   [Mixed EXCEPT !.spanning = TRUE, !.beam = 6, !.queries = <<<<2, 1>>, <<9, 9>>>>]}

MCLoops == {[items |-> 5, threads |-> 4], [items |-> 2, threads |-> 3], [items |-> 4, threads |-> 2],
            [items |-> 3, threads |-> 1], [items |-> 0, threads |-> 2]}

-----------------------------------------------------------------------------
Lists(t, w) == [to |-> t, weight |-> w]
Ask(table, capacity, block, consume) ==
    [table |-> table, capacity |-> capacity, block |-> block, consume |-> consume]

(* Tables of five rows and one column: two buckets, the first of them larger *)
(* than half, with any edges in it.                                          *)
OneColumn == {t \in [1..5 -> 1..5] : t[4] \in {2, 5} /\ t[5] \in {1, 4} /\ \A i \in 1..3 : t[i] # i}
Single(t) == [i \in 1..5 |-> <<Lists(t[i], 1)>>]

(* Points 1 to 3 list each other, so that the last bucket has no pairs of    *)
(* its own; two directions of an edge with weights of their own, and an edge *)
(* whose weights are both nothing.                                           *)
Two == <<<<Lists(2, 3), Lists(3, 0)>>, <<Lists(3, 1), Lists(1, 2)>>, <<Lists(1, 0), Lists(2, 1)>>,
         <<Lists(1, 4), Lists(5, 1)>>, <<Lists(2, 1), Lists(1, 5)>>, <<Lists(4, 2), Lists(1, 1)>>>>
Repeats == [Two EXCEPT ![4] = <<Lists(1, 4), Lists(1, 4)>>]

MCBucketCalls ==
    {Ask(Single(t), 3, 2, FALSE) : t \in OneColumn}
    \cup {Ask(Two, c, b, e) : c \in {1, 3, 6}, b \in {1, 4, 6}, e \in BOOLEAN}
    \cup {Ask(Repeats, 4, 3, TRUE)}

-----------------------------------------------------------------------------
Edge(h, t, p) == [head |-> h, tail |-> t, period |-> p]
Base == [route |-> "plain", threads |-> 2, epochs |-> 3, batches |-> 2, rate |-> 2, mask |-> {1, 2},
         start |-> <<0, 5, 2>>,
         edges |-> <<Edge(1, 2, 4), Edge(1, 3, 6), Edge(2, 1, 10)>>]
On(r) == [Base EXCEPT !.route = r]
More(c) == [c EXCEPT !.threads = 3, !.edges = @ \o <<Edge(3, 2, 4), Edge(3, 1, 8)>>]
MCLayoutCases ==
    {On("plain"), On("rounds"), More(On("merged")), [More(On("shared")) EXCEPT !.epochs = 4],
     [On("atomic") EXCEPT !.epochs = 4], On("masked"),
     [On("sampled") EXCEPT !.epochs = 2],
     [On("replay") EXCEPT !.edges = <<Edge(2, 2, 4)>> \o @ \o <<Edge(3, 2, 4)>>]}

-----------------------------------------------------------------------------
VARIABLE session

nativeVars == <<session, vars, graphVars, bucketVars, hnswVars, layoutVars, poolVars, nearVars>>

(* The cases of a computation that was not called do not matter.           *)
CasesIf(name, cases) == IF session = name THEN cases ELSE {CHOOSE c \in cases : TRUE}

NativeInit ==
    /\ session \in {"clustering", "graph", "buckets", "index", "layout", "loops", "search"}
    /\ \E c \in CasesIf("clustering", Cases) : base = c.graph /\ method = c.method /\ route = c.route
    /\ request \in CasesIf("graph", GraphRequests)
    /\ asked \in CasesIf("buckets", BucketCalls)
    /\ index \in CasesIf("index", HnswCases)
    /\ call \in CasesIf("layout", LayoutCases)
    /\ search \in CasesIf("search", Searches)
    /\ Init /\ GraphInit /\ BucketInit /\ HnswInit /\ LayoutInit /\ PoolInit /\ SearchInit

Clusters ==
    /\ session = "clustering" /\ Next
    /\ UNCHANGED <<session, graphVars, bucketVars, hnswVars, layoutVars, poolVars, nearVars>>
Builds ==
    /\ session = "graph" /\ GraphNext
    /\ UNCHANGED <<session, vars, bucketVars, hnswVars, layoutVars, poolVars, nearVars>>
SortsBuckets ==
    /\ session = "buckets" /\ BucketNext
    /\ UNCHANGED <<session, vars, graphVars, hnswVars, layoutVars, poolVars, nearVars>>
Indexes ==
    /\ session = "index" /\ HnswNext
    /\ UNCHANGED <<session, vars, graphVars, bucketVars, layoutVars, poolVars, nearVars>>
LaysOut ==
    /\ session = "layout" /\ LayoutNext
    /\ UNCHANGED <<session, vars, graphVars, bucketVars, hnswVars, poolVars, nearVars>>
Shares ==
    /\ session = "loops" /\ PoolNext
    /\ UNCHANGED <<session, vars, graphVars, bucketVars, hnswVars, layoutVars, nearVars>>
Searching ==
    /\ session = "search" /\ SearchNext
    /\ UNCHANGED <<session, vars, graphVars, bucketVars, hnswVars, layoutVars, poolVars>>

NativeNext == Clusters \/ Builds \/ SortsBuckets \/ Indexes \/ LaysOut \/ Shares \/ Searching

(* The fairness of the computation that was called: see HnswFairness,      *)
(* LayoutFairness and PoolFairness.                                        *)
NativeFairness ==
    /\ []<>~(session = "index" /\ CallerCanRun) \/ []<><<CallerStep>>_hnswVars
    /\ \A t \in Crew : []<>~(session = "index" /\ CanRun(t)) \/ []<><<ThreadStep(t)>>_hnswVars
    /\ \A t \in 0..Max({c.threads : c \in LayoutCases}) - 1 :
          WF_layoutVars(session = "layout" /\ t \in Team /\ LayoutThread(t))
    /\ WF_poolVars(session = "loops" /\ CallerDoes)
    /\ \A t \in Workers : WF_poolVars(session = "loops" /\ WorkerDoes(t))
    /\ WF_nearVars(session = "search" /\ SearchCall)
    /\ \A t \in SearchThreads : WF_nearVars(session = "search" /\ SearchThread(t))

NativeSpec == NativeInit /\ [][NativeNext]_nativeVars /\ NativeFairness

(* A call that uses threads returns.  A build with a crew ends and every   *)
(* query is answered; no optimizer thread waits at a barrier that has      *)
(* opened; the caller of a pool hears of the last report, and no thread    *)
(* sleeps through a loop or the end of the pool.                           *)
CallReturns ==
    <>(\/ session \in {"clustering", "graph", "buckets"}
       \/ session = "index" /\ IndexReturned
       \/ session = "layout" /\ LayoutReturned
       \/ session = "loops" /\ PoolEnded
       \/ session = "search" /\ SearchEnded)
=============================================================================
