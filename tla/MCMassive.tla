----------------------------- MODULE MCMassive ------------------------------
(***************************************************************************)
(* Long calls over rows that one R session makes, one at a time: "job"     *)
(* names the one that is made, and the state of the others, which share    *)
(* nothing with it, rests at its first value.                              *)
(***************************************************************************)
EXTENDS MCShardedKnn, MCRankedLayout, Postings, Walktrap, QueryRows, Evaluation

(* Seven rows around three centers; two of them lie half-way between two.  *)
(* The last list has one row, and a new version moves two rows.            *)
Numbers == <<8, 1, 4, 2, 9, 15, 6>>
MCValue(v, r) == IF v = 1 /\ r \in {1, 4} THEN 10 - Numbers[r] ELSE Numbers[r]
MCCenters == <<2, 8, 15>>

-----------------------------------------------------------------------------
LOCAL Edge(u, v, w) == [from |-> u, to |-> v, weight |-> w]

(* Graphs of five vertices, of up to three edges a vertex, each in the     *)
(* numberings that put vertices of more edges first; and a weighted one    *)
(* with a loop, parallel edges and one of weight 0, walked for one step.   *)
LOCAL WalkPairs == <<<<1, 2>>, <<1, 3>>, <<1, 4>>, <<1, 5>>, <<2, 3>>,
                 <<2, 4>>, <<2, 5>>, <<3, 4>>, <<3, 5>>, <<4, 5>>>>
LOCAL Chosen(s) ==
    LET pairs == SelectSeq(WalkPairs, LAMBDA p : p \in s)
    IN [i \in DOMAIN pairs |-> Edge(pairs[i][1], pairs[i][2], 1)]
LOCAL DegreeOf(t, v) == Cardinality({p \in t : v \in {p[1], p[2]}})
Plain ==
    {Chosen(s) : s \in {t \in SUBSET ToSet(WalkPairs) :
        /\ DegreeOf(t, 1) <= 3
        /\ \A v \in 1..4 : DegreeOf(t, v) >= DegreeOf(t, v + 1)}}
Weighted == <<Edge(1, 2, 1), Edge(2, 1, 1), Edge(2, 3, 2), Edge(3, 3, 5), Edge(3, 4, 0), Edge(4, 5, 1)>>
MCWalkGraphs ==
    {[n |-> 5, edges |-> g, steps |-> 2] : g \in Plain}
    \cup {[n |-> 5, edges |-> Weighted, steps |-> 1]}

-----------------------------------------------------------------------------
(* Five reference rows, two of them copies with different coordinates, and *)
(* four query rows: on the copies, on a row, between rows and far outside. *)
LOCAL QueryCall ==
    [at |-> <<0, 30, 6, 90, 42>>, data |-> <<0, 2, 2, 5, 6>>, x |-> <<2, 3, 9, 6>>,
     k |-> 3, fit |-> 2, ridge |-> 10, marks |-> <<>>, lanes |-> 1, batch |-> 4,
     epochs |-> 3, early |-> 1, negatives |-> 2, exact |-> 1, seed |-> 4,
     start |-> "median", given |-> <<5, -8, 90, 17>>, capacity |-> 3]

LOCAL BatchRows == {1, 2, 3, 4}

MCQueryCalls ==
    {[QueryCall EXCEPT !.batch = b] @@ [route |-> "persistent"] : b \in {2, 3, 4}}
    \cup {QueryCall @@ [route |-> r] : r \in {"weighted", "affine"}}
    \cup {[QueryCall EXCEPT !.x = <<2, 0, 2, 3, 6, 5, 4>>, !.marks = <<2, 1, 3, 6, 5>>, !.batch = 7,
                            !.given = [i \in 1..7 |-> 0]]
             @@ [route |-> "interpolate"]}
    \cup {[QueryCall EXCEPT !.batch = b, !.start = s, !.exact = e, !.seed = d]
             @@ [route |-> "transform"] :
             b \in BatchRows, s \in {"median", "weighted", "random", "given"}, e \in {1, 5}, d \in {4, 9}}
    \cup {[QueryCall EXCEPT !.start = s] @@ [route |-> "transform_cuda"] : s \in {"given", "random"}}
    \cup {[QueryCall EXCEPT !.lanes = n, !.seed = d] @@ [route |-> r] :
             n \in 2..3, d \in {4, 9}, r \in OnDevices}
    \cup {[QueryCall EXCEPT !.lanes = 3, !.x = <<2, 9>>] @@ [route |-> "tsne_devices"]}

-----------------------------------------------------------------------------
(* Six points, two of them at one place in the layout and two in the data; *)
(* tables of three neighbours, one entry missing; an unlabelled point and  *)
(* a vote that is tied.                                                    *)
MetricOf(kind) ==
    [kind |-> kind, gpu |-> FALSE, threads |-> 2, low |-> <<0, 2, 2, 5, 9, 4>>,
     high |-> <<1, 0, 6, 6, 4, 9>>, table |-> <<>>, found |-> <<>>, keep |-> <<>>,
     labels |-> <<1, 2, 1, 2, 0, 2>>, levels |-> 2, k |-> 2, ks |-> <<1, 2>>, pairs |-> <<>>]

MCTable == <<<<2, 5, 3>>, <<1, 5, 4>>, <<4, 5, 6>>, <<3, 0, 5>>, <<3, 4, 1>>, <<3, 4, 5>>>>
MCFound == <<<<2, 3>>, <<3, 1>>, <<2, 1>>, <<6, 2>>, <<4, 6>>, <<4, 2>>>>

SampledCalls == {[MetricOf("structure") EXCEPT !.table = MCTable, !.keep = <<1, 3, 4, 5, 6>>, !.gpu = g] :
                g \in BOOLEAN}
OwnTables ==
    {[MetricOf("structure") EXCEPT !.table = SubSeq(MCTable, 2, 5), !.keep = <<2, 3, 4, 5>>,
                                   !.k = 3, !.gpu = g, !.levels = 0] : g \in BOOLEAN}

MCMetrics ==
    SampledCalls \cup OwnTables
    \cup {[MetricOf("exact") EXCEPT !.threads = t] : t \in {1, 2}}
    \cup {[MetricOf("silhouette") EXCEPT !.gpu = g] : g \in BOOLEAN}
    \cup {[MetricOf("votes") EXCEPT !.table = MCTable, !.found = MCFound],
          [MetricOf("pairs") EXCEPT !.pairs = <<<<1, 4>>, <<2, 3>>, <<6, 1>>, <<5, 2>>, <<3, 1>>>>]}

-----------------------------------------------------------------------------
VARIABLE job

massiveVars == <<job, vars, rankedVars, postVars, walkVars, queryVars, evalVars>>

(* The calls of a job that is not done do not matter.                      *)
CallsOf(name, calls) == IF job = name THEN calls ELSE {CHOOSE c \in calls : TRUE}

MassiveInit ==
    /\ job \in {"sharded", "ranked", "postings", "walktrap", "rows", "scores"}
    /\ plan \in CallsOf("ranked", RankedPlans)
    /\ walk \in {Prepared(g) : g \in CallsOf("walktrap", WalkGraphs)}
    /\ query \in {Looked(c) : c \in CallsOf("rows", QueryCalls)}
    /\ metric \in CallsOf("scores", Metrics)
    /\ Init /\ RankedInit /\ PostInit /\ WalkInit /\ QueryInit /\ EvalInit

(* A step of one call; the others rest.                                    *)
Does(name) ==
    /\ job = name /\ UNCHANGED job
    /\ IF name = "sharded" THEN TRUE ELSE UNCHANGED vars
    /\ IF name = "ranked" THEN TRUE ELSE UNCHANGED rankedVars
    /\ IF name = "postings" THEN TRUE ELSE UNCHANGED postVars
    /\ IF name = "walktrap" THEN TRUE ELSE UNCHANGED walkVars
    /\ IF name = "rows" THEN TRUE ELSE UNCHANGED queryVars
    /\ IF name = "scores" THEN TRUE ELSE UNCHANGED evalVars

SearchesShards == Does("sharded") /\ Next
LaysOutOnRanks == Does("ranked") /\ RankedNext
Posts == Does("postings") /\ PostNext
FindsCommunities == Does("walktrap") /\ WalkNext
PlacesRows == Does("rows") /\ QueryNext
Evaluates == Does("scores") /\ EvalNext

MassiveNext ==
    SearchesShards \/ LaysOutOnRanks \/ Posts \/ FindsCommunities \/ PlacesRows \/ Evaluates

(* The threads of the ranks, their devices and the thread that called them *)
(* get to run; whether anyone calls again after a failure is open.         *)
MassiveFairness ==
    /\ WF_rankedVars(job = "ranked" /\ HostDoes)
    /\ WF_rankedVars(job = "ranked" /\ DevicesExchange)
    /\ \A r \in 0..Max({p.devices : p \in RankedPlans}) - 1 :
          /\ WF_rankedVars(job = "ranked" /\ r \in Devices /\ RankDoes(r))
          /\ WF_rankedVars(job = "ranked" /\ r \in Devices /\ DeviceRuns(r))

MassiveSpec == MassiveInit /\ [][MassiveNext]_massiveVars /\ MassiveFairness

(* Every call over several GPUs ends: no thread waits for a device, and no *)
(* device in an exchange for another one, that has nothing left to do, and *)
(* a rank that fails is noticed.                                           *)
MassiveReturns == [](job = "ranked" => <>RankedEnded)
=============================================================================
