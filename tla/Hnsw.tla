-------------------------------- MODULE Hnsw --------------------------------
(* native_knn_hnsw.cpp: the in-memory HNSW index.  Points are inserted one *)
(* after the other; the links back from the neighbours of a new point are  *)
(* added by a crew of threads (BuildParallelState) that sleeps between two *)
(* such jobs.  When all points are in, a second set of threads answers the *)
(* queries, each taking the next one from a shared counter.                *)
(*                                                                         *)
(* Thread 0 is the caller.  A layer is searched by the caller alone, with  *)
(* the crew between two jobs, so a search is one step; a link back is two, *)
(* one that reads the row of a neighbour and one that writes it.           *)
EXTENDS Integers, FiniteSets, SequencesExt, FiniteSetsExt

CONSTANTS
    HnswCases,      \* records of points and settings, see IndexAssumption
    M,              \* m_: links of a row, twice as many in layer 0
    Threads,        \* n_threads, the caller among them
    ParallelFrom,   \* links back are shared out from so many on (8u)
    StampLimit      \* the stamps of a VisitTable (2^32)

ASSUME IndexAssumption ==
    /\ {M, Threads, ParallelFrom} \subseteq Nat \ {0} /\ StampLimit \in Nat \ {0, 1}
    /\ \A c \in HnswCases :
          /\ Len(c.level) = Len(c.place) /\ Len(c.place) > 1
          /\ c.effort > 0 /\ c.beam > 0
          /\ c.k \in 1..Len(c.place) - (IF c.queries = <<>> THEN 1 ELSE 0)

VARIABLES
    index,      \* the case: place and level of each point, spanning links or
                \* not, ef_construction, ef_search, k, and the places asked
                \* about, none when every point asks about itself
    rows,       \* neighbors_ and counts_: point -> layer -> sequence of points
    up,         \* parent_: the point above in the spanning tree, 0 for none
    entry,      \* entry_point_
    point, layer, near,     \* the insertion at work
    marks, stamp,           \* the VisitTable of the build
    best,       \* the nearest point the search of this layer found
    linkJob,    \* nodes, point and layer of the job last posted
    posted,     \* generation
    remaining,  \* workers_remaining
    dismissed,  \* the crew is told to end (stopping)
    crew,       \* thread -> where it is, the job it saw last, its stripe and
                \* the row it has read
    ticket,     \* next: queries handed out
    asker,      \* search thread -> the query in hand, 0 for none, -1 when ended
    answer      \* query -> the points written for it

buildVars == <<rows, up, entry, point, layer, near, marks, stamp, best>>
jobVars == <<linkJob, posted, remaining, dismissed>>
searchVars == <<ticket, asker, answer>>
hnswVars == <<index, buildVars, jobVars, crew, searchVars>>

Points == 1..Len(index.place)
Layers(p) == 0..index.level[p]
Top == index.level[entry]           \* current_max_level_
Crew == 0..Threads - 1
Helpers == Crew \ {0}
Queries == IF index.queries = <<>> THEN Points ELSE 1..Len(index.queries)

-----------------------------------------------------------------------------
(* Distances and the order they give; a tie goes to the smaller id         *)

Apart(a, b) == (a[1] - b[1]) * (a[1] - b[1]) + (a[2] - b[2]) * (a[2] - b[2])
Distance(p, q) == Apart(index.place[p], index.place[q])

Closer(at, p, q) ==
    LET dp == Apart(at, index.place[p])  dq == Apart(at, index.place[q])
    IN  dp < dq \/ (dp = dq /\ p < q)

Nearest(at, S) == CHOOSE p \in S : \A q \in S \ {p} : Closer(at, p, q)
Farthest(at, S) == CHOOSE p \in S : \A q \in S \ {p} : Closer(at, q, p)
Rank(at, S, p) == Cardinality({q \in S : Closer(at, q, p)})
ByDistance(at, S) ==
    [i \in 1..Cardinality(S) |-> CHOOSE p \in S : Rank(at, S, p) = i - 1]
Closest(at, S, n) == {p \in S : Rank(at, S, p) < n}

Capacity(l) == IF l = 0 THEN 2 * M ELSE M

-----------------------------------------------------------------------------
(* Searching.  g stands for rows, tree for up.                             *)

Row(g, p, l) == ToSet(g[p][l])

(* The points for_each_neighbor visits.                                    *)
Around(g, tree, p, l) ==
    Row(g, p, l)
    \cup (IF index.spanning /\ l = 0
          THEN {q \in Points : tree[q] = p \/ tree[p] = q} ELSE {})

(* greedy_search: every round looks at the row of the point the round      *)
(* began with.                                                             *)
Greedy(g, at, from, l) ==
    LET Go[p \in Points] ==
            LET q == Nearest(at, {p} \cup Row(g, p, l)) IN IF q = p THEN p ELSE Go[q]
    IN  Go[from]

(* Greedy search of the layers from "high" down to "low".                  *)
Down(g, at, from, high, low) ==
    FoldLeft(LAMBDA p, l : Greedy(g, at, p, l), from, [i \in 1..high - low + 1 |-> high + 1 - i])

(* search_layer: the ef closest points found from "from", without the ones *)
(* marked as visited.  A point that nearer ones have displaced stays in    *)
(* the code's heap and ends its loop when it comes up; here it leaves.     *)
SearchLayer(g, tree, at, from, ef, l, marked) ==
    LET Step[s \in [open : SUBSET Points, kept : SUBSET Points, seen : SUBSET Points]] ==
            IF s.open = {} THEN s
            ELSE LET p == Nearest(at, s.open)
                     new == Around(g, tree, p, l) \ s.seen
                     kept == Closest(at, s.kept \cup new, ef)
                 IN  IF Cardinality(s.kept) >= ef /\ Closer(at, Farthest(at, s.kept), p) THEN s
                     ELSE Step[[open |-> (s.open \ {p}) \cup (new \cap kept),
                                kept |-> kept, seen |-> s.seen \cup new]]
    IN  Step[[open |-> {from}, kept |-> {from}, seen |-> marked \cup {from}]]

(* select_diverse_into: a candidate is taken when no point taken before is *)
(* nearer to it than p is; the others fill what room is left.              *)
Diverse(p, candidates, max) ==
    LET Choose(s, c) ==
            IF Len(s.chosen) = max \/ c = p THEN s
            ELSE IF \E q \in ToSet(s.chosen) : Distance(c, q) < Distance(p, c)
            THEN [s EXCEPT !.rejected = Append(@, c)]
            ELSE [s EXCEPT !.chosen = Append(@, c)]
        s == FoldLeft(Choose, [chosen |-> <<>>, rejected |-> <<>>], candidates)
        room == max - Len(s.chosen)
    IN  s.chosen \o SubSeq(s.rejected, 1, IF Len(s.rejected) < room THEN Len(s.rejected) ELSE room)

(* add_reciprocal: the row of p when q links to p.                         *)
Reciprocal(p, row, q, l) ==
    IF q \in ToSet(row) THEN row
    ELSE IF Len(row) < Capacity(l) THEN Append(row, q)
    ELSE Diverse(p, ByDistance(index.place[p], ToSet(row) \cup {q}), Capacity(l))

WithRow(g, p, l, row) == [g EXCEPT ![p][l] = row]
Linked(g, nodes, q, l) ==
    FoldLeft(LAMBDA h, p : WithRow(h, p, l, Reciprocal(p, h[p][l], q, l)), g, nodes)

-----------------------------------------------------------------------------
(* The caller: add_point                                                   *)

(* VisitTable::reset.                                                      *)
NextTable ==
    IF stamp + 1 = StampLimit THEN [stamp |-> 1, marks |-> [p \in Points |-> 0]]
    ELSE [stamp |-> stamp + 1, marks |-> marks]

(* Where a thread goes on when its stripe has come to position i.          *)
AfterStripe(t, i, nodes) ==
    IF i < Len(nodes) THEN "read" ELSE IF t = 0 THEN "wait" ELSE "report"

Caller(at) == crew' = [crew EXCEPT ![0].at = at]
WakeWorkers(at) ==
    crew' = [t \in Crew |-> IF t = 0 THEN [crew[0] EXCEPT !.at = at]
                            ELSE IF crew[t].at = "asleep" THEN [crew[t] EXCEPT !.at = "wait"]
                            ELSE crew[t]]

HnswInit ==
    /\ index \in HnswCases
    /\ rows = [p \in Points |-> [l \in Layers(p) |-> <<>>]]
    /\ up = [p \in Points |-> 0]
    /\ entry = 1 /\ point = 2 /\ layer = 0 /\ near = 1 /\ best = 1
    /\ marks = [p \in Points |-> 0] /\ stamp = 1
    /\ linkJob = [nodes |-> <<>>, point |-> 0, layer |-> 0]
    /\ posted = 0 /\ remaining = 0 /\ dismissed = FALSE
    /\ crew = [t \in Crew |-> [at |-> IF t = 0 THEN "descend" ELSE "wait", job |-> 0,
                               next |-> 0, row |-> <<>>]]
    /\ ticket = 1
    /\ asker = [t \in Crew |-> 0]
    /\ answer = [q \in Queries |-> <<>>]

Descend ==
    /\ crew[0].at = "descend"
    /\ layer' = IF index.level[point] < Top THEN index.level[point] ELSE Top
    /\ near' = Down(rows, index.place[point], entry, Top, index.level[point] + 1)
    /\ Caller("search")
    /\ UNCHANGED <<index, rows, up, entry, point, marks, stamp, best, jobVars, searchVars>>

(* The new point's own row, and the links back: inline, or as a job.       *)
SearchAndLink ==
    /\ crew[0].at = "search"
    /\ LET at == index.place[point]
           table == NextTable
           found == SearchLayer(rows, up, at, near, index.effort, layer,
                                {p \in Points : table.marks[p] = table.stamp})
           chosen == Diverse(point, ByDistance(at, found.kept), Capacity(layer))
           own == WithRow(rows, point, layer, chosen)
       IN  /\ stamp' = table.stamp
           /\ marks' = [p \in Points |-> IF p \in found.seen THEN table.stamp ELSE table.marks[p]]
           /\ best' = Nearest(at, found.kept)
           /\ IF Helpers = {} \/ Len(chosen) < ParallelFrom
              THEN /\ rows' = Linked(own, chosen, point, layer)
                   /\ Caller("linked")
                   /\ UNCHANGED jobVars
              ELSE /\ rows' = own
                   /\ linkJob' = [nodes |-> chosen, point |-> point, layer |-> layer]
                   /\ remaining' = Cardinality(Helpers)
                   /\ posted' = posted + 1
                   /\ crew' = [crew EXCEPT ![0].at = "tell", ![0].next = 0]
                   /\ UNCHANGED dismissed
    /\ UNCHANGED <<index, up, entry, point, layer, near, searchVars>>

TellCrew ==
    /\ crew[0].at = "tell"
    /\ WakeWorkers(AfterStripe(0, 0, linkJob.nodes))
    /\ UNCHANGED <<index, buildVars, jobVars, searchVars>>

(* Mutated form: the caller does not wait for the crew.                    *)
AllReportedUnchecked == TRUE
AllReported == remaining = 0

AwaitCrew ==
    /\ crew[0].at = "wait"
    /\ Caller(IF AllReported THEN "linked" ELSE "asleep")
    /\ UNCHANGED <<index, buildVars, jobVars, searchVars>>

EndLayer ==
    /\ crew[0].at = "linked"
    /\ up' = IF index.spanning /\ layer = 0 THEN [up EXCEPT ![point] = best] ELSE up
    /\ near' = best
    /\ IF layer > 0
       THEN layer' = layer - 1 /\ Caller("search") /\ UNCHANGED <<entry, point>>
       ELSE /\ entry' = IF index.level[point] > Top THEN point ELSE entry
            /\ IF point < Len(index.place)
               THEN point' = point + 1 /\ Caller("descend")
               ELSE Caller("stop") /\ UNCHANGED point
            /\ UNCHANGED layer
    /\ UNCHANGED <<index, rows, marks, stamp, best, jobVars, searchVars>>

-----------------------------------------------------------------------------
(* The crew                                                                *)

(* A worker tests, under the lock, whether there is something to do.       *)
LookForJob(t) ==
    /\ crew[t].at = "wait"
    /\ crew' = [crew EXCEPT ![t] =
          IF dismissed THEN [@ EXCEPT !.at = "gone"]
          ELSE IF posted = @.job THEN [@ EXCEPT !.at = "asleep"]
          ELSE [@ EXCEPT !.at = AfterStripe(t, t, linkJob.nodes), !.job = posted, !.next = t]]
    /\ UNCHANGED <<index, buildVars, jobVars, searchVars>>

ReadRow(t) ==
    /\ crew[t].at = "read"
    /\ crew' = [crew EXCEPT ![t].at = "write",
                            ![t].row = rows[linkJob.nodes[crew[t].next + 1]][linkJob.layer]]
    /\ UNCHANGED <<index, buildVars, jobVars, searchVars>>

WriteRow(t) ==
    /\ crew[t].at = "write"
    /\ LET p == linkJob.nodes[crew[t].next + 1]
           i == crew[t].next + Threads
       IN  /\ rows' = WithRow(rows, p, linkJob.layer,
                              Reciprocal(p, crew[t].row, linkJob.point, linkJob.layer))
           /\ crew' = [crew EXCEPT ![t].at = AfterStripe(t, i, linkJob.nodes), ![t].next = i,
                                   ![t].row = <<>>]
    /\ UNCHANGED <<index, up, entry, point, layer, near, marks, stamp, best, jobVars, searchVars>>

(* Mutated form: the last worker to finish does not wake the caller.       *)
WokenNever(at) == at
Woken(at) == IF at = "asleep" THEN "wait" ELSE at

ReportDone(t) ==
    /\ crew[t].at = "report"
    /\ remaining' = remaining - 1
    /\ crew' = [crew EXCEPT ![t].at = "wait",
                            ![0].at = IF remaining = 1 THEN Woken(@) ELSE @]
    /\ UNCHANGED <<index, buildVars, linkJob, posted, dismissed, searchVars>>

(* ~BuildParallelState                                                     *)
StopCrew ==
    /\ crew[0].at = "stop"
    /\ dismissed' = TRUE
    /\ Caller("tellstop")
    /\ UNCHANGED <<index, buildVars, linkJob, posted, remaining, searchVars>>

DismissCrew ==
    /\ crew[0].at = "tellstop"
    /\ WakeWorkers("join")
    /\ UNCHANGED <<index, buildVars, jobVars, searchVars>>

JoinCrew ==
    /\ crew[0].at = "join"
    /\ \A t \in Helpers : crew[t].at = "gone"
    /\ Caller("answer")
    /\ UNCHANGED <<index, buildVars, jobVars, searchVars>>

-----------------------------------------------------------------------------
(* Answers: search_all and search_queries                                  *)

Larger(a, b) == IF a > b THEN a ELSE b
Firsts(at, S) == ByDistance(at, Closest(at, S, index.k))

Enough(found) == Cardinality(found) >= index.k

AnswerTo(q) ==
    LET own == index.queries = <<>>
        at == IF own THEN index.place[q] ELSE index.queries[q]
        from == IF own THEN q ELSE Down(rows, at, entry, Top, 1)
        effort == Larger(index.k + (IF own THEN 1 ELSE 0), index.beam)
        self == IF own THEN {q} ELSE {}
        found == SearchLayer(rows, up, at, from, effort, 0, {}).kept \ self
    IN  Firsts(at, IF Enough(found) THEN found ELSE Points \ self)

Take(t) ==
    /\ crew[0].at = "answer"
    /\ asker[t] = 0
    /\ IF ticket \in Queries
       THEN asker' = [asker EXCEPT ![t] = ticket] /\ ticket' = ticket + 1
       ELSE asker' = [asker EXCEPT ![t] = -1] /\ UNCHANGED ticket
    /\ UNCHANGED <<index, buildVars, jobVars, crew, answer>>

Answer(t) ==
    /\ crew[0].at = "answer"
    /\ asker[t] > 0
    /\ answer' = [answer EXCEPT ![asker[t]] = AnswerTo(asker[t])]
    /\ asker' = [asker EXCEPT ![t] = 0]
    /\ UNCHANGED <<index, buildVars, jobVars, crew, ticket>>

JoinAskers ==
    /\ crew[0].at = "answer"
    /\ \A t \in Crew : asker[t] = -1
    /\ Caller("returned")
    /\ UNCHANGED <<index, buildVars, jobVars, searchVars>>

-----------------------------------------------------------------------------
CallerStep ==
    Descend \/ SearchAndLink \/ TellCrew \/ AwaitCrew \/ EndLayer \/ StopCrew \/ DismissCrew
    \/ JoinCrew \/ JoinAskers
StripeStep(t) == ReadRow(t) \/ WriteRow(t)
WorkerStep(t) == t # 0 /\ (LookForJob(t) \/ ReportDone(t))
AskerStep(t) == Take(t) \/ Answer(t)
ThreadStep(t) == StripeStep(t) \/ WorkerStep(t) \/ AskerStep(t)

HnswNext ==
    \/ CallerStep
    \/ \E t \in Crew : ThreadStep(t)

(* The operating system runs every thread that can run.  This is weak      *)
(* fairness of each thread with its guard in the place of ENABLED, which   *)
(* would search the graph once more in every state.                        *)
CallerCanRun ==
    \/ crew[0].at \in {"descend", "search", "tell", "wait", "linked", "stop", "tellstop"}
    \/ crew[0].at = "join" /\ \A t \in Helpers : crew[t].at = "gone"
    \/ crew[0].at = "answer" /\ \A t \in Crew : asker[t] = -1
CanRun(t) ==
    \/ crew[t].at \in {"read", "write"}
    \/ t # 0 /\ crew[t].at \in {"wait", "report"}
    \/ crew[0].at = "answer" /\ asker[t] # -1

HnswFairness ==
    /\ []<>~CallerCanRun \/ []<><<CallerStep>>_hnswVars
    /\ \A t \in Crew : []<>~CanRun(t) \/ []<><<ThreadStep(t)>>_hnswVars

HnswSpec == HnswInit /\ [][HnswNext]_hnswVars /\ HnswFairness

-----------------------------------------------------------------------------
(* What one thread that inserts the points in order would build            *)

SerialLayer(s, p, l) ==
    LET at == index.place[p]
        found == SearchLayer(s.rows, s.up, at, s.near, index.effort, l, {}).kept
        chosen == Diverse(p, ByDistance(at, found), Capacity(l))
        first == Nearest(at, found)
    IN  [rows |-> Linked(WithRow(s.rows, p, l, chosen), chosen, p, l),
         up |-> IF index.spanning /\ l = 0 THEN [s.up EXCEPT ![p] = first] ELSE s.up,
         near |-> first, entry |-> s.entry]

SerialPoint(s, p) ==
    LET top == index.level[s.entry]
        low == IF index.level[p] < top THEN index.level[p] ELSE top
        reached == Down(s.rows, index.place[p], s.entry, top, index.level[p] + 1)
        done == FoldLeft(LAMBDA r, l : SerialLayer(r, p, l), [s EXCEPT !.near = reached],
                         [i \in 1..low + 1 |-> low + 1 - i])
    IN  [done EXCEPT !.entry = IF index.level[p] > top THEN p ELSE @]

Serial(n) ==
    FoldLeft(SerialPoint,
             [rows |-> [p \in Points |-> [l \in Layers(p) |-> <<>>]],
              up |-> [p \in Points |-> 0], near |-> 1, entry |-> 1],
             [i \in 1..n - 1 |-> i + 1])

(* The crew changes nothing but the time an insertion takes: whenever the  *)
(* caller begins a point, and when the index is complete, the graph is the *)
(* one a single thread builds (the comment on BuildParallelState).  The    *)
(* reference searches with no marks left from earlier searches, so this is *)
(* also about the VisitTable, whose stamps start again in the run.         *)
InsertedInOrder ==
    crew[0].at \in {"descend", "answer", "returned"} =>
        LET s == Serial(IF crew[0].at = "descend" THEN point - 1 ELSE Len(index.place))
        IN  rows = s.rows /\ up = s.up /\ entry = s.entry

(* When the call returns, every query has k different answers in order of  *)
(* distance, no point answers itself, and a search whose effort reaches    *)
(* the number of points is exact when the index has spanning links, even   *)
(* where pruning has left a point without any link towards it.             *)
AnswersComplete ==
    crew[0].at = "returned" =>
        \A q \in Queries :
            LET at == IF index.queries = <<>> THEN index.place[q] ELSE index.queries[q]
                others == IF index.queries = <<>> THEN Points \ {q} ELSE Points
                given == ToSet(answer[q])
            IN  /\ given \subseteq others /\ Cardinality(given) = index.k
                /\ answer[q] = ByDistance(at, given)
                /\ index.spanning /\ index.beam >= Len(index.place) =>
                      given = Closest(at, others, index.k)

(* The index that threads build and search together is, at every insertion *)
(* and in every answer, the one that a single thread would build and ask.  *)
IndexAsSerial == InsertedInOrder /\ AnswersComplete

IndexReturned == crew[0].at = "returned"
=============================================================================
