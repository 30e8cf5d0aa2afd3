---------------------------- MODULE LayoutWorkers ----------------------------
(* The threads that move the points of a UMAP layout: the optimizers of      *)
(* fast_knn_umap.cpp, and the synchronized epochs of massive_matrix.cpp that *)
(* read the graph from files.  An edge that is due in an epoch pulls its two *)
(* ends together and then pushes its head away from points drawn at random.  *)
(*                                                                           *)
(*   plain    optimize_layout: threads add to shared doubles                 *)
(*   atomic   optimize_layout_csr, large: compare-and-swap, a barrier every  *)
(*            SyncEvery epochs                                               *)
(*   merged   optimize_layout_csr, small: sums per thread, added by thread 0 *)
(*            between two barriers, in batches                               *)
(*   masked   optimize_layout_csr_masked: only the rows of a mask move       *)
(*   rounds   fast_knn_umap_csr_atomic_cpp: threads started in every epoch   *)
(*   sampled  fast_knn_umap_csr_clean_atomic_cpp: an edge is due by chance   *)
(*   replay   fast_knn_umap_coo_replay_cpp: as rounds, then coordinates cut  *)
(*   shared   massive_umap_synchronized_epoch: integer sums shared by all    *)
(*                                                                           *)
(* A layout has one axis of integers; a pull is the distance cut to Clip and *)
(* a push is one, both times the learning rate of the epoch, which falls     *)
(* from epoch to epoch.  Times are counted in 1/Unit of an epoch.            *)
EXTENDS Integers, Sequences, FiniteSets, FiniteSetsExt, Functions

CONSTANTS
    LayoutCases,    \* the calls, see LayoutAssumption
    Unit,           \* times per epoch
    Clip,           \* clip_value: 4.0
    SyncEvery,      \* epochs between two barriers of "atomic" (50)
    Bound           \* max_abs_coord, and the largest update of "shared" (16)

LayoutRoutes ==
    {"plain", "atomic", "merged", "masked", "rounds", "sampled", "replay", "shared"}

ASSUME LayoutAssumption ==
    /\ {Unit, Clip, SyncEvery, Bound} \subseteq Nat \ {0}
    /\ \A c \in LayoutCases :
          /\ c.route \in LayoutRoutes
          /\ {c.threads, c.epochs, c.batches} \subseteq Nat \ {0} /\ c.rate \in Nat
          /\ c.start \in Seq(Int) /\ c.mask \subseteq 1..Len(c.start)
          /\ c.edges \in Seq([head : 1..Len(c.start), tail : 1..Len(c.start), period : Nat])
          /\ \A i \in 1..Len(c.edges) :
                /\ c.edges[i].period >= Unit
                /\ c.rate > 0 => c.edges[i].period % c.rate = 0
                /\ c.route # "replay" /\ i > 1 => c.edges[i - 1].head <= c.edges[i].head

VARIABLES
    call,       \* the call at work
    edges,      \* the edges it uses
    coords,     \* the coordinate of each point
    due, owed,  \* epoch_of_next_sample and epoch_of_next_negative_sample
    delta,      \* thread -> point -> sum not yet added ("shared": thread 0's)
    thread,     \* thread -> where it is; see LayoutInit
    arrivals,   \* ReusableBarrier: threads still to come, and the
    opened,     \* number of times it has opened
    given,      \* point -> all that pulls and pushes have asked for
    drawn       \* edge -> pulls and pushes so far

layoutVars == <<call, edges, coords, due, owed, delta, thread, arrivals, opened, given, drawn>>

LayoutPoints == 1..Len(call.start)
EdgeIds == 1..Len(edges)
Team == 0..call.threads - 1
Route == call.route

Gated == {"atomic", "merged", "masked", "sampled"}      \* threads meet at a barrier
Joined == {"rounds", "replay", "shared"}                \* threads end and are joined
Summed == {"merged", "shared"}                          \* sums are added later
Stateful == {"plain", "atomic", "merged", "masked"}     \* due and owed are kept
Atomic == {"atomic", "rounds", "sampled", "replay"}     \* compare-and-swap

-----------------------------------------------------------------------------
(* Which edges are used, and by which thread                                *)

(* Edges due less than once in all epochs are dropped where the optimizer   *)
(* thins the graph first; the masked rows are the only heads of "masked".   *)
Usable(c, e) ==
    /\ e.head # e.tail
    /\ c.route \in Stateful \cup {"shared"} => e.period <= c.epochs * Unit
    /\ c.route = "masked" => e.head \in c.mask

(* The elements of s at the places K, in order.                             *)
Chosen(s, K) ==
    [n \in 1..Cardinality(K) |-> s[CHOOSE i \in K : Cardinality({j \in K : j < i}) = n - 1]]
LoopEdges(c) == Chosen(c.edges, {i \in 1..Len(c.edges) : Usable(c, c.edges[i])})

(* The numbers in 1..n of part i of "of" (from 0).                          *)
Part(n, i, of) == (n * i) \div of + 1 .. (n * (i + 1)) \div of
RowsOf(t) == Part(Len(call.start), t, call.threads)

(* worker_begin: a thread's first edge is moved to the start of a row.      *)
Boundary(t) ==
    LET first == (Len(edges) * t) \div call.threads
        inRow(b) == b \in 1..Len(edges) - 1 /\ edges[b + 1].head = edges[b].head
    IN  IF t \in {0, call.threads} THEN first
        ELSE Min({b \in first..Len(edges) : ~inRow(b)})

Stripe(t, batch) ==
    CASE Route = "atomic" -> Boundary(t) + 1 .. Boundary(t + 1)
      [] Route \in {"sampled", "shared"} -> {e \in EdgeIds : edges[e].head \in RowsOf(t)}
      [] Route = "merged" ->
            LET whole == Part(Len(edges), batch, call.batches)
            IN  {Min(whole) - 1 + k : k \in Part(Cardinality(whole), t, call.threads)}
      [] OTHER -> Part(Len(edges), t, call.threads)

Batches == IF Route = "merged" THEN call.batches ELSE 1
FirstStep == IF Route = "merged" THEN "clear" ELSE "work"

(* massive_umap_worker_offsets: the edges of the threads before t.          *)
WorkerOffset(t) ==
    Cardinality({e \in EdgeIds : \E s \in 0..t - 1 : edges[e].head \in RowsOf(s)})

(* The number that the random points of an edge are drawn with.             *)
SampleEdge(t, e) ==
    IF Route # "shared" THEN e
    ELSE WorkerOffset(t) + Cardinality({f \in Stripe(t, 0) : f <= e})

(* Stands for deterministic_vertex, TauPrng and clean_negative_vertex: a    *)
(* number that depends on the epoch, the edge and the sample alone.         *)
Drawn(epoch, number, sample) == ((2 * number + epoch + sample) % Len(call.start)) + 1

(* The points edge e is pushed from: the head is left out, and the tail by  *)
(* the routes that test for it.                                             *)
PushedFrom(epoch, e, number, count) ==
    LET skipped == {edges[e].head} \cup
                   (IF Route \in {"rounds", "sampled", "replay"} THEN {edges[e].tail} ELSE {})
        drawnAt == [s \in 1..count |-> Drawn(epoch, number, s)]
    IN  Chosen(drawnAt, {s \in 1..count : drawnAt[s] \notin skipped})

-----------------------------------------------------------------------------
(* How often an edge is due.  Stateless: massive_umap_due and               *)
(* massive_umap_negative_count, positive_ and                               *)
(* negative_samples_this_epoch_umap_schedule.                               *)

NegativePeriod(e) == edges[e].period \div call.rate
Whole(epoch, e) == (epoch * Unit) \div edges[e].period
EpochOf(samples, e) == (samples * edges[e].period + Unit - 1) \div Unit
Pushes(epoch, e) == (epoch * Unit - NegativePeriod(e)) \div NegativePeriod(e)

PullsDue(epoch, e) == IF epoch = 0 THEN 0 ELSE Whole(epoch, e) - Whole(epoch - 1, e)
PushesDue(epoch, e) ==
    IF call.rate = 0 \/ PullsDue(epoch, e) = 0 THEN 0
    ELSE LET before == Whole(epoch, e) - 1
         IN  Pushes(epoch, e) - (IF before < 1 THEN 0 ELSE Pushes(EpochOf(before, e), e))

(* Stateful: the next sample and the next negative are kept per edge.       *)
OwedNext(e, pushes) == owed[e] + pushes * NegativePeriod(e)
PushesOwed(epoch, e) ==
    IF call.rate = 0 \/ epoch * Unit < owed[e] THEN 0
    ELSE (epoch * Unit - owed[e]) \div NegativePeriod(e)

PullsNow(epoch, e) ==
    IF Route \in Stateful THEN (IF due[e] <= epoch * Unit THEN 1 ELSE 0)
    ELSE PullsDue(epoch, e)
PushesNow(epoch, e) ==
    IF Route \in Stateful THEN PushesOwed(epoch, e) ELSE PushesDue(epoch, e)

-----------------------------------------------------------------------------
(* Forces                                                                   *)

Between(low, d, high) == IF d < low THEN low ELSE IF d > high THEN high ELSE d
(* "sampled" ends with a rate of zero.                                      *)
Rate(epoch) == call.epochs - epoch - (IF Route = "sampled" /\ call.epochs > 1 THEN 1 ELSE 0)
Pull(at, e) == -Between(-Clip, at[edges[e].head] - at[edges[e].tail], Clip)
Push(at, e, v) == Between(-1, at[edges[e].head] - at[v], 1)
Moves(v) == Route = "masked" => v \in call.mask

(* What a pull adds to each of the two ends.                                *)
PullAdds(at, epoch, e) ==
    LET g == Pull(at, e) * Rate(epoch)
    IN  <<[point |-> edges[e].head, by |-> g]>> \o
        (IF Moves(edges[e].tail) THEN <<[point |-> edges[e].tail, by |-> -g]>> ELSE <<>>)
PushAdds(at, epoch, e, v) == <<[point |-> edges[e].head, by |-> Push(at, e, v) * Rate(epoch)]>>

(* What a force adds; 0 stands for the pull of the edge.                    *)
AddsOf(at, epoch, e, v) == IF v = 0 THEN PullAdds(at, epoch, e) ELSE PushAdds(at, epoch, e, v)

AddAll(sums, adds) ==
    [v \in LayoutPoints |->
        sums[v] + SumFunction([i \in {i \in DOMAIN adds : adds[i].point = v} |-> adds[i].by])]
Nothing == [v \in LayoutPoints |-> 0]

-----------------------------------------------------------------------------
(* A thread: where it is, its epoch and batch, the edges left of its        *)
(* stripe, the edge in hand, the pulls and pushes and the additions left of *)
(* it, the value loaded for the next addition, the barrier it has come to   *)
(* (first or second) and how often that had opened.                         *)

LayoutInit ==
    /\ call \in LayoutCases
    /\ edges = LoopEdges(call)
    /\ coords = call.start
    /\ due = [e \in EdgeIds |-> edges[e].period]
    /\ owed = [e \in EdgeIds |-> IF call.rate = 0 THEN 0 ELSE NegativePeriod(e)]
    /\ delta = [t \in Team |-> Nothing]
    /\ thread = [t \in Team |->
          [at |-> FirstStep, epoch |-> 0, batch |-> 0, left |-> Stripe(t, 0), edge |-> 0,
           forces |-> <<>>, adds |-> <<>>, old |-> 0, gate |-> 1, seen |-> 0]]
    /\ arrivals = call.threads /\ opened = 0
    /\ given = Nothing
    /\ drawn = [e \in EdgeIds |-> [pulls |-> 0, pushes |-> 0]]

(* The next stripe of a thread, in this epoch or the next.                  *)
Onward(t) ==
    LET r == thread[t]
    IN  IF r.batch + 1 < Batches
        THEN [r EXCEPT !.at = FirstStep, !.batch = @ + 1, !.left = Stripe(t, r.batch + 1)]
        ELSE IF r.epoch + 1 < call.epochs
        THEN [r EXCEPT !.at = FirstStep, !.epoch = @ + 1, !.batch = 0, !.left = Stripe(t, 0)]
        ELSE [r EXCEPT !.at = "gone"]

(* A thread of "merged" clears its sums when it begins a batch.             *)
Clear(t) ==
    /\ thread[t].at = "clear"
    /\ delta' = [delta EXCEPT ![t] = Nothing]
    /\ thread' = [thread EXCEPT ![t].at = "work"]
    /\ UNCHANGED <<call, edges, coords, due, owed, arrivals, opened, given, drawn>>

(* A thread comes to the end of its stripe.                                 *)
EndStripe(t) ==
    /\ thread[t].at = "work" /\ thread[t].left = {}
    /\ LET r == thread[t]
           meet == \/ Route \in Gated \ {"atomic"}
                   \/ Route = "atomic" /\ ((r.epoch + 1) % SyncEvery = 0 \/ r.epoch + 1 = call.epochs)
       IN  thread' = [thread EXCEPT ![t] =
              IF Route \in Joined THEN [r EXCEPT !.at = "done"]
              ELSE IF meet THEN [r EXCEPT !.at = "arrive", !.gate = 1]
              ELSE Onward(t)]
    /\ UNCHANGED <<call, edges, coords, due, owed, delta, arrivals, opened, given, drawn>>

(* The next edge of the stripe.  By chance: "sampled" takes an edge of less *)
(* than the largest weight or leaves it.                                    *)
NextEdge(t) ==
    /\ thread[t].at = "work" /\ thread[t].left # {}
    /\ LET r == thread[t]
           e == Min(r.left)
       IN  \E taken \in IF Route = "sampled" /\ edges[e].period > Unit THEN BOOLEAN ELSE {TRUE} :
           LET pulls == IF Route # "sampled" THEN PullsNow(r.epoch, e) ELSE IF taken THEN 1 ELSE 0
               pushes == IF pulls = 0 THEN 0
                         ELSE IF Route = "sampled" THEN call.rate ELSE PushesNow(r.epoch, e)
               from == PushedFrom(r.epoch, e, SampleEdge(t, e), pushes)
               forces == [i \in 1..pulls |-> 0] \o from
           IN  /\ thread' = [thread EXCEPT ![t].left = @ \ {e},
                    ![t].edge = IF pulls = 0 THEN 0 ELSE e,
                    ![t].forces = forces, ![t].at = IF pulls = 0 THEN "work" ELSE "force"]
               /\ due' = IF Route \in Stateful /\ pulls > 0
                         THEN [due EXCEPT ![e] = @ + edges[e].period] ELSE due
               /\ owed' = IF Route \in Stateful /\ pushes > 0
                          THEN [owed EXCEPT ![e] = OwedNext(e, pushes)] ELSE owed
               /\ drawn' = [drawn EXCEPT ![e] =
                      [pulls |-> @.pulls + pulls, pushes |-> @.pushes + pushes]]
    /\ UNCHANGED <<call, edges, coords, delta, arrivals, opened, given>>

(* Both coordinates are read, and the additions that follow are known.      *)
ComputeForce(t) ==
    /\ thread[t].at = "force"
    /\ LET r == thread[t]
           adds == AddsOf(coords, r.epoch, r.edge, Head(r.forces))
           last == Len(r.forces) = 1
           slot == IF Route = "shared" THEN 0 ELSE t
       IN  /\ given' = AddAll(given, adds)
           /\ IF Route \in Summed
              THEN /\ delta' = [delta EXCEPT ![slot] = AddAll(@, adds)]
                   /\ thread' = [thread EXCEPT ![t].forces = Tail(@),
                                    ![t].at = IF last THEN "work" ELSE "force"]
              ELSE /\ thread' = [thread EXCEPT ![t].forces = Tail(@), ![t].adds = adds,
                                    ![t].at = "load"]
                   /\ UNCHANGED delta
    /\ UNCHANGED <<call, edges, coords, due, owed, arrivals, opened, drawn>>

Load(t) ==
    /\ thread[t].at = "load"
    /\ thread' = [thread EXCEPT ![t].old = coords[Head(thread[t].adds).point], ![t].at = "store"]
    /\ UNCHANGED <<call, edges, coords, due, owed, delta, arrivals, opened, given, drawn>>

(* atomic_add_float: the swap fails when the value is no longer the one     *)
(* loaded, and the loop tries again with the new one.  A plain += stores.   *)
(* Mutated form: a store is taken to land.                                  *)
LandsUnchecked(t) == TRUE
Lands(t) == Route \in Atomic => coords[Head(thread[t].adds).point] = thread[t].old

Store(t) ==
    /\ thread[t].at = "store"
    /\ LET r == thread[t]
           a == Head(r.adds)
       IN  IF ~Lands(t)
           THEN /\ thread' = [thread EXCEPT ![t].old = coords[a.point]]
                /\ UNCHANGED coords
           ELSE /\ coords' = [coords EXCEPT ![a.point] = r.old + a.by]
                /\ thread' = [thread EXCEPT ![t].adds = Tail(@), ![t].old = 0,
                       ![t].at = IF Len(r.adds) > 1 THEN "load"
                                 ELSE IF r.forces # <<>> THEN "force" ELSE "work"]
    /\ UNCHANGED <<call, edges, due, owed, delta, arrivals, opened, given, drawn>>

-----------------------------------------------------------------------------
(* ReusableBarrier                                                          *)

(* Mutated form: one barrier per batch.                                     *)
PassedOnce(t) ==
    IF Route = "merged" /\ t = 0 /\ thread[t].gate = 1 THEN [thread[t] EXCEPT !.at = "merge"]
    ELSE Onward(t)
(* Where a thread goes on when the barrier lets it through.                 *)
Passed(t) ==
    LET r == thread[t]
    IN  IF r.gate = 2 \/ Route = "atomic" THEN Onward(t)
        ELSE IF Route = "merged" /\ t = 0 THEN [r EXCEPT !.at = "merge"]
        ELSE [r EXCEPT !.at = "arrive", !.gate = 2]

Refilled == call.threads

Arrive(t) ==
    /\ thread[t].at = "arrive"
    /\ IF arrivals = 1
       THEN /\ arrivals' = Refilled
            /\ opened' = opened + 1
            /\ thread' = [s \in Team |->
                  IF s = t THEN Passed(t)
                  ELSE IF thread[s].at = "asleep" THEN [thread[s] EXCEPT !.at = "woken"]
                  ELSE thread[s]]
       ELSE /\ arrivals' = arrivals - 1
            /\ thread' = [thread EXCEPT ![t].at = "asleep", ![t].seen = opened]
            /\ UNCHANGED opened
    /\ UNCHANGED <<call, edges, coords, due, owed, delta, given, drawn>>

Opened(t) == opened # thread[t].seen

Awake(t) ==
    /\ thread[t].at = "woken"
    /\ thread' = [thread EXCEPT ![t] =
          IF Opened(t) THEN [Passed(t) EXCEPT !.seen = 0] ELSE [@ EXCEPT !.at = "asleep"]]
    /\ UNCHANGED <<call, edges, coords, due, owed, delta, arrivals, opened, given, drawn>>

(* A condition variable may wake a thread for no reason.                    *)
WakeAnyway(t) ==
    /\ thread[t].at = "asleep"
    /\ thread' = [thread EXCEPT ![t].at = "woken"]
    /\ UNCHANGED <<call, edges, coords, due, owed, delta, arrivals, opened, given, drawn>>

(* Thread 0 adds the sums of all threads; the second barrier keeps them     *)
(* from the next batch until it has.                                        *)
Merge ==
    /\ thread[0].at = "merge"
    /\ coords' = [v \in LayoutPoints |-> coords[v] + SumFunction([t \in Team |-> delta[t][v]])]
    /\ thread' = [thread EXCEPT ![0].at = "arrive", ![0].gate = 2]
    /\ UNCHANGED <<call, edges, due, owed, delta, arrivals, opened, given, drawn>>

-----------------------------------------------------------------------------
(* Threads started and joined in every epoch                                *)

(* A thread of "shared" that cannot read its part of the graph.             *)
Fail(t) ==
    /\ Route = "shared" /\ thread[t].at = "work"
    /\ thread' = [thread EXCEPT ![t].at = "failed"]
    /\ UNCHANGED <<call, edges, coords, due, owed, delta, arrivals, opened, given, drawn>>

Failed == \E t \in Team : thread[t].at = "failed"

JoinEpoch ==
    /\ Route \in Joined
    /\ \A t \in Team : thread[t].at \in {"done", "failed"}
    /\ IF Failed
       THEN /\ thread' = [t \in Team |-> [thread[t] EXCEPT !.at = "stopped"]]
            /\ UNCHANGED <<coords, delta>>
       ELSE /\ thread' = [t \in Team |-> Onward(t)]
            /\ coords' = CASE Route = "shared" ->
                                [v \in LayoutPoints |-> coords[v] + Between(-Bound, delta[0][v], Bound)]
                           [] Route = "replay" ->
                                [v \in LayoutPoints |-> Between(-Bound, coords[v], Bound)]
                           [] OTHER -> coords
            /\ delta' = [t \in Team |-> Nothing]
    /\ UNCHANGED <<call, edges, due, owed, arrivals, opened, given, drawn>>

JoinTeam ==
    /\ \A t \in Team : thread[t].at = "gone"
    /\ thread' = [t \in Team |-> [thread[t] EXCEPT !.at = "returned"]]
    /\ UNCHANGED <<call, edges, coords, due, owed, delta, arrivals, opened, given, drawn>>

-----------------------------------------------------------------------------
LayoutThread(t) ==
    \/ Clear(t) \/ EndStripe(t) \/ NextEdge(t) \/ ComputeForce(t) \/ Load(t) \/ Store(t)
    \/ Arrive(t) \/ Awake(t)
    \/ t = 0 /\ (Merge \/ JoinEpoch \/ JoinTeam)

LayoutNext == \E t \in Team : LayoutThread(t) \/ WakeAnyway(t) \/ Fail(t)

(* The operating system runs every thread that can run.                     *)
LayoutFairness == \A t \in 0..Max({c.threads : c \in LayoutCases}) - 1 :
    WF_layoutVars(t \in Team /\ LayoutThread(t))

LayoutSpec == LayoutInit /\ [][LayoutNext]_layoutVars /\ LayoutFairness

-----------------------------------------------------------------------------
(* What one thread would add for the edges S of an epoch, at the            *)
(* coordinates the epoch or batch begins with.                              *)
ForcesDue(epoch, e) ==
    IF PullsDue(epoch, e) = 0 THEN <<>>
    ELSE <<0>> \o PushedFrom(epoch, e, e, PushesDue(epoch, e))
EdgeSum(at, epoch, e, v) ==
    SumFunction([i \in DOMAIN ForcesDue(epoch, e) |->
                    AddAll(Nothing, AddsOf(at, epoch, e, ForcesDue(epoch, e)[i]))[v]])
SerialSums(at, epoch, S) ==
    [v \in LayoutPoints |-> SumFunction([e \in S |-> EdgeSum(at, epoch, e, v)])]

SerialStep ==
    LET r == thread[0]
        whole == IF Route = "merged" THEN Part(Len(edges), r.batch, call.batches) ELSE EdgeIds
        sums == SerialSums(coords, r.epoch, whole)
    IN  [v \in LayoutPoints |-> coords[v] +
            (IF Route = "shared" THEN Between(-Bound, sums[v], Bound) ELSE sums[v])]

(* Where sums are added later, the layout after a batch or an epoch is the  *)
(* one a single thread would reach, whatever the number of threads and the  *)
(* order they ran in: no thread reads a coordinate of the next batch before *)
(* this one is added, none adds a sum twice, and points are drawn by the    *)
(* number of the edge in the whole graph                                    *)
(* (tests/testthat/test-massive-graph.R:3446, "worker-invariant").  The     *)
(* layout of a failed epoch is the one it began with.                       *)
BatchExact == [][(Route \in Summed) => coords' \in {coords, SerialStep}]_layoutVars

(* Atomic additions lose nothing: when the threads have been joined, every  *)
(* point has moved by the sum of all pulls and pushes computed for it,      *)
(* although none of them was computed at the place it was added.            *)
NothingLost ==
    Route \in Atomic \ {"replay"} /\ thread[0].at = "returned" =>
        \A v \in LayoutPoints : coords[v] = call.start[v] + given[v]

(* The two ways to keep the schedule agree: after the last epoch every edge *)
(* has been pulled once per period, by one thread alone, and pushed as      *)
(* often as was due at its last pull.                                       *)
ScheduleKept ==
    Route # "sampled" /\ thread[0].at = "returned" =>
        \A e \in EdgeIds :
            LET pulls == Whole(call.epochs - 1, e)
            IN  /\ drawn[e].pulls = pulls
                /\ drawn[e].pushes = IF pulls = 0 \/ call.rate = 0 THEN 0 ELSE Pushes(EpochOf(pulls, e), e)

(* What a layout owes its points and its edges: the two above, together.    *)
AdditionsKept == NothingLost /\ ScheduleKept

LayoutReturned == thread[0].at \in {"returned", "stopped"}
=============================================================================
