------------------------------ MODULE QueryRows -------------------------------
(* New rows placed into a finished layout: each query row comes with its   *)
(* nearest reference rows, and is put between their coordinates (averaged, *)
(* interpolated or by a local affine fit), and then, for the t-SNE         *)
(* transform and the landmark UMAP over several GPUs, moved by a few       *)
(* iterations against the reference layout, which itself never moves.      *)
(*                                                                         *)
(* A lane is what works through rows with buffers of its own: the thread   *)
(* that makes the call (its threads share the rows of a batch and meet     *)
(* after each iteration), a device's projector, or one asynchronous worker *)
(* per GPU. It takes its rows in batches, and its buffers are those of the *)
(* batch before.                                                           *)
(*                                                                         *)
(* Data and layouts have one column of whole numbers, quotients are        *)
(* rounded down, and an exponential weight is a falling whole number of    *)
(* its argument; what rows may share, and in which order they share it, is *)
(* the code's.                                                             *)
EXTENDS Integers, FiniteSets, Sequences, SequencesExt, FiniteSetsExt

CONSTANTS
    QueryCalls,     \* the calls a session may make
    Reach,          \* the longest pull of one reference row
    MostStep,       \* max_step_norm
    MaxOutward      \* max_extrapolation

ASSUME QueryBounds == {Reach, MostStep, MaxOutward} \subseteq Nat \ {0}

VARIABLES
    query,          \* the call
    caller,         \* what the calling thread does
    started,        \* lanes begun so far
    lanes,          \* each lane: its stage, its device memory and its batch
    placed          \* the rows' coordinates, once they are written

queryVars == <<query, caller, started, lanes, placed>>

-------------------------------------------------------------------------------
(* One row, its nearest rows in order with their distances.                *)
Sized(x) == IF x < 0 THEN -x ELSE x
Clipped(x, most) == Max({-most, Min({x, most})})
SignOf(x) == IF x < 0 THEN -1 ELSE IF x > 0 THEN 1 ELSE 0
SumUp(s) == FoldLeft(LAMBDA a, b : a + b, 0, s)

MiddleOf(values) ==
    LET s == SortSeq(values, <)
        n == Len(s)
    IN IF n % 2 = 1 THEN s[(n + 1) \div 2] ELSE (s[n \div 2] + s[n \div 2 + 1]) \div 2

Table(c, i) ==
    LET apart(j) == Sized(c.data[j] - c.x[i])
        order == SortSeq([j \in 1..Len(c.data) |-> j],
                    LAMBDA a, b : apart(a) < apart(b) \/ (apart(a) = apart(b) /\ a < b))
    IN [j \in 1..c.k |-> [ref |-> order[j], far |-> apart(order[j])]]

(* A call with the table of its rows, found once.                          *)
Looked(c) == [near |-> [i \in 1..Len(c.x) |-> Table(c, i)]] @@ c

Copies(nearest) == SelectSeq(nearest, LAMBDA e : e.far = 0)

(* The weight of a gap beyond the nearest row, on the scale of the row.    *)
GapWeight(gap, scale) == IF gap = 0 THEN 4 ELSE IF gap <= scale THEN 2 ELSE 1

WeightsOf(nearest, scaleOfTies) ==
    LET gaps == [j \in DOMAIN nearest |-> nearest[j].far - nearest[1].far]
        wider == SelectSeq(gaps, LAMBDA g : g > 0)
        scale == IF wider = <<>> THEN scaleOfTies ELSE MiddleOf(wider)
    IN [j \in DOMAIN nearest |-> GapWeight(gaps[j], scale)]

Averaged(c, nearest, w) ==
    SumUp([j \in DOMAIN nearest |-> w[j] * c.at[nearest[j].ref]]) \div SumUp(w)

(* project_embedding_knn: all the copies of a row share it.                *)
ByWeights(c, i) ==
    LET nearest == c.near[i]
        same == Copies(nearest)
    IN IF same # <<>> THEN Averaged(c, same, [j \in DOMAIN same |-> 1])
       ELSE Averaged(c, nearest, WeightsOf(nearest, MiddleOf([j \in DOMAIN nearest |-> nearest[j].far])))

(* interpolate_landmark_layout: the first copy takes the row.              *)
Interpolated(c, i) ==
    LET same == Copies(c.near[i])
    IN IF same # <<>> THEN c.at[same[1].ref]
       ELSE Averaged(c, c.near[i],
                WeightsOf(c.near[i], MiddleOf([j \in 1..c.k |-> c.near[i][j].far])))

(* project_embedding_affine: the sums of the nearest rows' data and        *)
(* coordinates, with the scale of all the neighbours of the row.           *)
FitOf(c, i) ==
    LET m == Min({Max({c.fit, 3}), c.k})
        ref == [j \in 1..m |-> c.near[i][j].ref]
        w == SubSeq(WeightsOf(c.near[i], c.near[i][1].far), 1, m)
        x == SumUp([j \in 1..m |-> w[j] * c.data[ref[j]]])
        y == SumUp([j \in 1..m |-> w[j] * c.at[ref[j]]])
        center == y \div SumUp(w)
    IN [weight |-> SumUp(w), x |-> x, y |-> y, center |-> center,
        xx |-> SumUp([j \in 1..m |-> w[j] * c.data[ref[j]] * c.data[ref[j]]]),
        xy |-> SumUp([j \in 1..m |-> w[j] * c.data[ref[j]] * c.at[ref[j]]]),
        radius |-> Max({Sized(c.at[ref[j]] - center) : j \in 1..m})]

(* The ridge system solved for one column: how far a row lies from the     *)
(* center when its data lie away from theirs (in parts of the weight).     *)
Solved(fit, ridge, away) ==
    LET spread == fit.weight * fit.xx - fit.x * fit.x
        slant == fit.weight * fit.xy - fit.x * fit.y
    IN IF spread = 0 THEN 0
       ELSE SignOf(slant * away) * ((Sized(slant * away) * ridge)
                \div (fit.weight * spread * (ridge + 1)))

(* The row follows the fit, but not too far from the rows that made it.    *)
Affine(c, i) ==
    LET fit == FitOf(c, i)
        shift == Solved(fit, c.ridge, fit.weight * c.x[i] - fit.x)
    IN IF c.near[i][1].far = 0 THEN c.at[c.near[i][1].ref]
       ELSE fit.center + Clipped(shift, MaxOutward * fit.radius)

-------------------------------------------------------------------------------
(* One row moved: where it starts, and an iteration.                       *)
Refining == {"transform", "transform_cuda", "tsne_devices"}
OnDevices == {"tsne_devices", "umap_devices"}

(* The draw for a row, an iteration and a sample: a function of the seed.  *)
Draw(c, epoch, i, s) == 1 + ((c.seed + 5 * i + 3 * epoch + 7 * s) % Len(c.at))

StartOf(c, i) ==
    CASE c.start = "given" -> c.given[i]
      [] c.start = "random" -> Draw(c, 0, i, 0) - 1
      [] c.start = "weighted" ->
            LET w == [j \in 1..c.k |-> 12 \div (c.near[i][j].far + 1)]
            IN SumUp([j \in 1..c.k |-> w[j] * c.at[c.near[i][j].ref]]) \div Max({1, SumUp(w)})
      [] OTHER -> MiddleOf([j \in 1..c.k |-> c.at[c.near[i][j].ref]])

FirstPlace(c, i) ==
    CASE c.route \in {"weighted", "persistent"} -> ByWeights(c, i)
      [] c.route = "interpolate" -> Interpolated(c, i)
      [] c.route \in {"affine"} \cup OnDevices -> Affine(c, i)
      [] OTHER -> StartOf(c, i)

(* The conditional probability of a neighbour, in sixths.                  *)
Likeness(c, i, j) == IF c.near[i][j].far = c.near[i][1].far THEN 3 ELSE 1

(* The reference rows that push a row off: all of them, or a sample.       *)
Pushing(c, epoch, i) ==
    IF Len(c.at) <= c.exact \/ c.negatives >= Len(c.at)
    THEN [s \in 1..Len(c.at) |-> s]
    ELSE [s \in 1..c.negatives |-> Draw(c, epoch, i, s)]

GradientOf(c, epoch, i, y) ==
    LET pull == SumUp([j \in 1..c.k |->
                    Likeness(c, i, j) * Clipped(y - c.at[c.near[i][j].ref], Reach)])
        push == SumUp([s \in DOMAIN Pushing(c, epoch, i) |->
                    SignOf(y - c.at[Pushing(c, epoch, i)[s]])])
    IN ((IF epoch < c.early THEN 2 ELSE 1) * pull - 2 * push) \div 2

(* An iteration of the t-SNE transform, with its momentum, and with its    *)
(* gain in fifths.                                                         *)
TsneMove(c, epoch, i, row) ==
    LET g == GradientOf(c, epoch, i, row.y)
        gain == IF SignOf(row.update) # SignOf(g) THEN row.gain + 1
                ELSE Max({1, (row.gain * 4) \div 5})
        carried == IF epoch < c.early THEN row.update \div 2 ELSE row.update
        update == Clipped(carried - (gain * g) \div 5, MostStep)
    IN [y |-> row.y + update, update |-> update, gain |-> gain]

(* An iteration of the landmark UMAP of one device: a neighbour is due     *)
(* when its period has passed, and each pull brings pushes from the        *)
(* reference rows alone. The iterations fade.                              *)
UmapMove(c, epoch, i, row) ==
    LET faded(d) == SignOf(d) * ((Sized(d) * (c.epochs - epoch)) \div c.epochs)
        period(j) == IF c.near[i][j].far = c.near[i][1].far THEN 1 ELSE 2
        due(j) == (epoch + 1) \div period(j) > epoch \div period(j)
        pulled(y, j) == y - faded(Clipped(y - c.at[c.near[i][j].ref], Reach))
        pushed(y, j, s) ==
            LET r == Draw(c, epoch, i, j + s)
            IN IF r = c.near[i][j].ref THEN y ELSE y + faded(SignOf(y - c.at[r]))
        moved(y, j) == IF due(j) THEN FoldLeft(LAMBDA v, s : pushed(v, j, s), pulled(y, j),
                                               [s \in 1..c.negatives |-> s])
                       ELSE y
    IN [row EXCEPT !.y = FoldLeft(moved, row.y, [j \in 1..c.k |-> j])]

RowMoved(c, epoch, i, row) ==
    IF c.route = "umap_devices" THEN UmapMove(c, epoch, i, row) ELSE TsneMove(c, epoch, i, row)

Iterations(c) == IF c.route \in Refining \cup OnDevices THEN c.epochs ELSE 0

-------------------------------------------------------------------------------
(* The call. Row i of lane r is row FirstOf(r) + i of the query.           *)
Lane(r) == lanes[r]
FirstOf(c, r) == (Len(c.x) * (r - 1)) \div c.lanes
BatchOf(c, r) == Min({c.batch, FirstOf(c, r + 1) - lanes[r].begin})

(* A projector holds the rows it was made for.                             *)
Fits(c, r) == c.route = "persistent" => BatchOf(c, r) <= c.capacity

IdleLane == [stage |-> "idle", begin |-> 0, epoch |-> 0, held |-> 0, rows |-> <<>>, done |-> <<>>]

(* Two to four GPUs, each with a row of its own.                           *)
Takes(c) == c.route \in OnDevices => c.lanes \in 2..4 /\ c.lanes <= Len(c.x)

QueryInit ==
    /\ caller = IF Takes(query) THEN "starting" ELSE "stopped"
    /\ started = 0
    /\ lanes = [r \in 1..query.lanes |-> IdleLane]
    /\ placed = <<>>

(* The next lane is started; a thread that cannot be started ends the call *)
(* once those before it are through.                                       *)
StartLane ==
    /\ caller = "starting" /\ started < query.lanes
    /\ \/ /\ started' = started + 1
          /\ lanes' = [lanes EXCEPT ![started + 1].stage = "taking",
                                    ![started + 1].begin = FirstOf(query, started + 1)]
          /\ caller' = IF started' = query.lanes THEN "waiting" ELSE caller
       \/ query.route \in OnDevices /\ caller' = "unwinding" /\ UNCHANGED <<started, lanes>>
    /\ UNCHANGED <<query, placed>>

(* Device buffers, one after the other; any of them may be refused.        *)
Needed == IF query.route \in OnDevices \cup {"persistent", "transform_cuda"} THEN 2 ELSE 0

Acquire(r) ==
    /\ Lane(r).stage = "taking" /\ Lane(r).held < Needed
    /\ lanes' = [lanes EXCEPT ![r].held = @ + 1]
    /\ UNCHANGED <<query, caller, started, placed>>

(* Mutated form: the updates and gains of the batch before are kept.       *)
FreshRowKept(old, y) == [old EXCEPT !.y = y]

(* The rows of a batch start with no momentum and plain gains, whatever    *)
(* the batch before left in the buffers.                                   *)
FreshRow(old, y) == [y |-> y, update |-> 0, gain |-> 5]

BeginBatch(r) ==
    /\ Lane(r).stage = "taking" /\ Lane(r).held = Needed
    /\ Lane(r).begin < FirstOf(query, r + 1) /\ Fits(query, r)
    /\ LET n == BatchOf(query, r)
           before(p) == IF p \in DOMAIN Lane(r).rows THEN Lane(r).rows[p]
                        ELSE [y |-> 0, update |-> 0, gain |-> 5]
           rows == [p \in 1..Max({n, Len(Lane(r).rows)}) |->
                       IF p <= n THEN FreshRow(before(p), FirstPlace(query, Lane(r).begin + p))
                       ELSE before(p)]
       IN lanes' = [lanes EXCEPT ![r].stage = "moving", ![r].epoch = 0, ![r].rows = rows]
    /\ UNCHANGED <<query, caller, started, placed>>

Iterate(r) ==
    /\ Lane(r).stage = "moving" /\ Lane(r).epoch < Iterations(query)
    /\ lanes' = [lanes EXCEPT
          ![r].epoch = @ + 1,
          ![r].rows = [p \in DOMAIN @ |->
              IF p <= BatchOf(query, r)
              THEN RowMoved(query, Lane(r).epoch, Lane(r).begin + p, @[p]) ELSE @[p]]]
    /\ UNCHANGED <<query, caller, started, placed>>

(* The rows leave the buffers, and the next batch begins.                  *)
FinishBatch(r) ==
    /\ Lane(r).stage = "moving" /\ Lane(r).epoch = Iterations(query)
    /\ LET n == BatchOf(query, r)
       IN lanes' = [lanes EXCEPT ![r].stage = "taking", ![r].begin = @ + n,
              ![r].done = @ \o [p \in 1..n |-> Lane(r).rows[p].y]]
    /\ UNCHANGED <<query, caller, started, placed>>

EndLane(r) ==
    /\ Lane(r).stage = "taking" /\ Lane(r).begin = FirstOf(query, r + 1)
    /\ lanes' = [lanes EXCEPT ![r].stage = "ended", ![r].held = 0]
    /\ UNCHANGED <<query, caller, started, placed>>

(* A device step fails, or the user stops the call between iterations; the *)
(* device buffers go, and the worker leaves its error for the caller.      *)
FailLane(r) ==
    /\ Lane(r).stage \in {"taking", "moving"}
    /\ Needed > 0 \/ (query.route = "transform" /\ Lane(r).stage = "moving")
    /\ lanes' = [lanes EXCEPT ![r].stage = "failed", ![r].held = 0]
    /\ UNCHANGED <<query, caller, started, placed>>

(* The rows of interpolated landmarks are their own.                       *)
WithLandmarks(c, rows) ==
    IF c.route # "interpolate" THEN rows
    ELSE [i \in DOMAIN rows |->
            IF i \in Range(c.marks)
            THEN c.at[Max({l \in DOMAIN c.marks : c.marks[l] = i})] ELSE rows[i]]

(* The caller has waited for every lane; one that failed fails the call.   *)
Collect ==
    /\ caller \in {"waiting", "unwinding"}
    /\ \A r \in 1..started : Lane(r).stage \in {"ended", "failed"}
    /\ IF caller = "waiting" /\ \A r \in DOMAIN lanes : Lane(r).stage = "ended"
       THEN /\ caller' = "returned"
            /\ placed' = WithLandmarks(query,
                  FlattenSeq([r \in 1..query.lanes |-> Lane(r).done]))
       ELSE caller' = "stopped" /\ UNCHANGED placed
    /\ UNCHANGED <<query, started, lanes>>

QueryNext ==
    \/ StartLane
    \/ \E r \in DOMAIN lanes :
          Acquire(r) \/ BeginBatch(r) \/ Iterate(r) \/ FinishBatch(r) \/ EndLane(r) \/ FailLane(r)
    \/ Collect

-------------------------------------------------------------------------------
(* A row on its own: its start and its iterations, with its number.        *)
OnItsOwn(c, i) ==
    FoldLeft(LAMBDA row, e : RowMoved(c, e - 1, i, row),
             [y |-> FirstPlace(c, i), update |-> 0, gain |-> 5],
             [e \in 1..Iterations(c) |-> e]).y

(* A query row ends where it would end if it were the only one of its call *)
(* (transform_tsne_cpp, landmark_tsne_transform_cuda_devices_impl): neither*)
(* the rows it shared a batch and its buffers with, nor the number of      *)
(* batches or GPUs, nor the row its GPU began with show. An interpolated   *)
(* landmark is where the layout has it, and a row with copies among the    *)
(* references that is not moved is on or between them. A call that stops   *)
(* places no row, and leaves no worker and no device memory behind.        *)
RowsStandAlone ==
    /\ caller = "returned" => Len(placed) = Len(query.x) /\
          \A i \in DOMAIN query.x :
             LET same == {query.at[e.ref] : e \in Range(Copies(query.near[i]))}
                 marks == {l \in DOMAIN query.marks : query.marks[l] = i}
             IN IF query.route = "interpolate" /\ marks # {}
                THEN placed[i] \in {query.at[l] : l \in marks}
                ELSE /\ placed[i] = OnItsOwn(query, i)
                     /\ same # {} /\ Iterations(query) = 0 /\ query.route # "transform" =>
                           placed[i] \in Min(same)..Max(same)
    /\ caller \in {"returned", "stopped"} =>
          \A r \in DOMAIN lanes :
             Lane(r).stage \in {"idle", "ended", "failed"} /\ Lane(r).held = 0
    /\ caller = "stopped" => placed = <<>>
===============================================================================
