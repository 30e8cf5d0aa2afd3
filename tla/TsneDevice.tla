----------------------------- MODULE TsneDevice -----------------------------
(* The gradient and the step of a t-SNE layout on a CUDA device: kernels   *)
(* one after another in a stream, on buffers that several of them reuse.   *)
(* A kernel is a function of the buffers; the order of its threads, which  *)
(* add with atomics or reduce a block, does not matter to a sum.           *)
EXTENDS TsneForces

CONSTANTS
    BlockThreads,  \* threads of a block: 256
    MostBlocks     \* blocks of the layout statistics: 1024

PointBlocks(n) == (n + BlockThreads - 1) \div BlockThreads
LayoutBlocks(n) == IF PointBlocks(n) < MostBlocks THEN PointBlocks(n) ELSE MostBlocks
(* The rows a block visits with a stride of all threads of the grid.       *)
BlockRows(b, block, blocks) == {i \in RowsIn(b.y) : ((i - 1) \div BlockThreads) % blocks = block}
All(b) == <<1, Len(b.y)>>
SumRows(f, rows) == Sum([i \in DOMAIN f |-> IF i \in rows THEN f[i] ELSE 0], 1, Len(f))

(* The transforms of the library: neither direction is scaled.             *)
CufftForward(v, size, axes) == IF axes = 2 THEN Fft2d(v, size, FALSE) ELSE Fft3d(v, size, FALSE)
CufftInverse(v, size, axes) ==
    From(IF axes = 2 THEN Fft2d(v, size, TRUE) ELSE Fft3d(v, size, TRUE),
         LAMBDA w : [c \in DOMAIN w |-> w[c] ** (size ^ axes)])
-----------------------------------------------------------------------------
(* Affinities: each row keeps its own half, over twice its rows; a row     *)
(* with one usable neighbour gives it all.                                 *)
UsableEdges(graph, i) == {k \in 1..Len(graph.near[i]) : graph.near[i][k] # i}
DeviceAffinity(graph) ==
    LET n == Len(graph.near)
        usable(i) == [k \in 1..Len(graph.near[i]) |-> IF k \in UsableEdges(graph, i) THEN graph.share[i][k] ELSE 0]
        total(i) == Sum(usable(i), 1, Len(graph.near[i]))
        only(i) == \E k \in UsableEdges(graph, i) : UsableEdges(graph, i) = {k}
    IN Stored([i \in 1..n |-> Stored([k \in 1..Len(graph.near[i]) |->
           IF k \notin UsableEdges(graph, i) THEN 0
           ELSE IF only(i) THEN Reciprocal(2 * n)
           ELSE graph.share[i][k] ** Reciprocal(2 * n) ** Reciprocal(total(i))])])

(* Each edge pulls both of its ends.                                       *)
SparseAttraction(b, graph, p, exaggeration) ==
    LET edges == {e \in RowsIn(b.y) \X (1..Len(p[1])) : graph.near[e[1]][e[2]] # e[1]}
        pull(e, a) == LET j == graph.near[e[1]][e[2]]
                      IN exaggeration ** p[e[1]][e[2]] ** Q(SquaredDistance(b.y[e[1]], b.y[j]))
                            ** (b.y[e[1]][a] - b.y[j][a])
        share(i, a, e) ==
            IF e \notin edges THEN 0 ELSE IF e[1] = i THEN pull(e, a)
            ELSE IF graph.near[e[1]][e[2]] = i THEN -pull(e, a) ELSE 0
        pulled(i, a) ==
            Sum([r \in RowsIn(b.y) |->
                    Sum([k \in 1..Len(p[1]) |-> share(i, a, <<r, k>>)], 1, Len(p[1]))], 1, Len(b.y))
    IN [b EXCEPT !.grad = PerAxis(b.y, LAMBDA i, a :
           (b.grad[i][a] + pulled(i, a)) % Prime)]
-----------------------------------------------------------------------------
(* The repulsion in the plane, TsneFft2dIteration: "partial" and "stats"   *)
(* hold the box, then sum_q, then the mean.                                *)
LayoutStatsBlocks(b) ==
    LET blocks == LayoutBlocks(Len(b.y))
        own(k, a) == {b.y[i][a] : i \in BlockRows(b, k, blocks)}
    IN [b EXCEPT !.partial = Stored([k \in 0..blocks - 1 |->
           <<<<Least(own(k, 1)), Greatest(own(k, 1))>>, <<Least(own(k, 2)), Greatest(own(k, 2))>>>>])]

FinalizeLayoutStats(b) ==
    LET blocks == 0..LayoutBlocks(Len(b.y)) - 1
        low(a) == Least({b.partial[k][a][1] : k \in blocks})
        high(a) == Greatest({b.partial[k][a][2] : k \in blocks})
        span == Greatest({1} \cup {high(a) - low(a) : a \in 1..2})
        spacing == (span + Grid2 - 1) \div (Grid2 - 1)
        lower(a) == (low(a) + high(a) - spacing * (Grid2 - 1)) \div 2
    IN [b EXCEPT !.stats = <<lower(1), lower(2), spacing>>]

FftClear(b) ==
    LET size == 2 * Grid2
        offset(c, a) == Wrapped(Digit(c, a, size), Grid2)
        within(c) == \A a \in 1..2 : offset(c, a) > -Grid2
        q(c) == Q((offset(c, 1) * offset(c, 1) + offset(c, 2) * offset(c, 2)) * b.stats[3] * b.stats[3])
        kernel(power) == Stored([c \in 0..size ^ 2 - 1 |-> IF within(c) THEN Power(q(c), power) ELSE 0])
    IN [b EXCEPT !.kernels = <<kernel(1), kernel(2)>>]

(* The grid lies in a corner of the transform's array, all else is zero.   *)
FftScatter(b) ==
    LET size == 2 * Grid2
        points == Stored([i \in RowsIn(b.y) |->
            Point2(b.y[i], [lower |-> <<b.stats[1], b.stats[2]>>, spacing |-> b.stats[3]])])
        mass(amounts) == Deposited(points, amounts, size, 2)
    IN [b EXCEPT !.place = points,
                 !.masses = <<mass([i \in RowsIn(b.y) |-> 1]), mass([i \in RowsIn(b.y) |-> b.y[i][1]]),
                              mass([i \in RowsIn(b.y) |-> b.y[i][2]])>>]

ForwardAll(b) ==
    [b EXCEPT !.masses = Stored([m \in 1..3 |-> CufftForward(b.masses[m], 2 * Grid2, 2)]),
              !.kernels = Stored([m \in 1..2 |-> CufftForward(b.kernels[m], 2 * Grid2, 2)])]
MultiplyAll(b) ==
    [b EXCEPT !.fields = <<Multiplied(b.masses[1], b.kernels[1]), Multiplied(b.masses[1], b.kernels[2]),
                           Multiplied(b.masses[2], b.kernels[2]), Multiplied(b.masses[3], b.kernels[2])>>]
InverseAll(b) == [b EXCEPT !.fields = Stored([m \in 1..4 |-> CufftInverse(b.fields[m], 2 * Grid2, 2)])]

Scale2 == Reciprocal((2 * Grid2) ^ 2)
GridValue(b, m, i) ==
    Scale2 ** Interpolated(b.fields[m], b.place[i].first, b.place[i].weight, 2 * Grid2)
SumQBlocks(b) ==
    LET blocks == PointBlocks(Len(b.y))
    IN [b EXCEPT !.partial = Stored([k \in 0..blocks - 1 |->
           SumRows([i \in RowsIn(b.y) |-> GridValue(b, 1, i)], BlockRows(b, k, blocks))])]
FinalizeSumQ(b) ==
    [b EXCEPT !.stats[1] = Sum(b.partial, 0, PointBlocks(Len(b.y)) - 1)]
RepulsiveGradient(b) ==
    LET sum == b.stats[1] - Len(b.y)
    IN [b EXCEPT !.grad = PerAxis(b.y, LAMBDA i, a :
           (GridValue(b, 2 + a, i) - b.y[i][a] ** GridValue(b, 2, i)) ** Reciprocal(sum))]

(* Nothing after the repulsion reads what only it has used.                *)
Released(b) ==
    [b EXCEPT !.kernels = <<>>, !.masses = <<>>, !.fields = <<>>, !.place = <<>>, !.rowq = <<>>]
Repulsed2(b) ==
    LET boxed == FinalizeLayoutStats(LayoutStatsBlocks(b))
        loaded == From(From(boxed, FftClear), FftScatter)
        convolved == From(From(From(loaded, ForwardAll), MultiplyAll), InverseAll)
    IN From(From(From(From(convolved, SumQBlocks), FinalizeSumQ), RepulsiveGradient), Released)
-----------------------------------------------------------------------------
(* The step of the rows a device owns, from own[1] to own[2], with the     *)
(* sums of their new points in each block.                                 *)
OwnRows(own) == own[1]..own[2]
OwnBlocks(own) == PointBlocks(own[2] - own[1] + 1)
OwnBlockRows(own, block) == {i \in OwnRows(own) : (i - own[1]) \div BlockThreads = block}
UpdateOwn(b, own, phase) ==
    LET moved == Moved([y |-> b.y, update |-> b.update, gains |-> b.gains], b.grad, phase)
        kept(new, old) == Stored([i \in RowsIn(b.y) |-> IF i \in OwnRows(own) THEN new[i] ELSE old[i]])
    IN [b EXCEPT !.y = kept(moved.y, @), !.update = kept(moved.update, @), !.gains = kept(moved.gains, @)]
UpdateReduce(b, own, phase) ==
    LET sums(c, k) == Stored([a \in Axes(c.y) |->
            SumRows([i \in RowsIn(c.y) |-> c.y[i][a]], OwnBlockRows(own, k))])
    IN From(UpdateOwn(b, own, phase), LAMBDA c :
           [c EXCEPT !.partial = Stored([k \in 0..OwnBlocks(own) - 1 |-> sums(c, k)])])

(* A mean is a sum and what it is divided by, where it is subtracted.      *)
FinalizeMean(b, own, n) ==
    [b EXCEPT !.mean = [over |-> n, sum |-> Stored([a \in Axes(b.y) |->
        Sum([k \in DOMAIN b.partial |-> b.partial[k][a]], 0, OwnBlocks(own) - 1)])]]
Center(b, own) ==
    LET mean(a) == Signed(b.mean.sum[a]) \div b.mean.over
    IN [b EXCEPT !.y = Stored([i \in RowsIn(b.y) |->
           IF i \in OwnRows(own) THEN Stored([a \in Axes(b.y) |-> b.y[i][a] - mean(a)]) ELSE b.y[i]])]
-----------------------------------------------------------------------------
(* The repulsion in space.  The box and the centre come from one pass over *)
(* blocks of rows.                                                         *)
BoundsBlocks(b, own) ==
    [b EXCEPT !.partial = Stored([k \in 0..OwnBlocks(own) - 1 |->
        LET rows == OwnBlockRows(own, k)
        IN Stored([a \in 1..3 |->
               [low |-> Least({b.y[i][a] : i \in rows}), high |-> Greatest({b.y[i][a] : i \in rows}),
                sum |-> SumRows([i \in RowsIn(b.y) |-> b.y[i][a]], rows)]])])]
FinalizeBounds(b, n) ==
    LET blocks == DOMAIN b.partial
        low(a) == Least({b.partial[k][a].low : k \in blocks})
        high(a) == Greatest({b.partial[k][a].high : k \in blocks})
        spacing == (Greatest({high(a) - low(a) : a \in 1..3}) + Grid3 - 5) \div (Grid3 - 5)
        cutoff == (IF n < WideRows THEN 3 ELSE 2) * spacing
    IN [b EXCEPT !.mean = [over |-> n, sum |-> Stored([a \in 1..3 |->
                     Sum([k \in blocks |-> b.partial[k][a].sum], 0, Greatest(blocks))])],
                 !.box = [spacing |-> spacing, cutoff |-> cutoff, near |-> cutoff * cutoff > NearFrom,
                          bins |-> (Grid3 * spacing + cutoff - 1) \div cutoff,
                          lower |-> Stored([a \in 1..3 |->
                              (low(a) + high(a) - spacing * (Grid3 - 5)) \div 2 - 2 * spacing])]]
KernelFft3(b) ==
    [b EXCEPT !.kernels = <<Stored([c \in 0..(2 * Grid3) ^ 3 - 1 |->
        SmoothQ(WrappedDistance(c, Grid3, 3, b.box.spacing), b.box.cutoff)])>>]
ScatterFft3(b) ==
    LET points == Stored([i \in RowsIn(b.y) |-> Point3(b.y[i], b.box)])
    IN [b EXCEPT !.place = points,
                 !.masses = <<Deposited(points, [i \in RowsIn(b.y) |-> 1], 2 * Grid3, 3)>>]
MultiplyFft3(b) ==
    LET forward(v) == CufftForward(v, 2 * Grid3, 3)
    IN [b EXCEPT !.fields = <<CufftInverse(Multiplied(forward(b.masses[1]), forward(b.kernels[1])),
                                           2 * Grid3, 3)>>]
Scale3 == Reciprocal((2 * Grid3) ^ 3)
GatherFft3(b) ==
    LET value(i, axis) ==
            LET point == b.place[i]
            IN Scale3 ** Interpolated(b.fields[1], point.first, GatherWeights(point, axis), 2 * Grid3)
                  - SelfValue(point, axis, b.box)
    IN [b EXCEPT !.rowq = Stored([i \in RowsIn(b.y) |-> value(i, 0) + NearValue(b.y, i, 0, b.box)]),
                 !.grad = PerAxis(b.y, LAMBDA i, a :
                     Half ** (value(i, a) ** Reciprocal(b.box.spacing) + NearValue(b.y, i, a, b.box)))]
SumQBlocks3(b) ==
    LET blocks == PointBlocks(Len(b.y))
    IN [b EXCEPT !.partial = Stored([k \in 0..blocks - 1 |-> SumRows(b.rowq, BlockRows(b, k, blocks))])]
ScaleRepulsion3(b) ==
    LET inverse == Reciprocal(Sum(b.partial, 0, PointBlocks(Len(b.y)) - 1))
    IN [b EXCEPT !.grad = PerAxis(b.y, LAMBDA i, a : b.grad[i][a] ** inverse)]
Repulsed3(b) ==
    LET boxed == FinalizeBounds(BoundsBlocks(b, All(b)), Len(b.y))
        convolved == From(From(From(boxed, KernelFft3), ScatterFft3), MultiplyFft3)
    IN From(From(From(From(convolved, GatherFft3), SumQBlocks3), ScaleRepulsion3), Released)

Repulsed(b) == IF Len(b.y[1]) = 2 THEN Repulsed2(b) ELSE Repulsed3(b)

(* The step and the mean of the rows a device owns: in the plane the step  *)
(* adds them up, in space another pass over the layout does.               *)
Stepped(b, own, n, phase) ==
    IF Len(b.y[1]) = 2
      THEN From(UpdateReduce(b, own, phase), LAMBDA c : FinalizeMean(c, own, n))
      ELSE From(UpdateOwn(b, own, phase), LAMBDA c : FinalizeBounds(BoundsBlocks(c, own), n))

(* An iteration on one device.                                             *)
Iterated(b, graph, p, phase) ==
    LET pulled(c) == SparseAttraction(c, graph, p, phase.exaggeration)
        stepped(c) == Stepped(c, All(b), Len(b.y), phase)
        centered(c) == Center(c, All(b))
    IN From(From(From(From(b, Repulsed), pulled), stepped), centered)
-----------------------------------------------------------------------------
(* Many devices: each owns a block of rows, the last one maybe fewer.  The *)
(* rows that pad the last block are left out, nothing reads them.          *)
OwnBlock(n, devices, r) ==
    LET rows == (n - 1) \div devices + 1
    IN <<(r - 1) * rows + 1, IF r * rows < n THEN r * rows ELSE n>>

(* The first device repels, the others start from nothing.                 *)
Begun(contexts) ==
    [r \in DOMAIN contexts |->
        IF r = 1 THEN Repulsed(contexts[1])
        ELSE [contexts[r] EXCEPT !.grad = Stored([i \in DOMAIN @ |-> [a \in DOMAIN @[i] |-> 0]])]]

(* A batch of edges <<head, tail>>, each pulling its head.                 *)
Attracted(b, edges, p, exaggeration) ==
    [b EXCEPT !.grad = PerAxis(b.y, LAMBDA i, a :
        (b.grad[i][a] + Sum([j \in RowsIn(b.y) |-> IF <<i, j>> \notin edges THEN 0
             ELSE exaggeration ** p[i][j] ** Q(SquaredDistance(b.y[i], b.y[j])) ** (b.y[i][a] - b.y[j][a])],
             1, Len(b.y))) % Prime)]

(* Every owner receives the gradient of its rows from all devices, takes   *)
(* the step, and shares its part of the mean and then its points.          *)
ReduceScattered(contexts, blocks) ==
    [r \in DOMAIN contexts |-> [contexts[r] EXCEPT !.grad = Stored([i \in DOMAIN @ |->
        IF i \in OwnRows(blocks[r])
          THEN Stored([a \in DOMAIN @[i] |->
                   Sum([q \in DOMAIN contexts |-> contexts[q].grad[i][a]], 1, Len(contexts))])
          ELSE @[i]])]]
AllReduced(contexts) ==
    [r \in DOMAIN contexts |-> [contexts[r] EXCEPT !.mean.sum = Stored([a \in DOMAIN @ |->
        Sum([q \in DOMAIN contexts |-> contexts[q].mean.sum[a]], 1, Len(contexts))])]]
AllGathered(contexts, blocks, field) ==
    [r \in DOMAIN contexts |-> [contexts[r] EXCEPT ![field] = Stored([i \in DOMAIN @ |->
        contexts[CHOOSE q \in DOMAIN contexts : i \in OwnRows(blocks[q])][field][i]])]]

Finished(contexts, blocks, n, phase) ==
    LET stepped(cs) == [r \in DOMAIN cs |-> Stepped(cs[r], blocks[r], n, phase)]
        centered(cs) == [r \in DOMAIN cs |-> Center(cs[r], blocks[r])]
        gathered(cs) == AllGathered(cs, blocks, "y")
    IN From(From(From(From(ReduceScattered(contexts, blocks), stepped), AllReduced), centered), gathered)
(* Mutated form: a snapshot takes the steps and gains the first device has.*)
KeptState(contexts, blocks) == contexts
GatheredState(contexts, blocks) ==
    From(AllGathered(contexts, blocks, "update"), LAMBDA cs : AllGathered(cs, blocks, "gains"))
=============================================================================
