----------------------------- MODULE TsneForces -----------------------------
(* The gradient of a t-SNE layout, as the compiled code computes it: the   *)
(* affinities of a neighbour graph, the attraction along its edges, and    *)
(* the repulsion of all pairs, which goes through a grid whose convolution *)
(* with the kernel is a product of Fourier transforms.                     *)
(*                                                                         *)
(* A real number is an element of the field of Prime elements.  Sums,      *)
(* products and quotients obey the same laws there, and the field has      *)
(* roots of unity, so everything the code rewrites (a convolution into     *)
(* transforms, all pairs into pairs minus selves, a far kernel and a near  *)
(* correction) holds exactly or not at all.  Coordinates are whole         *)
(* numbers: a layout is a sequence of points, a point a tuple of axes.     *)
EXTENDS Integers, Sequences

CONSTANTS
    Prime, Generator,  \* the field, and a generator of its units
    Grid2, Grid3,      \* tsne_fft_grid_size, tsne_fft_3d_grid_size
    ExactRows,         \* rows up to which sum_q is summed over the pairs: 256
    WideRows,          \* rows below which the cutoff is three cells: 5000
    NearFrom,          \* squared cutoff above which near pairs are corrected
    Reach              \* the longest step along an axis

(* The product of the field.                                               *)
a ** b == (a * b) % Prime

RECURSIVE Sum(_, _, _)
Sum(f, a, b) ==
    IF a > b THEN 0 ELSE IF a = b THEN f[a] % Prime
    ELSE (Sum(f, a, (a + b) \div 2) + Sum(f, (a + b) \div 2 + 1, b)) % Prime

(* An array, computed once, and what is computed from one.                 *)
Stored(f) == CHOOSE g \in {f} : TRUE
From(f, Result(_)) == CHOOSE r \in {Result(g) : g \in {f}} : TRUE

InverseOf[a \in 1..Prime - 1] ==
    IF a = 1 THEN 1 ELSE (Prime - Prime \div a) ** InverseOf[Prime % a]
Reciprocal(a) == InverseOf[a % Prime]
Half == Reciprocal(2)

RECURSIVE Power(_, _)
Power(a, e) ==
    IF e = 0 THEN 1 ELSE IF e % 2 = 0 THEN Power(a ** a, e \div 2) ELSE a ** Power(a, e - 1)
RootOfUnity(size) == Power(Generator, (Prime - 1) \div size)

(* A number of the field as a whole number nearest to zero, for a sign.    *)
Signed(v) == IF 2 * v > Prime THEN v - Prime ELSE v
Sign(v) == IF v = 0 THEN 0 ELSE IF v < 0 THEN -1 ELSE 1

Axes(y) == 1..Len(y[1])
RowsIn(y) == 1..Len(y)
PerAxis(y, Value(_, _)) == Stored([i \in RowsIn(y) |-> Stored([a \in Axes(y) |-> Value(i, a)])])
Greatest(S) == CHOOSE m \in S : \A s \in S : s <= m
Least(S) == CHOOSE m \in S : \A s \in S : m <= s
Clamped(v, low, high) == IF v < low THEN low ELSE IF v > high THEN high ELSE v

-----------------------------------------------------------------------------
(* Affinities: every directed share of a row, without self edges, joined   *)
(* with the opposite one, halved by the total, and listed in both rows.    *)
(* A graph has a sequence of neighbours per row and the share of each of   *)
(* them, tsne_row_probabilities.                                           *)
DirectedEdges(graph) ==
    {e \in RowsIn(graph.near) \X (1..Len(graph.near[1])) : graph.near[e[1]][e[2]] # e[1]}
RECURSIVE ShareOf(_, _)
ShareOf(graph, edges) ==
    IF edges = {} THEN 0
    ELSE LET e == CHOOSE e \in edges : TRUE
         IN (graph.share[e[1]][e[2]] + ShareOf(graph, edges \ {e})) % Prime

JoinedShare(graph, i, j) ==
    ShareOf(graph, {e \in DirectedEdges(graph) : {e[1], graph.near[e[1]][e[2]]} = {i, j}})
Affinities(graph) ==
    LET total == ShareOf(graph, DirectedEdges(graph))
    IN Stored([i \in RowsIn(graph.near) |-> [j \in RowsIn(graph.near) |->
           IF i = j THEN 0 ELSE JoinedShare(graph, i, j) ** Reciprocal(2 * total)]])

SquaredDistance(u, v) == Sum([a \in DOMAIN u |-> (u[a] - v[a]) * (u[a] - v[a])], 1, Len(u))
Q(d2) == Reciprocal(1 + d2)

(* add_sparse_attractive_gradient_f, massive_csr_attraction: each row adds *)
(* its own edges.                                                          *)
Attraction(p, y, i, a) ==
    Sum([j \in RowsIn(y) |-> p[i][j] ** Q(SquaredDistance(y[i], y[j])) ** (y[i][a] - y[j][a])],
        1, Len(y))
WithAttraction(grad, p, y, exaggeration) ==
    PerAxis(y, LAMBDA i, a :
        (grad[i][a] + exaggeration * Attraction(p, y, i, a)) % Prime)

(* compute_sum_q_f: thread t of T sums the rows t, t + T, ... against the  *)
(* rows behind them, twice.                                                *)
StridedSumQ(y, threads) ==
    Sum([t \in 0..threads - 1 |->
            Sum([i \in RowsIn(y) |-> IF (i - 1) % threads # t THEN 0
                 ELSE Sum([j \in RowsIn(y) |-> 2 * Q(SquaredDistance(y[i], y[j]))], i + 1, Len(y))],
                1, Len(y) - 1)],
        0, threads - 1)
-----------------------------------------------------------------------------
(* The transform of fft_1d_t along one axis of an array: the elements in   *)
(* bit-reversed order, then butterflies of growing length.                 *)
RECURSIVE Reversed(_, _)
Reversed(i, size) ==
    IF size = 1 THEN 0 ELSE (i % 2) * (size \div 2) + Reversed(i \div 2, size \div 2)
Twiddles(size, inverse) ==
    LET root == RootOfUnity(size)
    IN [j \in 0..size \div 2 - 1 |-> Power(root, IF inverse THEN (size - j) % size ELSE j)]

RECURSIVE Butterflies(_, _, _, _, _)
Butterflies(values, length, size, stride, twiddles) ==
    IF length > size THEN values
    ELSE LET half == length \div 2
             step(i) == (i \div stride) % length
             upper(v, i) == v[i] + v[i + half * stride] ** twiddles[step(i) * (size \div length)]
             lower(v, i) == v[i - half * stride] - v[i] ** twiddles[(step(i) - half) * (size \div length)]
             joined(v) == [i \in DOMAIN v |-> (IF step(i) < half THEN upper(v, i) ELSE lower(v, i)) % Prime]
         IN From(joined(values), LAMBDA v : Butterflies(v, 2 * length, size, stride, twiddles))

Fft1d(values, size, stride, inverse) ==
    LET digit(i) == (i \div stride) % size
        swapped(v) == [i \in DOMAIN v |-> v[i + (Reversed(digit(i), size) - digit(i)) * stride]]
        turned(v) == From(Twiddles(size, inverse), LAMBDA t : Butterflies(v, 2, size, stride, t))
        scaled(v) == IF inverse THEN [i \in DOMAIN v |-> v[i] ** Reciprocal(size)] ELSE v
    IN From(From(From(values, swapped), turned), scaled)

(* The code transposes between the axes of a plane; here the stride grows. *)
Fft2d(values, size, inverse) == Fft1d(Fft1d(values, size, 1, inverse), size, size, inverse)
Fft3d(values, size, inverse) == Fft1d(Fft2d(values, size, inverse), size, size * size, inverse)
-----------------------------------------------------------------------------
(* Grids: an array of grid^axes cells, numbered along x first.             *)
Digit(c, a, size) == (c \div size ^ (a - 1)) % size
CellAt(place, size) == Sum([a \in DOMAIN place |-> place[a] * size ^ (a - 1)], 1, Len(place))
Padded(values, grid, axes) ==
    Stored([c \in 0..(2 * grid) ^ axes - 1 |->
        IF \E a \in 1..axes : Digit(c, a, 2 * grid) >= grid THEN 0
        ELSE values[CellAt([a \in 1..axes |-> Digit(c, a, 2 * grid)], grid)]])
Cropped(values, grid, axes) ==
    Stored([c \in 0..grid ^ axes - 1 |->
        values[CellAt([a \in 1..axes |-> Digit(c, a, grid)], 2 * grid)]])
Multiplied(f, g) == From(g, LAMBDA h : [c \in DOMAIN f |-> f[c] ** h[c]])
(* The offset an index of a wrapped kernel stands for.                     *)
Wrapped(d, grid) == IF d < grid THEN d ELSE d - 2 * grid
WrappedDistance(c, grid, axes, spacing) ==
    LET offset == [a \in 1..axes |-> Wrapped(Digit(c, a, 2 * grid), grid)]
    IN Sum([a \in 1..axes |-> offset[a] * offset[a]], 1, axes) * spacing * spacing

(* A point's place on a grid: along each axis the first cell of its window *)
(* and its weights in the window, which is 2 or 4 cells wide.              *)
RECURSIVE Product(_, _)
Product(f, a) == IF a = 0 THEN 1 ELSE f[a] ** Product(f, a - 1)
Width(weights) == Len(weights[1])
WindowCells(weights) == Width(weights) ^ Len(weights)
WeightAt(weights, o) ==
    Product([a \in DOMAIN weights |-> weights[a][Digit(o, a, Width(weights)) + 1]], Len(weights))
WindowCell(first, weights, o, size) ==
    CellAt([a \in DOMAIN first |-> first[a] + Digit(o, a, Width(weights))], size)
Interpolated(values, first, weights, size) ==
    Sum([o \in 0..WindowCells(weights) - 1 |->
            values[WindowCell(first, weights, o, size)] ** WeightAt(weights, o)],
        0, WindowCells(weights) - 1)
(* What the points add to a cell, each its amount by its weights.          *)
Deposited(points, amounts, size, axes) ==
    Stored([c \in 0..size ^ axes - 1 |->
        Sum([i \in DOMAIN points |->
                LET inside(a) == Digit(c, a, size) - points[i].first[a] \in 0..Width(points[i].weight) - 1
                    own(a) == points[i].weight[a][Digit(c, a, size) - points[i].first[a] + 1]
                IN IF \A a \in 1..axes : inside(a)
                     THEN amounts[i] ** Product([a \in 1..axes |-> own(a)], axes) ELSE 0],
            1, Len(points))])
-----------------------------------------------------------------------------
(* Repulsion in the plane: compute_gradient_fft_grid_f.                    *)
Low(y, a) == Least({y[i][a] : i \in RowsIn(y)})
High(y, a) == Greatest({y[i][a] : i \in RowsIn(y)})
Span(y) == Greatest({High(y, a) - Low(y, a) : a \in Axes(y)})

(* A grid a little wider than the layout, with whole cells.                *)
Box2(y) ==
    LET span == IF Span(y) = 0 THEN 1 ELSE Span(y)
        spacing == (span + Grid2 - 1) \div (Grid2 - 1)
    IN [spacing |-> spacing,
        lower |-> [a \in Axes(y) |-> (Low(y, a) + High(y, a) - spacing * (Grid2 - 1)) \div 2]]

Point2(u, box) ==
    LET raw(a) == u[a] - box.lower[a]
        cell(a) == Clamped(raw(a) \div box.spacing, 0, Grid2 - 2)
        t(a) == (raw(a) - cell(a) * box.spacing) ** Reciprocal(box.spacing)
    IN [first |-> Stored([a \in DOMAIN u |-> cell(a)]),
        weight |-> Stored([a \in DOMAIN u |-> <<(1 - t(a)) % Prime, t(a)>>])]

(* The kernels of the plane, laid out around zero: the offset -Grid2 is    *)
(* left empty.                                                             *)
Kernel2(spacing, power) ==
    Stored([c \in 0..(2 * Grid2) ^ 2 - 1 |->
        IF \E a \in 1..2 : Digit(c, a, 2 * Grid2) = Grid2 THEN 0
        ELSE Power(Q(WrappedDistance(c, Grid2, 2, spacing)), power)])

(* compute_fft_grid_convolution_workspace_t                                *)
Convolved2(mass, kernel) ==
    LET transformed(v) == Fft2d(v, 2 * Grid2, FALSE)
        back(v) == Fft2d(v, 2 * Grid2, TRUE)
    IN From(From(Multiplied(transformed(Padded(mass, Grid2, 2)), transformed(kernel)), back),
            LAMBDA v : Cropped(v, Grid2, 2))

Fields2(y, points, spacing) ==
    LET mass(amount(_)) == Deposited(points, [i \in RowsIn(y) |-> amount(y[i])], Grid2, 2)
        one(u) == 1
        x(u) == u[1]
        ycoord(u) == u[2]
        q2 == Kernel2(spacing, 2)
    IN [q |-> Convolved2(mass(one), Kernel2(spacing, 1)), q2 |-> Convolved2(mass(one), q2),
        along |-> <<Convolved2(mass(x), q2), Convolved2(mass(ycoord), q2)>>]

SumQ2(y, points, field, threads) ==
    IF Len(y) <= ExactRows THEN StridedSumQ(y, threads)
    ELSE LET read(i) == Interpolated(field, points[i].first, points[i].weight, Grid2)
         IN (Sum([i \in RowsIn(y) |-> read(i)], 1, Len(y)) - Len(y)) % Prime

Repulsion2(y, threads) ==
    LET box == Box2(y)
        push(points, fields) ==
            LET sum == SumQ2(y, points, fields.q, threads)
                at(values, i) == Interpolated(values, points[i].first, points[i].weight, Grid2)
            IN [i \in RowsIn(y) |-> Stored([a \in Axes(y) |->
                   (at(fields.along[a], i) - y[i][a] ** at(fields.q2, i)) ** Reciprocal(sum)])]
    IN From([i \in RowsIn(y) |-> Point2(y[i], box)],
            LAMBDA points : From(Fields2(y, points, box.spacing), LAMBDA fields : push(points, fields)))
-----------------------------------------------------------------------------
(* Repulsion in space: compute_gradient_fft_3d_f.                          *)
Box3(y) ==
    LET spacing == (Span(y) + Grid3 - 5) \div (Grid3 - 5)
        cutoff == (IF Len(y) < WideRows THEN 3 ELSE 2) * spacing
    IN [spacing |-> spacing, cutoff |-> cutoff, near |-> cutoff * cutoff > NearFrom,
        bins |-> Greatest({1, (Grid3 * spacing + cutoff - 1) \div cutoff}),
        lower |-> [a \in Axes(y) |->
            (Low(y, a) + High(y, a) - spacing * (Grid3 - 5)) \div 2 - 2 * spacing]]

CubicWeights(t) ==
    <<(-t) ** (t - 1) ** (t - 2) ** Reciprocal(6), (t + 1) ** (t - 1) ** (t - 2) ** Half,
      (-t - 1) ** t ** (t - 2) ** Half, (t + 1) ** t ** (t - 1) ** Reciprocal(6)>>
CubicSlopes(t) ==
    LET square == t ** t
    IN <<(-3 * square + 6 * t - 2) ** Reciprocal(6), (3 * square - 4 * t - 1) ** Half,
         (-3 * square + 2 * t + 2) ** Half, (3 * square - 1) ** Reciprocal(6)>>

Point3(u, box) ==
    LET raw(a) == u[a] - box.lower[a]
        cell(a) == Clamped(raw(a) \div box.spacing, 1, Grid3 - 3)
        t(a) == (raw(a) - cell(a) * box.spacing) ** Reciprocal(box.spacing)
    IN [first |-> Stored([a \in DOMAIN u |-> cell(a) - 1]),
        weight |-> Stored([a \in DOMAIN u |-> CubicWeights(t(a))]),
        slope |-> Stored([a \in DOMAIN u |-> CubicSlopes(t(a))])]

(* The kernel, made smooth nearer than the cutoff.                         *)
SmoothQ(d2, cutoff) ==
    LET q == Q(cutoff * cutoff)
        delta == d2 - cutoff * cutoff
    IN IF d2 >= cutoff * cutoff THEN Q(d2)
       ELSE q ** (1 - q ** delta + q ** q ** delta ** delta)
SmoothSlope(d2, cutoff) ==
    LET q == Q(cutoff * cutoff) IN -(q ** q) + 2 ** (q ** q ** q ** (d2 - cutoff * cutoff))

Kernel3(box) ==
    Stored([c \in 0..(2 * Grid3) ^ 3 - 1 |->
        SmoothQ(WrappedDistance(c, Grid3, 3, box.spacing), box.cutoff)])

Potential3(y, points, box) ==
    LET transformed(v) == Fft3d(v, 2 * Grid3, FALSE)
        back(v) == Fft3d(v, 2 * Grid3, TRUE)
        mass == Deposited(points, [i \in RowsIn(y) |-> 1], Grid3, 3)
    IN From(From(Multiplied(transformed(Padded(mass, Grid3, 3)), transformed(Kernel3(box))), back),
            LAMBDA v : Cropped(v, Grid3, 3))

(* The weights a point gathers with: its slope along one axis, its weights *)
(* along the others; axis 0 takes the value.                               *)
GatherWeights(point, axis) ==
    [a \in DOMAIN point.weight |-> IF a = axis THEN point.slope[a] ELSE point.weight[a]]

(* What a point reads of its own mass: its gathered and its scattered      *)
(* weights, correlated along each axis, on the kernel seven cells wide.    *)
Correlated(gathered, scattered) ==
    [delta \in 0..6 |->
        Sum([g \in 1..4 |-> IF g - delta + 3 \in 1..4 THEN gathered[g] ** scattered[g - delta + 3] ELSE 0],
            1, 4)]
SelfValue(point, axis, box) ==
    LET squares(o) == Sum([a \in 1..3 |-> (Digit(o, a, 7) - 3) * (Digit(o, a, 7) - 3)], 1, 3)
        value(pairs) ==
            Sum([o \in 0..7 ^ 3 - 1 |->
                    SmoothQ(squares(o) * box.spacing * box.spacing, box.cutoff)
                       ** Product([a \in 1..3 |-> pairs[a][Digit(o, a, 7)]], 3)], 0, 7 ^ 3 - 1)
    IN From([a \in 1..3 |-> Stored(Correlated(GatherWeights(point, axis)[a], point.weight[a]))], value)

(* The pairs nearer than the cutoff, found in a point's bin and the bins   *)
(* around it, put the kernel itself in the place of the smooth one.        *)
Bin(u, a, box) == Clamped((u[a] - box.lower[a]) \div box.cutoff, 0, box.bins - 1)
NearRows(y, i, box) ==
    {j \in RowsIn(y) \ {i} :
        /\ \A a \in Axes(y) : Bin(y[j], a, box) - Bin(y[i], a, box) \in -1..1
        /\ SquaredDistance(y[i], y[j]) < box.cutoff * box.cutoff}
NearValue(y, i, axis, box) ==
    LET gap(j) == SquaredDistance(y[i], y[j])
        value(j) == Q(gap(j)) - SmoothQ(gap(j), box.cutoff)
        steeper(j) == -(Q(gap(j)) ** Q(gap(j))) - SmoothSlope(gap(j), box.cutoff)
        slope(j) == 2 ** steeper(j) ** (y[i][axis] - y[j][axis])
        near == IF box.near THEN NearRows(y, i, box) ELSE {}
        change(j) == IF axis = 0 THEN value(j) ELSE slope(j)
    IN Sum([j \in RowsIn(y) |-> IF j \in near THEN change(j) ELSE 0], 1, Len(y))

(* Value of a row's potential without its own mass, or its slope.          *)
Repulsion3(y) ==
    LET box == Box3(y)
        push(points, potential) ==
            LET others(i, axis) ==
                    Interpolated(potential, points[i].first, GatherWeights(points[i], axis), Grid3)
                       - SelfValue(points[i], axis, box)
                sum == Sum([i \in RowsIn(y) |-> others(i, 0) + NearValue(y, i, 0, box)], 1, Len(y))
            IN [i \in RowsIn(y) |-> Stored([a \in Axes(y) |->
                   Half ** (others(i, a) ** Reciprocal(box.spacing) + NearValue(y, i, a, box))
                        ** Reciprocal(sum)])]
    IN From([i \in RowsIn(y) |-> Point3(y[i], box)],
            LAMBDA points : From(Potential3(y, points, box), LAMBDA potential : push(points, potential)))
-----------------------------------------------------------------------------
(* The exact forces of compute_gradient_pair_symmetric_f: thread t takes   *)
(* the rows t, t + T, ... against the rows behind them into a gradient of  *)
(* its own, which gets both ends of a pair.                                *)
PairPush(y, i, j, a) ==
    LET q == Q(SquaredDistance(y[i], y[j])) IN -(q ** q) ** (y[i][a] - y[j][a])
ThreadPush(y, t, threads, m, a) ==
    Sum([i \in RowsIn(y) |-> IF (i - 1) % threads # t THEN 0
         ELSE IF i = m THEN Sum([j \in RowsIn(y) |-> PairPush(y, i, j, a)], i + 1, Len(y))
         ELSE IF m > i THEN -PairPush(y, i, m, a) ELSE 0], 1, Len(y) - 1)
ExactRepulsion(y, threads) ==
    LET sum == StridedSumQ(y, threads)
        pushed(over) == PerAxis(y, LAMBDA m, a :
            Sum([t \in 0..threads - 1 |-> ThreadPush(y, t, threads, m, a)], 0, threads - 1) ** over)
    IN From(Reciprocal(sum), pushed)
-----------------------------------------------------------------------------
(* The cost of a layout, evaluate_kl_f; only its order matters, so the     *)
(* logarithm is left out.                                                  *)
RowCost(p, y, i, sum) ==
    Sum([j \in RowsIn(y) |-> p[i][j] ** p[i][j] ** (1 + SquaredDistance(y[i], y[j])) ** sum], 1, Len(y))
Cost(p, y, threads) ==
    LET sum == StridedSumQ(y, threads) IN Sum([i \in RowsIn(y) |-> RowCost(p, y, i, sum)], 1, Len(y))

(* The step apply_open_tsne_update_f takes along one axis.  Gains are in   *)
(* fifths; a step is folded to a whole number of at most Reach.            *)
Gained(gain, old, grad, least) ==
    LET next == IF Sign(old) # Sign(Signed(grad)) THEN gain + 1 ELSE (4 * gain) \div 5 + least
    IN IF next < least THEN least ELSE next
AxisStep(old, gain, grad, phase) ==
    LET step == Signed((phase.momentum * old - (phase.rate ** gain ** grad)) % Prime)
    IN ((step + Reach) % (2 * Reach + 1)) - Reach

(* A row's step is no longer than the longest allowed over all its axes.   *)
Clipped(step, longest) ==
    LET squares == SquaredDistance(step, [a \in DOMAIN step |-> 0])
        root(v) == CHOOSE r \in 0..v : r * r >= v /\ (r = 0 \/ (r - 1) * (r - 1) < v)
        shortened(norm) ==
            [a \in DOMAIN step |-> Sign(step[a]) * ((step[a] * Sign(step[a]) * longest) \div norm)]
    IN IF longest = 0 \/ squares <= longest * longest THEN step ELSE From(From(squares, root), shortened)

(* A layout on its way: the points, their last steps and their gains.      *)
Moved(state, grad, phase) ==
    LET steps(gains) == [i \in RowsIn(state.y) |->
            From([a \in Axes(state.y) |-> AxisStep(state.update[i][a], gains[i][a], grad[i][a], phase)],
                 LAMBDA step : Clipped(step, phase.longest))]
        taken(gains, update) ==
            [y |-> PerAxis(state.y, LAMBDA i, a : state.y[i][a] + update[i][a]),
             update |-> update, gains |-> gains]
    IN From([i \in RowsIn(state.y) |-> [a \in Axes(state.y) |->
                Gained(state.gains[i][a], state.update[i][a], grad[i][a], phase.least)]],
            LAMBDA gains : From(steps(gains), LAMBDA update : taken(gains, update)))

(* zero_mean_f; the mean is rounded down.                                  *)
Centered(y) ==
    LET mean(a) == Signed(Sum([i \in RowsIn(y) |-> y[i][a]], 1, Len(y))) \div Len(y)
    IN PerAxis(y, LAMBDA i, a : y[i][a] - mean(a))

-----------------------------------------------------------------------------
(* The reference: every ordered pair on its own.                           *)
AllPairs(y, Pair(_, _)) ==
    Sum([i \in RowsIn(y) |-> Sum([j \in RowsIn(y) |-> Pair(i, j)], 1, Len(y))], 1, Len(y))
DirectSumQ(y) ==
    AllPairs(y, LAMBDA i, j : IF i = j THEN 0 ELSE Q(SquaredDistance(y[i], y[j])))
DirectRepulsion(y) ==
    [i \in RowsIn(y) |-> [a \in Axes(y) |->
        (-Sum([j \in RowsIn(y) |-> Q(SquaredDistance(y[i], y[j])) ** Q(SquaredDistance(y[i], y[j]))
                                   ** (y[i][a] - y[j][a])], 1, Len(y))) ** Reciprocal(DirectSumQ(y))]]

(* A kernel of the squared distance between cells, read between the        *)
(* windows of two points.                                                  *)
Between(K(_), point, gathered, other) ==
    LET width == Width(gathered)
        wide == 2 * width - 1
        along(a) == [d \in 0..wide - 1 |->
            Sum([g \in 1..width |-> IF g - (d - width + 1) \in 1..width
                    THEN gathered[a][g] ** other.weight[a][g - (d - width + 1)] ELSE 0], 1, width)]
        cells(o, a) == point.first[a] - other.first[a] + Digit(o, a, wide) - width + 1
        value(pairs) ==
            Sum([o \in 0..wide ^ Len(point.first) - 1 |->
                    K(Sum([a \in DOMAIN point.first |-> cells(o, a) * cells(o, a)], 1, Len(point.first)))
                       ** Product([a \in DOMAIN pairs |-> pairs[a][Digit(o, a, wide)]], Len(pairs))],
                0, wide ^ Len(point.first) - 1)
    IN From([a \in DOMAIN point.first |-> Stored(along(a))], value)

(* In the plane a pair repels with the kernel between its windows.         *)
PlaneReference(y, exact) ==
    LET box == Box2(y)
        push(points) ==
            LET between(power, i, j) ==
                    LET k(cells) == Power(Q(cells * box.spacing * box.spacing), power)
                    IN Between(k, points[i], points[i].weight, points[j])
                sum == IF exact THEN DirectSumQ(y)
                       ELSE AllPairs(y, LAMBDA i, j : between(1, i, j)) - Len(y)
                pushed(pair, over) == [i \in RowsIn(y) |-> [a \in Axes(y) |->
                   (-Sum([j \in RowsIn(y) |-> pair[i][j] ** (y[i][a] - y[j][a])], 1, Len(y))) ** over]]
            IN From([i \in RowsIn(y) |-> [j \in RowsIn(y) |-> between(2, i, j)]],
                    LAMBDA pair : From(Reciprocal(sum), LAMBDA over : pushed(pair, over)))
    IN From([i \in RowsIn(y) |-> Point2(y[i], box)], push)

(* In space a pair repels with the smooth kernel between its windows and,  *)
(* if nearer than the cutoff, with the kernel itself.                      *)
SpaceReference(y) ==
    LET box == Box3(y)
        smooth(cells) == SmoothQ(cells * box.spacing * box.spacing, box.cutoff)
        gap(i, j) == SquaredDistance(y[i], y[j])
        near(i, j) == box.near /\ gap(i, j) < box.cutoff * box.cutoff
        closer(i, j) == IF near(i, j) THEN Q(gap(i, j)) - SmoothQ(gap(i, j), box.cutoff) ELSE 0
        slope(d2) == 2 ** (-(Q(d2) ** Q(d2)) - SmoothSlope(d2, box.cutoff))
        steeper(i, j, a) == IF near(i, j) THEN slope(gap(i, j)) ** (y[i][a] - y[j][a]) ELSE 0
        push(points) ==
            LET far(i, j, axis) == Between(smooth, points[i], GatherWeights(points[i], axis), points[j])
                sum == AllPairs(y, LAMBDA i, j : IF i = j THEN 0 ELSE far(i, j, 0) + closer(i, j))
                pair(i, j, a) == far(i, j, a) ** Reciprocal(box.spacing) + steeper(i, j, a)
            IN From(Reciprocal(sum), LAMBDA over : PerAxis(y, LAMBDA i, a :
                   Half ** Sum([j \in RowsIn(y) |-> IF i = j THEN 0 ELSE pair(i, j, a)], 1, Len(y)) ** over))
    IN From([i \in RowsIn(y) |-> Point3(y[i], box)], push)
=============================================================================
