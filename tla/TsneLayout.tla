----------------------------- MODULE TsneLayout -----------------------------
(* A t-SNE layout, from the call to the returned points.  The call runs    *)
(*   "memory"    on the threads of the process, with a look at the cost    *)
(*               now and then: knn_tsne_opentsne_float_cpp;                *)
(*   "files"     the same gradient on a graph and a layout in files, with  *)
(*               snapshots: massive_tsne_optimize_cpp;                     *)
(*   "owners"    the files on one device or many, each the owner of a      *)
(*               block of rows: massive_tsne_optimize_cuda_cpp;            *)
(*   "resident"  a graph in memory on many devices:                        *)
(*               knn_tsne_opentsne_cuda_multigpu_cpp;                      *)
(*   "launches"  one device, its iterations captured in graphs of at most  *)
(*               GraphChunk: fastembedr_cuda_opentsne_fft_from_knn_impl;   *)
(*   "diagnose"  no iteration at all, the forces of a layout, exact and    *)
(*               through the grid: opentsne_force_diagnostic_cpp,          *)
(*               tsne_fft_3d_force_diagnostic_cpp.                         *)
(* How a snapshot and its record reach the disk, and what a resume checks, *)
(* is in LayoutSnapshots; here a snapshot is written at once.              *)
EXTENDS TsneDevice, FiniteSets

CONSTANTS
    TsneCalls,    \* the calls made
    EarlyPoll, NormalPoll,  \* iterations between two looks at the cost: 3, 5
    PollAfter,    \* iterations of a phase before it may stop: 15
    Switches,     \* worsenings the early phase lets pass: 2
    SensedRows,   \* rows up to which the cost may end a phase: 5000
    RecordEvery,  \* iterations between two recorded costs: 50
    GraphChunk,   \* iterations of a captured graph: 25
    TsneKills     \* kills of a process, a bound of the model

VARIABLES
    tsne,      \* the call
    stage,     \* where it stands
    contexts,  \* the buffers of each device, of the host if there is none
    at,        \* iterations done in the early and the normal phase
    sensor,    \* what the last look at the cost left
    costs,     \* recorded costs, each with the iteration it is of
    saved,     \* snapshots on disk, a set
    plan,      \* launches to come: the phase and the iterations of each
    turns,     \* edges each device has taken in this iteration, or "failed"
    tally,     \* where this process started, and the edges each device took
    report,    \* the forces of a diagnosis
    kills

tsneVars == <<tsne, stage, contexts, at, sensor, costs, saved, plan, turns, tally, report, kills>>

Total == tsne.early + tsne.normal
Done == at.early + at.normal
Phase(c, name) ==
    [exaggeration |-> c.exaggeration[name], momentum |-> c.momentum[name],
     rate |-> IF c.rate = 0 THEN Len(c.init) ** Reciprocal(c.exaggeration[name]) ELSE c.rate,
     least |-> c.least, longest |-> c.longest]
NameOf(done) == IF done < tsne.early THEN "early" ELSE "normal"
Advanced(name) == [at EXCEPT ![name] = @ + 1]

(* Buffers before the first iteration: no step taken, gains of one.        *)
FreshBuffers(y) ==
    LET all(v) == PerAxis(y, LAMBDA i, a : v)
    IN [y |-> y, grad |-> all(0), update |-> all(0), gains |-> all(5), partial |-> <<>>,
        stats |-> <<>>, kernels |-> <<>>, place |-> <<>>, masses |-> <<>>, fields |-> <<>>,
        rowq |-> <<>>, mean |-> <<>>, box |-> <<>>]
NoSensor == [error |-> 0, num |-> 1, den |-> 0, valid |-> FALSE, switches |-> Switches]

TsneInit ==
    /\ tsne \in TsneCalls /\ stage = "start"
    /\ contexts = <<>> /\ at = [early |-> 0, normal |-> 0]
    /\ sensor = NoSensor /\ costs = <<>> /\ saved = {} /\ plan = <<>> /\ turns = <<>>
    /\ tally = [start |-> 0, edges |-> <<>>] /\ report = <<>> /\ kills = 0
-----------------------------------------------------------------------------
(* On the threads of the process.                                          *)
Repulsion(y, threads) == IF Len(y[1]) = 2 THEN Repulsion2(y, threads) ELSE Repulsion3(y)
HostIterated(b, c, phase) ==
    LET pulled(grad) ==
            From(Affinities(c.graph), LAMBDA p : WithAttraction(grad, p, b.y, phase.exaggeration))
        moved(grad) == Moved([y |-> b.y, update |-> b.update, gains |-> b.gains], grad, phase)
    IN From(From(From(Repulsion(b.y, c.threads), pulled), moved), LAMBDA m :
           [b EXCEPT !.y = Centered(m.y), !.update = m.update, !.gains = m.gains])

AfterEarly(c) == IF c.normal > 0 THEN "normal" ELSE "costs"
StartInMemory ==
    /\ tsne.route = "memory" /\ stage = "start"
    /\ contexts' = <<FreshBuffers(Centered(tsne.init))>>
    /\ stage' = IF tsne.early > 0 THEN "early" ELSE AfterEarly(tsne)
    /\ UNCHANGED <<tsne, at, sensor, costs, saved, plan, turns, tally, report, kills>>

(* A look at the cost.  The early phase ends when the cost has fallen less *)
(* than before more often than it may, the normal one when it hardly       *)
(* changes.  A first error is infinite, and so is the change from none.    *)
Sensing(c) == c.auto /\ Len(c.init) <= SensedRows
Looks(name, iter) == Sensing(tsne) /\ (iter + 1) % (IF name = "early" THEN EarlyPoll ELSE NormalPoll) = 0
Change(cost) ==
    IF sensor.valid /\ sensor.error > 0
      THEN [num |-> sensor.error - cost, den |-> sensor.error] ELSE [num |-> 1, den |-> 0]
Worsens(cost) == Change(cost).num * sensor.den < sensor.num * Change(cost).den
Settles(cost) ==
    LET fall == sensor.error - cost
    IN (IF fall < 0 THEN -fall ELSE fall) * tsne.end < cost * NormalPoll
MayStop(iter) == sensor.valid /\ iter + 1 > PollAfter
StopsAt(name, iter, cost) ==
    MayStop(iter) /\ IF name = "early" THEN Worsens(cost) /\ sensor.switches < 1 ELSE Settles(cost)
Sensed(name, iter, cost) ==
    [error |-> cost, num |-> Change(cost).num, den |-> Change(cost).den, valid |-> TRUE,
     switches |-> sensor.switches - (IF name = "early" /\ MayStop(iter) /\ Worsens(cost) THEN 1 ELSE 0)]

IterateInMemory(name) ==
    /\ tsne.route = "memory" /\ stage = name
    /\ contexts' = <<HostIterated(contexts[1], tsne, Phase(tsne, name))>>
    /\ at' = Advanced(name)
    /\ LET iter == at[name]
           records == tsne.record /\ ((Done + 1) % RecordEvery = 0 \/ Done + 1 = Total)
           looks == Looks(name, iter)
           cost == IF records \/ looks
                     THEN From(Affinities(tsne.graph), LAMBDA p : Cost(p, contexts'[1].y, tsne.threads))
                     ELSE 0
           stops == looks /\ StopsAt(name, iter, cost)
       IN /\ costs' = IF records THEN Append(costs, [at |-> Done + 1, cost |-> cost]) ELSE costs
          /\ sensor' = IF looks /\ ~stops THEN Sensed(name, iter, cost) ELSE sensor
          /\ stage' = IF stops \/ iter + 1 = tsne[name]
                        THEN IF name = "early" THEN AfterEarly(tsne) ELSE "costs" ELSE stage
    /\ UNCHANGED <<tsne, saved, plan, turns, tally, report, kills>>

(* The costs of the rows close the call.                                   *)
FinishInMemory ==
    /\ tsne.route = "memory" /\ stage = "costs" /\ stage' = "done"
    /\ costs' = IF tsne.record
                  THEN Append(costs, [at |-> Done, cost |-> From(Affinities(tsne.graph),
                                          LAMBDA p : Cost(p, contexts[1].y, tsne.threads))])
                  ELSE costs
    /\ UNCHANGED <<tsne, contexts, at, sensor, saved, plan, turns, tally, report, kills>>
-----------------------------------------------------------------------------
(* Graph and layout in files.  A call resumes from the last snapshot, or   *)
(* starts with the given layout, centred.                                  *)
SavesAfter(done) == tsne.every > 0 /\ (done % tsne.every = 0 \/ done = Total)
Latest == CHOOSE s \in saved : \A t \in saved : t.at <= s.at
Resumed(y) ==
    IF saved = {} THEN FreshBuffers(y)
    ELSE [FreshBuffers(y) EXCEPT !.y = Latest.y, !.update = Latest.update, !.gains = Latest.gains]
ResumedAt == IF saved = {} THEN 0 ELSE Latest.at
SplitAt(done) ==
    LET early == Least({done, tsne.early}) IN [early |-> early, normal |-> done - early]
NextStage(done) == IF done = Total THEN "write" ELSE "loop"
Snapshot(b, done) == [at |-> done, y |-> b.y, update |-> b.update, gains |-> b.gains]

StartFromFiles ==
    /\ tsne.route \in {"files", "owners"} /\ stage = "start"
    /\ contexts' = [r \in 1..tsne.devices |-> Resumed(Centered(tsne.init))]
    /\ at' = SplitAt(ResumedAt) /\ stage' = NextStage(ResumedAt)
    /\ tally' = [start |-> ResumedAt, edges |-> [r \in 1..tsne.devices |-> 0]]
    /\ UNCHANGED <<tsne, sensor, costs, saved, plan, turns, report, kills>>

IterateFromFiles ==
    /\ tsne.route = "files" /\ stage = "loop"
    /\ contexts' = <<HostIterated(contexts[1], tsne, Phase(tsne, NameOf(Done)))>>
    /\ at' = Advanced(NameOf(Done)) /\ stage' = NextStage(Done + 1)
    /\ saved' = IF SavesAfter(Done + 1) THEN saved \cup {Snapshot(contexts'[1], Done + 1)} ELSE saved
    /\ UNCHANGED <<tsne, sensor, costs, plan, turns, tally, report, kills>>

(* The process dies, or the user interrupts the call; the snapshots stay.  *)
KillTsne ==
    /\ tsne.every > 0 /\ stage \in {"loop", "attract", "write"} /\ kills < TsneKills
    /\ stage' = "start" /\ kills' = kills + 1
    /\ contexts' = <<>> /\ turns' = <<>> /\ at' = [early |-> 0, normal |-> 0]
    /\ UNCHANGED <<tsne, sensor, costs, saved, plan, tally, report>>
-----------------------------------------------------------------------------
(* One device or many.  Each takes the edges of its rows in batches, whole *)
(* rows of a graph in files, any edges of a graph in memory.               *)
Blocks == [r \in 1..tsne.devices |-> OwnBlock(Len(tsne.init), tsne.devices, r)]
GraphEdges(graph) ==
    {e \in RowsIn(graph.near) \X RowsIn(graph.near) :
        e[1] # e[2] /\ \E d \in DirectedEdges(graph) : {d[1], graph.near[d[1]][d[2]]} = {e[1], e[2]}}
OwnEdges(r) == {e \in GraphEdges(tsne.graph) : e[1] \in OwnRows(Blocks[r])}
EdgesBefore(r, row) == Cardinality({e \in OwnEdges(r) : e[1] <= row})
Place(r, e) == Cardinality({d \in OwnEdges(r) : d[1] < e[1] \/ (d[1] = e[1] /\ d[2] <= e[2])})
BatchEnd(r) ==
    LET most == turns[r] + tsne.capacity
        whole == {EdgesBefore(r, row) : row \in OwnRows(Blocks[r])}
        last == Cardinality(OwnEdges(r))
    IN IF tsne.route = "owners" THEN Greatest({t \in whole : t <= most}) ELSE Least({most, last})
TookAll(r) == turns[r] = Cardinality(OwnEdges(r))
Ended(r) == turns[r] = -1 \/ TookAll(r)

StartResident ==
    /\ tsne.route = "resident" /\ stage = "start" /\ stage' = "loop"
    /\ contexts' = [r \in 1..tsne.devices |-> FreshBuffers(tsne.init)]
    /\ tally' = [start |-> 0, edges |-> [r \in 1..tsne.devices |-> 0]]
    /\ UNCHANGED <<tsne, at, sensor, costs, saved, plan, turns, report, kills>>

Begin ==
    /\ tsne.route \in {"owners", "resident"} /\ stage = "loop" /\ stage' = "attract"
    /\ contexts' = Begun(contexts) /\ turns' = [r \in 1..tsne.devices |-> 0]
    /\ UNCHANGED <<tsne, at, sensor, costs, saved, plan, tally, report, kills>>

Attract(r) ==
    /\ stage = "attract" /\ ~Ended(r)
    /\ LET batch == {e \in OwnEdges(r) : turns[r] < Place(r, e) /\ Place(r, e) <= BatchEnd(r)}
           p == Affinities(tsne.graph)
       IN /\ contexts' = [contexts EXCEPT ![r] =
                 Attracted(@, batch, p, Phase(tsne, NameOf(Done)).exaggeration)]
          /\ tally' = [tally EXCEPT !.edges[r] = @ + Cardinality(batch)]
    /\ turns' = [turns EXCEPT ![r] = BatchEnd(r)]
    /\ UNCHANGED <<tsne, stage, at, sensor, costs, saved, plan, report, kills>>

(* A device fails in its task; the others end theirs, then the call fails. *)
AttractFails(r) ==
    /\ stage = "attract" /\ ~Ended(r) /\ tsne.faulty
    /\ turns' = [turns EXCEPT ![r] = -1]
    /\ UNCHANGED <<tsne, stage, contexts, at, sensor, costs, saved, plan, tally, report, kills>>
Fail ==
    /\ stage = "attract" /\ \A r \in DOMAIN turns : Ended(r)
    /\ \E r \in DOMAIN turns : turns[r] = -1
    /\ stage' = "failed"
    /\ UNCHANGED <<tsne, contexts, at, sensor, costs, saved, plan, turns, tally, report, kills>>

(* The steps of the owners.  A snapshot gathers their last steps and gains.*)
Finish ==
    /\ stage = "attract" /\ \A r \in DOMAIN turns : TookAll(r)
    /\ LET finished == Finished(contexts, Blocks, Len(tsne.init), Phase(tsne, NameOf(Done)))
           due == tsne.route = "owners" /\ SavesAfter(Done + 1)
           gathered == IF due THEN GatheredState(finished, Blocks) ELSE finished
       IN /\ contexts' = gathered
          /\ saved' = IF due THEN saved \cup {Snapshot(contexts'[1], Done + 1)} ELSE saved
    /\ at' = Advanced(NameOf(Done)) /\ stage' = NextStage(Done + 1)
    /\ UNCHANGED <<tsne, sensor, costs, plan, turns, tally, report, kills>>

(* The layout is written, or downloaded, once every owner has taken all    *)
(* edges of its rows in every iteration.                                   *)
Write ==
    /\ stage = "write"
    /\ stage' = IF tsne.route = "owners" /\ tsne.devices > 1
                   /\ \E r \in 1..tsne.devices :
                         tally.edges[r] # Cardinality(OwnEdges(r)) * (Total - tally.start)
                  THEN "failed" ELSE "done"
    /\ UNCHANGED <<tsne, contexts, at, sensor, costs, saved, plan, turns, tally, report, kills>>
-----------------------------------------------------------------------------
(* One device.  The phases are cut into graphs of equal length and a rest; *)
(* where a graph cannot be captured every iteration is a launch of its own.*)
Graphs(name) ==
    LET chunk == Least({GraphChunk, tsne[name]})
        rest == tsne[name] % chunk
    IN IF tsne[name] = 0 THEN <<>>
       ELSE [l \in 1..tsne[name] \div chunk |-> [name |-> name, times |-> chunk]]
              \o (IF rest > 0 THEN <<[name |-> name, times |-> rest]>> ELSE <<>>)
Plain == [l \in 1..Total |-> [name |-> NameOf(l - 1), times |-> 1]]
Capturing == tsne.capture /\ Len(tsne.init[1]) = 2 /\ Total > 1

StartLaunches ==
    /\ tsne.route = "launches" /\ stage = "start" /\ stage' = "launch"
    /\ contexts' = <<FreshBuffers(tsne.init)>>
    /\ \/ Capturing /\ plan' = Graphs("early") \o Graphs("normal")
       \/ (Capturing => tsne.faulty) /\ plan' = Plain
    /\ UNCHANGED <<tsne, at, sensor, costs, saved, turns, tally, report, kills>>

RECURSIVE Times(_, _, _)
Times(b, times, phase) ==
    IF times = 0 THEN b
    ELSE Times(Iterated(b, tsne.graph, DeviceAffinity(tsne.graph), phase), times - 1, phase)
Launch ==
    /\ stage = "launch" /\ plan # <<>>
    /\ contexts' = <<Times(contexts[1], Head(plan).times, Phase(tsne, Head(plan).name))>>
    /\ at' = [at EXCEPT ![Head(plan).name] = @ + Head(plan).times]
    /\ plan' = Tail(plan)
    /\ UNCHANGED <<tsne, stage, sensor, costs, saved, turns, tally, report, kills>>
GraphLaunchFails ==
    /\ stage = "launch" /\ plan # <<>> /\ tsne.faulty /\ stage' = "failed"
    /\ UNCHANGED <<tsne, contexts, at, sensor, costs, saved, plan, turns, tally, report, kills>>
Download ==
    /\ stage = "launch" /\ plan = <<>> /\ stage' = "done"
    /\ UNCHANGED <<tsne, contexts, at, sensor, costs, saved, plan, turns, tally, report, kills>>
-----------------------------------------------------------------------------
(* The forces of a layout, the attraction and both repulsions, each the    *)
(* rest of a gradient without the attraction.                              *)
Forces(y, p, factor, threads) ==
    LET under(push) == WithAttraction(push, p, y, factor)
        rest(total, pull) == PerAxis(y, LAMBDA i, a : (total[i][a] - pull[i][a]) % Prime)
        without(push, pull) == From(From(push, under), LAMBDA f : rest(f, pull))
        found(pull) ==
            [pull |-> pull, exact |-> without(ExactRepulsion(y, threads), pull),
             grid |-> without(Repulsion(y, threads), pull),
             sum |-> StridedSumQ(y, threads), cost |-> Cost(p, y, threads)]
    IN From(From(FreshBuffers(y).grad, under), found)
Diagnose ==
    /\ tsne.route = "diagnose" /\ stage = "start" /\ stage' = "done"
    /\ report' = From(Affinities(tsne.graph),
                      LAMBDA p : Forces(tsne.init, p, tsne.exaggeration.early, tsne.threads))
    /\ UNCHANGED <<tsne, contexts, at, sensor, costs, saved, plan, turns, tally, kills>>

TsneNext ==
    \/ StartInMemory \/ FinishInMemory \/ \E name \in {"early", "normal"} : IterateInMemory(name)
    \/ StartFromFiles \/ IterateFromFiles \/ KillTsne \/ Write
    \/ StartResident \/ Begin \/ Fail \/ Finish
    \/ \E r \in DOMAIN turns : Attract(r) \/ AttractFails(r)
    \/ StartLaunches \/ Launch \/ GraphLaunchFails \/ Download \/ Diagnose
-----------------------------------------------------------------------------
(* The reference: every pair on its own, one iteration after another.      *)
ShareTo(graph, i, j) ==
    Sum([k \in DOMAIN graph.near[i] |-> IF graph.near[i][k] = j THEN graph.share[i][k] ELSE 0],
        1, Len(graph.near[i]))
DirectShare(c, i, j) ==
    LET n == Len(c.init)
        row(a) == Sum([b \in 1..n |-> IF a = b THEN 0 ELSE ShareTo(c.graph, a, b)], 1, n)
        all == Sum([a \in 1..n |-> row(a)], 1, n)
        part(a, b) == ShareTo(c.graph, a, b) ** Reciprocal(IF c.route = "launches" THEN n * row(a) ELSE all)
    IN IF i = j THEN 0 ELSE Half ** (part(i, j) + part(j, i))
DirectShares(c) ==
    Stored([i \in RowsIn(c.init) |-> Stored([j \in RowsIn(c.init) |-> DirectShare(c, i, j)])])

OnHost(c) == c.route \in {"memory", "files", "diagnose"}
DirectForce(c, y) ==
    IF Len(y[1]) = 2 THEN PlaneReference(y, OnHost(c) /\ Len(y) <= ExactRows) ELSE SpaceReference(y)
DirectPull(p, y, i, a) ==
    Sum([j \in RowsIn(y) |-> p[i][j] ** Q(SquaredDistance(y[i], y[j])) ** (y[i][a] - y[j][a])], 1, Len(y))
DirectCost(p, y) ==
    AllPairs(y, LAMBDA i, j : p[i][j] ** p[i][j] ** (1 + SquaredDistance(y[i], y[j]))) ** DirectSumQ(y)

DirectMove(c, p, state, name) ==
    LET phase == Phase(c, name)
        grad(push) == [i \in RowsIn(state.y) |-> [a \in Axes(state.y) |->
            (push[i][a] + phase.exaggeration * DirectPull(p, state.y, i, a)) % Prime]]
        moved(g) == From(phase, LAMBDA f : Moved(state, g, f))
    IN From(From(From(DirectForce(c, state.y), grad), moved),
            LAMBDA m : [m EXCEPT !.y = Centered(m.y)])
RECURSIVE Course(_, _, _, _, _)
Course(c, p, states, early, total) ==
    IF Len(states) > total THEN states
    ELSE From(From(states[Len(states)],
                   LAMBDA s : DirectMove(c, p, s, IF Len(states) <= early THEN "early" ELSE "normal")),
              LAMBDA m : From(Append(states, m), LAMBDA longer : Course(c, p, longer, early, total)))
StartState(c) ==
    LET b == FreshBuffers(IF c.route \in {"launches", "resident"} THEN c.init ELSE Centered(c.init))
    IN [y |-> b.y, update |-> b.update, gains |-> b.gains]

LayoutIsDirect(c, p, course) ==
    /\ \A r \in DOMAIN contexts : contexts[r].y = course[Done + 1].y
    /\ \A s \in saved : Snapshot(course[s.at + 1], s.at) = s
    /\ \A k \in DOMAIN costs : costs[k].cost = DirectCost(p, course[costs[k].at + 1].y)
    /\ IF Sensing(c) THEN at.early <= c.early /\ at.normal <= c.normal
       ELSE at.early = c.early /\ at.normal = c.normal
Agree(forces, direct) ==
    From(direct, LAMBDA f : \A i \in DOMAIN forces : \A a \in DOMAIN forces[i] : forces[i][a] = f[i][a])
ForcesAreDirect(c, p) ==
    /\ Agree(report.exact, DirectRepulsion(c.init)) /\ Agree(report.grid, DirectForce(c, c.init))
    /\ \A i \in RowsIn(c.init), a \in Axes(c.init) :
          report.pull[i][a] = (c.exaggeration.early * DirectPull(p, c.init, i, a)) % Prime
    /\ report.sum = DirectSumQ(c.init) /\ report.cost = DirectCost(p, c.init)

(* A t-SNE call that ends well has moved the points as the sum over all    *)
(* pairs would, iteration after iteration and phase after phase, whatever  *)
(* computed the forces: threads on a grid, kernels in a stream, captured   *)
(* graphs, or devices that own blocks of rows; and wherever the call was   *)
(* stopped and resumed.  Every snapshot and every recorded cost is of the  *)
(* iteration it names.                                                     *)
TsneAsDirect ==
    stage = "done" =>
        From(DirectShares(tsne), LAMBDA p :
            IF tsne.route = "diagnose" THEN ForcesAreDirect(tsne, p)
            ELSE From(From(<<StartState(tsne)>>, LAMBDA start : Course(tsne, p, start, at.early, Done)),
                      LAMBDA course : LayoutIsDirect(tsne, p, course)))
=============================================================================
