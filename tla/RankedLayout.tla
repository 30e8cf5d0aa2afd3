---------------------------- MODULE RankedLayout ----------------------------
(* UMAP and t-SNE over several GPUs.  Every device, a rank, holds a copy   *)
(* of all coordinates and owns a block of rows.  In an epoch one host      *)
(* thread per rank reads the edges of the block in batches and has its     *)
(* device add up what they pull; the sums are exchanged, the owners move   *)
(* their rows, and the rows are exchanged again.  The calls over files     *)
(* record snapshots and start again from the last one; those over a graph  *)
(* in memory do not.                                                       *)
(*                                                                         *)
(* Coordinates are single integers; gradients, gains and steps are integer *)
(* forms of the formulas that keep what each depends on.  The fixed-point  *)
(* sums of UMAP wrap at WordBits bits, as they do at 64 in the code.       *)
EXTENDS Integers, Sequences, FiniteSets, FiniteSetsExt, SequencesExt

CONSTANTS RankedPlans,  \* the calls, see RankedAssumption
          WordBits,     \* width of a fixed-point sum (64)
          MinScale,     \* smallest useful fixed-point scale (256)
          MostScale,    \* largest scale taken, a power of two (2^24)
          MaxCoord,     \* UMAP coordinates are cut off here (16)
          MaxStep,      \* t-SNE steps are cut off here (max_step_norm)
          MaxFailures   \* bound: failures and interrupts of a behaviour

ASSUME RankedAssumption ==
    /\ WordBits \in Nat /\ WordBits > 2
    /\ {MinScale, MostScale, MaxCoord, MaxStep} \subseteq Nat \ {0}
    /\ MaxFailures \in Nat
    /\ \A p \in RankedPlans :
          /\ p.kind \in {"umap", "tsne"} /\ p.store \in {"file", "memory"}
          /\ {p.devices, p.rows, p.epochs, p.capacity, p.chunk} \subseteq Nat \ {0}
          /\ {p.negatives, p.early, p.every} \subseteq Nat
          /\ p.kind = "tsne" => p.devices > 1
          /\ DOMAIN p.edges = 0..p.rows - 1 /\ DOMAIN p.start = 0..p.rows - 1
          /\ \A v \in 0..p.rows - 1 :
                /\ Len(p.edges[v]) <= p.capacity
                /\ \A e \in Range(p.edges[v]) :
                      e.to \in (0..p.rows - 1) \ {v} /\ e.weight \in Nat \ {0}

VARIABLES plan,    \* the arguments of the call and the graph
          host,    \* the calling thread
          ranks,   \* rank -> its thread
          gpus,    \* rank -> the memory of its device and the work queued there
          kept     \* the snapshots and the output on disk

rankedVars == <<plan, host, ranks, gpus, kept>>

Devices == 0..plan.devices - 1
Umap == plan.kind = "umap"
OnFile == plan.store = "file"

(***************************************************************************)
(* Rows, owners and edges.  The last block may have rows past the end.     *)
(***************************************************************************)
BlockRows == (plan.rows - 1) \div plan.devices + 1
Vertices == 0..plan.rows - 1
Padded == 0..BlockRows * plan.devices - 1
OwnerOf(v) == v \div BlockRows
OwnRows(r) == {v \in Padded : OwnerOf(v) = r}
HasRowsEverywhere == plan.rows > (plan.devices - 1) * BlockRows

EdgesOf(v) ==
    [i \in 1..Len(plan.edges[v]) |->
        [head |-> v, tail |-> plan.edges[v][i].to, weight |-> plan.edges[v][i].weight]]
EdgesFrom(first, count) == FlattenSeq([i \in 1..count |-> EdgesOf(first + i - 1)])
EdgeCount == Len(EdgesFrom(0, plan.rows))
MaxWeight == Max({e.weight : e \in Range(EdgesFrom(0, plan.rows))})

(* UMAP leaves out an edge too light to be sampled in any epoch.           *)
Sampled(e) == ~Umap \/ e.weight * plan.epochs >= host.heaviest

(* CsrGraphSource::bounded_rows: as many rows as the batch may have edges. *)
BoundedRows(first, limit) ==
    Max({count \in 1..limit : Len(EdgesFrom(first, count)) <= plan.capacity})

(* Over files a batch is a run of whole rows of the rank, ...              *)
FileBatches(r) ==
    LET own == OwnRows(r) \cap Vertices
        last == Max(own)
        From[first \in 0..plan.rows] ==
            IF first > last THEN <<>>
            ELSE LET count == BoundedRows(first, Min({plan.chunk, plan.rows - first}))
                     taken == Min({count, last - first + 1})
                 IN  <<SelectSeq(EdgesFrom(first, taken), Sampled)>> \o From[first + taken]
    IN  From[Min(own)]

(* ... and over a graph in memory so many edges, wherever a row ends.      *)
MemoryBatches(r) ==
    LET own == OwnRows(r) \cap Vertices
        all == SelectSeq(EdgesFrom(Min(own), Cardinality(own)), Sampled)
        Size == plan.capacity
    IN  [b \in 1..(Len(all) + Size - 1) \div Size |->
            SubSeq(all, (b - 1) * Size + 1, Min({b * Size, Len(all)}))]

(* No device is called for a batch without edges.                          *)
Batches(r) == SelectSeq(IF OnFile THEN FileBatches(r) ELSE MemoryBatches(r), LAMBDA b : b # <<>>)

(***************************************************************************)
(* UMAP: what an edge adds in an epoch, in fixed point.                    *)
(***************************************************************************)
Clip4(x) == IF x > 4 THEN 4 ELSE IF x < -4 THEN -4 ELSE x
Sign(x) == IF x > 0 THEN 1 ELSE IF x < 0 THEN -1 ELSE 0
Fading(g, epoch) == (g * (plan.epochs - epoch)) \div plan.epochs

(* floor(now / period) - floor(previous / period): the samples now due.    *)
PositiveSamples(e, epoch) ==
    IF epoch = 0 THEN 0
    ELSE (epoch * e.weight) \div host.heaviest - ((epoch - 1) * e.weight) \div host.heaviest

(* An edge that is sampled catches up on all negatives owed since then.    *)
NegativeSamples(e, epoch) ==
    IF plan.negatives = 0 \/ PositiveSamples(e, epoch) = 0 THEN 0
    ELSE LET total(t) == (t * e.weight * plan.negatives) \div host.heaviest - 1
             before == {t \in 0..epoch - 1 : PositiveSamples(e, t) > 0}
         IN  total(epoch) - (IF before = {} THEN 0 ELSE total(Max(before)))

(* deterministic_vertex: the same point on every device and in every call. *)
DrawnVertex(e, epoch, s) == (3 * epoch + 5 * e.head + 7 * e.tail + 2 * s) % plan.rows

Pulls(layout, e, epoch) ==
    LET pull == Fading(Clip4(layout[e.tail] - layout[e.head]), epoch)
    IN  <<[row |-> e.head, by |-> pull], [row |-> e.tail, by |-> -pull]>>
Pushes(layout, e, epoch) ==
    LET drawn == [s \in 1..NegativeSamples(e, epoch) |-> DrawnVertex(e, epoch, s)]
        apart(v) == Clip4(4 * Sign(layout[e.head] - layout[v]))
        others == SelectSeq(drawn, LAMBDA v : v \notin {e.head, e.tail})
    IN  [s \in 1..Len(others) |-> [row |-> e.head, by |-> Fading(apart(others[s]), epoch)]]
Contributions(layout, e, epoch) ==
    IF PositiveSamples(e, epoch) = 0 THEN <<>>
    ELSE Pulls(layout, e, epoch) \o Pushes(layout, e, epoch)

(* The scale leaves room for every contribution of the call in one word.   *)
Scale ==
    LET most == EdgeCount * (1 + plan.epochs * plan.negatives)
        limit == (2 ^ (WordBits - 1) - most) \div (8 * most)
        powers == {2 ^ b : b \in 0..WordBits}
    IN  IF limit < MinScale THEN 0
        ELSE Max({s \in powers : s <= Min({limit, MostScale})})

AddedInWord(sum, c) == [sum EXCEPT ![c.row] = (@ + c.by * host.scale) % 2 ^ WordBits]
Signed(bits) == IF bits < 2 ^ (WordBits - 1) THEN bits ELSE bits - 2 ^ WordBits
CutOff(x) == Max({-MaxCoord, Min({MaxCoord, x})})

(***************************************************************************)
(* t-SNE: gradients and steps.                                             *)
(***************************************************************************)
Exaggeration(iter) == IF iter < plan.early THEN 2 ELSE 1
LearningRate(iter) == plan.rows \div Exaggeration(iter)
Momentum(iter) == IF iter < plan.early THEN 1 ELSE 2

(* The FFT sees the coordinates of all rows.                               *)
Repulsion(layout) ==
    [v \in Padded |-> IF v \in Vertices
                      THEN -MapThenSumSet(LAMBDA w : Sign(layout[v] - layout[w]), Vertices)
                      ELSE 0]
Attraction(layout, e, iter) ==
    [row |-> e.head, by |-> Exaggeration(iter) * e.weight * (layout[e.head] - layout[e.tail])]

(* One row: its gain, its step and where it goes.                          *)
Gain(gain, old, g) ==
    Max({1, IF Sign(old) # Sign(g) THEN gain + 1 ELSE (4 * gain) \div 5 + 1})
Shift(gain, old, g, iter) ==
    LET step == Momentum(iter) * old - LearningRate(iter) * gain * g
    IN  Max({-MaxStep, Min({MaxStep, step})})


(***************************************************************************)
(* A device runs what is queued on its stream, one operation after another *)
(* and by itself; an exchange waits until it is next on every device.      *)
(***************************************************************************)
Zero == [v \in Padded |-> 0]
FreshDevice(layout) ==
    [layout |-> layout, sum |-> Zero, update |-> Zero, gains |-> [v \in Padded |-> 1],
     mean |-> 0, queue |-> <<>>]

AddEdges(d, batch, epoch) ==
    IF Umap
    THEN LET all == FlattenSeq([i \in DOMAIN batch |-> Contributions(d.layout, batch[i], epoch)])
         IN  [d EXCEPT !.sum = FoldLeft(AddedInWord, @, all)]
    ELSE LET Add(sum, e) == LET a == Attraction(d.layout, e, epoch) IN [sum EXCEPT ![a.row] = @ + a.by]
         IN  [d EXCEPT !.sum = FoldLeft(Add, @, batch)]

(* UMAP: the owner moves all rows of its block, those past the end too.    *)
ApplySums(d, rows) ==
    [d EXCEPT !.layout = [v \in Padded |->
        IF v \in rows THEN CutOff(@[v] + Signed(d.sum[v]) \div host.scale) ELSE @[v]]]

(* t-SNE: the owner moves the rows there are, and adds them up.            *)
MoveRows(d, rows, iter) ==
    LET gain == [v \in rows |-> Gain(d.gains[v], d.update[v], d.sum[v])]
        step == [v \in rows |-> Shift(gain[v], d.update[v], d.sum[v], iter)]
        layout == [v \in Padded |-> IF v \in rows THEN d.layout[v] + step[v] ELSE d.layout[v]]
    IN  [d EXCEPT !.layout = layout,
                  !.gains = [v \in Padded |-> IF v \in rows THEN gain[v] ELSE @[v]],
                  !.update = [v \in Padded |-> IF v \in rows THEN step[v] ELSE @[v]],
                  !.mean = MapThenSumSet(LAMBDA v : layout[v], rows)]
CenterRows(d, rows) ==
    [d EXCEPT !.layout = [v \in Padded |-> IF v \in rows THEN @[v] - d.mean \div plan.rows ELSE @[v]]]

Ran(d, r, work) ==
    CASE work.op = "clear" -> [d EXCEPT !.sum = Zero]
      [] work.op = "repulse" -> [d EXCEPT !.sum = Repulsion(d.layout)]
      [] work.op = "edges" -> AddEdges(d, work.batch, work.epoch)
      [] work.op = "apply" -> ApplySums(d, OwnRows(r))
      [] work.op = "move" -> MoveRows(d, OwnRows(r) \cap Vertices, work.epoch)
      [] work.op = "center" -> CenterRows(d, OwnRows(r) \cap Vertices)

(* ncclReduceScatter leaves the sum of all ranks in the own block only, in *)
(* place, ncclAllReduce on every rank; ncclAllGather copies every block to *)
(* all ranks.                                                              *)
Exchanged(r, op) ==
    LET d == gpus[r]
        OwnersOf(field) == [v \in Padded |-> field[OwnerOf(v)][v]]
    IN  CASE op = "reduce" ->
                [d EXCEPT !.sum = [v \in Padded |->
                    IF v \notin OwnRows(r) THEN @[v]
                    ELSE LET all == MapThenSumSet(LAMBDA o : gpus[o].sum[v], Devices)
                         IN  IF Umap THEN all % 2 ^ WordBits ELSE all]]
          [] op = "mean" -> [d EXCEPT !.mean = MapThenSumSet(LAMBDA o : gpus[o].mean, Devices)]
          [] op = "layout" -> [d EXCEPT !.layout = OwnersOf([o \in Devices |-> gpus[o].layout])]
          [] op = "update" -> [d EXCEPT !.update = OwnersOf([o \in Devices |-> gpus[o].update])]
          [] op = "gains" -> [d EXCEPT !.gains = OwnersOf([o \in Devices |-> gpus[o].gains])]
Exchanges == {"reduce", "mean", "layout", "update", "gains"}

Queued(works) == [r \in Devices |-> [gpus[r] EXCEPT !.queue = @ \o works[r]]]
OnAll(works) == Queued([r \in Devices |-> works])
Idle(r) == gpus[r].queue = <<>>
AllIdle == \A r \in Devices : Idle(r)
Work(op, epoch) == [op |-> op, epoch |-> epoch]

(***************************************************************************)
(* Snapshots.  Rank 0 is read, whatever the owners hold.                   *)
(***************************************************************************)
OfRows(field) == [v \in Vertices |-> field[v]]
State(d) ==
    IF Umap THEN [layout |-> OfRows(d.layout)]
    ELSE [layout |-> OfRows(d.layout), update |-> OfRows(d.update), gains |-> OfRows(d.gains)]

Centered(start) ==
    LET mean == MapThenSumSet(LAMBDA v : start[v], Vertices) \div plan.rows
    IN  [v \in Vertices |-> start[v] - mean]
InitialRows == IF ~Umap /\ OnFile THEN Centered(plan.start) ELSE plan.start
InPadded(rows, other) == [v \in Padded |-> IF v \in Vertices THEN rows[v] ELSE other]

(* massive_tsne_cuda_load takes all three fields of a snapshot.            *)
Loaded ==
    LET fresh == FreshDevice(InPadded(InitialRows, 0))
    IN  IF kept.epoch = 0 THEN fresh
        ELSE IF Umap THEN [fresh EXCEPT !.layout = InPadded(kept.state.layout, 0)]
        ELSE [fresh EXCEPT !.layout = InPadded(kept.state.layout, 0),
                           !.update = InPadded(kept.state.update, 0),
                           !.gains = InPadded(kept.state.gains, 1)]

(***************************************************************************)
(* The calling thread.                                                     *)
(***************************************************************************)
RankedInit ==
    /\ plan \in RankedPlans
    /\ host = [pc |-> "create", epoch |-> 0, joined |-> 0, live |-> FALSE, stops |-> 0,
             heaviest |-> 0, scale |-> 0]
    /\ ranks = [r \in Devices |-> [pc |-> "none", batch |-> 1]]
    /\ gpus = [r \in Devices |-> FreshDevice(Zero)]
    /\ kept = [epoch |-> 0, state |-> [layout |-> InitialRows], output |-> <<>>]

GoTo(pc) == host' = [host EXCEPT !.pc = pc]

(* Every device must own rows, and UMAP needs a scale.                     *)
Create ==
    /\ host.pc = "create"
    /\ IF HasRowsEverywhere /\ (Umap => Scale > 0)
       THEN host' = [host EXCEPT !.pc = "begin", !.live = TRUE, !.epoch = kept.epoch,
                                 !.heaviest = MaxWeight, !.scale = Scale]
            /\ gpus' = [r \in Devices |-> Loaded]
       ELSE GoTo("refused") /\ UNCHANGED gpus
    /\ UNCHANGED <<plan, ranks, kept>>

(* UMAP clears the sums and waits.  t-SNE only queues its first work: rank *)
(* 0 computes the repulsion of all rows, which stands for clearing there.  *)
Begin ==
    /\ host.pc = "begin" /\ host.epoch < plan.epochs
    /\ GoTo(IF Umap THEN "cleared" ELSE "spawn")
    /\ gpus' = Queued([r \in Devices |->
                  <<Work(IF ~Umap /\ r = 0 THEN "repulse" ELSE "clear", host.epoch)>>])
    /\ UNCHANGED <<plan, ranks, kept>>
Cleared ==
    /\ host.pc = "cleared" /\ AllIdle
    /\ GoTo("spawn") /\ UNCHANGED <<plan, ranks, gpus, kept>>

Spawn ==
    /\ host.pc = "spawn"
    /\ host' = [host EXCEPT !.pc = "join", !.joined = 0]
    /\ ranks' = [r \in Devices |-> [pc |-> "reading", batch |-> 1]]
    /\ UNCHANGED <<plan, gpus, kept>>

(* pending[rank].get(): one rank after the other, until one has failed.    *)
(* Mutated form: the exception that a thread left is not seen.             *)
JoinBlind ==
    /\ host.pc = "join"
    /\ IF host.joined = plan.devices THEN GoTo("finish")
       ELSE ranks[host.joined].pc = "done" /\ host' = [host EXCEPT !.joined = @ + 1]
    /\ UNCHANGED <<plan, ranks, gpus, kept>>
Join ==
    /\ host.pc = "join"
    /\ IF host.joined = plan.devices THEN GoTo("finish")
       ELSE \/ ranks[host.joined].pc = "done" /\ host' = [host EXCEPT !.joined = @ + 1]
            \/ ranks[host.joined].pc = "failed" /\ GoTo("unwind")
    /\ UNCHANGED <<plan, ranks, gpus, kept>>

(* finish_epoch: UMAP waits between the exchange of the sums and the move. *)
Finish ==
    /\ host.pc = "finish"
    /\ IF Umap THEN GoTo("move") /\ gpus' = OnAll(<<Work("reduce", host.epoch)>>)
       ELSE GoTo("moved") /\ gpus' = OnAll(<<Work("reduce", host.epoch), Work("move", host.epoch),
                Work("mean", host.epoch), Work("center", host.epoch), Work("layout", host.epoch)>>)
    /\ UNCHANGED <<plan, ranks, kept>>
Move ==
    /\ host.pc = "move" /\ AllIdle
    /\ GoTo("moved") /\ gpus' = OnAll(<<Work("apply", host.epoch), Work("layout", host.epoch)>>)
    /\ UNCHANGED <<plan, ranks, kept>>

GatherDue(epoch) == OnFile /\ plan.every > 0 /\ (epoch % plan.every = 0 \/ epoch = plan.epochs)
Moved ==
    /\ host.pc = "moved" /\ AllIdle
    /\ host' = [host EXCEPT !.epoch = @ + 1,
                            !.pc = IF GatherDue(host.epoch + 1) THEN "gather" ELSE "begin"]
    /\ UNCHANGED <<plan, ranks, gpus, kept>>

(* massive_tsne_multigpu_gather_state: only the owners know the updates    *)
(* and the gains of their rows.                                            *)
(* Mutated form: the snapshot is written from rank 0 as it is.             *)
GatherNothing == <<>>
StateExchanges == IF Umap THEN <<>> ELSE <<Work("update", host.epoch), Work("gains", host.epoch)>>
Gather ==
    /\ host.pc = "gather"
    /\ GoTo("write") /\ gpus' = OnAll(StateExchanges)
    /\ UNCHANGED <<plan, ranks, kept>>

(* The snapshot, and the callback that records it.                         *)
Write ==
    /\ host.pc = "write" /\ AllIdle
    /\ GoTo("begin")
    /\ kept' = [kept EXCEPT !.epoch = host.epoch, !.state = State(gpus[0])]
    /\ UNCHANGED <<plan, ranks, gpus>>

Output ==
    /\ host.pc = "begin" /\ host.epoch = plan.epochs
    /\ host' = [host EXCEPT !.pc = "returned", !.live = FALSE]
    /\ kept' = [kept EXCEPT !.output = OfRows(gpus[0].layout)]
    /\ UNCHANGED <<plan, ranks, gpus>>

(* A device error, an interrupt or a failed write or callback ends the     *)
(* call.  The futures of a call that failed wait for their threads before  *)
(* the memory of the devices goes, with whatever is still queued.          *)
Stop ==
    /\ host.stops < MaxFailures
    /\ host.pc \in {"begin", "cleared", "spawn", "finish", "move", "moved", "gather", "write"}
    /\ host' = [host EXCEPT !.pc = "unwind", !.stops = @ + 1]
    /\ UNCHANGED <<plan, ranks, gpus, kept>>

(* Mutated form: nothing waits for the threads of a call that failed.      *)
NobodyWaits == TRUE
RanksEnded == \A r \in Devices : ranks[r].pc \notin {"reading", "waiting"}
Unwind ==
    /\ host.pc = "unwind" /\ RanksEnded
    /\ host' = [host EXCEPT !.pc = "failed", !.live = FALSE]
    /\ gpus' = [r \in Devices |-> FreshDevice(Zero)]
    /\ UNCHANGED <<plan, ranks, kept>>

(* A call over files starts again from the recorded snapshot.              *)
CallAgain ==
    /\ host.pc = "failed" /\ OnFile
    /\ host' = [host EXCEPT !.pc = "create"]
    /\ ranks' = [r \in Devices |-> [pc |-> "none", batch |-> 1]]
    /\ UNCHANGED <<plan, gpus, kept>>

(***************************************************************************)
(* The thread of a rank, and its device.                                   *)
(***************************************************************************)
AtBatch(r) == ranks[r].batch <= Len(Batches(r))
Owned(r, batch) == \A e \in Range(batch) : e.head \in OwnRows(r) /\ e.tail \in Vertices

ReadBatch(r) ==
    /\ ranks[r].pc = "reading"
    /\ IF ~AtBatch(r) THEN ranks' = [ranks EXCEPT ![r].pc = "done"] /\ UNCHANGED gpus
       ELSE LET batch == Batches(r)[ranks[r].batch]
            IN  IF Owned(r, batch)
                THEN /\ ranks' = [ranks EXCEPT ![r].pc = "waiting"]
                     /\ gpus' = [gpus EXCEPT ![r].queue = Append(@,
                                    [op |-> "edges", epoch |-> host.epoch, batch |-> batch])]
                ELSE ranks' = [ranks EXCEPT ![r].pc = "failed"] /\ UNCHANGED gpus
    /\ UNCHANGED <<plan, host, kept>>
BatchDone(r) ==
    /\ ranks[r].pc = "waiting" /\ Idle(r)
    /\ ranks' = [ranks EXCEPT ![r] = [pc |-> "reading", batch |-> @.batch + 1]]
    /\ UNCHANGED <<plan, host, gpus, kept>>
RankFails(r) ==
    /\ ranks[r].pc \in {"reading", "waiting"} /\ host.stops < MaxFailures
    /\ ranks' = [ranks EXCEPT ![r].pc = "failed"]
    /\ host' = [host EXCEPT !.stops = @ + 1]
    /\ UNCHANGED <<plan, gpus, kept>>

DeviceRuns(r) ==
    /\ ~Idle(r) /\ Head(gpus[r].queue).op \notin Exchanges
    /\ gpus' = [gpus EXCEPT ![r] = [Ran(@, r, Head(@.queue)) EXCEPT !.queue = Tail(@)]]
    /\ UNCHANGED <<plan, host, ranks, kept>>
DevicesExchange ==
    /\ \A r \in Devices : ~Idle(r)
    /\ \E op \in Exchanges :
          /\ \A r \in Devices : Head(gpus[r].queue).op = op
          /\ gpus' = [r \in Devices |-> [Exchanged(r, op) EXCEPT !.queue = Tail(@)]]
    /\ UNCHANGED <<plan, host, ranks, kept>>

HostDoes ==
    Create \/ Begin \/ Cleared \/ Spawn \/ Join \/ Finish \/ Move \/ Moved \/ Gather \/ Write
    \/ Output \/ Unwind
RankDoes(r) == ReadBatch(r) \/ BatchDone(r)
RankedNext ==
    \/ HostDoes \/ Stop \/ CallAgain \/ DevicesExchange
    \/ \E r \in Devices : RankDoes(r) \/ RankFails(r) \/ DeviceRuns(r)

(***************************************************************************)
(* Properties.                                                             *)
(***************************************************************************)
Total(s) == FoldLeft(LAMBDA a, b : a + b, 0, s)

(* One device that holds everything, without words that wrap: the state    *)
(* after so many epochs.                                                   *)
SerialEpoch(d, epoch) ==
    LET edges == EdgesFrom(0, plan.rows)
        sampled == SelectSeq(edges, Sampled)
        all == FlattenSeq([i \in DOMAIN sampled |-> Contributions(d.layout, sampled[i], epoch)])
        given(v) == Total([i \in DOMAIN all |-> IF all[i].row = v THEN all[i].by ELSE 0])
        pulled(v) == Total([i \in DOMAIN edges |->
                        IF edges[i].head = v THEN Attraction(d.layout, edges[i], epoch).by ELSE 0])
    IN  IF Umap THEN [d EXCEPT !.layout = [v \in Padded |->
                        IF v \in Vertices THEN CutOff(@[v] + given(v)) ELSE @[v]]]
        ELSE CenterRows(MoveRows([d EXCEPT !.sum = [v \in Padded |->
                            IF v \in Vertices THEN Repulsion(d.layout)[v] + pulled(v) ELSE 0]],
                        Vertices, epoch), Vertices)
Serial(epochs) ==
    FoldLeft(SerialEpoch, FreshDevice(InPadded(InitialRows, 0)), [i \in 1..epochs |-> i - 1])

(* After every epoch all devices hold the coordinates that one device      *)
(* would have computed, whatever the batches, the order in which the       *)
(* threads and devices worked and the calls that failed before; so does    *)
(* the output, and a recorded snapshot holds the whole state of its epoch, *)
(* also what only the owners of the rows knew.                             *)
RanksActAsOne ==
    /\ host.live /\ host.pc \in {"begin", "gather"} =>
          LET serial == Serial(host.epoch)
          IN  /\ \A r \in Devices : OfRows(gpus[r].layout) = OfRows(serial.layout)
              /\ host.pc = "begin" /\ kept.epoch > 0 /\ kept.epoch = host.epoch =>
                    kept.state = State(serial)
    /\ host.pc = "returned" => kept.output = OfRows(Serial(plan.epochs).layout)

(* When a call has ended, no thread of its ranks and no operation of a     *)
(* device still uses the memory that was freed.                            *)
NothingOutlivesCall ==
    ~host.live => /\ \A r \in Devices : ranks[r].pc \notin {"reading", "waiting"}
                  /\ AllIdle

RankedEnded == host.pc \in {"returned", "refused", "failed"}
=============================================================================
