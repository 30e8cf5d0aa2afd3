# fastEmbedR: TLA+ models, model checking and proofs

fastEmbedR is an R package with native code that computes nearest-neighbour
graphs, PCA, UMAP and t-SNE layouts and graph clusterings, on the CPU, on CUDA
and on Metal. This project models three sides of it:

* the *full-data* side: jobs that run for hours on matrices that do not fit into
  memory, write their results to files piece by piece, keep checkpoints and are
  expected to survive a kill, an error or a changed input at any moment;
* the *parallel* side: pools of threads, threaded optimizers, index builds,
  graph builders and clusterings, and layouts and projections over several GPUs;
* the *exact* side: algorithms whose result has a definition of its own (nearest
  rows, a merged graph, a partition, a dendrogram, a score), on every route that
  computes it.

Everything here is written from the source. The package's state and operations
keep the names the source gives them; `PROJECT.json` maps every definition to
the lines it models.

## 1. Inventory

### Components and their state

| component | where | state it keeps | modules |
| --- | --- | --- | --- |
| streamed KNN writer | `R/massive_knn.R` | two `.part` files, their final files, a sidecar; connections with buffered rows | `KnnStream` |
| sharded KNN graph | `R/massive_knn.R`, `src/massive_graph_merge.cpp` | the same files, rewritten in place once per reference shard | `ShardedKnn` |
| external edge sort | `R/massive_graph.R`, `src/massive_matrix.cpp` | a work directory of sorted runs, a sidecar, CSR `.part` files, a manifest; or bucket files and the shrinking table | `GraphSort`, `GraphBuckets` |
| layout optimizers | `R/massive_umap_optimizer.R`, `R/massive_tsne_optimizer.R`, `src/massive_matrix.cpp` | output (mapped or resident), one snapshot per recorded epoch, a sidecar | `LayoutSnapshots`, `LayoutWorkers` |
| coordinated multi-GPU layouts | `src/massive_matrix.cpp`, `src/embedding_cuda_kernels.cpp` | rank threads, device memory and queues, snapshots | `RankedLayout` |
| one-call pipeline | `R/full_backed_pipeline.R`, `R/full_backed_recovery.R` | a record of completed stages and the identity of their files | `FullBackedPipeline` |
| checkpointed PCA | `R/massive_pca.R`, `src/massive_matrix.cpp` | partial sums of every worker, the row they reach, scores, a manifest | `StreamedPca` |
| posting lists | `R/massive_postings.R`, `src/massive_graph_reorder.cpp` | list files, positions, offsets, a work directory, a graph | `Postings` |
| projection of query rows | `src/tsne_neighbors.cpp`, `src/embedding_cuda_*` | a persistent projector's buffers, a batch's momentum and gains | `QueryRows` |
| clustering | `src/graph_clustering*.{cpp,h,cu}`, `R/massive_louvain_level.R`, `R/massive_leiden.R` | labels, community totals, levels | `Partitions`, `Clustering` |
| Walktrap | `src/walktrap.cpp` | communities, distances, a heap, the merges | `Walktrap` |
| HNSW index | `src/native_knn_hnsw.cpp` | links, levels, visit table, the crew's job | `Hnsw` |
| nearest-row searches | `src/native_knn*.cpp`, `src/embedding_cuda_kernels.cpp` | a kept CPU or CUDA index and its probes | `NearestRows` |
| in-memory UMAP | `src/fast_knn_umap.cpp`, `src/embedding_cuda_*` | slots and rows of the graph; schedules, stripes and sums of the threads | `UmapGraph`, `LayoutWorkers` |
| t-SNE layouts | `src/tsne_neighbors.cpp`, `src/tsne_fft_3d.h`, `src/embedding_cuda_kernels.cpp`, `src/massive_matrix.cpp` | the pool of threads; points, steps and gains; a grid and its transforms; device buffers and launches; snapshots | `WorkerPool`, `TsneForces`, `TsneDevice`, `TsneLayout` |
| evaluation of layouts | `src/embedding_utils.cpp`, `src/embedding_cuda_kernels.cpp`, `R/metrics.R` | totals of every worker | `Evaluation` |
| device coordinator | `R/massive_multigpu.R` | one job directory and R process per device | not modelled |
| UMAP memberships | `R/massive_graph.R`, `src/massive_matrix.cpp` | `.weights.f32.part`, a sidecar with a stage and a partial sum | not modelled |
| cluster workflow | `R/massive_cluster_workflow.R`, `R/massive_cluster_checkpoint.R`, `R/massive_walktrap.R` | level files, candidate sidecars | not modelled |
| GPU streamed clustering, Metal kernels, R front end, generated bindings | | none between calls | not modelled |

### Interactions

The one-call pipeline calls the KNN search, the memberships, the graph sort, an
initialization and an optimizer one after another. They communicate only through
files: a stage hands the paths and identities of what it has written to the next
one. Inside a stage the R code and the native code share files too: the native
optimizer writes a snapshot and calls back into R, which replaces the sidecar.
Every sidecar is replaced by `massive_checkpoint_write`
(`R/massive_checkpoint.R`): written under a temporary name and renamed, so a
reader sees the old state or the new one. Each is signed with a digest of the
inputs, the controls and the code; a call whose digest differs stops.

Inside a native call threads share arrays without locks where each has rows or
stripes of its own, with atomic additions where they meet, and with barriers or
a condition variable between phases. GPU routes split rows over devices whose
queues run on their own; they meet in collectives that a failing rank would
leave the others waiting in.

### What is hard

* **Crashes.** The process can be killed between any two file operations, and
  between the writes of two files that belong together. R errors and user
  interrupts run `on.exit` code first. Afterwards the *next* call decides from
  the files alone whether it may go on.
* **Stale state.** A source file is read for hours after its identity was
  recorded; an index that answered the first rows is gone and a rebuilt one
  answers the rest; a stage recorded last week is skipped today; a buffer still
  holds the momentum of the batch before.
* **In-place updates.** Later reference shards and mapped layouts overwrite data
  that is already committed.
* **Ordering.** Flush before sidecar, sidecar before unlink, record before
  removal. Each order is one line and no test interrupts between two of them.
* **Refusal.** The code prefers to stop. A sequence of legal calls that ends in
  files no call accepts has lost the work.
* **Interleaving.** A thread that reports late, sleeps through a wake-up, slips
  through a barrier or adds to a sum that is being cleared gives a result that
  looks right.
* **Boundaries.** Last short batches, commit intervals that do not divide the
  batches, chunks that do not divide the rows, copies of a row, full rows of a
  fixed-width graph, sums that wrap.

`PROJECT.json` lists the hazards one by one at their lines.

### What makes each component correct

* Writers with a record: what is counted as committed is on disk, of one version
  of the inputs; a published result is complete and equals that of an
  uninterrupted call; recorded work can always be continued.
* Pipeline: the record never runs ahead of the disk; a fit has one lineage.
* Pools and optimizers: every item is done once, no addition is lost, no thread
  works on a call that is over, every call returns, an error comes out.
* Several devices: they compute what one would, and leave nothing behind.
* Algorithms: each route computes what the definition says.

## 2. Plan

Done, in this order: `CommittedLog`, `KnnStream`, `LayoutSnapshots`,
`FullBackedPipeline`, `ShardedKnn` and `GraphSort`, all with proofs; then the
algorithms and threads (`Partitions`, `Clustering`, `Hnsw`, `LayoutWorkers`,
`WorkerPool`, the last two with proofs, `UmapGraph`, `GraphBuckets`, `NearestRows`), the long
calls over rows (`RankedLayout` and `Postings` with proofs, `Walktrap`,
`QueryRows`, `Evaluation`), `StreamedPca` with proofs, and the forces and the
drivers of t-SNE (`TsneForces`, `TsneDevice`, `TsneLayout`).

Left, most useful first: the sidecar of the UMAP memberships and the coordinator
of the multi-GPU search; the batches and part files of
`R/massive_projection.R`; the record between the levels of a full-graph
clustering; the streamed PCA routes over several GPUs; the search of the t-SNE
perplexities.

Proofs left: the devices of `RankedLayout` (`RanksActAsOne`).
`Partitions`, `Clustering`, `Hnsw`, `Walktrap` and the other algorithms are
recursive over data, which the prover cannot do; they stay with the model
checker.

## 3. The modules

Two kinds of machine occur. In the *disk* machines (`KnnStream`, `ShardedKnn`,
`GraphSort`, `GraphBuckets`, `LayoutSnapshots`, `FullBackedPipeline`,
`StreamedPca`, `Postings`) one part of the state is what a kill leaves behind and
the other what it takes away. One call runs at a time; its control point `pc` is
`"idle"` between calls, and one action stands for the code from one point at
which the process may stop visibly to the next: from one file operation to the
next, never longer. `mode` is how the call was made: `"plain"` without a
checkpoint, `"new"` with one, `"resume"` to go on from one. A refused call
changes nothing on disk; where its checks come first it is a stuttering step,
where they come later it is an action that ends the call. Files are not bytes: a
module keeps what its properties tell apart, and the source files are a version
number that another program may raise at any control point (a checkpoint
signature is then the version it was computed from).

In the *thread* machines (`Clustering`, `Hnsw`, `LayoutWorkers`, `WorkerPool`,
`UmapGraph`, `NearestRows`, `RankedLayout`, `QueryRows`, `Evaluation`) an action
is one thread's work on what no other thread can see until its next access to
shared memory: an atomic addition with compare-and-swap is a read and a write, a
wait on a condition variable is a step that may also wake for no reason, a
device runs its queue on its own. What one of several equal choices decides (a
random order, a tie in a library's answer, a rounded comparison) is a choice of
the model.

### CommittedLog: what a writer promises

A log of rows that only grows, whose rows are never rewritten, and that is
published once, when it is complete. `KnnStream` and `FullBackedPipeline` are
shown to implement it (`KeepsCommittedLog`): the log is the committed rows, or
the recorded stages; `Valid` says that the rows are paired, of one version, of
one lineage.

### KnnStream: the streamed KNN writer

`massive_landmark_knn` and `massive_full_knn_exact`. A file is a function from
rows to cells; a cell carries the versions it was answered from and the index
build that answered it, so a stale or mixed answer shows.

| code | model |
| --- | --- |
| `massive_knn_paths`, `massive_knn_checkpoint` | `PathsFit`, `Verified`, `Start`, `CreateSidecar` |
| `massive_knn_reference` | `BuildIndex`: any member of `Builds` |
| `massive_knn_verify_probe` | `VerifyProbe`: builds with one pilot pass |
| `massive_knn_open_parts` | `OpenIndices`, `OpenDistances` |
| batch loop, `flush`, `massive_checkpoint_write` | `Search`, `AppendBatch`, `FlushIndices`, `FlushDistances`, `SaveSidecar` |
| `massive_knn_finish` | `Truncate`, `RenameIndices`, `RenameDistances`, `RestoreIndices`, `RetireSidecar` |
| `on.exit`, a failed `stop` | `OnExit` in `Fail` and `SourceChanged` |
| `FileMatrixSource::check_identity` | `Holds`, before every read of an input |

R connections buffer: rows reach the files at a flush, at `close`, or, when the
process is killed, up to any row of each file independently (`Crash`).

### ShardedKnn: the in-place merge

`massive_sharded_graph` with a checkpoint and `massive_merge_knn_shard_cpp`. It
computes the merge itself: rows of `K` ids and distances, candidates of a shard
from a parameter `Returned`, so that a replay and a rebuilt index have their
real effect. An index need not find the nearest rows, but it answers:
`AnswerAssumption` says that a build returns the whole shard or at least `K`
rows besides the one that asked (the code asks for `K + 1`). A merged row is the
`K` best pairs of the old row and the candidates, by rank (`Select`); that is
what the insertion of `merge_row` leaves, in whatever order it sees them.
`MergeIndices` and `MergeDistances` are the two writes of a batch;
`TearBatch` is a kill between them, or in the first shard in the middle of one.

### GraphSort: the external sort

`massive_umap_fuzzy_graph` and `massive_tsne_affinities` with the global sort.

| code | model |
| --- | --- |
| `massive_umap_fuzzy_preflight`, `massive_graph_sort_state`, `massive_graph_sort_run_identity` | `Preflight`, `StateFits`, `NamesFit`, `SizesFit`, `RunsIntact` |
| work directory, retained runs | `OpenWork`, `Retained` |
| `GraphRunSorter`, block loop, `massive_graph_sort_progress` | `Push`, `Spilled`, `Due`, `CommitPairs`, `EndScan` |
| `reduce_graph_runs`, `massive_graph_sort_phase_progress` | `MergeGroup`, `CommitMerge`, `DropReplaced` |
| pair merge, `emit_pair`, `rows` | `SymmetrizePairs`, `SpillRows`, `CommitRows` |
| CSR sinks, removal, renames | `OpenCsr`, `WriteCsr`, `RemoveRows`, `Publish`, `CloseWork` |
| identity check, manifest, `unlink` | `WriteManifest`, `RetireSidecar` |

A run is a set of records and carries its real name (kind, operation, number),
because the names decide what a resumed call accepts and overwrites. A work
directory that was removed is `NoDir`, not an empty one. The order
of the records inside a run is left out: a merge of sorted runs is their union.
The size check of the progress callbacks cannot fail in the model and is left
out; so are duplicate edges, which stop the call. Ties between runs of one size
are broken by name in the code and in any way in the model.

### GraphBuckets: the bucketed sort

The same two calls with `sort_method = "bucketed"`, which has no checkpoint and
may consume the KNN files while it reads them. The disk space is counted in
words of four bytes, file by file, since the call asks for it in advance and
compares the peak with it at the end. `Stop` is any failure or interruption; a
hard kill leaves every file, and later calls refuse them. Left out: the scan for
the mean distance, the normalization pass of t-SNE and the formula of a weight.

### LayoutSnapshots: the optimizers' records

`massive_umap_optimize` and `massive_tsne_optimize`, both storages and the
ordered tail of the Metal backend. A layout is the history of what it was
computed from (initialization, then the graph of each epoch), which makes "the
result equals that of an uninterrupted call" an equation.

### FullBackedPipeline: the one-call pipeline

The stages of `R/full_backed_pipeline.R` in order, each with what it has on disk
and from which version; the record and the recovery of
`R/full_backed_recovery.R`. A stage that works with a native checkpoint is in one
of three states here. `"begun"`: its files agree with the checkpoint and a
resumed call goes on from it, which the modules above justify. `"signed"`: the
search has a checkpoint and no files yet. `"torn"`: the two are out of step, and
every later call refuses the stage. `OpenWindow` and `CloseWindow` lead in and
out of that state: while the search has created one of its two `.part` files,
and while an optimizer has named a snapshot and not yet recorded it or not yet
unlinked the one before it, or fills its mapped file. `PublishStage` leaves the
point from which the native checkpoint resumes: the sort removes its row runs
there, before any final name. This is the composition of the parts: `Consumed`, `Refused` and
`FitRecord` are the places where one stage touches the files of another.

### StreamedPca: components of a matrix in a file

`run_massive_pca` with the covariance and the wide (sketched) route, on threads
or on one GPU, with its record, scores, manifest and the start for t-SNE; and
the resident matrix split over GPUs. A floating point sum depends on the order
of its terms, so a sum *is* the sequence of its additions: single rows by a
thread, the rows of a chunk at once by a GPU. A resume with another number of
threads, or a record one block late, therefore gives another sum.

| code | model |
| --- | --- |
| checks of the R call, the record's signature | `CallPca`, `PcaAccepts`, `Prepare` |
| mean pass, covariance pass | `MeanChunk`, `EndMeans`, `CrossChunk`, `CrossRecord`, `EndCross` |
| range finder and moment passes of the wide route | `BeginPass`, `PassChunk`, `EndPass`, `SaveMoments`, `EndSketch` |
| score sink and its flush, record, rename, manifest | `ScoreChunk`, `FlushScores`, `RecordScores`, `NameScores`, `VouchPca`, `UnlinkRecord` |
| start for t-SNE | `WriteInit`, `NameInit`, `AttachInit` |
| shards of a resident matrix | `LaunchShard`, `ShardBatch`, `ShardEnds`, `JoinShards` (`ShardHolding`: the shard a row of the scores is copied from) |

A kill between the rename of the scores and their manifest leaves an output that
a resume and `massive_open_pca` both refuse; no document promises otherwise. The
`source_identity` of the manifest is read at the end and not compared with the
one at the start.

### Postings: lists on disk and the graph of probed lists

The build in two passes (`CountBlock`, `PlaceBlock`, `Save`), the three renames
(`RenameList`), the search in the order of the lists (`Scanned`, `Answer`) and
the way back through partitions of partitions (`Distribute`, `SortPart`,
`SaveMarker`, `NameGraph`). Writes that have not been flushed may be on disk or
not after a kill, in either file. The grouped search is `KnnStream`'s and one
step here. At the `TornPoints` a kill makes later calls refuse: while the offsets
file is written, before a work directory has its marker, before the second
output is opened. What a resumed call finds in the record of a build is checked
as the code does (`StateFits`): its signature, the length of every file, that the
row to go on from is at the start of a block (`OnBlock`), and that the next
positions of the lists lie in their lists and add up to the rows done
(`PositionsFit`). `PostingWorkResumes` says that none of these checks turns down
what a call on the same source has recorded, unless a kill hit a torn point.

A level of the sort divides rows among at most `FanOutRows` partitions (32 in the
code, any positive number here) of equal width, rounded up. With many partitions
of few rows the last ones begin past the end; what the code then takes for the
number of their rows is an unsigned difference that wraps (`LeftFor`). Such a
partition holds no records, is not `Filled`, and the call stops; rows outside a
partition stop it too (`Inside`). `MCReorder` runs the module with a fan-out of
32, where that happens.

### Partitions and Clustering: Louvain and Leiden

`Partitions` is the mathematics: graphs, partitions, quality as a whole number,
contraction. `Clustering` is the algorithm on eight routes (one thread, threads,
a file with one thread or with prepared rows, one GPU, several, chunks of a file
on CUDA and on Metal). A GPU colour class is applied at once from proposals made
on the labels before it; the check that a pass did not make the partition worse
(`Taken`) is only on the threaded route. The single-GPU and Metal routes promise
no such thing, and nothing is claimed of them.

### Walktrap

The walks, every merge with its heap, the trace of modularity and the replayed
partition, with exact fractions: the unit of a probability is the least common
multiple of degree times (links + 1), that of a distance the least common
multiple of a*b*(a+b) over community sizes. Where the program's rounding could
order two equal distances, either is next.

### Hnsw: the in-memory index

`CompactHNSW`: a search of a layer by the caller is one step, a link back by the
crew two (it reads a row, then writes it). The levels of the points are inputs.
The crew's fairness is stated with guards (`CanRun`, `CallerCanRun`) because the
steps themselves are large.

### NearestRows: the searches that need no graph

The threads of `native_knn_exact.cpp`, the chunked search of a source, cuVS
exact and IVF searches with their pilots, the CUDA index that is kept between
calls, and what is done with a table: votes of landmarks and the removal of self
neighbours. cuVS is external: it returns the right rows of the lists it probes,
with ties in an order chosen per call. Zero rows of the cosine and correlation
metrics are left out; the CPU search reports distance 1 for them and orders them
as if it were 0.5.

### UmapGraph and LayoutWorkers: in-memory UMAP

`UmapGraph` is the fuzzy graph on five builders (threads counting and filling,
rows of a fixed width, the same on a GPU, a padded adjacency); the membership of
a neighbour is an input. `LayoutWorkers` is the eight optimizers that share
coordinates: plain additions to a shared double (two steps), compare-and-swap,
sums per thread added between two barriers, the synchronized epochs of
`massive_matrix.cpp` with their worker offsets and integer sums. The wall-clock
budget of the last is left out.

### WorkerPool: the pool of a t-SNE call

`ParallelExecutor`: `run` cuts a loop into chunks, works on the first and waits
until every thread has reported; the destructor wakes and joins them. A chunk
that throws counts as worked on.

### TsneForces, TsneDevice and TsneLayout: t-SNE

`TsneForces` is the gradient on the CPU: the affinities of a neighbour graph,
the attraction along edges, the sum over all pairs in strides of the threads,
and the repulsion on a grid, in the plane (two cells a point and axis, kernels
`q` and `q^2`) and in space (four cells with cubic weights, a kernel made smooth
near zero, the point's own share taken off, near pairs corrected in bins), each
through the transforms themselves: bit reversal, butterflies, padding, cropping,
the wrapped kernel. `TsneDevice` is the same as CUDA kernels, one after another
on buffers that several of them reuse, with transforms that nobody scales, and
the exchange between devices that own blocks of rows. `TsneLayout` is the
drivers:

| code | model |
| --- | --- |
| `knn_tsne_opentsne_float_cpp` | `StartInMemory`, `IterateInMemory`, `FinishInMemory`; a look at the cost is `Looks`, `StopsAt`, `Sensed` |
| `massive_tsne_optimize_cpp` | `StartFromFiles`, `IterateFromFiles` |
| `massive_tsne_optimize_cuda_cpp`, `massive_tsne_rank_attraction` | `Begin`, `Attract`, `AttractFails`, `Fail`, `Finish`, `Write` |
| `knn_tsne_opentsne_cuda_multigpu_cpp` | `StartResident` and the same |
| `fastembedr_cuda_opentsne_fft_from_knn_impl` | `StartLaunches`, `Launch`, `GraphLaunchFails`, `Download` |
| the two force diagnostics | `Diagnose` |

What such code gets wrong is an index, a scale, an order or a stale buffer, and
rounding hides it. The model has no rounding: a real number is an element of the
field with 7681 elements, which has roots of unity of every order used. There
sums, products, quotients, transforms and convolutions obey the laws the code
rests on, so two ways to compute one force agree exactly or not at all. The
reference (`DirectForce`, `DirectPull`, `DirectMove`) goes over the pairs of
points and the cells they interpolate from, without a transform, a padded array,
a thread, a device or a launch. It takes the box of the grid, a point's weights
in it and the step of one point from the code: that these formulas are the right
ones is not a claim of the model; that every route applies them to the right
data in the right order is. What is not field arithmetic is a whole number:
coordinates, the box of the grid (its cells are rounded up to a whole width),
the comparisons of signs that decide a gain, gains in fifths, and the step along
an axis, which is folded into at most `Reach`. The cost leaves out the
logarithm. How a snapshot reaches the disk is `LayoutSnapshots`; here it is
written at once.

### RankedLayout: layouts over several GPUs

UMAP and t-SNE over ranks, from files (`massive_matrix.cpp`) and from memory
(`embedding_cuda_kernels.cpp`). The host starts one thread per rank in every
epoch and joins them; a rank reads the edges of its block in batches and queues
work; the queues run on their own and meet in collectives. UMAP sums are
fixed-point words that wrap, with the scale the code computes. A plan is refused
where the code refuses it: a device without rows, a scale that cannot hold one
epoch. File calls record snapshots, which are read from rank 0, and resume;
memory calls do not. Coordinates have one axis; gradients, gains and steps are
integer forms of the formulas that keep what each depends on; the FFT repulsion
is a function of all rows (`TsneDevice` computes it). Writing a snapshot and the callback that records it
are one step here (`LayoutSnapshots` has them apart).

### QueryRows: new rows in a finished layout

Weighted, interpolated and affine placement, the t-SNE transform on threads, on
one GPU and over several, the landmark UMAP over several GPUs, and the
persistent projector. A *lane* is what works through rows with buffers of its
own; its buffers are those of the batch before.

### Evaluation: scores of a layout

Sampled structure on threads or on a GPU (which may fail at any point, and the
CPU takes over), exact ranks, silhouettes, votes, entropy, recall and distances
of pairs. A total is the bag of the rows' contributions, so a row lost or
counted twice shows and rounding does not. For silhouettes, votes and pair
distances the reference is the code's own formula: there only the split over
threads and the addition are checked. With coordinates that are not finite the
CPU counts a class by its finite rows and the CUDA host by all; such layouts are
left out.

### MCNative, MCMassive, MCDisk: the unions

A check of many small machines costs a start of the checker for each. These
three modules put machines that one R session runs one after the other into one
behaviour: a variable (`session`, `job`, `calls`) names the computation that was
called, every action belongs to one, and the state of the others rests. They add
nothing to the machines and relate nothing between them.
`MCKnnStream` does the same with two copies of one machine: the landmark route has
the constants and variables of `KnnStream`, the full route (`Full`) constants and
variables of its own.

## 4. The runs

| run | machine | what it shows | bounds |
| --- | --- | --- | --- |
| `knn_stream` | `KnnStream` | landmark route: durability, completeness and the committed log | 4 rows, batches of 2, 3 builds of which 2 share a pilot, 1 change of each input except between index and first sidecar, 3 stops |
| | | full route: work with a checkpoint is published; both routes: the inductive invariant of the proofs | 5 rows, batches of 2 (the last is short), commits of 2 batches, 2 changes, 2 stops |
| `knn_late_reference` | `KnnStream` | *violation*, see findings | 3 rows, 1 change, 1 stop |
| `disk` | `GraphSort`, `LayoutSnapshots`, `StreamedPca`, `TsneLayout` | committed work is kept, results are those of uninterrupted calls, recorded work finishes; t-SNE moves its points as the sum over all pairs does | below |
| `sort_handoff`, `layout_rebuild`, `pca_init` | the same, alone | *violations* | 1, 2 and 1 stops |
| `pipeline` | `FullBackedPipeline` | the record is covered, one lineage, a committed log, a recorded call returns | 4 routes, 1 change, 2 stops, 1 rewritten stage |
| `pipeline_reuse` | `FullBackedPipeline` | *violation* | t-SNE, 2 stops |
| `massive` | `ShardedKnn`, `RankedLayout`, `Postings`, `Walktrap`, `QueryRows`, `Evaluation` | long calls over rows give what one uninterrupted worker gives, and leave nothing behind | below |
| `posting_fanout` | `Postings` | *violation* | 33 rows around 2 centers, `BucketRows` 1, `FanOutRows` 32; no stops, no changes |
| `sharded_torn` | `ShardedKnn` | *violation* | 6 rows, a torn batch in the second shard |
| `native` | `Clustering`, `Hnsw`, `LayoutWorkers`, `WorkerPool`, `UmapGraph`, `GraphBuckets`, `NearestRows` | native computations give their definition's result in every interleaving, and return | below |

Bounds of the unions:

* `disk`. Sort: 6 edges in blocks of 1, commits after 3, runs of 2, fan-in 2, so
  four pair runs and five row runs; 1 change, 2 stops. Layouts: 5 epochs,
  snapshots every 2, 5 routes, 1 change, 3 stops. PCA: 7 rows in chunks of 2
  (the last has fewer rows than threads), 2 threads, a record every 2 blocks, 1
  change, 2 stops; a resident matrix over 2 GPUs in batches of 2 whose launches
  and shards may fail. t-SNE: thirteen calls on graphs of 3 to 5 points with
  self edges, 1 to 9 iterations; a grid of 4 cells an axis in
  the plane and 8 in space (transforms of 8 and 16); one side or the other of
  `ExactRows` = 3, `SensedRows` = 4 and `WideRows` = 5; 2 threads a block, 2
  blocks; 1 to 3 devices whose rows do not divide and whose batches hold 3 or 4
  edges; captured graphs of 2 iterations with a rest; looks at the cost after
  every and every second iteration; snapshots every 2 iterations and one kill.
* `massive`. Sharded search: 8 rows in 2 shards, `K` = 2, batches of 3, 3
  builds, 1 change, 2 stops, no torn batch in the second shard. Ranks: 3 or 4
  rows on 1 to 3 devices, UMAP of 3 epochs and t-SNE of 2, two failures; a plan
  with three devices and four rows and one with nine negatives, both refused;
  `WordBits` = 12 for 64 bits, so that sums do wrap. Postings: 7 rows around 3
  centers, blocks of 2, a record every 2 blocks, 2 probes, 2 neighbours,
  partitions of fan-out 2 and bucket 1, so they nest twice, 3 kills or errors, 1
  change. Walktrap: graphs of 5 vertices, at most 3 edges a vertex, 2 steps,
  numbered by falling degree, and a weighted one walked 1 step. Query rows: 5
  references, two of them copies, 4 rows in batches of 1 to 4, 3 iterations of
  which 1 is early, 2 negatives or exact repulsion, four starts, 2 and 3 GPUs,
  one call with more GPUs than rows and one batch beyond the projector's
  capacity, both refused. Scores: 6 points with copies, tables of 3 neighbours
  with one missing, `k` of 1 to 3, 2 or 4 threads (`ThreadsFrom` = 5 for the
  code's 128), blocks of 4 GPU threads (for 256).
* `native`. Clustering: six graphs of 3 or 4 vertices on all routes and a tree
  of 7 whose local moves end with a community in two pieces. HNSW: `M` = 2, up
  to 3 threads, a visit stamp that runs out (`StampLimit`). Optimizers: 3 points,
  2 or 3 threads, 2 to 4 epochs. Pool: up to 4 threads, 2 loops of up to 5
  items. Graphs: rows of at most 3 entries and a hub that overflows, tables with
  repeated and missing entries. Buckets: 256 one-column tables of 5 rows in which
  the first bucket holds more than half, and two-column tables of 6 rows,
  fan-in 2, at most 4 buckets, run capacities 1, 3 and 6, consumed or not.
  Searches: 5 or 8 rows with copies, 3 lists, 1 or 2 probes, a pilot of 3 at
  targets of 80 and 99 percent, up to 3 calls of a kept index.

Why the bounds are enough. Every loop runs at least twice with a short last
round: batches and rows, epochs and snapshots, shards, merges of runs, chunks of
threads. Commit intervals do not divide the rounds. Two stops let a resumed call
be interrupted and resumed again; one change of a source separates before from
after, and a second one (full route of `knn_stream`) a stale descriptor from a stale file. Three
threads are the least with which one can be two barriers behind another. Full
rows, full buckets, full visit tables, wrapping sums and copies of a row occur in
every machine that has them. Symmetry is not used: builds, threads and devices
differ in what they do. Deadlock checking is off because the systems really
stop: a call returns, and a published output is refused by every later call.

### The properties

* `CommittedRowsDurable`, `PublishedComplete`, `CommittedAnswersKept`,
  `CommittedWorkKept`, `SnapshotDurable`, `RecordCovered`: what a record names is
  on disk, whole and of the version it is signed for, whatever was interrupted.
* `ResultIsUninterrupted`, `PcaAsUninterrupted`, `ReplayIdempotent`,
  `ManifestVouches`, `OneLineage`: a published result is that of one
  uninterrupted call on one version of the inputs.
* `PostingGraphRight`: every row is in its own list once, and the published graph
  is that of the probed lists, in source order.
* `KeepsCommittedLog`: the refinement.
* `ResumeAccepted`, `PostingWorkResumes`, `PcaWorkResumes`: recorded work on
  unchanged inputs is accepted again, outside the windows the code gives up.
  `FullSearchPublished` (`CheckpointedWorkPublished` of the full route),
  `RecordedCallReturns` and `RecordedCallsFinish` (`SortFinishes` and
  `RecordedWorkFinishes`): it ends with a result. `RecordedCallReturns` counts as
  harmless (`Harmless`) only a stop between stages, while a stage's files agree
  with its native checkpoint, or while files are removed at the end.
* `InductiveOnRoutes`: sidecar, buffers, names and descriptor fit together at
  every step, which is why rows are durable (section 6).
* `RanksActAsOne`: all devices together compute what one would, epoch by epoch
  and from every snapshot. `NothingOutlivesCall`: no thread, queue or memory of
  a call that is over. `MassiveReturns`: every call over devices ends.
* `RowsStandAlone`: a query row ends where it would alone, whatever batch,
  device or thread it was in. `ScoresExact`: every row counts once, with the
  ranks that counting gives. `WalktrapExact`: kept distances are those of the
  walks, merges follow them, and the best partition is returned.
* `TsneAsDirect`: whichever route computed it, a t-SNE layout has moved as the sum
  over all pairs moves it; every snapshot, also of devices that know only their
  own rows' steps, and every recorded cost is of the iteration it names.
* `HierarchySound`: community totals belong to the labels (`TotalsMatch`), and
  Leiden's communities hang together (`LeidenConnected`). `QualityNeverFalls`: a
  threaded pass never makes the partition worse.
* `IndexAsSerial`: the parallel build is the serial one (`InsertedInOrder`), and
  every query gets its `k` answers (`AnswersComplete`). `NearestFound`,
  `GraphIsUnion`: answers and graphs are those of the definition.
* `BucketsSound`: the bucketed graph is the union (`BucketsMakeUnion`) and the
  space asked for in advance suffices (`DiskBudgetHolds`).
* `AdditionsKept`: no addition to a coordinate is lost (`NothingLost`), and an edge
  gets the samples its schedule owes, from one thread (`ScheduleKept`).
  `BatchExact`: a batch is exactly its sums, whatever the number of threads.
* `TaskAlive`, `EachItemOnce`, `ErrorsReported`: the pool. `CallReturns`: every
  native call with threads ends.

Beside each property stands what it would catch: a mutated definition next to
the real one ("Mutated form: ..."): a dropped check, a wrong bound, a swapped
order. With it in place of the real one, the property fails under the same
bounds.

### Fairness

A running call keeps running (`WF` of its `Step`: single-threaded code with no
waits), every thread and every device gets to run (`WF` per thread), and a
caller who keeps repeating the call with `resume = TRUE` is heard (`SF` of the
resumed start, in `knn_stream` for the full route, in `pipeline` and, for the
sort and the layouts, in `disk`). In `pipeline` a stage may take any number of
snapshots and then ends (`SF` of `PublishStage`): the epochs are counted, though
not in that module. Stops and failures are bounded, so they end; no fairness is assumed for
them, for spurious wake-ups, for changes of a source or for other calls. In the
unions each condition applies to the computation that was called; that of the
index is written out with its guards, which are exactly the conditions under
which a step exists. The leads-to properties name the stops after which the code
gives up (a window in which one of two files exists or has its name, a snapshot
that is not recorded or not yet replaced, a mapped file being filled, a
hand-over): those are limits of the code, and the findings list the
ones a document contradicts.

## 5. Findings

* `knn_late_reference` (code): a fresh landmark call signs its checkpoint for
  the reference file as it is *after* the index was built. A reference replaced
  in between makes a later resume accept rows of the old one, unless the pilot
  tells the two apart.
* `posting_fanout` (code): the sort of a postings graph stops with "missing or
  duplicated rows" although every row is there once, when a level has
  partitions that begin past its last row (33 rows with `bucket_rows` 1: the
  eighteenth of 32 partitions of width 2 begins at 34). `rows - offset` is
  unsigned and wraps (`src/massive_graph_reorder.cpp:181`, `:287`). It takes a
  `bucket_rows` below 30, which `R/massive_postings.R` plans only when the memory
  limit admits fewer than 30 records; every retry then stops the same way.
* `sharded_torn` (documentation): a batch of a later shard killed between its
  two in-place writes is not replayed idempotently.
* `sort_handoff` (documentation): the row runs are removed before the first
  rename; a kill in between leaves no final file and no checkpoint that a call
  accepts. The complete graph is in the `.part` files.
* `layout_rebuild` (documentation): a resume interrupted while it refills the
  mapped file from the snapshot is refused from then on.
* `pipeline_reuse` (documentation): a call stopped after a stage published its
  files and before the record names it cannot be resumed.
* `pca_init` (documentation): a PCA call stopped after its record is removed and
  before the start for t-SNE is attached cannot be repeated to make it up, as
  the usage document says.

Met while modelling, without a run of their own: a pipeline call stopped after
its record is removed and before the fit is returned
(`R/full_backed_recovery.R:54`) leaves an output that nothing on disk names, so
there is no state a property could refer to; a projection stopped between its
rename and its manifest leaves an output that resume and
`massive_open_projection` both refuse; an invalid pair in the threaded
`sampled_pair_distances_cpp` would call `Rcpp::stop` on a thread (the R callers
sample within range); the CUDA t-SNE wrappers report a learning rate of
`n / max(exaggeration, 1)` for the second phase where the driver uses
`n / exaggeration`.

## 6. The proofs

The proofs hold for every value of the constants: matrix size, batch size,
commit interval, builds, numbers of threads, items, ranks, rows, epochs, stops,
changes and failures. The properties they establish are those that the runs of
section 4 check on small instances.

| module | theorem | assumption | statement |
| --- | --- | --- | --- |
| `KnnStreamProofs` | `TypeCorrect` | none | `Spec => []TypeOK` |
| | `InductiveHolds` | `SignedAsIndexed` | `Spec => []Inductive` |
| | `CommittedRowsStay` | `SignedAsIndexed` | `Spec => []CommittedRowsDurable` |
| | `PublishedIsComplete` | `SignedAsIndexed` | `Spec => []PublishedComplete` |
| | `ImplementsCommittedLog` | `SignedAsIndexed` | `Spec => KeepsCommittedLog` |
| `LayoutProofs` | `LayoutTyped` | none | `LayoutSpec => []LayoutTypeOK` |
| | `RecordedSnapshotKept` | none | `LayoutSpec => []SnapshotDurable` |
| | `ResultAsUninterrupted` | none | `LayoutSpec => []ResultIsUninterrupted` |
| | `RecordNeverGoesBack` | none | `LayoutSpec => RecordedStays` |
| | `NothingLeftBehind` | none | `RankedSpec => []NothingOutlivesCall` |
| `FullBackedPipelineProofs` | `PipelineTyped` | none | `Spec => []PipelineTypeOK` |
| | `RecordNeverAhead` | none | `Spec => []RecordCovered` |
| | `FitOfOneVersion` | none | `Spec => []OneLineage` |
| | `PipelineImplementsLog` | none | `Spec => KeepsCommittedLog` |
| `GraphSortProofs` | `SortTyped` | none | `Spec => []SortTypeOK` |
| | `WorkIsKept` | none | `Spec => []CommittedWorkKept` |
| | `ManifestIsRight` | none | `Spec => []ManifestVouches` |
| `ShardedKnnProofs` | `AnswersAreKept` | `LaterShardsWhole` | `Spec => []CommittedAnswersKept` |
| | `ReplayIsIdempotent` | `LaterShardsWhole` | `Spec => []ReplayIdempotent` |
| | `ResumeIsAccepted` | `LaterShardsWhole` | `Spec => []ResumeAccepted` |
| `StreamedPcaProofs` | `PcaInductive` | none | `PcaSpec => []PcaIInv` |
| | `PcaUninterrupted` | none | `PcaSpec => []PcaAsUninterrupted` |
| | `PcaResumes` | none | `PcaSpec => []PcaWorkResumes` |
| `ThreadProofs` | `TaskStaysAlive` | none | `PoolSpec => []TaskAlive` |
| | `ItemsDoneOnce` | none | `PoolSpec => []EachItemOnce` |
| | `ErrorsComeOut` | none | `PoolSpec => []ErrorsReported` |
| | `LayoutThreadsInvariant` | none | `LayoutSpec => [](ThreadIInv /\ Balanced)` |
| | `AdditionsLand` | none | `LayoutSpec => []NothingLost` |
| | `SamplesOnSchedule` | none | `LayoutSpec => []ScheduleKept` |
| | `LayoutOwesNothing` | none | `LayoutSpec => []AdditionsKept` |
| | `BatchesAsSerial` | none | `LayoutSpec => BatchExact` |
| `PostingsProofs` | `PostInvariant` | none | `PostSpec => []PostIInv` |
| | `PostingsRight` | none | `PostSpec => []PostingGraphRight` |
| | `PostingsResume` | none | `PostSpec => []PostingWorkResumes` |

Besides, the named assumptions on the constants of each module.

**KnnStream.** `SignedAsIndexed` says that on the landmark route the reference
does not change between the index and the first sidecar: it is exactly what
`knn_late_reference` refutes without, and it is vacuous on the full route.
Neither invariant is inductive. `TypeInv` adds to the types that a checkpointed
call has its sidecar and that a searching call has its index. `Inductive` adds
four parts: `Names` (which of the two names each file has at which control
point), `Session` (the running call continues inputs and pilot of the
checkpoint, or will be stopped by a stale descriptor before it uses it),
`Buffered` (the rows between the last commit and the next row, and no others,
are in the buffer, and after the flushes on disk), and `Whole` (from the first
rename on the data are complete). The last two are why a crash is harmless:
nothing in a buffer is committed, and nothing committed is in a buffer. Each
action has a lemma, with one step for each conjunct it disturbs; `NextInductive`
collects them. The run `knn_stream` checks `Inductive` on both routes
(`InductiveOnRoutes`).

The refinement rests on the same invariant. The abstract log is the committed
rows of the two files, read under whichever name a file has, and all rows once
both have their final names. Saving the sidecar is `Commit`: `Buffered` says
the rows it adds have reached both files. The second rename is `Publish`:
`Whole` says no row is missing. Every other step leaves the log as it is; the
cases that need the invariant are those that rewrite a partial file (opening,
flushing, closing, a kill), where the rows concerned are never committed ones,
and the retirement of the sidecar, which `Names` allows only after both renames.

**LayoutSnapshots.** `LayoutIInv` adds to the types and the two properties:
`RoundsRead` (a call watches a version that is not newer than the inputs, and
while it is theirs every round so far has read it), `StartKnown` (a resumed call
that has not loaded anything starts at the epoch of its sidecar),
`SnapshotTurn` (a snapshot goes to an epoch later than the last, is in the
sidecar before the one before it is removed, and is not that one) and
`OutputLast`. The argument for `ResultIsUninterrupted` is that a layout of which
every round read one version *is* the layout of an uninterrupted call on it
(`Uniform`), and that a snapshot is such a layout when it is recorded, because
the inputs are checked after the last epoch that went into it.
`RecordNeverGoesBack` is about steps: a sidecar is only replaced by one of a
later epoch, and an output or a result, once there, stays.

**FullBackedPipeline.** `PipelineIInv` adds to the types and `RecordCovered`:
`CallHolds` (a running call works on the data it opened, for which its record is
signed), `StagesBehind` (the stages before the one in hand are recorded and come
from that data) and `FitThere`. The one exception is `Outdated`: data replaced
between the opening and the check of the record leave a call with a record of a
version that is gone; it has recorded nothing and stops before its first stage.
`FitOfOneVersion` then follows from the type of `returned`, which is a version
only because `FitThere` says the fit has one. The refinement goes action by
action: recording a stage is `Commit`, returning the fit `Publish`, and all
other steps, the rewriting of a stage between two calls among them, leave the
log alone: a call writes only a stage that no record names (`~Skips`). The windows of a stage's native
checkpoint change nothing here: what is torn is never named by the record.

**GraphSort.** An edge may be read from any version between the one the call
opened and the one the source has now; so `Exactly(records, n, o, s)` says that
the records are those of the first `n` edges, of versions in that window.
`SortIInv` says at each control point which runs hold the work: those the
sidecar names and its count (`SidecarHolds`, `SidecarRunsThere`), runs and buffer
while the input is read (`Scanned`), the runs in hand and those that replace
them between merges (`Reduced`), the rows spilled and those left (`Emitted`),
the CSR files under the one name or the other (`CsrThere`). Runs in hand have no
record in common (`Apart`) and carry numbers without gaps while they are spilled
(`InOrder`): that is why a resumed call never overwrites a run it still needs,
although it reuses the names. When a manifest is written the identity of the
input is checked, the window closes to one version, and `Exactly` is equality
with the symmetric graph of that version. `WorkIsKept` needs no such check:
rows of a changed input are kept as well, and thrown out at the next resume.

**ShardedKnn.** `LaterShardsWhole` says that no batch of a later shard is torn
between its two writes; it is exactly what `sharded_torn` refutes without, and a
torn batch of the first shard is allowed. The invariant cannot say that a row
holds the answers of "the" build of a shard: a batch that is replayed after a
resume is merged again, with the candidates of another build. So `Kept` says of
a row that there are sets of builds, one for every shard, such that the row is
the `K` best pairs of all they returned (`Select` of `Gathered`), with no shard
missing before the one in hand and none after it (`Uses`), and, behind a pilot,
with a build that agrees with it. The algebra is one lemma, `TopMerges`: to merge
candidates into the `K` best pairs of a set gives the `K` best of the union,
whatever was merged before. That is idempotence, and it is why a replay is
harmless. `StopKeeps` is the other half: a kill leaves committed rows of the
first shard alone, since it only appends, and stops a later shard between whole
batches. The rest of `ShardIInv` says what the call goes on from (`CallHolds`),
how many rows the files have (`LengthsHold`) and under which name (`NamesHold`).
That a published row has `K` neighbours comes from `AnswerAssumption` and the
assumption that there are more than `K` rows, by counting the union over the
shards. Facts about the `K` smallest elements of a set rest on least elements
(well-founded sets have one), not on induction.

**StreamedPca.** A sum is the sequence of its additions, so the proof cannot
appeal to any law of addition: it shows that the sums in hand after `n` rows are
those of the first `n` rows, in the order in which an uninterrupted call adds
them. For threads that order is said without chunks (`RowsByThreads`: thread `w`
adds, in ascending order, the rows whose place in their chunk falls to it), and
`ThreadsAdd` shows that one chunk more, cut among its threads as the code cuts
it, is the same as that many rows more: the cuts of a chunk are monotone and
cover it (`CutsGrow`, `OneThread`), the rows of a thread in the new chunk are a
stretch behind those it has (`ThreadPart`), and the ascending order of a set with
a stretch of larger rows behind it is the two orders in turn (`AscendingGrows`).
The last chunk, with fewer rows than threads, is the case that needs `AtBlock`: a
pass only rests at the end of a chunk, so the place of a row in its chunk does
not depend on where the pass was resumed. `GpuAdds` is the same for a device,
which adds a chunk at once, and `ChunkAdds` serves the shards of a matrix in
memory, whose batches begin at the first row of the shard.

`PcaIInv` joins to the types and `PcaWorkResumes`: `StateRight` (what a stage, in
the record or in hand, has from the stages before it, all of the version it is
signed for), `RecordRight` (the record goes with a partial file that has at least
the scores it counts), `CallRight` (a call has read no version newer than the one
it is signed for, so a chunk it can still read is of that version; the record is
of the stage in hand), `PassRight` and `ScoresRight` (sums and scores so far,
those in the stream among them), `NamesRight` (the scores have their name before
the manifest, the manifest before the start for t-SNE) and `ShardsRight`.
`ScoresRight` says why an interruption is harmless whatever part of the stream
it leaves in the file: what is overwritten behind the count of the record are
the same scores (`ScoresBehind`). That a shard is never empty, so that its batch
size is not zero, rests on the check that there are no more devices than rows
(`PcaSizes`, `ShardCuts`).

**WorkerPool.** That no thread works after `run` has returned follows from a
count: the caller waits until the number of reports equals the number of
threads. The inductive invariant `PoolIInv` adds to the types: `Counted` (the
counter is the number of threads that have reported this loop, and each has once
it has seen it), `Shared` (the chunks that threads hold are those of the posted
loop), `Blamed` (an error is recorded exactly if a chunk of this run has thrown)
and `EachItemOnce` itself. A sleeping thread that wakes for no reason changes
none of them.

**LayoutWorkers.** `ThreadIInv` says for all eight routes at once that every
thread has as much left of its stripe as it should (`ThreadsRight`), that no
thread is home before all are (`Home`), and that every edge is on schedule
(`OnSchedule`): it has been pulled and pushed as often as was due in the epochs
in which its thread has passed it. The argument has three layers.

* *Stripes.* Whatever the route cuts the edges by (even cuts, rows, boundaries
  moved to the start of a row, batches), every edge is in the stripe of exactly
  one thread and one batch (`StripesShare`): cuts are monotone and end at the last
  edge (`CutsGrow`, `BoundariesGrow`), and monotone cuts cover (`StretchesCover`).
  So no step of another thread touches an edge's times or its counts.
* *Schedules.* A period of one epoch at least moves the quotient of epochs and
  period by one at most (`NextQuotient`, `PullsRight`), and advancing the time of
  the next push by all pushes made leaves just the rest of that division
  (`RestQuotient`, `PushedRight`). Hence the times kept per edge and the counts
  computed from scratch give the same samples (`ScheduleStep`).
* *Additions.* `Balanced`: a coordinate and the additions that threads still hold
  for it make up the start and all that was asked for. A swap that succeeds
  moves its addition from one side to the other, one that fails changes nothing
  (`StoreKept`). Sums over threads are the folds of the library; what the proof
  needs of them (`TotalAny`: any term may be taken out first) is shown by taking
  a smallest set for which it fails (`SetsAll`), so no induction theorem with an
  operator for a parameter is used.

`NothingLost` and `ScheduleKept` are what the two say when thread 0 has returned.

`BatchExact` is an action property and needs an invariant of its own, `SumIInv`,
on the two routes that add sums later. `AllWork`: a thread holds additions only
while it does an edge, and clears its sums before it takes the first edge of a
stripe.

* *Merged.* `AtBarrier` counts: what the barrier still expects and the threads
  that wait for this opening make up the team, and every thread has passed as
  often as the barrier has opened, or once less when it was woken and has not
  looked yet (`InPlace`); a thread that wakes for no reason changes neither side.
  So when thread 0 adds, all others stand at the same pair of barriers with
  empty stripes (`AllSummed`). `MergedSums`: the sums of a thread that thread 0
  has not added yet are what the thread has done of its stripe, less what it
  still has in hand (`Net`), at coordinates that have not moved since the batch
  began. Sums over stripes then make the sum over the batch, since the stripes
  of the threads cut it (`StripesShare`).
* *Shared.* `SharedSums`: while threads run the epoch, the one sum is the total of
  `Net` over all threads, whoever added last. When the last is joined nothing is
  in hand, and thread 0 adds the sum over all edges, clipped. After a failed
  thread nothing is added, which `BatchExact` allows.

Without the count the second part fails: a thread that slipped through
the first barrier clears its sums before they are added, which is the mutant
`PassedOnce` of the run.

**Postings.** The theorems rest on `PostingAssumption` alone, which says that the
sizes are positive, that there are more rows than neighbours, and that there are
two centers or more, of which no more are probed than there are. They hold for
any fan-out, the 32 of the code and the case of
`posting_fanout` included: a call that meets a partition past the end stops and
removes its work directory, and nothing wrong gets a final name. That a call
succeeds in the end is not claimed.
`PostIInv` says at each
control point what has been done so far, in memory, in the streams and on disk,
as functions of the rows alone: `BuildFiles` (which file exists under which
name), `BuildRight` (counts, next positions and placed rows are those of the
first `n` rows: `CountsTo`, `NextTo`, `HoldsTo`), `ListsReady`, `SavedRight` (the
same for a record and the files a resumed call will find), `GraphFresh` and
`GroupedRight` for the search, `SortRight`, `OutputsRight` and `NamesRight` for
the way back. A build whose input was replaced is excepted: the check of the source
behind the renames stops that call before it writes a manifest.

* *Placing.* `Home(v, r)` is the rank of row `r` when rows are ordered by list and
  then by number. It is a bijection onto the positions (`Places`, by
  cardinality), and the next pointer of a list is the home of its next row
  (`HomeIs`). So a row is placed once and nothing is overwritten (`PlacedIs`),
  and a pass that repeats rows after a kill, over a file that may already hold
  them, writes what is there.
* *Searching.* After any number of rows scanned the heap holds the nearest of
  them (`KeptIs`), and the answer to a row is the nearest of the probed lists
  (`AnswerIs`). The scan is a recursive function; as the induction theorems are
  out of reach, the lemma takes the least position at which it would fail, which
  well-foundedness of the naturals on sets gives.
* *Back in order.* The partitions still to be sorted form a `Chain`: they cover
  the rows behind those already in the outputs, without a gap, and each holds
  exactly the answers of its rows. To split a partition replaces a link by a
  chain (`PiecesRight`, `ChainJoins`), to sort one moves the front
  (`OutputGrows`); when the chain is empty the outputs hold every row. The
  claim is made of partitions that are all filled (`AllFilled`): when one begins
  past the end (`LeftFor`) there is no chain, but that one is empty and never
  filled, so the call stops before it has dealt with all of them.
* *Resuming.* `PostingWorkResumes` follows for the lists from `SavedRight`: each
  check of `StateFits` holds of what was recorded (`StateAccepted`), because the
  streams are flushed before every record; and for the graph from `NamesRight`:
  outputs of which one has its final name have a marker, and an open work
  directory has its own, outside the torn points.

**RankedLayout.** `RankedIInv` is the types with three parts. `ThreadsAwaited`:
threads of ranks run only while the host waits for them, in `Join` or, after a
failure, in `Unwind`, and a rank it has joined has ended. `MemoryHeld`: devices
hold memory between `Create` and the end of the call. `RestBetween`: no device
has work queued between two epochs. An unwinding host that did not wait would
break the first part at once, which is what the mutant of
`NothingOutlivesCall` does.

Only model-checked:

* what a recursive computation gives, since the induction theorems take an
  operator as parameter: `HierarchySound`, `QualityNeverFalls`,
  `IndexAsSerial`, `NearestFound`, `GraphIsUnion`, `BucketsSound`,
  `WalktrapExact`, `TsneAsDirect`, `RowsStandAlone`, `ScoresExact`;
* `RanksActAsOne`, which adds over devices in an order they choose;
* all liveness (`CheckpointedWorkPublished`, `RecordedCallReturns`,
  `RecordedCallsFinish`, `MassiveReturns`, `CallReturns`), since the prover does
  not reason about fairness and `ENABLED`.

## 7. What is not modelled

Parts of the system:

* the coordinator of the multi-GPU search (`R/massive_multigpu.R`): R processes
  that are polled, with job directories of their own; what each of them writes
  is `KnnStream`'s;
* the memberships of the full-data UMAP: two passes of sums with a record in the
  form of the sort's;
* the workflow around a full-graph clustering: candidates, the record between
  levels, the checks of the graph files, Walktrap on the parts of a large graph
  (`R/massive_walktrap.R`), the initial partition from another run;
* the batches, part files and resume of `R/massive_projection.R`, and the choice
  of low-confidence rows;
* the streamed PCA over several GPUs, the projection of test rows with its own
  record, the resident randomized PCA;
* the search of the t-SNE perplexities (its result, the share of every neighbour,
  is an input), initial layouts, automatic parameters, and the CUDA wrappers of
  `src/embedding_cuda_impl.cpp` that check and convert arguments;
* the landmark UMAP of one GPU, whose rows are read while they move; tuning
  trials of the searches; saved indexes; recall pilots and audits of the
  postings; the bridge to cuGraph; Metal kernels; the R front end; generated
  bindings; code that nothing calls any more (`build_graph`, the general
  `build_graph_csr_native`).

Inside the modelled parts:

* Floating point arithmetic. In the t-SNE modules a real number is an element of a
  finite field; elsewhere distances, weights, gradients and schedules are
  whole numbers that keep what each depends on; rounding appears only where it
  decides an order, and then as a choice. Whether a layout is *good* is not a
  question for these models.
* Corruption that keeps size and modification time: the code does not detect it
  either, and its documentation says so. A version stands for the identity the
  code compares.
* Two calls at once on one output. The code takes no lock.
* Failures of the file system other than a stop: no lost `rename`, no write
  that reaches the disk in another order than it was made (the code never calls
  `fsync`).
* The landmark search with `method = "stream_exact"`, which keeps no index and
  reads the reference again for every batch; calls of `massive_sharded_graph`
  and of the postings without a checkpoint; zero rows of the cosine and
  correlation metrics; distances that are not a number; wall-clock budgets;
  the release of device memory outside `RankedLayout`.

`PROJECT.json` lists every component with its state and, where it is not whole,
the reason.
