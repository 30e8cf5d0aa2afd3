----------------------------- MODULE StreamedPca ------------------------------
(* Principal components of a matrix in a file (pca(massive =               *)
(* "out_of_core")), over chunks of rows and worker threads or a GPU, with  *)
(* a record from which an interrupted call goes on; and of a matrix in     *)
(* memory whose rows are split over several GPUs.                          *)
(*                                                                         *)
(* Floating point sums depend on the order of their terms, so a sum is the *)
(* sequence of what was added to it: single rows by a thread, the rows of  *)
(* a chunk at once by a GPU. A row is known by its number and the version  *)
(* of the matrix it was read from, a fit by the sums it was made of, and a *)
(* score by its row and its fit. What is optional is a sequence of at most *)
(* one element.                                                            *)
EXTENDS Integers, FiniteSets, Sequences, FiniteSetsExt

CONSTANTS
    PcaJobs,        \* the calls a session may make (and make again)
    PcaVersions,    \* bound: changes of the matrix
    PcaHalts        \* bound: interrupted calls, failures of threads and GPUs

ASSUME PcaBounds == PcaVersions \in Nat /\ PcaHalts \in Nat
(* check_massive_pca_source, resident_pca_shards: what a call is made with. *)
ASSUME PcaSizes ==
    \A job \in PcaJobs :
        /\ {job.rows, job.chunk, job.workers, job.every} \subseteq Nat \ {0}
        /\ {job.centered, job.scaled, job.save, job.init} \subseteq BOOLEAN
        /\ job.route = "resident" => job.workers <= job.rows

VARIABLES
    pcaJob,     \* the call
    matrix,     \* the version of the matrix file
    pcaDisk,    \* record, partial and final files, and the manifest
    pcaCall,    \* the call in memory
    shards,     \* rows of a resident matrix, each with a thread and a GPU
    halted      \* interruptions and failures so far

pcaVars == <<pcaJob, matrix, pcaDisk, pcaCall, shards, halted>>

NRows == pcaJob.rows
OnGpu == pcaJob.backend = "cuda"
Wide == pcaJob.route = "wide"
Resident == pcaJob.route = "resident"

-------------------------------------------------------------------------------
(* Sums.                                                                   *)
PcaWorkers == Min({pcaJob.workers, pcaJob.chunk})
Zero(workers) == [w \in 1..workers |-> <<>>]

RowRange(first, last, version) == [i \in 1..last - first |-> [row |-> first + i, of |-> version]]
CountAt(start) == Min({pcaJob.chunk, NRows - start})

(* parallel_rows: no more threads than rows, each with a range of them.    *)
ThreadRows(count, threads, w) == [first |-> (count * (w - 1)) \div threads,
                                  last |-> (count * w) \div threads]

AddedByThreads(sums, start, version) ==
    LET count == CountAt(start)
        threads == Min({count, Len(sums)})
        range(w) == ThreadRows(count, threads, w)
        rows(w) == RowRange(start + range(w).first, start + range(w).last, version)
    IN [w \in DOMAIN sums |->
            IF w > threads THEN sums[w] ELSE sums[w] \o [i \in DOMAIN rows(w) |-> <<rows(w)[i]>>]]

AddedByGpu(sums, first, last, version) == <<Append(sums[1], RowRange(first, last, version))>>

AddedBy(gpu, sums, start) ==
    IF gpu THEN AddedByGpu(sums, start, start + CountAt(start), pcaCall.seen)
    ELSE AddedByThreads(sums, start, pcaCall.seen)

Reached(start) == start + CountAt(start)

-------------------------------------------------------------------------------
(* Calls, and the record that one leaves for the next.                     *)
Fresh(version) == [sign |-> version, stage |-> "pending", rows |-> 0, sums |-> <<>>,
                   moments |-> <<>>, fit |-> <<>>, done |-> 0]

AtRest(pc, resume) ==
    [pc |-> pc, resume |-> resume, seen |-> 0, state |-> Fresh(0), at |-> 0, sums |-> <<>>,
     blocks |-> 0, tail |-> <<>>, result |-> <<>>]

Over == {"idle", "refused", "done"}
PcaEnds(pc) == pcaCall' = AtRest(pc, pcaCall.resume)
Saved(state) == IF pcaJob.save THEN [pcaDisk EXCEPT !.record = <<state>>] ELSE pcaDisk

(* massive_float_output: the files a call is to write are not there yet.   *)
OutputsFree(resume) ==
    /\ pcaDisk.scores = <<>> /\ pcaDisk.manifest = <<>>
    /\ pcaDisk.part # <<>> => resume
    /\ pcaJob.init => pcaDisk.init = <<>> /\ pcaDisk.initPart = <<>>

CallPca(resume) ==
    /\ pcaCall.pc \in Over /\ (resume => pcaJob.save) /\ ~Resident
    /\ pcaCall' = IF OutputsFree(resume)
                  THEN [AtRest("prepare", resume) EXCEPT !.seen = matrix]
                  ELSE AtRest("refused", resume)
    /\ UNCHANGED <<pcaJob, matrix, pcaDisk, shards, halted>>

SizeOf(file) == IF file = <<>> THEN 0 ELSE Len(file[1])

PcaAccepts(state) ==
    /\ state.sign = matrix
    /\ IF state.stage = "fit" THEN SizeOf(pcaDisk.part) >= state.done
       ELSE state.done = 0 /\ pcaDisk.part = <<>>

(* Every read looks at the stamp of the file, before and after.            *)
Readable == matrix = pcaCall.seen

Prepare ==
    /\ pcaCall.pc = "prepare"
    /\ LET goes(state) == [pcaCall EXCEPT !.pc = "fit", !.state = state]
           begun == pcaDisk.record # <<>>
       IN IF pcaJob.save /\ (IF pcaCall.resume THEN ~begun \/ ~PcaAccepts(pcaDisk.record[1]) ELSE begun)
          THEN PcaEnds("refused") /\ UNCHANGED pcaDisk
          ELSE LET state == IF pcaCall.resume THEN pcaDisk.record[1] ELSE Fresh(matrix)
               IN pcaCall' = goes(state) /\ pcaDisk' = Saved(state)
    /\ UNCHANGED <<pcaJob, matrix, shards, halted>>

InStage(stage) == pcaCall.pc = "fit" /\ pcaCall.state.stage = stage
Rest == UNCHANGED <<pcaJob, matrix, shards, halted>>
Enters(state) == /\ pcaCall' = [pcaCall EXCEPT !.state = state] /\ pcaDisk' = Saved(state) /\ Rest

(* The means, chunk by chunk.                                              *)
BeginMeans ==
    /\ InStage("pending") /\ ~Wide /\ pcaJob.centered
    /\ Enters([pcaCall.state EXCEPT !.stage = "mean_partial", !.sums = Zero(PcaWorkers)])

MeanChunk ==
    /\ InStage("mean_partial") /\ pcaCall.state.rows < NRows
    /\ IF ~Readable THEN PcaEnds("idle") /\ UNCHANGED pcaDisk /\ Rest
       ELSE LET s == pcaCall.state
            IN Enters([s EXCEPT !.sums = AddedByThreads(s.sums, s.rows, pcaCall.seen),
                                !.rows = Reached(s.rows)])

EndMeans ==
    /\ \/ InStage("mean_partial") /\ pcaCall.state.rows = NRows
       \/ InStage("pending") /\ ~Wide /\ ~pcaJob.centered
    /\ Enters([pcaCall.state EXCEPT !.stage = "means", !.moments = <<pcaCall.state.sums>>,
                                    !.sums = <<>>, !.rows = 0])

(* The covariance: its sums are recorded after some blocks, and at the end.*)
BeginCross ==
    /\ InStage("means")
    /\ Enters([pcaCall.state EXCEPT !.stage = "covariance_partial",
                                    !.sums = Zero(IF OnGpu THEN 1 ELSE PcaWorkers)])

EnterCross ==
    /\ InStage("covariance_partial")
    /\ pcaCall' = [pcaCall EXCEPT !.pc = "cross", !.at = pcaCall.state.rows,
                                  !.sums = pcaCall.state.sums, !.blocks = 0]
    /\ UNCHANGED pcaDisk /\ Rest

PcaDue(blocks, reached) == blocks % pcaJob.every = 0 \/ reached = NRows

(* Mutated form: a record names the row its last block began with.         *)
CrossRecordLate(start, sums) == [pcaCall.state EXCEPT !.rows = start, !.sums = sums]
CrossRecord(start, sums) == [pcaCall.state EXCEPT !.rows = Reached(start), !.sums = sums]

CrossChunk ==
    /\ pcaCall.pc = "cross" /\ pcaCall.at < NRows
    /\ IF ~Readable THEN PcaEnds("idle") /\ UNCHANGED pcaDisk
       ELSE LET sums == AddedBy(OnGpu, pcaCall.sums, pcaCall.at)
                end == Reached(pcaCall.at)
            IN  /\ pcaCall' = [pcaCall EXCEPT !.at = end, !.sums = sums, !.blocks = @ + 1]
                /\ pcaDisk' = IF PcaDue(pcaCall.blocks + 1, end)
                              THEN Saved(CrossRecord(pcaCall.at, sums)) ELSE pcaDisk
    /\ Rest

(* The fit is recorded without what it was made from.                      *)
FitFound(fit) ==
    LET state == [Fresh(pcaCall.state.sign) EXCEPT !.stage = "fit", !.fit = fit]
    IN pcaCall' = [pcaCall EXCEPT !.pc = "open", !.state = state, !.sums = <<>>, !.at = 0]
       /\ pcaDisk' = Saved(state)

EndCross ==
    /\ pcaCall.pc = "cross" /\ pcaCall.at = NRows
    /\ FitFound(Append(pcaCall.state.moments, pcaCall.sums))
    /\ Rest

-------------------------------------------------------------------------------
(* Wide matrices: one pass over the rows for the means, one for the scale, *)
(* and two for the sketch, with only the first two of them recorded.       *)
MomentPasses == (IF pcaJob.centered THEN 1 ELSE 0) + (IF pcaJob.scaled THEN 1 ELSE 0)
PassesDone == Len(pcaCall.state.moments)
PassOnGpu == OnGpu /\ PassesDone >= MomentPasses

BeginPass ==
    /\ Wide
    /\ \/ InStage("pending") /\ PassesDone < MomentPasses
       \/ InStage("moments") /\ PassesDone < MomentPasses + 2
    /\ pcaCall' = [pcaCall EXCEPT !.pc = "pass", !.at = 0,
                                  !.sums = Zero(IF PassOnGpu THEN 1 ELSE PcaWorkers)]
    /\ UNCHANGED pcaDisk /\ Rest

PassChunk ==
    /\ pcaCall.pc = "pass" /\ pcaCall.at < NRows
    /\ IF ~Readable THEN PcaEnds("idle")
       ELSE pcaCall' = [pcaCall EXCEPT !.at = Reached(@),
                                       !.sums = AddedBy(PassOnGpu, @, pcaCall.at)]
    /\ UNCHANGED pcaDisk /\ Rest

EndPass ==
    /\ pcaCall.pc = "pass" /\ pcaCall.at = NRows
    /\ pcaCall' = [pcaCall EXCEPT !.pc = "fit", !.state.moments = Append(@, pcaCall.sums)]
    /\ UNCHANGED pcaDisk /\ Rest

SaveMoments ==
    /\ InStage("pending") /\ Wide /\ PassesDone = MomentPasses
    /\ Enters([pcaCall.state EXCEPT !.stage = "moments"])

EndSketch ==
    /\ InStage("moments") /\ PassesDone = MomentPasses + 2
    /\ FitFound(pcaCall.state.moments)
    /\ Rest

ReuseFit ==
    /\ InStage("fit")
    /\ pcaCall' = [pcaCall EXCEPT !.pc = "open"]
    /\ UNCHANGED pcaDisk /\ Rest

-------------------------------------------------------------------------------
(* Scores, written behind those that the record counts.                    *)
ScoreOf(fit, row) == [of |-> row, by |-> fit]
Overwritten(file, at, rows) ==
    SubSeq(file, 1, Min({at, Len(file)})) \o rows \o SubSeq(file, at + Len(rows) + 1, Len(file))

(* What has been handed to the stream but not flushed.                     *)
Flushed(rows) == <<Overwritten(pcaDisk.part[1], pcaCall.at, rows)>>

OpenSink ==
    /\ pcaCall.pc = "open"
    /\ pcaCall' = [pcaCall EXCEPT !.pc = "score", !.at = pcaCall.state.done]
    /\ pcaDisk' = IF pcaCall.resume /\ pcaDisk.part # <<>> THEN pcaDisk
                  ELSE [pcaDisk EXCEPT !.part = <<<<>>>>]
    /\ Rest

Scored == pcaCall.at + Len(pcaCall.tail)

ScoreChunk ==
    /\ pcaCall.pc = "score" /\ Scored < NRows /\ (pcaJob.save => pcaCall.tail = <<>>)
    /\ LET rows == RowRange(Scored, Scored + CountAt(Scored), pcaCall.seen)
       IN IF ~Readable THEN pcaDisk' = [pcaDisk EXCEPT !.part = Flushed(pcaCall.tail)] /\ PcaEnds("idle")
          ELSE /\ pcaCall' = [pcaCall EXCEPT
                    !.tail = @ \o [i \in DOMAIN rows |-> ScoreOf(pcaCall.state.fit, rows[i])]]
               /\ UNCHANGED pcaDisk
    /\ Rest

(* Mutated form: rows are recorded while they are still in the stream.     *)
FlushedLater(rows) == pcaDisk.part
BeforeRecord(rows) == Flushed(rows)

FlushScores ==
    /\ pcaCall.pc = "score" /\ pcaJob.save /\ pcaCall.tail # <<>>
    /\ pcaDisk' = [pcaDisk EXCEPT !.part = BeforeRecord(pcaCall.tail)]
    /\ pcaCall' = [pcaCall EXCEPT !.pc = "record"]
    /\ Rest

RecordScores ==
    /\ pcaCall.pc = "record"
    /\ pcaDisk' = Saved([pcaCall.state EXCEPT !.done = Scored])
    /\ pcaCall' = [pcaCall EXCEPT !.pc = "score", !.at = Scored, !.tail = <<>>]
    /\ Rest

NameScores ==
    /\ pcaCall.pc = "score" /\ Scored = NRows /\ (pcaJob.save => pcaCall.tail = <<>>)
    /\ LET whole == Flushed(pcaCall.tail)
       IN IF SizeOf(whole) = NRows
          THEN /\ pcaDisk' = [pcaDisk EXCEPT !.part = <<>>, !.scores = whole]
               /\ pcaCall' = [pcaCall EXCEPT !.pc = "manifest", !.tail = <<>>]
          ELSE pcaDisk' = [pcaDisk EXCEPT !.part = whole] /\ PcaEnds("idle")
    /\ Rest

-------------------------------------------------------------------------------
(* The manifest, the end of the record, and the start for t-SNE.           *)
VouchPca ==
    /\ pcaCall.pc = "manifest"
    /\ pcaDisk' = [pcaDisk EXCEPT !.manifest = <<[fit |-> pcaCall.state.fit, init |-> FALSE]>>]
    /\ pcaCall' = [pcaCall EXCEPT !.pc = "unlink"]
    /\ Rest

UnlinkRecord ==
    /\ pcaCall.pc = "unlink"
    /\ pcaDisk' = [pcaDisk EXCEPT !.record = <<>>]
    /\ IF pcaJob.init THEN pcaCall' = [pcaCall EXCEPT !.pc = "init"] ELSE PcaEnds("done")
    /\ Rest

WriteInit ==
    /\ pcaCall.pc = "init" /\ pcaDisk.initPart = <<>>
    /\ pcaDisk' = [pcaDisk EXCEPT !.initPart = pcaDisk.scores]
    /\ UNCHANGED pcaCall /\ Rest

NameInit ==
    /\ pcaCall.pc = "init" /\ pcaDisk.initPart # <<>>
    /\ pcaDisk' = [pcaDisk EXCEPT !.initPart = <<>>, !.init = @ \o pcaDisk.initPart]
    /\ pcaCall' = [pcaCall EXCEPT !.pc = "attach"]
    /\ Rest

AttachInit ==
    /\ pcaCall.pc = "attach"
    /\ pcaDisk' = [pcaDisk EXCEPT !.manifest[1].init = TRUE]
    /\ PcaEnds("done")
    /\ Rest

(* An error, an interrupt or a kill: of what the stream holds, any part    *)
(* may be in the file; an error also removes the partial start.            *)
HaltPca ==
    /\ pcaCall.pc \notin Over /\ ~Resident
    /\ halted < PcaHalts /\ halted' = halted + 1
    /\ \E n \in 0..Len(pcaCall.tail), init \in {<<>>, pcaDisk.initPart} :
          pcaDisk' = [pcaDisk EXCEPT !.initPart = init,
              !.part = IF pcaCall.pc \in {"score", "record"}
                       THEN Flushed(SubSeq(pcaCall.tail, 1, n)) ELSE @]
    /\ PcaEnds("idle")
    /\ UNCHANGED <<pcaJob, matrix, shards>>

ChangeMatrix ==
    /\ matrix < PcaVersions /\ matrix' = matrix + 1 /\ ~Resident
    /\ UNCHANGED <<pcaJob, pcaDisk, pcaCall, shards, halted>>

-------------------------------------------------------------------------------
(* A matrix in memory over several GPUs: one thread for each, first for    *)
(* the covariance, then for the scores.                                    *)
ShardOf(k) ==
    LET devices == pcaJob.workers
    IN [pc |-> "new", first |-> (NRows * (k - 1)) \div devices,
        last |-> (NRows * k) \div devices, at |-> (NRows * (k - 1)) \div devices, sums |-> Zero(1)]

Sharded == [k \in 1..pcaJob.workers |-> ShardOf(k)]
Running == {k \in DOMAIN shards : shards[k].pc = "running"}
Unstarted == {k \in DOMAIN shards : shards[k].pc = "new"}

CallResident ==
    /\ Resident /\ pcaCall.pc \in Over
    /\ pcaCall' = [AtRest("launch", FALSE) EXCEPT !.seen = matrix, !.state.moments =
            IF pcaJob.centered THEN <<<<RowRange(0, NRows, matrix)>>>> ELSE <<<<>>>>]
    /\ shards' = Sharded
    /\ UNCHANGED <<pcaJob, matrix, pcaDisk, halted>>

LaunchShard ==
    /\ pcaCall.pc = "launch" /\ Unstarted # {}
    /\ shards' = [shards EXCEPT ![Min(Unstarted)].pc = "running"]
    /\ UNCHANGED <<pcaJob, matrix, pcaDisk, pcaCall, halted>>

(* A thread that does not start: those before it are waited for.           *)
LaunchFails ==
    /\ pcaCall.pc = "launch" /\ Unstarted # {}
    /\ halted < PcaHalts /\ halted' = halted + 1
    /\ pcaCall' = [pcaCall EXCEPT !.pc = "rejoin"]
    /\ UNCHANGED <<pcaJob, matrix, pcaDisk, shards>>

ShardBatch(k) ==
    /\ k \in Running /\ shards[k].at < shards[k].last
    /\ LET s == shards[k]
           end == Min({s.at + Min({pcaJob.chunk, s.last - s.first}), s.last})
           rows == RowRange(s.at, end, pcaCall.seen)
           fit == pcaCall.state.fit
       IN shards' = [shards EXCEPT ![k].at = end, ![k].sums =
                IF fit = <<>> THEN AddedByGpu(s.sums, s.at, end, pcaCall.seen)
                ELSE <<s.sums[1] \o [i \in DOMAIN rows |-> ScoreOf(fit, rows[i])]>>]
    /\ UNCHANGED <<pcaJob, matrix, pcaDisk, pcaCall, halted>>

ShardEnds(k) ==
    /\ k \in Running
    /\ \/ shards[k].at = shards[k].last /\ shards' = [shards EXCEPT ![k].pc = "ended"]
          /\ UNCHANGED halted
       \/ halted < PcaHalts /\ halted' = halted + 1 /\ shards' = [shards EXCEPT ![k].pc = "failed"]
    /\ UNCHANGED <<pcaJob, matrix, pcaDisk, pcaCall>>

Joined == Running = {}
ShardHolding(r) == CHOOSE k \in DOMAIN shards : shards[k].first < r /\ r <= shards[k].last

JoinShards ==
    /\ \/ pcaCall.pc = "launch" /\ Unstarted = {}
       \/ pcaCall.pc = "rejoin"
    /\ Joined
    /\ LET all == [k \in DOMAIN shards |-> shards[k].sums[1]]
           fit == Append(pcaCall.state.moments, all)
           scores == [r \in 1..NRows |-> all[ShardHolding(r)][r - shards[ShardHolding(r)].first]]
           wrong == pcaCall.pc = "rejoin" \/ \E k \in DOMAIN shards : shards[k].pc = "failed"
       IN IF wrong THEN PcaEnds("idle") /\ UNCHANGED shards
          ELSE IF pcaCall.state.fit = <<>>
          THEN pcaCall' = [pcaCall EXCEPT !.state.fit = fit] /\ shards' = Sharded
          ELSE /\ pcaCall' = [AtRest("done", FALSE) EXCEPT
                        !.result = <<[fit |-> pcaCall.state.fit, scores |-> scores]>>]
               /\ UNCHANGED shards
    /\ UNCHANGED <<pcaJob, matrix, pcaDisk, halted>>

-------------------------------------------------------------------------------
PcaInit ==
    /\ pcaJob \in PcaJobs
    /\ matrix = 0 /\ halted = 0 /\ shards = <<>>
    /\ pcaDisk = [record |-> <<>>, part |-> <<>>, scores |-> <<>>, manifest |-> <<>>,
                  initPart |-> <<>>, init |-> <<>>]
    /\ pcaCall = AtRest("idle", FALSE)

PcaFits ==
    Prepare \/ BeginMeans \/ MeanChunk \/ EndMeans \/ BeginCross \/ EnterCross \/ CrossChunk
    \/ EndCross \/ BeginPass \/ PassChunk \/ EndPass \/ SaveMoments \/ EndSketch \/ ReuseFit
PcaWrites ==
    OpenSink \/ ScoreChunk \/ FlushScores \/ RecordScores \/ NameScores \/ VouchPca
    \/ UnlinkRecord \/ WriteInit \/ NameInit \/ AttachInit
PcaShards ==
    CallResident \/ LaunchShard \/ LaunchFails \/ JoinShards
    \/ \E k \in DOMAIN shards : ShardBatch(k) \/ ShardEnds(k)
PcaNext ==
    PcaFits \/ PcaWrites \/ PcaShards \/ HaltPca \/ ChangeMatrix
    \/ \E resume \in BOOLEAN : CallPca(resume)

PcaSpec == PcaInit /\ [][PcaNext]_pcaVars

-------------------------------------------------------------------------------
(* Properties.                                                             *)

(* The sums of a pass that is never interrupted, said row by row: the      *)
(* thread of a row follows from its place in its chunk.                    *)
ThreadOf(r) ==
    LET place == (r - 1) % pcaJob.chunk
        count == CountAt(r - 1 - place)
        threads == Min({count, PcaWorkers})
    IN CHOOSE w \in 1..threads : /\ ThreadRows(count, threads, w).first <= place
                                 /\ place < ThreadRows(count, threads, w).last
RowAt(r, v) == [row |-> r, of |-> v]
Ranked(rows, i) == {r \in rows : Cardinality({q \in rows : q <= r}) = i}
Ascending(rows) == [i \in 1..Cardinality(rows) |-> CHOOSE r \in Ranked(rows, i) : TRUE]
RowsByThreads(rows, v) ==
    [w \in 1..PcaWorkers |->
        LET mine == Ascending({r \in rows : ThreadOf(r) = w})
        IN [i \in DOMAIN mine |-> <<RowAt(mine[i], v)>>]]
ByThreads(v) == RowsByThreads(1..NRows, v)
InChunks(first, last, size, v) ==
    [c \in 1..(last - first + size - 1) \div size |->
        [i \in 1..Min({size, last - first - (c - 1) * size}) |-> RowAt(first + (c - 1) * size + i, v)]]
ByGpu(v) == IF OnGpu THEN <<InChunks(0, NRows, pcaJob.chunk, v)>> ELSE ByThreads(v)

FitFrom(v) ==
    IF Wide THEN [p \in 1..MomentPasses |-> ByThreads(v)] \o <<ByGpu(v), ByGpu(v)>>
    ELSE IF Resident
    THEN <<IF pcaJob.centered THEN <<[r \in 1..NRows |-> RowAt(r, v)]>> ELSE <<>>,
           [k \in 1..pcaJob.workers |->
                LET s == ShardOf(k)
                IN InChunks(s.first, s.last, Min({pcaJob.chunk, s.last - s.first}), v)]>>
    ELSE <<IF pcaJob.centered THEN ByThreads(v) ELSE <<>>, ByGpu(v)>>
ScoresFrom(v) == [r \in 1..NRows |-> ScoreOf(FitFrom(v), RowAt(r, v))]

(* Whatever was interrupted, resumed from a record or changed in between,  *)
(* a fit that a manifest vouches for or a call returned is, sum by sum and *)
(* in the order of its additions, the one an uninterrupted call makes of   *)
(* one version of the matrix; each row has one score, by that fit; and no  *)
(* thread of a call goes on when the call is over.                         *)
PcaAsUninterrupted ==
    /\ pcaDisk.manifest # <<>> =>
          \E v \in 0..PcaVersions : /\ pcaDisk.manifest[1].fit = FitFrom(v)
                                    /\ pcaDisk.scores = <<ScoresFrom(v)>>
    /\ pcaDisk.init # <<>> => pcaDisk.init = pcaDisk.scores
    /\ pcaCall.result # <<>> =>
          pcaCall.result = <<[fit |-> FitFrom(0), scores |-> ScoresFrom(0)]>>
    /\ pcaCall.pc \in Over => Joined

(* "Resume reuses completed stages and overwrites any uncommitted          *)
(* partial-file tail" (docs/experimental-massive-assessment.md): a call    *)
(* that resumes is only refused when there is no record, the matrix is not *)
(* the recorded one, or the scores have their name already.                *)
PcaWorkResumes ==
    pcaCall.pc = "refused" /\ pcaCall.resume =>
        \/ pcaDisk.record = <<>> \/ pcaDisk.scores # <<>>
        \/ pcaDisk.record[1].sign # matrix

(* "After interruption, rerun pca(..., tsne_init = TRUE, resume = TRUE)    *)
(* with the same input and output to regenerate the initialization from    *)
(* verified scores" (docs/usage-api.md): such a call is not refused while  *)
(* the manifest vouches for scores without their initialization.           *)
InitRegenerated ==
    /\ pcaCall.pc = "refused" /\ pcaCall.resume /\ pcaJob.init
    /\ matrix = 0 /\ pcaDisk.manifest # <<>>
    => pcaDisk.manifest[1].init
=============================================================================
