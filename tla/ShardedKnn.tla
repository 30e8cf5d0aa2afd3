----------------------------- MODULE ShardedKnn -----------------------------
(***************************************************************************)
(* The sharded nearest-neighbour graph of R/massive_knn.R and              *)
(* src/massive_graph_merge.cpp, called with checkpoint = TRUE.  The        *)
(* reference rows are cut into shards.  For one shard after another the    *)
(* call builds an index, answers every row of the matrix from it and       *)
(* merges the answers, in place, into two partial files that hold K        *)
(* neighbour indices and K distances for each row.  The first shard        *)
(* appends the rows, every later shard rewrites them.  The sidecar records *)
(* the shard, the rows of it that are committed, and the pilot: what the   *)
(* shard's index answered on the first batch.                              *)
(*                                                                         *)
(* A file is the sequence of its rows; a row of neighbour indices is a     *)
(* tuple of K row numbers, 0 where there is none, and a row of distances a *)
(* tuple of K distances, Infinite where there is none.  A version of the   *)
(* source stands for everything the checkpoint signature hashes.           *)
(***************************************************************************)
EXTENDS Naturals, Sequences, FiniteSets

CONSTANTS NRow, K, ChunkRows, CheckpointEvery, NShards,
          Builds,           \* the indexes a build of a shard may come out as
          Returned(_, _, _, _),  \* in version v, ids build b of shard s has for row q
          Distance(_, _, _),     \* in version v, from row q to row i
          Missing, Infinite,  \* an absent file, sidecar or value; no distance
          MaxVersion,       \* bound: changes of the source
          MaxStops,         \* bound: crashes and in-process errors
          TornShards        \* shards in which a kill may hit a batch half written

Rows == 1..NRow
Ranks == 1..K
Versions == 0..MaxVersion
Shards == 0..(NShards - 1)
Files == {"indices", "distances"}
Points == {"idle", "build", "restore_i", "restore_d", "search", "merge_d",
           "save", "next_shard", "rename_d", "retire"}

ASSUME SizeAssumption ==
    /\ {NRow, K, ChunkRows, CheckpointEvery, NShards} \subseteq Nat \ {0}
    /\ K < NRow
    /\ 2 * NShards <= NRow
ASSUME BoundAssumption == MaxVersion \in Nat /\ MaxStops \in Nat

VARIABLES source,     \* version of the input, the controls and the code
          part,       \* the two .part files
          final,      \* the two files under their final names
          sidecar,    \* the checkpoint file
          stops,      \* how often a call has been interrupted
          pc,         \* control point of the running call, or "idle"
          saved,      \* its copy of the checkpoint state
          watched,    \* the source identity it started from
          build,      \* its index of the current shard
          next,       \* next row to answer
          merged      \* distances merged but not yet in their file

disk == <<source, part, final, sidecar>>
process == <<pc, saved, watched, build, next, merged>>
vars == <<disk, stops, process>>

-----------------------------------------------------------------------------
(* Shards, answers and rows.                                               *)

(* massive_index_shard: shards 0..NShards-1, the first ones a row longer.  *)
ShardRows(s) ==
    LET base  == NRow \div NShards
        extra == NRow % NShards
        first == 1 + s * base + (IF s < extra THEN s ELSE extra)
        count == base + (IF s < extra THEN 1 ELSE 0)
    IN first..(first + count - 1)

(* A search asks the index of a shard for K + 1 rows of it, or for all of   *)
(* them; distances compare as numbers, and Infinite stands behind them.    *)
ASSUME AnswerAssumption ==
    /\ \A v \in Versions, q \in Rows, i \in Rows : Distance(v, q, i) \in Nat
    /\ \A v \in Versions, b \in Builds, s \in Shards, q \in Rows :
          /\ Returned(v, b, s, q) \subseteq ShardRows(s)
          /\ \/ Returned(v, b, s, q) = ShardRows(s)
             \/ Cardinality(Returned(v, b, s, q) \ {q}) >= K

(* What is absent is no file, no record and no pilot. *)
States == [signature : Versions, shard : 0..NShards, completed_rows : 0..NRow,
           pilot_signature : {Missing} \cup
               [{q \in Rows : q <= ChunkRows} -> SUBSET (Nat \X Rows)]]
Contents == [indices |-> Seq([Ranks -> 0..NRow]),
             distances |-> Seq([Ranks -> Nat \cup {Infinite}])]
ASSUME MissingAssumption ==
    /\ Infinite \notin Nat
    /\ Missing \notin States /\ \A f \in Files : Missing \notin Contents[f]
    /\ Missing \notin [{q \in Rows : q <= ChunkRows} -> SUBSET (Nat \X Rows)]

Before(a, b) == a[1] < b[1] \/ (a[1] = b[1] /\ a[2] < b[2])

(* The (distance, id) pairs a batch brings for row q, itself excluded. *)
Candidates(v, b, s, q) ==
    {<<Distance(v, q, i), i>> : i \in Returned(v, b, s, q) \ {q}}

(* The best pair of each id, nearest first, at most K of them. *)
Best(pairs) == {c \in pairs : \A e \in pairs : e[2] = c[2] => c[1] <= e[1]}
Ahead(c, pairs) == {e \in pairs : Before(e, c)}
Select(pairs) ==
    LET best == Best(pairs)
        count == Cardinality(best)
    IN [r \in 1..(IF count < K THEN count ELSE K) |->
          CHOOSE c \in best : Cardinality(Ahead(c, best)) = r - 1]

IdRow(selected) ==
    [r \in Ranks |-> IF r <= Len(selected) THEN selected[r][2] ELSE 0]
DistanceRow(selected) ==
    [r \in Ranks |-> IF r <= Len(selected) THEN selected[r][1] ELSE Infinite]

(* The pairs a row on disk stands for, and the rows merge_row refuses. *)
Pairs(ids, dists) == {<<dists[r], ids[r]>> : r \in {r \in Ranks : ids[r] # 0}}
RowValid(ids, dists) == \A r \in Ranks : ids[r] # 0 => dists[r] # Infinite

(* Mutated form: the row read from the file is not merged with. *)
MergeReplacing(v, b, s, q, ids, dists) == Select(Candidates(v, b, s, q))

(* merge_row, for a row that is valid. *)
MergeRow(v, b, s, q, ids, dists) ==
    Select(Pairs(ids, dists) \cup Candidates(v, b, s, q))

(* massive_knn_probe_signature of the first batch. *)
Pilot(v, b, s) ==
    [q \in {q \in Rows : q <= ChunkRows} |->
        {<<Distance(v, q, i), i>> : i \in Returned(v, b, s, q)}]

Init ==
    /\ source = 0
    /\ part = [f \in Files |-> Missing]
    /\ final = [f \in Files |-> Missing]
    /\ sidecar = Missing
    /\ stops = 0
    /\ pc = "idle"
    /\ saved = Missing /\ watched = Missing /\ build = Missing
    /\ next = 1 /\ merged = <<>>

(* The call returns, by finishing or by stopping; its files stay. *)
EndCall ==
    /\ pc' = "idle"
    /\ saved' = Missing /\ watched' = Missing /\ build' = Missing
    /\ next' = 1 /\ merged' = <<>>

-----------------------------------------------------------------------------
(* Opening a call.                                                         *)

(* massive_knn_paths: the files on disk fit the kind of call. *)
PathsFit(resume) ==
    LET parts == {f \in Files : part[f] # Missing}
    IN /\ \A f \in Files : final[f] = Missing
       /\ ~resume => parts = {}
       /\ resume => parts \in {{}, Files}

(* Mutated form: the saved signature is not compared with the inputs. *)
VerifiedUnsigned == sidecar # Missing

(* massive_sharded_checkpoint: the saved state belongs to these inputs and *)
(* the partial files have the length it promises.                          *)
Verified ==
    /\ sidecar # Missing
    /\ sidecar.signature = source
    /\ sidecar.completed_rows = NRow \/ sidecar.completed_rows % ChunkRows = 0
    /\ sidecar.completed_rows > 0 => sidecar.pilot_signature # Missing
    /\ sidecar.shard = NShards => sidecar.completed_rows = 0
    /\ sidecar.shard > 0 \/ sidecar.completed_rows > 0 =>
          \A f \in Files : part[f] # Missing
    /\ \A f \in Files : part[f] # Missing =>
          Len(part[f]) >= IF sidecar.shard = 0 THEN sidecar.completed_rows ELSE NRow

(* A fresh call writes the first sidecar.  A call whose checks fail stops  *)
(* and leaves the disk as it was, which is a stuttering step.              *)
StartNew ==
    /\ pc = "idle"
    /\ PathsFit(FALSE)
    /\ sidecar = Missing
    /\ saved' = [signature |-> source, shard |-> 0, completed_rows |-> 0,
                 pilot_signature |-> Missing]
    /\ sidecar' = saved'
    /\ watched' = source
    /\ pc' = "build"
    /\ UNCHANGED <<source, part, final, stops, build, next, merged>>

Resume ==
    /\ pc = "idle"
    /\ PathsFit(TRUE)
    /\ Verified
    /\ saved' = sidecar
    /\ watched' = source
    /\ pc' = "build"
    /\ UNCHANGED <<disk, stops, build, next, merged>>

-----------------------------------------------------------------------------
(* One shard.                                                              *)

(* Mutated form: the rebuilt index is not probed. *)
ProbeNothing(b) == TRUE

(* massive_sharded_probe: before it changes a partial row, a rebuilt index *)
(* must answer the first batch as the index of the committed rows did.     *)
ProbeHolds(b) ==
    saved.completed_rows > 0 =>
        Pilot(source, b, saved.shard) = saved.pilot_signature

(* Reading a source that is not the one the call started from stops it. *)
BuildIndex ==
    /\ pc = "build" /\ saved.shard < NShards
    /\ source = watched
    /\ \E b \in Builds :
          IF ProbeHolds(b)
          THEN /\ build' = b
               /\ next' = saved.completed_rows + 1
               /\ pc' = IF saved.shard = 0 THEN "restore_i" ELSE "search"
               /\ UNCHANGED <<saved, watched, merged>>
          ELSE EndCall
    /\ UNCHANGED <<disk, stops>>

(* Mutated form: rows appended after the last commit are kept. *)
RestoredWhole(content) == content

(* massive_sharded_restore_first: rows after the committed ones go. *)
Restored(content) ==
    IF content = Missing THEN Missing
    ELSE SubSeq(content, 1, saved.completed_rows)

RestoreFirst(f, from, to) ==
    /\ pc = from
    /\ part' = [part EXCEPT ![f] = Restored(part[f])]
    /\ pc' = to
    /\ UNCHANGED <<source, final, sidecar, stops, saved, watched, build, next, merged>>

LastRow == IF next + ChunkRows - 1 <= NRow THEN next + ChunkRows - 1 ELSE NRow

Rank0 == [r \in Ranks |-> 0]
RankInfinite == [r \in Ranks |-> Infinite]

(* check_file_size: prior rows only for the first shard, all of them later. *)
SizeFits(f) ==
    LET rows == IF part[f] = Missing THEN 0 ELSE Len(part[f])
    IN rows = IF saved.shard = 0 THEN next - 1 ELSE NRow

OldIds(q) == IF saved.shard = 0 THEN Rank0 ELSE part["indices"][q]
OldDistances(q) == IF saved.shard = 0 THEN RankInfinite ELSE part["distances"][q]

MergedRow(q) ==
    MergeRow(source, build, saved.shard, q, OldIds(q), OldDistances(q))

(* The rows of the batch can be merged, and after the last shard every one *)
(* of them is full.                                                        *)
BatchFits ==
    /\ \A f \in Files : SizeFits(f)
    /\ \A q \in next..LastRow :
          /\ RowValid(OldIds(q), OldDistances(q))
          /\ NRow \in ShardRows(saved.shard) => Len(MergedRow(q)) = K

(* A file after the first j merged rows of the batch have reached it. *)
Written(content, rows, j) ==
    LET old == IF content = Missing THEN <<>> ELSE content
        end == next + j - 1
    IN [q \in 1..(IF Len(old) < end THEN end ELSE Len(old)) |->
          IF q \in next..end THEN rows[q] ELSE old[q]]

(* massive_sharded_batch up to the flush of the indices: every check and   *)
(* the whole computation come before the first byte of a block is written. *)
Batch == [q \in next..LastRow |-> MergedRow(q)]
BatchIds == [q \in next..LastRow |-> IdRow(Batch[q])]

MergeIndices ==
    /\ pc = "search" /\ next <= NRow
    /\ source = watched /\ BatchFits
    /\ part' = [part EXCEPT !["indices"] = Written(@, BatchIds, LastRow - next + 1)]
    /\ merged' = [q \in next..LastRow |-> DistanceRow(Batch[q])]
    /\ pc' = "merge_d"
    /\ UNCHANGED <<source, final, sidecar, stops, saved, watched, build, next>>

SaveNow == LastRow = NRow \/ (((LastRow + ChunkRows - 1) \div ChunkRows) % CheckpointEvery = 0)

(* The distances follow; the first batch of a shard is its pilot. *)
MergeDistances ==
    /\ pc = "merge_d"
    /\ part' = [part EXCEPT !["distances"] = Written(@, merged, LastRow - next + 1)]
    /\ saved' = [saved EXCEPT !.pilot_signature =
                   IF @ = Missing THEN Pilot(watched, build, saved.shard) ELSE @]
    /\ next' = LastRow + 1
    /\ merged' = <<>>
    /\ pc' = IF SaveNow THEN "save" ELSE "search"
    /\ UNCHANGED <<source, final, sidecar, stops, watched, build>>

SaveSidecar ==
    /\ pc = "save"
    /\ saved' = [saved EXCEPT !.completed_rows = next - 1]
    /\ sidecar' = saved'
    /\ pc' = "search"
    /\ UNCHANGED <<source, part, final, stops, watched, build, next, merged>>

NextShardState ==
    [saved EXCEPT !.shard = @ + 1, !.completed_rows = 0, !.pilot_signature = Missing]

EndShard ==
    /\ pc = "search" /\ next > NRow
    /\ saved' = NextShardState
    /\ sidecar' = saved'
    /\ build' = Missing
    /\ next' = 1
    /\ pc' = "build"
    /\ UNCHANGED <<source, part, final, stops, watched, merged>>

-----------------------------------------------------------------------------
(* massive_knn_finish, after the last shard.                               *)

FinishHolds == /\ source = watched
               /\ \A f \in Files : part[f] # Missing /\ Len(part[f]) = NRow

RenameIndices ==
    /\ pc = "build" /\ saved.shard = NShards
    /\ FinishHolds
    /\ final' = [final EXCEPT !["indices"] = part["indices"]]
    /\ part' = [part EXCEPT !["indices"] = Missing]
    /\ pc' = "rename_d"
    /\ UNCHANGED <<source, sidecar, stops, saved, watched, build, next, merged>>

RenameDistances ==
    /\ pc = "rename_d"
    /\ final' = [final EXCEPT !["distances"] = part["distances"]]
    /\ part' = [part EXCEPT !["distances"] = Missing]
    /\ pc' = "retire"
    /\ UNCHANGED <<source, sidecar, stops, saved, watched, build, next, merged>>

(* The second rename fails: the indices get their partial name back. *)
RestoreIndices ==
    /\ pc = "rename_d" /\ stops < MaxStops
    /\ stops' = stops + 1
    /\ part' = [part EXCEPT !["indices"] = final["indices"]]
    /\ final' = [final EXCEPT !["indices"] = Missing]
    /\ EndCall
    /\ UNCHANGED <<source, sidecar>>

RetireSidecar ==
    /\ pc = "retire"
    /\ sidecar' = Missing
    /\ EndCall
    /\ UNCHANGED <<source, part, final, stops>>

-----------------------------------------------------------------------------
(* What stops a call.                                                      *)

(* One of its own checks. *)
Refuse ==
    /\ \/ pc = "build" /\ source # watched
       \/ pc = "build" /\ saved.shard = NShards /\ ~FinishHolds
       \/ pc = "search" /\ next <= NRow /\ (source # watched \/ ~BatchFits)
    /\ EndCall
    /\ UNCHANGED <<disk, stops>>

(* An error or a kill between two file operations: on.exit removes nothing *)
(* from a call with a checkpoint, so both leave the same files.            *)
Interrupt ==
    /\ pc # "idle"
    /\ pc = "merge_d" => saved.shard \in TornShards
    /\ stops < MaxStops
    /\ stops' = stops + 1
    /\ EndCall
    /\ UNCHANGED disk

(* A kill while a batch is written: some rows have reached the file.  The  *)
(* distances follow when all of the indices are there.                     *)
TearIndices ==
    /\ pc = "search" /\ next <= NRow /\ saved.shard \in TornShards
    /\ source = watched /\ BatchFits
    /\ \E j \in 1..(LastRow - next) :
          part' = [part EXCEPT !["indices"] = Written(@, BatchIds, j)]

TearDistances ==
    /\ pc = "merge_d" /\ saved.shard \in TornShards
    /\ \E j \in 1..(LastRow - next) :
          part' = [part EXCEPT !["distances"] = Written(@, merged, j)]

TearBatch ==
    /\ stops < MaxStops
    /\ stops' = stops + 1
    /\ TearIndices \/ TearDistances
    /\ EndCall
    /\ UNCHANGED <<source, final, sidecar>>

ChangeSource ==
    /\ source < MaxVersion
    /\ source' = source + 1
    /\ UNCHANGED <<part, final, sidecar, stops, process>>

-----------------------------------------------------------------------------
Step == \/ BuildIndex
        \/ RestoreFirst("indices", "restore_i", "restore_d")
        \/ RestoreFirst("distances", "restore_d", "search")
        \/ MergeIndices \/ MergeDistances \/ SaveSidecar \/ EndShard
        \/ RenameIndices \/ RenameDistances \/ RetireSidecar
        \/ Refuse

Next == StartNew \/ Resume \/ Step
        \/ Interrupt \/ TearBatch \/ RestoreIndices \/ ChangeSource

Spec == Init /\ [][Next]_vars

-----------------------------------------------------------------------------
(* Properties.                                                             *)

(* What a file holds, under whichever of its names. *)
Data(f) == IF final[f] # Missing THEN final[f] ELSE part[f]

Published == \A f \in Files : final[f] # Missing

(* A row on disk is one of the graph of version v: true distances, nearest *)
(* first, no neighbour twice, never the row itself, and no gaps.           *)
TrueRow(v, q) ==
    LET ids == Data("indices")[q]
        dists == Data("distances")[q]
    IN \A r \in Ranks :
         IF ids[r] = 0 THEN dists[r] = Infinite
         ELSE /\ ids[r] # q
              /\ dists[r] = Distance(v, q, ids[r])
              /\ r > 1 => /\ ids[r - 1] # 0
                          /\ Before(<<dists[r - 1], ids[r - 1]>>, <<dists[r], ids[r]>>)

(* Nothing build b of shard s found for row q has been lost: it is in the  *)
(* row, or the row is full of pairs before it.                             *)
Absorbed(v, b, s, q) ==
    LET held == Pairs(Data("indices")[q], Data("distances")[q])
    IN \A c \in Candidates(v, b, s, q) :
         c \in held \/ (Cardinality(held) = K /\ \A e \in held : Before(e, c))

(* Rows merged for good: of every finished shard, and the committed rows   *)
(* of the current one.                                                     *)
Committed(s) == IF s < sidecar.shard THEN Rows
                ELSE IF s = sidecar.shard THEN 1..sidecar.completed_rows ELSE {}

(* Rows whose two files are between the two writes of a batch. *)
Underway == IF pc = "merge_d" THEN next..LastRow ELSE {}

(* What the sidecar has committed is on disk whatever was interrupted      *)
(* since, although later batches and later shards rewrite the same rows in *)
(* place: the rows of both files pair true distances with their ids, and   *)
(* no answer of a committed shard is lost.  The committed rows of the      *)
(* current shard hold the answers of indexes that agree on its pilot.      *)
CommittedAnswersKept ==
    sidecar # Missing =>
        \A s \in Shards : \A q \in Committed(s) \ Underway :
            /\ TrueRow(sidecar.signature, q)
            /\ \E b \in Builds :
                 /\ Absorbed(sidecar.signature, b, s, q)
                 /\ s = sidecar.shard =>
                      Pilot(sidecar.signature, b, s) = sidecar.pilot_signature

(* All that the builds "used" of each shard returned for row q.            *)
Gathered(v, used, q) ==
    UNION {UNION {Candidates(v, b, s, q) : b \in used[s]} : s \in Shards}

(* "A replayed incomplete batch is merged idempotently" (docs/             *)
(* experimental-massive-assessment.md): however often a call was           *)
(* interrupted and its batches replayed, each row of a published graph is  *)
(* the merge of what some indexes of each shard answered, all from one     *)
(* version of the source; so it is the row of an uninterrupted call when   *)
(* the indexes are rebuilt as they were.                                   *)
ReplayIdempotent ==
    Published =>
        \E v \in Versions : \A q \in Rows :
            \E used \in [Shards -> (SUBSET Builds) \ {{}}] :
                LET row == Select(Gathered(v, used, q))
                IN /\ Len(row) = K
                   /\ Data("indices")[q] = IdRow(row)
                   /\ Data("distances")[q] = DistanceRow(row)

(* The two files a stop can leave that no later call accepts: one of them  *)
(* created or renamed alone.                                               *)
OneAlone == \/ Published
            \/ {part["indices"], part["distances"]} \cap {Missing} # {}
               /\ \E f \in Files : part[f] # Missing \/ final[f] # Missing

(* Work with a checkpoint can always be continued: a stop anywhere else    *)
(* leaves files that a call on the same source accepts, and that its       *)
(* merges then fit; restored rows, a shard boundary or a half-written      *)
(* first shard never make a later call refuse.                             *)
ResumeAccepted ==
    /\ pc = "idle" /\ sidecar # Missing /\ sidecar.signature = source =>
          (PathsFit(TRUE) /\ Verified) \/ OneAlone
    /\ pc = "search" /\ next <= NRow /\ source = watched => BatchFits
=============================================================================
