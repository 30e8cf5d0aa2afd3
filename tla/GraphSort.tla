------------------------------ MODULE GraphSort ------------------------------
(***************************************************************************)
(* The external sort that turns a directed KNN graph into a symmetric CSR  *)
(* graph: massive_umap_fuzzy_graph and massive_tsne_affinities             *)
(* (R/massive_graph.R) over massive_symmetrize_graph_cpp                   *)
(* (src/massive_matrix.cpp), with sort_method = "global".                  *)
(*                                                                         *)
(* The directed edges are read in blocks and spilled as sorted runs into a *)
(* work directory; runs are merged until at most FanIn are left; the pairs *)
(* are merged into row records, spilled and merged in the same way, and    *)
(* written as three CSR files.  With checkpoint = TRUE a sidecar names the *)
(* runs that count as committed, and a later call with resume = TRUE goes  *)
(* on from them.                                                           *)
(*                                                                         *)
(* A file holds a set of records.  A record carries the version of the     *)
(* source it was read from; a weight is kept as the directed edges it was  *)
(* computed from.  All weights are positive and no directed edge occurs    *)
(* twice in the input (a duplicate stops the call).                        *)
(***************************************************************************)
EXTENDS Naturals, Sequences, FiniteSets, FiniteSetsExt, Functions

CONSTANTS Input,       \* the directed edges <<source, target>>, row by row
          BlockEdges,  \* edges of one block of rows
          Every,       \* checkpoint_every: blocks between commits
          Cap,         \* capacity: records of a run
          FanIn,       \* runs of the last merge (32)
          Missing,     \* no such file
          MaxVersion,  \* bound: changes of the source
          MaxStops     \* bound: interrupted calls

ASSUME InputAssumption ==
    /\ Input \in Seq(Nat \X Nat) /\ Len(Input) > 0
    /\ \A i, j \in DOMAIN Input : Input[i] = Input[j] => i = j
    /\ \A i \in DOMAIN Input : Input[i][1] # Input[i][2]
ASSUME SizeAssumption == /\ BlockEdges \in Nat \ {0} /\ Every \in Nat \ {0}
                         /\ Cap \in Nat \ {0} /\ FanIn \in Nat \ {0, 1}
ASSUME BoundAssumption == MaxVersion \in Nat /\ MaxStops \in Nat

NEdge == Len(Input)
Versions == 0..MaxVersion
Phases == {"pairs_input", "pairs_reduced", "rows_generated", "rows_reduced"}
CsrFiles == <<"offsets", "indices", "weights">>
Modes == {"plain", "new", "resume"}
Points == {"idle", "open", "scan", "merge", "commit", "emit", "drop", "csr",
           "clear", "publish", "close", "vouch", "retire"}

Torn == {Missing}                   \* what a file holds that was being written at a stop
NoDir == [n \in {Missing} |-> {}]   \* there is no work directory

(* A pair record and a row record. *)
Pair(i, v) == [edge |-> {Input[i][1], Input[i][2]}, from |-> Input[i][1], of |-> v]

Rows(pairs) ==
    {[source |-> e[1], target |-> e[2],
      weight |-> {<<p.from, p.of>> : p \in {q \in pairs : q.edge = {e[1], e[2]}}}]
        : e \in UNION {{d \in p.edge \X p.edge : d[1] # d[2]} : p \in pairs}}

(* The symmetric graph of a version of the source. *)
Graph(v) == Rows({Pair(i, v) : i \in 1..NEdge})

(* That there is no file is no run, no record and no file. *)
RunNames == [kind : {"pairs", "rows"}, op : {"run", "merge"}, number : Nat]
PairRecords == {Pair(i, v) : i \in 1..NEdge, v \in Versions}
RowRecords == [source : Nat, target : Nat, weight : SUBSET (Nat \X Versions)]
ASSUME MissingAssumption ==
    /\ Missing \notin RunNames /\ Missing \notin RowRecords
    /\ \A pairs \in SUBSET PairRecords : Missing # Rows(pairs)

VARIABLES source,    \* version of the KNN files
          work,      \* the work directory: run name -> records, or NoDir
          part,      \* CSR file -> what its .part holds, or Missing
          final,     \* CSR file -> what it holds, or Missing
          manifest,  \* the hashes of the CSR files, or Missing
          sidecar,   \* .sort-checkpoint.rds, or Missing
          stops,
          pc, mode,
          opened,    \* version the caller's descriptor was validated at
          done,      \* edges read
          buffer,    \* records not yet spilled
          runs,      \* names of the runs in hand
          fresh,     \* names of the runs that replace them
          left       \* row records not yet spilled

disk == <<work, part, final, manifest, sidecar>>
process == <<pc, mode, opened, done, buffer, runs, fresh, left>>
vars == <<source, disk, stops, process>>

Files == Range(CsrFiles)
Nothing == [f \in Files |-> Missing]
Empty == [n \in {} |-> {}]
RunName(kind, op, number) == [kind |-> kind, op |-> op, number |-> number]

Contents(dir, names) == UNION {dir[n] : n \in names}
Amount(dir, names) == MapThenSumSet(LAMBDA n : Cardinality(dir[n]), names)
Add(dir, name, records) ==
    [n \in DOMAIN dir \cup {name} |-> IF n = name THEN records ELSE dir[n]]
Unlinked(dir, names) == [n \in DOMAIN dir \ names |-> dir[n]]

ProcessInit ==
    /\ pc = "idle" /\ mode = "plain" /\ opened = Missing /\ done = 0
    /\ buffer = {} /\ runs = {} /\ fresh = {} /\ left = {}

Init ==
    /\ source = 0
    /\ work = NoDir /\ part = Nothing /\ final = Nothing
    /\ manifest = Missing /\ sidecar = Missing
    /\ stops = 0
    /\ ProcessInit

EndCall == /\ pc' = "idle" /\ mode' = "plain" /\ opened' = Missing /\ done' = 0
           /\ buffer' = {} /\ runs' = {} /\ fresh' = {} /\ left' = {}

Checkpointed == mode # "plain"

-----------------------------------------------------------------------------
(* The start of a call.                                                    *)

RowPhase(s) == s.phase \in {"rows_generated", "rows_reduced"}

(* massive_graph_sort_run_identity: the recorded runs are the files in the *)
(* work directory, their names fit the phase, their sizes the progress.    *)
NamesFit(s) ==
    LET names == DOMAIN s.runs
    IN CASE s.phase = "pairs_input" ->
              names = {RunName("pairs", "run", i) : i \in 0..(Cardinality(names) - 1)}
         [] s.phase = "pairs_reduced" -> \A n \in names : n.kind = "pairs"
         [] s.phase = "rows_generated" -> \A n \in names : n.kind = "rows" /\ n.op = "run"
         [] s.phase = "rows_reduced" -> \A n \in names : n.kind = "rows"

SizesFit(s) ==
    LET size == Amount(s.runs, DOMAIN s.runs)
    IN IF RowPhase(s) THEN size \in 1..(2 * NEdge) ELSE size = s.completed

RunsIntact(s) ==
    \A n \in DOMAIN s.runs : n \in DOMAIN work /\ work[n] = s.runs[n]

(* massive_graph_sort_state, with resume = TRUE. *)
StateFits ==
    /\ sidecar.signature = source
    /\ sidecar.completed = NEdge \/ sidecar.completed % BlockEdges = 0
    /\ sidecar.phase = "pairs_input" \/ (sidecar.completed = NEdge /\ DOMAIN sidecar.runs # {})
    /\ NamesFit(sidecar) /\ SizesFit(sidecar) /\ RunsIntact(sidecar)

(* massive_umap_fuzzy_preflight *)
Preflight(m) ==
    /\ final = Nothing /\ manifest = Missing
    /\ IF m = "resume" THEN sidecar # Missing
       ELSE part = Nothing /\ work = NoDir /\ sidecar = Missing

CanResume == Preflight("resume") /\ StateFits

Start(m) ==
    /\ pc = "idle"
    /\ IF m = "resume" THEN CanResume ELSE Preflight(m)
    /\ sidecar' = IF m = "new"
                  THEN [signature |-> source, completed |-> 0,
                        phase |-> "pairs_input", runs |-> Empty]
                  ELSE sidecar
    /\ mode' = m /\ opened' = source /\ pc' = "open"
    /\ UNCHANGED <<source, work, part, final, manifest, stops, done, buffer, runs, fresh, left>>

(* Mutated form: runs the checkpoint does not name stay in the directory. *)
RetainedAll == work

Retained == Unlinked(work, DOMAIN work \ DOMAIN sidecar.runs)

(* The work directory is created, or cleared of what is not committed. *)
OpenWork ==
    /\ pc = "open"
    /\ IF mode = "resume"
       THEN /\ work' = IF work = NoDir THEN Empty ELSE Retained
            /\ part' = Nothing
            /\ runs' = DOMAIN sidecar.runs
            /\ done' = sidecar.completed
            /\ pc' = IF RowPhase(sidecar) THEN "merge" ELSE "scan"
       ELSE work' = Empty /\ pc' = "scan" /\ UNCHANGED <<part, runs, done>>
    /\ UNCHANGED <<source, final, manifest, sidecar, stops, mode, opened, buffer, fresh, left>>

-----------------------------------------------------------------------------
(* The input scan.                                                         *)

NextPairRun == RunName("pairs", "run", Cardinality(runs))

(* GraphRunSorter::spill: the buffer becomes a run of its own. *)
Spilled(records) == IF records = {} THEN work ELSE Add(work, NextPairRun, records)
SpilledRuns(records) == IF records = {} THEN runs ELSE runs \cup {NextPairRun}

(* A commit is due after Every blocks of this call and after the last one. *)
Due == /\ Checkpointed /\ done # sidecar.completed
       /\ done - sidecar.completed = Every * BlockEdges \/ done = NEdge

Full(records) == Cardinality(records) = Cap

(* One edge is read, as the file has it now. *)
Push ==
    /\ pc = "scan" /\ done < NEdge /\ ~Due
    /\ LET filled == buffer \cup {Pair(done + 1, source)}
           spilling == IF Full(filled) THEN filled ELSE {}
       IN /\ buffer' = filled \ spilling
          /\ work' = Spilled(spilling) /\ runs' = SpilledRuns(spilling)
    /\ done' = done + 1
    /\ UNCHANGED <<source, part, final, manifest, sidecar, stops, pc, mode, opened, fresh, left>>

Record(dir, names) == [n \in names |-> dir[n]]

(* GraphRunSorter::checkpoint and massive_graph_sort_progress in its first *)
(* phase: the runs so far are recorded with the number of edges they hold. *)
(* (The callbacks also stop when sizes and progress disagree.)             *)
CommitPairs ==
    /\ pc = "scan" /\ Due
    /\ work' = Spilled(buffer) /\ runs' = SpilledRuns(buffer) /\ buffer' = {}
    /\ sidecar' = [sidecar EXCEPT !.completed = done, !.runs = Record(work', runs')]
    /\ UNCHANGED <<source, part, final, manifest, stops, pc, mode, opened, done, fresh, left>>

PhaseKept == sidecar.phase

(* The scan is over.  A call that resumed at its end reports the runs it   *)
(* was given once more.                                                    *)
EndScan ==
    /\ pc = "scan" /\ done = NEdge /\ ~Due
    /\ work' = Spilled(buffer) /\ runs' = SpilledRuns(buffer) /\ buffer' = {}
    /\ sidecar' = IF Checkpointed THEN [sidecar EXCEPT !.phase = PhaseKept] ELSE sidecar
    /\ pc' = "merge"
    /\ UNCHANGED <<source, part, final, manifest, stops, mode, opened, done, fresh, left>>

-----------------------------------------------------------------------------
(* reduce_graph_runs and the merges between its phases.                    *)

Kind == IF \E n \in runs : n.kind = "rows" THEN "rows" ELSE "pairs"

(* Mutated form: every merge writes the same run. *)
RoundZero == 0

Round == Max({0} \cup {n.number + 1 : n \in {m \in runs : m.op = "merge"}})

(* The smallest runs; the names order runs of equal size. *)
IsGroup(group) ==
    /\ Cardinality(group) = Min({FanIn, Cardinality(runs) - FanIn + 1})
    /\ \A n \in group, m \in runs \ group : Cardinality(work[n]) <= Cardinality(work[m])

MergeGroup ==
    /\ pc = "merge" /\ Cardinality(runs) > FanIn
    /\ \E group \in SUBSET runs :
          /\ IsGroup(group)
          /\ LET name == RunName(Kind, "merge", Round)
             IN /\ work' = Add(work, name, Contents(work, group))
                /\ fresh' = (runs \ group) \cup {name}
    /\ pc' = IF Checkpointed THEN "commit" ELSE "drop"
    /\ UNCHANGED <<source, part, final, manifest, sidecar, stops, mode, opened, done, buffer, runs, left>>

(* massive_graph_sort_phase_progress *)
Recorded(phase) == sidecar' = [sidecar EXCEPT !.phase = phase, !.runs = Record(work, fresh)]

CommitMerge ==
    /\ pc = "commit"
    /\ Recorded(IF Kind = "pairs" THEN "pairs_reduced" ELSE "rows_reduced")
    /\ pc' = "drop"
    /\ UNCHANGED <<source, work, part, final, manifest, stops, mode, opened, done, buffer, runs, fresh, left>>

(* The runs that were replaced are removed. *)
DropReplaced ==
    /\ pc = "drop"
    /\ work' = Unlinked(work, runs \ fresh)
    /\ runs' = fresh /\ fresh' = {}
    /\ pc' = "merge"
    /\ UNCHANGED <<source, part, final, manifest, sidecar, stops, mode, opened, done, buffer, left>>

(* The pairs are merged into row records.  The merge that counts them and  *)
(* stops at a directed edge that occurs twice comes first.                 *)
SymmetrizePairs ==
    /\ pc = "merge" /\ Kind = "pairs" /\ Cardinality(runs) <= FanIn
    /\ left' = Rows(Contents(work, runs))
    /\ pc' = "emit"
    /\ UNCHANGED <<source, disk, stops, mode, opened, done, buffer, runs, fresh>>

(* Rows are pushed pair by pair, in the order of the pairs. *)
Key(r) == IF r.source < r.target THEN <<r.source, r.target, 0>> ELSE <<r.target, r.source, 1>>
Before(r, q) == \E i \in 1..3 : /\ Key(r)[i] < Key(q)[i]
                                /\ \A j \in 1..(i - 1) : Key(r)[j] = Key(q)[j]

SpillRows ==
    /\ pc = "emit" /\ left # {}
    /\ LET run == {r \in left : Cardinality({q \in left : Before(q, r)}) < Cap}
           name == RunName("rows", "run", Cardinality(fresh))
       IN /\ work' = Add(work, name, run)
          /\ fresh' = fresh \cup {name}
          /\ left' = left \ run
    /\ UNCHANGED <<source, part, final, manifest, sidecar, stops, pc, mode, opened, done, buffer, runs>>

CommitRows ==
    /\ pc = "emit" /\ left = {}
    /\ IF Checkpointed THEN Recorded("rows_generated") ELSE UNCHANGED sidecar
    /\ pc' = "drop"
    /\ UNCHANGED <<source, work, part, final, manifest, stops, mode, opened, done, buffer, runs, fresh, left>>

-----------------------------------------------------------------------------
(* The CSR files.                                                          *)

OpenCsr ==
    /\ pc = "merge" /\ Kind = "rows" /\ Cardinality(runs) <= FanIn
    /\ part' = [f \in Files |-> Torn]
    /\ pc' = "csr"
    /\ UNCHANGED <<source, work, final, manifest, sidecar, stops, mode, opened, done, buffer, runs, fresh, left>>

WriteCsr ==
    /\ pc = "csr"
    /\ part' = [f \in Files |-> Contents(work, runs)]
    /\ pc' = "clear"
    /\ UNCHANGED <<source, work, final, manifest, sidecar, stops, mode, opened, done, buffer, runs, fresh, left>>

(* The row runs are removed one by one, before any file has its name. *)
RemoveRows ==
    /\ pc = "clear"
    /\ \E n \in runs : work' = Unlinked(work, {n}) /\ runs' = runs \ {n}
    /\ pc' = IF runs' = {} THEN "publish" ELSE "clear"
    /\ UNCHANGED <<source, part, final, manifest, sidecar, stops, mode, opened, done, buffer, fresh, left>>

Publish ==
    /\ pc = "publish"
    /\ \E i \in 1..3 :
          LET f == CsrFiles[i]
          IN /\ \A j \in 1..3 : (part[CsrFiles[j]] = Missing) <=> (j < i)
             /\ final' = [final EXCEPT ![f] = part[f]]
             /\ part' = [part EXCEPT ![f] = Missing]
             /\ pc' = IF i = 3 THEN "close" ELSE "publish"
    /\ UNCHANGED <<source, work, manifest, sidecar, stops, mode, opened, done, buffer, runs, fresh, left>>

(* A file that is left in the work directory stops the call. *)
CloseWork ==
    /\ pc = "close"
    /\ IF work = Empty
       THEN /\ work' = NoDir /\ pc' = "vouch"
            /\ UNCHANGED <<mode, opened, done, buffer, runs, fresh, left>>
       ELSE EndCall /\ UNCHANGED work
    /\ UNCHANGED <<source, part, final, manifest, sidecar, stops>>

(* Mutated form: the input is not looked at again after the sort. *)
InputUnwatched == TRUE

(* massive_checkpoint_validated_graph_identity *)
InputHolds == opened = source

(* massive_graph_hash: the manifest holds the hashes of the files. *)
WriteManifest ==
    /\ pc = "vouch"
    /\ IF InputHolds
       THEN /\ manifest' = final
            /\ pc' = "retire" /\ UNCHANGED <<mode, opened, done, buffer, runs, fresh, left>>
       ELSE EndCall /\ UNCHANGED manifest
    /\ UNCHANGED <<source, work, part, final, sidecar, stops>>

RetireSidecar ==
    /\ pc = "retire"
    /\ sidecar' = Missing
    /\ EndCall
    /\ UNCHANGED <<source, work, part, final, manifest, stops>>

-----------------------------------------------------------------------------
(* The run that is being written at a point. *)
Writing ==
    CASE pc = "scan" /\ buffer # {} -> {NextPairRun}
      [] pc = "merge" /\ Cardinality(runs) > FanIn -> {RunName(Kind, "merge", Round)}
      [] pc = "emit" /\ left # {} -> {RunName("rows", "run", Cardinality(fresh))}
      [] OTHER -> {}

(* A kill, an R error or a user interrupt: the call cleans nothing up, and *)
(* a run that was being written is torn.                                   *)
Interrupt ==
    /\ pc # "idle" /\ stops < MaxStops
    /\ stops' = stops + 1
    /\ \/ UNCHANGED work
       \/ \E n \in Writing : work' = Add(work, n, Torn)
    /\ EndCall
    /\ UNCHANGED <<source, part, final, manifest, sidecar>>

(* Another program rewrites the source. *)
ChangeSource ==
    /\ source < MaxVersion
    /\ source' = source + 1
    /\ UNCHANGED <<disk, stops, process>>

Step == \/ OpenWork \/ Push \/ CommitPairs \/ EndScan
        \/ MergeGroup \/ CommitMerge \/ DropReplaced
        \/ SymmetrizePairs \/ SpillRows \/ CommitRows
        \/ OpenCsr \/ WriteCsr \/ RemoveRows \/ Publish
        \/ CloseWork \/ WriteManifest \/ RetireSidecar

Next == (\E m \in Modes : Start(m)) \/ Step \/ Interrupt \/ ChangeSource

Spec == Init /\ [][Next]_vars

(* A running call keeps running, and the caller keeps resuming. *)
FairSpec == Spec /\ WF_vars(Step) /\ SF_vars(Start("resume"))

-----------------------------------------------------------------------------
(* Properties.                                                             *)

(* The directed edges a set of pair records holds. *)
EdgesOf(pairs) == {<<p.from, CHOOSE t \in p.edge : t # p.from>> : p \in pairs}

(* The runs of the sidecar hold everything it counts as committed, once. *)
RunsCover(s) ==
    LET all == Contents(s.runs, DOMAIN s.runs)
    IN /\ \A m, n \in DOMAIN s.runs : m # n => s.runs[m] \cap s.runs[n] = {}
       /\ IF RowPhase(s)
          THEN {<<r.source, r.target>> : r \in all} =
                   {<<r.source, r.target>> : r \in Graph(0)}
          ELSE EdgesOf(all) = {Input[i] : i \in 1..s.completed}

(* A CSR file is whole, under either name. *)
Whole(f) ==
    \E records \in {part[f], final[f]} \ {Missing, Torn} :
        {<<r.source, r.target>> : r \in records} = {<<r.source, r.target>> : r \in Graph(0)}
WholeCsr == \A f \in Files : Whole(f)

(* Work that was committed is never lost: until the sidecar goes, the runs *)
(* it names hold every edge (or row) it counts, once, and they are on disk *)
(* as recorded, or else the CSR files hold the whole graph.  The unlink of *)
(* merged runs, the removal of the row runs and the deletion of what a     *)
(* resumed call does not retain must not come too early.                   *)
CommittedWorkKept ==
    sidecar # Missing => RunsCover(sidecar) /\ (RunsIntact(sidecar) \/ WholeCsr)

(* A manifest vouches for its graph: the three files are the ones it has   *)
(* the hashes of, and they are exactly the symmetric graph of one version  *)
(* of the input, although the input may change while it is read and runs   *)
(* of several calls were merged.                                           *)
ManifestVouches ==
    manifest # Missing =>
        final = manifest /\ \E v \in Versions : \A f \in Files : final[f] = Graph(v)

(* A call has stopped between the complete CSR files and the manifest. *)
StoppedHandingOver ==
    /\ pc = "idle" /\ sidecar # Missing /\ WholeCsr
    /\ work = NoDir \/ DOMAIN work \subseteq DOMAIN sidecar.runs

(* A sort with a checkpoint ends with a manifest if its calls are repeated *)
(* and its input stays, unless a call stops while it hands over.  What an  *)
(* interrupted call left in the work directory must not stop a later one.  *)
SortFinishes ==
    sidecar # Missing ~>
        \/ manifest # Missing
        \/ sidecar # Missing /\ sidecar.signature # source
        \/ StoppedHandingOver

(* "Uncommitted runs and merge files are discarded on resume; the final    *)
(* merge and CSR write repeat ... If final output files exist but their    *)
(* manifest was not committed, manual inspection is still required"        *)
(* (docs/experimental-massive-assessment.md): while no final file exists,  *)
(* the sort can be resumed.                                                *)
InterruptedSortResumes ==
    pc = "idle" /\ sidecar # Missing /\ sidecar.signature = source /\ final = Nothing
        => CanResume
=============================================================================
