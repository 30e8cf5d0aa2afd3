------------------------- MODULE FullBackedPipeline -------------------------
(***************************************************************************)
(* One call that embeds a file-backed matrix: R/full_backed_pipeline.R     *)
(* with R/full_backed_recovery.R.  It runs the stages one after another,   *)
(* each leaving files next to the output:                                  *)
(*   UMAP   knn, membership, graph, init (spectral, from the graph), fit   *)
(*   t-SNE  knn, graph, init (principal components of the data), fit       *)
(* With checkpoint = TRUE a record (stem.pipeline.rds) signed for the data *)
(* and the controls names the completed stages with the identity of their  *)
(* files; a later call with resume = TRUE skips those, lets the stage that *)
(* was interrupted resume from its own native checkpoint, and at the end   *)
(* removes the KNN files and the record.                                   *)
(*                                                                         *)
(* What a stage has on disk:                                               *)
(*   "none"    nothing                                                     *)
(*   "part"    a .part file but no native checkpoint: the spectral         *)
(*             initialization, or a mapped fit before its first snapshot   *)
(*   "signed"  the native checkpoint of a search that has no files yet     *)
(*   "begun"   a native checkpoint to resume from                          *)
(*   "torn"    a native checkpoint and files that disagree with it         *)
(*   "naming"  past the native checkpoint, before the stage has returned   *)
(*   "done"    what the stage returned                                     *)
(*   "cut"     KNN files that are being removed                            *)
(* and the version of the data it was made from: Mixed if from several,    *)
(* Foreign after another program has rewritten it.                         *)
(***************************************************************************)
EXTENDS Naturals, Sequences, FiniteSets

CONSTANTS Routes,           \* the kinds of call: a method, mapped or not, keep_knn
          Missing,          \* no record, no result
          Mixed, Foreign,   \* lineages that are no version
          MaxVersion,       \* bound: changes of the data
          MaxStops,         \* bound: interrupted calls
          MaxTampers,       \* bound: rewritten stage files
          StopAt            \* <<control point, stage>> where a call may stop

ASSUME RouteAssumption ==
    /\ Routes \subseteq [method : {"umap", "tsne"}, mapped : BOOLEAN, keep_knn : BOOLEAN]
    /\ \A r \in Routes : r.mapped => r.method = "umap"
ASSUME BoundAssumption == /\ MaxVersion \in Nat /\ MaxStops \in Nat
                          /\ MaxTampers \in Nat

Versions == 0..MaxVersion
ASSUME ValueAssumption == /\ Missing \notin Versions /\ Mixed \notin Versions
                          /\ Foreign \notin Versions
                          /\ Missing # Mixed /\ Missing # Foreign /\ Mixed # Foreign

Modes == {"plain", "new", "resume"}
Points == {"idle", "create", "stage", "work", "window", "publish", "record",
           "finalize", "unlink", "retire"}

AllStages == {"knn", "membership", "graph", "init", "fit"}

(* What a record holds; that there is none is no record. *)
Lineages == Versions \cup {Missing, Mixed, Foreign}
RecordsOf(stages) == [signature : Versions, stages : [stages -> Lineages]]
ASSUME RecordAssumption == \A stages \in SUBSET AllStages : Missing \notin RecordsOf(stages)

VARIABLES route,     \* the kind of call
          source,    \* version of the data file
          state,     \* what each stage has on disk
          made,      \* from which version
          record,    \* stem.pipeline.rds
          returned,  \* lineage of the fit the caller received
          stops,     \* <<control point, stage>> where calls were interrupted
          tampers,   \* stages rewritten by others
          pc, mode,
          at,        \* stage in hand, an index of Order
          opened     \* version of the caller's descriptor of the data

disk == <<state, made, record>>
process == <<pc, mode, at, opened>>
vars == <<route, source, disk, returned, stops, tampers, process>>

Method == route.method
Mapped == route.mapped      \* the fit keeps its layout in the output's .part
KeepKnn == route.keep_knn

Order == IF Method = "umap" THEN <<"knn", "membership", "graph", "init", "fit">>
         ELSE <<"knn", "graph", "init", "fit">>
Stages == {Order[i] : i \in DOMAIN Order}
KnnStages == {"knn", "membership"} \cap Stages   \* stages of the KNN files

Init ==
    /\ route \in Routes
    /\ source = 0
    /\ state = [s \in Stages |-> "none"]
    /\ made = [s \in Stages |-> Missing]
    /\ record = Missing /\ returned = Missing
    /\ stops = <<>> /\ tampers = 0
    /\ pc = "idle" /\ mode = "plain" /\ at = 1 /\ opened = Missing

EndCall == pc' = "idle" /\ mode' = "plain" /\ at' = 1 /\ opened' = Missing

Goto(p) == pc' = p /\ UNCHANGED <<mode, at, opened>>

Stage == Order[at]
Checkpointed == mode # "plain"
Recorded(s) == record # Missing /\ record.stages[s] # Missing

(* Mutated form: the files of a recorded stage are taken as they are. *)
IntactUnread(s) == state[s] = "done"

(* full_backed_checkpoint_get: the files are the recorded ones. *)
Intact(s) == state[s] = "done" /\ made[s] = record.stages[s]

-----------------------------------------------------------------------------
(* full_backed_pipeline_start.                                             *)

(* Mutated form: any record will do. *)
RecordFitsUnsigned == record # Missing

(* full_backed_checkpoint_open, with resume = TRUE. *)
RecordFits == record # Missing /\ record.signature = source

(* full_backed_checkpoint_completed: a recorded fit is only finalized. *)
ResumePoint == IF Recorded("fit") THEN "finalize" ELSE "stage"

Start(m) ==
    /\ pc = "idle"
    /\ IF m = "resume" THEN RecordFits
       ELSE record = Missing /\ \A s \in Stages : state[s] = "none"
    /\ mode' = m
    /\ opened' = source
    /\ at' = 1
    /\ pc' = CASE m = "plain" -> "stage"
               [] m = "new" -> "create"
               [] m = "resume" -> ResumePoint
    /\ (m = "resume" /\ Recorded("fit")) => Intact("fit")
    /\ UNCHANGED <<route, source, disk, returned, stops, tampers>>

CreateRecord ==
    /\ pc = "create"
    /\ record' = [signature |-> source, stages |-> [s \in Stages |-> Missing]]
    /\ Goto("stage")
    /\ UNCHANGED <<route, source, state, made, returned, stops, tampers>>

-----------------------------------------------------------------------------
(* One stage.                                                              *)

NextStage == pc' = "stage" /\ at' = at + 1 /\ UNCHANGED <<mode, opened>>

(* Stages a call has no work for: recorded ones; and the memberships, for  *)
(* the bucketed graph sort of the plain route computes them itself.        *)
Skips(s) == IF Checkpointed THEN Recorded(s) ELSE s = "membership"

(* A recorded stage is skipped if its files are intact. *)
SkipStage ==
    /\ pc = "stage" /\ Skips(Stage)
    /\ IF Checkpointed => Intact(Stage) THEN NextStage ELSE EndCall
    /\ UNCHANGED <<route, source, disk, returned, stops, tampers>>

(* Mutated form: a partial spectral initialization stops the call, too. *)
RefusedPart(s) == state[s] \in {"part", "torn", "naming", "done", "cut"}

(* Files under final names or that disagree with the native checkpoint, or *)
(* a .part without one that is not the spectral initialization's, stop the *)
(* call.                                                                   *)
Refused(s) == \/ state[s] \in {"torn", "naming", "done", "cut"}
              \/ state[s] = "part" /\ s = "fit"

RefuseStage ==
    /\ pc = "stage" /\ ~Skips(Stage) /\ Refused(Stage)
    /\ EndCall
    /\ UNCHANGED <<route, source, disk, returned, stops, tampers>>

(* What a stage is made from. *)
Reads(s) ==
    CASE s = "knn" -> {opened}
      [] s = "membership" -> {made["knn"]}
      [] s = "graph" -> {made[IF Checkpointed /\ Method = "umap" THEN "membership" ELSE "knn"]}
      [] s = "init" -> IF Method = "umap" THEN {made["graph"]} ELSE {opened}
      [] s = "fit" -> {made["graph"], made["init"]}

Lineage(s) == IF \E v \in Reads(s) : Reads(s) = {v}
              THEN CHOOSE v \in Reads(s) : TRUE ELSE Mixed

(* The readers of the data stop when it is not the file of the descriptor  *)
(* (FileMatrixSource::check_identity).                                     *)
ReadsData(s) == s = "knn" \/ (s = "init" /\ Method = "tsne")
Readable(s) == ReadsData(s) => opened = source

(* A stage starts, or resumes from its native checkpoint. *)
BeginStage ==
    /\ pc = "stage" /\ ~Skips(Stage) /\ ~Refused(Stage)
    /\ IF Readable(Stage)
       THEN /\ made' = [made EXCEPT ![Stage] = Lineage(Stage)]
            /\ state' = [state EXCEPT ![Stage] =
                  IF @ \in {"begun", "signed"} THEN @
                  ELSE IF Stage = "init" /\ Method = "umap" THEN "part"
                  ELSE IF Stage = "fit" THEN IF Mapped THEN "part" ELSE "none"
                  ELSE IF ~Checkpointed THEN "part"
                  ELSE IF Stage = "knn" THEN "signed" ELSE "begun"]
            /\ Goto("work")
       ELSE EndCall /\ UNCHANGED <<state, made>>
    /\ UNCHANGED <<route, source, record, returned, stops, tampers>>

(* The files of a native checkpoint are not in step with it: the search    *)
(* creates its two files one after the other, and an optimizer names a     *)
(* snapshot, records it and unlinks the one before, or fills its mapped    *)
(* file from one.                                                          *)
OpenWindow ==
    /\ pc = "work" /\ Checkpointed
    /\ Stage = "fit" \/ (Stage = "knn" /\ state["knn"] = "signed")
    /\ state' = [state EXCEPT ![Stage] = "torn"]
    /\ Goto("window")
    /\ UNCHANGED <<route, source, made, record, returned, stops, tampers>>

CloseWindow ==
    /\ pc = "window"
    /\ state' = [state EXCEPT ![Stage] = "begun"]
    /\ Goto("work")
    /\ UNCHANGED <<route, source, made, record, returned, stops, tampers>>

(* Without checkpoints the bucketed graph sort consumes the KNN files. *)
Consumed == IF Stage = "graph" /\ ~Checkpointed /\ ~KeepKnn THEN KnnStages ELSE {}

(* All the data has been read, and the stage leaves the point from which   *)
(* its native checkpoint resumes: the graph sort removes its row runs, an  *)
(* optimizer writes its output; then the files get their final names.      *)
PublishStage ==
    /\ pc = "work"
    /\ Stage \in {"knn", "fit"} /\ Checkpointed => state[Stage] = "begun"
    /\ IF Readable(Stage)
       THEN /\ state' = [s \in Stages |-> IF s \in Consumed THEN "none"
                                         ELSE IF s = Stage THEN "naming" ELSE state[s]]
            /\ Goto("publish")
       ELSE EndCall /\ UNCHANGED state
    /\ UNCHANGED <<route, source, made, record, returned, stops, tampers>>

ReturnStage ==
    /\ pc = "publish"
    /\ state' = [state EXCEPT ![Stage] = "done"]
    /\ IF Checkpointed THEN Goto(IF Stage = "fit" THEN "finalize" ELSE "record")
       ELSE IF Stage = "fit" THEN Goto("retire") ELSE NextStage
    /\ UNCHANGED <<route, source, made, record, returned, stops, tampers>>

(* full_backed_checkpoint_stage *)
RecordStage ==
    /\ pc = "record"
    /\ record' = [record EXCEPT !.stages[Stage] = made[Stage]]
    /\ NextStage
    /\ UNCHANGED <<route, source, state, made, returned, stops, tampers>>

-----------------------------------------------------------------------------
(* full_backed_checkpoint_finalize.                                        *)

(* Mutated form: the fit is not recorded before the files go. *)
FitRecordSkipped == record.stages["fit"]

FitRecord == IF Recorded("fit") THEN record.stages["fit"] ELSE made["fit"]

RecordFit ==
    /\ pc = "finalize"
    /\ record' = [record EXCEPT !.stages["fit"] = FitRecord]
    /\ Goto("unlink")
    /\ UNCHANGED <<route, source, state, made, returned, stops, tampers>>

(* The KNN files go one by one. *)
UnlinkKnn ==
    /\ pc = "unlink" /\ ~KeepKnn
    /\ \E s \in KnnStages :
          /\ state[s] # "none"
          /\ state' = [state EXCEPT ![s] = IF s = "knn" /\ @ # "cut" THEN "cut" ELSE "none"]
    /\ UNCHANGED <<route, source, made, record, returned, stops, tampers, process>>

KnnUnlinked ==
    /\ pc = "unlink"
    /\ KeepKnn \/ \A s \in KnnStages : state[s] = "none"
    /\ Goto("retire")
    /\ UNCHANGED <<route, source, disk, returned, stops, tampers>>

(* The record goes and the fit is returned. *)
ReturnFit ==
    /\ pc = "retire"
    /\ returned' = IF Checkpointed THEN record.stages["fit"] ELSE made["fit"]
    /\ record' = Missing
    /\ EndCall
    /\ UNCHANGED <<route, source, state, made, stops, tampers>>

-----------------------------------------------------------------------------
Interrupt ==
    /\ pc # "idle" /\ <<pc, Stage>> \in StopAt
    /\ Len(stops) < MaxStops
    /\ stops' = Append(stops, <<pc, Stage>>)
    /\ EndCall
    /\ UNCHANGED <<route, source, disk, returned, tampers>>

ChangeSource ==
    /\ source < MaxVersion
    /\ source' = source + 1
    /\ UNCHANGED <<route, disk, returned, stops, tampers, process>>

(* Another program rewrites the files of a stage between two calls. *)
Tamper ==
    /\ pc = "idle" /\ tampers < MaxTampers
    /\ tampers' = tampers + 1
    /\ \E s \in Stages :
          state[s] = "done" /\ made' = [made EXCEPT ![s] = Foreign]
    /\ UNCHANGED <<route, source, state, record, returned, stops, process>>

Step == \/ CreateRecord \/ SkipStage \/ RefuseStage \/ BeginStage
        \/ OpenWindow \/ CloseWindow \/ PublishStage \/ ReturnStage \/ RecordStage
        \/ RecordFit \/ UnlinkKnn \/ KnnUnlinked \/ ReturnFit

Next == (\E m \in Modes : Start(m)) \/ Step
        \/ Interrupt \/ ChangeSource \/ Tamper

Spec == Init /\ [][Next]_vars

(* A running call keeps running, an optimizer ends after some number of    *)
(* snapshots, and the caller keeps resuming.                               *)
FairSpec == Spec /\ WF_vars(Step) /\ SF_vars(PublishStage) /\ SF_vars(Start("resume"))

-----------------------------------------------------------------------------
(* Properties.                                                             *)

(* The record is never ahead of the disk: what it names as completed is    *)
(* there, made from the data the record is signed for, and the stages it   *)
(* names are the first of the order.  Files go only when the record names  *)
(* the fit ("retains KNN files until the fit completes",                   *)
(* docs/usage-api.md), so a call that stops in the middle of removing them *)
(* can still be completed.                                                 *)
RecordCovered ==
    record # Missing =>
        /\ \A i \in DOMAIN Order : Recorded(Order[i]) =>
              /\ \A j \in 1..(i - 1) : Recorded(Order[j])
              /\ record.stages[Order[i]] = record.signature
              /\ state[Order[i]] = "done" \/ Recorded("fit")
        /\ Recorded("fit") => state["fit"] = "done"

(* A returned fit comes from one version of the data through all of its    *)
(* stages, although the data may change and stage files be rewritten       *)
(* between the calls that produced them.                                   *)
OneLineage == returned # Missing => returned \in Versions

(* The recorded stages, and after the end all of them. *)
Log == IF returned # Missing THEN [i \in DOMAIN Order |-> returned]
       ELSE IF record = Missing THEN <<>>
       ELSE LET n == Cardinality({s \in Stages : Recorded(s)})
            IN [i \in 1..n |-> record.stages[Order[i]]]

NStages == Len(Order)
Finished == returned # Missing
OneVersion(l) == \A i \in DOMAIN l : l[i] \in Versions /\ l[i] = l[1]

CL == INSTANCE CommittedLog WITH size <- NStages, log <- Log,
        published <- Finished, Valid <- OneVersion

(* The pipeline keeps the promise of a committed log: completed stages are *)
(* recorded in order, never recorded again from other data, and the fit is *)
(* returned once.                                                          *)
KeepsCommittedLog == CL!Spec

(* A recorded call ends with its fit, however often it is interrupted      *)
(* while a stage works or the search's files are removed.  What may end it *)
(* is an interruption while a stage's native checkpoint and files are out  *)
(* of step, or between the end of its native checkpoint and its record, or *)
(* of a mapped fit, which has no checkpoint before its first snapshot      *)
(* ("Work interrupted before a native checkpoint may require a new         *)
(* output", docs/usage-api.md); or a change of the data or of a stage's    *)
(* files.                                                                  *)
Harmless(point) ==
    \/ point[1] \in {"stage", "unlink", "retire"}
    \/ point[1] = "work" /\ ~(Mapped /\ point[2] = "fit")

RecordedCallReturns ==
    record # Missing ~>
        \/ returned # Missing
        \/ \E i \in DOMAIN stops : ~Harmless(stops[i])
        \/ record # Missing /\ record.signature # source
        \/ tampers > 0

(* "A matching call with resume = TRUE reuses completed stages and native  *)
(* checkpoints" (docs/usage-api.md): a resumed call does not refuse a      *)
(* stage whose files are complete.                                         *)
CompletedStagesReused ==
    ~(pc = "stage" /\ mode = "resume" /\ ~Recorded(Stage) /\ state[Stage] = "done")
=============================================================================
