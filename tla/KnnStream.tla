----------------------------- MODULE KnnStream ------------------------------
(***************************************************************************)
(* The streamed nearest-neighbour writer of R/massive_knn.R.  A call       *)
(* answers the query rows batch by batch and appends each batch to two     *)
(* partial files, one of neighbour indices and one of distances; with      *)
(* checkpoint = TRUE a sidecar records how many rows are committed.  The   *)
(* process may stop, by an R error or by being killed, between any two     *)
(* file operations, and a later call with resume = TRUE continues.         *)
(*                                                                         *)
(* Two routes share the code and this module:                              *)
(*   "landmark"  massive_landmark_knn: queries against a landmark index    *)
(*               that every call builds again, and whose first batch (the  *)
(*               pilot) must answer as it did when it was checkpointed;    *)
(*               every batch is committed;                                 *)
(*   "full"      massive_full_knn_exact: one matrix is query and           *)
(*               reference; no index; the matrix is checked before and     *)
(*               after each search, and CheckpointEvery batches are        *)
(*               committed at a time.                                      *)
(*                                                                         *)
(* A file is a function from rows to cells: the row holds Hole until it    *)
(* has been written.  Rows are written in order, so "the file is shorter   *)
(* than r rows" is "some row of 1..r is a Hole".  The versions of the      *)
(* inputs stand for everything the checkpoint signature hashes: the        *)
(* matrices, the controls and the code.                                    *)
(***************************************************************************)
EXTENDS Naturals

CONSTANTS NRow, ChunkRows, CheckpointEvery,
          Route,            \* "landmark" or "full"
          Builds, PilotOf,  \* index builds and what each answers on the pilot
          Missing, Hole,    \* an absent file, sidecar or value; an unwritten row
          MaxVersion,       \* bound: changes of each input
          MaxStops,         \* bound: crashes and in-process errors
          ChangeAt,         \* for each input, control points at which it may change
          CrashAt           \* control points at which the process may be killed

Rows == 1..NRow
Inputs == IF Route = "full" THEN {"query"} ELSE {"query", "reference"}
Versions == 0..MaxVersion
Sources == [Inputs -> Versions]
Pilots == {PilotOf[b] : b \in Builds}
Files == {"indices", "distances"}
Cells == [row : Rows, source : Sources, build : Builds]
Contents == [Rows -> Cells \cup {Hole}]
Sidecars == [signature : Sources, completed_rows : 0..NRow,
             pilot_signature : Pilots \cup {Missing}]
Modes == {"plain", "new", "resume"}
Points == {"idle", "build", "create", "probe", "open_i", "open_d",
           "search", "append", "flush_i", "flush_d", "save",
           "rename_i", "rename_d", "retire"}

ASSUME SizeAssumption == /\ NRow \in Nat \ {0} /\ ChunkRows \in Nat \ {0}
                         /\ CheckpointEvery \in Nat \ {0}
ASSUME RouteAssumption == /\ Route \in {"landmark", "full"}
                          /\ Route = "landmark" => CheckpointEvery = 1
                          /\ Route = "full" => \E b \in Builds : Builds = {b}
ASSUME BoundAssumption == MaxVersion \in Nat /\ MaxStops \in Nat
ASSUME ValueAssumption == /\ Hole \notin Cells
                          /\ Missing \notin Contents
                          /\ Missing \notin Sidecars
                          /\ Missing \notin Builds
                          /\ Missing \notin Pilots
                          /\ Missing \notin Versions \cup Sources

VARIABLES source,     \* versions of the inputs on disk
          part,       \* the two .part files
          final,      \* the two files under their final names
          sidecar,    \* the checkpoint file
          stops,      \* how often a call has been interrupted
          pc,         \* control point of the running call, or "idle"
          mode,       \* how it was called: "plain" has checkpoint = FALSE,
                      \* "new" checkpoint = TRUE, "resume" also resume = TRUE
          build,      \* its index
          watched,    \* versions its massive_matrix() descriptors were made for
          indexed,    \* landmark: version of the reference in its index
          first,      \* next row to answer
          found,      \* versions the last search answered from
          buf         \* rows written to the connections since the last flush

disk == <<source, part, final, sidecar>>
process == <<pc, mode, build, watched, indexed, first, found, buf>>
vars == <<disk, stops, process>>

Checkpointed == mode # "plain"
NoRows == [r \in Rows |-> Hole]
Filled(content, n) == \A r \in 1..n : content[r] # Hole

TypeOK ==
    /\ source \in Sources
    /\ part \in [Files -> Contents \cup {Missing}]
    /\ final \in [Files -> Contents \cup {Missing}]
    /\ sidecar \in Sidecars \cup {Missing}
    /\ stops \in 0..MaxStops
    /\ pc \in Points
    /\ mode \in Modes
    /\ build \in Builds \cup {Missing}
    /\ watched \in Sources \cup {Missing}
    /\ indexed \in Versions \cup {Missing}
    /\ first \in 1..(NRow + 1)
    /\ found \in Sources \cup {Missing}
    /\ buf \in Contents

Init ==
    /\ source = [i \in Inputs |-> 0]
    /\ part = [f \in Files |-> Missing]
    /\ final = [f \in Files |-> Missing]
    /\ sidecar = Missing
    /\ stops = 0
    /\ pc = "idle" /\ mode = "plain"
    /\ build = Missing /\ watched = Missing /\ indexed = Missing /\ first = 1
    /\ found = Missing /\ buf = NoRows

(***************************************************************************)
(* The call returns, by finishing or by stopping: its connections and its  *)
(* variables are gone.                                                     *)
(***************************************************************************)
EndCall ==
    /\ pc' = "idle" /\ mode' = "plain"
    /\ build' = Missing /\ watched' = Missing /\ indexed' = Missing /\ first' = 1
    /\ found' = Missing /\ buf' = NoRows

(* What a file holds after the buffered rows up to n have reached it. *)
Flushed(content, n) ==
    IF content = Missing THEN Missing
    ELSE [r \in Rows |-> IF r <= n /\ buf[r] # Hole THEN buf[r] ELSE content[r]]

-----------------------------------------------------------------------------
(* Opening a call.                                                         *)

(* Mutated form: a resumed call that wants a clean directory. *)
PathsClean(m) == \A f \in Files : final[f] = Missing /\ part[f] = Missing

(* massive_knn_paths: the files on disk fit the kind of call. *)
PathsFit(m) ==
    /\ \A f \in Files : final[f] = Missing
    /\ m # "resume" => \A f \in Files : part[f] = Missing
    /\ (m = "resume" /\ \E f \in Files : part[f] # Missing) => \A f \in Files : part[f] # Missing

(* Mutated form: the signature of the saved state is not compared. *)
VerifiedUnsigned ==
    /\ sidecar # Missing
    /\ sidecar.completed_rows > 0 => \A f \in Files : part[f] # Missing

(* massive_knn_checkpoint, massive_full_knn_checkpoint: the saved state    *)
(* belongs to these inputs and the partial files hold what it promises.    *)
Verified ==
    /\ sidecar # Missing
    /\ sidecar.signature = source
    /\ sidecar.completed_rows > 0 => \A f \in Files : part[f] # Missing
    /\ (\A f \in Files : part[f] # Missing) =>
          \A f \in Files : Filled(part[f], sidecar.completed_rows)

(* A call whose checks pass; any other call stops and leaves the disk as   *)
(* it was, which is a stuttering step.  Its descriptors were made earlier  *)
(* and may be stale already.                                               *)
Start(m) ==
    /\ pc = "idle"
    /\ PathsFit(m)
    /\ m = "resume" => Verified
    /\ mode' = m
    /\ pc' = IF Route = "landmark" THEN "build"
             ELSE IF m = "new" THEN "create" ELSE "open_i"
    /\ \E w \in Sources : (\A i \in Inputs : w[i] <= source[i]) /\ watched' = w
    /\ UNCHANGED <<disk, stops, build, indexed, first, found, buf>>

(* Mutated form: a stale descriptor is read as if it were current. *)
HoldsUnchecked(input) == TRUE

(* FileMatrixSource::check_identity: no read through a stale descriptor.   *)
Holds(input) == source[input] = watched[input]

(* massive_knn_reference reads the reference and builds an index from it,  *)
(* not always the same one.                                                *)
BuildIndex ==
    /\ pc = "build"
    /\ IF Holds("reference")
       THEN /\ \E b \in Builds : build' = b
            /\ indexed' = source["reference"]
            /\ pc' = IF mode = "new" THEN "create" ELSE "probe"
            /\ UNCHANGED <<mode, watched, first, found, buf>>
       ELSE EndCall
    /\ UNCHANGED <<disk, stops>>

(* The first sidecar of a fresh call.  One that is there already stops it. *)
CreateSidecar ==
    /\ pc = "create"
    /\ IF sidecar = Missing
       THEN /\ sidecar' = [signature |-> source, completed_rows |-> 0,
                           pilot_signature |-> Missing]
            /\ pc' = IF Route = "landmark" THEN "probe" ELSE "open_i"
            /\ UNCHANGED <<mode, build, watched, indexed, first, found, buf>>
       ELSE EndCall /\ UNCHANGED sidecar
    /\ UNCHANGED <<source, part, final, stops>>

(* massive_knn_verify_probe: a rebuilt index must answer the pilot rows as *)
(* the index of the committed rows did.                                    *)
VerifyProbe ==
    /\ pc = "probe"
    /\ IF /\ Checkpointed /\ sidecar.completed_rows > 0
          /\ ~Holds("query") \/ PilotOf[build] # sidecar.pilot_signature
       THEN EndCall
       ELSE /\ pc' = "open_i"
            /\ UNCHANGED <<mode, build, watched, indexed, first, found, buf>>
    /\ UNCHANGED <<disk, stops>>

(* Mutated form: a resumed call that begins again at the first row. *)
CompletedNone == 0

Completed == IF Checkpointed THEN sidecar.completed_rows ELSE 0

(* Mutated form: every call opens its partial files with "wb". *)
OpenedEmpty(content) == NoRows

(* massive_knn_open_parts: "wb" truncates or creates, "r+b" keeps.  The    *)
(* first row to answer follows the committed ones.                         *)
Opened(content) == IF Completed > 0 THEN content ELSE NoRows

OpenIndices ==
    /\ pc = "open_i"
    /\ part' = [part EXCEPT !["indices"] = Opened(part["indices"])]
    /\ pc' = "open_d"
    /\ UNCHANGED <<source, final, sidecar, stops, mode, build, watched, indexed,
                   first, found, buf>>

OpenDistances ==
    /\ pc = "open_d"
    /\ part' = [part EXCEPT !["distances"] = Opened(part["distances"])]
    /\ first' = Completed + 1
    /\ build' = IF Route = "full" THEN CHOOSE b \in Builds : TRUE ELSE build
    /\ pc' = "search"
    /\ UNCHANGED <<source, final, sidecar, stops, mode, watched, indexed, found, buf>>

-----------------------------------------------------------------------------
(* The batch loop.                                                         *)

Last == IF first + ChunkRows - 1 <= NRow THEN first + ChunkRows - 1 ELSE NRow

Search ==
    /\ pc = "search" /\ first <= NRow
    /\ Holds("query")
    /\ found' = [i \in Inputs |-> IF i = "query" THEN source[i] ELSE indexed]
    /\ pc' = "append"
    /\ UNCHANGED <<disk, stops, mode, build, watched, indexed, first, buf>>

(* writeBin of both batches; the rows are still in the connections. *)
SaveNow == \/ Last = NRow
           \/ (Last \div ChunkRows) % CheckpointEvery = 0

AppendBatch ==
    /\ pc = "append"
    /\ Route = "full" => Holds("query")
    /\ buf' = [r \in Rows |->
                 IF r \in first..Last
                 THEN [row |-> r, source |-> found, build |-> build]
                 ELSE buf[r]]
    /\ first' = Last + 1
    /\ found' = Missing
    /\ pc' = IF Checkpointed /\ SaveNow THEN "flush_i" ELSE "search"
    /\ UNCHANGED <<disk, stops, mode, build, watched, indexed>>

FlushIndices ==
    /\ pc = "flush_i"
    /\ part' = [part EXCEPT !["indices"] = Flushed(part["indices"], NRow)]
    /\ pc' = "flush_d"
    /\ UNCHANGED <<source, final, sidecar, stops, mode, build, watched, indexed,
                   first, found, buf>>

FlushDistances ==
    /\ pc = "flush_d"
    /\ part' = [part EXCEPT !["distances"] = Flushed(part["distances"], NRow)]
    /\ buf' = NoRows
    /\ pc' = "save"
    /\ UNCHANGED <<source, final, sidecar, stops, mode, build, watched, indexed,
                   first, found>>

(* massive_checkpoint_write replaces the sidecar atomically. *)
SaveSidecar ==
    /\ pc = "save"
    /\ sidecar' = [sidecar EXCEPT
          !.completed_rows = first - 1,
          !.pilot_signature = IF Route = "landmark" /\ @ = Missing
                              THEN PilotOf[build] ELSE @]
    /\ pc' = "search"
    /\ UNCHANGED <<source, part, final, stops, mode, build, watched, indexed,
                   first, found, buf>>

-----------------------------------------------------------------------------
(* massive_knn_finish.                                                     *)

(* Closing flushes what is buffered; a file of the wrong size stops the    *)
(* call, and without a checkpoint the partial files are then removed.      *)
Truncate ==
    /\ pc = "search" /\ first > NRow
    /\ LET closed == [f \in Files |-> Flushed(part[f], NRow)]
       IN IF \A f \in Files : Filled(closed[f], NRow)
          THEN /\ part' = closed
               /\ buf' = NoRows
               /\ pc' = "rename_i"
               /\ UNCHANGED <<mode, build, watched, indexed, first, found>>
          ELSE /\ part' = [f \in Files |-> IF Checkpointed THEN closed[f] ELSE Missing]
               /\ EndCall
    /\ UNCHANGED <<source, final, sidecar, stops>>

RenameIndices ==
    /\ pc = "rename_i"
    /\ final' = [final EXCEPT !["indices"] = part["indices"]]
    /\ part' = [part EXCEPT !["indices"] = Missing]
    /\ pc' = "rename_d"
    /\ UNCHANGED <<source, sidecar, stops, mode, build, watched, indexed, first,
                   found, buf>>

RenameDistances ==
    /\ pc = "rename_d"
    /\ final' = [final EXCEPT !["distances"] = part["distances"]]
    /\ part' = [part EXCEPT !["distances"] = Missing]
    /\ pc' = "retire"
    /\ UNCHANGED <<source, sidecar, stops, mode, build, watched, indexed, first,
                   found, buf>>

(* The second rename fails: the indices get their partial name back. *)
RestoreIndices ==
    /\ pc = "rename_d" /\ stops < MaxStops
    /\ stops' = stops + 1
    /\ final' = [final EXCEPT !["indices"] = Missing]
    /\ part' = IF Checkpointed THEN [part EXCEPT !["indices"] = final["indices"]]
               ELSE [f \in Files |-> Missing]
    /\ EndCall
    /\ UNCHANGED <<source, sidecar>>

RetireSidecar ==
    /\ pc = "retire"
    /\ sidecar' = IF Checkpointed THEN Missing ELSE sidecar
    /\ EndCall
    /\ UNCHANGED <<source, part, final, stops>>

-----------------------------------------------------------------------------
(* What can go wrong around the code.                                      *)

(* A stale descriptor stops the call, and on the full route also a change  *)
(* during the search (massive_full_knn_assert_source); so may any error in *)
(* the batch loop.  on.exit closes the connections, which writes what is   *)
(* buffered, and removes the partial files of a call without a checkpoint. *)
OnExit ==
    /\ part' = [f \in Files |-> IF Checkpointed THEN Flushed(part[f], NRow) ELSE Missing]
    /\ EndCall
    /\ UNCHANGED <<source, final, sidecar>>

SourceChanged ==
    /\ \/ pc = "append" /\ Route = "full"
       \/ pc = "search" /\ first <= NRow
    /\ ~Holds("query")
    /\ OnExit
    /\ UNCHANGED stops

Fail ==
    /\ pc \in {"search", "append", "flush_i", "flush_d", "save"}
    /\ stops < MaxStops
    /\ stops' = stops + 1
    /\ OnExit

(* The process is killed: of the buffered rows any prefix may have reached *)
(* each file.                                                              *)
Crash ==
    /\ pc \in CrashAt \ {"idle"}
    /\ stops < MaxStops
    /\ stops' = stops + 1
    /\ \E reached \in [Files -> 0..NRow] :
          part' = [f \in Files |-> Flushed(part[f], reached[f])]
    /\ EndCall
    /\ UNCHANGED <<source, final, sidecar>>

ChangeSource ==
    /\ \E i \in Inputs :
          /\ pc \in ChangeAt[i]
          /\ source[i] < MaxVersion
          /\ source' = [source EXCEPT ![i] = @ + 1]
    /\ UNCHANGED <<part, final, sidecar, stops, process>>

-----------------------------------------------------------------------------
Step == \/ BuildIndex \/ CreateSidecar \/ VerifyProbe
        \/ OpenIndices \/ OpenDistances
        \/ Search \/ AppendBatch \/ FlushIndices \/ FlushDistances \/ SaveSidecar
        \/ Truncate \/ RenameIndices \/ RenameDistances \/ RetireSidecar
        \/ SourceChanged

Environment == Fail \/ RestoreIndices \/ Crash \/ ChangeSource

Next == (\E m \in Modes : Start(m)) \/ Step \/ Environment

Spec == Init /\ [][Next]_vars

(* A running call keeps running.  The caller keeps coming back with        *)
(* resume = TRUE: among other calls, but not never.                        *)
Fairness == WF_vars(Step) /\ SF_vars(Start("resume"))

FairSpec == Spec /\ Fairness

(* The reference of a landmark search is replaced after it was indexed and *)
(* before the first sidecar signs it: the one change no check notices.     *)
SignedAsIndexed == Route = "landmark" => "create" \notin ChangeAt["reference"]

-----------------------------------------------------------------------------
(* Properties.                                                             *)

(* What a file holds, under whichever of its names. *)
Data(f) == IF final[f] # Missing THEN final[f] ELSE part[f]

Published == \A f \in Files : final[f] # Missing

(* Rows 1..n of both files answer their own query from the versions s of   *)
(* the inputs, and the two files pair the same answers.                    *)
Agree(n, s) ==
    \A r \in 1..n :
        /\ Data("indices")[r] \in Cells
        /\ Data("indices")[r].row = r
        /\ Data("indices")[r].source = s
        /\ Data("distances")[r] = Data("indices")[r]

Complete ==
    /\ \E s \in Sources : Agree(NRow, s)
    /\ \A r \in Rows : PilotOf[Data("indices")[r].build]
                         = PilotOf[Data("indices")[1].build]

(* A committed row count is a promise: whatever was interrupted after it   *)
(* was saved, both files hold that many rows, all answered from the inputs *)
(* the sidecar is signed for, with the pilot the sidecar records           *)
(* (massive_knn_commit_batch flushes before it saves; resume seeks past    *)
(* the committed rows).                                                    *)
CommittedRowsDurable ==
    sidecar # Missing /\ sidecar.completed_rows > 0 =>
        /\ \A f \in Files : Data(f) # Missing
        /\ Agree(sidecar.completed_rows, sidecar.signature)
        /\ Route = "landmark" =>
              \A r \in 1..sidecar.completed_rows :
                  PilotOf[Data("indices")[r].build] = sidecar.pilot_signature

(* Once both files have their final names they are complete, pair row by   *)
(* row, and answer one version of the inputs through indexes with one      *)
(* pilot, over any number of crashes, resumes and rebuilt indexes.         *)
PublishedComplete == Published => Complete

(* A checkpoint that does not match the current inputs is refused          *)
(* (massive_knn_checkpoint: "KNN checkpoint or partial output does not     *)
(* match the current inputs."), so a resumed call appends to rows that     *)
(* were answered from what it reads itself.                                *)
ResumedRowsMatch ==
    mode = "resume" /\ pc = "append" =>
        \A r \in 1..Completed : Data("indices")[r].source = found

-----------------------------------------------------------------------------
(* The inductive invariant behind CommittedRowsDurable and                 *)
(* PublishedComplete, where SignedAsIndexed holds.                         *)

Loop == {"search", "append", "flush_i", "flush_d", "save"}
Opening == {"probe", "open_i", "open_d"}

(* Row r of content is this call's answer. *)
Answered(content, r) ==
    /\ content[r] \in Cells
    /\ content[r].row = r /\ content[r].source = watched /\ content[r].build = build

(* Which names the two files can have, and when. *)
Names ==
    /\ \A f \in Files : final[f] # Missing => part[f] = Missing
    /\ pc \notin {"idle", "rename_d", "retire"} => \A f \in Files : final[f] = Missing
    /\ pc \in Loop \cup {"rename_i"} => \A f \in Files : part[f] # Missing
    /\ pc = "open_d" => part["indices"] # Missing
    /\ pc = "rename_d" => /\ final["indices"] # Missing /\ final["distances"] = Missing
                          /\ part["distances"] # Missing
    /\ pc = "retire" => \A f \in Files : final[f] # Missing

(* The sidecar is signed for what the call reads, or the call will stop    *)
(* when it reads that input.                                               *)
Stale(input) == watched[input] < source[input]
SignedFor(input) == sidecar.signature[input] = watched[input] \/ Stale(input)

(* A call that does not continue a checkpoint finds nothing committed, and *)
(* one that does continues its own inputs and pilot.                       *)
Session ==
    /\ (/\ pc # "idle" /\ sidecar # Missing
        /\ mode = "plain" \/ (mode = "new" /\ pc \in {"build", "create"}))
          => sidecar.completed_rows = 0
    /\ (mode = "resume" /\ pc = "build") \/ (Checkpointed /\ pc \in Opening)
          => SignedFor("query")
    /\ Route = "landmark" =>
         /\ mode = "resume" /\ pc = "build" => SignedFor("reference")
         /\ pc \in Opening \cup Loop \cup {"create"} => indexed = watched["reference"]
         /\ pc = "create" => source["reference"] = watched["reference"]
         /\ Checkpointed /\ pc \in Opening \cup Loop =>
               sidecar.signature["reference"] = watched["reference"]
         /\ pc \in Loop \cup {"open_i", "open_d"} /\ Completed > 0 =>
               PilotOf[build] = sidecar.pilot_signature
         /\ sidecar # Missing /\ sidecar.completed_rows = 0 =>
               sidecar.pilot_signature = Missing
    /\ Checkpointed /\ pc \in Loop =>
         \/ sidecar.signature = watched
         \/ pc = "search" /\ first = Completed + 1 /\ Stale("query")

(* The rows answered since the last commit are in the buffer, or just      *)
(* flushed, and nothing else is.                                           *)
Buffered ==
    /\ pc \notin Loop \ {"save"} => buf = NoRows
    /\ pc \in Loop =>
         /\ Completed < first
         /\ pc \in {"flush_i", "flush_d", "save"} => Completed + 1 < first
         /\ \A r \in Rows : r \notin (Completed + 1)..(first - 1) => buf[r] = Hole
         /\ \A r \in (Completed + 1)..(first - 1) :
              /\ pc # "save" => Answered(buf, r)
              /\ pc = "flush_d" => part["indices"][r] = buf[r]
              /\ pc = "save" => /\ Answered(part["indices"], r)
                                /\ part["distances"][r] = part["indices"][r]
    /\ pc = "append" => found = watched

Whole ==
    pc = "rename_i" \/ pc = "rename_d" \/ Published => Complete

Inductive == CommittedRowsDurable /\ Names /\ Session /\ Buffered /\ Whole

(* The writer keeps the promise of a committed log. *)
Log == LET n == IF Published THEN NRow
                ELSE IF sidecar # Missing THEN sidecar.completed_rows ELSE 0
       IN [r \in 1..n |-> <<Data("indices")[r], Data("distances")[r]>>]

Paired(l) == \A r \in DOMAIN l : l[r][1] # Hole /\ l[r][1] = l[r][2]

CL == INSTANCE CommittedLog WITH log <- Log, size <- NRow, published <- Published,
        Valid <- Paired

KeepsCommittedLog == CL!Spec

(* The two files of a stopped call are in different states: it was         *)
(* interrupted between creating, or renaming, one and the other.           *)
Halfway ==
    \E f, g \in Files : \/ (part[f] # Missing /\ part[g] = Missing)
                       \/ (final[f] # Missing /\ final[g] = Missing)

(* A job whose checkpoint has been created is published in the end however *)
(* often it is interrupted, because a repeated call is accepted: no crash  *)
(* outside the two-file windows leaves files that resume would refuse.     *)
(* Nothing is promised once an input has been replaced.                    *)
CheckpointedWorkPublished ==
    sidecar # Missing ~>
        \/ Published \/ source # [i \in Inputs |-> 0]
        \/ (pc = "idle" /\ Halfway)
=============================================================================
