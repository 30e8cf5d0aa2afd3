---------------------------- MODULE MCKnnStream -----------------------------
(***************************************************************************)
(* The two routes of KnnStream for TLC.  The constants of the .cfg are     *)
(* those of a landmark search; Full is a search of one matrix with itself, *)
(* with files and a process of its own.  "job" names the search that is    *)
(* made; the state of the other one rests at its first value.              *)
(***************************************************************************)
EXTENDS KnnStream

CONSTANTS b1, b2, b3

\* Three landmark indexes; the first two answer the pilot batch alike.
MCPilots == [b \in {b1, b2, b3} |-> IF b = b3 THEN 2 ELSE 1]

AllPoints == Points

MCAnytime == [i \in Inputs |-> Points]
\* Not between the index and the signature.
MCSigned == [i \in Inputs |-> IF i = "reference" THEN Points \ {"create"} ELSE Points]

VARIABLES job, fullSource, fullPart, fullFinal, fullSidecar, fullStops, fullPc, fullMode,
          fullBuild, fullWatched, fullIndexed, fullFirst, fullFound, fullBuf

fullVars == <<fullSource, fullPart, fullFinal, fullSidecar, fullStops, fullPc, fullMode,
              fullBuild, fullWatched, fullIndexed, fullFirst, fullFound, fullBuf>>

(* Five rows in batches of 2, so that the last batch is short, committed   *)
(* two batches at a time; two changes of the matrix and two stops.         *)
Full == INSTANCE KnnStream WITH
    Route <- "full", NRow <- 5, ChunkRows <- 2, CheckpointEvery <- 2,
    Builds <- {b1}, MaxVersion <- 2, MaxStops <- 2, ChangeAt <- [i \in {"query"} |-> Points],
    source <- fullSource, part <- fullPart, final <- fullFinal, sidecar <- fullSidecar,
    stops <- fullStops, pc <- fullPc, mode <- fullMode, build <- fullBuild,
    watched <- fullWatched, indexed <- fullIndexed, first <- fullFirst, found <- fullFound,
    buf <- fullBuf

RoutesInit == job \in {"landmark", "full"} /\ Init /\ Full!Init

SearchesLandmarks == job = "landmark" /\ Next /\ UNCHANGED <<job, fullVars>>
SearchesAll == job = "full" /\ Full!Next /\ UNCHANGED <<job, vars>>

(* Fairness of the full search; see KnnStream.                             *)
RoutesSpec ==
    /\ RoutesInit
    /\ [][SearchesLandmarks \/ SearchesAll]_<<job, vars, fullVars>>
    /\ WF_fullVars(job = "full" /\ Full!Step)
    /\ SF_fullVars(job = "full" /\ Full!Start("resume"))

-----------------------------------------------------------------------------
(* The invariant that the proofs find inductive (Inductive in KnnStream)   *)
(* holds on both routes: sidecar, buffers, names and descriptors of        *)
(* massive_knn.R fit together at every step of every search.               *)
InductiveOnRoutes == Inductive /\ Full!Inductive

(* CheckpointedWorkPublished of KnnStream for the full search: a           *)
(* massive_full_knn_exact call whose checkpoint has been created is        *)
(* published in the end, because resume accepts it after every stop        *)
(* outside the two-file windows.                                           *)
FullSearchPublished == job = "full" => Full!CheckpointedWorkPublished
=============================================================================
