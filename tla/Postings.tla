------------------------------ MODULE Postings ------------------------------
(* Posting lists on disk and the neighbour graph searched in them, both    *)
(* called with checkpoint = TRUE.  The rows of a source are regrouped by   *)
(* the nearest of some centers in two passes, one that counts and one that *)
(* places blocks of rows.  A graph is then searched in the order of the    *)
(* lists, probing the nearest lists only, and its rows are brought back    *)
(* into the order of the source through partitions on disk.                *)
(*                                                                         *)
(* Rows are numbered from 1, positions in a file from 0; a file is the     *)
(* function of its positions, and its place tells under which name it is.  *)
(* A row is one number and a distance its square; a version of the source  *)
(* stands for all that the checkpoint signatures hash.  The grouped graph  *)
(* is streamed by KnnStream and appears here when it is complete.          *)
EXTENDS Integers, Sequences, FiniteSets, FiniteSetsExt, SequencesExt

CONSTANTS Value(_, _),   \* in version v, the row r
          Centers,       \* the sequence of centers
          PostRows, PostBlock, PostEvery,    \* rows, chunk_rows, checkpoint_every
          Probes, Near,  \* lists probed and neighbours kept for a row
          BucketRows, FanOutRows,  \* rows sorted at once; most partitions of one (32)
          PostVersions,  \* bound: changes of the source
          PostStops      \* bound: kills and errors of a behaviour

ASSUME PostingAssumption ==
    /\ {PostRows, PostBlock, PostEvery, Probes, Near, BucketRows, FanOutRows} \subseteq Nat \ {0}
    /\ Len(Centers) > 1 /\ Probes <= Len(Centers) /\ Near < PostRows
    /\ {PostVersions, PostStops} \subseteq Nat
    /\ \A v \in 0..PostVersions : \A r \in 1..PostRows : Value(v, r) \in Int
    /\ Centers \in Seq(Int)

VARIABLES input,   \* the version of the source
          call,    \* the running call, or the rest after one
          lists,   \* the files of the posting lists
          graph,   \* the files of the graph
          halts,   \* kills and errors so far
          torn     \* one of them left a file or directory half made

postVars == <<input, call, lists, graph, halts, torn>>

Lists == 1..Len(Centers)
SourceRows == 1..PostRows
Positions == 0..PostRows - 1
ListFiles == <<"features", "ids", "offsets">>
GraphFiles == <<"indices", "distances">>
Absent == [place |-> "none", data |-> <<>>]
Part(data) == [place |-> "part", data |-> data]
Named(file) == [file EXCEPT !.place = "final"]
Nothing == [version |-> -1]

(***************************************************************************)
(* Lists.                                                                  *)
(***************************************************************************)
Gap(v, r, l) == (Value(v, r) - Centers[l]) * (Value(v, r) - Centers[l])
CloserList(v, r, l, m) == Gap(v, r, l) < Gap(v, r, m) \/ (Gap(v, r, l) = Gap(v, r, m) /\ l < m)
Assigned(v, r) == CHOOSE l \in Lists : \A m \in Lists \ {l} : CloserList(v, r, l, m)

BlockOf(first) == first + 1..Min({first + PostBlock, PostRows})
InList(v, first, l) == {r \in BlockOf(first) : Assigned(v, r) = l}
Counted(counts, v, first) == [l \in Lists |-> counts[l] + Cardinality(InList(v, first, l))]
OffsetsOf(counts) ==
    LET Up[l \in 0..Len(Centers)] == IF l = 0 THEN 0 ELSE Up[l - 1] + counts[l] IN Up
Starts(counts) == [l \in Lists |-> OffsetsOf(counts)[l - 1]]
Ends(counts) == [l \in Lists |-> OffsetsOf(counts)[l]]

(* What a block writes: the rows of each list where the list goes on, list *)
(* by list, so that the last list wins a place that two of them claim.     *)
RowsPlaced(next, v, first) ==
    LET At(r) == next[Assigned(v, r)] + Cardinality({s \in InList(v, first, Assigned(v, r)) : s < r})
        Claims(p) == {r \in BlockOf(first) : At(r) = p}
    IN  [p \in {At(r) : r \in BlockOf(first)} |->
            CHOOSE r \in Claims(p) : \A s \in Claims(p) : Assigned(v, s) <= Assigned(v, r)]
Over(file, written) ==
    [p \in DOMAIN file \cup DOMAIN written |-> IF p \in DOMAIN written THEN written[p] ELSE file[p]]
Placed(stream, next, v, first) ==
    LET rows == RowsPlaced(next, v, first)
    IN  [features |-> Over(stream.features, [p \in DOMAIN rows |-> Value(v, rows[p])]),
         ids |-> Over(stream.ids, rows)]

Whole(file, data) == CASE file = "offsets" -> DOMAIN data = 0..Len(Centers)
                       [] OTHER -> DOMAIN data = Positions
Exists(file) == file.place # "none"
InParts == \A f \in {"features", "ids"} :
               lists[f].place = "part" /\ Whole(f, lists[f].data)

(***************************************************************************)
(* A call that builds lists.                                               *)
(***************************************************************************)
AtRest == call.pc \in {"idle", "refused"}
Ended(pc) == [pc |-> pc, what |-> call.what, resume |-> call.resume]
Go(pc) == call' = [call EXCEPT !.pc = pc]

OnBlock(done) == done = PostRows \/ done % PostBlock = 0
PositionsFit(s) ==
    /\ OnBlock(s.done) /\ OffsetsOf(s.counts)[Len(Centers)] = PostRows
    /\ \A l \in Lists : s.next[l] \in Starts(s.counts)[l]..Ends(s.counts)[l]
    /\ OffsetsOf([l \in Lists |-> s.next[l] - Starts(s.counts)[l]])[Len(Centers)] = s.done

(* massive_posting_check_state, repeated in the build.                     *)
StateFits(s) ==
    /\ s.version = input /\ PositionsFit(s)
    /\ \A f \in {"features", "ids"} : Exists(lists[f]) /\ Whole(f, lists[f].data)
    /\ s.done # PostRows => InParts /\ ~Exists(lists.offsets)
ListsAccept(resume) ==
    /\ lists.manifest = Nothing
    /\ IF resume THEN lists.saved # Nothing /\ StateFits(lists.saved)
       ELSE lists.saved = Nothing /\ \A f \in Range(ListFiles) : ~Exists(lists[f])

Streams == [features |-> lists.features.data, ids |-> lists.ids.data]
FreshBuild(resume) ==
    [pc |-> "count", what |-> "lists", resume |-> resume, seen |-> input, done |-> 0,
     counts |-> [l \in Lists |-> 0], next |-> <<>>, stream |-> Streams]
ResumedBuild ==
    [FreshBuild(TRUE) EXCEPT !.pc = IF lists.saved.done = PostRows THEN "verify" ELSE "place",
        !.done = lists.saved.done, !.counts = lists.saved.counts, !.next = lists.saved.next]
CallLists(resume) ==
    /\ AtRest
    /\ call' = IF ~ListsAccept(resume)
               THEN [pc |-> "refused", what |-> "lists", resume |-> resume]
               ELSE IF resume THEN ResumedBuild ELSE FreshBuild(resume)
    /\ UNCHANGED <<input, lists, graph, halts, torn>>

CountBlock ==
    /\ call.pc = "count" /\ call.done < PostRows
    /\ call' = [call EXCEPT !.counts = Counted(@, input, call.done),
                            !.done = Min({@ + PostBlock, PostRows})]
    /\ UNCHANGED <<input, lists, graph, halts, torn>>

(* The partial files get their size, and the first checkpoint is saved.    *)
CreateLists ==
    /\ call.pc = "count" /\ call.done = PostRows
    /\ call' = [call EXCEPT !.pc = "save", !.done = 0, !.next = Starts(call.counts),
                            !.stream = [features |-> [p \in Positions |-> 0],
                                        ids |-> [p \in Positions |-> 0]]]
    /\ lists' = [lists EXCEPT !.features = Part([p \in Positions |-> 0]),
                              !.ids = Part([p \in Positions |-> 0])]
    /\ UNCHANGED <<input, graph, halts, torn>>

SaveDue(done) == done = PostRows \/ ((done - 1) \div PostBlock + 1) % PostEvery = 0
PlaceBlock ==
    /\ call.pc = "place" /\ call.done < PostRows
    /\ LET done == Min({call.done + PostBlock, PostRows})
       IN  call' = [call EXCEPT !.stream = Placed(@, call.next, input, call.done),
                      !.next = [l \in Lists |-> @[l] + Cardinality(InList(input, call.done, l))],
                      !.done = done, !.pc = IF SaveDue(done) THEN "flush" ELSE "place"]
    /\ UNCHANGED <<input, lists, graph, halts, torn>>

Flushed == [lists EXCEPT !.features.data = call.stream.features, !.ids.data = call.stream.ids]
Flush ==
    /\ call.pc = "flush"
    /\ Go("save") /\ lists' = Flushed
    /\ UNCHANGED <<input, graph, halts, torn>>
Save ==
    /\ call.pc = "save"
    /\ Go("place")
    /\ lists' = [lists EXCEPT !.saved = [version |-> call.seen, done |-> call.done,
                                         counts |-> call.counts, next |-> call.next]]
    /\ UNCHANGED <<input, graph, halts, torn>>

(* The lists must be full.  The offsets are written in one piece.          *)
ClosePlaces ==
    /\ call.pc = "place" /\ call.done = PostRows
    /\ IF call.next = Ends(call.counts) THEN Go("offsets") ELSE call' = Ended("idle")
    /\ UNCHANGED <<input, lists, graph, halts, torn>>
OpenOffsets ==
    /\ call.pc = "offsets"
    /\ Go("offsets_open") /\ lists' = [lists EXCEPT !.offsets = Part(<<>>)]
    /\ UNCHANGED <<input, graph, halts, torn>>
WriteOffsets ==
    /\ call.pc = "offsets_open"
    /\ Go("rename") /\ lists' = [lists EXCEPT !.offsets = Part(OffsetsOf(call.counts))]
    /\ UNCHANGED <<input, graph, halts, torn>>

(* finish_completed_postings: a call that resumes after the last           *)
(* checkpoint takes up the names where they were left.                     *)
(* Mutated form: it wants all files under their partial names.             *)
VerifyParts ==
    /\ call.pc = "verify"
    /\ IF ~InParts THEN call' = Ended("refused")
       ELSE IF ~Exists(lists.offsets) THEN Go("offsets")
       ELSE IF lists.offsets.data = OffsetsOf(call.counts) THEN Go("rename")
       ELSE call' = Ended("refused")
    /\ UNCHANGED <<input, lists, graph, halts, torn>>
Verify ==
    /\ call.pc = "verify"
    /\ IF ~Exists(lists.offsets) THEN Go("offsets")
       ELSE IF lists.offsets.data = OffsetsOf(call.counts) THEN Go("rename")
       ELSE call' = Ended("refused")
    /\ UNCHANGED <<input, lists, graph, halts, torn>>

Unnamed(files, from) == {i \in DOMAIN files : from[files[i]].place = "part"}
RenameList ==
    /\ call.pc = "rename"
    /\ IF Unnamed(ListFiles, lists) = {} THEN Go("check") /\ UNCHANGED lists
       ELSE LET f == ListFiles[Min(Unnamed(ListFiles, lists))]
            IN  lists' = [lists EXCEPT ![f] = Named(@)] /\ UNCHANGED call
    /\ UNCHANGED <<input, graph, halts, torn>>

Unchanged == input = call.seen
CheckInput ==
    /\ call.pc = "check"
    /\ IF Unchanged THEN Go("manifest") ELSE call' = Ended("idle")
    /\ UNCHANGED <<input, lists, graph, halts, torn>>
Finalize ==
    /\ call.pc = "manifest"
    /\ Go("unlink")
    /\ lists' = [lists EXCEPT !.manifest = [version |-> call.seen, counts |-> call.counts]]
    /\ UNCHANGED <<input, graph, halts, torn>>
Unlink ==
    /\ call.pc = "unlink"
    /\ call' = Ended("idle") /\ lists' = [lists EXCEPT !.saved = Nothing]
    /\ UNCHANGED <<input, graph, halts, torn>>

(***************************************************************************)
(* Search: every row of the probed lists, kept in a heap of Near.          *)
(***************************************************************************)
Probed(v, r) ==
    {l \in Lists : Cardinality({m \in Lists \ {l} : CloserList(v, r, m, l)}) < Probes}
Far(v, q, value) == (Value(v, q) - value) * (Value(v, q) - value)
Closer(a, b) == a.far < b.far \/ (a.far = b.far /\ a.id < b.id)
Farthest(heap) == CHOOSE a \in heap : \A b \in heap \ {a} : Closer(b, a)
Kept(heap, c) ==
    IF Cardinality(heap) < Near THEN heap \cup {c}
    ELSE IF Closer(c, Farthest(heap)) THEN (heap \ {Farthest(heap)}) \cup {c}
    ELSE heap

(* The row at a position of the feature file is known by its number.       *)
(* Mutated form: by its position, as in a search of the source itself.     *)
QueryByPosition(p) == p + 1
QueryId(p) == lists.ids.data[p]
Scanned(p) ==
    LET q == QueryId(p)
        v == lists.manifest.version
        Reads(at) == /\ lists.ids.data[at] # q
                     /\ \E l \in Probed(v, lists.ids.data[p]) :
                            at \in lists.offsets.data[l - 1]..lists.offsets.data[l] - 1
        Candidate(at) == [id |-> lists.ids.data[at],
                          far |-> Far(v, lists.ids.data[p], lists.features.data[at])]
        Heap[n \in 0..PostRows] ==
            IF n = 0 THEN {}
            ELSE IF Reads(n - 1) THEN Kept(Heap[n - 1], Candidate(n - 1)) ELSE Heap[n - 1]
    IN  Heap[PostRows]
PlaceAmong(heap, x) == Cardinality({y \in heap : Closer(y, x)}) + 1
Ranking(heap) == [i \in 1..Cardinality(heap) |-> CHOOSE x \in heap : PlaceAmong(heap, x) = i]
Answer(p) == Ranking(Scanned(p))

(***************************************************************************)
(* A call for a graph in the order of the lists.                           *)
(***************************************************************************)
Mixed == {graph.indices.place, graph.distances.place} = {"part", "final"}
Finished == \A f \in Range(GraphFiles) : graph[f].place = "final"
OutputsFit(resume) ==
    IF resume THEN Mixed \/ graph.indices.place = graph.distances.place
    ELSE \A f \in Range(GraphFiles) : ~Exists(graph[f])
GraphAccepts(resume) ==
    /\ OutputsFit(resume) /\ input = lists.manifest.version
    /\ graph.marker # Nothing => resume /\ graph.marker.version = input
    /\ Exists(graph.grouped) => resume
Complete == graph.marker # Nothing /\ graph.marker.stage = "complete"

CallGraph(resume) ==
    /\ AtRest /\ lists.manifest # Nothing
    /\ call' = IF ~GraphAccepts(resume)
               THEN [pc |-> "refused", what |-> "graph", resume |-> resume]
               ELSE [pc |-> IF Complete THEN "cleanup"
                            ELSE IF Exists(graph.grouped) THEN "commit" ELSE "search",
                     what |-> "graph", resume |-> resume, seen |-> input]
    /\ UNCHANGED <<input, lists, graph, halts, torn>>
Search ==
    /\ call.pc = "search"
    /\ IF \E p \in Positions : Len(Answer(p)) < Near THEN call' = Ended("idle") /\ UNCHANGED graph
       ELSE Go("commit") /\ graph' = [graph EXCEPT !.grouped = Named(Part([p \in Positions |-> Answer(p)]))]
    /\ UNCHANGED <<input, lists, halts, torn>>

(* massive_posting_reorder_commit.  One file of two under its final name   *)
(* is renamed back first; a saved marker vouches for both partial files.   *)
Commit ==
    /\ call.pc = "commit"
    /\ IF Mixed THEN /\ IF graph.marker # Nothing
                        THEN graph' = [f \in DOMAIN graph |->
                                 IF f \in Range(GraphFiles) THEN Part(graph[f].data) ELSE graph[f]]
                             /\ UNCHANGED call
                        ELSE call' = Ended("refused") /\ UNCHANGED graph
       ELSE /\ call' = [call EXCEPT !.seen = input,
                            !.pc = IF Finished THEN "complete"
                                   ELSE IF graph.marker # Nothing THEN "names" ELSE "work"]
            /\ UNCHANGED graph
    /\ UNCHANGED <<input, lists, halts, torn>>

(* Work that a call with resume = TRUE finds marked is thrown away.        *)
NoWork == [marked |-> FALSE, open |-> FALSE, parts |-> <<>>]
OpenWork ==
    /\ call.pc = "work"
    /\ IF graph.work.open /\ ~(call.resume /\ graph.work.marked)
       THEN call' = Ended("refused") /\ UNCHANGED graph
       ELSE Go("mark") /\ graph' = [graph EXCEPT !.work = [NoWork EXCEPT !.open = TRUE]]
    /\ UNCHANGED <<input, lists, halts, torn>>
MarkWork ==
    /\ call.pc = "mark"
    /\ Go("distribute") /\ graph' = [graph EXCEPT !.work.marked = TRUE]
    /\ UNCHANGED <<input, lists, halts, torn>>

(* A partition of the rows first + 1 .. first + rows is cut into parts of  *)
(* equal width.  The rows left for a part that starts past the last row    *)
(* are a huge unsigned number, so that it is taken for a full one, and its *)
(* file is empty.  A record tells where it was read.                       *)
LeftFor(offset, rows, width) == IF offset <= rows THEN Min({width, rows - offset}) ELSE width
Pieces(first, rows, records) ==
    LET children == Min({FanOutRows, (rows + BucketRows - 1) \div BucketRows})
        width == (rows + children - 1) \div children
    IN  [c \in 1..children |->
            [first |-> first + (c - 1) * width, rows |-> LeftFor((c - 1) * width, rows, width),
             records |-> {x \in records : (x.row - first - 1) \div width = c - 1}]]
Record(p) == [at |-> p, row |-> lists.ids.data[p], near |-> graph.grouped.data[p]]
Distribute ==
    /\ call.pc = "distribute"
    /\ Go("open")
    /\ graph' = [graph EXCEPT !.work.parts = Pieces(0, PostRows, {Record(p) : p \in Positions})]
    /\ UNCHANGED <<input, lists, halts, torn>>
OpenOutput ==
    /\ call.pc \in {"open", "open_second"}
    /\ IF call.pc = "open" THEN Go("open_second") /\ graph' = [graph EXCEPT !.indices = Part(<<>>)]
       ELSE Go("sort") /\ graph' = [graph EXCEPT !.distances = Part(<<>>)]
    /\ UNCHANGED <<input, lists, halts, torn>>

(* A small partition is sorted and appended, a larger one is divided; its  *)
(* pieces come before the partitions that follow it.  A partition whose    *)
(* file has another size, or another row, than it should stops the call.   *)
Filled(part) == Cardinality(part.records) = part.rows
Inside(part) == {x.row : x \in part.records} \subseteq part.first + 1..part.first + part.rows
Consecutive(part) ==
    {x.row : x \in part.records} = part.first + 1..part.first + part.rows
Sorted(part) == [i \in 1..part.rows |-> CHOOSE x \in part.records : x.row = part.first + i]
SortPart ==
    /\ call.pc = "sort" /\ graph.work.parts # <<>>
    /\ LET part == Head(graph.work.parts)
           rest == Tail(graph.work.parts)
       IN  IF Filled(part) /\ part.rows > BucketRows /\ Inside(part)
           THEN graph' = [graph EXCEPT !.work.parts = Pieces(part.first, part.rows, part.records) \o rest]
                /\ UNCHANGED call
           ELSE IF Filled(part) /\ part.rows <= BucketRows /\ Consecutive(part)
           THEN graph' = [graph EXCEPT !.work.parts = rest,
                    !.indices.data = @ \o [i \in 1..part.rows |->
                        [n \in 1..Near |-> Sorted(part)[i].near[n].id]],
                    !.distances.data = @ \o [i \in 1..part.rows |->
                        [n \in 1..Near |-> Sorted(part)[i].near[n].far]]]
                /\ UNCHANGED call
           ELSE call' = Ended("idle") /\ graph' = [graph EXCEPT !.work = NoWork]
    /\ UNCHANGED <<input, lists, halts, torn>>
CloseSort ==
    /\ call.pc = "sort" /\ graph.work.parts = <<>>
    /\ Go("marker") /\ graph' = [graph EXCEPT !.work = NoWork]
    /\ UNCHANGED <<input, lists, halts, torn>>

SaveMarker ==
    /\ call.pc = "marker"
    /\ Go("names") /\ graph' = [graph EXCEPT !.marker = [version |-> call.seen, stage |-> "reordered"]]
    /\ UNCHANGED <<input, lists, halts, torn>>
(* The source must still be the one the lists were made of, before the     *)
(* first file gets its name.                                               *)
NameGraph ==
    /\ call.pc = "names"
    /\ LET left == Unnamed(GraphFiles, graph)
       IN  IF left = {} THEN Go("complete") /\ UNCHANGED graph
           ELSE IF Min(left) = 1 /\ input # lists.manifest.version
           THEN call' = Ended("idle") /\ UNCHANGED graph
           ELSE LET f == GraphFiles[Min(left)]
                IN  graph' = [graph EXCEPT ![f] = Named(@)] /\ UNCHANGED call
    /\ UNCHANGED <<input, lists, halts, torn>>
CompleteMark ==
    /\ call.pc = "complete"
    /\ Go("cleanup")
    /\ graph' = [graph EXCEPT !.marker = [version |-> lists.manifest.version, stage |-> "complete"]]
    /\ UNCHANGED <<input, lists, halts, torn>>
Cleanup ==
    /\ call.pc = "cleanup"
    /\ call' = Ended("idle") /\ graph' = [graph EXCEPT !.grouped = Absent]
    /\ UNCHANGED <<input, lists, halts, torn>>

(***************************************************************************)
(* Kills, errors and a source that changes.                                *)
(***************************************************************************)
TornPoints == {"offsets_open", "mark", "open_second"}
Reordering == {"distribute", "open", "open_second", "sort"}

(* What was written since the last flush is on disk or not, for each file; *)
(* an error removes the work directory, a kill leaves it.                  *)
Halt ==
    /\ ~AtRest /\ halts < PostStops
    /\ halts' = halts + 1 /\ call' = Ended("idle")
    /\ torn' = (torn \/ call.pc \in TornPoints)
    /\ \/ call.pc \notin {"place", "flush"} /\ UNCHANGED lists
       \/ call.pc \in {"place", "flush"} /\ \E written \in SUBSET {"features", "ids"} :
              lists' = [f \in DOMAIN lists |->
                          IF f \in written THEN Part(call.stream[f]) ELSE lists[f]]
    /\ \/ UNCHANGED graph
       \/ call.pc \in Reordering /\ graph' = [graph EXCEPT !.work = NoWork]
    /\ UNCHANGED input

ChangeInput ==
    /\ input < PostVersions
    /\ input' = input + 1 /\ UNCHANGED <<call, lists, graph, halts, torn>>

PostInit ==
    /\ input = 0 /\ halts = 0 /\ torn = FALSE
    /\ call = [pc |-> "idle", what |-> "lists", resume |-> FALSE]
    /\ lists = [features |-> Absent, ids |-> Absent, offsets |-> Absent,
                saved |-> Nothing, manifest |-> Nothing]
    /\ graph = [grouped |-> Absent, indices |-> Absent, distances |-> Absent,
                marker |-> Nothing, work |-> NoWork]

ListsRun ==
    CountBlock \/ CreateLists \/ PlaceBlock \/ Flush \/ Save \/ ClosePlaces \/ OpenOffsets
    \/ WriteOffsets \/ Verify \/ RenameList \/ CheckInput \/ Finalize \/ Unlink
GraphRun ==
    Search \/ Commit \/ OpenWork \/ MarkWork \/ Distribute \/ OpenOutput \/ SortPart
    \/ CloseSort \/ SaveMarker \/ NameGraph \/ CompleteMark \/ Cleanup
PostNext ==
    \/ ListsRun \/ GraphRun \/ Halt \/ ChangeInput
    \/ \E resume \in BOOLEAN : CallLists(resume) \/ CallGraph(resume)
PostSpec == PostInit /\ [][PostNext]_postVars

(***************************************************************************)
(* Properties.                                                             *)
(***************************************************************************)
(* A manifest vouches for lists of one version of the source: each list    *)
(* holds the rows nearest to its center, in the order of the source, once, *)
(* whatever was interrupted, replayed or changed while they were built.    *)
Precedes(v, s, r) ==
    Assigned(v, s) < Assigned(v, r) \/ (Assigned(v, s) = Assigned(v, r) /\ s < r)
Home(v, r) == Cardinality({s \in SourceRows : Precedes(v, s, r)})
PostingsGrouped ==
    lists.manifest # Nothing =>
        LET v == lists.manifest.version
        IN  /\ DOMAIN lists.ids.data = Positions /\ DOMAIN lists.features.data = Positions
            /\ \A r \in SourceRows : /\ lists.ids.data[Home(v, r)] = r
                                     /\ lists.features.data[Home(v, r)] = Value(v, r)
            /\ lists.offsets.data = [l \in 0..Len(Centers) |->
                                        Cardinality({r \in SourceRows : Assigned(v, r) <= l})]
            /\ \A f \in Range(ListFiles) : lists[f].place = "final"

(* A graph under its final names holds, row by row in the order of the     *)
(* source, the nearest other rows of the lists that row probes, nearest    *)
(* first: through lists, heaps, partitions, retries and half renamed files.*)
Seen(v, r) ==
    {[id |-> s, far |-> Far(v, r, Value(v, s))] :
        s \in {s \in SourceRows \ {r} : Assigned(v, s) \in Probed(v, r)}}
GraphOfProbes ==
    Finished =>
        LET v == lists.manifest.version
        IN  \A r \in SourceRows : \A x \in Seen(v, r) : PlaceAmong(Seen(v, r), x) <= Near =>
                /\ graph.indices.data[r][PlaceAmong(Seen(v, r), x)] = x.id
                /\ graph.distances.data[r][PlaceAmong(Seen(v, r), x)] = x.far

(* What the manifest and the final names vouch for, together: the lists    *)
(* that the graph is searched in, and the graph, are those of the source   *)
(* the manifest was written for.                                           *)
PostingGraphRight == PostingsGrouped /\ GraphOfProbes

(* "If the final write checkpoint was saved, resume ... finishes           *)
(* interrupted final renames" and "A committed reorder manifest also lets  *)
(* resume = TRUE finish a half-renamed final graph" (docs/experimental-    *)
(* massive-assessment.md): a call that resumes recorded work on the source *)
(* it was recorded for is refused only when a kill hit the moment in which *)
(* an offsets file, a work directory or one of two outputs was just        *)
(* created.                                                                *)
PostingWorkResumes ==
    call.pc = "refused" /\ call.resume =>
        \/ torn
        \/ call.what = "lists" /\ (lists.manifest # Nothing \/ lists.saved = Nothing
                                   \/ lists.saved.version # input)
        \/ call.what = "graph" /\ lists.manifest.version # input

(* The sort stops for a partition of the wrong size with "Grouped graph    *)
(* has missing or duplicated rows." (src/massive_graph_reorder.cpp:91, and *)
(* line 151 for one to divide): it stops so only if a row of the lists is  *)
(* missing or there twice.                                                 *)
MissingRowsNamed ==
    call.pc = "sort" /\ graph.work.parts # <<>> /\ ~Filled(Head(graph.work.parts)) =>
        {lists.ids.data[p] : p \in Positions} # SourceRows
=============================================================================
