---------------------------- MODULE NearestRows ----------------------------
(* The native searches for nearest rows: threads that take query rows      *)
(* (native_knn_exact.cpp), a source read in chunks (massive_matrix.cpp),   *)
(* and cuVS on a GPU (native_knn_cuda_impl.cpp), exact or through the      *)
(* lists of an IVF index whose probes a pilot has tuned; for a self search *)
(* ("device"), for queries ("queries") and for an index that is kept       *)
(* between calls ("index").  After it, what is done with the table: votes  *)
(* of landmarks, and the removal of self neighbours.  Rows lie on a line.  *)
EXTENDS Integers, Sequences, FiniteSets, TLC, SequencesExt, FiniteSetsExt

CONSTANTS
    Searches,       \* the searches that are made
    SearchThreads,  \* threads of a CPU search
    BatchRows,      \* query rows the GPU answers at a time
    ChunkOfRows     \* reference rows of a chunk

Gpu3 == {"device", "queries", "index"}

ASSUME SearchAssumption ==
    /\ SearchThreads \in SUBSET Nat /\ BatchRows \in Nat \ {0} /\ ChunkOfRows \in Nat \ {0}
    /\ \A s \in Searches :
          /\ s.route \in {"threads", "chunks"} \cup Gpu3
          /\ \A i \in DOMAIN s.calls : \A j \in DOMAIN s.calls[i] :
                s.calls[i][j].row \in 0..Len(s.rows)
          /\ 1 <= s.probes /\ s.probes <= Len(s.centers)

VARIABLES
    search,     \* the search: rows, calls with their queries, k, route ...
    callNo,     \* the call of an index that is kept
    step,       \* where the call is
    nextRow,    \* the next query, or the next row of the reference
    hand,       \* thread -> the query it has taken and the row it looks at
    heaps,      \* query -> the best rows seen so far
    pilotSaw,   \* the pilot's answers: exact and with the probes tried
    probes,     \* lists to probe
    calibrated, \* the call that tuned the probes, or 0
    answers,    \* query -> its rows: what the result buffer holds
    met,        \* target_met of the result
    votes,      \* label -> votes, of the worker that counts them
    elected     \* query -> the label its landmarks vote for

whoAsks == <<search, callNo>>
cpuWork == <<hand, heaps>>
pilotWork == <<pilotSaw, probes, calibrated>>
result == <<answers, met>>
poll == <<votes, elected>>
nearVars == <<whoAsks, step, nextRow, cpuWork, pilotWork, result, poll>>

Questions == search.calls[callNo]
References == 1..Len(search.rows)
AllRows == [r \in References |-> r]
Absolute(d) == IF d < 0 THEN -d ELSE d
Found(q, r) == [id |-> r, far |-> Absolute(Questions[q].at - search.rows[r])]
Own(q, r) == search.self /\ Questions[q].row = r
NearerRow(a, b) == a.far < b.far \/ (a.far = b.far /\ a.id < b.id)
(* The rows that are wanted, as seen from a query, nearest first.           *)
Sorted(q, wanted) == SortSeq([i \in DOMAIN wanted |-> Found(q, wanted[i])], NearerRow)

NoHand == [query |-> 0, row |-> 0]

SearchInit ==
    /\ search \in Searches
    /\ callNo = 1 /\ step = "begun" /\ nextRow = 1
    /\ hand = [t \in SearchThreads |-> NoHand]
    /\ heaps = [q \in DOMAIN search.calls[1] |-> {}]
    /\ pilotSaw = [oracle |-> <<>>, observed |-> <<>>]
    /\ probes = search.probes /\ calibrated = 0
    /\ answers = [q \in DOMAIN search.calls[1] |-> <<>>]
    /\ met = FALSE /\ votes = <<>> /\ elected = <<>>

-----------------------------------------------------------------------------
(* The CPU                                                                  *)

(* update_heap: a full heap takes a row that is closer than its farthest.   *)
Updated(heap, row) ==
    IF Cardinality(heap) < search.k THEN heap \cup {row}
    ELSE LET farthest == CHOOSE h \in heap : \A g \in heap \ {h} : NearerRow(g, h)
         IN  IF NearerRow(row, farthest) THEN (heap \ {farthest}) \cup {row} ELSE heap

FromHeap(q) == Sorted(q, SelectSeq(AllRows, LAMBDA r : Found(q, r) \in heaps[q]))

TakeQuery(t) ==
    /\ search.route = "threads" /\ step = "begun"
    /\ hand[t] = NoHand /\ nextRow <= Len(Questions)
    /\ hand' = [hand EXCEPT ![t] = [query |-> nextRow, row |-> 1]]
    /\ heaps' = [heaps EXCEPT ![nextRow] = {}]
    /\ nextRow' = nextRow + 1
    /\ UNCHANGED <<whoAsks, step, pilotWork, result, poll>>

LookAtRow(t) ==
    LET q == hand[t].query
        r == hand[t].row
    IN /\ search.route = "threads" /\ q # 0 /\ r \in References
       /\ hand' = [hand EXCEPT ![t].row = r + 1]
       /\ heaps' = [heaps EXCEPT ![q] = IF Own(q, r) THEN @ ELSE Updated(@, Found(q, r))]
       /\ UNCHANGED <<whoAsks, step, nextRow, pilotWork, result, poll>>

AnswerQuery(t) ==
    LET q == hand[t].query
    IN /\ search.route = "threads" /\ q # 0 /\ hand[t].row \notin References
       /\ answers' = [answers EXCEPT ![q] = FromHeap(q)]
       /\ hand' = [hand EXCEPT ![t] = NoHand]
       /\ UNCHANGED <<whoAsks, step, nextRow, heaps, pilotWork, met, poll>>

JoinSearch ==
    /\ search.route = "threads" /\ step = "begun"
    /\ nextRow > Len(Questions) /\ \A t \in SearchThreads : hand[t] = NoHand
    /\ step' = "found" /\ met' = TRUE
    /\ UNCHANGED <<whoAsks, nextRow, cpuWork, pilotWork, answers, poll>>

(* massive_exact_reference_batch_impl: every query meets every chunk.       *)
ReadChunk ==
    /\ search.route = "chunks" /\ step = "begun" /\ nextRow \in References
    /\ LET chunk == SelectSeq(AllRows, LAMBDA r : nextRow <= r /\ r < nextRow + ChunkOfRows)
       IN  heaps' = [q \in DOMAIN Questions |->
              FoldLeft(LAMBDA heap, r : IF Own(q, r) THEN heap ELSE Updated(heap, Found(q, r)),
                       heaps[q], chunk)]
    /\ nextRow' = nextRow + ChunkOfRows
    /\ UNCHANGED <<whoAsks, step, hand, pilotWork, result, poll>>

SortHeaps ==
    /\ search.route = "chunks" /\ step = "begun" /\ nextRow \notin References
    /\ answers' = [q \in DOMAIN Questions |-> FromHeap(q)]
    /\ step' = "found" /\ met' = TRUE
    /\ UNCHANGED <<whoAsks, nextRow, cpuWork, pilotWork, poll>>

-----------------------------------------------------------------------------
(* cuVS (external): the nearest rows among those it looks at, rows as far   *)
(* as each other in either order; fewer than k are padded with no row.      *)

Ties == {"rising", "falling"}
InOrderOf(tie, q, wanted) ==
    SortSeq([i \in DOMAIN wanted |-> Found(q, wanted[i])],
            LAMBDA a, b : \/ a.far < b.far
                          \/ a.far = b.far /\ IF tie = "rising" THEN a.id < b.id ELSE b.id < a.id)
FirstOf(s, n) == SubSeq(s, 1, IF n < Len(s) THEN n ELSE Len(s))

ListOf(position) ==
    LET gap(c) == Absolute(search.centers[c] - position)
    IN  Min({c \in DOMAIN search.centers : \A d \in DOMAIN search.centers : gap(c) <= gap(d)})
ListsFor(position, n) ==
    LET gap(c) == Absolute(search.centers[c] - position)
        before(c) == {d \in DOMAIN search.centers : gap(d) < gap(c) \/ (gap(d) = gap(c) /\ d < c)}
    IN  {c \in DOMAIN search.centers : Cardinality(before(c)) < n}

BruteForce(q, n, tie) == FirstOf(InOrderOf(tie, q, AllRows), n)
Ivf(q, n, tie) ==
    LET lists == ListsFor(Questions[q].at, probes)
        probed == SelectSeq(AllRows, LAMBDA r : ListOf(search.rows[r]) \in lists)
    IN  FirstOf(InOrderOf(tie, q, probed), n)

SearchK == search.k + (IF search.route = "device" THEN 1 ELSE 0)
ListCount == Len(search.centers)

-----------------------------------------------------------------------------
(* The pilot of an IVF index                                                *)

(* At most PilotMost queries, evenly spaced; an index takes the first.      *)
PilotMost == 3
PilotSize == IF Len(Questions) < PilotMost THEN Len(Questions) ELSE PilotMost
PilotRow(i) == IF search.route = "index" THEN i
               ELSE IF PilotSize = 1 THEN 1
               ELSE 1 + ((i - 1) * (Len(Questions) - 1)) \div (PilotSize - 1)

(* pilot_recall counts k rows other than the query's own on both sides.     *)
Others(q, found) == FirstOf(SelectSeq(found, LAMBDA f : ~Own(q, f.id)), search.k)
IdsOf(found) == {found[i].id : i \in DOMAIN found}
IdMatches(i) == Cardinality(IdsOf(Others(PilotRow(i), pilotSaw.oracle[i]))
                            \cap IdsOf(Others(PilotRow(i), pilotSaw.observed[i])))
Cutoff(i) == Max({0} \cup {pilotSaw.oracle[i][j].far : j \in DOMAIN pilotSaw.oracle[i]})
FarMatches(i) ==
    LET seen == pilotSaw.observed[i] IN Cardinality({j \in DOMAIN seen : seen[j].far <= Cutoff(i)})

Total(matches(_)) == MapThenSumSet(matches, 1..PilotSize)
AtLeast(matches, of, share) == matches * 1000 >= share * of
WithMargin == LET margin == IF search.route = "index" \/ search.target >= 985 THEN 5 ELSE 2
              IN  Min({1000, search.target + margin})

Reached(share) == AtLeast(Total(IdMatches), PilotSize * search.k, share)
EveryRow(share) == \A i \in 1..PilotSize : AtLeast(IdMatches(i), search.k, share)
Calibrates(share) ==
    AtLeast(Total(FarMatches), PilotSize * search.k, share) /\ EveryRow(search.target)

UsesPilot == ~search.exact /\ calibrated = 0

StartPilot ==
    /\ search.route \in Gpu3 /\ step = "begun" /\ UsesPilot
    /\ \E tie \in Ties :
          pilotSaw' = [pilotSaw EXCEPT !.oracle =
             [i \in 1..PilotSize |-> BruteForce(PilotRow(i), SearchK, tie)]]
    /\ step' = "probe"
    /\ UNCHANGED <<whoAsks, nextRow, cpuWork, probes, calibrated, result, poll>>

Probe ==
    /\ step = "probe"
    /\ \E tie \in Ties :
          pilotSaw' = [pilotSaw EXCEPT !.observed =
             [i \in 1..PilotSize |-> Ivf(PilotRow(i), SearchK, tie)]]
    /\ step' = "tune"
    /\ UNCHANGED <<whoAsks, nextRow, cpuWork, probes, calibrated, result, poll>>

Tuned == IF search.route = "index" THEN Calibrates(WithMargin) ELSE Reached(WithMargin)

(* Twice as many lists, and never more than there are.                      *)
MoreProbes == Min({ListCount, Max({probes + 1, 2 * probes})})

TryMore ==
    /\ step = "tune" /\ ~Tuned /\ probes < ListCount
    /\ probes' = MoreProbes
    /\ step' = "probe"
    /\ UNCHANGED <<whoAsks, nextRow, cpuWork, pilotSaw, calibrated, result, poll>>

(* An index whose pilot misses the target refuses to answer, and keeps the  *)
(* probes it came to.                                                       *)
Refuses == search.route = "index" /\ ~Calibrates(search.target)

EndPilot ==
    /\ step = "tune" /\ (Tuned \/ probes >= ListCount)
    /\ step' = IF Refuses THEN "stopped" ELSE "scan"
    /\ calibrated' = IF Refuses THEN 0 ELSE callNo
    /\ met' = Reached(search.target)
    /\ UNCHANGED <<whoAsks, nextRow, cpuWork, pilotSaw, probes, answers, poll>>

-----------------------------------------------------------------------------
(* The batches                                                              *)

SkipPilot ==
    /\ search.route \in Gpu3 /\ step = "begun" /\ ~UsesPilot
    /\ step' = "scan" /\ met' = TRUE
    /\ UNCHANGED <<whoAsks, nextRow, cpuWork, pilotWork, answers, poll>>

(* finalize_cuvs_knn_kernel.  Mutated form: the first answer is taken for   *)
(* the row itself.                                                          *)
FinalRowSecond(q, found) ==
    IF search.route = "device" THEN FirstOf(Tail(found), search.k) ELSE FirstOf(found, search.k)
FinalRow(q, found) == Others(q, found)

(* An index, and an exact self search, answer all queries at once.          *)
InBatch == IF search.route = "index" \/ (search.route = "device" /\ search.exact)
           THEN DOMAIN Questions
           ELSE {q \in DOMAIN Questions : nextRow <= q /\ q < nextRow + BatchRows}

(* A row that is short leaves the end of what the buffer held before.       *)
Overwritten(old, row) == row \o SubSeq(old, Len(row) + 1, Len(old))

AnswerBatch ==
    /\ step = "scan" /\ nextRow <= Len(Questions)
    /\ \E tie \in Ties :
          LET row(q) == FinalRow(q, IF search.exact THEN BruteForce(q, SearchK, tie)
                                    ELSE Ivf(q, SearchK, tie))
          IN  /\ answers' = [q \in DOMAIN Questions |->
                    IF q \in InBatch THEN Overwritten(answers[q], row(q)) ELSE answers[q]]
              /\ step' = IF \E q \in InBatch : Len(row(q)) < search.k THEN "stopped" ELSE "scan"
    /\ nextRow' = nextRow + Cardinality(InBatch)
    /\ UNCHANGED <<whoAsks, cpuWork, pilotWork, met, poll>>

EndScan ==
    /\ step = "scan" /\ nextRow > Len(Questions)
    /\ step' = "found"
    /\ UNCHANGED <<whoAsks, nextRow, cpuWork, pilotWork, result, poll>>

(* The next call of an index finds its buffers as the last one left them.   *)
AskAgain ==
    /\ search.route = "index" /\ step \in {"found", "stopped"} /\ callNo < Len(search.calls)
    /\ callNo' = callNo + 1 /\ step' = "begun" /\ nextRow' = 1
    /\ heaps' = [q \in DOMAIN search.calls[callNo + 1] |-> {}]
    /\ answers' = [q \in DOMAIN search.calls[callNo + 1] |->
          IF q \in DOMAIN answers THEN answers[q] ELSE <<>>]
    /\ UNCHANGED <<search, hand, pilotWork, met, poll>>

-----------------------------------------------------------------------------
(* What becomes of the table                                                *)

(* massive_vote_landmarks_cpp: a nearer landmark has more to say.  A worker *)
(* counts its rows one after the other in one vector of votes.              *)
VoteWeight(far) == IF far = 0 THEN 1000 ELSE 12 \div far
Communities == {search.labels[r] : r \in References}
Voices(q, l) == {i \in DOMAIN answers[q] : search.labels[answers[q][i].id] = l}
Said(q, l) == MapThenSumSet(LAMBDA i : VoteWeight(answers[q][i].far), Voices(q, l))

StartVote ==
    /\ step = "found" /\ search.labels # <<>>
    /\ votes' = [l \in Communities |-> 0]
    /\ step' = "vote" /\ nextRow' = 1 /\ elected' = [q \in DOMAIN Questions |-> 0]
    /\ UNCHANGED <<whoAsks, cpuWork, pilotWork, result>>

(* Only a label without votes is new to the row.                            *)
VoteRow ==
    LET q == nextRow
        touched == {l \in Communities : Voices(q, l) # {} /\ votes[l] = 0}
        counted(l) == votes[l] + Said(q, l)
    IN /\ step = "vote" /\ q <= Len(Questions)
       /\ elected' = [elected EXCEPT ![q] =
             Min({l \in touched : \A m \in touched : counted(m) <= counted(l)})]
       /\ votes' = [l \in Communities |-> IF l \in touched THEN 0 ELSE counted(l)]
       /\ nextRow' = q + 1
       /\ step' = IF q = Len(Questions) THEN "voted" ELSE "vote"
       /\ UNCHANGED <<whoAsks, cpuWork, pilotWork, result>>

(* strip_self_neighbors: only when every row lists itself without distance, *)
(* and at the first place where it does.                                    *)
SelfPlaces(q) ==
    {i \in DOMAIN answers[q] : answers[q][i] = [id |-> Questions[q].row, far |-> 0]}
HasSelf == \A q \in DOMAIN Questions : SelfPlaces(q) # {}

Strip ==
    /\ step = "found" /\ search.strip
    /\ answers' = [q \in DOMAIN Questions |->
          IF HasSelf THEN RemoveAt(answers[q], Min(SelfPlaces(q))) ELSE answers[q]]
    /\ step' = IF HasSelf THEN "stripped" ELSE "kept"
    /\ UNCHANGED <<whoAsks, nextRow, cpuWork, pilotWork, met, poll>>

SearchThread(t) == TakeQuery(t) \/ LookAtRow(t) \/ AnswerQuery(t)
SearchCall ==
    \/ JoinSearch \/ ReadChunk \/ SortHeaps
    \/ StartPilot \/ Probe \/ TryMore \/ EndPilot
    \/ SkipPilot \/ AnswerBatch \/ EndScan \/ AskAgain
    \/ StartVote \/ VoteRow \/ Strip
SearchNext == SearchCall \/ \E t \in SearchThreads : SearchThread(t)

SearchFairness == WF_nearVars(SearchCall) /\ \A t \in SearchThreads : WF_nearVars(SearchThread(t))
SearchSpec == SearchInit /\ [][SearchNext]_nearVars /\ SearchFairness

-----------------------------------------------------------------------------
TrueNearest(q, n) == FirstOf(Sorted(q, SelectSeq(AllRows, LAMBDA r : ~Own(q, r))), n)
Fars(found) == [i \in DOMAIN found |-> found[i].far]
Complete == search.route \notin Gpu3 \/ search.exact \/ probes = ListCount

(* Whatever route a search takes, a call that returns has answered each of  *)
(* its queries with k different rows, itself not among them in a self       *)
(* search, at their true distances and in order; they are the nearest if    *)
(* the search is exact or probes every list, and target_met is true of the  *)
(* answers to the pilot's queries.  A call that stops is never exact.       *)
NearestFound ==
    /\ step = "stopped" => ~search.exact
    /\ step = "found" => \A q \in DOMAIN Questions :
          LET a == answers[q]
          IN  /\ Len(a) = search.k /\ Cardinality(IdsOf(a)) = search.k
              /\ \A i \in DOMAIN a : a[i] = Found(q, a[i].id) /\ ~Own(q, a[i].id)
              /\ \A i \in 1..search.k - 1 : a[i].far <= a[i + 1].far
              /\ Complete => Fars(a) = Fars(TrueNearest(q, search.k))
    /\ step = "found" /\ ~search.exact /\ met /\ calibrated = callNo =>
          AtLeast(MapThenSumSet(LAMBDA i :
                     LET near == TrueNearest(PilotRow(i), search.k)
                     IN  Cardinality({j \in 1..search.k :
                            answers[PilotRow(i)][j].far <= near[search.k].far}), 1..PilotSize),
                  PilotSize * search.k, search.target)
    /\ step = "voted" => \A q \in DOMAIN Questions :
          \A l \in Communities \ {elected[q]} :
             \/ Said(q, l) < Said(q, elected[q])
             \/ Said(q, l) = Said(q, elected[q]) /\ elected[q] < l
    /\ step = "stripped" => \A q \in DOMAIN Questions :
          Questions[q].row \notin IdsOf(answers[q]) /\ Len(answers[q]) = search.k - 1

SearchEnded ==
    \/ step \in {"voted", "stripped", "kept"}
    \/ step \in {"found", "stopped"} /\ callNo = Len(search.calls)
=============================================================================
