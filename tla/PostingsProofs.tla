--------------------------- MODULE PostingsProofs ---------------------------
(* Posting lists and the graph searched in them, for every source, number  *)
(* of rows, lists, probes and neighbours, every block size and checkpoint  *)
(* interval and any number of kills, errors, retries and rewritten sources.*)
EXTENDS Postings, FiniteSetTheorems, WellFoundedInduction, TLAPS

-----------------------------------------------------------------------------
(* The invariant.                                                          *)

Versions == 0..PostVersions

(* What the two passes have counted and placed after the first n rows.      *)
CountsTo(v, n) == [l \in Lists |-> Cardinality({r \in 1..n : Assigned(v, r) = l})]
LowTo(v, n) == [l \in 0..Len(Centers) |-> Cardinality({r \in 1..n : Assigned(v, r) <= l})]
NextTo(v, n) == [l \in Lists |-> LowTo(v, PostRows)[l - 1] + CountsTo(v, n)[l]]
HoldsTo(v, n, features, ids) ==
    /\ DOMAIN features = Positions /\ DOMAIN ids = Positions
    /\ \A r \in 1..n : ids[Home(v, r)] = r /\ features[Home(v, r)] = Value(v, r)

(* The neighbours of a row, and the rows of a graph in the order of the     *)
(* source.                                                                 *)
Nearest(seen) == {x \in seen : PlaceAmong(seen, x) <= Near}
NearOf(v, r) == Ranking(Nearest(Seen(v, r)))
IdsTo(v, n) == [r \in 1..n |-> [k \in 1..Near |-> NearOf(v, r)[k].id]]
FarsTo(v, n) == [r \in 1..n |-> [k \in 1..Near |-> NearOf(v, r)[k].far]]

(* Partitions that cover the rows n + 1 .. m one after the other; a part    *)
(* that starts past the end breaks the chain, but it is not filled.        *)
RightRecords(v) == {[at |-> p, row |-> r, near |-> NearOf(v, r)] : p \in Positions, r \in SourceRows}
RightParts(v) == [first : Nat, rows : Nat, records : SUBSET RightRecords(v)]
Chain(parts, n, m) ==
    /\ \A i \in 1..Len(parts) :
          parts[i].first = IF i = 1 THEN n ELSE parts[i - 1].first + parts[i - 1].rows
    /\ m = IF parts = <<>> THEN n ELSE parts[Len(parts)].first + parts[Len(parts)].rows
AllFilled(parts) == \A i \in 1..Len(parts) : Filled(parts[i])

Placing == {"place", "flush", "save"}
Closing == {"offsets", "offsets_open", "verify", "rename", "check", "manifest"}
Building == {"count"} \cup Placing \cup Closing
ListPoints == Building \cup {"unlink"}
Sorting == {"open", "open_second", "sort"}
Unmarked == {"work", "mark", "distribute", "marker"} \cup Sorting
GraphPoints == {"search", "commit", "names", "complete", "cleanup"} \cup Unmarked

FileShape(file) == DOMAIN file = {"place", "data"} /\ file.place \in {"none", "part", "final"}
CallShape ==
    /\ call.pc \in {"idle", "refused"} \cup ListPoints \cup GraphPoints
    /\ call.what \in {"lists", "graph"} /\ call.resume \in BOOLEAN
    /\ AtRest => DOMAIN call = {"pc", "what", "resume"}
    /\ call.pc \in ListPoints =>
          /\ DOMAIN call = {"pc", "what", "resume", "seen", "done", "counts", "next", "stream"}
          /\ DOMAIN call.stream = {"features", "ids"}
          /\ call.what = "lists" /\ call.done \in 0..PostRows
    /\ call.pc \in GraphPoints =>
          DOMAIN call = {"pc", "what", "resume", "seen"} /\ call.what = "graph"
    /\ ~AtRest => call.seen \in 0..input
ListsShape ==
    /\ DOMAIN lists = {"features", "ids", "offsets", "saved", "manifest"}
    /\ FileShape(lists.features) /\ FileShape(lists.ids) /\ FileShape(lists.offsets)
    /\ lists.saved # Nothing => /\ DOMAIN lists.saved = {"version", "done", "counts", "next"}
                                /\ lists.saved.version \in 0..input /\ lists.saved.done \in 0..PostRows
    /\ lists.manifest # Nothing => /\ DOMAIN lists.manifest = {"version", "counts"}
                                   /\ lists.manifest.version \in 0..input
GraphShape ==
    /\ DOMAIN graph = {"grouped", "indices", "distances", "marker", "work"}
    /\ FileShape(graph.grouped) /\ FileShape(graph.indices) /\ FileShape(graph.distances)
    /\ graph.marker # Nothing => /\ DOMAIN graph.marker = {"version", "stage"}
                                 /\ graph.marker.version \in 0..input
    /\ DOMAIN graph.work = {"marked", "open", "parts"}
    /\ graph.work.marked \in BOOLEAN /\ graph.work.open \in BOOLEAN
PostTypeOK ==
    /\ input \in Versions /\ halts \in Nat /\ torn \in BOOLEAN
    /\ CallShape /\ ListsShape /\ GraphShape

(* A call that builds lists: the files it has made, and, unless the source *)
(* changed under it, what it knows and has written.                        *)
BuildFiles ==
    /\ call.pc \in Building => lists.manifest = Nothing
    /\ call.pc = "count" => lists.saved = Nothing /\ lists.offsets.place = "none"
    /\ call.pc \in Placing => /\ lists.features.place = "part" /\ lists.ids.place = "part"
                              /\ lists.offsets.place = "none"
    /\ call.pc \in Closing => lists.features.place # "none" /\ lists.ids.place # "none"
    /\ call.pc = "offsets_open" => lists.offsets.place = "part"
    /\ call.pc = "rename" => lists.offsets.place # "none"
    /\ call.pc \in {"check", "manifest"} =>
          \A f \in {"features", "ids", "offsets"} : lists[f].place = "final"
    /\ call.pc \in {"place", "flush"} \cup Closing =>
          lists.saved # Nothing /\ lists.saved.version = call.seen
    /\ call.pc \in {"place", "flush"} => lists.saved.done <= call.done
    /\ call.pc \in Closing \/ (call.pc = "place" /\ call.done = PostRows) =>
          lists.saved.done = PostRows
BuildRight ==
    call.pc \in Building /\ call.seen = input =>
        /\ call.counts = CountsTo(input, IF call.pc = "count" THEN call.done ELSE PostRows)
        /\ call.pc \in Placing =>
              /\ call.next = NextTo(input, call.done)
              /\ HoldsTo(input, call.done, call.stream.features, call.stream.ids)
              /\ OnBlock(call.done)
        /\ call.pc = "save" => /\ lists.features.data = call.stream.features
                               /\ lists.ids.data = call.stream.ids
        /\ call.pc \in {"rename", "check"} => lists.offsets.data = LowTo(input, PostRows)
ListsReady ==
    call.pc = "manifest" =>
        /\ HoldsTo(call.seen, PostRows, lists.features.data, lists.ids.data)
        /\ lists.offsets.data = LowTo(call.seen, PostRows)

(* What a call that resumes finds, unless the source has changed.          *)
SavedRight ==
    lists.manifest = Nothing /\ lists.saved # Nothing /\ lists.saved.version = input =>
        /\ lists.saved.counts = CountsTo(input, PostRows)
        /\ lists.saved.next = NextTo(input, lists.saved.done)
        /\ HoldsTo(input, lists.saved.done, lists.features.data, lists.ids.data)
        /\ OnBlock(lists.saved.done)
        /\ lists.features.place # "none" /\ lists.ids.place # "none"
        /\ lists.saved.done # PostRows =>
              /\ lists.features.place = "part" /\ lists.ids.place = "part"
              /\ lists.offsets.place = "none"
        /\ lists.saved.done = PostRows =>
              \/ lists.offsets.place = "none" \/ lists.offsets.data = LowTo(input, PostRows)
              \/ torn \/ call.pc = "offsets_open"

(* The graph: nothing before the lists are there; partial outputs that are *)
(* thrown away until a marker vouches for both.                            *)
GraphFresh ==
    lists.manifest = Nothing =>
        /\ graph.grouped.place = "none" /\ graph.indices.place = "none"
        /\ graph.distances.place = "none" /\ graph.marker = Nothing
        /\ ~graph.work.open /\ call.pc \notin GraphPoints
GraphSeen ==
    /\ call.pc \in GraphPoints => lists.manifest.version <= call.seen
    /\ graph.marker # Nothing => lists.manifest.version <= graph.marker.version
GroupedRight ==
    /\ call.pc \in {"commit", "work", "mark", "distribute"} => graph.grouped.place # "none"
    /\ graph.grouped.place # "none" =>
          graph.grouped.data = [p \in Positions |-> NearOf(lists.manifest.version, lists.ids.data[p])]
OutputsRight ==
    graph.marker # Nothing \/ call.pc = "marker" =>
        /\ graph.indices.place # "none" /\ graph.distances.place # "none"
        /\ graph.indices.data = IdsTo(lists.manifest.version, PostRows)
        /\ graph.distances.data = FarsTo(lists.manifest.version, PostRows)
NamesRight ==
    /\ graph.indices.place = "final" \/ graph.distances.place = "final" => graph.marker # Nothing
    /\ call.pc \in {"names", "complete"} => graph.marker # Nothing
    /\ call.pc \in Unmarked => graph.marker = Nothing
    /\ call.pc = "open_second" => graph.indices.place = "part"
    /\ \/ graph.indices.place = graph.distances.place \/ Mixed \/ torn
       \/ call.pc = "open_second"
    /\ call.pc = "sort" => graph.indices.place = "part" /\ graph.distances.place = "part"
    /\ graph.work.open /\ ~graph.work.marked => torn \/ call.pc = "mark"
SortRight ==
    call.pc \in Sorting =>
        /\ graph.work.parts \in Seq(RightParts(lists.manifest.version))
        /\ AllFilled(graph.work.parts) => \E n \in Nat :
              /\ Chain(graph.work.parts, n, PostRows)
              /\ IF call.pc = "sort"
                 THEN /\ graph.indices.data = IdsTo(lists.manifest.version, n)
                      /\ graph.distances.data = FarsTo(lists.manifest.version, n)
                 ELSE n = 0
        /\ call.pc = "open_second" => graph.indices.data = <<>>

PostIInv ==
    /\ PostTypeOK /\ BuildFiles /\ BuildRight /\ ListsReady /\ SavedRight /\ PostingsGrouped
    /\ GraphFresh /\ GraphSeen /\ GroupedRight /\ OutputsRight /\ NamesRight /\ SortRight
    /\ PostingWorkResumes

-----------------------------------------------------------------------------
(* Numbers.                                                                *)

Less == OpToRel(<, Nat)

LEMMA LessWellFounded == IsWellFoundedOn(Less, Nat)
  BY NatLessThanWellFounded DEF Less, OpToRel

LEMMA LessIs == ASSUME NEW m \in Nat, NEW n \in Nat
                PROVE  <<m, n>> \in Less <=> m < n
  BY DEF Less, OpToRel

(* A set of numbers has a least one. *)
LEMMA LeastOf ==
    ASSUME NEW T, T \subseteq Nat, T # {}
    PROVE  \E x \in T : \A y \in T : x <= y
<1>1. PICK x \in T : \A y \in T : ~(<<y, x>> \in Less)
  BY LessWellFounded, WFMin
<1>2. ASSUME NEW y \in T PROVE x <= y
  <2>1. x \in Nat /\ y \in Nat
    BY <1>1
  <2>2. ~(y < x)
    BY <1>1, <2>1, LessIs
  <2> QED
    BY <2>1, <2>2
<1> QED
  BY <1>2

LEMMA MinOfTwo ==
    ASSUME NEW a \in Int, NEW b \in Int
    PROVE  Min({a, b}) = IF a <= b THEN a ELSE b
<1>1. \E x \in {a, b} : \A y \in {a, b} : x <= y
  OBVIOUS
<1> QED
  BY <1>1 DEF Min

LEMMA Sizes ==
    /\ PostRows \in Nat \ {0} /\ PostBlock \in Nat \ {0} /\ PostEvery \in Nat \ {0}
    /\ Probes \in Nat \ {0} /\ Near \in Nat \ {0} /\ BucketRows \in Nat \ {0}
    /\ Len(Centers) \in Nat \ {0} /\ FanOutRows \in Nat \ {0} /\ PostVersions \in Nat
    /\ \A l \in Lists : Centers[l] \in Int
<1>1. Centers \in Seq(Int) /\ Len(Centers) > 1
  BY PostingAssumption
<1>2. Len(Centers) \in Nat /\ \A l \in Lists : Centers[l] \in Int
  BY <1>1 DEF Lists
<1> QED
  BY <1>1, <1>2, PostingAssumption

(* The number of elements of two sets without a common one. *)
LEMMA CountBoth ==
    ASSUME NEW S, NEW T, NEW U, IsFiniteSet(U), S \cup T = U, S \cap T = {}
    PROVE  /\ IsFiniteSet(S) /\ IsFiniteSet(T)
           /\ Cardinality(S) \in Nat /\ Cardinality(T) \in Nat
           /\ Cardinality(U) = Cardinality(S) + Cardinality(T)
<1>1. IsFiniteSet(S) /\ IsFiniteSet(T)
  <2>1. S \in SUBSET U /\ T \in SUBSET U
    OBVIOUS
  <2> QED
    BY <2>1, FS_Subset
<1>2. Cardinality(S) \in Nat /\ Cardinality(T) \in Nat
  BY <1>1, FS_CardinalityType
<1>3. Cardinality(U) = Cardinality(S) + Cardinality(T) - Cardinality({})
  BY <1>1, FS_Union
<1>4. Cardinality({}) = 0
  BY FS_EmptySet
<1>5. Cardinality(U) = Cardinality(S) + Cardinality(T)
  BY <1>2, <1>3, <1>4
<1> QED
  BY <1>1, <1>2, <1>5

LEMMA CountLess ==
    ASSUME NEW T, IsFiniteSet(T), NEW S \in SUBSET T
    PROVE  /\ IsFiniteSet(S) /\ Cardinality(S) \in Nat /\ Cardinality(T) \in Nat
           /\ Cardinality(S) <= Cardinality(T)
           /\ \A x \in T : x \notin S => Cardinality(S) < Cardinality(T)
<1>1. /\ IsFiniteSet(S) /\ Cardinality(S) <= Cardinality(T)
      /\ Cardinality(T) = Cardinality(S) => T = S
  BY FS_Subset
<1>2. Cardinality(S) \in Nat /\ Cardinality(T) \in Nat
  BY <1>1, FS_CardinalityType
<1> QED
  BY <1>1, <1>2

-----------------------------------------------------------------------------
(* Elements in a strict order R.                                           *)

StrictOrder(S, R) ==
    /\ \A a \in S : <<a, a>> \notin R
    /\ \A a, b \in S : a = b \/ <<a, b>> \in R \/ <<b, a>> \in R
    /\ \A a, b, c \in S : <<a, b>> \in R /\ <<b, c>> \in R => <<a, c>> \in R
Ahead(A, R, c) == {d \in A : <<d, c>> \in R}

(* An element in front of another one has fewer elements in front of it. *)
LEMMA AheadGrows ==
    ASSUME NEW A, NEW R, StrictOrder(A, R), IsFiniteSet(A), NEW c \in A, NEW d \in A, <<c, d>> \in R
    PROVE  Cardinality(Ahead(A, R, c)) < Cardinality(Ahead(A, R, d))
<1>1. Ahead(A, R, c) \in SUBSET Ahead(A, R, d)
  BY DEF Ahead, StrictOrder
<1>2. c \in Ahead(A, R, d) /\ c \notin Ahead(A, R, c)
  BY DEF Ahead, StrictOrder
<1>3. IsFiniteSet(Ahead(A, R, d))
  <2>1. Ahead(A, R, d) \in SUBSET A
    BY DEF Ahead
  <2> QED
    BY <2>1, FS_Subset
<1> QED
  BY <1>1, <1>2, <1>3, CountLess

LEMMA AheadWithin ==
    ASSUME NEW A, NEW R, StrictOrder(A, R), IsFiniteSet(A), NEW c \in A
    PROVE  /\ Cardinality(A) \in Nat /\ Cardinality(Ahead(A, R, c)) \in Nat
           /\ Cardinality(Ahead(A, R, c)) < Cardinality(A)
<1>1. Ahead(A, R, c) \in SUBSET A /\ c \notin Ahead(A, R, c)
  BY DEF Ahead, StrictOrder
<1> QED
  BY <1>1, CountLess

(* Every place of a finite set is taken by one of its elements. *)
LEMMA Places ==
    ASSUME NEW A, NEW R, StrictOrder(A, R), IsFiniteSet(A)
    PROVE  /\ \A n \in Nat : n < Cardinality(A) => \E c \in A : Cardinality(Ahead(A, R, c)) = n
           /\ \A c, d \in A : Cardinality(Ahead(A, R, c)) = Cardinality(Ahead(A, R, d)) => c = d
<1> DEFINE T == 0..(Cardinality(A) - 1)
           f == [c \in A |-> Cardinality(Ahead(A, R, c))]
<1>1. ASSUME NEW c \in A, NEW d \in A, Cardinality(Ahead(A, R, c)) = Cardinality(Ahead(A, R, d))
      PROVE  c = d
  <2>1. ~(<<c, d>> \in R) /\ ~(<<d, c>> \in R)
    <3>1. Cardinality(Ahead(A, R, c)) \in Nat
      BY AheadWithin
    <3>2. <<c, d>> \in R => Cardinality(Ahead(A, R, c)) < Cardinality(Ahead(A, R, d))
      BY AheadGrows
    <3>3. <<d, c>> \in R => Cardinality(Ahead(A, R, d)) < Cardinality(Ahead(A, R, c))
      BY AheadGrows
    <3> QED
      BY <1>1, <3>1, <3>2, <3>3
  <2> QED
    BY <2>1 DEF StrictOrder
<1>5. Cardinality(A) \in Nat
  BY FS_CardinalityType
<1>2. \A c \in A : f[c] \in T
  BY <1>5, AheadWithin
<1>3. f \in [A -> T]
  BY <1>2
<1>4. f \in Injection(A, T)
  BY <1>1, <1>3 DEF Injection, IsInjective
<1>6. IsFiniteSet(T) /\ Cardinality(T) = Cardinality(A)
  BY <1>5, FS_Interval
<1>7. f \in Surjection(A, T)
  <2> HIDE DEF f, T
  <2> QED
    BY <1>4, <1>6, FS_Injection
<1>8. \A n \in T : \E c \in A : f[c] = n
  BY <1>7 DEF Surjection
<1> QED
  BY <1>1, <1>5, <1>8

-----------------------------------------------------------------------------
(* The list of a row.                                                      *)

Squared(x) == x * x
ListOrder(v, r) == {e \in Lists \X Lists : CloserList(v, r, e[1], e[2])}

LEMMA GapType ==
    ASSUME NEW v \in Versions, NEW r \in SourceRows, NEW l \in Lists
    PROVE  Gap(v, r, l) \in Int
<1>1. Value(v, r) \in Int /\ Centers[l] \in Int
  BY PostingAssumption, Sizes DEF Versions, SourceRows
<1>2. Value(v, r) - Centers[l] \in Int
  BY <1>1
<1> QED
  BY <1>2 DEF Gap

LEMMA ListsOrdered ==
    ASSUME NEW v \in Versions, NEW r \in SourceRows
    PROVE  /\ StrictOrder(Lists, ListOrder(v, r)) /\ IsFiniteSet(Lists)
           /\ \A l, m \in Lists : <<l, m>> \in ListOrder(v, r) <=> CloserList(v, r, l, m)
<1>1. \A l, m \in Lists : <<l, m>> \in ListOrder(v, r) <=> CloserList(v, r, l, m)
  BY DEF ListOrder
<1>2. \A l \in Lists : Gap(v, r, l) \in Int
  BY GapType
<1>3. \A l \in Lists : l \in Int
  BY Sizes DEF Lists
<1>4. StrictOrder(Lists, ListOrder(v, r))
  BY <1>1, <1>2, <1>3 DEF StrictOrder, CloserList
<1>5. IsFiniteSet(Lists)
  BY Sizes, FS_Interval DEF Lists
<1> QED
  BY <1>1, <1>4, <1>5

LEMMA AssignedType ==
    ASSUME NEW v \in Versions, NEW r \in SourceRows
    PROVE  Assigned(v, r) \in Lists
<1>1. Cardinality(Lists) \in Nat /\ 0 < Cardinality(Lists)
  BY Sizes, FS_Interval DEF Lists
<1>2. PICK l \in Lists : Cardinality(Ahead(Lists, ListOrder(v, r), l)) = 0
  BY <1>1, ListsOrdered, Places
<1>3. IsFiniteSet(Ahead(Lists, ListOrder(v, r), l))
  <2>1. Ahead(Lists, ListOrder(v, r), l) \in SUBSET Lists
    BY DEF Ahead
  <2> QED
    BY <2>1, ListsOrdered, FS_Subset
<1>4. Ahead(Lists, ListOrder(v, r), l) = {}
  BY <1>2, <1>3, FS_EmptySet
<1>5. \A m \in Lists \ {l} : CloserList(v, r, l, m)
  <2>1. \A m \in Lists : ~CloserList(v, r, m, l)
    BY <1>4, ListsOrdered DEF Ahead
  <2> QED
    BY <2>1, ListsOrdered DEF StrictOrder
<1> QED
  BY <1>5 DEF Assigned

-----------------------------------------------------------------------------
(* Counts and offsets.                                                     *)

AtMost(v, n, l) == {r \in 1..n : Assigned(v, r) <= l}
Exactly(v, n, l) == {r \in 1..n : Assigned(v, r) = l}
Between(v, n, m, l) == {r \in n + 1..m : Assigned(v, r) = l}

LEMMA CountTypes ==
    ASSUME NEW v, NEW n \in 0..PostRows, NEW l
    PROVE  /\ IsFiniteSet(AtMost(v, n, l)) /\ IsFiniteSet(Exactly(v, n, l))
           /\ Cardinality(AtMost(v, n, l)) \in Nat /\ Cardinality(Exactly(v, n, l)) \in Nat
<1>1. IsFiniteSet(1..n)
  BY Sizes, FS_Interval
<1>2. AtMost(v, n, l) \in SUBSET (1..n) /\ Exactly(v, n, l) \in SUBSET (1..n)
  BY DEF AtMost, Exactly
<1> QED
  BY <1>1, <1>2, CountLess

LEMMA AssignedBelow ==
    ASSUME NEW v \in Versions, NEW n \in 0..PostRows, NEW r \in 1..n
    PROVE  r \in SourceRows /\ Assigned(v, r) \in Lists /\ Assigned(v, r) \in 1..Len(Centers)
<1>1. r \in SourceRows
  BY Sizes DEF SourceRows
<1> QED
  BY <1>1, AssignedType DEF Lists

LEMMA LowSteps ==
    ASSUME NEW v \in Versions, NEW n \in 0..PostRows
    PROVE  /\ LowTo(v, n)[0] = 0 /\ LowTo(v, n)[Len(Centers)] = n
           /\ \A l \in 0..Len(Centers) : LowTo(v, n)[l] \in Nat
           /\ \A l \in Lists : /\ LowTo(v, n)[l] = LowTo(v, n)[l - 1] + CountsTo(v, n)[l]
                               /\ CountsTo(v, n)[l] \in Nat
<1>0. Len(Centers) \in Nat /\ n \in Nat
  BY Sizes
<1>1. \A l \in 0..Len(Centers) : LowTo(v, n)[l] = Cardinality(AtMost(v, n, l))
  BY DEF LowTo, AtMost
<1>2. \A l \in Lists : CountsTo(v, n)[l] = Cardinality(Exactly(v, n, l))
  BY DEF CountsTo, Exactly
<1>3. AtMost(v, n, 0) = {}
  BY <1>0, AssignedBelow DEF AtMost
<1>4. AtMost(v, n, Len(Centers)) = 1..n
  BY <1>0, AssignedBelow DEF AtMost
<1>5. Cardinality(1..n) = n
  BY <1>0, FS_Interval
<1>6. LowTo(v, n)[0] = 0
  <2>1. LowTo(v, n)[0] = Cardinality(AtMost(v, n, 0))
    BY <1>0, <1>1
  <2>2. Cardinality(AtMost(v, n, 0)) = Cardinality({})
    BY <1>3
  <2> QED
    BY <2>1, <2>2, FS_EmptySet
<1>7. LowTo(v, n)[Len(Centers)] = n
  BY <1>0, <1>1, <1>4, <1>5
<1>8. \A l \in 0..Len(Centers) : LowTo(v, n)[l] \in Nat
  BY <1>1, CountTypes
<1>9. ASSUME NEW l \in Lists
      PROVE  /\ LowTo(v, n)[l] = LowTo(v, n)[l - 1] + CountsTo(v, n)[l]
             /\ CountsTo(v, n)[l] \in Nat
  <2>1. l \in 0..Len(Centers) /\ l - 1 \in 0..Len(Centers)
    BY <1>0 DEF Lists
  <2>2. \A r \in 1..n : Assigned(v, r) \in Int
    BY <1>0, AssignedBelow
  <2>3. AtMost(v, n, l - 1) \cup Exactly(v, n, l) = AtMost(v, n, l)
    BY <2>1, <2>2 DEF AtMost, Exactly
  <2>4. AtMost(v, n, l - 1) \cap Exactly(v, n, l) = {}
    BY <2>1, <2>2 DEF AtMost, Exactly
  <2>5. Cardinality(AtMost(v, n, l)) = Cardinality(AtMost(v, n, l - 1)) + Cardinality(Exactly(v, n, l))
    BY <2>3, <2>4, CountTypes, CountBoth
  <2> QED
    BY <1>1, <1>2, <2>1, <2>5, CountTypes
<1> QED
  BY <1>6, <1>7, <1>8, <1>9

(* The sums of the counts are the numbers of rows of the lists before.     *)
LEMMA OffsetsAre ==
    ASSUME NEW v \in Versions, NEW n \in 0..PostRows, NEW counts,
           \A l \in Lists : counts[l] = CountsTo(v, n)[l]
    PROVE  OffsetsOf(counts) = LowTo(v, n)
<1> DEFINE Is(up) == up = [l \in 0..Len(Centers) |-> IF l = 0 THEN 0 ELSE up[l - 1] + counts[l]]
           low == LowTo(v, n)
           up == CHOOSE f : Is(f)
<1>0. Len(Centers) \in Nat
  BY Sizes
<1>1. OffsetsOf(counts) = up
  BY DEF OffsetsOf
<1>2. /\ low[0] = 0 /\ \A l \in 0..Len(Centers) : low[l] \in Nat
      /\ \A l \in Lists : low[l] = low[l - 1] + counts[l]
  BY LowSteps
<1>3. DOMAIN low = 0..Len(Centers) /\ low = [l \in 0..Len(Centers) |-> low[l]]
  BY DEF LowTo
<1>4. \A l \in 0..Len(Centers) : low[l] = IF l = 0 THEN 0 ELSE low[l - 1] + counts[l]
  BY <1>0, <1>2 DEF Lists
<1>5. Is(low)
  <2> HIDE DEF low
  <2> QED
    BY <1>3, <1>4
<1>6. Is(up)
  <2> HIDE DEF Is, low
  <2> QED
    BY <1>5
<1> HIDE DEF up, low
<1>7. \A l \in 0..Len(Centers) : up[l] = IF l = 0 THEN 0 ELSE up[l - 1] + counts[l]
  BY <1>6
<1>8. DOMAIN up = 0..Len(Centers) /\ up = [l \in 0..Len(Centers) |-> up[l]]
  BY <1>6
<1> HIDE DEF Is
<1>9. \A l \in 0..Len(Centers) : up[l] = low[l]
  <2> DEFINE T == {l \in 0..Len(Centers) : up[l] # low[l]}
  <2> SUFFICES ASSUME T # {} PROVE FALSE
    OBVIOUS
  <2>1. T \subseteq Nat
    BY <1>0
  <2>2. PICK l \in T : \A m \in T : l <= m
    BY <2>1, LeastOf
  <2>3. l # 0
    BY <1>0, <1>2, <1>7
  <2>4. l - 1 \in 0..Len(Centers) /\ l \in Lists /\ ~(l <= l - 1) /\ l \in 0..Len(Centers)
    BY <1>0, <2>3 DEF Lists
  <2>5. up[l - 1] = low[l - 1]
    BY <2>2, <2>4
  <2> QED
    BY <1>2, <1>7, <2>2, <2>3, <2>4, <2>5
<1> QED
  BY <1>1, <1>3, <1>8, <1>9

LEMMA CountedMore ==
    ASSUME NEW v \in Versions, NEW n \in 0..PostRows, NEW m \in n..PostRows, NEW l \in Lists
    PROVE  /\ CountsTo(v, m)[l] = CountsTo(v, n)[l] + Cardinality(Between(v, n, m, l))
           /\ Cardinality(Between(v, n, m, l)) \in Nat
<1> DEFINE S == Between(v, n, m, l)
<1>0. n \in Nat /\ m \in 0..PostRows /\ n <= m
  BY Sizes
<1>1. Exactly(v, n, l) \cup S = Exactly(v, m, l) /\ Exactly(v, n, l) \cap S = {}
  BY <1>0 DEF Exactly, Between
<1>2. IsFiniteSet(Exactly(v, m, l))
  BY <1>0, CountTypes
<1>3. Cardinality(S) \in Nat /\ Cardinality(Exactly(v, m, l)) = Cardinality(Exactly(v, n, l)) + Cardinality(S)
  <2> HIDE DEF S
  <2> QED
    BY <1>1, <1>2, CountBoth
<1>4. CountsTo(v, m)[l] = Cardinality(Exactly(v, m, l)) /\ CountsTo(v, n)[l] = Cardinality(Exactly(v, n, l))
  BY DEF CountsTo, Exactly
<1> QED
  BY <1>3, <1>4

-----------------------------------------------------------------------------
(* The position of a row.                                                  *)

RowOrder(v) == {e \in SourceRows \X SourceRows : Precedes(v, e[1], e[2])}

LEMMA RowsOrdered ==
    ASSUME NEW v \in Versions
    PROVE  /\ StrictOrder(SourceRows, RowOrder(v)) /\ IsFiniteSet(SourceRows)
           /\ Cardinality(SourceRows) = PostRows
           /\ \A s, r \in SourceRows : <<s, r>> \in RowOrder(v) <=> Precedes(v, s, r)
           /\ \A r \in SourceRows : Home(v, r) = Cardinality(Ahead(SourceRows, RowOrder(v), r))
<1>1. \A s, r \in SourceRows : <<s, r>> \in RowOrder(v) <=> Precedes(v, s, r)
  BY DEF RowOrder
<1>2. \A r \in SourceRows : Assigned(v, r) \in Int /\ r \in Int
  BY Sizes, AssignedType DEF Lists, SourceRows
<1>3. StrictOrder(SourceRows, RowOrder(v))
  BY <1>1, <1>2 DEF StrictOrder, Precedes
<1>4. IsFiniteSet(SourceRows) /\ Cardinality(SourceRows) = PostRows
  BY Sizes, FS_Interval DEF SourceRows
<1>5. ASSUME NEW r \in SourceRows
      PROVE  Home(v, r) = Cardinality(Ahead(SourceRows, RowOrder(v), r))
  <2>1. Ahead(SourceRows, RowOrder(v), r) = {s \in SourceRows : Precedes(v, s, r)}
    BY <1>1 DEF Ahead
  <2> QED
    BY <2>1 DEF Home
<1> QED
  BY <1>1, <1>3, <1>4, <1>5

LEMMA Homes ==
    ASSUME NEW v \in Versions
    PROVE  /\ \A r \in SourceRows : Home(v, r) \in Positions
           /\ \A r, s \in SourceRows : Home(v, r) = Home(v, s) => r = s
           /\ \A p \in Positions : \E r \in SourceRows : Home(v, r) = p
<1>1. \A r \in SourceRows : Home(v, r) \in Nat /\ Home(v, r) < PostRows
  BY RowsOrdered, AheadWithin
<1>2. \A r, s \in SourceRows : Home(v, r) = Home(v, s) => r = s
  BY RowsOrdered, Places
<1>3. \A n \in Nat : n < PostRows => \E r \in SourceRows : Home(v, r) = n
  BY RowsOrdered, Places
<1>4. \A p : p \in Positions <=> p \in Nat /\ p < PostRows
  BY Sizes DEF Positions
<1> QED
  BY <1>1, <1>2, <1>3, <1>4

(* The lists before, and the rows of the list before. *)
LEMMA HomeIs ==
    ASSUME NEW v \in Versions, NEW r \in SourceRows
    PROVE  /\ r - 1 \in 0..PostRows /\ Assigned(v, r) \in Lists
           /\ Home(v, r) = LowTo(v, PostRows)[Assigned(v, r) - 1] + CountsTo(v, r - 1)[Assigned(v, r)]
<1> DEFINE l == Assigned(v, r)
<1>0. PostRows \in Nat /\ r \in Nat /\ 1 <= r /\ r <= PostRows /\ r - 1 \in 0..PostRows
  BY Sizes DEF SourceRows
<1>1. l \in Lists /\ l - 1 \in 0..Len(Centers) /\ l \in Int
  BY Sizes, AssignedType DEF Lists
<1>2. \A s \in SourceRows : Assigned(v, s) \in Int /\ s \in Int
  BY Sizes, AssignedType DEF Lists, SourceRows
<1>3. SourceRows = 1..PostRows /\ 1..(r - 1) \subseteq SourceRows
  BY <1>0 DEF SourceRows
<1>4. AtMost(v, PostRows, l - 1) \cup Exactly(v, r - 1, l) = {s \in SourceRows : Precedes(v, s, r)}
  <2> HIDE DEF l
  <2>1. ASSUME NEW s \in SourceRows
        PROVE  s \in AtMost(v, PostRows, l - 1) \/ s \in Exactly(v, r - 1, l) <=> Precedes(v, s, r)
    <3>1. Precedes(v, s, r) <=> Assigned(v, s) < l \/ (Assigned(v, s) = l /\ s < r)
      BY DEF Precedes, l
    <3>2. s \in AtMost(v, PostRows, l - 1) <=> Assigned(v, s) <= l - 1
      BY <1>3 DEF AtMost
    <3>3. s \in Exactly(v, r - 1, l) <=> s \in 1..(r - 1) /\ Assigned(v, s) = l
      BY DEF Exactly
    <3>4. s \in 1..(r - 1) <=> s < r
      BY <1>0, <1>3
    <3> QED
      BY <1>1, <1>2, <3>1, <3>2, <3>3, <3>4
  <2>2. AtMost(v, PostRows, l - 1) \subseteq SourceRows /\ Exactly(v, r - 1, l) \subseteq SourceRows
    BY <1>3 DEF AtMost, Exactly
  <2> QED
    BY <2>1, <2>2
<1>5. AtMost(v, PostRows, l - 1) \cap Exactly(v, r - 1, l) = {}
  BY <1>1 DEF AtMost, Exactly
<1>6. IsFiniteSet({s \in SourceRows : Precedes(v, s, r)})
  <2>1. {s \in SourceRows : Precedes(v, s, r)} \in SUBSET SourceRows
    OBVIOUS
  <2> QED
    BY <2>1, RowsOrdered, FS_Subset
<1>7. Home(v, r) = Cardinality(AtMost(v, PostRows, l - 1)) + Cardinality(Exactly(v, r - 1, l))
  <2> HIDE DEF l
  <2> QED
    BY <1>4, <1>5, <1>6, CountBoth DEF Home
<1>8. LowTo(v, PostRows)[l - 1] = Cardinality(AtMost(v, PostRows, l - 1))
  BY <1>1 DEF LowTo, AtMost
<1>9. CountsTo(v, r - 1)[l] = Cardinality(Exactly(v, r - 1, l))
  BY <1>1 DEF CountsTo, Exactly
<1> QED
  BY <1>0, <1>1, <1>7, <1>8, <1>9

LEMMA LowGrows ==
    ASSUME NEW v \in Versions, NEW l \in 0..Len(Centers), NEW m \in 0..Len(Centers), l <= m
    PROVE  LowTo(v, PostRows)[l] <= LowTo(v, PostRows)[m]
<1>0. PostRows \in 0..PostRows /\ l \in Int /\ m \in Int
  BY Sizes
<1>1. AtMost(v, PostRows, l) \in SUBSET AtMost(v, PostRows, m)
  <2>1. \A r \in 1..PostRows : Assigned(v, r) \in Int
    BY <1>0, Sizes, AssignedBelow
  <2> QED
    BY <1>0, <2>1 DEF AtMost
<1>2. Cardinality(AtMost(v, PostRows, l)) <= Cardinality(AtMost(v, PostRows, m))
  BY <1>0, <1>1, CountTypes, CountLess
<1> QED
  BY <1>2 DEF LowTo, AtMost

(* A list has the positions between two offsets. *)
LEMMA HomeInList ==
    ASSUME NEW v \in Versions, NEW r \in SourceRows, NEW l \in Lists
    PROVE  Home(v, r) \in LowTo(v, PostRows)[l - 1]..LowTo(v, PostRows)[l] - 1 <=> Assigned(v, r) = l
<1> DEFINE a == Assigned(v, r)
           Low(k) == LowTo(v, PostRows)[k]
<1>0. PostRows \in 0..PostRows /\ r - 1 \in 0..PostRows /\ r \in (r - 1) + 1..PostRows /\ r \in r - 1..PostRows
  BY Sizes DEF SourceRows
<1>1. a \in Lists /\ a \in Nat /\ l \in Nat /\ a >= 1 /\ l >= 1
      /\ {a - 1, a, l - 1, l} \subseteq 0..Len(Centers)
  BY Sizes, AssignedType DEF Lists
<1>2. Low(a - 1) \in Nat /\ Low(a) \in Nat /\ Low(l - 1) \in Nat /\ Low(l) \in Nat
  BY <1>0, <1>1, LowSteps
<1>3. Home(v, r) = Low(a - 1) + CountsTo(v, r - 1)[a] /\ CountsTo(v, r - 1)[a] \in Nat
  BY <1>0, <1>1, HomeIs, LowSteps
<1>4. CountsTo(v, r - 1)[a] < CountsTo(v, PostRows)[a] /\ CountsTo(v, PostRows)[a] \in Nat
  <2>1. Exactly(v, r - 1, a) \in SUBSET Exactly(v, PostRows, a)
    BY <1>0 DEF Exactly
  <2>2. r \in Exactly(v, PostRows, a) /\ r \notin Exactly(v, r - 1, a)
    BY <1>0 DEF Exactly, SourceRows
  <2>3. IsFiniteSet(Exactly(v, PostRows, a))
    BY <1>0, CountTypes
  <2>4. Cardinality(Exactly(v, r - 1, a)) < Cardinality(Exactly(v, PostRows, a))
    BY <2>1, <2>2, <2>3, CountLess
  <2>5. CountsTo(v, r - 1)[a] = Cardinality(Exactly(v, r - 1, a))
    BY <1>1 DEF CountsTo, Exactly
  <2>6. CountsTo(v, PostRows)[a] = Cardinality(Exactly(v, PostRows, a))
    BY <1>1 DEF CountsTo, Exactly
  <2> QED
    BY <1>0, <2>4, <2>5, <2>6, CountTypes
<1>5. Low(a) = Low(a - 1) + CountsTo(v, PostRows)[a]
  <2>1. \A k \in Lists : LowTo(v, PostRows)[k] = LowTo(v, PostRows)[k - 1] + CountsTo(v, PostRows)[k]
    BY <1>0, LowSteps
  <2>2. a \in Lists
    BY <1>1
  <2> HIDE DEF a
  <2> QED
    BY <2>1, <2>2
<1>6. a < l => Low(a) <= Low(l - 1)
  BY <1>1, LowGrows
<1>7. l < a => Low(l) <= Low(a - 1)
  BY <1>1, LowGrows
<1>8. Home(v, r) \in Nat /\ Low(a - 1) <= Home(v, r) /\ Home(v, r) < Low(a)
  BY <1>2, <1>3, <1>4, <1>5
<1>9. Home(v, r) \in Low(l - 1)..Low(l) - 1 <=> Low(l - 1) <= Home(v, r) /\ Home(v, r) < Low(l)
  BY <1>2, <1>8
<1> HIDE DEF a, Low
<1>10. Home(v, r) \in Low(l - 1)..Low(l) - 1 <=> a = l
  BY <1>1, <1>2, <1>6, <1>7, <1>8, <1>9
<1> QED
  BY <1>10 DEF a, Low

-----------------------------------------------------------------------------
(* Counting, placing and checking blocks of rows.                          *)

BlockEnd(n) == IF n + PostBlock <= PostRows THEN n + PostBlock ELSE PostRows

LEMMA BlockMin ==
    ASSUME NEW n \in 0..PostRows
    PROVE  Min({n + PostBlock, PostRows}) = BlockEnd(n)
  BY Sizes, MinOfTwo DEF BlockEnd

LEMMA BlockIs ==
    ASSUME NEW n \in 0..PostRows
    PROVE  /\ BlockEnd(n) \in n..PostRows /\ BlockEnd(n) \in 0..PostRows
           /\ BlockOf(n) = n + 1..BlockEnd(n)
<1>1. n \in Nat /\ PostRows \in Nat /\ PostBlock \in Nat /\ n <= PostRows
  BY Sizes
<1>2. Min({n + PostBlock, PostRows}) = BlockEnd(n)
  BY BlockMin
<1>3. BlockEnd(n) \in n..PostRows /\ BlockEnd(n) \in 0..PostRows
  BY <1>1 DEF BlockEnd
<1> QED
  BY <1>2, <1>3 DEF BlockOf

LEMMA CountsGrow ==
    ASSUME NEW v \in Versions, NEW n \in 0..PostRows
    PROVE  \A l \in Lists : CountsTo(v, BlockEnd(n))[l] =
               CountsTo(v, n)[l] + Cardinality(InList(v, n, l))
<1> SUFFICES ASSUME NEW l \in Lists
             PROVE  CountsTo(v, BlockEnd(n))[l] = CountsTo(v, n)[l] + Cardinality(InList(v, n, l))
  OBVIOUS
<1>1. InList(v, n, l) = Between(v, n, BlockEnd(n), l)
  BY BlockIs DEF InList, Between
<1> QED
  BY <1>1, BlockIs, CountedMore

LEMMA CountedIs ==
    ASSUME NEW v \in Versions, NEW n \in 0..PostRows
    PROVE  Counted(CountsTo(v, n), v, n) = CountsTo(v, BlockEnd(n))
  BY CountsGrow DEF Counted, CountsTo

LEMMA NoneCounted ==
    ASSUME NEW v
    PROVE  CountsTo(v, 0) = [l \in Lists |-> 0]
<1>1. \A l : {r \in 1..0 : Assigned(v, r) = l} = {}
  OBVIOUS
<1>2. Cardinality({}) = 0
  BY FS_EmptySet
<1>3. \A l \in Lists : CountsTo(v, 0)[l] = 0
  BY <1>1, <1>2 DEF CountsTo
<1> QED
  BY <1>3 DEF CountsTo

LEMMA StartsAre ==
    ASSUME NEW v \in Versions
    PROVE  /\ OffsetsOf(CountsTo(v, PostRows)) = LowTo(v, PostRows)
           /\ Starts(CountsTo(v, PostRows)) = NextTo(v, 0)
           /\ \A l \in Lists : /\ Starts(CountsTo(v, PostRows))[l] = LowTo(v, PostRows)[l - 1]
                               /\ Ends(CountsTo(v, PostRows))[l] = LowTo(v, PostRows)[l]
<1>0. PostRows \in 0..PostRows /\ \A l \in Lists : l - 1 \in 0..Len(Centers)
  BY Sizes DEF Lists
<1>1. OffsetsOf(CountsTo(v, PostRows)) = LowTo(v, PostRows)
  BY <1>0, OffsetsAre
<1>2. \A l \in Lists : /\ Starts(CountsTo(v, PostRows))[l] = LowTo(v, PostRows)[l - 1]
                       /\ Ends(CountsTo(v, PostRows))[l] = LowTo(v, PostRows)[l]
  BY <1>1 DEF Starts, Ends
<1>3. \A l \in Lists : NextTo(v, 0)[l] = LowTo(v, PostRows)[l - 1]
  <2>1. \A l \in Lists : LowTo(v, PostRows)[l - 1] \in Nat
    BY <1>0, LowSteps
  <2> QED
    BY <2>1, NoneCounted DEF NextTo
<1> QED
  BY <1>1, <1>2, <1>3 DEF Starts, NextTo

LEMMA NextGrows ==
    ASSUME NEW v \in Versions, NEW n \in 0..PostRows
    PROVE  NextTo(v, BlockEnd(n)) =
               [l \in Lists |-> NextTo(v, n)[l] + Cardinality(InList(v, n, l))]
<1>1. ASSUME NEW l \in Lists
      PROVE  NextTo(v, BlockEnd(n))[l] = NextTo(v, n)[l] + Cardinality(InList(v, n, l))
  <2>0. PostRows \in 0..PostRows /\ l - 1 \in 0..Len(Centers) /\ BlockEnd(n) \in 0..PostRows
    BY Sizes, BlockIs DEF Lists
  <2>1. CountsTo(v, BlockEnd(n))[l] = CountsTo(v, n)[l] + Cardinality(InList(v, n, l))
    BY CountsGrow
  <2>2. LowTo(v, PostRows)[l - 1] \in Nat /\ CountsTo(v, n)[l] \in Nat
    BY <2>0, LowSteps
  <2>3. Cardinality(InList(v, n, l)) \in Nat
    <3>1. InList(v, n, l) = Between(v, n, BlockEnd(n), l)
      BY BlockIs DEF InList, Between
    <3> QED
      BY <3>1, BlockIs, CountedMore
  <2>4. /\ NextTo(v, n)[l] = LowTo(v, PostRows)[l - 1] + CountsTo(v, n)[l]
        /\ NextTo(v, BlockEnd(n))[l] = LowTo(v, PostRows)[l - 1] + CountsTo(v, BlockEnd(n))[l]
    BY DEF NextTo
  <2> QED
    BY <2>1, <2>2, <2>3, <2>4
<1> QED
  BY <1>1 DEF NextTo

(* Rows of a block go to their positions. *)
LEMMA RowAt ==
    ASSUME NEW v \in Versions, NEW n \in 0..PostRows, NEW r \in BlockOf(n)
    PROVE  /\ r \in SourceRows
           /\ NextTo(v, n)[Assigned(v, r)]
                  + Cardinality({s \in InList(v, n, Assigned(v, r)) : s < r}) = Home(v, r)
<1> DEFINE l == Assigned(v, r)
<1>0. PostRows \in 0..PostRows /\ n \in Nat /\ r \in Nat /\ n + 1 <= r /\ r <= BlockEnd(n)
      /\ BlockEnd(n) <= PostRows /\ BlockEnd(n) \in Nat
  <2>1. PostRows \in Nat
    BY Sizes
  <2>2. BlockEnd(n) \in 0..PostRows /\ BlockOf(n) = n + 1..BlockEnd(n)
    BY BlockIs
  <2>3. r \in n + 1..BlockEnd(n)
    BY <2>2
  <2> HIDE DEF l
  <2> QED
    BY <2>1, <2>2, <2>3
<1>1. r \in SourceRows /\ r - 1 \in n..PostRows /\ r - 1 \in 0..PostRows
  BY <1>0 DEF SourceRows
<1>2. l \in Lists /\ l - 1 \in 0..Len(Centers)
  BY <1>1, Sizes, AssignedType DEF Lists
<1>3. {s \in InList(v, n, l) : s < r} = Between(v, n, r - 1, l)
  <2>1. BlockOf(n) = n + 1..BlockEnd(n)
    BY BlockIs
  <2>2. {s \in BlockOf(n) : s < r} = n + 1..(r - 1)
    BY <1>0, <2>1
  <2> QED
    BY <2>2 DEF InList, Between
<1>4. /\ CountsTo(v, r - 1)[l] = CountsTo(v, n)[l] + Cardinality(Between(v, n, r - 1, l))
      /\ Cardinality(Between(v, n, r - 1, l)) \in Nat
  BY <1>1, <1>2, CountedMore
<1>5. Home(v, r) = LowTo(v, PostRows)[l - 1] + CountsTo(v, r - 1)[l]
  BY <1>1, HomeIs
<1>6. LowTo(v, PostRows)[l - 1] \in Nat /\ CountsTo(v, n)[l] \in Nat
  BY <1>0, <1>2, LowSteps
<1>7. NextTo(v, n)[l] = LowTo(v, PostRows)[l - 1] + CountsTo(v, n)[l]
  BY <1>2 DEF NextTo
<1> HIDE DEF l
<1>8. NextTo(v, n)[l] + Cardinality(Between(v, n, r - 1, l)) = Home(v, r)
  BY <1>4, <1>5, <1>6, <1>7
<1> QED
  BY <1>1, <1>3, <1>8 DEF l

LEMMA RowsPlacedAre ==
    ASSUME NEW v \in Versions, NEW n \in 0..PostRows
    PROVE  /\ DOMAIN RowsPlaced(NextTo(v, n), v, n) = {Home(v, r) : r \in BlockOf(n)}
           /\ \A r \in BlockOf(n) : /\ RowsPlaced(NextTo(v, n), v, n)[Home(v, r)] = r
                                    /\ r \in SourceRows
<1> DEFINE At(r) == NextTo(v, n)[Assigned(v, r)]
                        + Cardinality({s \in InList(v, n, Assigned(v, r)) : s < r})
           Claims(p) == {r \in BlockOf(n) : At(r) = p}
           placed == [p \in {At(r) : r \in BlockOf(n)} |->
                         CHOOSE r \in Claims(p) : \A s \in Claims(p) : Assigned(v, s) <= Assigned(v, r)]
<1>1. RowsPlaced(NextTo(v, n), v, n) = placed
  BY DEF RowsPlaced
<1>2. \A r \in BlockOf(n) : At(r) = Home(v, r) /\ r \in SourceRows
  BY RowAt
<1> HIDE DEF At
<1>3. {At(r) : r \in BlockOf(n)} = {Home(v, r) : r \in BlockOf(n)}
  BY <1>2
<1>4. DOMAIN placed = {Home(v, r) : r \in BlockOf(n)}
  BY <1>3
<1>5. ASSUME NEW r \in BlockOf(n) PROVE placed[Home(v, r)] = r
  <2>1. Home(v, r) \in {At(s) : s \in BlockOf(n)}
    BY <1>3
  <2>2. Claims(Home(v, r)) = {r}
    BY <1>2, Homes
  <2>3. placed[Home(v, r)] = CHOOSE t \in Claims(Home(v, r)) :
                                \A s \in Claims(Home(v, r)) : Assigned(v, s) <= Assigned(v, t)
    BY <2>1
  <2>4. Assigned(v, r) <= Assigned(v, r)
    BY <1>2, Sizes, AssignedType DEF Lists
  <2> HIDE DEF Claims
  <2> QED
    BY <2>2, <2>3, <2>4
<1> QED
  BY <1>1, <1>2, <1>4, <1>5

LEMMA PlacedIs ==
    ASSUME NEW v \in Versions, NEW n \in 0..PostRows, NEW stream,
           HoldsTo(v, n, stream.features, stream.ids)
    PROVE  LET placed == Placed(stream, NextTo(v, n), v, n)
           IN  HoldsTo(v, BlockEnd(n), placed.features, placed.ids)
<1> DEFINE rows == RowsPlaced(NextTo(v, n), v, n)
           values == [p \in DOMAIN rows |-> Value(v, rows[p])]
           placed == Placed(stream, NextTo(v, n), v, n)
<1>1. placed.features = Over(stream.features, values) /\ placed.ids = Over(stream.ids, rows)
  BY DEF Placed
<1>2. /\ DOMAIN rows = {Home(v, r) : r \in BlockOf(n)}
      /\ \A r \in BlockOf(n) : rows[Home(v, r)] = r /\ r \in SourceRows
  BY RowsPlacedAre
<1> HIDE DEF rows
<1>3. DOMAIN rows \subseteq Positions
  BY <1>2, Homes
<1>4. DOMAIN stream.features = Positions /\ DOMAIN stream.ids = Positions
  BY DEF HoldsTo
<1>5. DOMAIN values = DOMAIN rows
  OBVIOUS
<1>6. DOMAIN placed.features = Positions /\ DOMAIN placed.ids = Positions
  BY <1>1, <1>3, <1>4, <1>5 DEF Over
<1>7. \A p \in DOMAIN rows : placed.ids[p] = rows[p] /\ placed.features[p] = Value(v, rows[p])
  BY <1>1, <1>5 DEF Over
<1>8. \A p \in Positions : p \notin DOMAIN rows =>
          placed.ids[p] = stream.ids[p] /\ placed.features[p] = stream.features[p]
  BY <1>1, <1>4, <1>5 DEF Over
<1> HIDE DEF placed, values
<1>9. ASSUME NEW r \in 1..BlockEnd(n)
      PROVE  placed.ids[Home(v, r)] = r /\ placed.features[Home(v, r)] = Value(v, r)
  <2>1. CASE r \in BlockOf(n)
    BY <1>2, <1>7, <2>1
  <2>2. CASE r \notin BlockOf(n)
    <3>1. r \in 1..n /\ r \in SourceRows
      BY <2>2, BlockIs, Sizes DEF SourceRows
    <3>2. Home(v, r) \in Positions
      BY <3>1, Homes
    <3>3. \A s \in BlockOf(n) : Home(v, s) # Home(v, r)
      BY <1>2, <2>2, <3>1, Homes
    <3>4. Home(v, r) \notin DOMAIN rows
      BY <1>2, <3>3
    <3>5. stream.ids[Home(v, r)] = r /\ stream.features[Home(v, r)] = Value(v, r)
      BY <3>1 DEF HoldsTo
    <3> QED
      BY <1>8, <3>2, <3>4, <3>5
  <2> QED
    BY <2>1, <2>2
<1>10. HoldsTo(v, BlockEnd(n), placed.features, placed.ids)
  BY <1>6, <1>9 DEF HoldsTo
<1> QED
  BY <1>10 DEF placed

(* The record of a call passes the check of the call that resumes it. *)
LEMMA PositionsRight ==
    ASSUME NEW v \in Versions, NEW s, s.done \in 0..PostRows,
           s.counts = CountsTo(v, PostRows), s.next = NextTo(v, s.done), OnBlock(s.done)
    PROVE  PositionsFit(s)
<1> DEFINE n == s.done
           moved == [l \in Lists |-> s.next[l] - Starts(s.counts)[l]]
<1>0. PostRows \in 0..PostRows /\ PostRows \in n..PostRows /\ n \in 0..PostRows
  BY Sizes
<1>1. ASSUME NEW l \in Lists
      PROVE  /\ s.next[l] \in Starts(s.counts)[l]..Ends(s.counts)[l]
             /\ s.next[l] - Starts(s.counts)[l] = CountsTo(v, n)[l]
  <2>0. l - 1 \in 0..Len(Centers) /\ l \in 0..Len(Centers)
    BY Sizes DEF Lists
  <2>1. s.next[l] = LowTo(v, PostRows)[l - 1] + CountsTo(v, n)[l]
    BY DEF NextTo
  <2>2. /\ Starts(s.counts)[l] = LowTo(v, PostRows)[l - 1]
        /\ Ends(s.counts)[l] = LowTo(v, PostRows)[l]
    BY StartsAre
  <2>3. LowTo(v, PostRows)[l] = LowTo(v, PostRows)[l - 1] + CountsTo(v, PostRows)[l]
    BY <1>0, LowSteps
  <2>4. /\ CountsTo(v, PostRows)[l] = CountsTo(v, n)[l] + Cardinality(Between(v, n, PostRows, l))
        /\ Cardinality(Between(v, n, PostRows, l)) \in Nat
    BY <1>0, CountedMore
  <2>5. LowTo(v, PostRows)[l - 1] \in Nat /\ CountsTo(v, n)[l] \in Nat
    BY <1>0, <2>0, LowSteps
  <2> QED
    BY <2>1, <2>2, <2>3, <2>4, <2>5
<1>2. OffsetsOf(moved) = LowTo(v, n)
  <2>1. \A l \in Lists : moved[l] = CountsTo(v, n)[l]
    BY <1>1
  <2> HIDE DEF moved
  <2> QED
    BY <1>0, <2>1, OffsetsAre
<1>3. LowTo(v, n)[Len(Centers)] = n
  BY <1>0, LowSteps
<1>4. OffsetsOf(s.counts)[Len(Centers)] = PostRows
  BY <1>0, StartsAre, LowSteps
<1> QED
  BY <1>1, <1>2, <1>3, <1>4 DEF PositionsFit

(* Files that hold all rows hold nothing else. *)
LEMMA RowAtPosition ==
    ASSUME NEW v \in Versions, NEW features, NEW ids, HoldsTo(v, PostRows, features, ids),
           NEW p \in Positions
    PROVE  /\ ids[p] \in SourceRows /\ Home(v, ids[p]) = p /\ features[p] = Value(v, ids[p])
<1>1. PICK r \in SourceRows : Home(v, r) = p
  BY Homes
<1>2. ids[p] = r /\ features[p] = Value(v, r)
  BY <1>1 DEF HoldsTo, SourceRows
<1> QED
  BY <1>1, <1>2

-----------------------------------------------------------------------------
(* The nearest of a set of candidates.                                     *)

Candidates == [id : SourceRows, far : Int]
NearOrder == {e \in Candidates \X Candidates : Closer(e[1], e[2])}

LEMMA CloserOrders ==
    /\ \A a \in Candidates : ~Closer(a, a)
    /\ \A a, b \in Candidates : a = b \/ Closer(a, b) \/ Closer(b, a)
    /\ \A a, b, c \in Candidates : Closer(a, b) /\ Closer(b, c) => Closer(a, c)
<1>0. \A r \in SourceRows : r \in Int
  BY DEF SourceRows
<1>1. \A a \in Candidates : a.id \in Int /\ a.far \in Int
  BY <1>0 DEF Candidates
<1>2. \A a, b \in Candidates : a.id = b.id /\ a.far = b.far => a = b
  BY DEF Candidates
<1>3. \A a, b \in Candidates : a = b \/ Closer(a, b) \/ Closer(b, a)
  BY <1>1, <1>2 DEF Closer
<1>4. \A a, b, c \in Candidates : Closer(a, b) /\ Closer(b, c) => Closer(a, c)
  BY <1>1 DEF Closer
<1> QED
  BY <1>1, <1>3, <1>4 DEF Closer

LEMMA NearOrdered ==
    ASSUME NEW A \in SUBSET Candidates, IsFiniteSet(A)
    PROVE  /\ StrictOrder(A, NearOrder)
           /\ \A x \in A : Ahead(A, NearOrder, x) = {y \in A : Closer(y, x)}
<1>1. \A a, b \in Candidates : <<a, b>> \in NearOrder <=> Closer(a, b)
  BY DEF NearOrder
<1>2. StrictOrder(A, NearOrder)
  BY <1>1, CloserOrders DEF StrictOrder
<1> QED
  BY <1>1, <1>2 DEF Ahead

LEMMA AmongIs ==
    ASSUME NEW A \in SUBSET Candidates, IsFiniteSet(A)
    PROVE  /\ Cardinality(A) \in Nat
           /\ \A x \in A : PlaceAmong(A, x) \in 1..Cardinality(A)
           /\ \A i \in 1..Cardinality(A) : \E x \in A : PlaceAmong(A, x) = i
           /\ \A x, y \in A : PlaceAmong(A, x) = PlaceAmong(A, y) => x = y
           /\ \A x, y \in A : Closer(x, y) <=> PlaceAmong(A, x) < PlaceAmong(A, y)
<1> DEFINE Of(x) == Cardinality(Ahead(A, NearOrder, x))
<1>1. \A x \in A : PlaceAmong(A, x) = Of(x) + 1
  BY NearOrdered DEF PlaceAmong
<1>2. Cardinality(A) \in Nat
  BY FS_CardinalityType
<1>3. \A x \in A : Of(x) \in Nat /\ Of(x) < Cardinality(A)
  BY NearOrdered, AheadWithin
<1>4. /\ \A n \in Nat : n < Cardinality(A) => \E c \in A : Of(c) = n
      /\ \A c, d \in A : Of(c) = Of(d) => c = d
  BY NearOrdered, Places
<1>5. \A x, y \in A : Closer(x, y) => Of(x) < Of(y)
  <2>1. ASSUME NEW x \in A, NEW y \in A, Closer(x, y) PROVE Of(x) < Of(y)
    <3>1. <<x, y>> \in NearOrder
      BY <2>1 DEF NearOrder
    <3> QED
      BY <3>1, NearOrdered, AheadGrows
  <2> QED
    BY <2>1
<1> HIDE DEF Of
<1>6. \A x \in A : PlaceAmong(A, x) \in 1..Cardinality(A)
  BY <1>1, <1>2, <1>3
<1>7. \A i \in 1..Cardinality(A) : \E x \in A : PlaceAmong(A, x) = i
  <2>1. ASSUME NEW i \in 1..Cardinality(A) PROVE \E x \in A : PlaceAmong(A, x) = i
    <3>1. i - 1 \in Nat /\ i - 1 < Cardinality(A) /\ i \in Nat
      BY <1>2
    <3> QED
      BY <1>1, <1>4, <3>1
  <2> QED
    BY <2>1
<1>8. \A x, y \in A : PlaceAmong(A, x) = PlaceAmong(A, y) => x = y
  BY <1>1, <1>3, <1>4
<1>9. \A x, y \in A : Closer(x, y) <=> PlaceAmong(A, x) < PlaceAmong(A, y)
  <2>1. \A x, y \in A : Of(x) \in Int /\ Of(y) \in Int
    BY <1>3
  <2>2. \A x, y \in A : x = y \/ Closer(x, y) \/ Closer(y, x)
    BY CloserOrders
  <2>3. \A x \in A : ~Closer(x, x)
    BY CloserOrders
  <2> QED
    BY <1>1, <1>5, <2>1, <2>2, <2>3
<1> QED
  BY <1>2, <1>6, <1>7, <1>8, <1>9

LEMMA NearestIs ==
    ASSUME NEW A \in SUBSET Candidates, IsFiniteSet(A)
    PROVE  /\ IsFiniteSet(Nearest(A)) /\ Cardinality(Nearest(A)) \in Nat
           /\ Nearest(A) \in SUBSET Candidates /\ Nearest(A) \in SUBSET A
           /\ \A x \in Nearest(A) : PlaceAmong(Nearest(A), x) = PlaceAmong(A, x)
<1>1. Nearest(A) \in SUBSET A
  BY DEF Nearest
<1>2. IsFiniteSet(Nearest(A)) /\ Cardinality(Nearest(A)) \in Nat
  BY <1>1, CountLess
<1>3. ASSUME NEW x \in Nearest(A)
      PROVE  PlaceAmong(Nearest(A), x) = PlaceAmong(A, x)
  <2>1. ASSUME NEW y \in A, Closer(y, x) PROVE y \in Nearest(A)
    <3>1. PlaceAmong(A, y) < PlaceAmong(A, x) /\ PlaceAmong(A, x) <= Near
      BY <1>1, <2>1, AmongIs DEF Nearest
    <3>2. PlaceAmong(A, y) \in Int /\ PlaceAmong(A, x) \in Int /\ Near \in Int
      BY <1>1, AmongIs, Sizes
    <3> QED
      BY <3>1, <3>2 DEF Nearest
  <2>2. {y \in Nearest(A) : Closer(y, x)} = {y \in A : Closer(y, x)}
    BY <1>1, <2>1
  <2> QED
    BY <2>2 DEF PlaceAmong
<1> QED
  BY <1>1, <1>2, <1>3

(* Fewer than Near of them are all there are. *)
LEMMA FewAreAll ==
    ASSUME NEW A \in SUBSET Candidates, IsFiniteSet(A), Cardinality(Nearest(A)) < Near
    PROVE  Nearest(A) = A /\ Cardinality(A) < Near
<1> DEFINE T == 1..Near
           f == [i \in T |-> CHOOSE x \in A : PlaceAmong(A, x) = i]
<1>0. Near \in Nat /\ Cardinality(A) \in Nat
  BY Sizes, AmongIs
<1>1. ~(Near <= Cardinality(A))
  <2> SUFFICES ASSUME Near <= Cardinality(A) PROVE FALSE
    OBVIOUS
  <2>1. \A i \in T : i \in 1..Cardinality(A)
    BY <1>0
  <2>2. \A i \in T : f[i] \in A /\ PlaceAmong(A, f[i]) = i
    BY <2>1, AmongIs
  <2>3. \A i \in T : f[i] \in Nearest(A)
    BY <1>0, <2>2 DEF Nearest
  <2>4. \A i, j \in T : f[i] = f[j] => i = j
    <3> HIDE DEF f
    <3> QED
      BY <2>2
  <2>5. f \in [T -> Nearest(A)]
    BY <2>3
  <2>6. f \in Injection(T, Nearest(A))
    BY <2>4, <2>5 DEF Injection, IsInjective
  <2>7. Cardinality(T) <= Cardinality(Nearest(A))
    <3> HIDE DEF f, T
    <3> QED
      BY <2>6, NearestIs, FS_Injection
  <2>8. Cardinality(T) = Near
    BY <1>0, FS_Interval
  <2> QED
    BY <1>0, <2>7, <2>8, NearestIs
<1>2. \A x \in A : PlaceAmong(A, x) \in Int /\ PlaceAmong(A, x) <= Cardinality(A)
  BY AmongIs
<1>3. \A x \in A : PlaceAmong(A, x) <= Near
  BY <1>0, <1>1, <1>2
<1> QED
  BY <1>0, <1>1, <1>3 DEF Nearest

LEMMA FarthestIs ==
    ASSUME NEW A \in SUBSET Candidates, IsFiniteSet(A), ~(Cardinality(Nearest(A)) < Near)
    PROVE  /\ Farthest(Nearest(A)) \in A
           /\ PlaceAmong(A, Farthest(Nearest(A))) = Near
<1>0. Near \in Nat \ {0} /\ Cardinality(A) \in Nat
  BY Sizes, AmongIs
<1>1. Near \in 1..Cardinality(A)
  <2>1. Cardinality(Nearest(A)) <= Cardinality(A)
    BY NearestIs, CountLess
  <2> QED
    BY <1>0, <2>1, NearestIs
<1>2. PICK f \in A : PlaceAmong(A, f) = Near
  BY <1>1, AmongIs
<1>3. f \in Nearest(A)
  BY <1>0, <1>2 DEF Nearest
<1>4. ASSUME NEW b \in Nearest(A), b # f PROVE Closer(b, f) /\ ~Closer(f, b)
  <2>1. b \in A /\ PlaceAmong(A, b) <= Near /\ PlaceAmong(A, b) # Near
    BY <1>2, <1>4, AmongIs DEF Nearest
  <2>2. PlaceAmong(A, b) \in Int
    BY <2>1, AmongIs
  <2>3. PlaceAmong(A, b) < PlaceAmong(A, f)
    BY <1>0, <1>2, <2>1, <2>2
  <2> QED
    BY <1>2, <2>1, <2>2, <2>3, AmongIs
<1>5. Farthest(Nearest(A)) = f
  <2>1. \A b \in Nearest(A) \ {f} : Closer(b, f)
    BY <1>4
  <2>2. \A a \in Nearest(A) : (\A b \in Nearest(A) \ {a} : Closer(b, a)) => a = f
    BY <1>3, <1>4
  <2> QED
    BY <1>3, <2>1, <2>2 DEF Farthest
<1> QED
  BY <1>2, <1>5

(* One more candidate takes the places behind it by one. *)
LEMMA AmongMore ==
    ASSUME NEW A \in SUBSET Candidates, IsFiniteSet(A), NEW c \in Candidates, c \notin A,
           NEW x \in Candidates
    PROVE  /\ PlaceAmong(A, x) \in Nat
           /\ PlaceAmong(A \cup {c}, x) =
                  IF Closer(c, x) THEN PlaceAmong(A, x) + 1 ELSE PlaceAmong(A, x)
<1> DEFINE S == {y \in A : Closer(y, x)}
           T == {y \in A \cup {c} : Closer(y, x)}
<1>1. IsFiniteSet(S) /\ Cardinality(S) \in Nat
  <2>1. S \in SUBSET A
    OBVIOUS
  <2> HIDE DEF S
  <2> QED
    BY <2>1, CountLess
<1>2. c \notin S
  OBVIOUS
<1>3. Cardinality(S \cup {c}) = Cardinality(S) + 1
  <2> HIDE DEF S
  <2> QED
    BY <1>1, <1>2, FS_AddElement
<1>4. Closer(c, x) => T = S \cup {c}
  OBVIOUS
<1>5. ~Closer(c, x) => T = S
  OBVIOUS
<1>6. PlaceAmong(A, x) = Cardinality(S) + 1 /\ PlaceAmong(A \cup {c}, x) = Cardinality(T) + 1
  BY DEF PlaceAmong
<1> HIDE DEF S, T
<1> QED
  BY <1>1, <1>3, <1>4, <1>5, <1>6

(* The heap holds the nearest of the candidates it was given. *)
LEMMA KeptIs ==
    ASSUME NEW A \in SUBSET Candidates, IsFiniteSet(A), NEW c \in Candidates, c \notin A
    PROVE  Kept(Nearest(A), c) = Nearest(A \cup {c})
<1> DEFINE B == A \cup {c}
           P(x) == PlaceAmong(A, x)
           Q(x) == PlaceAmong(B, x)
<1>0. Near \in Nat \ {0} /\ Cardinality(A) \in Nat
  BY Sizes, AmongIs
<1>1. B \in SUBSET Candidates /\ IsFiniteSet(B) /\ Cardinality(B) = Cardinality(A) + 1
  BY FS_AddElement
<1>2. \A x \in Candidates : P(x) \in Nat /\ Q(x) = IF Closer(c, x) THEN P(x) + 1 ELSE P(x)
  BY AmongMore
<1>3. Nearest(A) = {x \in A : P(x) <= Near} /\ Nearest(B) = {x \in A \cup {c} : Q(x) <= Near}
  BY DEF Nearest
<1>4. \A x \in B : Q(x) <= Cardinality(B)
  BY <1>1, AmongIs
<1>5. \A x \in A : \A y \in A : Closer(x, y) <=> P(x) < P(y)
  BY AmongIs
<1>6. \A x, y \in A : P(x) = P(y) => x = y
  BY AmongIs
<1> HIDE DEF P, Q
<1>7. CASE Cardinality(Nearest(A)) < Near
  <2>1. Nearest(A) = A /\ Cardinality(A) < Near
    BY <1>7, FewAreAll
  <2>2. \A x \in B : Q(x) <= Near
    <3>1. \A x \in B : Q(x) \in Int
      BY <1>1, <1>2
    <3>2. Cardinality(B) <= Near /\ Cardinality(B) \in Int /\ Near \in Int
      BY <1>0, <1>1, <2>1
    <3>3. \A x \in B : Q(x) \in Int /\ Q(x) <= Cardinality(B)
      BY <1>4, <3>1
    <3> HIDE DEF B
    <3> QED
      BY <3>2, <3>3
  <2>3. Nearest(B) = A \cup {c}
    BY <1>3, <2>2
  <2>4. Kept(Nearest(A), c) = Nearest(A) \cup {c}
    BY <1>7 DEF Kept
  <2> QED
    BY <2>1, <2>3, <2>4
<1>8. CASE ~(Cardinality(Nearest(A)) < Near)
  <2> DEFINE f == Farthest(Nearest(A))
  <2>1. f \in A /\ P(f) = Near
    BY <1>8, FarthestIs DEF P
  <2>2. Kept(Nearest(A), c) = IF Closer(c, f) THEN (Nearest(A) \ {f}) \cup {c} ELSE Nearest(A)
    BY <1>8 DEF Kept
  <2> HIDE DEF f
  <2>3. ~Closer(c, c) /\ c # f /\ (Closer(c, f) \/ Closer(f, c)) /\ ~(Closer(c, f) /\ Closer(f, c))
    BY <2>1, CloserOrders
  <2>4. IsFiniteSet({y \in A : Closer(y, c)}) /\ IsFiniteSet({y \in A : Closer(y, f)})
    <3>1. {y \in A : Closer(y, c)} \in SUBSET A /\ {y \in A : Closer(y, f)} \in SUBSET A
      OBVIOUS
    <3> QED
      BY <3>1, FS_Subset
  <2>5. CASE Closer(c, f)
    <3>1. P(c) <= Near
      <4>1. {y \in A : Closer(y, c)} \in SUBSET {y \in A : Closer(y, f)}
        BY <2>1, <2>5, CloserOrders
      <4>2. Cardinality({y \in A : Closer(y, c)}) <= Cardinality({y \in A : Closer(y, f)})
        BY <2>4, <4>1, CountLess
      <4>3. /\ Cardinality({y \in A : Closer(y, c)}) \in Nat
            /\ Cardinality({y \in A : Closer(y, f)}) \in Nat
        BY <2>4, FS_CardinalityType
      <4> QED
        BY <2>1, <4>2, <4>3 DEF P, PlaceAmong
    <3>2. Q(c) <= Near /\ ~(Q(f) <= Near)
      BY <1>0, <1>2, <2>1, <2>3, <2>5, <3>1
    <3>3. ASSUME NEW x \in A, x # f PROVE Q(x) <= Near <=> P(x) <= Near
      <4>1. P(x) # Near /\ P(x) \in Nat
        BY <1>2, <1>6, <2>1, <3>3
      <4> QED
        BY <1>0, <1>2, <4>1
    <3>4. Nearest(B) = (Nearest(A) \ {f}) \cup {c}
      BY <1>3, <2>1, <3>2, <3>3
    <3> QED
      BY <2>2, <2>5, <3>4
  <2>6. CASE ~Closer(c, f)
    <3>1. P(c) > Near
      <4>1. {y \in A : Closer(y, f)} \in SUBSET {y \in A : Closer(y, c)}
        BY <2>1, <2>3, <2>6, CloserOrders
      <4>2. f \in {y \in A : Closer(y, c)} /\ f \notin {y \in A : Closer(y, f)}
        BY <2>1, <2>3, <2>6, CloserOrders
      <4>3. Cardinality({y \in A : Closer(y, f)}) < Cardinality({y \in A : Closer(y, c)})
        BY <2>4, <4>1, <4>2, CountLess
      <4>4. /\ Cardinality({y \in A : Closer(y, c)}) \in Nat
            /\ Cardinality({y \in A : Closer(y, f)}) \in Nat
        BY <2>4, FS_CardinalityType
      <4> QED
        BY <2>1, <4>3, <4>4 DEF P, PlaceAmong
    <3>2. ~(Q(c) <= Near)
      BY <1>0, <1>2, <2>3, <3>1
    <3>3. ASSUME NEW x \in A PROVE Q(x) <= Near <=> P(x) <= Near
      <4>1. CASE P(x) <= Near
        <5>1. x = f \/ Closer(x, f)
          BY <1>0, <1>2, <1>5, <1>6, <2>1, <4>1
        <5>2. Closer(x, c)
          BY <2>1, <2>3, <2>6, <5>1, CloserOrders
        <5>3. ~Closer(c, x)
          BY <5>2, CloserOrders
        <5> QED
          BY <1>2, <4>1, <5>3
      <4>2. CASE ~(P(x) <= Near)
        BY <1>0, <1>2, <4>2
      <4> QED
        BY <4>1, <4>2
    <3>4. Nearest(B) = Nearest(A)
      BY <1>3, <3>2, <3>3
    <3> QED
      BY <2>2, <2>6, <3>4
  <2> QED
    BY <2>5, <2>6
<1> QED
  BY <1>7, <1>8

LEMMA NoneNear == Nearest({}) = {}
  BY DEF Nearest

(* What is read at the place of a neighbour. *)
LEMMA RankedAt ==
    ASSUME NEW A \in SUBSET Candidates, IsFiniteSet(A), NEW x \in A, PlaceAmong(A, x) <= Near
    PROVE  Ranking(Nearest(A))[PlaceAmong(A, x)] = x /\ PlaceAmong(A, x) \in 1..Near
<1> DEFINE H == Nearest(A)
           i == PlaceAmong(A, x)
<1>1. x \in H
  BY DEF Nearest
<1>2. H \in SUBSET Candidates /\ IsFiniteSet(H) /\ PlaceAmong(H, x) = i
  BY <1>1, NearestIs
<1> HIDE DEF H
<1>3. PlaceAmong(H, x) \in 1..Cardinality(H)
  BY <1>1, <1>2, AmongIs
<1>4. \A y \in H : PlaceAmong(H, y) = i => y = x
  BY <1>1, <1>2, AmongIs
<1>5. Ranking(H)[i] = CHOOSE y \in H : PlaceAmong(H, y) = i
  BY <1>2, <1>3 DEF Ranking
<1>6. Ranking(H)[i] = x
  BY <1>1, <1>2, <1>4, <1>5
<1>7. i \in 1..Near
  BY Sizes, AmongIs
<1> QED
  BY <1>6, <1>7 DEF H

-----------------------------------------------------------------------------
(* Search.                                                                 *)

LEMMA FarType ==
    ASSUME NEW v \in Versions, NEW q \in SourceRows, NEW s \in SourceRows
    PROVE  Far(v, q, Value(v, s)) \in Int
<1>1. Value(v, q) \in Int /\ Value(v, s) \in Int
  BY PostingAssumption DEF Versions, SourceRows
<1>2. Value(v, q) - Value(v, s) \in Int
  BY <1>1
<1> QED
  BY <1>2 DEF Far

Searched(v, q) == {s \in SourceRows \ {q} : Assigned(v, s) \in Probed(v, q)}
SeenAs(v, q, s) == [id |-> s, far |-> Far(v, q, Value(v, s))]
SeenTo(v, q, n) == {x \in Seen(v, q) : Home(v, x.id) < n}

LEMMA SeenIs ==
    ASSUME NEW v \in Versions, NEW q \in SourceRows
    PROVE  /\ Seen(v, q) = {SeenAs(v, q, s) : s \in Searched(v, q)}
           /\ \A s \in SourceRows : SeenAs(v, q, s) \in Candidates /\ SeenAs(v, q, s).id = s
           /\ Seen(v, q) \in SUBSET Candidates /\ IsFiniteSet(Seen(v, q))
           /\ \A s \in SourceRows : SeenAs(v, q, s) \in Seen(v, q) <=> s \in Searched(v, q)
           /\ \A x \in Seen(v, q) : x = SeenAs(v, q, x.id) /\ x.id \in Searched(v, q)
<1>1. Seen(v, q) = {SeenAs(v, q, s) : s \in Searched(v, q)}
  BY DEF Seen, SeenAs, Searched
<1>2. \A s \in SourceRows : SeenAs(v, q, s) \in Candidates /\ SeenAs(v, q, s).id = s
  BY FarType DEF SeenAs, Candidates
<1>3. Searched(v, q) \in SUBSET SourceRows
  BY DEF Searched
<1>4. Seen(v, q) \in SUBSET Candidates
  BY <1>1, <1>2, <1>3
<1>5. IsFiniteSet(Seen(v, q))
  <2> DEFINE f == [s \in Searched(v, q) |-> SeenAs(v, q, s)]
  <2>1. IsFiniteSet(Searched(v, q))
    BY <1>3, RowsOrdered, FS_Subset
  <2>2. f \in [Searched(v, q) -> Seen(v, q)]
    BY <1>1
  <2>3. \A x \in Seen(v, q) : \E s \in Searched(v, q) : f[s] = x
    BY <1>1
  <2>4. f \in Surjection(Searched(v, q), Seen(v, q))
    BY <2>2, <2>3 DEF Surjection
  <2> HIDE DEF f
  <2> QED
    BY <2>1, <2>4, FS_Surjection
<1>6. \A x \in Seen(v, q) : x = SeenAs(v, q, x.id) /\ x.id \in Searched(v, q)
  BY <1>1, <1>2, <1>3
<1>7. \A s \in SourceRows : SeenAs(v, q, s) \in Seen(v, q) <=> s \in Searched(v, q)
  BY <1>1, <1>2, <1>6
<1> QED
  BY <1>1, <1>2, <1>4, <1>5, <1>6, <1>7

LEMMA SeenEnds ==
    ASSUME NEW v \in Versions, NEW q \in SourceRows
    PROVE  SeenTo(v, q, 0) = {} /\ SeenTo(v, q, PostRows) = Seen(v, q)
<1>1. \A x \in Seen(v, q) : x.id \in SourceRows
  BY SeenIs DEF Searched
<1>2. \A x \in Seen(v, q) : Home(v, x.id) \in 0..PostRows - 1
  BY <1>1, Homes DEF Positions
<1> QED
  BY <1>2, Sizes DEF SeenTo

LEMMA SeenMore ==
    ASSUME NEW v \in Versions, NEW q \in SourceRows, NEW s \in SourceRows, NEW n \in Nat,
           Home(v, s) = n - 1
    PROVE  /\ SeenAs(v, q, s) \notin SeenTo(v, q, n - 1)
           /\ SeenTo(v, q, n) = IF s \in Searched(v, q) THEN SeenTo(v, q, n - 1) \cup {SeenAs(v, q, s)}
                                ELSE SeenTo(v, q, n - 1)
<1> DEFINE c == SeenAs(v, q, s)
<1>1. \A x \in Seen(v, q) : x.id \in SourceRows /\ Home(v, x.id) \in Int /\ x = SeenAs(v, q, x.id)
  BY SeenIs, Homes, Sizes DEF Searched, Positions
<1>2. c.id = s /\ (c \in Seen(v, q) <=> s \in Searched(v, q))
  BY SeenIs
<1>3. \A x \in Seen(v, q) : Home(v, x.id) = n - 1 <=> x = c
  <2>1. ASSUME NEW x \in Seen(v, q), Home(v, x.id) = n - 1 PROVE x = c
    <3>1. x.id = s
      BY <1>1, <2>1, Homes
    <3> QED
      BY <1>1, <3>1
  <2> QED
    BY <1>2, <2>1
<1>4. \A x \in Seen(v, q) : Home(v, x.id) < n <=> Home(v, x.id) < n - 1 \/ Home(v, x.id) = n - 1
  BY <1>1
<1> HIDE DEF c
<1>5. c \notin SeenTo(v, q, n - 1)
  BY <1>2 DEF SeenTo
<1>6. SeenTo(v, q, n) = IF s \in Searched(v, q) THEN SeenTo(v, q, n - 1) \cup {c} ELSE SeenTo(v, q, n - 1)
  BY <1>2, <1>3, <1>4 DEF SeenTo
<1> QED
  BY <1>5, <1>6 DEF c

(* A search of lists of one version returns the nearest rows it may see.   *)
LEMMA AnswerIs ==
    ASSUME lists.manifest.version \in Versions,
           HoldsTo(lists.manifest.version, PostRows, lists.features.data, lists.ids.data),
           lists.offsets.data = LowTo(lists.manifest.version, PostRows),
           NEW p \in Positions
    PROVE  Answer(p) = NearOf(lists.manifest.version, lists.ids.data[p])
<1> DEFINE v == lists.manifest.version
           q == lists.ids.data[p]
           Reads(at) == /\ lists.ids.data[at] # q
                        /\ \E l \in Probed(v, q) :
                               at \in lists.offsets.data[l - 1]..lists.offsets.data[l] - 1
           Read(at) == [id |-> lists.ids.data[at], far |-> Far(v, q, lists.features.data[at])]
           Is(f) == f = [n \in 0..PostRows |->
                            IF n = 0 THEN {}
                            ELSE IF Reads(n - 1) THEN Kept(f[n - 1], Read(n - 1)) ELSE f[n - 1]]
           heap == CHOOSE f : Is(f)
           right == [n \in 0..PostRows |-> Nearest(SeenTo(v, q, n))]
<1>0. v \in Versions /\ PostRows \in Nat
  BY Sizes
<1>1. Scanned(p) = heap[PostRows]
  BY DEF Scanned, QueryId
<1>2. q \in SourceRows
  BY RowAtPosition
<1>3. ASSUME NEW n \in 1..PostRows
      PROVE  \E s \in SourceRows :
                /\ Home(v, s) = n - 1 /\ Read(n - 1) = SeenAs(v, q, s)
                /\ Reads(n - 1) <=> s \in Searched(v, q)
  <2> DEFINE s == lists.ids.data[n - 1]
  <2>1. n - 1 \in Positions
    BY <1>0 DEF Positions
  <2>2. s \in SourceRows /\ Home(v, s) = n - 1 /\ lists.features.data[n - 1] = Value(v, s)
    BY <2>1, RowAtPosition
  <2>3. Read(n - 1) = SeenAs(v, q, s)
    BY <2>2 DEF SeenAs
  <2>4. \A l \in Lists : n - 1 \in lists.offsets.data[l - 1]..lists.offsets.data[l] - 1
                             <=> Assigned(v, s) = l
    BY <2>2, HomeInList
  <2>5. Probed(v, q) \in SUBSET Lists /\ Assigned(v, s) \in Lists
    BY <2>2, AssignedType DEF Probed
  <2> HIDE DEF s
  <2>6. (\E l \in Probed(v, q) : n - 1 \in lists.offsets.data[l - 1]..lists.offsets.data[l] - 1)
            <=> Assigned(v, s) \in Probed(v, q)
    BY <2>4, <2>5
  <2>7. Reads(n - 1) <=> s \in Searched(v, q)
    BY <2>2, <2>6 DEF Searched, s
  <2> QED
    BY <2>2, <2>3, <2>7
<1> HIDE DEF Reads, Read, v, q
<1>4. ASSUME NEW n \in 1..PostRows
      PROVE  Nearest(SeenTo(v, q, n)) = IF Reads(n - 1) THEN Kept(Nearest(SeenTo(v, q, n - 1)), Read(n - 1))
                                        ELSE Nearest(SeenTo(v, q, n - 1))
  <2>1. PICK s \in SourceRows : /\ Home(v, s) = n - 1 /\ Read(n - 1) = SeenAs(v, q, s)
                                /\ Reads(n - 1) <=> s \in Searched(v, q)
    BY <1>3
  <2>2. /\ SeenAs(v, q, s) \notin SeenTo(v, q, n - 1)
        /\ SeenTo(v, q, n) = IF s \in Searched(v, q) THEN SeenTo(v, q, n - 1) \cup {SeenAs(v, q, s)}
                             ELSE SeenTo(v, q, n - 1)
    BY <1>0, <1>2, <2>1, SeenMore
  <2>3. SeenTo(v, q, n - 1) \in SUBSET Candidates /\ IsFiniteSet(SeenTo(v, q, n - 1))
    <3>1. SeenTo(v, q, n - 1) \in SUBSET Seen(v, q)
      BY DEF SeenTo
    <3> QED
      BY <1>0, <1>2, <3>1, SeenIs, FS_Subset
  <2>4. SeenAs(v, q, s) \in Candidates
    BY <1>0, <1>2, SeenIs
  <2>5. Kept(Nearest(SeenTo(v, q, n - 1)), SeenAs(v, q, s)) =
            Nearest(SeenTo(v, q, n - 1) \cup {SeenAs(v, q, s)})
    BY <2>2, <2>3, <2>4, KeptIs
  <2> QED
    BY <2>1, <2>2, <2>5
<1>5. right[0] = {} /\ \A n \in 0..PostRows : right[n] = Nearest(SeenTo(v, q, n))
  BY <1>0, <1>2, SeenEnds, NoneNear
<1>6. \A n \in 1..PostRows : right[n] = IF Reads(n - 1) THEN Kept(right[n - 1], Read(n - 1)) ELSE right[n - 1]
  <2>1. ASSUME NEW n \in 1..PostRows
        PROVE  right[n] = IF Reads(n - 1) THEN Kept(right[n - 1], Read(n - 1)) ELSE right[n - 1]
    <3>1. n \in 0..PostRows /\ n - 1 \in 0..PostRows
      BY <1>0
    <3>2. right[n] = Nearest(SeenTo(v, q, n)) /\ right[n - 1] = Nearest(SeenTo(v, q, n - 1))
      BY <1>5, <3>1
    <3> HIDE DEF right
    <3> QED
      BY <1>4, <3>2
  <2> QED
    BY <2>1
<1>7. DOMAIN right = 0..PostRows /\ right = [n \in 0..PostRows |-> right[n]]
  OBVIOUS
<1> HIDE DEF right
<1>8. \A n \in 0..PostRows : right[n] = IF n = 0 THEN {}
                                        ELSE IF Reads(n - 1) THEN Kept(right[n - 1], Read(n - 1)) ELSE right[n - 1]
  <2>1. \A n \in 0..PostRows : n = 0 \/ n \in 1..PostRows
    BY <1>0
  <2>2. ~(0 \in 1..PostRows)
    BY <1>0
  <2> QED
    BY <1>5, <1>6, <2>1, <2>2, Zenon
<1>9. Is(right)
  BY <1>7, <1>8
<1>10. Is(heap)
  <2> HIDE DEF Is
  <2> QED
    BY <1>9
<1> HIDE DEF heap
<1>11. \A n \in 0..PostRows : heap[n] = IF n = 0 THEN {}
                                        ELSE IF Reads(n - 1) THEN Kept(heap[n - 1], Read(n - 1)) ELSE heap[n - 1]
  BY <1>10
<1> HIDE DEF Is
<1>12. \A n \in 0..PostRows : heap[n] = right[n]
  <2> DEFINE T == {n \in 0..PostRows : heap[n] # right[n]}
  <2> SUFFICES ASSUME T # {} PROVE FALSE
    OBVIOUS
  <2>1. T \subseteq Nat
    BY <1>0
  <2>2. PICK n \in T : \A m \in T : n <= m
    BY <2>1, LeastOf
  <2>3. n \in 0..PostRows /\ heap[n] # right[n]
    OBVIOUS
  <2>4. n # 0
    BY <1>0, <1>8, <1>11, <2>3
  <2>5. n - 1 \in 0..PostRows /\ ~(n <= n - 1)
    BY <1>0, <2>3, <2>4
  <2>6. heap[n - 1] = right[n - 1]
    BY <2>2, <2>5
  <2> HIDE DEF T
  <2> QED
    BY <1>8, <1>11, <2>3, <2>4, <2>6
<1>13. Scanned(p) = Nearest(Seen(v, q))
  <2>1. PostRows \in 0..PostRows
    BY <1>0
  <2>2. Scanned(p) = right[PostRows]
    BY <1>1, <1>12, <2>1
  <2> QED
    BY <1>0, <1>2, <1>5, <2>1, <2>2, SeenEnds
<1> QED
  BY <1>13 DEF Answer, NearOf, v, q

-----------------------------------------------------------------------------
(* Partitions.                                                             *)

LEMMA TimesLess ==
    ASSUME NEW a \in Nat, NEW b \in Nat, NEW c \in Nat, a < b
    PROVE  a * c + c <= b * c /\ a * c \in Nat /\ b * c \in Nat
<1>1. PICK d \in Nat : b = a + 1 + d
  BY b = a + 1 + (b - a - 1), b - a - 1 \in Nat
<1>2. b * c = a * c + c + d * c
  BY <1>1
<1>3. d * c \in Nat /\ a * c \in Nat /\ b * c \in Nat
  OBVIOUS
<1> QED
  BY <1>2, <1>3

LEMMA Division ==
    ASSUME NEW n \in Nat, NEW d \in Nat \ {0}
    PROVE  n \div d \in Nat /\ n % d \in Nat /\ n % d < d /\ n = (n \div d) * d + (n % d)
<1>1. n = (n \div d) * d + (n % d)
  OBVIOUS
<1>2. n % d \in Nat /\ n % d < d /\ n \div d \in Nat
  OBVIOUS
<1> QED
  BY <1>1, <1>2

LEMMA NextMultiple ==
    ASSUME NEW n \in Nat, NEW d \in Nat \ {0}, n % d = 0
    PROVE  (n + d) % d = 0
<1> DEFINE q == n \div d
           k == (n + d) \div d
           r == (n + d) % d
<1>1. q \in Nat /\ n = q * d
  BY Division
<1>2. n + d \in Nat
  OBVIOUS
<1>3. k \in Nat /\ r \in Nat /\ r < d /\ n + d = k * d + r
  BY <1>2, Division
<1> HIDE DEF q, k, r
<1>4. q + 1 \in Nat /\ (q + 1) * d = q * d + d /\ q * d \in Nat /\ k * d \in Nat
  BY <1>1, <1>3
<1>5. ~(k < q + 1)
  <2>1. k < q + 1 => k * d + d <= (q + 1) * d
    BY <1>3, <1>4, TimesLess
  <2> QED
    BY <1>1, <1>3, <1>4, <2>1
<1>6. ~(q + 1 < k)
  <2>1. q + 1 < k => (q + 1) * d + d <= k * d
    BY <1>3, <1>4, TimesLess
  <2> QED
    BY <1>1, <1>3, <1>4, <2>1
<1>7. k = q + 1
  BY <1>3, <1>4, <1>5, <1>6
<1>8. r = 0
  BY <1>1, <1>3, <1>4, <1>7
<1> QED
  BY <1>8 DEF r

(* A build is at the end of a block, or of the rows. *)
LEMMA BlocksFollow ==
    /\ OnBlock(0)
    /\ \A n \in 0..PostRows : OnBlock(n) => OnBlock(BlockEnd(n))
<1>1. OnBlock(0)
  <2>1. 0 % PostBlock = 0
    BY Sizes
  <2> QED
    BY <2>1 DEF OnBlock
<1>2. ASSUME NEW n \in 0..PostRows, OnBlock(n)
      PROVE  OnBlock(BlockEnd(n))
  <2>1. n \in Nat /\ PostBlock \in Nat \ {0} /\ PostRows \in Nat
    BY Sizes
  <2>2. CASE n + PostBlock <= PostRows
    <3>1. n # PostRows
      BY <2>1, <2>2
    <3>2. (n + PostBlock) % PostBlock = 0
      BY <1>2, <2>1, <3>1, NextMultiple DEF OnBlock
    <3> QED
      BY <2>2, <3>2 DEF OnBlock, BlockEnd
  <2>3. CASE ~(n + PostBlock <= PostRows)
    BY <2>3 DEF OnBlock, BlockEnd
  <2> QED
    BY <2>2, <2>3
<1> QED
  BY <1>1, <1>2

(* Rows are cut into no more groups than there are rows. *)
LEMMA Groups ==
    ASSUME NEW n \in Nat \ {0}, NEW d \in Nat \ {0}
    PROVE  (n + d - 1) \div d \in 1..n
<1> DEFINE m == n + d - 1
           q == m \div d
<1>1. m \in Nat /\ m >= d /\ m = n + d - 1
  OBVIOUS
<1> HIDE DEF m
<1>2. q \in Nat /\ m % d \in Nat /\ m % d < d /\ m = q * d + (m % d)
  BY <1>1, Division
<1> HIDE DEF q
<1>3. q # 0
  <2> SUFFICES ASSUME q = 0 PROVE FALSE
    OBVIOUS
  <2>1. q * d = 0
    OBVIOUS
  <2> QED
    BY <1>1, <1>2, <2>1
<1>4. ~(n < q)
  <2> SUFFICES ASSUME n < q PROVE FALSE
    OBVIOUS
  <2>1. n * d + d <= q * d /\ n * d \in Nat /\ q * d \in Nat
    BY <1>2, TimesLess
  <2>2. n <= n * d
    <3>1. 0 * n + n <= d * n /\ d * n = n * d /\ 0 * n = 0
      BY TimesLess
    <3> QED
      BY <3>1
  <2> QED
    BY <1>1, <1>2, <2>1, <2>2
<1>5. q \in 1..n
  BY <1>2, <1>3, <1>4
<1> QED
  BY <1>5 DEF q, m

LEMMA PiecesRight ==
    ASSUME NEW v, NEW first \in Nat, NEW rows \in Nat \ {0}, NEW records \in SUBSET RightRecords(v),
           \A x \in records : x.row \in first + 1..first + rows
    PROVE  /\ Pieces(first, rows, records) \in Seq(RightParts(v))
           /\ AllFilled(Pieces(first, rows, records)) =>
                 Chain(Pieces(first, rows, records), first, first + rows)
<1> DEFINE groups == (rows + BucketRows - 1) \div BucketRows
           children == Min({FanOutRows, groups})
           width == (rows + children - 1) \div children
           Off(c) == (c - 1) * width
           Piece(c) == [first |-> first + Off(c), rows |-> LeftFor(Off(c), rows, width),
                        records |-> {x \in records : (x.row - first - 1) \div width = c - 1}]
           pieces == [c \in 1..children |-> Piece(c)]
<1>1. Pieces(first, rows, records) = pieces
  BY DEF Pieces
<1>2. groups \in 1..rows
  BY Sizes, Groups
<1> HIDE DEF groups
<1>3. FanOutRows \in Nat \ {0} /\ groups \in Nat \ {0}
  BY <1>2, Sizes
<1>4. children = IF FanOutRows <= groups THEN FanOutRows ELSE groups
  BY <1>3, MinOfTwo
<1> HIDE DEF children
<1>5. children \in Nat \ {0}
  BY <1>3, <1>4
<1>6. width \in Nat \ {0} /\ rows <= width * children
  <2> DEFINE m == rows + children - 1
             r == m % children
  <2>1. m \in Nat /\ m = rows + children - 1
    BY <1>5
  <2> HIDE DEF m
  <2>2. m \div children \in Nat /\ r \in Nat /\ r < children /\ m = (m \div children) * children + r
    BY <1>5, <2>1, Division
  <2>3. width = m \div children
    BY DEF m
  <2> HIDE DEF r, width
  <2>4. width \in Nat /\ width * children \in Nat /\ rows <= width * children
    BY <1>5, <2>1, <2>2, <2>3
  <2>5. width # 0
    <3> SUFFICES ASSUME width = 0  PROVE FALSE
      OBVIOUS
    <3>1. width * children = 0
      BY <1>5
    <3> QED
      BY <2>4, <3>1
  <2> QED
    BY <2>4, <2>5
<1> HIDE DEF width
<1>7. /\ \A c \in 1..children : Off(c) \in Nat
      /\ Off(1) = 0
      /\ \A c \in 1..children : c # 1 => c - 1 \in 1..children /\ Off(c) = Off(c - 1) + width
      /\ rows <= Off(children) + width
  <2>1. ASSUME NEW c \in 1..children PROVE Off(c) \in Nat
    <3>1. c - 1 \in Nat
      BY <1>5
    <3> QED
      BY <1>6, <3>1
  <2>2. Off(1) = 0
    BY <1>6
  <2>3. ASSUME NEW c \in 1..children, c # 1
        PROVE  c - 1 \in 1..children /\ Off(c) = Off(c - 1) + width
    <3>1. c - 1 \in 1..children /\ c \in Nat
      BY <1>5, <2>3
    <3>2. (c - 1) * width = ((c - 1) - 1) * width + width
      BY <1>6, <3>1
    <3> QED
      BY <3>1, <3>2
  <2>4. Off(children) + width = width * children
    BY <1>5, <1>6
  <2> QED
    BY <1>6, <2>1, <2>2, <2>3, <2>4
<1>8. ASSUME NEW c \in 1..children
      PROVE  LeftFor(Off(c), rows, width) =
                 IF Off(c) <= rows THEN IF width <= rows - Off(c) THEN width ELSE rows - Off(c)
                 ELSE width
  <2>1. Off(c) \in Nat
    BY <1>7
  <2> HIDE DEF Off
  <2>2. Min({width, rows - Off(c)}) = IF width <= rows - Off(c) THEN width ELSE rows - Off(c)
    BY <1>6, <2>1, MinOfTwo
  <2> QED
    BY <2>2 DEF LeftFor
<1>9. \A c \in 1..children : Piece(c) \in RightParts(v)
  <2> SUFFICES ASSUME NEW c \in 1..children PROVE Piece(c) \in RightParts(v)
    OBVIOUS
  <2>1. Piece(c).records \in SUBSET RightRecords(v)
    OBVIOUS
  <2>2. Piece(c) = [first |-> Piece(c).first, rows |-> Piece(c).rows, records |-> Piece(c).records]
    OBVIOUS
  <2>3. /\ Piece(c).first = first + Off(c) /\ Piece(c).rows = LeftFor(Off(c), rows, width)
        /\ Off(c) \in Nat
    BY <1>7
  <2> HIDE DEF Off, Piece
  <2>4. Piece(c).first \in Nat /\ Piece(c).rows \in Nat
    BY <1>6, <1>8, <2>3
  <2> QED
    BY <2>1, <2>2, <2>4 DEF RightParts
<1>10. ASSUME NEW c \in 1..children, Filled(Piece(c))
       PROVE  Off(c) <= rows
  <2> SUFFICES ASSUME ~(Off(c) <= rows) PROVE FALSE
    OBVIOUS
  <2>1. ASSUME NEW x \in records, (x.row - first - 1) \div width = c - 1
        PROVE  FALSE
    <3> DEFINE y == x.row - first - 1
    <3>1. y \in Nat /\ y < rows
      BY <2>1
    <3> HIDE DEF y
    <3>2. y \div width \in Nat /\ y % width \in Nat /\ y = (y \div width) * width + (y % width)
      BY <1>6, <3>1, Division
    <3>3. y \div width = c - 1
      BY <2>1 DEF y
    <3>4. y = Off(c) + (y % width) /\ Off(c) \in Nat
      BY <1>7, <3>2, <3>3
    <3> HIDE DEF Off
    <3> QED
      BY <3>1, <3>2, <3>4
  <2>2. Piece(c).records = {} /\ Piece(c).rows = width
    BY <1>7, <1>8, <2>1
  <2>3. Cardinality({}) = 0
    BY FS_EmptySet
  <2> QED
    BY <1>6, <1>10, <2>2, <2>3 DEF Filled
<1>11. /\ pieces \in Seq(RightParts(v)) /\ Len(pieces) = children /\ pieces # <<>>
       /\ \A c \in 1..children : pieces[c] = Piece(c)
  <2> HIDE DEF Piece
  <2> QED
    BY <1>5, <1>9
<1>12. ASSUME AllFilled(pieces)
       PROVE  Chain(pieces, first, first + rows)
  <2>1. \A c \in 1..children : Off(c) <= rows
    <3> HIDE DEF Piece, Off, pieces
    <3> QED
      BY <1>10, <1>11, <1>12 DEF AllFilled
  <2>2. \A c \in 1..children : /\ pieces[c].first = first + Off(c)
                               /\ pieces[c].rows = LeftFor(Off(c), rows, width)
    BY <1>11
  <2> HIDE DEF pieces, Piece, Off
  <2>3. ASSUME NEW c \in 1..children, c # 1
        PROVE  pieces[c].first = pieces[c - 1].first + pieces[c - 1].rows
    <3>1. /\ c - 1 \in 1..children /\ Off(c) = Off(c - 1) + width
          /\ Off(c) <= rows /\ Off(c) \in Nat /\ Off(c - 1) \in Nat
      BY <1>7, <2>1, <2>3
    <3>2. LeftFor(Off(c - 1), rows, width) = width
      BY <1>6, <1>8, <3>1
    <3> QED
      BY <1>6, <2>2, <3>1, <3>2
  <2>4. pieces[1].first = first
    BY <1>5, <1>7, <2>2
  <2>5. first + rows = pieces[children].first + pieces[children].rows
    <3>1. /\ children \in 1..children /\ Off(children) \in Nat /\ Off(children) <= rows
          /\ rows <= Off(children) + width
      BY <1>5, <1>7, <2>1
    <3>2. LeftFor(Off(children), rows, width) = rows - Off(children)
      BY <1>6, <1>8, <3>1
    <3> QED
      BY <2>2, <3>1, <3>2
  <2> QED
    BY <1>11, <2>3, <2>4, <2>5 DEF Chain
<1> QED
  BY <1>1, <1>11, <1>12

(* Parts are filled, one sequence of them after the other.                 *)
LEMMA FilledParts ==
    ASSUME NEW S, NEW a \in Seq(S), NEW b \in Seq(S), AllFilled(a \o b)
    PROVE  AllFilled(a) /\ AllFilled(b)
<1>1. /\ Len(a) \in Nat /\ Len(b) \in Nat /\ Len(a \o b) = Len(a) + Len(b)
      /\ \A i \in 1..Len(a) : (a \o b)[i] = a[i]
      /\ \A i \in 1..Len(b) : (a \o b)[Len(a) + i] = b[i]
  OBVIOUS
<1>2. ASSUME NEW i \in 1..Len(a) PROVE Filled(a[i])
  <2>1. i \in 1..Len(a \o b) /\ (a \o b)[i] = a[i]
    BY <1>1
  <2> QED
    BY <2>1 DEF AllFilled
<1>3. ASSUME NEW i \in 1..Len(b) PROVE Filled(b[i])
  <2>1. Len(a) + i \in 1..Len(a \o b) /\ (a \o b)[Len(a) + i] = b[i]
    BY <1>1
  <2> QED
    BY <2>1 DEF AllFilled
<1> QED
  BY <1>2, <1>3 DEF AllFilled

LEMMA FilledHead ==
    ASSUME NEW S, NEW a \in Seq(S), a # <<>>, Filled(Head(a)), AllFilled(Tail(a))
    PROVE  AllFilled(a)
<1>1. /\ Len(a) \in Nat \ {0} /\ Head(a) = a[1] /\ Len(Tail(a)) = Len(a) - 1
      /\ \A i \in 1..Len(a) - 1 : Tail(a)[i] = a[i + 1]
  OBVIOUS
<1>2. ASSUME NEW i \in 1..Len(a) PROVE Filled(a[i])
  <2>1. CASE i = 1
    BY <1>1, <2>1
  <2>2. CASE i # 1
    <3>1. i - 1 \in 1..Len(Tail(a)) /\ (i - 1) + 1 = i /\ i - 1 \in 1..Len(a) - 1
      BY <1>1, <2>2
    <3>2. Tail(a)[i - 1] = a[i] /\ Filled(Tail(a)[i - 1])
      BY <1>1, <3>1 DEF AllFilled
    <3> QED
      BY <3>2
  <2> QED
    BY <2>1, <2>2
<1> QED
  BY <1>2 DEF AllFilled

LEMMA EmptyIs ==
    ASSUME NEW S, NEW t \in Seq(S)
    PROVE  Len(t) = 0 <=> t = <<>>
  OBVIOUS

LEMMA ChainJoins ==
    ASSUME NEW S, NEW a \in Seq(S), NEW b \in Seq(S), NEW n, NEW m, NEW k,
           Chain(a, n, m), Chain(b, m, k)
    PROVE  Chain(a \o b, n, k)
<1> DEFINE c == a \o b
           A == Len(a)
           B == Len(b)
<1>1. /\ A \in Nat /\ B \in Nat /\ Len(c) = A + B /\ c \in Seq(S)
      /\ \A i \in 1..A : c[i] = a[i]
      /\ \A i \in 1..B : c[A + i] = b[i]
      /\ A = 0 <=> a = <<>>
      /\ B = 0 <=> b = <<>>
  OBVIOUS
<1>2. (a = <<>> /\ b = <<>>) <=> c = <<>>
  BY <1>1
<1>3. /\ \A i \in 1..A : a[i].first = IF i = 1 THEN n ELSE a[i - 1].first + a[i - 1].rows
      /\ m = IF a = <<>> THEN n ELSE a[A].first + a[A].rows
  BY DEF Chain
<1>4. /\ \A i \in 1..B : b[i].first = IF i = 1 THEN m ELSE b[i - 1].first + b[i - 1].rows
      /\ k = IF b = <<>> THEN m ELSE b[B].first + b[B].rows
  BY DEF Chain
<1> HIDE DEF c, A, B
<1>5. ASSUME NEW i \in 1..A + B
      PROVE  c[i].first = IF i = 1 THEN n ELSE c[i - 1].first + c[i - 1].rows
  <2>1. CASE i \in 1..A
    <3>1. c[i] = a[i] /\ (i # 1 => i - 1 \in 1..A /\ c[i - 1] = a[i - 1])
      BY <1>1, <2>1
    <3> QED
      BY <1>3, <2>1, <3>1
  <2>2. CASE i = A + 1
    <3>1. c[i] = b[1] /\ b[1].first = m /\ 1 \in 1..B
      BY <1>1, <1>4, <2>2
    <3>2. CASE A = 0
      BY <1>1, <1>3, <2>2, <3>1, <3>2
    <3>3. CASE A # 0
      <4>1. c[i - 1] = a[A] /\ i # 1 /\ a # <<>>
        BY <1>1, <2>2, <3>3
      <4> QED
        BY <1>3, <3>1, <4>1
    <3> QED
      BY <3>2, <3>3
  <2>3. CASE i > A + 1
    <3>1. i - A \in 1..B /\ i - A # 1 /\ i # 1 /\ (i - A) - 1 \in 1..B
      BY <1>1, <2>3
    <3>2. c[A + (i - A)] = b[i - A] /\ c[A + ((i - A) - 1)] = b[(i - A) - 1]
      BY <1>1, <3>1
    <3>3. A + (i - A) = i /\ A + ((i - A) - 1) = i - 1
      BY <1>1, <3>1
    <3>4. c[i] = b[i - A] /\ c[i - 1] = b[(i - A) - 1]
      BY <3>2, <3>3
    <3> QED
      BY <1>4, <3>1, <3>4
  <2> QED
    BY <1>1, <2>1, <2>2, <2>3
<1>6. k = IF c = <<>> THEN n ELSE c[A + B].first + c[A + B].rows
  <2>1. CASE b = <<>>
    <3>1. k = m /\ B = 0 /\ A + B = A
      BY <1>1, <1>4, <2>1
    <3>2. a # <<>> => A \in 1..A /\ c[A] = a[A]
      BY <1>1
    <3> QED
      BY <1>2, <1>3, <2>1, <3>1, <3>2
  <2>2. CASE b # <<>>
    <3>1. B \in 1..B /\ c[A + B] = b[B] /\ c # <<>>
      BY <1>1, <1>2, <2>2
    <3> QED
      BY <1>4, <2>2, <3>1
  <2> QED
    BY <2>1, <2>2
<1>7. Chain(c, n, k)
  BY <1>1, <1>5, <1>6 DEF Chain
<1> QED
  BY <1>7 DEF c

LEMMA ChainHead ==
    ASSUME NEW S, NEW a \in Seq(S), a # <<>>, NEW n, NEW m, Chain(a, n, m)
    PROVE  /\ Head(a) \in S /\ Tail(a) \in Seq(S) /\ Head(a).first = n
           /\ Chain(Tail(a), n + Head(a).rows, m)
<1> DEFINE t == Tail(a)
           A == Len(a)
<1>1. /\ A \in Nat \ {0} /\ Len(t) = A - 1 /\ t \in Seq(S) /\ Head(a) = a[1] /\ a[1] \in S
      /\ \A i \in 1..A - 1 : t[i] = a[i + 1]
      /\ A = 1 <=> t = <<>>
  <2>1. A \in Nat \ {0} /\ Head(a) = a[1] /\ a[1] \in S
    OBVIOUS
  <2>2. Len(t) = A - 1 /\ t \in Seq(S)
    OBVIOUS
  <2>3. \A i \in 1..A - 1 : t[i] = a[i + 1]
    BY <2>1
  <2>4. Len(t) = 0 <=> t = <<>>
    BY <2>2, EmptyIs
  <2> HIDE DEF t, A
  <2> QED
    BY <2>1, <2>2, <2>3, <2>4
<1>2. /\ \A i \in 1..A : a[i].first = IF i = 1 THEN n ELSE a[i - 1].first + a[i - 1].rows
      /\ m = a[A].first + a[A].rows
  BY DEF Chain
<1> HIDE DEF t, A
<1>3. a[1].first = n
  BY <1>1, <1>2
<1>4. ASSUME NEW i \in 1..A - 1
      PROVE  t[i].first = IF i = 1 THEN n + a[1].rows ELSE t[i - 1].first + t[i - 1].rows
  <2>1. i + 1 \in 1..A /\ i + 1 # 1 /\ (i + 1) - 1 = i
    BY <1>1
  <2>2. a[i + 1].first = a[i].first + a[i].rows
    BY <1>2, <2>1
  <2>3. CASE i = 1
    BY <1>1, <1>3, <2>2, <2>3
  <2>4. CASE i # 1
    <3>1. i - 1 \in 1..A - 1 /\ (i - 1) + 1 = i
      BY <1>1, <2>4
    <3>2. t[i - 1] = a[i]
      BY <1>1, <3>1
    <3> QED
      BY <1>1, <2>2, <2>4, <3>2
  <2> QED
    BY <2>3, <2>4
<1>5. m = IF t = <<>> THEN n + a[1].rows ELSE t[Len(t)].first + t[Len(t)].rows
  <2>1. CASE t = <<>>
    BY <1>1, <1>2, <1>3, <2>1
  <2>2. CASE t # <<>>
    <3>1. A - 1 \in 1..A - 1 /\ (A - 1) + 1 = A
      BY <1>1, <2>2
    <3> QED
      BY <1>1, <1>2, <2>2, <3>1
  <2> QED
    BY <2>1, <2>2
<1>6. Chain(t, n + a[1].rows, m)
  BY <1>1, <1>4, <1>5 DEF Chain
<1> QED
  BY <1>1, <1>3, <1>6 DEF t

(* Sorted partitions continue the outputs.                                 *)
LEMMA Joined ==
    ASSUME NEW S, NEW f \in Seq(S), NEW g \in Seq(S), NEW h \in Seq(S), Len(h) = Len(f) + Len(g),
           \A i \in 1..Len(f) : h[i] = f[i], \A i \in 1..Len(g) : h[Len(f) + i] = g[i]
    PROVE  f \o g = h
<1>1. f \o g \in Seq(S) /\ Len(f \o g) = Len(h) /\ Len(f) \in Nat /\ Len(g) \in Nat /\ Len(h) \in Nat
  OBVIOUS
<1>2. ASSUME NEW i \in 1..Len(h) PROVE (f \o g)[i] = h[i]
  <2>1. CASE i <= Len(f)
    BY <1>1, <2>1
  <2>2. CASE i > Len(f)
    <3>1. i - Len(f) \in 1..Len(g) /\ Len(f) + (i - Len(f)) = i
      BY <1>1, <2>2
    <3>2. h[i] = g[i - Len(f)]
      BY <3>1
    <3>3. (f \o g)[i] = g[i - Len(f)]
      BY <1>1, <2>2, <3>1
    <3> QED
      BY <3>2, <3>3
  <2> QED
    BY <1>1, <2>1, <2>2
<1> QED
  BY <1>1, <1>2

RowsFrom(row, n, m) == [i \in 1..m |-> row[n + i]]

LEMMA RowsJoin ==
    ASSUME NEW S, NEW row \in [Nat -> S], NEW n \in Nat, NEW m \in Nat
    PROVE  RowsFrom(row, 0, n) \o RowsFrom(row, n, m) = RowsFrom(row, 0, n + m)
<1> DEFINE f == RowsFrom(row, 0, n)
           g == RowsFrom(row, n, m)
           h == RowsFrom(row, 0, n + m)
<1>1. f \in Seq(S) /\ Len(f) = n /\ \A i \in 1..n : f[i] = row[i]
  BY DEF RowsFrom
<1>2. g \in Seq(S) /\ Len(g) = m /\ \A i \in 1..m : g[i] = row[n + i]
  BY DEF RowsFrom
<1>3. h \in Seq(S) /\ Len(h) = n + m /\ \A i \in 1..n + m : h[i] = row[i]
  BY DEF RowsFrom
<1> HIDE DEF f, g, h
<1>4. \A i \in 1..n : i \in 1..n + m
  OBVIOUS
<1>5. \A i \in 1..m : n + i \in 1..n + m
  OBVIOUS
<1>6. \A i \in 1..Len(f) : h[i] = f[i]
  BY <1>1, <1>3, <1>4
<1>7. \A i \in 1..Len(g) : h[Len(f) + i] = g[i]
  BY <1>1, <1>2, <1>3, <1>5
<1>8. f \o g = h
  BY <1>1, <1>2, <1>3, <1>6, <1>7, Joined
<1> QED
  BY <1>8 DEF f, g, h

LEMMA SortedIs ==
    ASSUME NEW v, NEW part \in RightParts(v), Consecutive(part), NEW i \in 1..part.rows
    PROVE  Sorted(part)[i].near = NearOf(v, part.first + i) /\ part.first + i \in Nat
<1>1. part.records \in SUBSET RightRecords(v) /\ part.first \in Nat /\ part.rows \in Nat
  BY DEF RightParts
<1>2. part.first + i \in part.first + 1..part.first + part.rows /\ part.first + i \in Nat
  BY <1>1
<1>3. \E x \in part.records : x.row = part.first + i
  BY <1>2 DEF Consecutive
<1>4. Sorted(part)[i] = CHOOSE x \in part.records : x.row = part.first + i
  BY DEF Sorted
<1>5. Sorted(part)[i] \in part.records /\ Sorted(part)[i].row = part.first + i
  BY <1>3, <1>4
<1>6. \A x \in RightRecords(v) : x.near = NearOf(v, x.row)
  BY DEF RightRecords
<1> QED
  BY <1>1, <1>2, <1>5, <1>6

LEMMA OutputGrows ==
    ASSUME NEW v, NEW part \in RightParts(v), Consecutive(part), NEW n \in Nat, part.first = n
    PROVE  /\ IdsTo(v, n) \o [i \in 1..part.rows |-> [k \in 1..Near |-> Sorted(part)[i].near[k].id]]
                  = IdsTo(v, n + part.rows)
           /\ FarsTo(v, n) \o [i \in 1..part.rows |-> [k \in 1..Near |-> Sorted(part)[i].near[k].far]]
                  = FarsTo(v, n + part.rows)
           /\ n + part.rows \in Nat
<1> DEFINE ids == [r \in Nat |-> [k \in 1..Near |-> NearOf(v, r)[k].id]]
           fars == [r \in Nat |-> [k \in 1..Near |-> NearOf(v, r)[k].far]]
           S == {ids[r] : r \in Nat} \cup {fars[r] : r \in Nat}
<1>1. part.rows \in Nat
  BY DEF RightParts
<1>2. \A i \in 1..part.rows : Sorted(part)[i].near = NearOf(v, n + i) /\ n + i \in Nat
  BY SortedIs
<1>3. [i \in 1..part.rows |-> [k \in 1..Near |-> Sorted(part)[i].near[k].id]]
          = RowsFrom(ids, n, part.rows)
  BY <1>2 DEF RowsFrom
<1>4. [i \in 1..part.rows |-> [k \in 1..Near |-> Sorted(part)[i].near[k].far]]
          = RowsFrom(fars, n, part.rows)
  BY <1>2 DEF RowsFrom
<1>5. \A m \in Nat : IdsTo(v, m) = RowsFrom(ids, 0, m) /\ FarsTo(v, m) = RowsFrom(fars, 0, m)
  BY DEF IdsTo, FarsTo, RowsFrom
<1>6. ids \in [Nat -> S] /\ fars \in [Nat -> S]
  OBVIOUS
<1> HIDE DEF ids, fars, S
<1>7. RowsFrom(ids, 0, n) \o RowsFrom(ids, n, part.rows) = RowsFrom(ids, 0, n + part.rows)
  BY <1>1, <1>6, RowsJoin
<1>8. RowsFrom(fars, 0, n) \o RowsFrom(fars, n, part.rows) = RowsFrom(fars, 0, n + part.rows)
  BY <1>1, <1>6, RowsJoin
<1>9. n + part.rows \in Nat
  BY <1>1
<1>10. /\ IdsTo(v, n) = RowsFrom(ids, 0, n) /\ FarsTo(v, n) = RowsFrom(fars, 0, n)
       /\ IdsTo(v, n + part.rows) = RowsFrom(ids, 0, n + part.rows)
       /\ FarsTo(v, n + part.rows) = RowsFrom(fars, 0, n + part.rows)
  BY <1>5, <1>9
<1>11. IdsTo(v, n) \o [i \in 1..part.rows |-> [k \in 1..Near |-> Sorted(part)[i].near[k].id]]
           = IdsTo(v, n + part.rows)
  BY <1>3, <1>7, <1>10
<1>12. FarsTo(v, n) \o [i \in 1..part.rows |-> [k \in 1..Near |-> Sorted(part)[i].near[k].far]]
           = FarsTo(v, n + part.rows)
  BY <1>4, <1>8, <1>10
<1> QED
  BY <1>9, <1>11, <1>12

-----------------------------------------------------------------------------
(* Files under their names.                                                *)

LEMMA FileNames ==
    /\ Range(ListFiles) = {"features", "ids", "offsets"}
    /\ Range(GraphFiles) = {"indices", "distances"}
    /\ DOMAIN ListFiles = 1..3 /\ DOMAIN GraphFiles = 1..2
<1>1. /\ DOMAIN ListFiles = 1..3 /\ DOMAIN GraphFiles = 1..2
      /\ ListFiles[1] = "features" /\ ListFiles[2] = "ids" /\ ListFiles[3] = "offsets"
      /\ GraphFiles[1] = "indices" /\ GraphFiles[2] = "distances"
  BY DEF ListFiles, GraphFiles
<1>2. 1..3 = {1, 2, 3} /\ 1..2 = {1, 2}
  OBVIOUS
<1>3. Range(ListFiles) = {"features", "ids", "offsets"}
  BY <1>1, <1>2, Zenon DEF Range
<1>4. Range(GraphFiles) = {"indices", "distances"}
  BY <1>1, <1>2, Zenon DEF Range
<1> QED
  BY <1>1, <1>3, <1>4

(* The first file that is not renamed yet. *)
LEMMA FirstUnnamed ==
    ASSUME NEW files, NEW n \in Nat, DOMAIN files = 1..n, NEW from, Unnamed(files, from) # {}
    PROVE  Min(Unnamed(files, from)) \in Unnamed(files, from)
<1>1. Unnamed(files, from) \subseteq Nat
  BY DEF Unnamed
<1>2. \E x \in Unnamed(files, from) : \A y \in Unnamed(files, from) : x <= y
  BY <1>1, LeastOf
<1> HIDE DEF Unnamed
<1> QED
  BY <1>2 DEF Min

LEMMA ListUnnamed ==
    /\ Unnamed(ListFiles, lists) = {} =>
          \A f \in {"features", "ids", "offsets"} : lists[f].place # "part"
    /\ Unnamed(ListFiles, lists) # {} =>
          /\ ListFiles[Min(Unnamed(ListFiles, lists))] \in {"features", "ids", "offsets"}
          /\ lists[ListFiles[Min(Unnamed(ListFiles, lists))]].place = "part"
<1>1. /\ DOMAIN ListFiles = {1, 2, 3}
      /\ ListFiles[1] = "features" /\ ListFiles[2] = "ids" /\ ListFiles[3] = "offsets"
  BY DEF ListFiles
<1>2. ASSUME Unnamed(ListFiles, lists) # {}
      PROVE  Min(Unnamed(ListFiles, lists)) \in Unnamed(ListFiles, lists)
  BY <1>2, FileNames, FirstUnnamed
<1> QED
  BY <1>1, <1>2 DEF Unnamed

LEMMA GraphUnnamed ==
    /\ Unnamed(GraphFiles, graph) = {} =>
          \A f \in {"indices", "distances"} : graph[f].place # "part"
    /\ Unnamed(GraphFiles, graph) # {} =>
          /\ GraphFiles[Min(Unnamed(GraphFiles, graph))] \in {"indices", "distances"}
          /\ graph[GraphFiles[Min(Unnamed(GraphFiles, graph))]].place = "part"
<1>1. /\ DOMAIN GraphFiles = {1, 2}
      /\ GraphFiles[1] = "indices" /\ GraphFiles[2] = "distances"
  BY DEF GraphFiles
<1>2. ASSUME Unnamed(GraphFiles, graph) # {}
      PROVE  Min(Unnamed(GraphFiles, graph)) \in Unnamed(GraphFiles, graph)
  BY <1>2, FileNames, FirstUnnamed
<1> QED
  BY <1>1, <1>2 DEF Unnamed

-----------------------------------------------------------------------------
(* What a step leaves alone.                                               *)

(* The next point of a call. *)
LEMMA GoesOn ==
    ASSUME CallShape, UNCHANGED input, NEW p, Go(p),
           \/ call.pc \in ListPoints /\ p \in ListPoints
           \/ call.pc \in GraphPoints /\ p \in GraphPoints
    PROVE  /\ CallShape' /\ call'.pc = p /\ ~AtRest
           /\ call'.what = call.what /\ call'.resume = call.resume /\ call'.seen = call.seen
           /\ call.pc \in ListPoints =>
                 /\ call'.done = call.done /\ call'.counts = call.counts /\ call'.next = call.next
                 /\ call'.stream = call.stream
<1>1. ~AtRest /\ p \notin {"idle", "refused"}
  BY DEF AtRest, ListPoints, GraphPoints, Building, Placing, Closing, Unmarked, Sorting
<1>2. /\ call'.pc = p /\ DOMAIN call' = DOMAIN call
      /\ call'.what = call.what /\ call'.resume = call.resume /\ call'.seen = call.seen
  BY <1>1 DEF Go, CallShape
<1>3. call.pc \in ListPoints =>
          /\ call'.done = call.done /\ call'.counts = call.counts /\ call'.next = call.next
          /\ call'.stream = call.stream
  BY DEF Go, CallShape
<1>4. ListPoints \cap GraphPoints = {}
  BY DEF ListPoints, GraphPoints, Building, Placing, Closing, Unmarked, Sorting
<1>5. CallShape'
  BY <1>1, <1>2, <1>3, <1>4 DEF CallShape, AtRest
<1> QED
  BY <1>1, <1>2, <1>3, <1>5

(* The end of one. *)
LEMMA CallEnds ==
    ASSUME CallShape, NEW p \in {"idle", "refused"}, call' = Ended(p)
    PROVE  /\ CallShape' /\ call'.pc = p /\ AtRest'
           /\ call'.what = call.what /\ call'.resume = call.resume
           /\ call'.pc \notin ListPoints /\ call'.pc \notin GraphPoints
<1>1. /\ call'.pc = p /\ DOMAIN call' = {"pc", "what", "resume"}
      /\ call'.what = call.what /\ call'.resume = call.resume
  BY DEF Ended
<1>2. p \notin ListPoints /\ p \notin GraphPoints
  BY DEF ListPoints, GraphPoints, Building, Placing, Closing, Unmarked, Sorting
<1> QED
  BY <1>1, <1>2 DEF CallShape, AtRest

(* There is no graph before the lists have a manifest. *)
LEMMA NoGraphYet ==
    ASSUME PostIInv, lists.manifest = Nothing, lists'.manifest = Nothing, UNCHANGED <<input, graph>>,
           call'.pc \notin GraphPoints
    PROVE  /\ GraphShape' /\ PostingsGrouped' /\ GraphFresh' /\ GraphSeen' /\ GroupedRight'
           /\ OutputsRight' /\ NamesRight' /\ SortRight'
<1>1. /\ graph.grouped.place = "none" /\ graph.indices.place = "none"
      /\ graph.distances.place = "none" /\ graph.marker = Nothing /\ ~graph.work.open
  BY DEF PostIInv, GraphFresh
<1>2. /\ call'.pc \notin {"commit", "names", "complete", "marker", "open_second", "sort"}
      /\ call'.pc \notin {"work", "mark", "distribute"}
      /\ call'.pc \notin Unmarked /\ call'.pc \notin Sorting
  BY DEF GraphPoints, Unmarked, Sorting
<1>3. GraphShape'
  BY DEF PostIInv, PostTypeOK, GraphShape, FileShape
<1>4. PostingsGrouped' /\ GraphFresh'
  BY <1>1 DEF PostingsGrouped, GraphFresh
<1>5. GraphSeen' /\ GroupedRight' /\ OutputsRight'
  BY <1>1, <1>2 DEF GraphSeen, GroupedRight, OutputsRight
<1>6. NamesRight' /\ SortRight'
  BY <1>1, <1>2 DEF NamesRight, SortRight
<1> QED
  BY <1>3, <1>4, <1>5, <1>6

(* A call for a graph leaves the lists alone. *)
LEMMA ListsStay ==
    ASSUME PostIInv, UNCHANGED <<input, lists, torn>>,
           call.pc \notin Building, call'.pc \notin Building
    PROVE  /\ ListsShape' /\ BuildFiles' /\ BuildRight' /\ ListsReady' /\ SavedRight'
           /\ PostingsGrouped'
<1>1. /\ call'.pc \notin {"count", "place", "flush", "save", "offsets_open", "rename", "check"}
      /\ call'.pc # "manifest" /\ call'.pc \notin Placing /\ call'.pc \notin Closing
      /\ call.pc # "offsets_open"
  BY DEF Building, Placing, Closing
<1>2. ListsShape'
  BY DEF PostIInv, PostTypeOK, ListsShape, FileShape
<1>3. BuildFiles' /\ BuildRight' /\ ListsReady'
  BY <1>1 DEF BuildFiles, BuildRight, ListsReady
<1>4. SavedRight'
  BY <1>1 DEF PostIInv, SavedRight, HoldsTo
<1>5. PostingsGrouped'
  BY DEF PostIInv, PostingsGrouped
<1> QED
  BY <1>2, <1>3, <1>4, <1>5

(* The parts of the invariant put together. *)
LEMMA InvariantIs ==
    ASSUME UNCHANGED <<input, halts, torn>>, PostTypeOK, CallShape', ListsShape', GraphShape'
    PROVE  PostTypeOK'
BY DEF PostTypeOK

LEMMA NotRefused ==
    ASSUME call'.pc # "refused"
    PROVE  PostingWorkResumes'
BY DEF PostingWorkResumes

LEMMA InputIs ==
    ASSUME PostTypeOK
    PROVE  /\ input \in Versions /\ input \in Nat /\ PostVersions \in Nat
           /\ \A v \in 0..input : v \in Versions /\ v \in Nat
BY Sizes DEF PostTypeOK, Versions

-----------------------------------------------------------------------------
(* The steps of a call that builds lists.                                  *)

LEMMA CountBlockKeeps ==
    ASSUME PostIInv, CountBlock
    PROVE  PostIInv'
<1>1. /\ call.pc = "count" /\ call.pc \in ListPoints /\ call.pc \in Building
      /\ call.done \in 0..PostRows
  BY DEF PostIInv, PostTypeOK, CallShape, CountBlock, ListPoints, Building
<1>2. Min({call.done + PostBlock, PostRows}) = BlockEnd(call.done) /\ BlockEnd(call.done) \in 0..PostRows
  BY <1>1, BlockMin, BlockIs
<1>3. /\ call'.pc = "count" /\ DOMAIN call' = DOMAIN call /\ call'.what = call.what
      /\ call'.resume = call.resume /\ call'.seen = call.seen
      /\ call'.counts = Counted(call.counts, input, call.done)
      /\ call'.done = BlockEnd(call.done) /\ call'.stream = call.stream
  BY <1>1, <1>2 DEF CountBlock, CallShape, PostIInv, PostTypeOK
<1>4. CallShape'
  BY <1>1, <1>2, <1>3 DEF PostIInv, PostTypeOK, CallShape, CountBlock, AtRest, GraphPoints,
     Unmarked, Sorting
<1>5. UNCHANGED <<input, lists, graph, halts, torn>>
  BY DEF CountBlock
<1>6. PostTypeOK'
  BY <1>4, <1>5 DEF PostIInv, PostTypeOK, ListsShape, GraphShape, FileShape
<1>7. BuildFiles'
  BY <1>1, <1>3, <1>5 DEF PostIInv, BuildFiles, Placing, Closing
<1>8. BuildRight'
  <2> SUFFICES ASSUME call.seen = input
               PROVE  call'.counts = CountsTo(input, call'.done)
    BY <1>3, <1>5 DEF BuildRight, Placing
  <2>1. call.counts = CountsTo(input, call.done)
    BY <1>1 DEF PostIInv, BuildRight
  <2>2. input \in Versions
    BY DEF PostIInv, PostTypeOK
  <2> QED
    BY <1>1, <1>3, <2>1, <2>2, CountedIs
<1>9. ListsReady' /\ SavedRight'
  <2>1. call.pc # "offsets_open" /\ call'.pc # "manifest" /\ call'.pc # "offsets_open"
    BY <1>1, <1>3
  <2> QED
    BY <1>5, <2>1 DEF PostIInv, ListsReady, SavedRight, HoldsTo
<1>10. lists.manifest = Nothing /\ call'.pc \notin GraphPoints
  BY <1>1, <1>3 DEF PostIInv, BuildFiles, GraphPoints, Unmarked, Sorting
<1>11. /\ PostingsGrouped' /\ GraphFresh' /\ GraphSeen' /\ GroupedRight' /\ OutputsRight'
       /\ NamesRight' /\ SortRight'
  BY <1>5, <1>10, NoGraphYet
<1>12. PostingWorkResumes'
  BY <1>3, NotRefused
<1> QED
  BY <1>6, <1>7, <1>8, <1>9, <1>11, <1>12 DEF PostIInv

LEMMA CreateListsKeeps ==
    ASSUME PostIInv, CreateLists
    PROVE  PostIInv'
<1> DEFINE zeros == [p \in Positions |-> 0]
<1>1. /\ call.pc = "count" /\ call.pc \in ListPoints /\ call.pc \in Building
      /\ call.done = PostRows
  BY DEF PostIInv, PostTypeOK, CallShape, CreateLists, ListPoints, Building
<1>2. PostRows \in Nat
  BY Sizes
<1>3. /\ call'.pc = "save" /\ DOMAIN call' = DOMAIN call /\ call'.what = call.what
      /\ call'.resume = call.resume /\ call'.seen = call.seen
      /\ call'.counts = call.counts /\ call'.next = Starts(call.counts)
      /\ call'.done = 0 /\ call'.stream = [features |-> zeros, ids |-> zeros]
  BY <1>1 DEF CreateLists, CallShape, PostIInv, PostTypeOK
<1>4. CallShape'
  BY <1>1, <1>2, <1>3 DEF PostIInv, PostTypeOK, CallShape, CreateLists, AtRest, GraphPoints,
     ListPoints, Building, Placing, Unmarked, Sorting
<1>5. /\ UNCHANGED <<input, graph, halts, torn>>
      /\ lists'.features = Part(zeros) /\ lists'.ids = Part(zeros)
      /\ lists'.offsets = lists.offsets /\ lists'.saved = lists.saved
      /\ lists'.manifest = lists.manifest /\ DOMAIN lists' = DOMAIN lists
  BY DEF CreateLists, PostIInv, PostTypeOK, ListsShape
<1> HIDE DEF zeros
<1>6. ListsShape'
  BY <1>5 DEF PostIInv, PostTypeOK, ListsShape, FileShape, Part
<1>7. BuildFiles'
  BY <1>1, <1>3, <1>5 DEF PostIInv, BuildFiles, Placing, Closing, Building, Part
<1>8. BuildRight'
  <2> SUFFICES ASSUME call.seen = input
               PROVE  /\ call'.counts = CountsTo(input, PostRows)
                      /\ call'.next = NextTo(input, 0)
                      /\ HoldsTo(input, 0, call'.stream.features, call'.stream.ids)
                      /\ OnBlock(0)
                      /\ lists'.features.data = call'.stream.features
                      /\ lists'.ids.data = call'.stream.ids
    BY <1>3, <1>5 DEF BuildRight, Placing
  <2>1. call.counts = CountsTo(input, PostRows)
    BY <1>1 DEF PostIInv, BuildRight
  <2>2. input \in Versions
    BY DEF PostIInv, PostTypeOK
  <2>3. HoldsTo(input, 0, zeros, zeros)
    BY DEF HoldsTo, zeros
  <2> QED
    BY <1>3, <1>5, <2>1, <2>2, <2>3, StartsAre, BlocksFollow DEF Part
<1>9. ListsReady' /\ SavedRight'
  BY <1>1, <1>3, <1>5 DEF PostIInv, ListsReady, SavedRight, BuildFiles
<1>10. /\ lists.manifest = Nothing /\ lists'.manifest = Nothing /\ call'.pc \notin GraphPoints
  BY <1>1, <1>3, <1>5 DEF PostIInv, BuildFiles, GraphPoints, Unmarked, Sorting
<1>11. /\ GraphShape' /\ PostingsGrouped' /\ GraphFresh' /\ GraphSeen' /\ GroupedRight'
       /\ OutputsRight' /\ NamesRight' /\ SortRight'
  BY <1>5, <1>10, NoGraphYet
<1>12. PostingWorkResumes'
  BY <1>3, NotRefused
<1>13. PostTypeOK'
  BY <1>4, <1>5, <1>6, <1>11, InvariantIs DEF PostIInv
<1> QED
  BY <1>7, <1>8, <1>9, <1>11, <1>12, <1>13 DEF PostIInv

LEMMA PlaceBlockKeeps ==
    ASSUME PostIInv, PlaceBlock
    PROVE  PostIInv'
<1> DEFINE after == [l \in Lists |-> call.next[l] + Cardinality(InList(input, call.done, l))]
           placed == Placed(call.stream, call.next, input, call.done)
<1>1. /\ call.pc = "place" /\ call.pc \in ListPoints /\ call.pc \in Building /\ call.pc \in Placing
      /\ call.done \in 0..PostRows
  BY DEF PostIInv, PostTypeOK, CallShape, PlaceBlock, ListPoints, Building, Placing
<1>2. /\ Min({call.done + PostBlock, PostRows}) = BlockEnd(call.done)
      /\ BlockEnd(call.done) \in 0..PostRows /\ BlockEnd(call.done) \in call.done..PostRows
      /\ call.done # PostRows
  <2>1. call.done < PostRows /\ PostRows \in Nat
    BY Sizes DEF PlaceBlock
  <2>2. Min({call.done + PostBlock, PostRows}) = BlockEnd(call.done)
    BY <1>1, BlockMin
  <2>3. BlockEnd(call.done) \in 0..PostRows /\ BlockEnd(call.done) \in call.done..PostRows
    BY <1>1, BlockIs
  <2>4. call.done # PostRows
    BY <2>1
  <2> QED
    BY <2>2, <2>3, <2>4
<1>3. /\ call'.pc \in {"flush", "place"} /\ DOMAIN call' = DOMAIN call /\ call'.what = call.what
      /\ call'.resume = call.resume /\ call'.seen = call.seen /\ call'.counts = call.counts
      /\ call'.done = BlockEnd(call.done) /\ call'.next = after /\ call'.stream = placed
      /\ call'.pc = "place" => call'.done # PostRows
  <2>1. /\ call' = [call EXCEPT !.stream = placed, !.next = after, !.done = BlockEnd(call.done),
                        !.pc = IF SaveDue(BlockEnd(call.done)) THEN "flush" ELSE "place"]
    BY <1>2 DEF PlaceBlock
  <2>2. /\ call'.pc = IF SaveDue(BlockEnd(call.done)) THEN "flush" ELSE "place"
        /\ DOMAIN call' = DOMAIN call /\ call'.what = call.what
        /\ call'.resume = call.resume /\ call'.seen = call.seen /\ call'.counts = call.counts
        /\ call'.done = BlockEnd(call.done) /\ call'.next = after /\ call'.stream = placed
    <3> HIDE DEF after, placed
    <3> QED
      BY <1>1, <2>1 DEF CallShape, PostIInv, PostTypeOK
  <2> HIDE DEF after, placed
  <2> QED
    BY <2>2 DEF SaveDue
<1>4. CallShape'
  <2>1. DOMAIN placed = {"features", "ids"}
    BY DEF Placed
  <2> HIDE DEF after, placed
  <2> QED
    BY <1>1, <1>2, <1>3, <2>1 DEF PostIInv, PostTypeOK, CallShape, PlaceBlock, AtRest, GraphPoints,
       ListPoints, Building, Placing, Unmarked, Sorting
<1>5. UNCHANGED <<input, lists, graph, halts, torn>>
  BY DEF PlaceBlock
<1>6. PostTypeOK'
  BY <1>4, <1>5 DEF PostIInv, PostTypeOK, ListsShape, GraphShape, FileShape
<1>7. BuildFiles'
  <2>1. call'.pc \in Placing /\ call'.pc \notin Closing
    BY <1>3 DEF Placing, Closing
  <2>2. lists.saved.done <= call'.done
    <3>1. lists.saved # Nothing /\ lists.saved.done <= call.done
      BY <1>1 DEF PostIInv, BuildFiles
    <3>2. lists.saved.done \in 0..PostRows
      BY <3>1 DEF PostIInv, PostTypeOK, ListsShape
    <3> QED
      BY <1>1, <1>2, <1>3, <3>1, <3>2, Sizes
  <2>3. call'.pc \notin {"offsets_open", "count", "rename", "check", "manifest"}
    BY <1>3
  <2>4. /\ lists.manifest = Nothing
        /\ lists.features.place = "part" /\ lists.ids.place = "part" /\ lists.offsets.place = "none"
        /\ lists.saved # Nothing /\ lists.saved.version = call.seen
    BY <1>1 DEF PostIInv, BuildFiles
  <2> QED
    BY <1>3, <1>5, <2>1, <2>2, <2>3, <2>4 DEF BuildFiles
<1>8. BuildRight'
  <2> SUFFICES ASSUME call.seen = input
               PROVE  /\ call'.counts = CountsTo(input, PostRows)
                      /\ call'.next = NextTo(input, call'.done)
                      /\ HoldsTo(input, call'.done, call'.stream.features, call'.stream.ids)
                      /\ OnBlock(call'.done)
    BY <1>3, <1>5 DEF BuildRight, Placing
  <2>1. /\ call.counts = CountsTo(input, PostRows) /\ call.next = NextTo(input, call.done)
        /\ HoldsTo(input, call.done, call.stream.features, call.stream.ids)
        /\ OnBlock(call.done)
    BY <1>1 DEF PostIInv, BuildRight
  <2>2. input \in Versions
    BY DEF PostIInv, PostTypeOK
  <2>3. after = NextTo(input, BlockEnd(call.done))
    BY <1>1, <2>1, <2>2, NextGrows
  <2>4. HoldsTo(input, BlockEnd(call.done), placed.features, placed.ids)
    BY <1>1, <2>1, <2>2, PlacedIs
  <2>5. OnBlock(BlockEnd(call.done))
    BY <1>1, <2>1, BlocksFollow
  <2> HIDE DEF after, placed
  <2> QED
    BY <1>3, <2>1, <2>3, <2>4, <2>5
<1>9. ListsReady' /\ SavedRight'
  <2>1. call.pc # "offsets_open" /\ call'.pc # "manifest" /\ call'.pc # "offsets_open"
    BY <1>1, <1>3
  <2> QED
    BY <1>5, <2>1 DEF PostIInv, ListsReady, SavedRight, HoldsTo
<1>10. lists.manifest = Nothing /\ call'.pc \notin GraphPoints
  BY <1>1, <1>3 DEF PostIInv, BuildFiles, GraphPoints, Unmarked, Sorting
<1>11. /\ PostingsGrouped' /\ GraphFresh' /\ GraphSeen' /\ GroupedRight' /\ OutputsRight'
       /\ NamesRight' /\ SortRight'
  BY <1>5, <1>10, NoGraphYet
<1>12. PostingWorkResumes'
  BY <1>3, NotRefused
<1> QED
  BY <1>6, <1>7, <1>8, <1>9, <1>11, <1>12 DEF PostIInv

LEMMA HoldsLess ==
    ASSUME NEW v, NEW n \in 0..PostRows, NEW m \in 0..PostRows, m <= n, NEW features, NEW ids,
           HoldsTo(v, n, features, ids)
    PROVE  HoldsTo(v, m, features, ids)
BY Sizes DEF HoldsTo

LEMMA FlushKeeps ==
    ASSUME PostIInv, Flush
    PROVE  PostIInv'
<1>1. call.pc = "flush" /\ call.pc \in ListPoints /\ call.pc \in Building /\ call.pc \in Placing
  BY DEF Flush, ListPoints, Building, Placing
<1>2. /\ UNCHANGED <<input, graph, halts, torn>> /\ Go("save")
      /\ lists'.features = [lists.features EXCEPT !.data = call.stream.features]
      /\ lists'.ids = [lists.ids EXCEPT !.data = call.stream.ids]
      /\ lists'.offsets = lists.offsets /\ lists'.saved = lists.saved
      /\ lists'.manifest = lists.manifest /\ DOMAIN lists' = DOMAIN lists
  BY DEF Flush, Flushed, PostIInv, PostTypeOK, ListsShape
<1>3. /\ CallShape' /\ call'.pc = "save" /\ call'.seen = call.seen /\ call'.done = call.done
      /\ call'.counts = call.counts /\ call'.next = call.next /\ call'.stream = call.stream
  BY <1>1, <1>2, GoesOn DEF PostIInv, PostTypeOK, ListPoints, Building, Placing
<1>4. /\ lists'.features.place = lists.features.place /\ lists'.features.data = call.stream.features
      /\ lists'.ids.place = lists.ids.place /\ lists'.ids.data = call.stream.ids
      /\ FileShape(lists'.features) /\ FileShape(lists'.ids)
  BY <1>2 DEF PostIInv, PostTypeOK, ListsShape, FileShape
<1>5. ListsShape'
  BY <1>2, <1>4 DEF PostIInv, PostTypeOK, ListsShape, FileShape
<1>6. /\ lists.manifest = Nothing /\ lists.saved # Nothing /\ lists.saved.version = call.seen
      /\ lists.saved.done <= call.done /\ lists.features.place = "part" /\ lists.ids.place = "part"
      /\ lists.offsets.place = "none"
  BY <1>1 DEF PostIInv, BuildFiles
<1>7. BuildFiles'
  BY <1>2, <1>3, <1>4, <1>6 DEF BuildFiles, Building, Placing, Closing
<1>8. BuildRight'
  BY <1>1, <1>2, <1>3, <1>4 DEF PostIInv, BuildRight, Placing
<1>9. ListsReady'
  BY <1>3 DEF ListsReady
<1>10. SavedRight'
  <2> SUFFICES ASSUME lists.saved.version = input
               PROVE  HoldsTo(input, lists.saved.done, call.stream.features, call.stream.ids)
    BY <1>1, <1>2, <1>3, <1>4, <1>6 DEF PostIInv, SavedRight
  <2>1. HoldsTo(input, call.done, call.stream.features, call.stream.ids)
    BY <1>1, <1>6 DEF PostIInv, BuildRight
  <2>2. call.done \in 0..PostRows /\ lists.saved.done \in 0..PostRows
    BY <1>1, <1>6 DEF PostIInv, PostTypeOK, CallShape, ListsShape
  <2> QED
    BY <1>6, <2>1, <2>2, HoldsLess
<1>11. lists.manifest = Nothing /\ lists'.manifest = Nothing /\ call'.pc \notin GraphPoints
  BY <1>2, <1>3, <1>6 DEF GraphPoints, Unmarked, Sorting
<1>12. /\ GraphShape' /\ PostingsGrouped' /\ GraphFresh' /\ GraphSeen' /\ GroupedRight'
       /\ OutputsRight' /\ NamesRight' /\ SortRight'
  BY <1>2, <1>11, NoGraphYet
<1>13. PostingWorkResumes'
  BY <1>3, NotRefused
<1>14. PostTypeOK'
  BY <1>2, <1>3, <1>5, <1>12, InvariantIs DEF PostIInv
<1> QED
  BY <1>7, <1>8, <1>9, <1>10, <1>12, <1>13, <1>14 DEF PostIInv

LEMMA SaveKeeps ==
    ASSUME PostIInv, Save
    PROVE  PostIInv'
<1> DEFINE saved == [version |-> call.seen, done |-> call.done, counts |-> call.counts,
                     next |-> call.next]
<1>1. call.pc = "save" /\ call.pc \in ListPoints /\ call.pc \in Building /\ call.pc \in Placing
  BY DEF Save, ListPoints, Building, Placing
<1>2. /\ UNCHANGED <<input, graph, halts, torn>> /\ Go("place")
      /\ lists'.features = lists.features /\ lists'.ids = lists.ids
      /\ lists'.offsets = lists.offsets /\ lists'.saved = saved
      /\ lists'.manifest = lists.manifest /\ DOMAIN lists' = DOMAIN lists
  BY DEF Save, PostIInv, PostTypeOK, ListsShape
<1>3. /\ CallShape' /\ call'.pc = "place" /\ call'.seen = call.seen /\ call'.done = call.done
      /\ call'.counts = call.counts /\ call'.next = call.next /\ call'.stream = call.stream
      /\ call.seen \in 0..input /\ call.done \in 0..PostRows
  BY <1>1, <1>2, GoesOn DEF PostIInv, PostTypeOK, ListPoints, Building, Placing, CallShape
<1>4. /\ saved # Nothing /\ DOMAIN saved = {"version", "done", "counts", "next"}
      /\ saved.version = call.seen /\ saved.done = call.done /\ saved.counts = call.counts
      /\ saved.next = call.next
  BY DEF Nothing
<1> HIDE DEF saved
<1>5. ListsShape'
  BY <1>2, <1>3, <1>4 DEF PostIInv, PostTypeOK, ListsShape, FileShape
<1>6. /\ lists.manifest = Nothing /\ lists.features.place = "part" /\ lists.ids.place = "part"
      /\ lists.offsets.place = "none"
  BY <1>1 DEF PostIInv, BuildFiles
<1>7. BuildFiles'
  <2>1. lists'.saved.done <= call'.done
    BY <1>2, <1>3, <1>4, Sizes
  <2> QED
    BY <1>2, <1>3, <1>4, <1>6, <2>1 DEF BuildFiles, Building, Placing, Closing
<1>8. BuildRight'
  BY <1>1, <1>2, <1>3 DEF PostIInv, BuildRight, Placing
<1>9. ListsReady'
  BY <1>3 DEF ListsReady
<1>10. SavedRight'
  <2> SUFFICES ASSUME call.seen = input
               PROVE  /\ call.counts = CountsTo(input, PostRows)
                      /\ call.next = NextTo(input, call.done)
                      /\ HoldsTo(input, call.done, lists.features.data, lists.ids.data)
                      /\ OnBlock(call.done)
    BY <1>2, <1>3, <1>4, <1>6 DEF SavedRight
  <2> QED
    BY <1>1, <1>6 DEF PostIInv, BuildRight
<1>11. lists.manifest = Nothing /\ lists'.manifest = Nothing /\ call'.pc \notin GraphPoints
  BY <1>2, <1>3, <1>6 DEF GraphPoints, Unmarked, Sorting
<1>12. /\ GraphShape' /\ PostingsGrouped' /\ GraphFresh' /\ GraphSeen' /\ GroupedRight'
       /\ OutputsRight' /\ NamesRight' /\ SortRight'
  BY <1>2, <1>11, NoGraphYet
<1>13. PostingWorkResumes'
  BY <1>3, NotRefused
<1>14. PostTypeOK'
  BY <1>2, <1>3, <1>5, <1>12, InvariantIs DEF PostIInv
<1> QED
  BY <1>7, <1>8, <1>9, <1>10, <1>12, <1>13, <1>14 DEF PostIInv

(* A call for lists that leaves their files alone and goes on, or ends. *)
LEMMA FilesStay ==
    ASSUME PostIInv, UNCHANGED <<input, lists, graph, halts, torn>>, call.pc \in Building,
           call.pc # "offsets_open", NEW p \in Closing \cup {"idle"},
           \/ call' = Ended(p) /\ p = "idle"
           \/ /\ Go(p) /\ p \in Closing /\ lists.saved.done = PostRows
              /\ lists.features.place # "none" /\ lists.ids.place # "none"
              /\ lists.saved # Nothing /\ lists.saved.version = call.seen
              /\ p = "offsets_open" => lists.offsets.place = "part"
              /\ p = "rename" => lists.offsets.place # "none"
              /\ p \in {"check", "manifest"} =>
                     \A f \in {"features", "ids", "offsets"} : lists[f].place = "final"
              /\ call.seen = input =>
                     /\ call.counts = CountsTo(input, PostRows)
                     /\ p \in {"rename", "check"} => lists.offsets.data = LowTo(input, PostRows)
              /\ p = "manifest" =>
                     /\ HoldsTo(call.seen, PostRows, lists.features.data, lists.ids.data)
                     /\ lists.offsets.data = LowTo(call.seen, PostRows)
    PROVE  PostIInv'
<1>1. p \in {"idle"} \cup ListPoints /\ call.pc \in ListPoints
  BY DEF ListPoints, Building
<1>2. p = "idle" => p \notin Closing
  BY DEF Closing
<1>3. CallShape' /\ call'.pc = p
  <2>1. CASE call' = Ended(p) /\ p = "idle"
    BY <2>1, CallEnds DEF PostIInv, PostTypeOK
  <2>2. CASE Go(p) /\ p \in Closing
    BY <1>1, <1>2, <2>2, GoesOn DEF PostIInv, PostTypeOK
  <2> QED
    BY <2>1, <2>2
<1>4. /\ p \in Closing => /\ call'.seen = call.seen /\ call'.done = call.done
                          /\ call'.counts = call.counts
  BY <1>1, <1>2, GoesOn DEF PostIInv, PostTypeOK
<1>5. p \notin Placing /\ p # "count" /\ p # "refused"
  BY DEF Closing, Placing
<1>6. lists.manifest = Nothing
  BY DEF PostIInv, BuildFiles
<1>7. BuildFiles'
  <2>1. p \notin {"count", "place", "flush"}
    BY <1>5 DEF Placing
  <2>2. p \in {"offsets_open", "rename", "check", "manifest"} => p \in Closing
    BY DEF Closing
  <2>3. p \in Building => p \in Closing
    BY <1>5 DEF Building
  <2> QED
    BY <1>2, <1>3, <1>4, <1>5, <1>6, <2>1, <2>2, <2>3 DEF BuildFiles
<1>8. BuildRight'
  <2>1. p \in Building => p \in Closing
    BY <1>5 DEF Building
  <2>2. p # "save"
    BY <1>5 DEF Placing
  <2> QED
    BY <1>2, <1>3, <1>4, <1>5, <2>1, <2>2 DEF BuildRight
<1>9. ListsReady'
  BY <1>2, <1>3, <1>4 DEF ListsReady
<1>10. SavedRight'
  BY <1>3 DEF PostIInv, SavedRight, HoldsTo
<1>11. call'.pc \notin GraphPoints
  BY <1>1, <1>3 DEF GraphPoints, Unmarked, Sorting, ListPoints, Building, Placing, Closing
<1>12. /\ GraphShape' /\ PostingsGrouped' /\ GraphFresh' /\ GraphSeen' /\ GroupedRight'
       /\ OutputsRight' /\ NamesRight' /\ SortRight'
  BY <1>6, <1>11, NoGraphYet
<1>13. PostingWorkResumes'
  BY <1>3, <1>5, NotRefused
<1>14. ListsShape'
  BY DEF PostIInv, PostTypeOK, ListsShape, FileShape
<1>15. PostTypeOK'
  BY <1>3, <1>12, <1>14, InvariantIs DEF PostIInv
<1> QED
  BY <1>7, <1>8, <1>9, <1>10, <1>12, <1>13, <1>15 DEF PostIInv

(* A call for lists leaves the graph alone. *)
LEMMA GraphStays ==
    ASSUME PostIInv, UNCHANGED <<input, graph, torn>>, lists'.manifest = lists.manifest,
           lists'.ids = lists.ids, call.pc \notin GraphPoints, call'.pc \notin GraphPoints
    PROVE  /\ GraphShape' /\ GraphFresh' /\ GraphSeen' /\ GroupedRight'
           /\ OutputsRight' /\ NamesRight' /\ SortRight'
<1>1. /\ call'.pc \notin {"commit", "names", "complete", "marker", "open_second", "sort"}
      /\ call'.pc \notin {"work", "mark", "distribute"}
      /\ call'.pc \notin Unmarked /\ call'.pc \notin Sorting
  BY DEF GraphPoints, Unmarked, Sorting
<1>2. call.pc \notin {"open_second", "mark"}
  BY DEF GraphPoints, Unmarked, Sorting
<1>3. GraphShape'
  BY DEF PostIInv, PostTypeOK, GraphShape, FileShape
<1>4. GraphFresh' /\ GraphSeen' /\ GroupedRight'
  BY <1>1 DEF PostIInv, GraphFresh, GraphSeen, GroupedRight
<1>5. OutputsRight'
  BY <1>1 DEF PostIInv, OutputsRight
<1>6. NamesRight' /\ SortRight'
  BY <1>1, <1>2 DEF PostIInv, NamesRight, SortRight, Mixed
<1> QED
  BY <1>3, <1>4, <1>5, <1>6

LEMMA ClosePlacesKeeps ==
    ASSUME PostIInv, ClosePlaces
    PROVE  PostIInv'
<1>1. /\ call.pc = "place" /\ call.pc \in Building /\ call.done = PostRows /\ call.pc \in Placing
      /\ UNCHANGED <<input, lists, graph, halts, torn>>
  BY DEF ClosePlaces, Building, Placing
<1>2. \/ Go("offsets") \/ call' = Ended("idle")
  BY DEF ClosePlaces
<1>3. /\ lists.saved.done = PostRows /\ lists.features.place # "none" /\ lists.ids.place # "none"
      /\ lists.saved # Nothing /\ lists.saved.version = call.seen
      /\ call.seen = input => call.counts = CountsTo(input, PostRows)
  BY <1>1 DEF PostIInv, BuildFiles, BuildRight
<1>4. "offsets" \in Closing
  BY DEF Closing
<1> QED
  BY <1>1, <1>2, <1>3, <1>4, FilesStay

(* A file of offsets that is started, and filled. *)
LEMMA OffsetsKept ==
    ASSUME PostIInv, UNCHANGED <<input, graph, halts, torn>>, NEW data,
           call.pc \in {"offsets", "offsets_open"}, NEW p \in {"offsets_open", "rename"}, Go(p),
           lists' = [lists EXCEPT !.offsets = Part(data)],
           p = "rename" /\ call.seen = input => data = LowTo(input, PostRows)
    PROVE  PostIInv'
<1>1. /\ call.pc \in ListPoints /\ p \in ListPoints /\ call.pc \in Building /\ call.pc \in Closing
      /\ p \in Closing /\ call.pc # "count" /\ p # "refused"
  BY DEF ListPoints, Building, Closing
<1>2. /\ CallShape' /\ call'.pc = p /\ call'.seen = call.seen /\ call'.done = call.done
      /\ call'.counts = call.counts /\ call.seen \in 0..input
  <2>1. call.seen \in 0..input
    BY <1>1 DEF PostIInv, PostTypeOK, CallShape, AtRest
  <2> QED
    BY <1>1, <2>1, GoesOn DEF PostIInv, PostTypeOK
<1>3. /\ lists'.features = lists.features /\ lists'.ids = lists.ids
      /\ lists'.offsets = Part(data) /\ lists'.saved = lists.saved
      /\ lists'.manifest = lists.manifest /\ DOMAIN lists' = DOMAIN lists
  BY DEF PostIInv, PostTypeOK, ListsShape
<1>4. Part(data).place = "part" /\ Part(data).data = data /\ FileShape(Part(data))
  BY DEF Part, FileShape
<1>5. ListsShape'
  BY <1>3, <1>4 DEF PostIInv, PostTypeOK, ListsShape, FileShape
<1>6. /\ lists.manifest = Nothing /\ lists.features.place # "none" /\ lists.ids.place # "none"
      /\ lists.saved # Nothing /\ lists.saved.version = call.seen /\ lists.saved.done = PostRows
  BY <1>1 DEF PostIInv, BuildFiles
<1>7. BuildFiles'
  BY <1>2, <1>3, <1>4, <1>6 DEF BuildFiles, Building, Placing, Closing
<1>8. BuildRight'
  <2>1. p \notin Placing /\ p # "save" /\ p # "count" /\ p # "check"
    BY DEF Placing
  <2>2. call.seen = input => call.counts = CountsTo(input, PostRows)
    BY <1>1 DEF PostIInv, BuildRight
  <2> QED
    BY <1>2, <1>3, <1>4, <2>1, <2>2 DEF BuildRight
<1>9. ListsReady'
  BY <1>2 DEF ListsReady
<1>10. SavedRight'
  <2>1. p = "rename" /\ lists.saved.version = input => data = LowTo(input, PostRows)
    BY <1>6
  <2> QED
    BY <1>2, <1>3, <1>4, <1>6, <2>1 DEF PostIInv, SavedRight
<1>11. lists.manifest = Nothing /\ lists'.manifest = Nothing /\ call'.pc \notin GraphPoints
  BY <1>2, <1>3, <1>6 DEF GraphPoints, Unmarked, Sorting
<1>12. /\ GraphShape' /\ PostingsGrouped' /\ GraphFresh' /\ GraphSeen' /\ GroupedRight'
       /\ OutputsRight' /\ NamesRight' /\ SortRight'
  BY <1>11, NoGraphYet
<1>13. PostingWorkResumes'
  BY <1>1, <1>2, NotRefused
<1>14. PostTypeOK'
  BY <1>2, <1>5, <1>12, InvariantIs DEF PostIInv
<1> QED
  BY <1>7, <1>8, <1>9, <1>10, <1>12, <1>13, <1>14 DEF PostIInv

LEMMA OpenOffsetsKeeps ==
    ASSUME PostIInv, OpenOffsets
    PROVE  PostIInv'
BY OffsetsKept DEF OpenOffsets

LEMMA WriteOffsetsKeeps ==
    ASSUME PostIInv, WriteOffsets
    PROVE  PostIInv'
<1>1. call.pc = "offsets_open" /\ call.pc \in Building /\ input \in Versions
  BY DEF WriteOffsets, Building, Closing, PostIInv, PostTypeOK
<1>2. call.seen = input => call.counts = CountsTo(input, PostRows)
  BY <1>1 DEF PostIInv, BuildRight
<1>3. call.seen = input => OffsetsOf(call.counts) = LowTo(input, PostRows)
  BY <1>1, <1>2, StartsAre
<1> QED
  BY <1>1, <1>3, OffsetsKept DEF WriteOffsets

(* A call that ends, or is refused, or is killed. *)
LEMMA ListsAtRest ==
    ASSUME PostIInv, UNCHANGED <<input, lists>>, call'.pc \in {"idle", "refused"}, torn => torn',
           call.pc \in TornPoints => torn'
    PROVE  /\ ListsShape' /\ BuildFiles' /\ BuildRight' /\ ListsReady' /\ SavedRight'
           /\ PostingsGrouped'
<1>1. /\ call'.pc \notin {"count", "place", "flush", "save", "offsets_open", "rename", "check"}
      /\ call'.pc # "manifest" /\ call'.pc \notin Placing /\ call'.pc \notin Closing
      /\ call'.pc \notin Building
  BY DEF Building, Placing, Closing
<1>2. ListsShape'
  BY DEF PostIInv, PostTypeOK, ListsShape, FileShape
<1>3. BuildFiles' /\ BuildRight' /\ ListsReady'
  BY <1>1 DEF BuildFiles, BuildRight, ListsReady
<1>4. SavedRight'
  BY <1>1 DEF PostIInv, SavedRight, HoldsTo, TornPoints
<1>5. PostingsGrouped'
  BY DEF PostIInv, PostingsGrouped
<1> QED
  BY <1>2, <1>3, <1>4, <1>5

LEMMA GraphAtRest ==
    ASSUME PostIInv, UNCHANGED <<input, lists>>, call'.pc \in {"idle", "refused"},
           torn => torn', call.pc \in TornPoints => torn', DOMAIN graph' = DOMAIN graph,
           graph'.grouped = graph.grouped, graph'.indices = graph.indices,
           graph'.distances = graph.distances, graph'.marker = graph.marker,
           graph'.work \in {graph.work, NoWork}
    PROVE  /\ GraphShape' /\ GraphFresh' /\ GraphSeen' /\ GroupedRight'
           /\ OutputsRight' /\ NamesRight' /\ SortRight'
<1>1. /\ call'.pc \notin {"commit", "names", "complete", "marker", "open_second", "sort", "mark"}
      /\ call'.pc \notin {"work", "mark", "distribute"}
      /\ call'.pc \notin Unmarked /\ call'.pc \notin Sorting /\ call'.pc \notin GraphPoints
  BY DEF GraphPoints, Unmarked, Sorting
<1>2. /\ ~NoWork.open /\ NoWork.marked \in BOOLEAN /\ NoWork.open \in BOOLEAN
      /\ DOMAIN NoWork = {"marked", "open", "parts"}
  BY DEF NoWork
<1> HIDE DEF NoWork
<1>3. GraphShape'
  BY <1>2 DEF PostIInv, PostTypeOK, GraphShape, FileShape
<1>4. GraphFresh' /\ GraphSeen' /\ GroupedRight'
  BY <1>1, <1>2 DEF PostIInv, GraphFresh, GraphSeen, GroupedRight
<1>5. OutputsRight'
  BY <1>1 DEF PostIInv, OutputsRight
<1>6. NamesRight'
  BY <1>1, <1>2 DEF PostIInv, NamesRight, Mixed, TornPoints
<1>7. SortRight'
  BY <1>1 DEF SortRight
<1> QED
  BY <1>3, <1>4, <1>5, <1>6, <1>7

LEMMA RestKept ==
    ASSUME PostIInv, UNCHANGED <<input, lists, graph, halts, torn>>, call.pc \notin TornPoints,
           CallShape', call'.pc \in {"idle", "refused"}, PostingWorkResumes'
    PROVE  PostIInv'
<1>1. /\ GraphShape' /\ GraphFresh' /\ GraphSeen' /\ GroupedRight'
      /\ OutputsRight' /\ NamesRight' /\ SortRight'
  BY GraphAtRest
<1>2. /\ ListsShape' /\ BuildFiles' /\ BuildRight' /\ ListsReady' /\ SavedRight'
      /\ PostingsGrouped'
  BY ListsAtRest
<1>3. PostTypeOK'
  BY <1>1, <1>2, InvariantIs DEF PostIInv
<1> QED
  BY <1>1, <1>2, <1>3 DEF PostIInv

LEMMA VerifyKeeps ==
    ASSUME PostIInv, Verify
    PROVE  PostIInv'
<1>1. /\ call.pc = "verify" /\ call.pc \in Building /\ call.pc \in Closing /\ call.pc \in ListPoints
      /\ UNCHANGED <<input, lists, graph, halts, torn>> /\ call.pc \notin TornPoints
      /\ call.pc # "offsets_open" /\ input \in Versions
  BY DEF Verify, Building, Closing, ListPoints, TornPoints, PostIInv, PostTypeOK
<1>2. /\ lists.saved.done = PostRows /\ lists.features.place # "none" /\ lists.ids.place # "none"
      /\ lists.saved # Nothing /\ lists.saved.version = call.seen /\ lists.manifest = Nothing
  BY <1>1 DEF PostIInv, BuildFiles
<1>3. call.seen = input => /\ call.counts = CountsTo(input, PostRows)
                           /\ OffsetsOf(call.counts) = LowTo(input, PostRows)
  <2>1. call.seen = input => call.counts = CountsTo(input, PostRows)
    BY <1>1 DEF PostIInv, BuildRight
  <2> QED
    BY <1>1, <2>1, StartsAre
<1>4. CASE ~Exists(lists.offsets) /\ Go("offsets")
  <2>1. "offsets" \in Closing
    BY DEF Closing
  <2> QED
    BY <1>1, <1>2, <1>3, <1>4, <2>1, FilesStay
<1>5. CASE Exists(lists.offsets) /\ lists.offsets.data = OffsetsOf(call.counts) /\ Go("rename")
  <2>1. "rename" \in Closing /\ lists.offsets.place # "none"
    BY <1>5 DEF Closing, Exists
  <2> QED
    BY <1>1, <1>2, <1>3, <1>5, <2>1, FilesStay
<1>6. CASE Exists(lists.offsets) /\ lists.offsets.data # OffsetsOf(call.counts) /\ call' = Ended("refused")
  <2>1. CallShape' /\ call'.pc = "refused" /\ call'.what = "lists"
    BY <1>1, <1>6, CallEnds DEF PostIInv, PostTypeOK, CallShape
  <2>2. lists.saved.version = input => torn
    BY <1>1, <1>2, <1>3, <1>6 DEF PostIInv, SavedRight, Exists
  <2>3. PostingWorkResumes'
    BY <1>1, <2>1, <2>2 DEF PostingWorkResumes
  <2> QED
    BY <1>1, <2>1, <2>3, RestKept
<1> QED
  BY <1>4, <1>5, <1>6 DEF Verify

LEMMA RenameListKeeps ==
    ASSUME PostIInv, RenameList
    PROVE  PostIInv'
<1> DEFINE f == ListFiles[Min(Unnamed(ListFiles, lists))]
<1>1. /\ call.pc = "rename" /\ call.pc \in Building /\ call.pc \in Closing /\ call.pc \in ListPoints
      /\ UNCHANGED <<input, graph, halts, torn>> /\ call.pc # "offsets_open"
      /\ call.pc \notin {"count", "place", "flush", "save", "check", "manifest"}
  BY DEF RenameList, Building, Closing, ListPoints
<1>2. /\ lists.saved.done = PostRows /\ lists.features.place # "none" /\ lists.ids.place # "none"
      /\ lists.saved # Nothing /\ lists.saved.version = call.seen /\ lists.manifest = Nothing
      /\ lists.offsets.place # "none"
  BY <1>1 DEF PostIInv, BuildFiles
<1>3. call.seen = input => /\ call.counts = CountsTo(input, PostRows)
                           /\ lists.offsets.data = LowTo(input, PostRows)
  BY <1>1 DEF PostIInv, BuildRight
<1>4. CASE Unnamed(ListFiles, lists) = {} /\ Go("check") /\ UNCHANGED lists
  <2>1. \A g \in {"features", "ids", "offsets"} : lists[g].place # "part"
    BY <1>4, ListUnnamed
  <2>2. \A g \in {"features", "ids", "offsets"} : lists[g].place = "final"
    BY <1>2, <2>1 DEF PostIInv, PostTypeOK, ListsShape, FileShape
  <2>3. "check" \in Closing
    BY DEF Closing
  <2> QED
    BY <1>1, <1>2, <1>3, <1>4, <2>2, <2>3, FilesStay
<1>5. CASE /\ Unnamed(ListFiles, lists) # {} /\ UNCHANGED call
           /\ lists' = [lists EXCEPT ![f] = Named(@)]
  <2>1. f \in {"features", "ids", "offsets"}
    BY <1>5, ListUnnamed
  <2> HIDE DEF f
  <2>2. /\ lists'.saved = lists.saved /\ lists'.manifest = lists.manifest /\ DOMAIN lists' = DOMAIN lists
        /\ \A g \in {"features", "ids", "offsets"} :
              /\ FileShape(lists'[g]) /\ lists'[g].place # "none"
              /\ lists'[g].data = lists[g].data
    <3>1. /\ lists'.saved = lists.saved /\ lists'.manifest = lists.manifest
          /\ DOMAIN lists' = DOMAIN lists
          /\ \A g \in {"features", "ids", "offsets"} : lists'[g] \in {lists[g], Named(lists[g])}
      BY <1>5, <2>1 DEF PostIInv, PostTypeOK, ListsShape
    <3>2. \A g \in {"features", "ids", "offsets"} : FileShape(lists[g]) /\ lists[g].place # "none"
      BY <1>2 DEF PostIInv, PostTypeOK, ListsShape
    <3>3. \A g \in {"features", "ids", "offsets"} :
              /\ FileShape(Named(lists[g])) /\ Named(lists[g]).place # "none"
              /\ Named(lists[g]).data = lists[g].data
      BY <3>2 DEF FileShape, Named
    <3> QED
      BY <3>1, <3>2, <3>3
  <2>3. ListsShape'
    BY <1>1, <2>2 DEF PostIInv, PostTypeOK, ListsShape
  <2>4. CallShape'
    BY <1>1, <1>5 DEF PostIInv, PostTypeOK, CallShape, AtRest
  <2>5. BuildFiles'
    BY <1>1, <1>2, <1>5, <2>2 DEF BuildFiles, Placing
  <2>6. BuildRight'
    BY <1>1, <1>3, <1>5, <2>2 DEF BuildRight, Placing
  <2>7. ListsReady'
    BY <1>1, <1>5 DEF ListsReady
  <2>8. SavedRight'
    BY <1>1, <1>2, <2>2 DEF PostIInv, SavedRight, HoldsTo
  <2>9. lists'.manifest = Nothing /\ call'.pc \notin GraphPoints
    BY <1>1, <1>2, <1>5, <2>2 DEF GraphPoints, Unmarked, Sorting
  <2>10. /\ GraphShape' /\ PostingsGrouped' /\ GraphFresh' /\ GraphSeen' /\ GroupedRight'
         /\ OutputsRight' /\ NamesRight' /\ SortRight'
    BY <1>1, <1>2, <2>9, NoGraphYet
  <2>11. PostingWorkResumes'
    BY <1>1, <1>5, NotRefused
  <2>12. PostTypeOK'
    BY <1>1, <2>3, <2>4, <2>10, InvariantIs DEF PostIInv
  <2> QED
    BY <2>5, <2>6, <2>7, <2>8, <2>10, <2>11, <2>12 DEF PostIInv
<1> QED
  BY <1>4, <1>5 DEF RenameList

LEMMA CheckInputKeeps ==
    ASSUME PostIInv, CheckInput
    PROVE  PostIInv'
<1>1. /\ call.pc = "check" /\ call.pc \in Building /\ call.pc \in Closing
      /\ UNCHANGED <<input, lists, graph, halts, torn>> /\ call.pc # "offsets_open"
  BY DEF CheckInput, Building, Closing
<1>2. /\ lists.saved.done = PostRows /\ lists.features.place # "none" /\ lists.ids.place # "none"
      /\ lists.saved # Nothing /\ lists.saved.version = call.seen /\ lists.manifest = Nothing
      /\ \A f \in {"features", "ids", "offsets"} : lists[f].place = "final"
  BY <1>1 DEF PostIInv, BuildFiles
<1>3. CASE call' = Ended("idle")
  BY <1>1, <1>3, FilesStay
<1>4. CASE input = call.seen /\ Go("manifest")
  <2>1. call.counts = CountsTo(input, PostRows) /\ lists.offsets.data = LowTo(input, PostRows)
    BY <1>1, <1>4 DEF PostIInv, BuildRight
  <2>2. HoldsTo(input, PostRows, lists.features.data, lists.ids.data)
    BY <1>2, <1>4 DEF PostIInv, SavedRight
  <2>3. "manifest" \in Closing
    BY DEF Closing
  <2> QED
    BY <1>1, <1>2, <1>4, <2>1, <2>2, <2>3, FilesStay
<1> QED
  BY <1>3, <1>4 DEF CheckInput, Unchanged

LEMMA FinalizeKeeps ==
    ASSUME PostIInv, Finalize
    PROVE  PostIInv'
<1> DEFINE made == [version |-> call.seen, counts |-> call.counts]
<1>1. /\ call.pc = "manifest" /\ call.pc \in Building /\ call.pc \in Closing /\ call.pc \in ListPoints
      /\ "unlink" \in ListPoints
  BY DEF Finalize, Building, Closing, ListPoints
<1>2. /\ UNCHANGED <<input, graph, halts, torn>> /\ Go("unlink")
      /\ lists'.features = lists.features /\ lists'.ids = lists.ids
      /\ lists'.offsets = lists.offsets /\ lists'.saved = lists.saved
      /\ lists'.manifest = made /\ DOMAIN lists' = DOMAIN lists
  BY DEF Finalize, PostIInv, PostTypeOK, ListsShape
<1>3. CallShape' /\ call'.pc = "unlink" /\ call.seen \in 0..input
  <2>1. call.seen \in 0..input
    BY <1>1 DEF PostIInv, PostTypeOK, CallShape, AtRest
  <2> QED
    BY <1>1, <1>2, <2>1, GoesOn DEF PostIInv, PostTypeOK
<1>4. made # Nothing /\ DOMAIN made = {"version", "counts"} /\ made.version = call.seen
  BY DEF Nothing
<1> HIDE DEF made
<1>5. ListsShape'
  BY <1>2, <1>3, <1>4 DEF PostIInv, PostTypeOK, ListsShape, FileShape
<1>6. lists.manifest = Nothing /\ \A f \in {"features", "ids", "offsets"} : lists[f].place = "final"
  BY <1>1 DEF PostIInv, BuildFiles
<1>7. /\ graph.grouped.place = "none" /\ graph.indices.place = "none"
      /\ graph.distances.place = "none" /\ graph.marker = Nothing /\ ~graph.work.open
  BY <1>6 DEF PostIInv, GraphFresh
<1>8. BuildFiles' /\ BuildRight' /\ ListsReady' /\ SavedRight'
  BY <1>2, <1>3, <1>4 DEF BuildFiles, BuildRight, ListsReady, SavedRight, Building, Placing, Closing
<1>9. PostingsGrouped'
  <2>1. /\ HoldsTo(call.seen, PostRows, lists.features.data, lists.ids.data)
        /\ lists.offsets.data = LowTo(call.seen, PostRows)
    BY <1>1 DEF PostIInv, ListsReady
  <2>2. \A f \in Range(ListFiles) : lists'[f].place = "final"
    BY <1>2, <1>6, FileNames
  <2> QED
    BY <1>2, <1>4, <2>1, <2>2 DEF PostingsGrouped, HoldsTo, LowTo, SourceRows
<1>10. GraphShape'
  BY <1>2 DEF PostIInv, PostTypeOK, GraphShape, FileShape
<1>11. GraphFresh' /\ GraphSeen' /\ GroupedRight' /\ OutputsRight'
  BY <1>2, <1>3, <1>4, <1>7 DEF GraphFresh, GraphSeen, GroupedRight, OutputsRight, GraphPoints,
     Unmarked, Sorting
<1>12. NamesRight' /\ SortRight'
  BY <1>2, <1>3, <1>7 DEF NamesRight, SortRight, Unmarked, Sorting
<1>13. PostingWorkResumes'
  BY <1>3, NotRefused
<1>14. PostTypeOK'
  BY <1>2, <1>3, <1>5, <1>10, InvariantIs DEF PostIInv
<1> QED
  BY <1>8, <1>9, <1>11, <1>12, <1>13, <1>14 DEF PostIInv

LEMMA UnlinkKeeps ==
    ASSUME PostIInv, Unlink
    PROVE  PostIInv'
<1>1. call.pc = "unlink" /\ call.pc \notin GraphPoints /\ call.pc \in ListPoints
  BY DEF Unlink, GraphPoints, Unmarked, Sorting, ListPoints
<1>2. /\ UNCHANGED <<input, graph, halts, torn>> /\ call' = Ended("idle")
      /\ lists'.features = lists.features /\ lists'.ids = lists.ids
      /\ lists'.offsets = lists.offsets /\ lists'.saved = Nothing
      /\ lists'.manifest = lists.manifest /\ DOMAIN lists' = DOMAIN lists
  BY DEF Unlink, PostIInv, PostTypeOK, ListsShape
<1>3. CallShape' /\ call'.pc = "idle" /\ call'.pc \notin ListPoints /\ call'.pc \notin GraphPoints
  BY <1>2, CallEnds DEF PostIInv, PostTypeOK
<1>4. ListsShape'
  BY <1>2 DEF PostIInv, PostTypeOK, ListsShape, FileShape
<1>5. BuildFiles' /\ BuildRight' /\ ListsReady' /\ SavedRight'
  BY <1>2, <1>3 DEF BuildFiles, BuildRight, ListsReady, SavedRight, ListPoints, Building, Placing,
     Closing
<1>6. PostingsGrouped'
  <2>1. \A f \in Range(ListFiles) : lists'[f] = lists[f]
    BY <1>2, FileNames
  <2> QED
    BY <1>2, <2>1 DEF PostIInv, PostingsGrouped
<1>7. /\ GraphShape' /\ GraphFresh' /\ GraphSeen' /\ GroupedRight'
      /\ OutputsRight' /\ NamesRight' /\ SortRight'
  BY <1>1, <1>2, <1>3, GraphStays
<1>8. PostingWorkResumes'
  BY <1>3, NotRefused
<1>9. PostTypeOK'
  BY <1>2, <1>3, <1>4, <1>7, InvariantIs DEF PostIInv
<1> QED
  BY <1>5, <1>6, <1>7, <1>8, <1>9 DEF PostIInv

(* The checks of a call that resumes pass. *)
LEMMA StateAccepted ==
    ASSUME PostIInv, lists.manifest = Nothing, lists.saved # Nothing, lists.saved.version = input
    PROVE  ListsAccept(TRUE)
<1>1. lists.saved.done \in 0..PostRows /\ input \in Versions
  BY DEF PostIInv, PostTypeOK, ListsShape
<1>2. /\ lists.saved.counts = CountsTo(input, PostRows)
      /\ lists.saved.next = NextTo(input, lists.saved.done)
      /\ HoldsTo(input, lists.saved.done, lists.features.data, lists.ids.data)
      /\ OnBlock(lists.saved.done)
      /\ lists.features.place # "none" /\ lists.ids.place # "none"
      /\ lists.saved.done # PostRows =>
            /\ lists.features.place = "part" /\ lists.ids.place = "part"
            /\ lists.offsets.place = "none"
  BY DEF PostIInv, SavedRight
<1>3. PositionsFit(lists.saved)
  BY <1>1, <1>2, PositionsRight
<1>4. \A f \in {"features", "ids"} : Exists(lists[f]) /\ Whole(f, lists[f].data)
  BY <1>2 DEF Exists, Whole, HoldsTo
<1>5. lists.saved.done # PostRows => InParts /\ ~Exists(lists.offsets)
  BY <1>2, <1>4 DEF InParts, Exists
<1> QED
  BY <1>3, <1>4, <1>5 DEF ListsAccept, StateFits

LEMMA RestPoints ==
    ASSUME AtRest
    PROVE  /\ call.pc \in {"idle", "refused"} /\ call.pc \notin ListPoints
           /\ call.pc \notin GraphPoints /\ call.pc \notin Building /\ call.pc \notin TornPoints
BY DEF AtRest, ListPoints, GraphPoints, Building, Placing, Closing, Unmarked, Sorting, TornPoints

LEMMA CallListsKeeps ==
    ASSUME PostIInv, NEW resume \in BOOLEAN, CallLists(resume)
    PROVE  PostIInv'
<1>1. /\ AtRest /\ UNCHANGED <<input, lists, graph, halts, torn>> /\ input \in Versions
      /\ input \in Nat /\ input \in 0..input
  BY InputIs DEF CallLists, PostIInv, PostTypeOK
<1>2. /\ call.pc \notin ListPoints /\ call.pc \notin GraphPoints /\ call.pc \notin Building
      /\ call.pc \notin TornPoints
  BY <1>1, RestPoints
<1>3. CASE /\ ~ListsAccept(resume)
           /\ call' = [pc |-> "refused", what |-> "lists", resume |-> resume]
  <2>1. /\ call'.pc = "refused" /\ call'.what = "lists" /\ call'.resume = resume
        /\ DOMAIN call' = {"pc", "what", "resume"}
    BY <1>3
  <2>2. CallShape'
    BY <2>1 DEF CallShape, AtRest, ListPoints, GraphPoints, Building, Placing, Closing, Unmarked, Sorting
  <2>3. PostingWorkResumes'
    <3>1. resume => lists.manifest # Nothing \/ lists.saved = Nothing \/ lists.saved.version # input
      BY <1>3, StateAccepted
    <3> QED
      BY <1>1, <2>1, <3>1 DEF PostingWorkResumes
  <2> QED
    BY <1>1, <1>2, <2>1, <2>2, <2>3, RestKept
<1>4. CASE ListsAccept(resume)
  <2>0. /\ lists.manifest = Nothing
        /\ resume => lists.saved # Nothing /\ lists.saved.version = input
        /\ ~resume => lists.saved = Nothing /\ lists.offsets.place = "none"
    BY <1>4, FileNames DEF ListsAccept, StateFits, Exists
  <2>1. /\ DOMAIN call' = {"pc", "what", "resume", "seen", "done", "counts", "next", "stream"}
        /\ call'.what = "lists" /\ call'.resume = resume /\ call'.seen = input
        /\ call'.stream = Streams
        /\ ~resume => /\ call'.pc = "count" /\ call'.done = 0
                      /\ call'.counts = [l \in Lists |-> 0]
        /\ resume => /\ call'.pc = (IF lists.saved.done = PostRows THEN "verify" ELSE "place")
                     /\ call'.done = lists.saved.done
                     /\ call'.counts = lists.saved.counts /\ call'.next = lists.saved.next
    <3>1. CASE resume
      BY <1>4, <3>1 DEF CallLists, ResumedBuild, FreshBuild
    <3>2. CASE ~resume
      BY <1>4, <3>2 DEF CallLists, FreshBuild
    <3> QED
      BY <3>1, <3>2
  <2>2. /\ lists.saved # Nothing => lists.saved.done \in 0..PostRows
        /\ DOMAIN Streams = {"features", "ids"} /\ Streams.features = lists.features.data
        /\ Streams.ids = lists.ids.data
    BY DEF PostIInv, PostTypeOK, ListsShape, Streams
  <2>3. CallShape'
    <3>1. call'.pc \in ListPoints /\ call'.pc \notin GraphPoints /\ call'.pc \notin {"idle", "refused"}
      BY <2>1 DEF ListPoints, GraphPoints, Building, Placing, Closing, Unmarked, Sorting
    <3>2. call'.done \in 0..PostRows
      BY <2>0, <2>1, <2>2, Sizes
    <3> HIDE DEF Streams
    <3> QED
      BY <1>1, <2>1, <2>2, <3>1, <3>2 DEF CallShape, AtRest
  <2> HIDE DEF Streams
  <2>4. resume =>
          /\ lists.saved.counts = CountsTo(input, PostRows)
          /\ lists.saved.next = NextTo(input, lists.saved.done)
          /\ HoldsTo(input, lists.saved.done, lists.features.data, lists.ids.data)
          /\ OnBlock(lists.saved.done)
          /\ lists.features.place # "none" /\ lists.ids.place # "none"
          /\ lists.saved.done # PostRows =>
                /\ lists.features.place = "part" /\ lists.ids.place = "part"
                /\ lists.offsets.place = "none"
    BY <2>0 DEF PostIInv, SavedRight
  <2>5. BuildFiles'
    BY <1>1, <2>0, <2>1, <2>2, <2>4 DEF BuildFiles, Building, Placing, Closing
  <2>6. BuildRight'
    BY <1>1, <2>0, <2>1, <2>2, <2>4, NoneCounted DEF BuildRight, Building, Placing, Closing
  <2>7. call'.pc \in {"count", "verify", "place"}
    BY <2>1
  <2>8. ListsReady'
    BY <2>7 DEF ListsReady
  <2>9. SavedRight'
    <3>1. call.pc # "offsets_open"
      BY <1>2 DEF TornPoints
    <3> QED
      BY <1>1, <3>1 DEF PostIInv, SavedRight, HoldsTo
  <2>10. call'.pc \notin GraphPoints
    BY <2>7 DEF GraphPoints, Unmarked, Sorting
  <2>11. /\ GraphShape' /\ PostingsGrouped' /\ GraphFresh' /\ GraphSeen' /\ GroupedRight'
         /\ OutputsRight' /\ NamesRight' /\ SortRight'
    BY <1>1, <2>0, <2>10, NoGraphYet
  <2>12. PostingWorkResumes'
    BY <2>7, NotRefused
  <2>13. ListsShape'
    BY <1>1 DEF PostIInv, PostTypeOK, ListsShape, FileShape
  <2>14. PostTypeOK'
    BY <1>1, <2>3, <2>11, <2>13, InvariantIs DEF PostIInv
  <2> QED
    BY <2>5, <2>6, <2>8, <2>9, <2>11, <2>12, <2>14 DEF PostIInv
<1> QED
  BY <1>3, <1>4 DEF CallLists

-----------------------------------------------------------------------------
(* The steps of a call for a graph.                                        *)

LEMMA CallGraphKeeps ==
    ASSUME PostIInv, NEW resume \in BOOLEAN, CallGraph(resume)
    PROVE  PostIInv'
<1>1. /\ AtRest /\ UNCHANGED <<input, lists, graph, halts, torn>> /\ lists.manifest # Nothing
      /\ input \in Versions /\ input \in Nat /\ input \in 0..input
  BY InputIs DEF CallGraph, PostIInv, PostTypeOK
<1>2. /\ call.pc \notin ListPoints /\ call.pc \notin GraphPoints /\ call.pc \notin Building
      /\ call.pc \notin TornPoints
  BY <1>1, RestPoints
<1>3. /\ lists.manifest.version \in 0..input /\ lists.manifest.version \in Nat
      /\ graph.marker # Nothing => graph.marker.version \in Nat /\ graph.marker.version <= input
  BY <1>1, InputIs DEF PostIInv, PostTypeOK, ListsShape, GraphShape
<1>4. CASE /\ ~GraphAccepts(resume)
           /\ call' = [pc |-> "refused", what |-> "graph", resume |-> resume]
  <2>1. /\ call'.pc = "refused" /\ call'.what = "graph" /\ call'.resume = resume
        /\ DOMAIN call' = {"pc", "what", "resume"}
    BY <1>4
  <2>2. CallShape'
    BY <2>1 DEF CallShape, AtRest, ListPoints, GraphPoints, Building, Placing, Closing, Unmarked, Sorting
  <2>3. ASSUME resume, lists.manifest.version = input PROVE torn
    <3>1. graph.marker # Nothing => graph.marker.version = input
      BY <1>1, <1>3, <2>3 DEF PostIInv, GraphSeen
    <3>2. ~(Mixed \/ graph.indices.place = graph.distances.place)
      BY <1>4, <2>3, <3>1 DEF GraphAccepts, OutputsFit
    <3> QED
      BY <1>2, <3>2 DEF PostIInv, NamesRight, TornPoints
  <2>4. PostingWorkResumes'
    BY <1>1, <2>1, <2>3 DEF PostingWorkResumes
  <2> QED
    BY <1>1, <1>2, <2>1, <2>2, <2>4, RestKept
<1>5. CASE /\ GraphAccepts(resume)
           /\ call' = [pc |-> IF Complete THEN "cleanup"
                              ELSE IF Exists(graph.grouped) THEN "commit" ELSE "search",
                       what |-> "graph", resume |-> resume, seen |-> input]
  <2>1. /\ call'.pc \in {"cleanup", "commit", "search"} /\ call'.what = "graph"
        /\ call'.resume = resume /\ call'.seen = input
        /\ DOMAIN call' = {"pc", "what", "resume", "seen"}
        /\ call'.pc = "commit" => graph.grouped.place # "none"
    BY <1>5 DEF Exists
  <2>2. /\ call'.pc \in GraphPoints /\ call'.pc \notin Unmarked /\ call'.pc \notin Building
        /\ call'.pc \notin Sorting /\ call'.pc \notin ListPoints
    BY <2>1 DEF GraphPoints, Unmarked, Sorting, Building, Placing, Closing, ListPoints
  <2>3. CallShape'
    BY <1>1, <2>1, <2>2 DEF CallShape, AtRest
  <2>4. /\ ListsShape' /\ BuildFiles' /\ BuildRight' /\ ListsReady' /\ SavedRight'
        /\ PostingsGrouped'
    BY <1>1, <1>2, <2>2, ListsStay
  <2>5. GraphShape' /\ GraphFresh'
    BY <1>1 DEF PostIInv, PostTypeOK, GraphShape, FileShape, GraphFresh
  <2>6. GraphSeen' /\ GroupedRight' /\ OutputsRight'
    <3>1. lists.manifest.version <= input
      BY <1>1, <1>3
    <3> QED
      BY <1>1, <2>1, <3>1 DEF PostIInv, GraphSeen, GroupedRight, OutputsRight
  <2>7. NamesRight'
    BY <1>1, <1>2, <2>1, <2>2 DEF PostIInv, NamesRight, Mixed, TornPoints
  <2>8. SortRight'
    BY <2>2 DEF SortRight
  <2>9. PostingWorkResumes'
    BY <2>1, NotRefused
  <2>10. PostTypeOK'
    BY <1>1, <2>3, <2>4, <2>5, InvariantIs DEF PostIInv
  <2> QED
    BY <2>4, <2>5, <2>6, <2>7, <2>8, <2>9, <2>10 DEF PostIInv
<1> QED
  BY <1>4, <1>5 DEF CallGraph

(* What such a call can count on. *)
LEMMA GraphCalled ==
    ASSUME PostIInv, call.pc \in GraphPoints
    PROVE  /\ lists.manifest # Nothing /\ lists.manifest.version \in Versions
           /\ lists.manifest.version \in 0..input /\ lists.manifest.version <= input
           /\ HoldsTo(lists.manifest.version, PostRows, lists.features.data, lists.ids.data)
           /\ lists.offsets.data = LowTo(lists.manifest.version, PostRows)
           /\ call.pc \notin Building /\ call.pc \notin ListPoints /\ call.pc # "refused"
           /\ call.what = "graph" /\ call.seen \in 0..input
           /\ call.pc \notin {"offsets_open", "idle"}
<1>1. /\ call.pc \notin Building /\ call.pc \notin ListPoints /\ call.pc \notin {"idle", "refused"}
      /\ call.pc # "offsets_open"
  BY DEF GraphPoints, Unmarked, Sorting, Building, Placing, Closing, ListPoints
<1>2. lists.manifest # Nothing
  BY DEF PostIInv, GraphFresh
<1>3. lists.manifest.version \in 0..input /\ call.what = "graph" /\ call.seen \in 0..input
  BY <1>1, <1>2 DEF PostIInv, PostTypeOK, ListsShape, CallShape, AtRest
<1>4. lists.manifest.version \in Versions /\ lists.manifest.version <= input
  BY <1>3, InputIs DEF PostIInv
<1>5. HoldsTo(lists.manifest.version, PostRows, lists.features.data, lists.ids.data)
  BY <1>2 DEF PostIInv, PostingsGrouped, HoldsTo, SourceRows
<1>6. lists.offsets.data = LowTo(lists.manifest.version, PostRows)
  BY <1>2 DEF PostIInv, PostingsGrouped, LowTo, SourceRows
<1> QED
  BY <1>1, <1>2, <1>3, <1>4, <1>5, <1>6

(* A step of it leaves the lists alone. *)
LEMMA GraphStep ==
    ASSUME PostIInv, UNCHANGED <<input, lists, halts, torn>>, call.pc \in GraphPoints,
           call'.pc \in GraphPoints, CallShape', GraphShape', GraphSeen', GroupedRight',
           OutputsRight', NamesRight', SortRight'
    PROVE  PostIInv'
<1>1. call'.pc \notin Building /\ call'.pc # "refused"
  BY DEF GraphPoints, Unmarked, Sorting, Building, Placing, Closing
<1>2. /\ ListsShape' /\ BuildFiles' /\ BuildRight' /\ ListsReady' /\ SavedRight'
      /\ PostingsGrouped'
  BY <1>1, GraphCalled, ListsStay
<1>3. GraphFresh' /\ PostingWorkResumes'
  BY <1>1, GraphCalled, NotRefused DEF GraphFresh
<1>4. PostTypeOK'
  BY <1>2, InvariantIs DEF PostIInv
<1> QED
  BY <1>2, <1>3, <1>4 DEF PostIInv

LEMMA SearchKeeps ==
    ASSUME PostIInv, Search
    PROVE  PostIInv'
<1>1. /\ call.pc = "search" /\ call.pc \in GraphPoints /\ "commit" \in GraphPoints
      /\ call.pc \notin TornPoints /\ UNCHANGED <<input, lists, halts, torn>>
  BY DEF Search, GraphPoints, TornPoints
<1>2. CASE call' = Ended("idle") /\ UNCHANGED graph
  BY <1>1, <1>2, CallEnds, RestKept, NotRefused DEF PostIInv, PostTypeOK
<1>3. CASE /\ Go("commit")
           /\ graph' = [graph EXCEPT !.grouped = Named(Part([p \in Positions |-> Answer(p)]))]
  <2> DEFINE answers == [p \in Positions |-> Answer(p)]
  <2>1. answers = [p \in Positions |-> NearOf(lists.manifest.version, lists.ids.data[p])]
    <3>1. \A p \in Positions : Answer(p) = NearOf(lists.manifest.version, lists.ids.data[p])
      BY <1>1, GraphCalled, AnswerIs
    <3> QED
      BY <3>1
  <2>2. graph' = [graph EXCEPT !.grouped = Named(Part(answers))]
    BY <1>3
  <2> HIDE DEF answers
  <2>3. /\ Named(Part(answers)).place = "final" /\ Named(Part(answers)).data = answers
        /\ FileShape(Named(Part(answers)))
    BY DEF Named, Part, FileShape
  <2>4. /\ graph'.grouped = Named(Part(answers)) /\ graph'.indices = graph.indices
        /\ graph'.distances = graph.distances /\ graph'.marker = graph.marker
        /\ graph'.work = graph.work /\ DOMAIN graph' = DOMAIN graph
    BY <2>2 DEF PostIInv, PostTypeOK, GraphShape
  <2>5. CallShape' /\ call'.pc = "commit" /\ call'.seen = call.seen
    BY <1>1, <1>3, GoesOn DEF PostIInv, PostTypeOK
  <2>6. GraphShape'
    BY <1>1, <2>3, <2>4 DEF PostIInv, PostTypeOK, GraphShape, FileShape
  <2>7. GraphSeen' /\ GroupedRight' /\ OutputsRight'
    BY <1>1, <2>1, <2>3, <2>4, <2>5 DEF PostIInv, GraphSeen, GroupedRight, OutputsRight
  <2>8. NamesRight' /\ SortRight'
    BY <1>1, <2>4, <2>5 DEF PostIInv, NamesRight, SortRight, Mixed, Unmarked, Sorting
  <2> QED
    BY <1>1, <2>5, <2>6, <2>7, <2>8, GraphStep
<1> QED
  BY <1>2, <1>3 DEF Search

LEMMA CommitKeeps ==
    ASSUME PostIInv, Commit
    PROVE  PostIInv'
<1>1. /\ call.pc = "commit" /\ call.pc \in GraphPoints /\ call.pc \notin Unmarked
      /\ call.pc \notin Sorting
      /\ call.pc \notin TornPoints /\ UNCHANGED <<input, lists, halts, torn>>
  BY DEF Commit, GraphPoints, TornPoints, Unmarked, Sorting
<1>2. /\ lists.manifest.version \in 0..input /\ lists.manifest.version <= input
      /\ call.what = "graph" /\ input \in 0..input
  BY <1>1, GraphCalled, InputIs DEF PostIInv
<1>3. CASE Mixed /\ graph.marker = Nothing
  BY <1>3 DEF PostIInv, NamesRight, Mixed
<1>4. CASE /\ Mixed /\ graph.marker # Nothing /\ UNCHANGED call
           /\ graph' = [f \in DOMAIN graph |->
                  IF f \in Range(GraphFiles) THEN Part(graph[f].data) ELSE graph[f]]
  <2>1. /\ graph'.grouped = graph.grouped /\ graph'.indices = Part(graph.indices.data)
        /\ graph'.distances = Part(graph.distances.data) /\ graph'.marker = graph.marker
        /\ graph'.work = graph.work /\ DOMAIN graph' = DOMAIN graph
    BY <1>4, FileNames DEF PostIInv, PostTypeOK, GraphShape
  <2>2. \A data : /\ Part(data).place = "part" /\ Part(data).data = data
                  /\ FileShape(Part(data))
    BY DEF Part, FileShape
  <2>3. CallShape' /\ GraphShape'
    BY <1>1, <1>4, <2>1, <2>2 DEF PostIInv, PostTypeOK, CallShape, GraphShape, FileShape, AtRest
  <2>4. GraphSeen' /\ GroupedRight' /\ OutputsRight'
    BY <1>1, <1>4, <2>1, <2>2 DEF PostIInv, GraphSeen, GroupedRight, OutputsRight
  <2>5. NamesRight'
    BY <1>1, <1>4, <2>1, <2>2 DEF PostIInv, NamesRight
  <2>6. SortRight'
    BY <1>1, <1>4 DEF SortRight
  <2> QED
    BY <1>1, <1>4, <2>3, <2>4, <2>5, <2>6, GraphStep
<1>5. CASE /\ ~Mixed /\ UNCHANGED graph
           /\ call' = [call EXCEPT !.seen = input,
                            !.pc = IF Finished THEN "complete"
                                   ELSE IF graph.marker # Nothing THEN "names" ELSE "work"]
  <2>1. /\ DOMAIN call' = DOMAIN call /\ call'.what = call.what /\ call'.resume = call.resume
        /\ call'.seen = input
        /\ call'.pc = IF Finished THEN "complete"
                      ELSE IF graph.marker # Nothing THEN "names" ELSE "work"
    BY <1>1, <1>5 DEF PostIInv, PostTypeOK, CallShape
  <2>2. /\ call'.pc \in {"complete", "names", "work"}
        /\ call'.pc \in {"complete", "names"} => graph.marker # Nothing
        /\ call'.pc = "work" => graph.marker = Nothing
    <3>1. Finished => graph.marker # Nothing
      BY FileNames DEF PostIInv, NamesRight, Finished
    <3> QED
      BY <2>1, <3>1
  <2>3. /\ call'.pc \in GraphPoints /\ call'.pc \notin Sorting /\ call'.pc \notin ListPoints
        /\ call'.pc \notin {"idle", "refused"} /\ call'.pc \in Unmarked => call'.pc = "work"
    BY <2>2 DEF GraphPoints, Unmarked, Sorting, Building, Placing, Closing, ListPoints
  <2>4. CallShape' /\ GraphShape'
    BY <1>1, <1>2, <1>5, <2>1, <2>3 DEF PostIInv, PostTypeOK, CallShape, GraphShape, FileShape, AtRest
  <2>5. GraphSeen' /\ GroupedRight'
    BY <1>1, <1>2, <1>5, <2>1, <2>2 DEF PostIInv, GraphSeen, GroupedRight
  <2>6. OutputsRight'
    BY <1>1, <1>5, <2>2 DEF PostIInv, OutputsRight
  <2>7. NamesRight' /\ SortRight'
    BY <1>1, <1>5, <2>2, <2>3 DEF PostIInv, NamesRight, SortRight, Mixed
  <2> QED
    BY <1>1, <1>5, <2>3, <2>4, <2>5, <2>6, <2>7, GraphStep
<1> QED
  BY <1>3, <1>4, <1>5 DEF Commit

(* A work directory as this step leaves it. *)
LEMMA WorkKept ==
    ASSUME PostIInv, call.pc \in {"work", "mark", "distribute"}, UNCHANGED <<input, lists, halts, torn>>,
           NEW p \in {"mark", "distribute", "open"}, Go(p), NEW work,
           graph' = [graph EXCEPT !.work = work], DOMAIN work = {"marked", "open", "parts"},
           work.marked \in BOOLEAN, work.open \in BOOLEAN,
           work.open /\ ~work.marked => torn \/ p = "mark",
           p = "open" => /\ work.parts \in Seq(RightParts(lists.manifest.version))
                         /\ AllFilled(work.parts) => Chain(work.parts, 0, PostRows)
    PROVE  PostIInv'
<1>1. /\ call.pc \in GraphPoints /\ p \in GraphPoints /\ call.pc \in Unmarked /\ p \in Unmarked
  BY DEF GraphPoints, Unmarked, Sorting
<1>2. CallShape' /\ call'.pc = p /\ call'.seen = call.seen
  BY <1>1, GoesOn DEF PostIInv, PostTypeOK
<1>3. /\ graph'.grouped = graph.grouped /\ graph'.indices = graph.indices
      /\ graph'.distances = graph.distances /\ graph'.marker = graph.marker
      /\ graph'.work = work /\ DOMAIN graph' = DOMAIN graph
  BY DEF PostIInv, PostTypeOK, GraphShape
<1>4. GraphShape'
  BY <1>3 DEF PostIInv, PostTypeOK, GraphShape, FileShape
<1>5. GraphSeen' /\ GroupedRight' /\ OutputsRight'
  BY <1>1, <1>2, <1>3 DEF PostIInv, GraphSeen, GroupedRight, OutputsRight
<1>6. NamesRight'
  BY <1>1, <1>2, <1>3 DEF PostIInv, NamesRight, Mixed
<1>7. SortRight'
  BY <1>2, <1>3 DEF SortRight, Sorting
<1> QED
  BY <1>1, <1>2, <1>4, <1>5, <1>6, <1>7, GraphStep

LEMMA OpenWorkKeeps ==
    ASSUME PostIInv, OpenWork
    PROVE  PostIInv'
<1>1. /\ call.pc = "work" /\ call.pc \in GraphPoints /\ call.pc \notin TornPoints
      /\ UNCHANGED <<input, lists, halts, torn>>
  BY DEF OpenWork, GraphPoints, Unmarked, TornPoints
<1>2. CASE /\ graph.work.open /\ ~(call.resume /\ graph.work.marked)
           /\ call' = Ended("refused") /\ UNCHANGED graph
  <2>1. /\ CallShape' /\ call'.pc = "refused" /\ call'.what = "graph" /\ call'.resume = call.resume
    BY <1>1, <1>2, CallEnds, GraphCalled DEF PostIInv, PostTypeOK
  <2>2. call.resume => torn
    BY <1>1, <1>2 DEF PostIInv, NamesRight, PostTypeOK, GraphShape
  <2>3. PostingWorkResumes'
    BY <1>1, <2>1, <2>2 DEF PostingWorkResumes
  <2> QED
    BY <1>1, <1>2, <2>1, <2>3, RestKept
<1>3. CASE Go("mark") /\ graph' = [graph EXCEPT !.work = [NoWork EXCEPT !.open = TRUE]]
  <2> DEFINE work == [NoWork EXCEPT !.open = TRUE]
  <2>1. /\ DOMAIN work = {"marked", "open", "parts"} /\ work.marked \in BOOLEAN
        /\ work.open \in BOOLEAN
    BY DEF NoWork
  <2>2. graph' = [graph EXCEPT !.work = work]
    BY <1>3
  <2> HIDE DEF work
  <2> QED
    BY <1>1, <1>3, <2>1, <2>2, WorkKept
<1> QED
  BY <1>2, <1>3 DEF OpenWork

LEMMA MarkWorkKeeps ==
    ASSUME PostIInv, MarkWork
    PROVE  PostIInv'
<1> DEFINE work == [graph.work EXCEPT !.marked = TRUE]
<1>1. /\ call.pc = "mark" /\ UNCHANGED <<input, lists, halts, torn>> /\ Go("distribute")
      /\ graph' = [graph EXCEPT !.work = work]
  BY DEF MarkWork, PostIInv, PostTypeOK, GraphShape
<1>2. /\ DOMAIN work = {"marked", "open", "parts"} /\ work.marked /\ work.marked \in BOOLEAN
      /\ work.open \in BOOLEAN
  BY DEF PostIInv, PostTypeOK, GraphShape
<1> HIDE DEF work
<1> QED
  BY <1>1, <1>2, WorkKept

LEMMA DistributeKeeps ==
    ASSUME PostIInv, Distribute
    PROVE  PostIInv'
<1> DEFINE v == lists.manifest.version
           records == {Record(p) : p \in Positions}
           pieces == Pieces(0, PostRows, records)
           work == [graph.work EXCEPT !.parts = pieces]
<1>1. /\ call.pc = "distribute" /\ UNCHANGED <<input, lists, halts, torn>> /\ Go("open")
      /\ graph' = [graph EXCEPT !.work = work] /\ call.pc \in GraphPoints
  BY DEF Distribute, PostIInv, PostTypeOK, GraphShape, GraphPoints, Unmarked
<1>2. records \in SUBSET RightRecords(v) /\ \A x \in records : x.row \in SourceRows
  <2> SUFFICES ASSUME NEW p \in Positions
               PROVE  Record(p) \in RightRecords(v) /\ Record(p).row \in SourceRows
    OBVIOUS
  <2>1. lists.ids.data[p] \in SourceRows
    BY <1>1, GraphCalled, RowAtPosition
  <2>2. graph.grouped.data = [q \in Positions |-> NearOf(v, lists.ids.data[q])]
    BY <1>1 DEF PostIInv, GroupedRight
  <2>3. Record(p) = [at |-> p, row |-> lists.ids.data[p], near |-> NearOf(v, lists.ids.data[p])]
    BY <2>2 DEF Record
  <2> QED
    BY <2>1, <2>3 DEF RightRecords
<1>3. /\ PostRows \in Nat \ {0} /\ 0 \in Nat /\ 0 + PostRows = PostRows
      /\ SourceRows = 0 + 1..0 + PostRows
  BY Sizes DEF SourceRows
<1>4. /\ pieces \in Seq(RightParts(v))
      /\ AllFilled(pieces) => Chain(pieces, 0, PostRows)
  <2> HIDE DEF records, v
  <2>1. \A x \in records : x.row \in 0 + 1..0 + PostRows
    BY <1>2, <1>3
  <2>2. /\ pieces \in Seq(RightParts(v))
        /\ AllFilled(pieces) => Chain(pieces, 0, 0 + PostRows)
    BY <1>2, <1>3, <2>1, PiecesRight
  <2> QED
    BY <1>3, <2>2
<1> HIDE DEF pieces, records
<1>5. /\ DOMAIN work = {"marked", "open", "parts"} /\ work.marked \in BOOLEAN
      /\ work.open \in BOOLEAN /\ work.parts = pieces /\ work.marked = graph.work.marked
      /\ work.open = graph.work.open
  BY DEF PostIInv, PostTypeOK, GraphShape
<1>6. work.open /\ ~work.marked => torn
  BY <1>1, <1>5 DEF PostIInv, NamesRight
<1> HIDE DEF work
<1> QED
  BY <1>1, <1>4, <1>5, <1>6, WorkKept

LEMMA OpenOutputKeeps ==
    ASSUME PostIInv, OpenOutput
    PROVE  PostIInv'
<1>1. /\ call.pc \in {"open", "open_second"} /\ call.pc \in GraphPoints /\ call.pc \in Unmarked
      /\ call.pc \in Sorting /\ UNCHANGED <<input, lists, halts, torn>>
      /\ "open_second" \in GraphPoints /\ "sort" \in GraphPoints
      /\ "open_second" \in Unmarked /\ "sort" \in Unmarked
      /\ "open_second" \in Sorting /\ "sort" \in Sorting
  BY DEF OpenOutput, GraphPoints, Unmarked, Sorting
<1>2. /\ Part(<<>>).place = "part" /\ Part(<<>>).data = <<>> /\ FileShape(Part(<<>>))
  BY DEF Part, FileShape
<1>3. /\ graph.marker = Nothing /\ graph.indices.place # "final" /\ graph.distances.place # "final"
      /\ graph.work.open /\ ~graph.work.marked => torn
  BY <1>1 DEF PostIInv, NamesRight
<1>4. /\ graph.work.parts \in Seq(RightParts(lists.manifest.version))
      /\ AllFilled(graph.work.parts) => Chain(graph.work.parts, 0, PostRows)
      /\ call.pc = "open_second" => graph.indices.data = <<>>
  BY <1>1 DEF PostIInv, SortRight
<1>5. CASE call.pc = "open" /\ Go("open_second") /\ graph' = [graph EXCEPT !.indices = Part(<<>>)]
  <2>1. CallShape' /\ call'.pc = "open_second" /\ call'.seen = call.seen
    BY <1>1, <1>5, GoesOn DEF PostIInv, PostTypeOK
  <2>2. /\ graph'.grouped = graph.grouped /\ graph'.indices = Part(<<>>)
        /\ graph'.distances = graph.distances /\ graph'.marker = graph.marker
        /\ graph'.work = graph.work /\ DOMAIN graph' = DOMAIN graph
    BY <1>5 DEF PostIInv, PostTypeOK, GraphShape
  <2>3. GraphShape'
    BY <1>1, <1>2, <2>2 DEF PostIInv, PostTypeOK, GraphShape, FileShape
  <2>4. GraphSeen' /\ GroupedRight' /\ OutputsRight'
    BY <1>1, <1>3, <2>1, <2>2 DEF PostIInv, GraphSeen, GroupedRight, OutputsRight
  <2>5. NamesRight'
    BY <1>1, <1>2, <1>3, <2>1, <2>2 DEF PostIInv, NamesRight
  <2>6. SortRight'
    BY <1>1, <1>2, <1>4, <2>1, <2>2 DEF SortRight
  <2> QED
    BY <1>1, <2>1, <2>3, <2>4, <2>5, <2>6, GraphStep
<1>6. CASE call.pc = "open_second" /\ Go("sort") /\ graph' = [graph EXCEPT !.distances = Part(<<>>)]
  <2>1. CallShape' /\ call'.pc = "sort" /\ call'.seen = call.seen
    BY <1>1, <1>6, GoesOn DEF PostIInv, PostTypeOK
  <2>2. /\ graph'.grouped = graph.grouped /\ graph'.indices = graph.indices
        /\ graph'.distances = Part(<<>>) /\ graph'.marker = graph.marker
        /\ graph'.work = graph.work /\ DOMAIN graph' = DOMAIN graph
    BY <1>6 DEF PostIInv, PostTypeOK, GraphShape
  <2>3. GraphShape'
    BY <1>1, <1>2, <2>2 DEF PostIInv, PostTypeOK, GraphShape, FileShape
  <2>4. GraphSeen' /\ GroupedRight' /\ OutputsRight'
    BY <1>1, <1>3, <2>1, <2>2 DEF PostIInv, GraphSeen, GroupedRight, OutputsRight
  <2>5. graph.indices.place = "part"
    BY <1>6 DEF PostIInv, NamesRight
  <2>6. NamesRight'
    BY <1>1, <1>2, <1>3, <2>1, <2>2, <2>5 DEF NamesRight
  <2>7. IdsTo(lists.manifest.version, 0) = <<>> /\ FarsTo(lists.manifest.version, 0) = <<>>
    BY DEF IdsTo, FarsTo
  <2>8. SortRight'
    BY <1>1, <1>2, <1>4, <1>6, <2>1, <2>2, <2>7 DEF SortRight
  <2> QED
    BY <1>1, <2>1, <2>3, <2>4, <2>6, <2>8, GraphStep
<1> QED
  BY <1>5, <1>6 DEF OpenOutput

(* The sort takes a partition off, or puts its pieces in its place. *)
SortsTo(parts, ids, fars) ==
    /\ graph'.grouped = graph.grouped /\ graph'.marker = graph.marker
    /\ DOMAIN graph' = DOMAIN graph /\ DOMAIN graph'.work = DOMAIN graph.work
    /\ graph'.indices.place = graph.indices.place /\ graph'.indices.data = ids
    /\ graph'.distances.place = graph.distances.place /\ graph'.distances.data = fars
    /\ FileShape(graph'.indices) /\ FileShape(graph'.distances)
    /\ graph'.work.parts = parts /\ graph'.work.open = graph.work.open
    /\ graph'.work.marked = graph.work.marked

LEMMA SortStep ==
    ASSUME PostIInv, call.pc = "sort", UNCHANGED <<input, call, lists, halts, torn>>,
           NEW parts, NEW ids, NEW fars,
           SortsTo(parts, ids, fars),
           parts \in Seq(RightParts(lists.manifest.version)),
           AllFilled(parts) => \E n \in Nat :
              /\ Chain(parts, n, PostRows)
              /\ ids = IdsTo(lists.manifest.version, n) /\ fars = FarsTo(lists.manifest.version, n)
    PROVE  PostIInv'
<1>1. call.pc \in GraphPoints /\ call.pc \in Unmarked /\ call.pc \in Sorting
  BY DEF GraphPoints, Unmarked, Sorting
<1>4. CallShape' /\ GraphShape'
  BY DEF PostIInv, PostTypeOK, CallShape, GraphShape, FileShape, AtRest, SortsTo
<1>5. graph.marker = Nothing
  BY <1>1 DEF PostIInv, NamesRight
<1>6. GraphSeen' /\ GroupedRight' /\ OutputsRight'
  BY <1>5 DEF PostIInv, GraphSeen, GroupedRight, OutputsRight, SortsTo
<1>7. NamesRight'
  BY <1>1 DEF PostIInv, NamesRight, Mixed, SortsTo
<1>8. SortRight'
  BY DEF SortRight, SortsTo
<1> QED
  BY <1>1, <1>4, <1>6, <1>7, <1>8, GraphStep

LEMMA SortPartKeeps ==
    ASSUME PostIInv, SortPart
    PROVE  PostIInv'
<1> DEFINE v == lists.manifest.version
           part == Head(graph.work.parts)
           rest == Tail(graph.work.parts)
           ids == [i \in 1..part.rows |-> [k \in 1..Near |-> Sorted(part)[i].near[k].id]]
           fars == [i \in 1..part.rows |-> [k \in 1..Near |-> Sorted(part)[i].near[k].far]]
           pieces == Pieces(part.first, part.rows, part.records)
<1>1. /\ call.pc = "sort" /\ call.pc \in GraphPoints /\ call.pc \in Sorting /\ call.pc # "mark"
      /\ call.pc # "open_second" /\ graph.work.parts # <<>> /\ UNCHANGED <<input, lists, halts, torn>>
  BY DEF SortPart, GraphPoints, Unmarked, Sorting
<1>2. /\ graph.work.parts \in Seq(RightParts(v))
      /\ AllFilled(graph.work.parts) => \E n \in Nat :
            /\ Chain(graph.work.parts, n, PostRows)
            /\ graph.indices.data = IdsTo(v, n) /\ graph.distances.data = FarsTo(v, n)
  BY <1>1 DEF PostIInv, SortRight
<1>3. part \in RightParts(v) /\ rest \in Seq(RightParts(v))
  <2> DEFINE parts == graph.work.parts
             S == RightParts(v)
  <2>1. parts \in Seq(S) /\ parts # <<>>
    BY <1>1, <1>2
  <2> HIDE DEF parts, S
  <2>2. Head(parts) \in S /\ Tail(parts) \in Seq(S)
    BY <2>1
  <2> QED
    BY <2>2 DEF parts, S
<1>4. ASSUME Filled(part), AllFilled(rest)
      PROVE  \E n \in Nat : /\ part.first = n /\ Chain(rest, n + part.rows, PostRows)
                            /\ graph.indices.data = IdsTo(v, n)
                            /\ graph.distances.data = FarsTo(v, n)
  <2> DEFINE parts == graph.work.parts
             S == RightParts(v)
  <2>1. parts \in Seq(S) /\ parts # <<>>
    BY <1>1, <1>2
  <2> HIDE DEF S
  <2>2. AllFilled(parts)
    <3> HIDE DEF parts
    <3>1. Filled(Head(parts)) /\ AllFilled(Tail(parts))
      BY <1>4 DEF parts
    <3> QED
      BY <2>1, <3>1, FilledHead
  <2>3. PICK n \in Nat : /\ Chain(parts, n, PostRows)
                         /\ graph.indices.data = IdsTo(v, n) /\ graph.distances.data = FarsTo(v, n)
    BY <1>2, <2>2
  <2> HIDE DEF parts
  <2>4. Head(parts).first = n /\ Chain(Tail(parts), n + Head(parts).rows, PostRows)
    BY <2>1, <2>3, ChainHead
  <2> QED
    BY <2>3, <2>4 DEF parts
<1>5. /\ part.first \in Nat /\ part.rows \in Nat /\ part.records \in SUBSET RightRecords(v)
  BY <1>3 DEF RightParts
<1>6. CASE /\ Filled(part) /\ part.rows > BucketRows /\ Inside(part) /\ UNCHANGED call
           /\ graph' = [graph EXCEPT !.work.parts = pieces \o rest]
  <2>1. part.rows \in Nat \ {0}
    BY <1>5, <1>6, Sizes
  <2>2. /\ pieces \in Seq(RightParts(v))
        /\ AllFilled(pieces) => Chain(pieces, part.first, part.first + part.rows)
    <3>1. \A x \in part.records : x.row \in part.first + 1..part.first + part.rows
      BY <1>6 DEF Inside
    <3> HIDE DEF part, v
    <3> QED
      BY <1>5, <2>1, <3>1, PiecesRight
  <2>3. ASSUME AllFilled(pieces \o rest)
        PROVE  \E n \in Nat : /\ Chain(pieces \o rest, n, PostRows)
                              /\ graph.indices.data = IdsTo(v, n)
                              /\ graph.distances.data = FarsTo(v, n)
    <3> DEFINE S == RightParts(v)
    <3>1. pieces \in Seq(S) /\ rest \in Seq(S)
      BY <1>3, <2>2
    <3> HIDE DEF S
    <3>2. AllFilled(pieces) /\ AllFilled(rest)
      <4> HIDE DEF pieces, rest
      <4> QED
        BY <2>3, <3>1, FilledParts
    <3>3. PICK n \in Nat : /\ part.first = n /\ Chain(rest, n + part.rows, PostRows)
                           /\ graph.indices.data = IdsTo(v, n)
                           /\ graph.distances.data = FarsTo(v, n)
      <4> HIDE DEF pieces, rest, part, v
      <4> QED
        BY <1>4, <1>6, <3>2
    <3> DEFINE m == n + part.rows
    <3>4. Chain(pieces, n, m) /\ Chain(rest, m, PostRows)
      <4> HIDE DEF pieces, rest, part, v
      <4> QED
        BY <2>2, <3>2, <3>3
    <3>5. Chain(pieces \o rest, n, PostRows)
      <4> HIDE DEF pieces, rest, part, v, m
      <4> QED
        BY <3>1, <3>4, ChainJoins
    <3> QED
      BY <3>3, <3>5
  <2>4. pieces \o rest \in Seq(RightParts(v))
    <3> HIDE DEF pieces, rest, part, v
    <3> QED
      BY <1>3, <2>2
  <2>5. SortsTo(pieces \o rest, graph.indices.data, graph.distances.data)
    <3> HIDE DEF pieces, rest, part, v
    <3> QED
      BY <1>6 DEF PostIInv, PostTypeOK, GraphShape, FileShape, SortsTo
  <2> HIDE DEF pieces, rest, part
  <2> QED
    BY <1>1, <1>6, <2>3, <2>4, <2>5, SortStep
<1>7. CASE /\ Filled(part) /\ Consecutive(part) /\ UNCHANGED call
           /\ graph' = [graph EXCEPT !.work.parts = rest, !.indices.data = @ \o ids,
                            !.distances.data = @ \o fars]
  <2>1. ASSUME AllFilled(rest)
        PROVE  \E n \in Nat : /\ Chain(rest, n, PostRows)
                              /\ graph.indices.data \o ids = IdsTo(v, n)
                              /\ graph.distances.data \o fars = FarsTo(v, n)
    <3>1. PICK n \in Nat : /\ part.first = n /\ Chain(rest, n + part.rows, PostRows)
                           /\ graph.indices.data = IdsTo(v, n)
                           /\ graph.distances.data = FarsTo(v, n)
      BY <1>4, <1>7, <2>1
    <3>2. /\ IdsTo(v, n) \o ids = IdsTo(v, n + part.rows)
          /\ FarsTo(v, n) \o fars = FarsTo(v, n + part.rows) /\ n + part.rows \in Nat
      <4> HIDE DEF v, part
      <4> QED
        BY <1>3, <1>7, <3>1, OutputGrows
    <3> HIDE DEF ids, fars, rest, part
    <3> QED
      BY <3>1, <3>2
  <2> HIDE DEF ids, fars, rest, part
  <2>2. SortsTo(rest, graph.indices.data \o ids, graph.distances.data \o fars)
    BY <1>7 DEF PostIInv, PostTypeOK, GraphShape, FileShape, SortsTo
  <2> QED
    BY <1>1, <1>3, <1>7, <2>1, <2>2, SortStep
<1>8. CASE call' = Ended("idle") /\ graph' = [graph EXCEPT !.work = NoWork]
  <2>1. CallShape' /\ call'.pc = "idle"
    BY <1>8, CallEnds DEF PostIInv, PostTypeOK
  <2>2. /\ graph'.grouped = graph.grouped /\ graph'.indices = graph.indices
        /\ graph'.distances = graph.distances /\ graph'.marker = graph.marker
        /\ graph'.work = NoWork /\ DOMAIN graph' = DOMAIN graph
    BY <1>8 DEF PostIInv, PostTypeOK, GraphShape
  <2>3. call.pc \notin TornPoints
    BY <1>1 DEF TornPoints
  <2>4. /\ GraphShape' /\ GraphFresh' /\ GraphSeen' /\ GroupedRight'
        /\ OutputsRight' /\ NamesRight' /\ SortRight'
    BY <1>1, <2>1, <2>2, <2>3, GraphAtRest
  <2>5. /\ ListsShape' /\ BuildFiles' /\ BuildRight' /\ ListsReady' /\ SavedRight'
        /\ PostingsGrouped'
    BY <1>1, <2>1, <2>3, ListsAtRest
  <2>6. PostTypeOK'
    BY <1>1, <2>1, <2>4, <2>5, InvariantIs DEF PostIInv
  <2>7. PostingWorkResumes'
    BY <2>1, NotRefused
  <2> QED
    BY <2>4, <2>5, <2>6, <2>7 DEF PostIInv
<1> QED
  BY <1>6, <1>7, <1>8 DEF SortPart

LEMMA CloseSortKeeps ==
    ASSUME PostIInv, CloseSort
    PROVE  PostIInv'
<1>1. /\ call.pc = "sort" /\ call.pc \in GraphPoints /\ call.pc \in Unmarked /\ call.pc \in Sorting
      /\ graph.work.parts = <<>> /\ UNCHANGED <<input, lists, halts, torn>> /\ Go("marker")
      /\ "marker" \in GraphPoints /\ "marker" \notin Sorting
  BY DEF CloseSort, GraphPoints, Unmarked, Sorting
<1>2. CallShape' /\ call'.pc = "marker" /\ call'.seen = call.seen
  BY <1>1, GoesOn DEF PostIInv, PostTypeOK
<1>3. /\ graph'.grouped = graph.grouped /\ graph'.indices = graph.indices
      /\ graph'.distances = graph.distances /\ graph'.marker = graph.marker
      /\ graph'.work = NoWork /\ DOMAIN graph' = DOMAIN graph
  BY DEF CloseSort, PostIInv, PostTypeOK, GraphShape
<1>4. /\ ~NoWork.open /\ NoWork.marked \in BOOLEAN /\ NoWork.open \in BOOLEAN
      /\ DOMAIN NoWork = {"marked", "open", "parts"}
  BY DEF NoWork
<1> HIDE DEF NoWork
<1>5. GraphShape'
  BY <1>1, <1>3, <1>4 DEF PostIInv, PostTypeOK, GraphShape, FileShape
<1>6. /\ graph.indices.data = IdsTo(lists.manifest.version, PostRows)
      /\ graph.distances.data = FarsTo(lists.manifest.version, PostRows)
  <2>1. AllFilled(<<>>)
    BY DEF AllFilled
  <2> QED
    BY <1>1, <2>1 DEF PostIInv, SortRight, Chain
<1>7. graph.indices.place = "part" /\ graph.distances.place = "part" /\ graph.marker = Nothing
  BY <1>1 DEF PostIInv, NamesRight
<1>8. GraphSeen' /\ GroupedRight' /\ OutputsRight'
  BY <1>1, <1>2, <1>3, <1>6, <1>7 DEF PostIInv, GraphSeen, GroupedRight, OutputsRight
<1>9. NamesRight' /\ SortRight'
  BY <1>1, <1>2, <1>3, <1>4, <1>7 DEF NamesRight, SortRight
<1> QED
  BY <1>1, <1>2, <1>5, <1>8, <1>9, GraphStep

(* A marker is written: both outputs are complete. *)
LEMMA MarkerKept ==
    ASSUME PostIInv, UNCHANGED <<input, lists, halts, torn>>, NEW p \in {"names", "cleanup"}, Go(p),
           call.pc \in {"marker", "complete"}, NEW v \in 0..input, lists.manifest.version <= v,
           NEW stage, graph' = [graph EXCEPT !.marker = [version |-> v, stage |-> stage]]
    PROVE  PostIInv'
<1> DEFINE marker == [version |-> v, stage |-> stage]
<1>1. /\ call.pc \in GraphPoints /\ p \in GraphPoints /\ p \notin Unmarked /\ p \notin Sorting
      /\ call.pc \notin {"open_second", "mark"}
  BY DEF GraphPoints, Unmarked, Sorting
<1>2. CallShape' /\ call'.pc = p /\ call'.seen = call.seen
  BY <1>1, GoesOn DEF PostIInv, PostTypeOK
<1>3. marker # Nothing /\ DOMAIN marker = {"version", "stage"} /\ marker.version = v
  BY DEF Nothing
<1>4. graph' = [graph EXCEPT !.marker = marker]
  OBVIOUS
<1> HIDE DEF marker
<1>5. /\ graph'.grouped = graph.grouped /\ graph'.indices = graph.indices
      /\ graph'.distances = graph.distances /\ graph'.marker = marker
      /\ graph'.work = graph.work /\ DOMAIN graph' = DOMAIN graph
  BY <1>4 DEF PostIInv, PostTypeOK, GraphShape
<1>6. GraphShape'
  BY <1>3, <1>5 DEF PostIInv, PostTypeOK, GraphShape, FileShape
<1>7. graph.marker # Nothing \/ call.pc = "marker"
  BY DEF PostIInv, NamesRight
<1>8. GraphSeen' /\ GroupedRight' /\ OutputsRight'
  BY <1>1, <1>2, <1>3, <1>5, <1>7 DEF PostIInv, GraphSeen, GroupedRight, OutputsRight
<1>9. NamesRight'
  BY <1>1, <1>2, <1>3, <1>5 DEF PostIInv, NamesRight, Mixed
<1>10. SortRight'
  BY <1>1, <1>2 DEF SortRight
<1> QED
  BY <1>1, <1>2, <1>6, <1>8, <1>9, <1>10, GraphStep

LEMMA SaveMarkerKeeps ==
    ASSUME PostIInv, SaveMarker
    PROVE  PostIInv'
<1>1. call.pc = "marker" /\ call.pc \in GraphPoints
  BY DEF SaveMarker, GraphPoints, Unmarked
<1>2. call.seen \in 0..input /\ lists.manifest.version <= call.seen
  BY <1>1, GraphCalled DEF PostIInv, GraphSeen
<1> QED
  BY <1>1, <1>2, MarkerKept DEF SaveMarker

LEMMA CompleteMarkKeeps ==
    ASSUME PostIInv, CompleteMark
    PROVE  PostIInv'
<1>1. call.pc = "complete" /\ call.pc \in GraphPoints
  BY DEF CompleteMark, GraphPoints
<1>2. lists.manifest.version \in 0..input /\ lists.manifest.version <= lists.manifest.version
  BY <1>1, GraphCalled
<1> QED
  BY <1>1, <1>2, MarkerKept DEF CompleteMark

LEMMA NameGraphKeeps ==
    ASSUME PostIInv, NameGraph
    PROVE  PostIInv'
<1> DEFINE f == GraphFiles[Min(Unnamed(GraphFiles, graph))]
<1>1. /\ call.pc = "names" /\ call.pc \in GraphPoints /\ call.pc \notin Unmarked
      /\ call.pc \notin TornPoints /\ UNCHANGED <<input, lists, halts, torn>>
      /\ call.pc \notin Sorting /\ "complete" \in GraphPoints /\ "complete" \notin Unmarked
      /\ "complete" \notin Sorting
  BY DEF NameGraph, GraphPoints, Unmarked, Sorting, TornPoints
<1>2. graph.marker # Nothing
  BY <1>1 DEF PostIInv, NamesRight
<1>3. graph.indices.place # "none" /\ graph.distances.place # "none"
  BY <1>2 DEF PostIInv, OutputsRight
<1>4. CASE Go("complete") /\ UNCHANGED graph
  <2>1. CallShape' /\ call'.pc = "complete" /\ call'.seen = call.seen
    BY <1>1, <1>4, GoesOn DEF PostIInv, PostTypeOK
  <2>2. GraphShape'
    BY <1>1, <1>4 DEF PostIInv, PostTypeOK, GraphShape, FileShape
  <2>3. GraphSeen' /\ GroupedRight' /\ OutputsRight'
    BY <1>1, <1>4, <2>1 DEF PostIInv, GraphSeen, GroupedRight, OutputsRight
  <2>4. NamesRight' /\ SortRight'
    BY <1>1, <1>2, <1>4, <2>1 DEF PostIInv, NamesRight, SortRight, Mixed
  <2> QED
    BY <1>1, <2>1, <2>2, <2>3, <2>4, GraphStep
<1>5. CASE call' = Ended("idle") /\ UNCHANGED graph
  BY <1>1, <1>5, CallEnds, RestKept, NotRefused DEF PostIInv, PostTypeOK
<1>6. CASE /\ Unnamed(GraphFiles, graph) # {} /\ UNCHANGED call
           /\ graph' = [graph EXCEPT ![f] = Named(@)]
  <2>1. f \in {"indices", "distances"}
    BY <1>6, GraphUnnamed
  <2> HIDE DEF f
  <2>2. /\ graph'.grouped = graph.grouped /\ graph'.marker = graph.marker
        /\ graph'.work = graph.work /\ DOMAIN graph' = DOMAIN graph
        /\ \A g \in {"indices", "distances"} : graph'[g] \in {graph[g], Named(graph[g])}
    BY <1>6, <2>1 DEF PostIInv, PostTypeOK, GraphShape
  <2>3. \A g \in {"indices", "distances"} :
            /\ FileShape(Named(graph[g])) /\ Named(graph[g]).place = "final"
            /\ Named(graph[g]).data = graph[g].data
    BY DEF PostIInv, PostTypeOK, GraphShape, FileShape, Named
  <2>4. \A g \in {"indices", "distances"} :
            /\ FileShape(graph'[g]) /\ graph'[g].place \in {"part", "final"}
            /\ graph'[g].data = graph[g].data
    BY <1>3, <2>2, <2>3 DEF PostIInv, PostTypeOK, GraphShape, FileShape
  <2>5. CallShape' /\ GraphShape'
    BY <1>1, <1>6, <2>2, <2>4 DEF PostIInv, PostTypeOK, CallShape, GraphShape, FileShape, AtRest
  <2>6. GraphSeen' /\ GroupedRight' /\ OutputsRight'
    BY <1>1, <1>6, <2>2, <2>4 DEF PostIInv, GraphSeen, GroupedRight, OutputsRight
  <2>7. NamesRight'
    BY <1>1, <1>2, <1>6, <2>2, <2>4 DEF PostIInv, NamesRight, Mixed
  <2>8. SortRight'
    BY <1>1, <1>6 DEF SortRight
  <2> QED
    BY <1>1, <1>6, <2>5, <2>6, <2>7, <2>8, GraphStep
<1> QED
  BY <1>4, <1>5, <1>6 DEF NameGraph

LEMMA CleanupKeeps ==
    ASSUME PostIInv, Cleanup
    PROVE  PostIInv'
<1>1. /\ call.pc = "cleanup" /\ call.pc \notin TornPoints /\ UNCHANGED <<input, lists, halts, torn>>
      /\ call.pc \notin {"open_second", "mark"} /\ call.pc \notin Building
  BY DEF Cleanup, TornPoints, Building, Placing, Closing
<1>2. CallShape' /\ call'.pc = "idle" /\ call'.pc \notin GraphPoints
  BY CallEnds DEF PostIInv, PostTypeOK, Cleanup
<1>3. /\ graph'.grouped = Absent /\ graph'.indices = graph.indices
      /\ graph'.distances = graph.distances /\ graph'.marker = graph.marker
      /\ graph'.work = graph.work /\ DOMAIN graph' = DOMAIN graph
  BY DEF Cleanup, PostIInv, PostTypeOK, GraphShape
<1>4. /\ FileShape(Absent) /\ Absent.place = "none"
      /\ call'.pc \notin Unmarked /\ call'.pc \notin Sorting
  BY <1>2 DEF Absent, FileShape, Unmarked, Sorting
<1> HIDE DEF Absent
<1>5. GraphShape' /\ GraphFresh'
  BY <1>1, <1>2, <1>3, <1>4 DEF PostIInv, PostTypeOK, GraphShape, FileShape, GraphFresh
<1>6. GraphSeen' /\ GroupedRight' /\ OutputsRight'
  BY <1>1, <1>2, <1>3, <1>4 DEF PostIInv, GraphSeen, GroupedRight, OutputsRight
<1>7. NamesRight' /\ SortRight'
  BY <1>1, <1>2, <1>3, <1>4 DEF PostIInv, NamesRight, SortRight, Mixed
<1>8. /\ ListsShape' /\ BuildFiles' /\ BuildRight' /\ ListsReady' /\ SavedRight'
      /\ PostingsGrouped'
  BY <1>1, <1>2, ListsAtRest
<1>9. PostTypeOK' /\ PostingWorkResumes'
  BY <1>1, <1>2, <1>5, <1>8, InvariantIs, NotRefused DEF PostIInv
<1> QED
  BY <1>5, <1>6, <1>7, <1>8, <1>9 DEF PostIInv

-----------------------------------------------------------------------------
(* Kills, errors and a source that changes.                                *)

LEMMA HaltKeeps ==
    ASSUME PostIInv, Halt
    PROVE  PostIInv'
<1>1. /\ UNCHANGED input /\ halts' = halts + 1 /\ call' = Ended("idle")
      /\ torn' = (torn \/ call.pc \in TornPoints)
  BY DEF Halt
<1>2. CallShape' /\ call'.pc = "idle" /\ call'.pc \notin ListPoints /\ call'.pc \notin GraphPoints
  BY <1>1, CallEnds DEF PostIInv, PostTypeOK
<1>3. /\ torn' \in BOOLEAN /\ halts' \in Nat /\ torn => torn'
      /\ call.pc \in TornPoints => torn'
  BY <1>1 DEF PostIInv, PostTypeOK
<1>4. PostingWorkResumes'
  BY <1>2, NotRefused
<1>5. /\ DOMAIN graph' = DOMAIN graph
      /\ graph'.grouped = graph.grouped /\ graph'.indices = graph.indices
      /\ graph'.distances = graph.distances /\ graph'.marker = graph.marker
      /\ graph'.work \in {graph.work, NoWork}
      /\ call.pc \notin Reordering => graph' = graph
  BY DEF Halt, PostIInv, PostTypeOK, GraphShape
<1>6. CASE UNCHANGED lists
  <2>1. /\ GraphShape' /\ GraphFresh' /\ GraphSeen' /\ GroupedRight'
        /\ OutputsRight' /\ NamesRight' /\ SortRight'
    BY <1>1, <1>2, <1>3, <1>5, <1>6, GraphAtRest
  <2>2. /\ ListsShape' /\ BuildFiles' /\ BuildRight' /\ ListsReady' /\ SavedRight'
        /\ PostingsGrouped'
    BY <1>1, <1>2, <1>3, <1>6, ListsAtRest
  <2>3. PostTypeOK'
    BY <1>1, <1>2, <1>3, <2>1, <2>2 DEF PostIInv, PostTypeOK
  <2> QED
    BY <1>4, <2>1, <2>2, <2>3 DEF PostIInv
<1>7. ASSUME call.pc \in {"place", "flush"}, NEW written \in SUBSET {"features", "ids"},
             lists' = [f \in DOMAIN lists |->
                          IF f \in written THEN Part(call.stream[f]) ELSE lists[f]]
      PROVE  PostIInv'
  <2>1. /\ call.pc \in Building /\ call.pc \in Placing /\ call.pc \in ListPoints
        /\ call.pc \notin Reordering
    BY <1>7 DEF Building, Placing, ListPoints, Reordering
  <2>2. /\ lists.manifest = Nothing /\ lists.saved # Nothing /\ lists.saved.version = call.seen
        /\ lists.saved.done <= call.done /\ lists.features.place = "part"
        /\ lists.ids.place = "part" /\ lists.offsets.place = "none"
    BY <1>7, <2>1 DEF PostIInv, BuildFiles
  <2>3. /\ lists'.offsets = lists.offsets /\ lists'.saved = lists.saved
        /\ lists'.manifest = lists.manifest /\ DOMAIN lists' = DOMAIN lists
        /\ lists'.features \in {lists.features, Part(call.stream.features)}
        /\ lists'.ids \in {lists.ids, Part(call.stream.ids)}
    BY <1>7 DEF PostIInv, PostTypeOK, ListsShape
  <2>4. \A data : /\ Part(data).place = "part" /\ Part(data).data = data
                  /\ FileShape(Part(data))
    BY DEF Part, FileShape
  <2>5. /\ FileShape(lists'.features) /\ FileShape(lists'.ids)
        /\ lists'.features.place = "part" /\ lists'.ids.place = "part"
        /\ lists'.features.data \in {lists.features.data, call.stream.features}
        /\ lists'.ids.data \in {lists.ids.data, call.stream.ids}
    BY <2>2, <2>3, <2>4 DEF PostIInv, PostTypeOK, ListsShape
  <2>6. ListsShape'
    BY <1>1, <2>3, <2>5 DEF PostIInv, PostTypeOK, ListsShape
  <2>7. BuildFiles' /\ BuildRight' /\ ListsReady'
    BY <1>2 DEF BuildFiles, BuildRight, ListsReady, ListPoints, Building, Placing, Closing
  <2>8. SavedRight'
    <3> SUFFICES ASSUME lists.saved.version = input
                 PROVE  SavedRight'
      BY <1>1, <2>3 DEF SavedRight
    <3>1. /\ lists.saved.counts = CountsTo(input, PostRows)
          /\ lists.saved.next = NextTo(input, lists.saved.done)
          /\ HoldsTo(input, lists.saved.done, lists.features.data, lists.ids.data)
          /\ OnBlock(lists.saved.done)
      BY <2>2 DEF PostIInv, SavedRight
    <3>2. HoldsTo(input, lists.saved.done, call.stream.features, call.stream.ids)
      <4>1. HoldsTo(input, call.done, call.stream.features, call.stream.ids)
        BY <2>1, <2>2 DEF PostIInv, BuildRight
      <4>2. call.done \in 0..PostRows /\ lists.saved.done \in 0..PostRows
        BY <2>1, <2>2 DEF PostIInv, PostTypeOK, CallShape, ListsShape
      <4> QED
        BY <2>2, <4>1, <4>2, HoldsLess
    <3>3. HoldsTo(input, lists.saved.done, lists'.features.data, lists'.ids.data)
      BY <2>5, <3>1, <3>2 DEF HoldsTo
    <3> QED
      BY <1>1, <2>2, <2>3, <2>5, <3>1, <3>3 DEF SavedRight
  <2>9. graph' = graph
    BY <1>5, <2>1
  <2>10. /\ GraphShape' /\ PostingsGrouped' /\ GraphFresh' /\ GraphSeen' /\ GroupedRight'
         /\ OutputsRight' /\ NamesRight' /\ SortRight'
    BY <1>1, <1>2, <2>2, <2>3, <2>9, NoGraphYet
  <2>11. PostTypeOK'
    BY <1>1, <1>2, <1>3, <2>6, <2>10 DEF PostIInv, PostTypeOK
  <2> QED
    BY <1>4, <2>6, <2>7, <2>8, <2>10, <2>11 DEF PostIInv
<1> QED
  BY <1>6, <1>7 DEF Halt

LEMMA ChangeInputKeeps ==
    ASSUME PostIInv, ChangeInput
    PROVE  PostIInv'
<1>1. /\ input' = input + 1 /\ input \in Nat /\ input < PostVersions /\ PostVersions \in Nat
      /\ UNCHANGED <<call, lists, graph, halts, torn>>
  BY InputIs DEF ChangeInput, PostIInv
<1>2. /\ input' \in Versions /\ \A v \in 0..input : v \in 0..input' /\ v # input'
  BY <1>1 DEF Versions
<1>3. /\ ~AtRest => call.seen \in 0..input /\ call.seen # input'
      /\ lists.saved # Nothing => lists.saved.version \in 0..input /\ lists.saved.version # input'
      /\ lists.manifest # Nothing =>
            lists.manifest.version \in 0..input /\ lists.manifest.version # input'
  BY <1>2 DEF PostIInv, PostTypeOK, CallShape, ListsShape
<1>4. CallShape'
  BY <1>1, <1>2 DEF PostIInv, PostTypeOK, CallShape, AtRest
<1>5. ListsShape' /\ GraphShape'
  BY <1>1, <1>2 DEF PostIInv, PostTypeOK, ListsShape, GraphShape, FileShape
<1>6. PostTypeOK'
  BY <1>1, <1>2, <1>4, <1>5 DEF PostIInv, PostTypeOK
<1>7. BuildFiles' /\ ListsReady'
  BY <1>1 DEF PostIInv, BuildFiles, ListsReady, HoldsTo
<1>8. BuildRight'
  <2>1. call.pc \in Building => ~AtRest
    BY DEF Building, Placing, Closing, AtRest
  <2> QED
    BY <1>1, <1>3, <2>1 DEF BuildRight
<1>9. SavedRight'
  BY <1>1, <1>3 DEF SavedRight
<1>10. PostingsGrouped' /\ GraphFresh' /\ GraphSeen' /\ GroupedRight' /\ OutputsRight'
  BY <1>1 DEF PostIInv, PostingsGrouped, GraphFresh, GraphSeen, GroupedRight, OutputsRight
<1>11. NamesRight' /\ SortRight'
  BY <1>1 DEF PostIInv, NamesRight, SortRight, Mixed
<1>12. PostingWorkResumes'
  <2>1. lists.manifest.version # input'
    <3>1. lists.manifest = Nothing => lists.manifest.version = -1
      BY DEF Nothing
    <3> QED
      BY <1>1, <1>3, <3>1
  <2> QED
    BY <1>1, <1>3, <2>1 DEF PostIInv, PostTypeOK, CallShape, PostingWorkResumes
<1> QED
  BY <1>6, <1>7, <1>8, <1>9, <1>10, <1>11, <1>12 DEF PostIInv

LEMMA NothingKeeps ==
    ASSUME PostIInv, UNCHANGED postVars
    PROVE  PostIInv'
<1>1. UNCHANGED <<input, call, lists, graph, halts, torn>>
  BY DEF postVars
<1>2. PostTypeOK'
  BY <1>1 DEF PostIInv, PostTypeOK, CallShape, ListsShape, GraphShape, FileShape, AtRest
<1>3. BuildFiles' /\ BuildRight' /\ ListsReady' /\ SavedRight'
  BY <1>1 DEF PostIInv, BuildFiles, BuildRight, ListsReady, SavedRight, HoldsTo
<1>4. PostingsGrouped' /\ GraphFresh' /\ GraphSeen' /\ GroupedRight' /\ OutputsRight'
  BY <1>1 DEF PostIInv, PostingsGrouped, GraphFresh, GraphSeen, GroupedRight, OutputsRight
<1>5. NamesRight' /\ SortRight' /\ PostingWorkResumes'
  BY <1>1 DEF PostIInv, NamesRight, SortRight, Mixed, PostingWorkResumes
<1> QED
  BY <1>2, <1>3, <1>4, <1>5 DEF PostIInv

-----------------------------------------------------------------------------
(* The theorems.                                                           *)

LEMMA PostInitRight ==
    ASSUME PostInit
    PROVE  PostIInv
<1>1. /\ call.pc = "idle" /\ call.what = "lists" /\ call.resume = FALSE
      /\ DOMAIN call = {"pc", "what", "resume"} /\ input = 0 /\ halts = 0 /\ torn = FALSE
  BY DEF PostInit
<1>2. /\ lists.features = Absent /\ lists.ids = Absent /\ lists.offsets = Absent
      /\ lists.saved = Nothing /\ lists.manifest = Nothing
      /\ DOMAIN lists = {"features", "ids", "offsets", "saved", "manifest"}
  BY DEF PostInit
<1>3. /\ graph.grouped = Absent /\ graph.indices = Absent /\ graph.distances = Absent
      /\ graph.marker = Nothing /\ graph.work = NoWork
      /\ DOMAIN graph = {"grouped", "indices", "distances", "marker", "work"}
  BY DEF PostInit
<1>4. /\ FileShape(Absent) /\ Absent.place = "none" /\ ~NoWork.open
      /\ NoWork.marked \in BOOLEAN /\ NoWork.open \in BOOLEAN
      /\ DOMAIN NoWork = {"marked", "open", "parts"}
  BY DEF Absent, FileShape, NoWork
<1>5. /\ call.pc \notin ListPoints /\ call.pc \notin GraphPoints /\ call.pc \notin Building
      /\ call.pc \notin Placing /\ call.pc \notin Closing /\ call.pc \notin Unmarked
      /\ call.pc \notin Sorting
  BY <1>1 DEF ListPoints, GraphPoints, Building, Placing, Closing, Unmarked, Sorting
<1>6. input \in Versions /\ halts \in Nat /\ torn \in BOOLEAN
  <2>1. torn \in BOOLEAN
    BY <1>1, Zenon
  <2>2. 0 \in 0..PostVersions
    BY Sizes
  <2>3. input \in Versions /\ halts \in Nat
    BY <1>1, <2>2 DEF Versions
  <2> QED
    BY <2>1, <2>3
<1> HIDE DEF Absent, NoWork
<1>7. CallShape
  BY <1>1, <1>5 DEF CallShape, AtRest
<1>8. ListsShape /\ GraphShape
  BY <1>2, <1>3, <1>4 DEF ListsShape, GraphShape
<1>9. BuildFiles /\ BuildRight /\ ListsReady /\ SavedRight /\ PostingsGrouped
  BY <1>1, <1>2, <1>5 DEF BuildFiles, BuildRight, ListsReady, SavedRight, PostingsGrouped
<1>10. GraphFresh /\ GraphSeen /\ GroupedRight /\ OutputsRight
  BY <1>1, <1>2, <1>3, <1>4, <1>5 DEF GraphFresh, GraphSeen, GroupedRight, OutputsRight
<1>11. NamesRight /\ SortRight /\ PostingWorkResumes
  BY <1>1, <1>3, <1>4, <1>5 DEF NamesRight, SortRight, PostingWorkResumes
<1> QED
  BY <1>6, <1>7, <1>8, <1>9, <1>10, <1>11 DEF PostIInv, PostTypeOK

LEMMA PostStepRight ==
    ASSUME PostIInv, [PostNext]_postVars
    PROVE  PostIInv'
<1>1. CASE ListsRun
  BY <1>1, CountBlockKeeps, CreateListsKeeps, PlaceBlockKeeps, FlushKeeps, SaveKeeps,
     ClosePlacesKeeps, OpenOffsetsKeeps, WriteOffsetsKeeps, VerifyKeeps, RenameListKeeps,
     CheckInputKeeps, FinalizeKeeps, UnlinkKeeps DEF ListsRun
<1>2. CASE GraphRun
  BY <1>2, SearchKeeps, CommitKeeps, OpenWorkKeeps, MarkWorkKeeps, DistributeKeeps,
     OpenOutputKeeps, SortPartKeeps, CloseSortKeeps, SaveMarkerKeeps, NameGraphKeeps,
     CompleteMarkKeeps, CleanupKeeps DEF GraphRun
<1>3. CASE Halt \/ ChangeInput
  BY <1>3, HaltKeeps, ChangeInputKeeps
<1>4. ASSUME NEW resume \in BOOLEAN, CallLists(resume) \/ CallGraph(resume)
      PROVE  PostIInv'
  BY <1>4, CallListsKeeps, CallGraphKeeps
<1>5. CASE UNCHANGED postVars
  BY <1>5, NothingKeeps
<1> QED
  BY <1>1, <1>2, <1>3, <1>4, <1>5 DEF PostNext

LEMMA PostGraphRight ==
    ASSUME PostIInv
    PROVE  GraphOfProbes
<1> DEFINE v == lists.manifest.version
<1> SUFFICES ASSUME Finished, NEW r \in SourceRows, NEW x \in Seen(v, r),
                    PlaceAmong(Seen(v, r), x) <= Near
             PROVE  /\ graph.indices.data[r][PlaceAmong(Seen(v, r), x)] = x.id
                    /\ graph.distances.data[r][PlaceAmong(Seen(v, r), x)] = x.far
  BY DEF GraphOfProbes
<1>1. graph.marker # Nothing
  BY FileNames DEF Finished, PostIInv, NamesRight
<1>2. graph.indices.data = IdsTo(v, PostRows) /\ graph.distances.data = FarsTo(v, PostRows)
  BY <1>1 DEF PostIInv, OutputsRight
<1>3. v \in Versions
  <2>1. lists.manifest # Nothing
    BY <1>1 DEF PostIInv, GraphFresh
  <2>2. v \in 0..input
    BY <2>1 DEF PostIInv, PostTypeOK, ListsShape
  <2> QED
    BY <2>2, InputIs DEF PostIInv
<1> HIDE DEF v
<1>4. Seen(v, r) \in SUBSET Candidates /\ IsFiniteSet(Seen(v, r))
  BY <1>3, SeenIs
<1>5. NearOf(v, r)[PlaceAmong(Seen(v, r), x)] = x /\ PlaceAmong(Seen(v, r), x) \in 1..Near
  BY <1>4, RankedAt DEF NearOf
<1> QED
  BY <1>2, <1>5 DEF IdsTo, FarsTo, SourceRows

(* The inductive invariant holds in every state: what a build has counted, *)
(* placed and saved, what its files hold at every point where it can be    *)
(* interrupted, what a marker vouches for and how much of the graph the    *)
(* sort has written.                                                       *)
THEOREM PostInvariant == PostSpec => []PostIInv
<1>1. PostInit => PostIInv
  BY PostInitRight
<1>2. PostIInv /\ [PostNext]_postVars => PostIInv'
  BY PostStepRight
<1> QED
  BY <1>1, <1>2, PTL DEF PostSpec

(* Lists with a manifest hold every row of one version of the source once, *)
(* with its nearest center and in the order of the source; a graph under   *)
(* its final names holds, for each row in that order, the nearest of the   *)
(* rows in the lists it probes: whatever was killed, resumed, renamed      *)
(* halfway, distributed over partitions or rewritten meanwhile.            *)
THEOREM PostingsRight == PostSpec => []PostingGraphRight
<1>1. PostIInv => PostingGraphRight
  BY PostGraphRight DEF PostIInv, PostingGraphRight
<1> QED
  BY <1>1, PostInvariant, PTL

(* A call that resumes recorded work on the source it was recorded for is  *)
(* refused only after a kill in the moment in which an offsets file, a     *)
(* work directory or one output of two was just created.                   *)
THEOREM PostingsResume == PostSpec => []PostingWorkResumes
<1>1. PostIInv => PostingWorkResumes
  BY DEF PostIInv
<1> QED
  BY <1>1, PostInvariant, PTL
=============================================================================
