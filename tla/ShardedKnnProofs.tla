--------------------------- MODULE ShardedKnnProofs ---------------------------
(* The sharded nearest-neighbour graph, for every number of rows, shards,  *)
(* neighbours and builds of an index, every batch size and commit interval *)
(* and any number of interruptions and rewritten sources.                  *)
EXTENDS ShardedKnn, FiniteSetTheorems, WellFoundedInduction, TLAPS

-----------------------------------------------------------------------------
(* The invariant.                                                          *)

(* A row of a file, as the merge of what the builds "used" returned. *)
Holds(ids, dists, v, used, q) ==
    LET row == Select(Gathered(v, used, q))
    IN ids = IdRow(row) /\ dists = DistanceRow(row)

(* A row into which every shard before s is merged, none after it and, when *)
(* there is a pilot, a build of s that agrees with it.                      *)
Uses(v, used, s, pilot) ==
    \A t \in Shards : /\ t < s => used[t] # {}
                      /\ t > s => used[t] = {}
                      /\ t = s /\ pilot # Missing =>
                            \E b \in used[t] : Pilot(v, b, t) = pilot
Kept(ids, dists, v, s, pilot, q) ==
    \E used \in [Shards -> SUBSET Builds] :
        Holds(ids, dists, v, used, q) /\ Uses(v, used, s, pilot)

Pilots == [{q \in Rows : q <= ChunkRows} -> SUBSET (Nat \X Rows)]
DistanceRows == [Ranks -> Nat \cup {Infinite}]

(* n rows end a batch. *)
Whole(n) == n = NRow \/ n % ChunkRows = 0

InShard == {"restore_i", "restore_d", "search", "merge_d", "save"}
Merging == {"search", "merge_d", "save"}

ShardTypeOK ==
    /\ source \in Versions /\ stops \in Nat /\ pc \in Points
    /\ DOMAIN part = Files /\ DOMAIN final = Files
    /\ \A f \in Files : /\ part[f] \in Contents[f] \cup {Missing}
                        /\ final[f] \in Contents[f] \cup {Missing}
    /\ sidecar \in States \cup {Missing} /\ saved \in States \cup {Missing}
    /\ watched \in Versions \cup {Missing} /\ build \in Builds \cup {Missing}
    /\ next \in 1..(NRow + 1)
    /\ merged \in IF pc = "merge_d" THEN [next..LastRow -> DistanceRows] ELSE {<<>>}

(* The record of a shard: its pilot is there when rows of it are.           *)
RecordWhole(r) ==
    /\ Whole(r.completed_rows)
    /\ r.completed_rows > 0 <=> r.pilot_signature # Missing
    /\ r.shard = NShards => r.completed_rows = 0

SidecarHolds == sidecar # Missing => RecordWhole(sidecar)

(* The call goes on from the record, with an index that agrees with the pilot. *)
CallHolds ==
    /\ pc # "idle" =>
          /\ saved \in States /\ sidecar \in States
          /\ watched = sidecar.signature /\ saved.signature = sidecar.signature
          /\ saved.shard = sidecar.shard
          /\ saved.completed_rows = sidecar.completed_rows
          /\ sidecar.pilot_signature # Missing =>
                saved.pilot_signature = sidecar.pilot_signature
    /\ pc \notin Merging \cup {"idle"} => saved = sidecar
    /\ pc \in {"rename_d", "retire"} => saved.shard = NShards
    /\ pc \in InShard =>
          /\ saved.shard \in Shards /\ build \in Builds
          /\ Whole(next - 1) /\ next > saved.completed_rows
          /\ saved.pilot_signature \in {Missing, Pilot(watched, build, saved.shard)}
    /\ pc \in {"restore_i", "restore_d"} =>
          saved.shard = 0 /\ next = saved.completed_rows + 1
    /\ pc \in Merging => (next > 1 => saved.pilot_signature # Missing)
    /\ pc = "merge_d" => next <= NRow
    /\ pc = "save" => next > 1

(* Lengths of the files. *)
RowsIn(content) == IF content = Missing THEN 0 ELSE Len(content)

LengthsHold ==
    sidecar # Missing /\ (\A f \in Files : final[f] = Missing) =>
        LET ids == RowsIn(part["indices"])
            dists == RowsIn(part["distances"])
        IN  IF sidecar.shard > 0 THEN ids = NRow /\ dists = NRow
            ELSE CASE pc \in {"search", "save"} -> ids = next - 1 /\ dists = next - 1
                   [] pc = "merge_d" -> ids = LastRow /\ dists = next - 1
                   [] pc = "restore_d" -> /\ ids = sidecar.completed_rows
                                          /\ dists >= sidecar.completed_rows
                   [] OTHER -> /\ ids >= sidecar.completed_rows
                               /\ dists >= sidecar.completed_rows

NamesHold ==
    /\ sidecar = Missing =>
          /\ \A f \in Files : part[f] = Missing
          /\ final["indices"] = Missing <=> final["distances"] = Missing
    /\ sidecar # Missing /\ final["indices"] # Missing =>
          sidecar.shard = NShards /\ pc \in {"idle", "rename_d", "retire"}
    /\ final["distances"] # Missing =>
          final["indices"] # Missing /\ part["distances"] = Missing
    /\ final["indices"] # Missing =>
          /\ part["indices"] = Missing /\ Len(final["indices"]) = NRow
          /\ final["distances"] = Missing => RowsIn(part["distances"]) = NRow
    /\ pc = "rename_d" => final["indices"] # Missing /\ final["distances"] = Missing
    /\ pc = "retire" => final["distances"] # Missing

(* The rows of the current shard that have been merged. *)
Done == IF pc \in Merging THEN next - 1 ELSE sidecar.completed_rows
PilotNow == IF pc \in Merging THEN saved.pilot_signature ELSE sidecar.pilot_signature
Stable == IF sidecar.shard = 0 THEN 1..Done ELSE Rows \ Underway

RowsKept(ids, dists, rows, done, v, s, pilot) ==
    \A q \in rows :
        Kept(ids[q], dists[q], v, s, IF q <= done THEN pilot ELSE Missing, q)

RowsHold ==
    sidecar # Missing =>
        RowsKept(Data("indices"), Data("distances"), Stable, Done,
                 sidecar.signature, sidecar.shard, PilotNow)

UnderwayHolds ==
    pc = "merge_d" =>
        \A q \in next..LastRow :
            Kept(part["indices"][q], merged[q], watched, saved.shard,
                 Pilot(watched, build, saved.shard), q)

ShardIInv ==
    /\ ShardTypeOK /\ SidecarHolds /\ CallHolds /\ LengthsHold /\ NamesHold
    /\ RowsHold /\ UnderwayHolds /\ ReplayIdempotent

-----------------------------------------------------------------------------
(* Pairs in the order of merge_row.                                        *)

AllPairs == Nat \X Rows

LEMMA Ordered ==
    /\ \A a \in AllPairs : ~Before(a, a)
    /\ \A a, b \in AllPairs : a = b \/ Before(a, b) \/ Before(b, a)
    /\ \A a, b, c \in AllPairs : Before(a, b) /\ Before(b, c) => Before(a, c)
<1>1. \A a \in AllPairs : a[1] \in Nat /\ a[2] \in Nat /\ a = <<a[1], a[2]>>
  BY SizeAssumption DEF AllPairs, Rows
<1>2. \A a, b \in AllPairs : a = b \/ Before(a, b) \/ Before(b, a)
  <2> SUFFICES ASSUME NEW a \in AllPairs, NEW b \in AllPairs, a[1] = b[1], a[2] = b[2]
               PROVE  a = b
    BY <1>1 DEF Before
  <2>1. a = <<a[1], a[2]>> /\ b = <<b[1], b[2]>>
    BY <1>1
  <2> QED
    BY <2>1
<1> QED
  BY <1>1, <1>2 DEF Before

LEMMA AheadFinite ==
    ASSUME NEW A, IsFiniteSet(A), NEW c
    PROVE  IsFiniteSet(Ahead(c, A)) /\ Cardinality(Ahead(c, A)) \in Nat
<1>1. Ahead(c, A) \in SUBSET A
  BY DEF Ahead
<1>2. IsFiniteSet(Ahead(c, A))
  BY <1>1, FS_Subset
<1> QED
  BY <1>2, FS_CardinalityType

(* A pair in front of another one has fewer pairs in front of it. *)
LEMMA AheadGrows ==
    ASSUME NEW A \in SUBSET AllPairs, IsFiniteSet(A), NEW c \in A, NEW d \in A, Before(c, d)
    PROVE  Cardinality(Ahead(c, A)) < Cardinality(Ahead(d, A))
<1>1. Ahead(c, A) \in SUBSET Ahead(d, A)
  BY Ordered DEF Ahead
<1>2. c \in Ahead(d, A) /\ c \notin Ahead(c, A)
  BY Ordered DEF Ahead
<1>3. IsFiniteSet(Ahead(d, A)) /\ Cardinality(Ahead(c, A)) \in Nat /\ Cardinality(Ahead(d, A)) \in Nat
  BY AheadFinite
<1>4. /\ Cardinality(Ahead(c, A)) <= Cardinality(Ahead(d, A))
      /\ Cardinality(Ahead(d, A)) = Cardinality(Ahead(c, A)) => Ahead(d, A) = Ahead(c, A)
  BY <1>1, <1>3, FS_Subset
<1> QED
  BY <1>2, <1>3, <1>4

LEMMA AheadWithin ==
    ASSUME NEW A \in SUBSET AllPairs, IsFiniteSet(A), NEW c \in A
    PROVE  Cardinality(A) \in Nat /\ Cardinality(Ahead(c, A)) \in 0..(Cardinality(A) - 1)
<1>1. Ahead(c, A) \in SUBSET A /\ c \notin Ahead(c, A)
  BY Ordered DEF Ahead
<1>2. Cardinality(A) \in Nat /\ Cardinality(Ahead(c, A)) \in Nat
  BY AheadFinite, FS_CardinalityType
<1>3. /\ Cardinality(Ahead(c, A)) <= Cardinality(A)
      /\ Cardinality(A) = Cardinality(Ahead(c, A)) => A = Ahead(c, A)
  BY <1>1, FS_Subset
<1> QED
  BY <1>1, <1>2, <1>3

(* Every place of a finite set of pairs is taken by one of them. *)
LEMMA Places ==
    ASSUME NEW A \in SUBSET AllPairs, IsFiniteSet(A)
    PROVE  /\ \A n \in 0..(Cardinality(A) - 1) : \E c \in A : Cardinality(Ahead(c, A)) = n
           /\ \A c, d \in A : Cardinality(Ahead(c, A)) = Cardinality(Ahead(d, A)) => c = d
<1> DEFINE T == 0..(Cardinality(A) - 1)
           f == [c \in A |-> Cardinality(Ahead(c, A))]
<1>1. ASSUME NEW c \in A, NEW d \in A, Cardinality(Ahead(c, A)) = Cardinality(Ahead(d, A))
      PROVE  c = d
  <2>1. ~Before(c, d) /\ ~Before(d, c)
    BY <1>1, AheadGrows, AheadFinite
  <2> QED
    BY <2>1, Ordered
<1>2. \A c \in A : f[c] \in T
  BY AheadWithin
<1>3. f \in [A -> T]
  BY <1>2
<1>4. f \in Injection(A, T)
  BY <1>1, <1>3 DEF Injection, IsInjective
<1>5. Cardinality(A) \in Nat
  BY FS_CardinalityType
<1>6. IsFiniteSet(T) /\ Cardinality(T) = Cardinality(A)
  BY <1>5, FS_Interval
<1>7. f \in Surjection(A, T)
  <2> HIDE DEF f, T
  <2> QED
    BY <1>4, <1>6, FS_Injection
<1>8. \A n \in T : \E c \in A : f[c] = n
  BY <1>7 DEF Surjection
<1> QED
  BY <1>1, <1>8

-----------------------------------------------------------------------------
(* The K first pairs.                                                      *)

Top(A) == {c \in A : Cardinality(Ahead(c, A)) < K}
Count(A) == IF Cardinality(A) < K THEN Cardinality(A) ELSE K
Listed(A) == [r \in 1..Count(A) |-> CHOOSE c \in A : Cardinality(Ahead(c, A)) = r - 1]

LEMMA CountIs ==
    ASSUME NEW A, IsFiniteSet(A)
    PROVE  /\ Count(A) \in Nat /\ Count(A) <= K /\ Count(A) <= Cardinality(A)
           /\ K \in Nat /\ Cardinality(A) \in Nat
           /\ Cardinality(A) >= K => Count(A) = K
  BY SizeAssumption, FS_CardinalityType DEF Count

LEMMA ListedIs ==
    ASSUME NEW A \in SUBSET AllPairs, IsFiniteSet(A)
    PROVE  /\ Len(Listed(A)) = Count(A)
           /\ \A r \in 1..Count(A) :
                 Listed(A)[r] \in Top(A) /\ Cardinality(Ahead(Listed(A)[r], A)) = r - 1
           /\ \A c \in Top(A) : /\ Cardinality(Ahead(c, A)) + 1 \in 1..Count(A)
                                /\ Listed(A)[Cardinality(Ahead(c, A)) + 1] = c
<1>1. Count(A) \in Nat /\ Count(A) <= K /\ Count(A) <= Cardinality(A) /\ K \in Nat /\ Cardinality(A) \in Nat
  BY CountIs
<1>2. Len(Listed(A)) = Count(A)
  BY <1>1 DEF Listed
<1>3. ASSUME NEW r \in 1..Count(A)
      PROVE  Listed(A)[r] \in Top(A) /\ Cardinality(Ahead(Listed(A)[r], A)) = r - 1
  <2>1. r - 1 \in 0..(Cardinality(A) - 1) /\ r - 1 < K
    BY <1>1
  <2>2. \E c \in A : Cardinality(Ahead(c, A)) = r - 1
    BY <2>1, Places
  <2>3. Listed(A)[r] = CHOOSE c \in A : Cardinality(Ahead(c, A)) = r - 1
    BY DEF Listed
  <2>4. Listed(A)[r] \in A /\ Cardinality(Ahead(Listed(A)[r], A)) = r - 1
    BY <2>2, <2>3
  <2> QED
    BY <2>1, <2>4 DEF Top
<1>4. ASSUME NEW c \in Top(A)
      PROVE  /\ Cardinality(Ahead(c, A)) + 1 \in 1..Count(A)
             /\ Listed(A)[Cardinality(Ahead(c, A)) + 1] = c
  <2>1. c \in A /\ Cardinality(Ahead(c, A)) < K
    BY DEF Top
  <2>2. Cardinality(Ahead(c, A)) \in 0..(Cardinality(A) - 1)
    BY <2>1, AheadWithin
  <2>3. Cardinality(Ahead(c, A)) + 1 \in 1..Count(A)
    BY <1>1, <2>1, <2>2 DEF Count
  <2>4. /\ Listed(A)[Cardinality(Ahead(c, A)) + 1] \in A
        /\ Cardinality(Ahead(Listed(A)[Cardinality(Ahead(c, A)) + 1], A)) = Cardinality(Ahead(c, A))
    BY <1>3, <2>2, <2>3 DEF Top
  <2>5. Listed(A)[Cardinality(Ahead(c, A)) + 1] = c
    BY <2>1, <2>4, Places
  <2> QED
    BY <2>3, <2>5
<1> QED
  BY <1>2, <1>3, <1>4

LEMMA TopCount ==
    ASSUME NEW A \in SUBSET AllPairs, IsFiniteSet(A)
    PROVE  IsFiniteSet(Top(A)) /\ Cardinality(Top(A)) = Count(A)
<1> DEFINE T == 1..Count(A)
<1>1. Count(A) \in Nat
  BY CountIs
<1>2. IsFiniteSet(T) /\ Cardinality(T) = Count(A)
  BY <1>1, FS_Interval
<1>3. Listed(A) \in [T -> Top(A)]
  BY ListedIs DEF Listed
<1>4. \A c \in Top(A) : \E r \in T : Listed(A)[r] = c
  BY ListedIs
<1>5. ASSUME NEW r \in T, NEW u \in T, Listed(A)[r] = Listed(A)[u] PROVE r = u
  <2>1. r - 1 = u - 1
    BY <1>5, ListedIs
  <2>2. r \in Nat /\ u \in Nat
    BY <1>1
  <2> QED
    BY <2>1, <2>2
<1>6. Listed(A) \in Bijection(T, Top(A))
  <2> HIDE DEF T
  <2> QED
    BY <1>3, <1>4, <1>5 DEF Bijection, Injection, Surjection, IsInjective
<1>7. ExistsBijection(T, Top(A))
  BY <1>6 DEF ExistsBijection
<1> QED
  <2> HIDE DEF T
  <2> QED
    BY <1>2, <1>7, FS_Bijection

(* Nothing in front of a pair of Top is missing from it. *)
LEMMA TopClosed ==
    ASSUME NEW A \in SUBSET AllPairs, IsFiniteSet(A), NEW c \in Top(A), NEW d \in A, Before(d, c)
    PROVE  d \in Top(A)
<1>1. Cardinality(Ahead(d, A)) < Cardinality(Ahead(c, A))
  BY AheadGrows DEF Top
<1>2. /\ Cardinality(Ahead(d, A)) \in Nat /\ Cardinality(Ahead(c, A)) \in Nat /\ K \in Nat
      /\ Cardinality(Ahead(c, A)) < K
  BY AheadFinite, SizeAssumption DEF Top
<1> QED
  BY <1>1, <1>2 DEF Top

(* A set of which K pairs are taken has them in front of the others. *)
LEMMA TopFirst ==
    ASSUME NEW A \in SUBSET AllPairs, IsFiniteSet(A), NEW c \in A \ Top(A)
    PROVE  Cardinality(Top(A)) = K /\ \A e \in Top(A) : Before(e, c)
<1>1. Cardinality(Ahead(c, A)) >= K /\ Cardinality(Ahead(c, A)) \in 0..(Cardinality(A) - 1)
  BY AheadWithin, SizeAssumption DEF Top
<1>2. Cardinality(A) >= K
  BY <1>1, CountIs
<1>3. Cardinality(Top(A)) = K
  BY <1>2, CountIs, TopCount
<1>4. ASSUME NEW e \in Top(A) PROVE Before(e, c)
  <2>1. e \in A /\ e # c
    BY DEF Top
  <2>2. Before(c, e) => c \in Top(A)
    BY TopClosed
  <2> QED
    BY <2>1, <2>2, Ordered
<1> QED
  BY <1>3, <1>4

LEMMA TopOfTop ==
    ASSUME NEW A \in SUBSET AllPairs, IsFiniteSet(A)
    PROVE  Listed(Top(A)) = Listed(A)
<1>1. Top(A) \in SUBSET AllPairs /\ IsFiniteSet(Top(A)) /\ Top(A) \in SUBSET A
  BY TopCount DEF Top
<1>2. ASSUME NEW c \in Top(A) PROVE Ahead(c, Top(A)) = Ahead(c, A)
  BY TopClosed DEF Ahead, Top
<1>3. Top(Top(A)) = Top(A)
  BY <1>2 DEF Top
<1>4. Count(Top(A)) = Count(A)
  BY <1>1, <1>3, TopCount
<1>5. ASSUME NEW r \in 1..Count(A) PROVE Listed(Top(A))[r] = Listed(A)[r]
  <2>1. Listed(Top(A))[r] \in Top(A) /\ Cardinality(Ahead(Listed(Top(A))[r], Top(A))) = r - 1
    BY <1>1, <1>3, <1>4, ListedIs
  <2>2. Cardinality(Ahead(Listed(Top(A))[r], A)) = r - 1
    BY <1>2, <2>1
  <2>3. Listed(A)[r] \in A /\ Cardinality(Ahead(Listed(A)[r], A)) = r - 1
    BY ListedIs DEF Top
  <2> QED
    BY <1>1, <2>1, <2>2, <2>3, Places
<1> QED
  BY <1>4, <1>5 DEF Listed

(* Pairs beyond the K first ones may be dropped before a merge. *)
LEMMA TopMerges ==
    ASSUME NEW A \in SUBSET AllPairs, IsFiniteSet(A), NEW C \in SUBSET AllPairs, IsFiniteSet(C)
    PROVE  Top(Top(A) \cup C) = Top(A \cup C)
<1>1. IsFiniteSet(A \cup C) /\ A \cup C \in SUBSET AllPairs
  BY FS_Union
<1>2. IsFiniteSet(Top(A)) /\ Top(A) \in SUBSET A
  BY TopCount DEF Top
<1>3. IsFiniteSet(Top(A) \cup C) /\ Top(A) \cup C \in SUBSET AllPairs
  BY <1>2, FS_Union
<1>4. K \in Nat
  BY SizeAssumption
<1>5. ASSUME NEW x \in Top(A \cup C) PROVE x \in Top(Top(A) \cup C)
  <2>1. x \in A \cup C /\ Cardinality(Ahead(x, A \cup C)) < K
    BY DEF Top
  <2>2. Ahead(x, A) \in SUBSET Ahead(x, A \cup C) /\ Ahead(x, Top(A) \cup C) \in SUBSET Ahead(x, A \cup C)
    BY <1>2 DEF Ahead
  <2>3. IsFiniteSet(Ahead(x, A \cup C)) /\ Cardinality(Ahead(x, A \cup C)) \in Nat
    BY <1>1, AheadFinite
  <2>4. /\ Cardinality(Ahead(x, A)) <= Cardinality(Ahead(x, A \cup C))
        /\ Cardinality(Ahead(x, Top(A) \cup C)) <= Cardinality(Ahead(x, A \cup C))
    BY <2>2, <2>3, FS_Subset
  <2>5. Cardinality(Ahead(x, A)) \in Nat /\ Cardinality(Ahead(x, Top(A) \cup C)) \in Nat
    BY <1>3, AheadFinite
  <2>6. Cardinality(Ahead(x, A)) < K /\ Cardinality(Ahead(x, Top(A) \cup C)) < K
    BY <1>4, <2>1, <2>3, <2>4, <2>5
  <2> QED
    BY <2>1, <2>6 DEF Top
<1>6. ASSUME NEW x \in Top(Top(A) \cup C) PROVE x \in Top(A \cup C)
  <2>1. x \in Top(A) \cup C /\ Cardinality(Ahead(x, Top(A) \cup C)) < K
    BY DEF Top
  <2>2. ASSUME NEW y \in A \ Top(A), Before(y, x) PROVE FALSE
    <3>1. Cardinality(Top(A)) = K /\ \A e \in Top(A) : Before(e, y)
      BY TopFirst
    <3>2. Top(A) \in SUBSET Ahead(x, Top(A) \cup C)
      <4>1. x \in AllPairs /\ y \in AllPairs /\ Top(A) \in SUBSET AllPairs
        BY <1>2, <2>1
      <4> QED
        BY <2>2, <3>1, <4>1, Ordered DEF Ahead
    <3>3. IsFiniteSet(Ahead(x, Top(A) \cup C)) /\ Cardinality(Ahead(x, Top(A) \cup C)) \in Nat
      BY <1>3, AheadFinite
    <3>4. Cardinality(Top(A)) <= Cardinality(Ahead(x, Top(A) \cup C))
      BY <3>2, <3>3, FS_Subset
    <3> QED
      BY <1>4, <2>1, <3>1, <3>3, <3>4
  <2>3. Ahead(x, A \cup C) = Ahead(x, Top(A) \cup C)
    BY <1>2, <2>2 DEF Ahead
  <2>4. x \in A \cup C
    BY <1>2, <2>1
  <2> QED
    BY <2>1, <2>3, <2>4 DEF Top
<1> QED
  BY <1>5, <1>6

-----------------------------------------------------------------------------
(* Shards.                                                                 *)

Base == NRow \div NShards
Extra == NRow % NShards
FirstRow(s) == 1 + s * Base + (IF s < Extra THEN s ELSE Extra)
LastOf(s) == FirstRow(s) + Base + (IF s < Extra THEN 1 ELSE 0) - 1

LEMMA Division ==
    ASSUME NEW n \in Nat, NEW d \in Nat \ {0}
    PROVE  n \div d \in Nat /\ n % d \in Nat /\ n % d < d /\ n = d * (n \div d) + (n % d)
<1>1. n = d * (n \div d) + (n % d)
  OBVIOUS
<1>2. n % d \in Nat /\ n % d < d /\ n \div d \in Nat
  OBVIOUS
<1> QED
  BY <1>1, <1>2

LEMMA Divided ==
    /\ NShards \in Nat \ {0} /\ NRow \in Nat \ {0}
    /\ Base \in Nat \ {0} /\ Extra \in Nat /\ Extra < NShards
    /\ NRow = NShards * Base + Extra
<1>1. NShards \in Nat \ {0} /\ NRow \in Nat \ {0} /\ 2 * NShards <= NRow
  BY SizeAssumption
<1>3. Base \in Nat /\ Extra \in Nat /\ Extra < NShards /\ NRow = NShards * Base + Extra
  BY <1>1, Division DEF Base, Extra
<1>4. ASSUME Base = 0 PROVE FALSE
  <2>1. NShards * 0 = 0
    BY <1>1
  <2>2. NRow = Extra
    BY <1>1, <1>3, <1>4, <2>1
  <2> QED
    BY <1>1, <1>3, <2>2
<1> QED
  BY <1>1, <1>3, <1>4

LEMMA TimesLess ==
    ASSUME NEW a \in Nat, NEW b \in Nat, NEW c \in Nat, a < b
    PROVE  a * c + c <= b * c /\ a * c \in Nat /\ (a + 1) * c = a * c + c
<1>1. PICK d \in Nat : b = a + 1 + d
  BY b = a + 1 + (b - a - 1), b - a - 1 \in Nat
<1>2. b * c = a * c + c + d * c /\ (a + 1) * c = a * c + c
  BY <1>1
<1>3. d * c \in Nat /\ a * c \in Nat
  OBVIOUS
<1> QED
  BY <1>2, <1>3

LEMMA ShardIs == \A s \in Shards : ShardRows(s) = FirstRow(s)..LastOf(s)
<1> SUFFICES ASSUME NEW s \in Shards PROVE ShardRows(s) = FirstRow(s)..LastOf(s)
  OBVIOUS
<1>1. ShardRows(s) = FirstRow(s)..(FirstRow(s) + (Base + (IF s < Extra THEN 1 ELSE 0)) - 1)
  BY DEF ShardRows, FirstRow, Base, Extra
<1>2. s \in Nat /\ s * Base \in Nat
  BY Divided DEF Shards
<1> QED
  BY <1>1, <1>2, Divided DEF FirstRow, LastOf

Less == OpToRel(<, Nat)

LEMMA LessWellFounded == IsWellFoundedOn(Less, Nat)
  BY NatLessThanWellFounded DEF Less, OpToRel

LEMMA LessIs == ASSUME NEW m \in Nat, NEW n \in Nat
                PROVE  <<m, n>> \in Less <=> m < n
  BY DEF Less, OpToRel

(* A set of numbers has a least one. *)
LEMMA LeastOf ==
    ASSUME NEW T, T \subseteq Nat, T # {}
    PROVE  \E x \in T : \A y \in T : x <= y
<1>1. PICK x \in T : \A y \in T : ~(<<y, x>> \in Less)
  BY LessWellFounded, WFMin
<1>2. ASSUME NEW y \in T PROVE x <= y
  <2>1. x \in Nat /\ y \in Nat
    BY <1>1
  <2>2. ~(y < x)
    BY <1>1, <2>1, LessIs
  <2> QED
    BY <2>1, <2>2
<1> QED
  BY <1>2

(* The shards are ranges of rows, one behind the other. *)
LEMMA ShardBounds ==
    ASSUME NEW s \in Shards
    PROVE  /\ s \in Nat /\ FirstRow(s) \in Nat /\ LastOf(s) \in Nat
           /\ 1 <= FirstRow(s) /\ FirstRow(s) <= LastOf(s) /\ LastOf(s) <= NRow
           /\ LastOf(s) = NRow <=> s = NShards - 1
           /\ s = 0 => FirstRow(s) = 1
           /\ s > 0 => FirstRow(s) = LastOf(s - 1) + 1
<1>1. s \in Nat /\ s < NShards
  BY Divided DEF Shards
<1>2. s * Base + Base <= NShards * Base /\ s * Base \in Nat
  BY <1>1, Divided, TimesLess
<1>3. s = 0 => s * Base = 0
  BY Divided
<1>4. s # NShards - 1 => s * Base + Base + Base <= NShards * Base
  <2> SUFFICES ASSUME s # NShards - 1 PROVE s * Base + Base + Base <= NShards * Base
    OBVIOUS
  <2>1. s + 1 \in Nat /\ s + 1 < NShards
    BY <1>1, Divided
  <2>2. (s + 1) * Base + Base <= NShards * Base
    BY <2>1, Divided, TimesLess
  <2>3. (s + 1) * Base = s * Base + Base
    BY <1>1, Divided, TimesLess
  <2> QED
    BY <2>2, <2>3
<1>5. s = NShards - 1 => s * Base + Base = NShards * Base
  <2> SUFFICES ASSUME s = NShards - 1 PROVE s * Base + Base = NShards * Base
    OBVIOUS
  <2>1. (s + 1) * Base = s * Base + Base
    BY <1>1, Divided, TimesLess
  <2>2. s + 1 = NShards
    BY <1>1, Divided
  <2> QED
    BY <2>1, <2>2
<1>6. s > 0 => s * Base = (s - 1) * Base + Base
  <2> SUFFICES ASSUME s > 0 PROVE s * Base = (s - 1) * Base + Base
    OBVIOUS
  <2>1. s - 1 \in Nat /\ s - 1 < s /\ (s - 1) + 1 = s
    BY <1>1
  <2>2. ((s - 1) + 1) * Base = (s - 1) * Base + Base
    BY <1>1, <2>1, Divided, TimesLess
  <2> QED
    BY <2>1, <2>2
<1>7. s > 0 => (s - 1) * Base \in Int
  BY <1>1, Divided
<1>8. s * Base + Base + Extra <= NRow
  BY <1>1, <1>2, Divided
<1>9. /\ FirstRow(s) \in Nat /\ LastOf(s) \in Nat
      /\ 1 <= FirstRow(s) /\ FirstRow(s) <= LastOf(s)
  BY <1>1, <1>2, Divided DEF FirstRow, LastOf
<1>10. LastOf(s) = s * Base + Base + (IF s < Extra THEN s + 1 ELSE Extra)
  BY <1>1, <1>2, Divided DEF FirstRow, LastOf
<1>11. LastOf(s) <= NRow
  BY <1>1, <1>2, <1>8, <1>10, Divided
<1>12. LastOf(s) = NRow <=> s = NShards - 1
  BY <1>1, <1>2, <1>4, <1>5, <1>10, Divided
<1>13. s > 0 => FirstRow(s) = LastOf(s - 1) + 1
  BY <1>1, <1>2, <1>6, <1>7, Divided DEF FirstRow, LastOf
<1> QED
  BY <1>1, <1>3, <1>9, <1>11, <1>12, <1>13, Divided DEF FirstRow

LEMMA ShardWithin == \A s \in Shards : ShardRows(s) \subseteq Rows /\ IsFiniteSet(ShardRows(s))
<1> SUFFICES ASSUME NEW s \in Shards PROVE ShardRows(s) \subseteq Rows /\ IsFiniteSet(ShardRows(s))
  OBVIOUS
<1>1. FirstRow(s) \in Nat /\ LastOf(s) \in Nat /\ 1 <= FirstRow(s) /\ LastOf(s) <= NRow
  BY ShardBounds
<1>2. IsFiniteSet(FirstRow(s)..LastOf(s))
  BY <1>1, FS_Interval
<1>3. FirstRow(s)..LastOf(s) \subseteq Rows
  BY <1>1, Divided DEF Rows
<1> QED
  BY <1>2, <1>3, ShardIs

(* The last shard, and only that one, ends with the last row. *)
LEMMA LastShard == \A s \in Shards : NRow \in ShardRows(s) <=> s = NShards - 1
  BY ShardBounds, ShardIs, Divided

LEMMA ShardsCover == \A i \in Rows : \E s \in Shards : i \in ShardRows(s)
<1> SUFFICES ASSUME NEW i \in Rows PROVE \E s \in Shards : i \in ShardRows(s)
  OBVIOUS
<1> DEFINE T == {s \in Shards : i <= LastOf(s)}
<1>1. NShards - 1 \in Shards /\ LastOf(NShards - 1) = NRow
  BY Divided, ShardBounds DEF Shards
<1>2. NShards - 1 \in T /\ T \subseteq Nat
  BY <1>1, Divided DEF Rows, Shards
<1>3. PICK s \in T : \A t \in T : s <= t
  <2> HIDE DEF T
  <2> QED
    BY <1>2, LeastOf
<1>4. /\ s \in Shards /\ i <= LastOf(s) /\ s \in Nat /\ LastOf(s) \in Nat /\ FirstRow(s) \in Nat
      /\ s = 0 => FirstRow(s) = 1
      /\ s > 0 => FirstRow(s) = LastOf(s - 1) + 1
  BY <1>3, ShardBounds
<1>5. i \in Nat /\ 1 <= i
  BY DEF Rows
<1>6. FirstRow(s) <= i
  <2>1. CASE s = 0
    BY <1>4, <1>5, <2>1
  <2>2. CASE s > 0
    <3>1. s - 1 \in Shards /\ ~(s <= s - 1)
      BY <1>4, <2>2, Divided DEF Shards
    <3>2. s - 1 \notin T
      BY <1>3, <3>1
    <3>3. ~(i <= LastOf(s - 1)) /\ LastOf(s - 1) \in Nat
      BY <3>1, <3>2, ShardBounds
    <3> QED
      BY <1>4, <1>5, <2>2, <3>3
  <2> QED
    BY <1>4, <2>1, <2>2
<1>7. i \in FirstRow(s)..LastOf(s)
  BY <1>4, <1>5, <1>6
<1> QED
  BY <1>4, <1>7, ShardIs

-----------------------------------------------------------------------------
(* What the indexes of one version of the source return.                   *)

TruePairs(v, q) == {<<Distance(v, q, i), i>> : i \in Rows \ {q}}

LEMMA TrueFinite ==
    ASSUME NEW v \in Versions, NEW q \in Rows, NEW A \in SUBSET TruePairs(v, q)
    PROVE  A \in SUBSET AllPairs /\ IsFiniteSet(A) /\ Best(A) = A
<1> DEFINE S == Rows \ {q}
           f == [i \in S |-> <<Distance(v, q, i), i>>]
<1>1. TruePairs(v, q) \in SUBSET AllPairs
  BY AnswerAssumption DEF TruePairs, AllPairs
<1>2. f \in Surjection(S, TruePairs(v, q))
  BY DEF Surjection, TruePairs
<1>3. IsFiniteSet(Rows)
  BY Divided, FS_Interval DEF Rows
<1>4. IsFiniteSet(S)
  BY <1>3, FS_Difference
<1>5. IsFiniteSet(TruePairs(v, q))
  <2> HIDE DEF f, S
  <2> QED
    BY <1>2, <1>4, FS_Surjection
<1>6. IsFiniteSet(A)
  BY <1>5, FS_Subset
<1>7. ASSUME NEW c \in A PROVE c \in Best(A)
  <2>1. ASSUME NEW e \in A, e[2] = c[2] PROVE c[1] <= e[1]
    <3>1. e = c
      BY <2>1 DEF TruePairs
    <3>2. c[1] \in Nat
      BY <1>1 DEF AllPairs
    <3> QED
      BY <3>1, <3>2
  <2> QED
    BY <2>1 DEF Best
<1>8. Best(A) \subseteq A
  BY DEF Best
<1> QED
  BY <1>1, <1>6, <1>7, <1>8

LEMMA Selected ==
    ASSUME NEW v \in Versions, NEW q \in Rows, NEW A \in SUBSET TruePairs(v, q)
    PROVE  Select(A) = Listed(A)
  BY TrueFinite DEF Select, Listed, Count

LEMMA CandidatesTrue ==
    ASSUME NEW v \in Versions, NEW b \in Builds, NEW s \in Shards, NEW q \in Rows
    PROVE  Candidates(v, b, s, q) \in SUBSET TruePairs(v, q)
<1>1. Returned(v, b, s, q) \subseteq Rows
  BY AnswerAssumption, ShardWithin
<1> QED
  BY <1>1 DEF Candidates, TruePairs

LEMMA GatheredTrue ==
    ASSUME NEW v \in Versions, NEW q \in Rows, NEW used \in [Shards -> SUBSET Builds]
    PROVE  Gathered(v, used, q) \in SUBSET TruePairs(v, q)
<1>1. ASSUME NEW c \in Gathered(v, used, q) PROVE c \in TruePairs(v, q)
  <2>1. PICK s \in Shards : c \in UNION {Candidates(v, b, s, q) : b \in used[s]}
    BY DEF Gathered
  <2>2. PICK b \in used[s] : c \in Candidates(v, b, s, q)
    BY <2>1
  <2>3. b \in Builds
    BY <2>1, <2>2
  <2> QED
    BY <2>1, <2>2, <2>3, CandidatesTrue
<1> QED
  BY <1>1

More(used, s, b) == [used EXCEPT ![s] = @ \cup {b}]

(* One more build of a shard adds its candidates. *)
LEMMA GatheredMore ==
    ASSUME NEW v \in Versions, NEW q \in Rows, NEW used \in [Shards -> SUBSET Builds],
           NEW s \in Shards, NEW b \in Builds
    PROVE  /\ More(used, s, b) \in [Shards -> SUBSET Builds]
           /\ Gathered(v, More(used, s, b), q) = Gathered(v, used, q) \cup Candidates(v, b, s, q)
<1> DEFINE more == More(used, s, b)
<1>1. more \in [Shards -> SUBSET Builds] /\ more[s] = used[s] \cup {b}
      /\ \A t \in Shards : t # s => more[t] = used[t]
  BY DEF More
<1> HIDE DEF more
<1>2. ASSUME NEW c PROVE c \in Gathered(v, more, q) <=> \E t \in Shards : \E d \in more[t] : c \in Candidates(v, d, t, q)
  BY DEF Gathered
<1>3. ASSUME NEW c PROVE c \in Gathered(v, used, q) <=> \E t \in Shards : \E d \in used[t] : c \in Candidates(v, d, t, q)
  BY DEF Gathered
<1>4. ASSUME NEW c \in Gathered(v, more, q) PROVE c \in Gathered(v, used, q) \cup Candidates(v, b, s, q)
  <2>0. PICK t \in Shards : \E d \in more[t] : c \in Candidates(v, d, t, q)
    BY <1>2
  <2>1. PICK d \in more[t] : c \in Candidates(v, d, t, q)
    BY <2>0
  <2> QED
    BY <1>1, <1>3, <2>1
<1>5. ASSUME NEW c \in Gathered(v, used, q) PROVE c \in Gathered(v, more, q)
  <2>0. PICK t \in Shards : \E d \in used[t] : c \in Candidates(v, d, t, q)
    BY <1>3
  <2>1. PICK d \in used[t] : c \in Candidates(v, d, t, q)
    BY <2>0
  <2>2. d \in more[t]
    BY <1>1, <2>1
  <2> QED
    BY <1>2, <2>1, <2>2
<1>6. ASSUME NEW c \in Candidates(v, b, s, q) PROVE c \in Gathered(v, more, q)
  BY <1>1, <1>2, <1>6
<1>7. Gathered(v, more, q) = Gathered(v, used, q) \cup Candidates(v, b, s, q)
  BY <1>4, <1>5, <1>6
<1> QED
  BY <1>1, <1>7 DEF more

(* When each shard has answered, there are K neighbours or more. *)
LEMMA GatheredEnough ==
    ASSUME NEW v \in Versions, NEW q \in Rows, NEW used \in [Shards -> SUBSET Builds],
           \A s \in Shards : used[s] # {}
    PROVE  Cardinality(Gathered(v, used, q)) >= K
<1> DEFINE G == Gathered(v, used, q)
           f(T) == [i \in T |-> <<Distance(v, q, i), i>>]
<1>1. G \in SUBSET TruePairs(v, q) /\ IsFiniteSet(G)
  BY GatheredTrue, TrueFinite
<1>2. ASSUME NEW T \in SUBSET (Rows \ {q}), \A i \in T : <<Distance(v, q, i), i>> \in G
      PROVE  Cardinality(T) <= Cardinality(G)
  <2>1. f(T) \in [T -> G]
    BY <1>2
  <2>2. \A i, j \in T : f(T)[i] = f(T)[j] => i = j
    OBVIOUS
  <2>3. f(T) \in Injection(T, G)
    <3> HIDE DEF f, G
    <3> QED
      BY <2>1, <2>2 DEF Injection, IsInjective
  <2> HIDE DEF f, G
  <2> QED
    BY <1>1, <2>3, FS_Injection
<1>3. ASSUME NEW s \in Shards, NEW b \in used[s], NEW i \in Returned(v, b, s, q) \ {q}
      PROVE  <<Distance(v, q, i), i>> \in G
  <2>1. <<Distance(v, q, i), i>> \in Candidates(v, b, s, q)
    BY DEF Candidates
  <2> QED
    BY <2>1 DEF Gathered
<1>4. Cardinality(G) \in Nat
  BY <1>1, FS_CardinalityType
<1>5. CASE \E s \in Shards : \E b \in used[s] : Cardinality(Returned(v, b, s, q) \ {q}) >= K
  <2>0. PICK s \in Shards : \E b \in used[s] : Cardinality(Returned(v, b, s, q) \ {q}) >= K
    BY <1>5
  <2>1. PICK b \in used[s] : Cardinality(Returned(v, b, s, q) \ {q}) >= K
    BY <2>0
  <2>2. b \in Builds
    BY <2>1
  <2>3. Returned(v, b, s, q) \in SUBSET ShardRows(s) /\ ShardRows(s) \subseteq Rows /\ IsFiniteSet(ShardRows(s))
    BY <2>2, AnswerAssumption, ShardWithin
  <2>4. IsFiniteSet(Returned(v, b, s, q) \ {q}) /\ Returned(v, b, s, q) \ {q} \in SUBSET (Rows \ {q})
    BY <2>3, FS_Subset, FS_Difference
  <2>5. Cardinality(Returned(v, b, s, q) \ {q}) <= Cardinality(G)
    BY <1>2, <1>3, <2>1, <2>4
  <2>6. Cardinality(Returned(v, b, s, q) \ {q}) \in Nat /\ K \in Nat
    BY <2>4, FS_CardinalityType, SizeAssumption
  <2> QED
    BY <1>4, <2>1, <2>5, <2>6
<1>6. CASE \A s \in Shards : \A b \in used[s] : ~(Cardinality(Returned(v, b, s, q) \ {q}) >= K)
  <2>1. ASSUME NEW i \in Rows \ {q} PROVE <<Distance(v, q, i), i>> \in G
    <3>1. PICK s \in Shards : i \in ShardRows(s)
      BY ShardsCover
    <3>2. PICK b \in used[s] : TRUE
      BY <3>1
    <3>3. Returned(v, b, s, q) = ShardRows(s)
      BY <1>6, <3>1, <3>2, AnswerAssumption
    <3> QED
      BY <1>3, <3>1, <3>2, <3>3
  <2>2. Cardinality(Rows \ {q}) <= Cardinality(G)
    BY <1>2, <2>1
  <2>3. IsFiniteSet(Rows) /\ Cardinality(Rows) = NRow
    BY Divided, FS_Interval DEF Rows
  <2>4. Cardinality(Rows \ {q}) = NRow - 1
    BY <2>3, FS_RemoveElement
  <2>5. K \in Nat /\ NRow \in Nat /\ K <= NRow - 1
    BY SizeAssumption
  <2> QED
    BY <1>4, <2>2, <2>4, <2>5
<1> QED
  BY <1>5, <1>6

-----------------------------------------------------------------------------
(* Rows of the files.                                                      *)

LEMMA RowIs ==
    ASSUME NEW v \in Versions, NEW q \in Rows, NEW A \in SUBSET TruePairs(v, q)
    PROVE  /\ Len(Select(A)) = Count(A) /\ Count(A) \in Nat /\ Count(A) <= K
           /\ \A r \in 1..Count(A) :
                 /\ Select(A)[r] \in Top(A)
                 /\ Select(A)[r] = <<Select(A)[r][1], Select(A)[r][2]>>
                 /\ Select(A)[r][2] \in Rows /\ Select(A)[r][2] # q
                 /\ Select(A)[r][1] \in Nat
                 /\ Select(A)[r][1] = Distance(v, q, Select(A)[r][2])
           /\ \A c \in Top(A) : \E r \in 1..Count(A) : Select(A)[r] = c
<1>1. A \in SUBSET AllPairs /\ IsFiniteSet(A) /\ Select(A) = Listed(A)
  BY TrueFinite, Selected
<1>2. ASSUME NEW r \in 1..Count(A)
      PROVE  /\ Select(A)[r] \in Top(A)
             /\ Select(A)[r] = <<Select(A)[r][1], Select(A)[r][2]>>
             /\ Select(A)[r][2] \in Rows /\ Select(A)[r][2] # q
             /\ Select(A)[r][1] \in Nat
             /\ Select(A)[r][1] = Distance(v, q, Select(A)[r][2])
  <2>1. Select(A)[r] \in Top(A)
    BY <1>1, ListedIs
  <2>2. Select(A)[r] \in TruePairs(v, q)
    BY <2>1 DEF Top
  <2>3. PICK i \in Rows \ {q} : Select(A)[r] = <<Distance(v, q, i), i>>
    BY <2>2 DEF TruePairs
  <2> QED
    BY <2>1, <2>3, AnswerAssumption
<1> QED
  BY <1>1, <1>2, ListedIs, CountIs

LEMMA IdsOf ==
    ASSUME NEW v \in Versions, NEW q \in Rows, NEW A \in SUBSET TruePairs(v, q)
    PROVE  /\ IdRow(Select(A)) \in [Ranks -> 0..NRow]
           /\ DistanceRow(Select(A)) \in DistanceRows
           /\ \A r \in Ranks : IF r <= Count(A)
                               THEN /\ r \in 1..Count(A)
                                    /\ IdRow(Select(A))[r] = Select(A)[r][2]
                                    /\ IdRow(Select(A))[r] # 0
                                    /\ DistanceRow(Select(A))[r] = Select(A)[r][1]
                               ELSE /\ IdRow(Select(A))[r] = 0
                                    /\ DistanceRow(Select(A))[r] = Infinite
<1>1. ASSUME NEW r \in Ranks
      PROVE  IF r <= Count(A)
             THEN /\ r \in 1..Count(A)
                  /\ IdRow(Select(A))[r] = Select(A)[r][2]
                  /\ IdRow(Select(A))[r] \in Rows
                  /\ DistanceRow(Select(A))[r] = Select(A)[r][1]
                  /\ DistanceRow(Select(A))[r] \in Nat
             ELSE /\ IdRow(Select(A))[r] = 0
                  /\ DistanceRow(Select(A))[r] = Infinite
  <2>1. r \in Nat /\ 1 <= r
    BY SizeAssumption DEF Ranks
  <2>2. r <= Count(A) => r \in 1..Count(A)
    BY <2>1, RowIs
  <2> QED
    BY <2>2, RowIs DEF IdRow, DistanceRow
<1>2. Rows \subseteq 0..NRow /\ 0 \in 0..NRow /\ 0 \notin Rows
  BY Divided DEF Rows
<1>3. ASSUME NEW r \in Ranks
      PROVE  IdRow(Select(A))[r] \in 0..NRow /\ DistanceRow(Select(A))[r] \in Nat \cup {Infinite}
  BY <1>1, <1>2
<1>4. IdRow(Select(A)) \in [Ranks -> 0..NRow] /\ DistanceRow(Select(A)) \in DistanceRows
  BY <1>3 DEF IdRow, DistanceRow, DistanceRows
<1> QED
  BY <1>1, <1>2, <1>4

LEMMA PairsOfRow ==
    ASSUME NEW v \in Versions, NEW q \in Rows, NEW A \in SUBSET TruePairs(v, q)
    PROVE  Pairs(IdRow(Select(A)), DistanceRow(Select(A))) = Top(A)
<1> DEFINE ids == IdRow(Select(A))
           dists == DistanceRow(Select(A))
<1>1. \A r \in Ranks : IF r <= Count(A)
                       THEN r \in 1..Count(A) /\ ids[r] # 0 /\ <<dists[r], ids[r]>> = Select(A)[r]
                       ELSE ids[r] = 0
  BY IdsOf, RowIs
<1>2. \A r \in 1..Count(A) : r \in Ranks /\ r <= Count(A)
  BY RowIs, SizeAssumption DEF Ranks
<1> HIDE DEF ids, dists
<1>3. ASSUME NEW c \in Pairs(ids, dists) PROVE c \in Top(A)
  <2>1. PICK r \in Ranks : ids[r] # 0 /\ c = <<dists[r], ids[r]>>
    BY DEF Pairs
  <2> QED
    BY <1>1, <2>1, RowIs
<1>4. ASSUME NEW c \in Top(A) PROVE c \in Pairs(ids, dists)
  <2>1. PICK r \in 1..Count(A) : Select(A)[r] = c
    BY RowIs
  <2>2. r \in Ranks /\ ids[r] # 0 /\ c = <<dists[r], ids[r]>>
    BY <1>1, <1>2, <2>1
  <2> QED
    BY <2>2 DEF Pairs
<1> QED
  BY <1>3, <1>4 DEF ids, dists

LEMMA HeldPairs ==
    ASSUME NEW v \in Versions, NEW q \in Rows, NEW used \in [Shards -> SUBSET Builds],
           NEW ids, NEW dists, Holds(ids, dists, v, used, q)
    PROVE  /\ ids \in [Ranks -> 0..NRow] /\ dists \in DistanceRows
           /\ RowValid(ids, dists)
           /\ Pairs(ids, dists) = Top(Gathered(v, used, q))
<1> DEFINE A == Gathered(v, used, q)
<1>1. A \in SUBSET TruePairs(v, q)
  BY GatheredTrue
<1>2. ids = IdRow(Select(A)) /\ dists = DistanceRow(Select(A))
  BY DEF Holds
<1> HIDE DEF A
<1>3. ids \in [Ranks -> 0..NRow] /\ dists \in DistanceRows /\ Pairs(ids, dists) = Top(A)
  BY <1>1, <1>2, IdsOf, PairsOfRow
<1>4. \A r \in Ranks : ids[r] # 0 => dists[r] \in Nat
  BY <1>1, <1>2, IdsOf, RowIs
<1>5. RowValid(ids, dists)
  BY <1>4, MissingAssumption DEF RowValid
<1> QED
  BY <1>3, <1>5 DEF A

(* A merge of a row with what a build returns adds the build to it, whether *)
(* or not it has been merged before.                                        *)
LEMMA MergeHeld ==
    ASSUME NEW v \in Versions, NEW q \in Rows, NEW used \in [Shards -> SUBSET Builds],
           NEW ids, NEW dists, Holds(ids, dists, v, used, q),
           NEW s \in Shards, NEW b \in Builds
    PROVE  /\ More(used, s, b) \in [Shards -> SUBSET Builds]
           /\ MergeRow(v, b, s, q, ids, dists) = Select(Gathered(v, More(used, s, b), q))
<1> DEFINE A == Gathered(v, used, q)
           C == Candidates(v, b, s, q)
           more == More(used, s, b)
<1>1. more \in [Shards -> SUBSET Builds] /\ Gathered(v, more, q) = A \cup C
  BY GatheredMore
<1>2. A \in SUBSET TruePairs(v, q) /\ C \in SUBSET TruePairs(v, q)
  BY GatheredTrue, CandidatesTrue
<1>3. MergeRow(v, b, s, q, ids, dists) = Select(Top(A) \cup C)
  BY HeldPairs DEF MergeRow
<1> HIDE DEF A, C, more
<1>4. Top(A) \cup C \in SUBSET TruePairs(v, q) /\ A \cup C \in SUBSET TruePairs(v, q)
  BY <1>2 DEF Top
<1>5. /\ A \in SUBSET AllPairs /\ IsFiniteSet(A) /\ C \in SUBSET AllPairs /\ IsFiniteSet(C)
      /\ Top(A) \cup C \in SUBSET AllPairs /\ IsFiniteSet(Top(A) \cup C)
      /\ A \cup C \in SUBSET AllPairs /\ IsFiniteSet(A \cup C)
  BY <1>2, <1>4, TrueFinite
<1>6. Listed(Top(A) \cup C) = Listed(Top(Top(A) \cup C)) /\ Listed(A \cup C) = Listed(Top(A \cup C))
  BY <1>5, TopOfTop
<1>7. Top(Top(A) \cup C) = Top(A \cup C)
  BY <1>5, TopMerges
<1>8. Select(Top(A) \cup C) = Listed(Top(A) \cup C) /\ Select(A \cup C) = Listed(A \cup C)
  BY <1>4, Selected
<1> QED
  BY <1>1, <1>3, <1>6, <1>7, <1>8 DEF more

(* The empty row holds what no build returned. *)
LEMMA EmptyHeld ==
    ASSUME NEW v \in Versions, NEW q \in Rows
    PROVE  LET none == [s \in Shards |-> {}]
           IN  none \in [Shards -> SUBSET Builds] /\ Holds(Rank0, RankInfinite, v, none, q)
<1> DEFINE none == [s \in Shards |-> {}]
<1>1. none \in [Shards -> SUBSET Builds]
  OBVIOUS
<1>2. Gathered(v, none, q) = {}
  BY DEF Gathered
<1>3. Count({}) = 0
  BY FS_EmptySet, SizeAssumption DEF Count
<1>4. {} \in SUBSET TruePairs(v, q)
  OBVIOUS
<1>5. \A r \in Ranks : ~(r <= 0)
  BY SizeAssumption DEF Ranks
<1>6. Len(Select({})) = 0
  BY <1>3, <1>4, RowIs
<1>7. IdRow(Select({})) = Rank0 /\ DistanceRow(Select({})) = RankInfinite
  BY <1>5, <1>6 DEF IdRow, DistanceRow, Rank0, RankInfinite
<1> QED
  BY <1>1, <1>2, <1>7 DEF Holds

LEMMA HeldTrue ==
    ASSUME NEW v \in Versions, NEW q \in Rows, NEW used \in [Shards -> SUBSET Builds],
           NEW ids, NEW dists, Holds(ids, dists, v, used, q), NEW r \in Ranks
    PROVE  IF ids[r] = 0 THEN dists[r] = Infinite
           ELSE /\ ids[r] # q
                /\ dists[r] = Distance(v, q, ids[r])
                /\ r > 1 => /\ ids[r - 1] # 0
                            /\ Before(<<dists[r - 1], ids[r - 1]>>, <<dists[r], ids[r]>>)
<1> DEFINE A == Gathered(v, used, q)
<1>1. A \in SUBSET TruePairs(v, q) /\ A \in SUBSET AllPairs /\ IsFiniteSet(A)
  BY GatheredTrue, TrueFinite
<1>2. ids = IdRow(Select(A)) /\ dists = DistanceRow(Select(A))
  BY DEF Holds
<1> HIDE DEF A
<1>3. \A u \in Ranks : IF u <= Count(A)
                       THEN /\ u \in 1..Count(A) /\ ids[u] # 0 /\ ids[u] = Select(A)[u][2]
                            /\ dists[u] = Select(A)[u][1]
                       ELSE ids[u] = 0 /\ dists[u] = Infinite
  BY <1>1, <1>2, IdsOf
<1>4. ASSUME r <= Count(A), r > 1
      PROVE  ids[r - 1] # 0 /\ Before(<<dists[r - 1], ids[r - 1]>>, <<dists[r], ids[r]>>)
  <2>1. r \in Nat /\ K \in Nat /\ Count(A) \in Nat
    BY <1>1, RowIs, SizeAssumption DEF Ranks
  <2>2. r \in 1..Count(A) /\ r - 1 \in 1..Count(A) /\ r - 1 \in Ranks /\ r - 1 <= Count(A)
    BY <1>4, <2>1 DEF Ranks
  <2>3. <<dists[r - 1], ids[r - 1]>> = Select(A)[r - 1] /\ <<dists[r], ids[r]>> = Select(A)[r]
    BY <1>1, <1>3, <1>4, <2>2, RowIs
  <2>4. /\ Select(A)[r] \in A /\ Cardinality(Ahead(Select(A)[r], A)) = r - 1
        /\ Select(A)[r - 1] \in A /\ Cardinality(Ahead(Select(A)[r - 1], A)) = (r - 1) - 1
    BY <1>1, <2>2, ListedIs, Selected DEF Top
  <2>5. ~Before(Select(A)[r], Select(A)[r - 1]) /\ Select(A)[r] # Select(A)[r - 1]
    <3>1. ~(r - 1 < (r - 1) - 1) /\ r - 1 # (r - 1) - 1
      BY <2>1
    <3> QED
      BY <1>1, <2>4, <3>1, AheadGrows
  <2>6. Before(Select(A)[r - 1], Select(A)[r])
    BY <1>1, <2>4, <2>5, Ordered
  <2> QED
    BY <1>3, <2>2, <2>3, <2>6
<1>5. r <= Count(A) => ids[r] # 0 /\ ids[r] # q /\ dists[r] = Distance(v, q, ids[r])
  BY <1>1, <1>3, RowIs
<1>6. ~(r <= Count(A)) => ids[r] = 0 /\ dists[r] = Infinite
  BY <1>3
<1>7. CASE r <= Count(A)
  BY <1>4, <1>5, <1>7
<1>8. CASE ~(r <= Count(A))
  BY <1>6, <1>8
<1> QED
  BY <1>7, <1>8

LEMMA HeldAbsorbs ==
    ASSUME NEW v \in Versions, NEW q \in Rows, NEW used \in [Shards -> SUBSET Builds],
           NEW ids, NEW dists, Holds(ids, dists, v, used, q),
           NEW s \in Shards, NEW b \in used[s], NEW c \in Candidates(v, b, s, q)
    PROVE  \/ c \in Pairs(ids, dists)
           \/ Cardinality(Pairs(ids, dists)) = K /\ \A e \in Pairs(ids, dists) : Before(e, c)
<1> DEFINE A == Gathered(v, used, q)
<1>0. A \in SUBSET TruePairs(v, q)
  BY GatheredTrue
<1>1. A \in SUBSET AllPairs /\ IsFiniteSet(A)
  BY <1>0, TrueFinite
<1>2. c \in A
  BY DEF Gathered
<1>3. Pairs(ids, dists) = Top(A)
  BY HeldPairs
<1> HIDE DEF A
<1> QED
  BY <1>1, <1>2, <1>3, TopFirst

-----------------------------------------------------------------------------
(* The state.                                                              *)

IdRows == [Ranks -> 0..NRow]

LEMMA MissingIs ==
    /\ Infinite \notin Nat /\ Missing \notin States /\ Missing \notin Pilots
    /\ Missing \notin Seq(IdRows) /\ Missing \notin Seq(DistanceRows)
    /\ Contents["indices"] = Seq(IdRows) /\ Contents["distances"] = Seq(DistanceRows)
    /\ Files = {"indices", "distances"}
  BY MissingAssumption DEF Pilots, Contents, IdRows, DistanceRows, Files

LEMMA PilotIs ==
    ASSUME NEW v \in Versions, NEW b \in Builds, NEW s \in Shards
    PROVE  Pilot(v, b, s) \in Pilots /\ Pilot(v, b, s) # Missing
<1>1. ASSUME NEW q \in Rows, NEW i \in Returned(v, b, s, q)
      PROVE  <<Distance(v, q, i), i>> \in Nat \X Rows
  <2>1. i \in Rows
    BY AnswerAssumption, ShardWithin
  <2> QED
    BY <2>1, AnswerAssumption
<1>2. Pilot(v, b, s) \in Pilots
  BY <1>1 DEF Pilot, Pilots
<1> QED
  BY <1>2, MissingIs

LEMMA StateFields ==
    ASSUME NEW r \in States
    PROVE  /\ r # Missing /\ r.signature \in Versions /\ r.shard \in 0..NShards
           /\ r.completed_rows \in 0..NRow /\ r.pilot_signature \in {Missing} \cup Pilots
           /\ r.shard \in Nat /\ r.completed_rows \in Nat
           /\ r.shard < NShards => r.shard \in Shards
  BY MissingIs, Divided DEF States, Pilots, Shards

LEMMA Parts ==
    ASSUME ShardTypeOK
    PROVE  /\ DOMAIN part = Files /\ DOMAIN final = Files
           /\ part["indices"] \in Seq(IdRows) \cup {Missing}
           /\ part["distances"] \in Seq(DistanceRows) \cup {Missing}
           /\ final["indices"] \in Seq(IdRows) \cup {Missing}
           /\ final["distances"] \in Seq(DistanceRows) \cup {Missing}
           /\ next \in Nat /\ next >= 1 /\ next <= NRow + 1
           /\ sidecar # Missing => sidecar \in States
  BY MissingIs, Divided DEF ShardTypeOK

LEMMA RowsInIs ==
    ASSUME NEW X, NEW content \in Seq(X) \cup {Missing}
    PROVE  /\ RowsIn(content) \in Nat
           /\ content = Missing => RowsIn(content) = 0
           /\ content # Missing => RowsIn(content) = Len(content)
           /\ RowsIn(content) > 0 => content # Missing
           /\ content # Missing => content \in Seq(X)
           /\ content # Missing => \A q \in 1..RowsIn(content) : content[q] \in X
  BY DEF RowsIn

LEMMA OneMore ==
    ASSUME NEW n \in Nat, NEW d \in Nat \ {0}, n % d = 0
    PROVE  (n + d) % d = 0
<1> DEFINE q == n \div d
           p == (n + d) \div d
           r == (n + d) % d
<1>1. q \in Nat /\ n = d * q
  BY Division
<1>2. n + d \in Nat
  OBVIOUS
<1>3. p \in Nat /\ r \in Nat /\ r < d /\ n + d = d * p + r
  BY <1>2, Division
<1> HIDE DEF q, p, r
<1>4. (q + 1) * d = n + d /\ p * d = d * p
  BY <1>1, <1>3
<1>5. CASE p < q + 1
  <2>1. p * d + d <= (q + 1) * d /\ p * d \in Nat
    BY <1>1, <1>3, <1>5, TimesLess
  <2> QED
    BY <1>3, <1>4, <2>1
<1>6. CASE q + 1 < p
  <2>1. (q + 1) * d + d <= p * d /\ p * d \in Nat
    BY <1>1, <1>3, <1>6, TimesLess
  <2> QED
    BY <1>3, <1>4, <2>1
<1>7. CASE p = q + 1
  <2>1. p * d = n + d
    BY <1>4, <1>7
  <2> QED
    BY <1>2, <1>3, <1>4, <2>1 DEF r
<1> QED
  BY <1>1, <1>3, <1>5, <1>6, <1>7

LEMMA BatchEnd ==
    ASSUME next \in Nat, next >= 1, next <= NRow
    PROVE  /\ LastRow \in Nat /\ next <= LastRow /\ LastRow <= NRow
           /\ LastRow + 1 \in 1..(NRow + 1)
           /\ Whole(next - 1) => Whole(LastRow)
<1>1. ChunkRows \in Nat \ {0} /\ NRow \in Nat
  BY SizeAssumption
<1>2. LastRow \in Nat /\ next <= LastRow /\ LastRow <= NRow /\ LastRow + 1 \in 1..(NRow + 1)
  BY <1>1 DEF LastRow
<1>3. ASSUME Whole(next - 1), LastRow # NRow PROVE LastRow % ChunkRows = 0
  <2>0. next - 1 \in Nat /\ next - 1 # NRow
    BY <1>1
  <2>1. (next - 1) % ChunkRows = 0
    BY <1>3, <2>0 DEF Whole
  <2>2. ((next - 1) + ChunkRows) % ChunkRows = 0
    BY <1>1, <2>0, <2>1, OneMore
  <2>3. LastRow = (next - 1) + ChunkRows
    BY <1>1, <1>3 DEF LastRow
  <2> QED
    BY <2>2, <2>3
<1> QED
  BY <1>2, <1>3 DEF Whole

LEMMA WholeEnds == Whole(0) /\ Whole(NRow)
<1>1. ASSUME NEW d \in Nat \ {0} PROVE 0 % d = 0
  OBVIOUS
<1> QED
  BY <1>1, SizeAssumption DEF Whole

(* A file after a write. *)
LEMMA WrittenIs ==
    ASSUME NEW X, NEW content \in Seq(X) \cup {Missing}, Missing \notin Seq(X),
           next \in Nat, next >= 1, next <= NRow, next - 1 <= RowsIn(content),
           NEW rows \in [next..LastRow -> X], NEW j \in 0..(LastRow - next + 1)
    PROVE  LET after == Written(content, rows, j)
           IN  /\ after \in Seq(X) /\ after # Missing
               /\ Len(after) = IF RowsIn(content) < next + j - 1 THEN next + j - 1 ELSE RowsIn(content)
               /\ \A q \in 1..(next - 1) : after[q] = content[q]
               /\ \A q \in (next + j)..RowsIn(content) : after[q] = content[q]
               /\ \A q \in next..(next + j - 1) : after[q] = rows[q]
<1> DEFINE after == Written(content, rows, j)
           old == IF content = Missing THEN <<>> ELSE content
           n == IF RowsIn(content) < next + j - 1 THEN next + j - 1 ELSE RowsIn(content)
<1>1. LastRow \in Nat /\ next <= LastRow /\ RowsIn(content) \in Nat /\ j \in Nat /\ j <= LastRow - next + 1
  BY BatchEnd, RowsInIs
<1>2. Len(old) = RowsIn(content) /\ \A q \in 1..RowsIn(content) : old[q] = content[q] /\ old[q] \in X
  BY <1>1, RowsInIs DEF RowsIn
<1>3. n \in Nat /\ n >= next + j - 1 /\ n >= RowsIn(content)
  BY <1>1
<1>4. after = [q \in 1..n |-> IF q \in next..(next + j - 1) THEN rows[q] ELSE old[q]]
  BY <1>2 DEF Written
<1> HIDE DEF after, old
<1>5. ASSUME NEW q \in 1..n, q \notin next..(next + j - 1)
      PROVE  q \in 1..RowsIn(content)
  BY <1>1, <1>3, <1>5
<1>6. ASSUME NEW q \in next..(next + j - 1) PROVE q \in next..LastRow /\ q \in 1..n
  BY <1>1, <1>3
<1>7. ASSUME NEW q \in 1..n PROVE after[q] \in X
  BY <1>2, <1>4, <1>5, <1>6
<1>8. after \in Seq(X) /\ Len(after) = n
  BY <1>3, <1>4, <1>7
<1>9. ASSUME NEW q \in 1..(next - 1) PROVE after[q] = content[q]
  BY <1>1, <1>2, <1>3, <1>4
<1>10. ASSUME NEW q \in (next + j)..RowsIn(content) PROVE after[q] = content[q]
  BY <1>1, <1>2, <1>3, <1>4
<1>11. ASSUME NEW q \in next..(next + j - 1) PROVE after[q] = rows[q]
  BY <1>4, <1>6
<1> QED
  BY <1>8, <1>9, <1>10, <1>11 DEF after

(* A file after all rows of a batch. *)
BatchWritten(after, before, rows, X) ==
    /\ after \in Seq(X) /\ after # Missing
    /\ Len(after) = IF RowsIn(before) < LastRow THEN LastRow ELSE RowsIn(before)
    /\ \A q \in 1..(next - 1) : after[q] = before[q]
    /\ \A q \in (LastRow + 1)..RowsIn(before) : after[q] = before[q]
    /\ \A q \in next..LastRow : after[q] = rows[q]

LEMMA BatchWrittenIs ==
    ASSUME NEW X, NEW content \in Seq(X) \cup {Missing}, Missing \notin Seq(X),
           next \in Nat, next >= 1, next <= NRow, next - 1 <= RowsIn(content),
           NEW rows \in [next..LastRow -> X]
    PROVE  BatchWritten(Written(content, rows, LastRow - next + 1), content, rows, X)
<1> DEFINE j == LastRow - next + 1
           after == Written(content, rows, j)
<1>1. /\ LastRow \in Nat /\ next <= LastRow /\ j \in 0..(LastRow - next + 1)
      /\ next + j - 1 = LastRow /\ next + j = LastRow + 1
  BY BatchEnd
<1>2. /\ after \in Seq(X) /\ after # Missing
      /\ Len(after) = IF RowsIn(content) < next + j - 1 THEN next + j - 1 ELSE RowsIn(content)
      /\ \A q \in 1..(next - 1) : after[q] = content[q]
      /\ \A q \in (next + j)..RowsIn(content) : after[q] = content[q]
      /\ \A q \in next..(next + j - 1) : after[q] = rows[q]
  <2> HIDE DEF j
  <2> QED
    BY <1>1, WrittenIs
<1> HIDE DEF j, after
<1>3. BatchWritten(after, content, rows, X)
  BY <1>1, <1>2 DEF BatchWritten
<1> QED
  BY <1>3 DEF j, after

-----------------------------------------------------------------------------
(* Rows that are merged.                                                   *)

LEMMA KeptLess ==
    ASSUME NEW ids, NEW dists, NEW v, NEW s, NEW pilot, NEW q, Kept(ids, dists, v, s, pilot, q)
    PROVE  Kept(ids, dists, v, s, Missing, q)
<1>1. PICK used \in [Shards -> SUBSET Builds] :
         Holds(ids, dists, v, used, q) /\ Uses(v, used, s, pilot)
  BY DEF Kept
<1>2. Uses(v, used, s, Missing)
  BY <1>1 DEF Uses
<1> QED
  BY <1>1, <1>2 DEF Kept

LEMMA KeptOn ==
    ASSUME NEW ids, NEW dists, NEW v, NEW s \in Shards, NEW pilot, pilot # Missing, NEW q,
           Kept(ids, dists, v, s, pilot, q)
    PROVE  Kept(ids, dists, v, s + 1, Missing, q)
<1>1. PICK used \in [Shards -> SUBSET Builds] :
         Holds(ids, dists, v, used, q) /\ Uses(v, used, s, pilot)
  BY DEF Kept
<1>2. \A t \in Shards : t \in Nat /\ s \in Nat
  BY Divided DEF Shards
<1>3. used[s] # {}
  BY <1>1 DEF Uses
<1>4. ASSUME NEW t \in Shards PROVE (t < s + 1 => used[t] # {}) /\ (t > s + 1 => used[t] = {})
  <2>1. (t < s + 1 => t < s \/ t = s) /\ (t > s + 1 => t > s)
    BY <1>2
  <2> QED
    BY <1>1, <1>3, <2>1 DEF Uses
<1>5. Uses(v, used, s + 1, Missing)
  BY <1>4 DEF Uses
<1> QED
  BY <1>1, <1>5 DEF Kept

LEMMA KeptEmpty ==
    ASSUME NEW v \in Versions, NEW q \in Rows
    PROVE  Kept(Rank0, RankInfinite, v, 0, Missing, q)
<1> DEFINE none == [s \in Shards |-> {}]
<1>1. none \in [Shards -> SUBSET Builds] /\ Holds(Rank0, RankInfinite, v, none, q)
  BY EmptyHeld
<1>2. \A t \in Shards : ~(t < 0) /\ none[t] = {}
  BY Divided DEF Shards
<1>3. Uses(v, none, 0, Missing)
  BY <1>2 DEF Uses
<1> QED
  BY <1>1, <1>3 DEF Kept

LEMMA KeptMerged ==
    ASSUME NEW v \in Versions, NEW q \in Rows, NEW s \in Shards, NEW b \in Builds,
           NEW ids, NEW dists, NEW pilot, Kept(ids, dists, v, s, pilot, q)
    PROVE  LET row == MergeRow(v, b, s, q, ids, dists)
           IN  /\ Kept(IdRow(row), DistanceRow(row), v, s, Pilot(v, b, s), q)
               /\ IdRow(row) \in IdRows /\ DistanceRow(row) \in DistanceRows
               /\ s = NShards - 1 => Len(row) = K
               /\ RowValid(ids, dists)
<1> DEFINE row == MergeRow(v, b, s, q, ids, dists)
<1>1. PICK used \in [Shards -> SUBSET Builds] :
         Holds(ids, dists, v, used, q) /\ Uses(v, used, s, pilot)
  BY DEF Kept
<1> DEFINE more == More(used, s, b)
           A == Gathered(v, more, q)
<1>2. more \in [Shards -> SUBSET Builds] /\ row = Select(A)
  BY <1>1, MergeHeld
<1>3. more[s] = used[s] \cup {b} /\ \A t \in Shards : t # s => more[t] = used[t]
  BY DEF More
<1>4. A \in SUBSET TruePairs(v, q)
  BY <1>2, GatheredTrue
<1>5. A \in SUBSET AllPairs /\ IsFiniteSet(A)
  <2> HIDE DEF A
  <2> QED
    BY <1>4, TrueFinite
<1>6. RowValid(ids, dists)
  BY <1>1, HeldPairs
<1> HIDE DEF more, row
<1>7. Uses(v, more, s, Pilot(v, b, s))
  <2>1. ASSUME NEW t \in Shards PROVE t = s \/ (t # s /\ more[t] = used[t])
    BY <1>3
  <2>2. \A t \in Shards : t < s => t # s
    BY Divided DEF Shards
  <2>3. \A t \in Shards : t > s => t # s
    BY Divided DEF Shards
  <2> QED
    BY <1>1, <1>3, <2>2, <2>3 DEF Uses
<1>8. Holds(IdRow(row), DistanceRow(row), v, more, q)
  BY <1>2 DEF Holds
<1>9. Kept(IdRow(row), DistanceRow(row), v, s, Pilot(v, b, s), q)
  BY <1>2, <1>7, <1>8 DEF Kept
<1>10. IdRow(row) \in IdRows /\ DistanceRow(row) \in DistanceRows
  <2> HIDE DEF A
  <2> QED
    BY <1>2, <1>4, IdsOf DEF IdRows
<1>11. s = NShards - 1 => Len(row) = K
  <2> SUFFICES ASSUME s = NShards - 1 PROVE Len(row) = K
    OBVIOUS
  <2>1. ASSUME NEW t \in Shards PROVE more[t] # {}
    <3>1. t < s \/ t = s
      BY Divided DEF Shards
    <3>2. t < s => t # s
      BY Divided DEF Shards
    <3> QED
      BY <1>1, <1>3, <3>1, <3>2 DEF Uses
  <2>2. Cardinality(A) >= K
    BY <1>2, <2>1, GatheredEnough
  <2> HIDE DEF A
  <2>3. Count(A) = K
    BY <1>5, <2>2, CountIs
  <2> QED
    BY <1>2, <1>4, <2>3, RowIs
<1> QED
  BY <1>6, <1>9, <1>10, <1>11 DEF row

-----------------------------------------------------------------------------
(* The running call.                                                       *)

LEMMA Running ==
    ASSUME ShardIInv, pc # "idle"
    PROVE  /\ sidecar \in States /\ saved \in States /\ sidecar # Missing
           /\ watched \in Versions /\ watched = sidecar.signature /\ watched = saved.signature
           /\ saved.shard = sidecar.shard /\ saved.completed_rows = sidecar.completed_rows
           /\ saved.shard \in 0..NShards /\ saved.shard \in Nat /\ saved.completed_rows \in 0..NRow
           /\ sidecar.pilot_signature # Missing => saved.pilot_signature = sidecar.pilot_signature
           /\ saved.completed_rows > 0 <=> sidecar.pilot_signature # Missing
           /\ pc \notin Merging => saved = sidecar
           /\ pc \notin {"rename_d", "retire"} =>
                 /\ final["indices"] = Missing /\ final["distances"] = Missing
                 /\ Data("indices") = part["indices"] /\ Data("distances") = part["distances"]
<1> USE DEF ShardIInv
<1>1. /\ sidecar \in States /\ saved \in States
      /\ watched = sidecar.signature /\ saved.signature = sidecar.signature
      /\ saved.shard = sidecar.shard /\ saved.completed_rows = sidecar.completed_rows
      /\ sidecar.pilot_signature # Missing => saved.pilot_signature = sidecar.pilot_signature
      /\ pc \notin Merging => saved = sidecar
  BY DEF CallHolds
<1>2. sidecar # Missing /\ watched \in Versions /\ saved.shard \in 0..NShards
      /\ saved.shard \in Nat /\ saved.completed_rows \in 0..NRow
  BY <1>1, StateFields
<1>3. saved.completed_rows > 0 <=> sidecar.pilot_signature # Missing
  BY <1>1, <1>2 DEF SidecarHolds, RecordWhole
<1>4. pc \notin {"rename_d", "retire"} =>
        /\ final["indices"] = Missing /\ final["distances"] = Missing
        /\ Data("indices") = part["indices"] /\ Data("distances") = part["distances"]
  BY <1>2 DEF NamesHold, Data
<1> QED
  BY <1>1, <1>2, <1>3, <1>4

LEMMA Lengths ==
    ASSUME ShardIInv, pc \notin {"idle", "rename_d", "retire"}
    PROVE  LET ids == RowsIn(part["indices"])
               dists == RowsIn(part["distances"])
           IN  IF saved.shard > 0 THEN ids = NRow /\ dists = NRow
               ELSE CASE pc \in {"search", "save"} -> ids = next - 1 /\ dists = next - 1
                      [] pc = "merge_d" -> ids = LastRow /\ dists = next - 1
                      [] pc = "restore_d" -> /\ ids = saved.completed_rows
                                             /\ dists >= saved.completed_rows
                      [] OTHER -> /\ ids >= saved.completed_rows
                                  /\ dists >= saved.completed_rows
<1>1. \A f \in Files : final[f] = Missing
  BY Running DEF Files
<1> QED
  BY <1>1, Running DEF ShardIInv, LengthsHold

(* What the next batch merges with. *)
LEMMA OldKept ==
    ASSUME ShardIInv, pc = "search", next <= NRow, NEW q \in next..LastRow
    PROVE  q \in Rows /\ Kept(OldIds(q), OldDistances(q), watched, saved.shard, Missing, q)
<1>1. next \in Nat /\ next >= 1
  BY Parts DEF ShardIInv
<1>2. LastRow \in Nat /\ LastRow <= NRow
  BY <1>1, BatchEnd
<1>3. q \in Rows
  BY <1>1, <1>2, Divided DEF Rows
<1>4. CASE saved.shard = 0
  BY <1>3, <1>4, KeptEmpty, Running DEF OldIds, OldDistances
<1>5. CASE saved.shard # 0
  <2>1. sidecar.shard # 0 /\ Underway = {} /\ sidecar # Missing
    BY <1>5, Running DEF Underway
  <2>2. q \in Stable
    BY <1>3, <2>1 DEF Stable
  <2>3. Kept(Data("indices")[q], Data("distances")[q], sidecar.signature, sidecar.shard,
             IF q <= Done THEN PilotNow ELSE Missing, q)
    BY <2>1, <2>2 DEF ShardIInv, RowsHold, RowsKept
  <2>4. Kept(Data("indices")[q], Data("distances")[q], sidecar.signature, sidecar.shard, Missing, q)
    BY <2>3, KeptLess
  <2> QED
    BY <1>3, <1>5, <2>4, Running DEF OldIds, OldDistances
<1> QED
  BY <1>4, <1>5

(* So each row of the batch can be merged. *)
LEMMA BatchKept ==
    ASSUME ShardIInv, pc = "search", next <= NRow, source = watched, NEW q \in next..LastRow
    PROVE  /\ q \in Rows
           /\ Kept(IdRow(MergedRow(q)), DistanceRow(MergedRow(q)), watched, saved.shard,
                   Pilot(watched, build, saved.shard), q)
           /\ IdRow(MergedRow(q)) \in IdRows /\ DistanceRow(MergedRow(q)) \in DistanceRows
           /\ saved.shard = NShards - 1 => Len(MergedRow(q)) = K
           /\ RowValid(OldIds(q), OldDistances(q))
<1>1. saved.shard \in Shards /\ build \in Builds
  BY DEF ShardIInv, CallHolds, InShard
<1>2. watched \in Versions
  BY Running
<1>3. q \in Rows /\ Kept(OldIds(q), OldDistances(q), watched, saved.shard, Missing, q)
  BY OldKept
<1>4. MergedRow(q) = MergeRow(watched, build, saved.shard, q, OldIds(q), OldDistances(q))
  BY DEF MergedRow
<1> QED
  BY <1>1, <1>2, <1>3, <1>4, KeptMerged

-----------------------------------------------------------------------------
(* What every step that leaves some variables alone preserves.             *)

(* What the sidecar says of a row, at any point of a call. *)
LEMMA RecordedRow ==
    ASSUME ShardIInv, sidecar # Missing, NEW q \in Stable
    PROVE  Kept(Data("indices")[q], Data("distances")[q], sidecar.signature, sidecar.shard,
                IF q <= sidecar.completed_rows THEN sidecar.pilot_signature ELSE Missing, q)
<1> DEFINE K1(pilot) == Kept(Data("indices")[q], Data("distances")[q], sidecar.signature,
                             sidecar.shard, pilot, q)
<1>1. K1(IF q <= Done THEN PilotNow ELSE Missing)
  BY DEF ShardIInv, RowsHold, RowsKept
<1>2. K1(Missing)
  BY <1>1, KeptLess
<1>3. sidecar \in States
  BY Parts DEF ShardIInv
<1>4. sidecar.completed_rows \in Nat /\ (sidecar.completed_rows > 0 <=> sidecar.pilot_signature # Missing)
  BY <1>3, StateFields DEF ShardIInv, SidecarHolds, RecordWhole
<1>5. q \in Nat
  <2>1. Done \in Nat
    BY <1>4, Parts DEF Done, ShardIInv
  <2> QED
    BY <2>1, Divided DEF Stable, Rows
<1>6. CASE pc \notin Merging
  BY <1>1, <1>6 DEF Done, PilotNow
<1>7. CASE pc \in Merging
  <2> SUFFICES ASSUME q <= sidecar.completed_rows, sidecar.pilot_signature # Missing
               PROVE  K1(sidecar.pilot_signature)
    BY <1>2
  <2>1. pc # "idle" /\ pc \in InShard
    BY <1>7 DEF Merging, InShard
  <2>2. next > saved.completed_rows /\ saved.completed_rows = sidecar.completed_rows
        /\ saved.pilot_signature = sidecar.pilot_signature
    BY <2>1, Running DEF ShardIInv, CallHolds
  <2>3. Done = next - 1 /\ PilotNow = sidecar.pilot_signature
    BY <1>7, <2>2 DEF Done, PilotNow
  <2>4. q <= Done
    BY <1>4, <1>5, <2>2, <2>3, Parts DEF ShardIInv
  <2> QED
    BY <1>1, <2>3, <2>4
<1> QED
  BY <1>6, <1>7

LEMMA ReplaySame ==
    ASSUME ReplayIdempotent, final' = final
    PROVE  ReplayIdempotent'
<1> SUFFICES ASSUME Published' PROVE ReplayIdempotent'
  BY DEF ReplayIdempotent
<1>1. Published /\ \A f \in Files : final[f] # Missing
  BY DEF Published
<1>2. Data("indices")' = Data("indices") /\ Data("distances")' = Data("distances")
  BY <1>1 DEF Data, Files
<1>3. PICK v \in Versions : \A q \in Rows :
            \E used \in [Shards -> (SUBSET Builds) \ {{}}] :
                LET row == Select(Gathered(v, used, q))
                IN /\ Len(row) = K
                   /\ Data("indices")[q] = IdRow(row)
                   /\ Data("distances")[q] = DistanceRow(row)
  BY <1>1 DEF ReplayIdempotent
<1> QED
  BY <1>2, <1>3 DEF ReplayIdempotent

(* Before the first rename nothing is published. *)
LEMMA ReplayUnpublished ==
    ASSUME \E f \in Files : final'[f] = Missing
    PROVE  ReplayIdempotent'
  BY DEF ReplayIdempotent, Published

-----------------------------------------------------------------------------
(* Stops.  What is written of a batch before a commit is lost to the first *)
(* shard, whose committed rows no batch rewrites.                          *)

FilesTyped == \A f \in Files : part[f] \in Contents[f] \cup {Missing}

(* Rows 1..n of the files are the same before and after. *)
SamePrefix(before, after, n) == \A q \in 1..n : after[q] = before[q]

(* The first shard keeps what is committed, every other one all of it. *)
Spared ==
    IF saved.shard = 0
    THEN /\ pc \notin {"rename_d", "retire"}
         /\ \A f \in Files : /\ RowsIn(part'[f]) >= sidecar.completed_rows
                             /\ SamePrefix(part[f], part'[f], sidecar.completed_rows)
    ELSE part' = part /\ pc # "merge_d"

LEMMA StopKeeps ==
    ASSUME ShardIInv, pc # "idle", EndCall, source' = source, final' = final,
           sidecar' = sidecar, stops' \in Nat, DOMAIN part' = Files, FilesTyped', Spared
    PROVE  ShardIInv'
<1>1. /\ sidecar \in States /\ sidecar # Missing /\ saved.shard = sidecar.shard
      /\ sidecar.shard \in Nat /\ sidecar.completed_rows \in Nat
      /\ sidecar.completed_rows = saved.completed_rows
  BY Running, StateFields
<1>2. pc' = "idle" /\ saved' = Missing /\ watched' = Missing /\ build' = Missing
      /\ next' = 1 /\ merged' = <<>>
  BY DEF EndCall
<1>3. ShardTypeOK'
  <2>1. 1 \in 1..(NRow + 1)
    BY SizeAssumption
  <2> QED
    BY <1>1, <1>2, <2>1 DEF ShardTypeOK, ShardIInv, FilesTyped, Points
<1>4. SidecarHolds'
  BY DEF SidecarHolds, ShardIInv
<1>5. CallHolds'
  BY <1>2 DEF CallHolds, Merging, InShard
<1>6. LengthsHold'
  <2> SUFFICES ASSUME \A f \in Files : final[f] = Missing
               PROVE  LengthsHold'
    BY DEF LengthsHold
  <2>1. pc \notin {"rename_d", "retire"}
    BY DEF ShardIInv, NamesHold, Files
  <2>2. CASE saved.shard = 0
    <3>1. RowsIn(part["indices"])' >= sidecar.completed_rows /\ RowsIn(part["distances"])' >= sidecar.completed_rows
      BY <2>2 DEF Spared, Files, RowsIn
    <3>2. ~(sidecar.shard > 0)
      BY <1>1, <2>2
    <3> QED
      BY <1>2, <3>1, <3>2 DEF LengthsHold
  <2>3. CASE saved.shard # 0
    <3>1. RowsIn(part["indices"])' = NRow /\ RowsIn(part["distances"])' = NRow
      BY <1>1, <2>1, <2>3, Lengths DEF Spared, RowsIn
    <3>2. sidecar.shard > 0
      BY <1>1, <2>3
    <3> QED
      BY <3>1, <3>2 DEF LengthsHold
  <2> QED
    BY <2>2, <2>3
<1>7. NamesHold'
  <2>1. CASE saved.shard = 0
    <3>1. final["indices"] = Missing /\ final["distances"] = Missing
      BY <2>1, Running DEF Spared
    <3> QED
      BY <1>1, <1>2, <3>1 DEF NamesHold
  <2>2. CASE saved.shard # 0
    <3>1. part' = part
      BY <2>2 DEF Spared
    <3>2. RowsIn(part["distances"])' = RowsIn(part["distances"])
      BY <3>1 DEF RowsIn
    <3> QED
      BY <1>1, <1>2, <3>1, <3>2 DEF NamesHold, ShardIInv
  <2> QED
    BY <2>1, <2>2
<1>8. RowsHold'
  <2> SUFFICES ASSUME NEW q \in Stable'
               PROVE  Kept(Data("indices")'[q], Data("distances")'[q],
                           sidecar.signature, sidecar.shard,
                           IF q <= sidecar.completed_rows THEN sidecar.pilot_signature
                           ELSE Missing, q)
    BY <1>2 DEF RowsHold, RowsKept, Done, PilotNow, Merging
  <2>1. CASE saved.shard = 0
    <3>1. q \in 1..sidecar.completed_rows
      BY <1>1, <1>2, <2>1 DEF Stable, Done, Merging
    <3>2. q \in Stable
      <4>1. CASE pc \in Merging
        <5>1. Done = next - 1 /\ next > sidecar.completed_rows
          BY <1>1, <4>1 DEF Done, ShardIInv, CallHolds, Merging, InShard
        <5> QED
          BY <1>1, <2>1, <3>1, <5>1, Parts DEF Stable, ShardIInv
      <4>2. CASE pc \notin Merging
        BY <1>1, <2>1, <3>1, <4>2 DEF Stable, Done
      <4> QED
        BY <4>1, <4>2
    <3>3. Data("indices")' = part'["indices"] /\ Data("distances")' = part'["distances"]
          /\ Data("indices") = part["indices"] /\ Data("distances") = part["distances"]
      BY <2>1, Running DEF Spared, Data
    <3>4. Data("indices")'[q] = Data("indices")[q] /\ Data("distances")'[q] = Data("distances")[q]
      BY <2>1, <3>1, <3>3 DEF Spared, SamePrefix, Files
    <3> QED
      BY <1>1, <3>2, <3>4, RecordedRow
  <2>2. CASE saved.shard # 0
    <3>1. part' = part /\ pc # "merge_d"
      BY <2>2 DEF Spared
    <3>2. Data("indices")' = Data("indices") /\ Data("distances")' = Data("distances")
      BY <3>1 DEF Data
    <3>3. q \in Stable
      BY <1>1, <1>2, <2>2, <3>1 DEF Stable, Underway
    <3> QED
      BY <1>1, <3>2, <3>3, RecordedRow
  <2> QED
    BY <2>1, <2>2
<1>9. UnderwayHolds'
  BY <1>2 DEF UnderwayHolds
<1>10. ReplayIdempotent'
  BY ReplaySame DEF ShardIInv
<1> QED
  BY <1>3, <1>4, <1>5, <1>6, <1>7, <1>8, <1>9, <1>10 DEF ShardIInv

LEMMA LengthsCommitted ==
    ASSUME ShardIInv, pc \notin {"idle", "rename_d", "retire"}, NEW f \in Files
    PROVE  /\ RowsIn(part[f]) \in Nat /\ RowsIn(part[f]) >= saved.completed_rows
           /\ saved.shard > 0 => RowsIn(part[f]) = NRow
<1>1. /\ RowsIn(part["indices"]) \in Nat /\ RowsIn(part["distances"]) \in Nat
      /\ saved.completed_rows \in Nat /\ saved.completed_rows <= NRow /\ NRow \in Nat
      /\ next \in Nat
  <2>1. RowsIn(part["indices"]) \in Nat /\ RowsIn(part["distances"]) \in Nat
    BY Parts, RowsInIs DEF ShardIInv
  <2>2. saved.completed_rows \in Nat /\ saved.completed_rows <= NRow /\ NRow \in Nat
    BY Running, Divided
  <2>3. next \in Nat
    BY Parts DEF ShardIInv
  <2> QED
    BY <2>1, <2>2, <2>3
<1>2. pc \in InShard => next > saved.completed_rows
  BY DEF ShardIInv, CallHolds
<1>3. pc = "merge_d" => LastRow \in Nat /\ next <= LastRow
  <2>1. pc = "merge_d" => next <= NRow
    BY DEF ShardIInv, CallHolds
  <2> QED
    BY <2>1, BatchEnd, Parts DEF ShardIInv
<1>4. RowsIn(part["indices"]) >= saved.completed_rows /\ RowsIn(part["distances"]) >= saved.completed_rows
  BY <1>1, <1>2, <1>3, Lengths DEF InShard
<1>5. saved.shard > 0 => RowsIn(part["indices"]) = NRow /\ RowsIn(part["distances"]) = NRow
  BY Lengths
<1> QED
  BY <1>1, <1>4, <1>5 DEF Files

LEMMA NoneWritten ==
    ASSUME ShardIInv, pc # "idle", part' = part, pc = "merge_d" => saved.shard = 0
    PROVE  DOMAIN part' = Files /\ FilesTyped' /\ Spared
<1>1. DOMAIN part' = Files /\ FilesTyped'
  BY DEF ShardIInv, ShardTypeOK, FilesTyped
<1>2. saved.shard = 0 => pc \notin {"rename_d", "retire"}
  BY SizeAssumption DEF ShardIInv, CallHolds
<1>3. saved.completed_rows = sidecar.completed_rows
  BY Running
<1>4. saved.shard = 0 => \A f \in Files : /\ RowsIn(part'[f]) >= sidecar.completed_rows
                                          /\ SamePrefix(part[f], part'[f], sidecar.completed_rows)
  BY <1>2, <1>3, LengthsCommitted DEF SamePrefix
<1> QED
  BY <1>1, <1>2, <1>4 DEF Spared

LEMMA RefuseKeeps ==
    ASSUME ShardIInv, Refuse
    PROVE  ShardIInv'
<1>1. /\ pc # "idle" /\ pc # "merge_d" /\ EndCall /\ part' = part /\ source' = source
      /\ final' = final /\ sidecar' = sidecar /\ stops' = stops
  BY DEF Refuse, disk
<1>2. stops' \in Nat
  BY <1>1 DEF ShardIInv, ShardTypeOK
<1> QED
  BY <1>1, <1>2, NoneWritten, StopKeeps

(* No kill hits a batch of a later shard between its first and its last    *)
(* byte: the case the run "sharded_torn" shows to lose answers.            *)
LaterShardsWhole == TornShards \subseteq {0}

LEMMA InterruptKeeps ==
    ASSUME ShardIInv, Interrupt, LaterShardsWhole
    PROVE  ShardIInv'
<1>1. /\ pc # "idle" /\ EndCall /\ part' = part /\ source' = source
      /\ final' = final /\ sidecar' = sidecar /\ stops' = stops + 1
      /\ pc = "merge_d" => saved.shard = 0
  BY DEF Interrupt, disk, LaterShardsWhole
<1>2. stops' \in Nat
  BY <1>1 DEF ShardIInv, ShardTypeOK
<1> QED
  BY <1>1, <1>2, NoneWritten, StopKeeps

LEMMA TearBatchKeeps ==
    ASSUME ShardIInv, TearBatch, LaterShardsWhole
    PROVE  ShardIInv'
<1>1. /\ pc \in {"search", "merge_d"} /\ pc # "idle" /\ EndCall /\ source' = source
      /\ final' = final /\ sidecar' = sidecar /\ stops' = stops + 1 /\ saved.shard = 0
      /\ next <= NRow
  BY DEF TearBatch, TearIndices, TearDistances, LaterShardsWhole, ShardIInv, CallHolds
<1>2. stops' \in Nat
  BY <1>1 DEF ShardIInv, ShardTypeOK
<1>3. /\ next \in Nat /\ next >= 1 /\ LastRow \in Nat
      /\ saved.completed_rows = sidecar.completed_rows /\ saved.completed_rows \in Nat
      /\ next > saved.completed_rows
  BY <1>1, Parts, BatchEnd, Running DEF ShardIInv, CallHolds, InShard
<1>4. /\ DOMAIN part = Files /\ FilesTyped
      /\ \A f \in Files : RowsIn(part[f]) \in Nat /\ RowsIn(part[f]) >= sidecar.completed_rows
  BY <1>1, <1>3, LengthsCommitted DEF ShardIInv, ShardTypeOK, FilesTyped
<1>5. ASSUME NEW X, NEW f \in Files, Contents[f] = Seq(X), Missing \notin Seq(X),
             RowsIn(part[f]) = next - 1,
             NEW rows \in [next..LastRow -> X], NEW j \in 1..(LastRow - next),
             part' = [part EXCEPT ![f] = Written(@, rows, j)]
      PROVE  DOMAIN part' = Files /\ FilesTyped' /\ Spared
  <2>1. part[f] \in Seq(X) \cup {Missing} /\ next - 1 <= RowsIn(part[f])
        /\ j \in 0..(LastRow - next + 1) /\ j >= 0 /\ j \in Nat
    BY <1>3, <1>4, <1>5 DEF FilesTyped
  <2>2. /\ part'[f] \in Seq(X) /\ part'[f] # Missing
        /\ Len(part'[f]) = IF RowsIn(part[f]) < next + j - 1 THEN next + j - 1 ELSE RowsIn(part[f])
        /\ \A q \in 1..(next - 1) : part'[f][q] = part[f][q]
    <3> DEFINE content == part[f]
               after == Written(content, rows, j)
    <3>1. content \in Seq(X) \cup {Missing} /\ next - 1 <= RowsIn(content)
      BY <2>1
    <3>2. part'[f] = after
      BY <1>4, <1>5
    <3> HIDE DEF content, after
    <3>3. /\ after \in Seq(X) /\ after # Missing
          /\ Len(after) = IF RowsIn(content) < next + j - 1 THEN next + j - 1 ELSE RowsIn(content)
          /\ \A q \in 1..(next - 1) : after[q] = content[q]
      <4>1. Missing \notin Seq(X) /\ rows \in [next..LastRow -> X]
        BY <1>5
      <4>2. next \in Nat /\ next >= 1 /\ next <= NRow /\ j \in 0..(LastRow - next + 1)
        BY <1>1, <1>3, <2>1
      <4> QED
        BY <3>1, <4>1, <4>2, WrittenIs DEF after
    <3> QED
      BY <3>2, <3>3 DEF content
  <2>3. RowsIn(part'[f]) >= sidecar.completed_rows
    BY <1>3, <1>5, <2>1, <2>2 DEF RowsIn
  <2>4. SamePrefix(part[f], part'[f], sidecar.completed_rows)
    BY <1>3, <2>2 DEF SamePrefix
  <2>5. DOMAIN part' = Files /\ \A g \in Files : g # f => part'[g] = part[g]
    BY <1>4, <1>5
  <2>6. FilesTyped'
    BY <1>4, <1>5, <2>2, <2>5 DEF FilesTyped
  <2>7. \A g \in Files : /\ RowsIn(part'[g]) >= sidecar.completed_rows
                         /\ SamePrefix(part[g], part'[g], sidecar.completed_rows)
    BY <1>4, <2>3, <2>4, <2>5 DEF SamePrefix
  <2> QED
    BY <1>1, <2>5, <2>6, <2>7 DEF Spared
<1>6. CASE TearIndices
  <2>1. PICK j \in 1..(LastRow - next) :
          part' = [part EXCEPT !["indices"] = Written(@, BatchIds, j)]
    BY <1>6 DEF TearIndices
  <2>2. pc = "search" /\ source = watched
    BY <1>6 DEF TearIndices
  <2>3. BatchIds \in [next..LastRow -> IdRows]
    <3>1. \A q \in next..LastRow : IdRow(MergedRow(q)) \in IdRows
      BY <1>1, <2>2, BatchKept
    <3> QED
      BY <3>1 DEF BatchIds, Batch
  <2>4. RowsIn(part["indices"]) = next - 1
    BY <1>1, <2>2, Lengths
  <2>5. DOMAIN part' = Files /\ FilesTyped' /\ Spared
    BY <1>5, <2>1, <2>3, <2>4, MissingIs
  <2> QED
    BY <1>1, <1>2, <2>5, StopKeeps
<1>7. CASE TearDistances
  <2>1. PICK j \in 1..(LastRow - next) :
          part' = [part EXCEPT !["distances"] = Written(@, merged, j)]
    BY <1>7 DEF TearDistances
  <2>2. pc = "merge_d"
    BY <1>7 DEF TearDistances
  <2>3. merged \in [next..LastRow -> DistanceRows]
    BY <2>2 DEF ShardIInv, ShardTypeOK
  <2>4. RowsIn(part["distances"]) = next - 1
    BY <1>1, <2>2, Lengths
  <2>5. DOMAIN part' = Files /\ FilesTyped' /\ Spared
    BY <1>5, <2>1, <2>3, <2>4, MissingIs
  <2> QED
    BY <1>1, <1>2, <2>5, StopKeeps
<1> QED
  BY <1>6, <1>7 DEF TearBatch

-----------------------------------------------------------------------------
(* Steps that write no row.                                                *)

LEMMA RowsStay ==
    ASSUME ShardIInv, sidecar # Missing, sidecar' = sidecar,
           Data("indices")' = Data("indices"), Data("distances")' = Data("distances"),
           Stable' \subseteq Stable,
           \/ Done' = sidecar.completed_rows /\ PilotNow' = sidecar.pilot_signature
           \/ Done' = Done /\ PilotNow' = PilotNow
    PROVE  RowsHold'
<1> SUFFICES ASSUME NEW q \in Stable'
             PROVE  Kept(Data("indices")[q], Data("distances")[q],
                         sidecar.signature, sidecar.shard,
                         IF q <= Done' THEN PilotNow' ELSE Missing, q)
  BY DEF RowsHold, RowsKept
<1>1. q \in Stable
  OBVIOUS
<1>2. CASE Done' = sidecar.completed_rows /\ PilotNow' = sidecar.pilot_signature
  BY <1>1, <1>2, RecordedRow
<1>3. CASE Done' = Done /\ PilotNow' = PilotNow
  BY <1>1, <1>3 DEF ShardIInv, RowsHold, RowsKept
<1> QED
  BY <1>2, <1>3

LEMMA ShardStutter ==
    ASSUME ShardIInv, UNCHANGED <<part, final, sidecar, stops, process>>, source' \in Versions
    PROVE  ShardIInv'
<1>1. /\ part' = part /\ final' = final /\ sidecar' = sidecar /\ stops' = stops /\ pc' = pc
      /\ saved' = saved /\ watched' = watched /\ build' = build /\ next' = next
      /\ merged' = merged
  BY DEF process
<1>2. LastRow' = LastRow
  BY <1>1 DEF LastRow
<1>3. ShardTypeOK' /\ SidecarHolds' /\ UnderwayHolds'
  BY <1>1, <1>2 DEF ShardIInv, ShardTypeOK, SidecarHolds, UnderwayHolds
<1>4. CallHolds'
  BY <1>1 DEF ShardIInv, CallHolds
<1>5. LengthsHold' /\ NamesHold'
  BY <1>1, <1>2 DEF ShardIInv, LengthsHold, NamesHold
<1>6. RowsHold'
  <2>1. CASE sidecar = Missing
    BY <1>1, <2>1 DEF RowsHold
  <2>2. CASE sidecar # Missing
    <3>1. Data("indices")' = Data("indices") /\ Data("distances")' = Data("distances")
      BY <1>1 DEF Data
    <3>2. Done' = Done /\ PilotNow' = PilotNow /\ Underway' = Underway
      BY <1>1, <1>2 DEF Done, PilotNow, Underway
    <3>3. Stable' = Stable
      BY <1>1, <3>2 DEF Stable
    <3> QED
      BY <1>1, <2>2, <3>1, <3>2, <3>3, RowsStay
  <2> QED
    BY <2>1, <2>2
<1>7. ReplayIdempotent'
  BY <1>1, ReplaySame DEF ShardIInv
<1> QED
  BY <1>3, <1>4, <1>5, <1>6, <1>7 DEF ShardIInv

LEMMA ChangeSourceKeeps ==
    ASSUME ShardIInv, ChangeSource
    PROVE  ShardIInv'
<1>1. source' \in Versions
  BY BoundAssumption DEF ChangeSource, ShardIInv, ShardTypeOK, Versions
<1> QED
  BY <1>1, ShardStutter DEF ChangeSource

LEMMA StartNewKeeps ==
    ASSUME ShardIInv, StartNew
    PROVE  ShardIInv'
<1>1. /\ pc = "idle" /\ pc' = "build" /\ sidecar' = saved' /\ watched' = source
      /\ UNCHANGED <<source, part, final, stops, build, next, merged>>
      /\ saved' = [signature |-> source, shard |-> 0, completed_rows |-> 0,
                   pilot_signature |-> Missing]
  BY DEF StartNew
<1>2. \A f \in Files : part[f] = Missing /\ final[f] = Missing
  BY DEF StartNew, PathsFit
<1>3. saved' \in States
  <2>1. source \in Versions /\ 0 \in 0..NShards /\ 0 \in 0..NRow
    BY Divided DEF ShardIInv, ShardTypeOK
  <2> QED
    BY <1>1, <2>1 DEF States
<1>4. saved'.shard = 0 /\ saved'.completed_rows = 0 /\ saved'.pilot_signature = Missing
      /\ saved'.signature = source /\ NShards # 0
  BY <1>1, SizeAssumption
<1>5. ShardTypeOK'
  BY <1>1, <1>3 DEF ShardIInv, ShardTypeOK, Points
<1>6. SidecarHolds'
  BY <1>1, <1>4, WholeEnds DEF SidecarHolds, RecordWhole
<1>7. CallHolds'
  BY <1>1, <1>3, <1>4 DEF CallHolds, InShard, Merging
<1>8. LengthsHold'
  BY <1>1, <1>2, <1>4 DEF LengthsHold, RowsIn, Files
<1>9. NamesHold'
  BY <1>1, <1>2, <1>3, MissingIs DEF NamesHold
<1>10. RowsHold'
  <2>1. Stable' = {}
    BY <1>1, <1>4 DEF Stable, Done, Merging
  <2> QED
    BY <2>1 DEF RowsHold, RowsKept
<1>11. UnderwayHolds'
  BY <1>1 DEF UnderwayHolds
<1>12. ReplayIdempotent'
  BY <1>1, ReplaySame DEF ShardIInv
<1> QED
  BY <1>5, <1>6, <1>7, <1>8, <1>9, <1>10, <1>11, <1>12 DEF ShardIInv

LEMMA ResumeKeeps ==
    ASSUME ShardIInv, Resume
    PROVE  ShardIInv'
<1>1. /\ pc = "idle" /\ pc' = "build" /\ sidecar' = sidecar /\ saved' = sidecar
      /\ watched' = source /\ sidecar # Missing /\ sidecar.signature = source
      /\ UNCHANGED <<source, part, final, stops, build, next, merged>>
  BY DEF Resume, Verified, disk
<1>2. \A f \in Files : final[f] = Missing
  BY DEF Resume, PathsFit
<1>3. sidecar \in States
  BY <1>1, Parts DEF ShardIInv
<1>4. ShardTypeOK'
  BY <1>1, <1>3 DEF ShardIInv, ShardTypeOK, Points
<1>5. SidecarHolds'
  BY <1>1 DEF ShardIInv, SidecarHolds
<1>6. CallHolds'
  BY <1>1, <1>3 DEF CallHolds, InShard, Merging
<1>7. LengthsHold'
  BY <1>1, <1>2 DEF ShardIInv, LengthsHold
<1>8. NamesHold'
  BY <1>1, <1>2 DEF ShardIInv, NamesHold, Files
<1>9. RowsHold'
  <2>1. Data("indices")' = Data("indices") /\ Data("distances")' = Data("distances")
    BY <1>1 DEF Data
  <2>2. Done' = sidecar.completed_rows /\ PilotNow' = sidecar.pilot_signature
        /\ Underway' = Underway /\ Done' = Done
    BY <1>1 DEF Done, PilotNow, Underway, Merging
  <2>3. Stable' = Stable
    BY <1>1, <2>2 DEF Stable
  <2> QED
    BY <1>1, <2>1, <2>2, <2>3, RowsStay
<1>10. UnderwayHolds'
  BY <1>1 DEF UnderwayHolds
<1>11. ReplayIdempotent'
  BY <1>1, ReplaySame DEF ShardIInv
<1> QED
  BY <1>4, <1>5, <1>6, <1>7, <1>8, <1>9, <1>10, <1>11 DEF ShardIInv

-----------------------------------------------------------------------------
(* The end of a call.                                                      *)

(* A call that renames has merged the last shard. *)
LEMMA Renaming ==
    ASSUME ShardIInv, pc # "idle", saved.shard = NShards
    PROVE  /\ sidecar \in States /\ sidecar # Missing /\ sidecar.shard = NShards
           /\ sidecar.shard > 0 /\ sidecar.shard # 0 /\ sidecar.completed_rows = 0
           /\ pc \notin InShard /\ Underway = {} /\ Stable = Rows
           /\ Done = sidecar.completed_rows /\ saved = sidecar /\ sidecar \in States
<1>1. sidecar \in States /\ sidecar # Missing /\ sidecar.shard = NShards
  BY Running
<1>2. sidecar.shard > 0 /\ sidecar.shard # 0 /\ sidecar.completed_rows = 0
  BY <1>1, SizeAssumption DEF ShardIInv, SidecarHolds, RecordWhole
<1>3. pc \notin InShard
  BY SizeAssumption DEF ShardIInv, CallHolds, Shards
<1>4. pc # "merge_d" /\ pc \notin Merging
  BY <1>3 DEF InShard, Merging
<1>5. saved = sidecar
  BY <1>4, Running
<1> QED
  BY <1>1, <1>2, <1>3, <1>4, <1>5 DEF Underway, Stable, Done

LEMMA RenameIndicesKeeps ==
    ASSUME ShardIInv, RenameIndices
    PROVE  ShardIInv'
<1>1. /\ pc = "build" /\ pc' = "rename_d" /\ saved.shard = NShards
      /\ UNCHANGED <<source, sidecar, stops, saved, watched, build, next, merged>>
      /\ DOMAIN part = Files /\ DOMAIN final = Files
  BY Parts DEF RenameIndices, ShardIInv
<1>2. /\ final'["indices"] = part["indices"] /\ final'["distances"] = final["distances"]
      /\ part'["indices"] = Missing /\ part'["distances"] = part["distances"]
      /\ DOMAIN part' = Files /\ DOMAIN final' = Files
  BY <1>1 DEF RenameIndices, Files
<1>3. /\ part["indices"] # Missing /\ Len(part["indices"]) = NRow
      /\ part["distances"] # Missing /\ Len(part["distances"]) = NRow
  BY DEF RenameIndices, FinishHolds, Files
<1>4. final["indices"] = Missing /\ final["distances"] = Missing
  BY <1>1, Running
<1>5. ShardTypeOK'
  BY <1>1, <1>2 DEF ShardIInv, ShardTypeOK, Points, Files
<1>6. SidecarHolds'
  BY <1>1 DEF ShardIInv, SidecarHolds
<1>7. CallHolds'
  BY <1>1, Renaming, Running DEF CallHolds, InShard, Merging
<1>8. LengthsHold'
  BY <1>2, <1>3 DEF LengthsHold, Files
<1>9. NamesHold'
  BY <1>1, <1>2, <1>3, <1>4, Renaming DEF NamesHold, RowsIn
<1>10. RowsHold'
  <2>1. Data("indices")' = Data("indices") /\ Data("distances")' = Data("distances")
    BY <1>2, <1>3, <1>4 DEF Data
  <2>2. Done' = Done /\ PilotNow' = PilotNow /\ Stable' \subseteq Stable
    BY <1>1, Renaming DEF Done, PilotNow, Underway, Stable, Merging
  <2> QED
    BY <1>1, <2>1, <2>2, RowsStay, Renaming
<1>11. UnderwayHolds'
  BY <1>1 DEF UnderwayHolds
<1>12. ReplayIdempotent'
  BY <1>2, <1>4, ReplayUnpublished DEF Files
<1> QED
  BY <1>5, <1>6, <1>7, <1>8, <1>9, <1>10, <1>11, <1>12 DEF ShardIInv

Full(ids, dists, v, q) ==
    \E used \in [Shards -> (SUBSET Builds) \ {{}}] :
        LET row == Select(Gathered(v, used, q))
        IN Len(row) = K /\ ids = IdRow(row) /\ dists = DistanceRow(row)

(* A row into which every shard is merged is full. *)
LEMMA KeptFull ==
    ASSUME NEW v \in Versions, NEW q \in Rows, NEW ids, NEW dists, NEW pilot,
           Kept(ids, dists, v, NShards, pilot, q)
    PROVE  Full(ids, dists, v, q)
<1>1. PICK used \in [Shards -> SUBSET Builds] :
         Holds(ids, dists, v, used, q) /\ Uses(v, used, NShards, pilot)
  BY DEF Kept
<1> DEFINE A == Gathered(v, used, q)
<1>2. \A t \in Shards : used[t] # {}
  <2>1. \A t \in Shards : t < NShards
    BY Divided DEF Shards
  <2> QED
    BY <1>1, <2>1 DEF Uses
<1>3. used \in [Shards -> (SUBSET Builds) \ {{}}]
  BY <1>2
<1>4. A \in SUBSET TruePairs(v, q) /\ Cardinality(A) >= K
  BY <1>2, GatheredTrue, GatheredEnough
<1>5. Len(Select(A)) = K
  <2> HIDE DEF A
  <2>1. A \in SUBSET AllPairs /\ IsFiniteSet(A)
    BY <1>4, TrueFinite
  <2>2. Count(A) = K
    BY <1>4, <2>1, CountIs
  <2> QED
    BY <1>4, <2>2, RowIs
<1>6. ids = IdRow(Select(A)) /\ dists = DistanceRow(Select(A))
  BY <1>1 DEF Holds
<1> QED
  BY <1>3, <1>5, <1>6 DEF Full

LEMMA RenameDistancesKeeps ==
    ASSUME ShardIInv, RenameDistances
    PROVE  ShardIInv'
<1>1. /\ pc = "rename_d" /\ pc' = "retire" /\ saved.shard = NShards
      /\ UNCHANGED <<source, sidecar, stops, saved, watched, build, next, merged>>
      /\ DOMAIN part = Files /\ DOMAIN final = Files
  BY Parts DEF RenameDistances, ShardIInv, CallHolds
<1>2. /\ final'["distances"] = part["distances"] /\ final'["indices"] = final["indices"]
      /\ part'["distances"] = Missing /\ part'["indices"] = part["indices"]
      /\ DOMAIN part' = Files /\ DOMAIN final' = Files
  BY <1>1 DEF RenameDistances, Files
<1>3. /\ final["indices"] # Missing /\ final["distances"] = Missing
      /\ part["indices"] = Missing /\ Len(final["indices"]) = NRow
      /\ RowsIn(part["distances"]) = NRow
  BY <1>1 DEF ShardIInv, NamesHold
<1>4. part["distances"] # Missing
  BY <1>3, SizeAssumption DEF RowsIn
<1>5. ShardTypeOK'
  BY <1>1, <1>2 DEF ShardIInv, ShardTypeOK, Points, Files
<1>6. SidecarHolds'
  BY <1>1 DEF ShardIInv, SidecarHolds
<1>7. CallHolds'
  BY <1>1, Renaming, Running DEF CallHolds, InShard, Merging
<1>8. LengthsHold'
  BY <1>2, <1>4 DEF LengthsHold, Files
<1>9. NamesHold'
  BY <1>1, <1>2, <1>3, <1>4, Renaming DEF NamesHold
<1>10. Data("indices")' = Data("indices") /\ Data("distances")' = Data("distances")
  BY <1>2, <1>3, <1>4 DEF Data
<1>11. RowsHold'
  <2>1. Done' = Done /\ PilotNow' = PilotNow /\ Stable' \subseteq Stable
    BY <1>1, Renaming DEF Done, PilotNow, Underway, Stable, Merging
  <2> QED
    BY <1>1, <1>10, <2>1, RowsStay, Renaming
<1>12. UnderwayHolds'
  BY <1>1 DEF UnderwayHolds
<1>13. ReplayIdempotent'
  <2> DEFINE v == sidecar.signature
  <2>1. v \in Versions
    BY <1>1, Renaming, StateFields
  <2>2. ASSUME NEW q \in Rows
        PROVE  \E used \in [Shards -> (SUBSET Builds) \ {{}}] :
                  LET row == Select(Gathered(v, used, q))
                  IN /\ Len(row) = K
                     /\ Data("indices")[q] = IdRow(row)
                     /\ Data("distances")[q] = DistanceRow(row)
    <3> DEFINE ids == Data("indices")[q]
               dists == Data("distances")[q]
               pilot == IF q <= sidecar.completed_rows THEN sidecar.pilot_signature ELSE Missing
    <3>1. q \in Stable /\ sidecar # Missing /\ sidecar.shard = NShards
      BY <1>1, Renaming
    <3>2. Kept(ids, dists, v, NShards, pilot, q)
      BY <3>1, RecordedRow
    <3> HIDE DEF v, ids, dists, pilot
    <3>3. Full(ids, dists, v, q)
      BY <2>1, <3>2, KeptFull
    <3> QED
      BY <3>3 DEF Full, ids, dists
  <2> HIDE DEF v
  <2>3. \A q \in Rows : \E used \in [Shards -> (SUBSET Builds) \ {{}}] :
           LET row == Select(Gathered(v, used, q))
           IN /\ Len(row) = K
              /\ Data("indices")'[q] = IdRow(row)
              /\ Data("distances")'[q] = DistanceRow(row)
    BY <1>10, <2>2
  <2> QED
    BY <2>1, <2>3 DEF ReplayIdempotent
<1> QED
  BY <1>5, <1>6, <1>7, <1>8, <1>9, <1>11, <1>12, <1>13 DEF ShardIInv

LEMMA RestoreIndicesKeeps ==
    ASSUME ShardIInv, RestoreIndices
    PROVE  ShardIInv'
<1>1. /\ pc = "rename_d" /\ EndCall /\ stops' = stops + 1 /\ saved.shard = NShards
      /\ source' = source /\ sidecar' = sidecar
      /\ DOMAIN part = Files /\ DOMAIN final = Files
  BY Parts DEF RestoreIndices, ShardIInv, CallHolds
<1>2. /\ part'["indices"] = final["indices"] /\ part'["distances"] = part["distances"]
      /\ final'["indices"] = Missing /\ final'["distances"] = final["distances"]
      /\ DOMAIN part' = Files /\ DOMAIN final' = Files
  BY <1>1 DEF RestoreIndices, Files
<1>3. /\ final["indices"] # Missing /\ final["distances"] = Missing
      /\ part["indices"] = Missing /\ Len(final["indices"]) = NRow
      /\ RowsIn(part["distances"]) = NRow
  BY <1>1 DEF ShardIInv, NamesHold
<1>4. pc' = "idle" /\ saved' = Missing /\ watched' = Missing /\ build' = Missing
      /\ next' = 1 /\ merged' = <<>>
  BY <1>1 DEF EndCall
<1>5. ShardTypeOK'
  <2>1. 1 \in 1..(NRow + 1)
    BY SizeAssumption
  <2> QED
    BY <1>1, <1>2, <1>4, <2>1 DEF ShardIInv, ShardTypeOK, Points, Files
<1>6. SidecarHolds'
  BY <1>1 DEF ShardIInv, SidecarHolds
<1>7. CallHolds'
  BY <1>4 DEF CallHolds, InShard, Merging
<1>8. LengthsHold'
  <2>1. RowsIn(part["indices"])' = NRow /\ RowsIn(part["distances"])' = NRow
    BY <1>2, <1>3 DEF RowsIn
  <2> QED
    BY <1>1, <2>1, Renaming DEF LengthsHold
<1>9. NamesHold'
  BY <1>1, <1>2, <1>3, <1>4, Renaming DEF NamesHold
<1>10. RowsHold'
  <2>1. Data("indices")' = Data("indices") /\ Data("distances")' = Data("distances")
    BY <1>2, <1>3 DEF Data
  <2>2. Done' = sidecar.completed_rows /\ PilotNow' = sidecar.pilot_signature /\ Stable' \subseteq Stable
    BY <1>1, <1>4, Renaming DEF Done, PilotNow, Stable, Merging
  <2> QED
    BY <1>1, <2>1, <2>2, RowsStay, Renaming
<1>11. UnderwayHolds'
  BY <1>4 DEF UnderwayHolds
<1>12. ReplayIdempotent'
  BY <1>2, ReplayUnpublished DEF Files
<1> QED
  BY <1>5, <1>6, <1>7, <1>8, <1>9, <1>10, <1>11, <1>12 DEF ShardIInv

LEMMA RetireSidecarKeeps ==
    ASSUME ShardIInv, RetireSidecar
    PROVE  ShardIInv'
<1>1. /\ pc = "retire" /\ EndCall /\ sidecar' = Missing
      /\ UNCHANGED <<source, part, final, stops>>
  BY DEF RetireSidecar
<1>2. pc' = "idle" /\ saved' = Missing /\ watched' = Missing /\ build' = Missing
      /\ next' = 1 /\ merged' = <<>>
  BY <1>1 DEF EndCall
<1>3. final["distances"] # Missing /\ final["indices"] # Missing
      /\ part["distances"] = Missing /\ part["indices"] = Missing
  BY <1>1 DEF ShardIInv, NamesHold
<1>4. ShardTypeOK'
  <2>1. 1 \in 1..(NRow + 1)
    BY SizeAssumption
  <2> QED
    BY <1>1, <1>2, <2>1 DEF ShardIInv, ShardTypeOK, Points
<1>5. SidecarHolds' /\ LengthsHold' /\ RowsHold'
  BY <1>1 DEF SidecarHolds, LengthsHold, RowsHold
<1>6. CallHolds'
  BY <1>2 DEF CallHolds, InShard, Merging
<1>7. NamesHold'
  BY <1>1, <1>2, <1>3 DEF ShardIInv, NamesHold, Files
<1>8. UnderwayHolds'
  BY <1>2 DEF UnderwayHolds
<1>9. ReplayIdempotent'
  BY <1>1, ReplaySame DEF ShardIInv
<1> QED
  BY <1>4, <1>5, <1>6, <1>7, <1>8, <1>9 DEF ShardIInv

-----------------------------------------------------------------------------
(* The start of a shard.                                                   *)

LEMMA BuildIndexKeeps ==
    ASSUME ShardIInv, BuildIndex
    PROVE  ShardIInv'
<1>1. /\ pc = "build" /\ saved.shard < NShards /\ source = watched
      /\ source' = source /\ part' = part /\ final' = final /\ sidecar' = sidecar /\ stops' = stops
  BY DEF BuildIndex, disk
<1>2. PICK b \in Builds :
          IF ProbeHolds(b)
          THEN /\ build' = b
               /\ next' = saved.completed_rows + 1
               /\ pc' = IF saved.shard = 0 THEN "restore_i" ELSE "search"
               /\ UNCHANGED <<saved, watched, merged>>
          ELSE EndCall
  BY DEF BuildIndex
<1>3. CASE EndCall
  <2>1. stops' \in Nat
    BY <1>1 DEF ShardIInv, ShardTypeOK
  <2> QED
    BY <1>1, <1>3, <2>1, NoneWritten, StopKeeps
<1>4. CASE ~EndCall
  <2>1. /\ ProbeHolds(b) /\ build' = b /\ next' = saved.completed_rows + 1
        /\ pc' = IF saved.shard = 0 THEN "restore_i" ELSE "search"
        /\ UNCHANGED <<saved, watched, merged>>
    BY <1>2, <1>4
  <2>2. /\ sidecar \in States /\ sidecar # Missing /\ saved = sidecar
        /\ watched \in Versions /\ watched = sidecar.signature
        /\ final["indices"] = Missing /\ final["distances"] = Missing
        /\ sidecar.completed_rows \in 0..NRow
        /\ sidecar.completed_rows > 0 <=> sidecar.pilot_signature # Missing
        /\ NRow \in Nat
    BY <1>1, Running, Divided DEF Merging
  <2>3. saved.shard \in Shards /\ sidecar.shard < NShards
    BY <1>1, <2>2, StateFields
  <2>4. next' \in 1..(NRow + 1) /\ next' - 1 = saved.completed_rows /\ next' > saved.completed_rows
    BY <2>1, <2>2
  <2>5. saved.pilot_signature \in {Missing, Pilot(watched, b, saved.shard)}
    BY <1>1, <2>1, <2>2 DEF ProbeHolds
  <2>6. ShardTypeOK'
    BY <1>1, <2>1, <2>4 DEF ShardIInv, ShardTypeOK, Points
  <2>7. SidecarHolds'
    BY <1>1 DEF ShardIInv, SidecarHolds
  <2>8. CallHolds'
    <3>1. Whole(saved.completed_rows)
      BY <2>2 DEF ShardIInv, SidecarHolds, RecordWhole
    <3>2. next' > 1 => saved.pilot_signature # Missing
      BY <2>1, <2>2
    <3> QED
      BY <1>1, <2>1, <2>2, <2>3, <2>4, <2>5, <3>1, <3>2 DEF CallHolds, InShard, Merging
  <2>9. LengthsHold'
    <3>1. CASE saved.shard = 0
      <4>1. RowsIn(part["indices"])' >= sidecar.completed_rows /\ RowsIn(part["distances"])' >= sidecar.completed_rows
        BY <1>1, <2>2, LengthsCommitted DEF RowsIn, Files
      <4>2. ~(sidecar.shard > 0)
        BY <2>2, <3>1
      <4> QED
        BY <1>1, <2>1, <3>1, <4>1, <4>2 DEF LengthsHold
    <3>2. CASE saved.shard # 0
      <4>1. saved.shard > 0
        BY <2>2, <3>2, StateFields
      <4>2. RowsIn(part["indices"])' = NRow /\ RowsIn(part["distances"])' = NRow
        BY <1>1, <4>1, LengthsCommitted DEF RowsIn, Files
      <4> QED
        BY <1>1, <2>2, <4>1, <4>2 DEF LengthsHold
    <3> QED
      BY <3>1, <3>2
  <2>10. NamesHold'
    BY <1>1, <2>1, <2>2 DEF NamesHold
  <2>11. RowsHold'
    <3>1. Data("indices")' = Data("indices") /\ Data("distances")' = Data("distances")
      BY <1>1 DEF Data
    <3>2. Done' = sidecar.completed_rows /\ PilotNow' = sidecar.pilot_signature
      BY <1>1, <2>1, <2>2, <2>4 DEF Done, PilotNow, Merging
    <3>3. Stable' \subseteq Stable
      BY <1>1, <2>1, <3>2 DEF Stable, Underway, Done, Merging
    <3> QED
      BY <1>1, <2>2, <3>1, <3>2, <3>3, RowsStay
  <2>12. UnderwayHolds'
    BY <2>1 DEF UnderwayHolds
  <2>13. ReplayIdempotent'
    BY <1>1, ReplaySame DEF ShardIInv
  <2> QED
    BY <2>6, <2>7, <2>8, <2>9, <2>10, <2>11, <2>12, <2>13 DEF ShardIInv
<1> QED
  BY <1>3, <1>4

LEMMA RestoredIs ==
    ASSUME NEW X, NEW content \in Seq(X) \cup {Missing}, Missing \notin Seq(X),
           saved.completed_rows \in Nat, RowsIn(content) >= saved.completed_rows
    PROVE  /\ Restored(content) \in Seq(X) \cup {Missing}
           /\ RowsIn(Restored(content)) = saved.completed_rows
           /\ \A q \in 1..saved.completed_rows : Restored(content)[q] = content[q]
<1> DEFINE n == saved.completed_rows
<1>1. CASE content = Missing
  <2>1. n = 0
    BY <1>1 DEF RowsIn
  <2>2. Restored(content) = Missing
    BY <1>1 DEF Restored
  <2> QED
    BY <2>1, <2>2 DEF RowsIn
<1>2. CASE content # Missing
  <2>1. content \in Seq(X) /\ n <= Len(content) /\ n \in Nat
    BY <1>2 DEF RowsIn
  <2>2. Restored(content) = SubSeq(content, 1, n)
    BY <1>2 DEF Restored
  <2> HIDE DEF n
  <2>3. /\ SubSeq(content, 1, n) \in Seq(X) /\ Len(SubSeq(content, 1, n)) = n
        /\ \A q \in 1..n : SubSeq(content, 1, n)[q] = content[q]
    BY <2>1
  <2>4. Restored(content) # Missing
    BY <2>2, <2>3
  <2> QED
    BY <2>2, <2>3, <2>4 DEF RowsIn, n
<1> QED
  BY <1>1, <1>2

LEMMA RestoreFirstKeeps ==
    ASSUME ShardIInv, NEW f \in Files, NEW from, NEW to,
           \/ f = "indices" /\ from = "restore_i" /\ to = "restore_d"
           \/ f = "distances" /\ from = "restore_d" /\ to = "search",
           RestoreFirst(f, from, to)
    PROVE  ShardIInv'
<1>1. /\ pc \in {"restore_i", "restore_d"} /\ pc = from /\ pc' = to
      /\ UNCHANGED <<source, final, sidecar, stops, saved, watched, build, next, merged>>
  BY DEF RestoreFirst
<1>2. /\ sidecar \in States /\ sidecar # Missing /\ saved = sidecar
      /\ final["indices"] = Missing /\ final["distances"] = Missing
      /\ Data("indices") = part["indices"] /\ Data("distances") = part["distances"]
      /\ saved.completed_rows \in Nat /\ saved.shard = 0 /\ next = saved.completed_rows + 1
      /\ saved.completed_rows > 0 <=> sidecar.pilot_signature # Missing
  BY <1>1, Running, StateFields DEF ShardIInv, CallHolds, Merging
<1>3. /\ DOMAIN part' = Files /\ part'[f] = Restored(part[f])
      /\ \A g \in Files : g # f => part'[g] = part[g]
  BY Parts DEF RestoreFirst, ShardIInv
<1>4. /\ Restored(part[f]) \in Contents[f] \cup {Missing}
      /\ RowsIn(Restored(part[f])) = saved.completed_rows
      /\ \A q \in 1..saved.completed_rows : Restored(part[f])[q] = part[f][q]
  <2>1. RowsIn(part[f]) >= saved.completed_rows
    BY <1>1, LengthsCommitted
  <2>2. CASE f = "indices"
    BY <1>2, <2>1, <2>2, Parts, MissingIs, RestoredIs DEF ShardIInv
  <2>3. CASE f = "distances"
    BY <1>2, <2>1, <2>3, Parts, MissingIs, RestoredIs DEF ShardIInv
  <2> QED
    BY <2>2, <2>3 DEF Files
<1>5. ShardTypeOK'
  <2>1. \A g \in Files : part'[g] \in Contents[g] \cup {Missing}
    BY <1>3, <1>4 DEF ShardIInv, ShardTypeOK
  <2>2. pc' \in Points /\ pc' # "merge_d" /\ pc # "merge_d"
    BY <1>1 DEF Points
  <2>3. merged' \in {<<>>}
    BY <1>1, <2>2 DEF ShardIInv, ShardTypeOK
  <2> QED
    BY <1>1, <1>3, <2>1, <2>2, <2>3 DEF ShardIInv, ShardTypeOK
<1>6. SidecarHolds'
  BY <1>1 DEF ShardIInv, SidecarHolds
<1>7. CallHolds'
  <2>1. /\ saved.shard \in Shards /\ build \in Builds
        /\ Whole(next - 1) /\ next > saved.completed_rows
        /\ saved.pilot_signature \in {Missing, Pilot(watched, build, saved.shard)}
        /\ watched = sidecar.signature
    BY <1>1, Running DEF ShardIInv, CallHolds, InShard
  <2>2. next > 1 => saved.pilot_signature # Missing
    BY <1>2
  <2>3. pc' \notin {"idle", "rename_d", "retire", "merge_d", "save", "restore_i"}
    BY <1>1
  <2> QED
    BY <1>1, <1>2, <2>1, <2>2, <2>3 DEF CallHolds, InShard, Merging
<1>8. LengthsHold'
  <2>1. ~(sidecar.shard > 0) /\ next - 1 = saved.completed_rows
    BY <1>2
  <2>2. CASE f = "indices"
    <3>1. RowsIn(part["indices"])' = saved.completed_rows
      BY <1>3, <1>4, <2>2 DEF RowsIn
    <3>2. RowsIn(part["distances"])' >= saved.completed_rows
      <4>1. RowsIn(part["distances"]) >= saved.completed_rows
        BY <1>1, LengthsCommitted DEF Files
      <4>2. part'["distances"] = part["distances"]
        BY <1>3, <2>2 DEF Files
      <4> QED
        BY <4>1, <4>2 DEF RowsIn
    <3>3. pc' = "restore_d"
      BY <1>1, <2>2
    <3> QED
      BY <1>1, <1>2, <2>1, <3>1, <3>2, <3>3 DEF LengthsHold
  <2>3. CASE f = "distances"
    <3>1. RowsIn(part["distances"])' = saved.completed_rows
      BY <1>3, <1>4, <2>3 DEF RowsIn
    <3>2. RowsIn(part["indices"])' = saved.completed_rows
      <4>1. RowsIn(part["indices"]) = saved.completed_rows
        BY <1>1, <1>2, <2>3, Lengths
      <4>2. part'["indices"] = part["indices"]
        BY <1>3, <2>3 DEF Files
      <4> QED
        BY <4>1, <4>2 DEF RowsIn
    <3>3. pc' = "search"
      BY <1>1, <2>3
    <3> QED
      BY <1>1, <1>2, <2>1, <3>1, <3>2, <3>3 DEF LengthsHold
  <2> QED
    BY <2>2, <2>3 DEF Files
<1>9. NamesHold'
  BY <1>1, <1>2 DEF NamesHold
<1>10. RowsHold'
  <2>1. Done' = sidecar.completed_rows /\ PilotNow' = sidecar.pilot_signature
    BY <1>1, <1>2 DEF Done, PilotNow, Merging
  <2> SUFFICES ASSUME NEW q \in Stable'
               PROVE  Kept(Data("indices")'[q], Data("distances")'[q],
                           sidecar.signature, sidecar.shard,
                           IF q <= sidecar.completed_rows THEN sidecar.pilot_signature
                           ELSE Missing, q)
    BY <1>1, <2>1 DEF RowsHold, RowsKept
  <2>2. q \in 1..saved.completed_rows
    BY <1>1, <1>2, <2>1 DEF Stable
  <2>3. q \in Stable
    BY <1>1, <1>2, <2>2 DEF Stable, Done, Merging
  <2>4. Data("indices")' = part'["indices"] /\ Data("distances")' = part'["distances"]
    BY <1>1, <1>2 DEF Data
  <2>5. \A g \in Files : part'[g][q] = part[g][q]
    BY <1>3, <1>4, <2>2
  <2>6. Data("indices")'[q] = Data("indices")[q] /\ Data("distances")'[q] = Data("distances")[q]
    BY <1>2, <2>4, <2>5 DEF Files
  <2> QED
    BY <1>2, <2>3, <2>6, RecordedRow
<1>11. UnderwayHolds'
  BY <1>1 DEF UnderwayHolds
<1>12. ReplayIdempotent'
  BY <1>1, ReplaySame DEF ShardIInv
<1> QED
  BY <1>5, <1>6, <1>7, <1>8, <1>9, <1>10, <1>11, <1>12 DEF ShardIInv

-----------------------------------------------------------------------------
(* Commits.                                                                *)

LEMMA SaveSidecarKeeps ==
    ASSUME ShardIInv, SaveSidecar
    PROVE  ShardIInv'
<1>1. /\ pc = "save" /\ pc' = "search" /\ sidecar' = saved'
      /\ saved' = [saved EXCEPT !.completed_rows = next - 1]
      /\ UNCHANGED <<source, part, final, stops, watched, build, next, merged>>
  BY DEF SaveSidecar
<1>2. /\ sidecar \in States /\ sidecar # Missing /\ saved \in States
      /\ watched = saved.signature /\ saved.signature = sidecar.signature /\ saved.shard = sidecar.shard
      /\ final["indices"] = Missing /\ final["distances"] = Missing
  BY <1>1, Running
<1>3. /\ saved.shard \in Shards /\ build \in Builds /\ Whole(next - 1)
      /\ saved.pilot_signature \in {Missing, Pilot(watched, build, saved.shard)}
      /\ next > 1 /\ saved.pilot_signature # Missing
      /\ next \in Nat /\ next - 1 \in 0..NRow /\ next > next - 1 /\ next - 1 > 0
  <2>1. /\ saved.shard \in Shards /\ build \in Builds /\ Whole(next - 1)
        /\ saved.pilot_signature \in {Missing, Pilot(watched, build, saved.shard)}
        /\ next > 1 /\ saved.pilot_signature # Missing
    BY <1>1 DEF ShardIInv, CallHolds, InShard, Merging
  <2>2. next \in Nat /\ next <= NRow + 1 /\ NRow \in Nat
    BY Parts, Divided DEF ShardIInv
  <2> QED
    BY <2>1, <2>2
<1>4. /\ saved' \in States /\ saved' # Missing /\ saved'.signature = saved.signature
      /\ saved'.shard = saved.shard /\ saved'.completed_rows = next - 1
      /\ saved'.pilot_signature = saved.pilot_signature
  <2>1. saved' \in States
    BY <1>1, <1>2, <1>3 DEF States
  <2> QED
    BY <1>1, <1>2, <2>1, StateFields DEF States
<1>5. ShardTypeOK'
  BY <1>1, <1>4 DEF ShardIInv, ShardTypeOK, Points
<1>6. SidecarHolds'
  <2>1. saved.shard # NShards
    BY <1>3, Divided DEF Shards
  <2> QED
    BY <1>1, <1>3, <1>4, <2>1 DEF SidecarHolds, RecordWhole
<1>7. CallHolds'
  BY <1>1, <1>2, <1>3, <1>4 DEF CallHolds, InShard, Merging
<1>8. LengthsHold'
  <2>1. \A f \in Files : final[f] = Missing
    BY <1>2 DEF Files
  <2> QED
    BY <1>1, <1>2, <1>4, <2>1 DEF ShardIInv, LengthsHold
<1>9. NamesHold'
  BY <1>1, <1>2, <1>4 DEF NamesHold
<1>10. RowsHold'
  <2>1. Done' = Done /\ PilotNow' = PilotNow /\ Underway' = Underway
    BY <1>1, <1>4 DEF Done, PilotNow, Underway, Merging
  <2>2. Stable' = Stable
    BY <1>1, <1>2, <1>4, <2>1 DEF Stable
  <2>3. Data("indices")' = Data("indices") /\ Data("distances")' = Data("distances")
    BY <1>1 DEF Data
  <2> QED
    BY <1>1, <1>2, <1>4, <2>1, <2>2, <2>3 DEF ShardIInv, RowsHold
<1>11. UnderwayHolds'
  BY <1>1 DEF UnderwayHolds
<1>12. ReplayIdempotent'
  BY <1>1, ReplaySame DEF ShardIInv
<1> QED
  BY <1>5, <1>6, <1>7, <1>8, <1>9, <1>10, <1>11, <1>12 DEF ShardIInv

LEMMA EndShardKeeps ==
    ASSUME ShardIInv, EndShard
    PROVE  ShardIInv'
<1>1. /\ pc = "search" /\ pc' = "build" /\ next > NRow /\ sidecar' = saved'
      /\ build' = Missing /\ next' = 1
      /\ saved' = [saved EXCEPT !.shard = @ + 1, !.completed_rows = 0, !.pilot_signature = Missing]
      /\ UNCHANGED <<source, part, final, stops, watched, merged>>
  BY DEF EndShard, NextShardState
<1>2. /\ sidecar \in States /\ sidecar # Missing /\ saved \in States
      /\ watched = saved.signature /\ saved.signature = sidecar.signature /\ saved.shard = sidecar.shard
      /\ final["indices"] = Missing /\ final["distances"] = Missing
  BY <1>1, Running
<1>3. /\ saved.shard \in Shards /\ saved.pilot_signature # Missing /\ next - 1 = NRow
      /\ saved.shard \in Nat /\ saved.shard + 1 \in 0..NShards /\ saved.shard + 1 > 0
      /\ saved.shard + 1 # 0 /\ NRow \in Nat
  <2>1. NRow \in Nat /\ NRow > 0 /\ next \in Nat /\ next <= NRow + 1 /\ next > 1
    BY <1>1, Parts, SizeAssumption DEF ShardIInv
  <2>2. saved.shard \in Shards /\ saved.pilot_signature # Missing
    BY <1>1, <2>1 DEF ShardIInv, CallHolds, InShard, Merging
  <2>3. NShards \in Nat
    BY Divided
  <2> QED
    BY <1>1, <2>1, <2>2, <2>3 DEF Shards
<1>4. /\ saved' \in States /\ saved' # Missing /\ saved'.signature = saved.signature
      /\ saved'.shard = saved.shard + 1 /\ saved'.completed_rows = 0
      /\ saved'.pilot_signature = Missing
  <2>1. 0 \in 0..NRow
    BY <1>3
  <2>2. saved' \in States
    BY <1>1, <1>2, <1>3, <2>1 DEF States
  <2> QED
    BY <1>1, <1>2, <2>2, StateFields DEF States
<1>5. ShardTypeOK'
  <2>1. 1 \in 1..(NRow + 1)
    BY <1>3
  <2> QED
    BY <1>1, <1>4, <2>1 DEF ShardIInv, ShardTypeOK, Points
<1>6. SidecarHolds'
  BY <1>1, <1>4, WholeEnds DEF SidecarHolds, RecordWhole
<1>7. CallHolds'
  BY <1>1, <1>2, <1>4 DEF CallHolds, InShard, Merging
<1>8. LengthsHold'
  <2>1. RowsIn(part["indices"]) = NRow /\ RowsIn(part["distances"]) = NRow
    BY <1>1, <1>3, Lengths
  <2>2. RowsIn(part["indices"])' = NRow /\ RowsIn(part["distances"])' = NRow
    BY <1>1, <2>1 DEF RowsIn
  <2> QED
    BY <1>1, <1>3, <1>4, <2>2 DEF LengthsHold
<1>9. NamesHold'
  BY <1>1, <1>2, <1>4 DEF NamesHold
<1>10. RowsHold'
  <2>1. Done' = 0 /\ PilotNow' = Missing
    BY <1>1, <1>4 DEF Done, PilotNow, Merging
  <2>2. Stable' \subseteq Rows
    BY <1>1, <1>3, <1>4 DEF Stable
  <2>3. Data("indices")' = Data("indices") /\ Data("distances")' = Data("distances")
    BY <1>1 DEF Data
  <2> SUFFICES ASSUME NEW q \in Rows
               PROVE  Kept(Data("indices")[q], Data("distances")[q],
                           saved.signature, saved.shard + 1, Missing, q)
    BY <1>1, <1>4, <2>1, <2>2, <2>3 DEF RowsHold, RowsKept
  <2>4. q \in Stable /\ q <= Done /\ PilotNow = saved.pilot_signature
    BY <1>1, <1>3 DEF Stable, Done, PilotNow, Underway, Rows, Merging
  <2>5. Kept(Data("indices")[q], Data("distances")[q], saved.signature, saved.shard,
             saved.pilot_signature, q)
    BY <1>2, <2>4 DEF ShardIInv, RowsHold, RowsKept
  <2> QED
    BY <1>3, <2>5, KeptOn
<1>11. UnderwayHolds'
  BY <1>1 DEF UnderwayHolds
<1>12. ReplayIdempotent'
  BY <1>1, ReplaySame DEF ShardIInv
<1> QED
  BY <1>5, <1>6, <1>7, <1>8, <1>9, <1>10, <1>11, <1>12 DEF ShardIInv

-----------------------------------------------------------------------------
(* A batch.                                                                *)

LEMMA MergeIndicesKeeps ==
    ASSUME ShardIInv, MergeIndices
    PROVE  ShardIInv'
<1> DEFINE count == LastRow - next + 1
           after == Written(part["indices"], BatchIds, count)
<1>1. /\ pc = "search" /\ pc' = "merge_d" /\ next <= NRow /\ source = watched
      /\ merged' = [q \in next..LastRow |-> DistanceRow(Batch[q])]
      /\ UNCHANGED <<source, final, sidecar, stops, saved, watched, build, next>>
  BY DEF MergeIndices
<1>2. /\ DOMAIN part' = Files /\ part'["indices"] = after
      /\ part'["distances"] = part["distances"]
  BY Parts DEF MergeIndices, ShardIInv, Files
<1>3. /\ sidecar \in States /\ sidecar # Missing /\ saved \in States
      /\ watched = sidecar.signature /\ saved.signature = sidecar.signature
      /\ saved.shard = sidecar.shard
      /\ final["indices"] = Missing /\ final["distances"] = Missing
      /\ saved.completed_rows = sidecar.completed_rows
      /\ sidecar.pilot_signature # Missing => saved.pilot_signature = sidecar.pilot_signature
      /\ Data("indices") = part["indices"] /\ Data("distances") = part["distances"]
  BY <1>1, Running
<1>4. /\ saved.shard \in Shards /\ build \in Builds /\ Whole(next - 1)
      /\ next > saved.completed_rows
      /\ saved.pilot_signature \in {Missing, Pilot(watched, build, saved.shard)}
      /\ next > 1 => saved.pilot_signature # Missing
  BY <1>1 DEF ShardIInv, CallHolds, InShard, Merging
<1>5. /\ next \in Nat /\ next >= 1 /\ LastRow \in Nat /\ next <= LastRow /\ LastRow <= NRow
      /\ NRow \in Nat /\ LastRow' = LastRow /\ count \in Nat /\ count \in 0..count
      /\ next + count - 1 = LastRow /\ next + count = LastRow + 1
  <2>1. next \in Nat /\ next >= 1 /\ NRow \in Nat
    BY Parts, Divided DEF ShardIInv
  <2>2. LastRow \in Nat /\ next <= LastRow /\ LastRow <= NRow
    BY <1>1, <2>1, BatchEnd
  <2>3. LastRow' = LastRow
    BY <1>1 DEF LastRow
  <2> QED
    BY <2>1, <2>2, <2>3
<1>6. /\ BatchIds \in [next..LastRow -> IdRows]
      /\ \A q \in next..LastRow : BatchIds[q] = IdRow(MergedRow(q))
      /\ merged' \in [next..LastRow -> DistanceRows]
      /\ \A q \in next..LastRow : merged'[q] = DistanceRow(MergedRow(q))
  <2>1. \A q \in next..LastRow : IdRow(MergedRow(q)) \in IdRows /\ DistanceRow(MergedRow(q)) \in DistanceRows
    BY <1>1, BatchKept
  <2>2. BatchIds = [q \in next..LastRow |-> IdRow(MergedRow(q))]
    BY DEF BatchIds, Batch
  <2>3. merged' = [q \in next..LastRow |-> DistanceRow(MergedRow(q))]
    BY <1>1 DEF Batch
  <2> QED
    BY <2>1, <2>2, <2>3
<1>7. LET n == RowsIn(part["indices"])
      IN  n \in Nat /\ IF saved.shard > 0 THEN n = NRow ELSE n = next - 1
  BY <1>1, Lengths, <1>5
<1>8. /\ after \in Seq(IdRows) /\ after # Missing
      /\ Len(after) = IF saved.shard > 0 THEN NRow ELSE LastRow
      /\ \A q \in 1..(next - 1) : after[q] = part["indices"][q]
      /\ \A q \in (LastRow + 1)..RowsIn(part["indices"]) : after[q] = part["indices"][q]
      /\ \A q \in next..LastRow : after[q] = IdRow(MergedRow(q))
  <2> DEFINE content == part["indices"]
  <2>1. content \in Seq(IdRows) \cup {Missing} /\ Missing \notin Seq(IdRows)
    BY Parts, MissingIs DEF ShardIInv
  <2>2. next \in Nat /\ next >= 1 /\ next <= NRow /\ next - 1 <= RowsIn(content)
    BY <1>1, <1>4, <1>5, <1>7
  <2>3. BatchWritten(after, content, BatchIds, IdRows)
    <3>1. after = Written(content, BatchIds, LastRow - next + 1)
      OBVIOUS
    <3> HIDE DEF content, after, count
    <3> QED
      BY <1>6, <3>1, <2>1, <2>2, BatchWrittenIs
  <2> HIDE DEF after, content
  <2>4. Len(after) = IF saved.shard > 0 THEN NRow ELSE LastRow
    BY <1>5, <1>7, <2>3 DEF BatchWritten, content
  <2> QED
    BY <1>6, <2>3, <2>4 DEF BatchWritten, content
<1> HIDE DEF after, count
<1>9. ShardTypeOK'
  <2>1. part'["indices"] \in Contents["indices"] \cup {Missing}
        /\ part'["distances"] \in Contents["distances"] \cup {Missing}
    BY <1>2, <1>8, MissingIs DEF ShardIInv, ShardTypeOK, Files
  <2>2. merged' \in [next'..LastRow' -> DistanceRows]
    BY <1>1, <1>5, <1>6
  <2> QED
    BY <1>1, <1>2, <2>1, <2>2 DEF ShardIInv, ShardTypeOK, Points, Files
<1>10. SidecarHolds'
  BY <1>1 DEF ShardIInv, SidecarHolds
<1>11. CallHolds'
  BY <1>1, <1>3, <1>4 DEF CallHolds, InShard, Merging
<1>12. LengthsHold'
  <2>1. RowsIn(part["indices"])' = (IF saved.shard > 0 THEN NRow ELSE LastRow)
    BY <1>2, <1>8 DEF RowsIn
  <2>2. RowsIn(part["distances"])' = (IF saved.shard > 0 THEN NRow ELSE next - 1)
    BY <1>1, <1>2, Lengths DEF RowsIn
  <2> QED
    BY <1>1, <1>3, <1>5, <2>1, <2>2 DEF LengthsHold
<1>13. NamesHold'
  BY <1>1, <1>3 DEF NamesHold
<1>14. Data("indices")' = after /\ Data("distances")' = part["distances"]
  BY <1>1, <1>2, <1>3 DEF Data
<1>15. RowsHold'
  <2>1. Done' = Done /\ PilotNow' = PilotNow /\ Done = next - 1
    BY <1>1 DEF Done, PilotNow, Merging
  <2>2. ASSUME NEW q \in Stable' PROVE q \in Stable /\ after[q] = part["indices"][q]
    <3>1. CASE sidecar.shard = 0
      <4>1. q \in 1..(next - 1)
        BY <1>1, <2>1, <3>1 DEF Stable
      <4> QED
        BY <1>1, <1>8, <2>1, <3>1, <4>1 DEF Stable
    <3>2. CASE sidecar.shard # 0
      <4>1. Underway' = next..LastRow
        BY <1>1, <1>5 DEF Underway
      <4>2. q \in Rows /\ q \notin next..LastRow
        BY <1>1, <2>1, <3>2, <4>1 DEF Stable
      <4>3. Underway = {} /\ q \in Stable
        BY <1>1, <3>2, <4>2 DEF Stable, Underway
      <4>4. saved.shard > 0
        BY <1>3, <1>4, <3>2, Divided DEF Shards
      <4>5. q \in 1..(next - 1) \/ q \in (LastRow + 1)..NRow
        BY <1>5, <4>2 DEF Rows
      <4> QED
        BY <1>7, <1>8, <4>3, <4>4, <4>5
    <3> QED
      BY <3>1, <3>2
  <2> SUFFICES ASSUME NEW q \in Stable'
               PROVE  Kept(after[q], part["distances"][q], sidecar.signature, sidecar.shard,
                           IF q <= Done THEN PilotNow ELSE Missing, q)
    BY <1>1, <1>14, <2>1 DEF RowsHold, RowsKept
  <2> QED
    BY <1>3, <2>2 DEF ShardIInv, RowsHold, RowsKept
<1>16. UnderwayHolds'
  <2>1. ASSUME NEW q \in next..LastRow
        PROVE  Kept(after[q], merged'[q], watched, saved.shard,
                    Pilot(watched, build, saved.shard), q)
    BY <1>1, <1>6, <1>8, BatchKept
  <2> QED
    BY <1>1, <1>2, <1>5, <2>1 DEF UnderwayHolds
<1>17. ReplayIdempotent'
  BY <1>1, ReplaySame DEF ShardIInv
<1> QED
  BY <1>9, <1>10, <1>11, <1>12, <1>13, <1>15, <1>16, <1>17 DEF ShardIInv

LEMMA MergeDistancesKeeps ==
    ASSUME ShardIInv, MergeDistances
    PROVE  ShardIInv'
<1> DEFINE count == LastRow - next + 1
           after == Written(part["distances"], merged, count)
           pilot == Pilot(watched, build, saved.shard)
<1>1. /\ pc = "merge_d" /\ pc' \in {"save", "search"} /\ pc' \in Points
      /\ saved' = [saved EXCEPT !.pilot_signature = IF @ = Missing THEN pilot ELSE @]
      /\ next' = LastRow + 1 /\ merged' = <<>>
      /\ UNCHANGED <<source, final, sidecar, stops, watched, build>>
  BY DEF MergeDistances, Points
<1>2. /\ DOMAIN part' = Files /\ part'["distances"] = after
      /\ part'["indices"] = part["indices"]
  BY Parts DEF MergeDistances, ShardIInv, Files
<1>3. /\ sidecar \in States /\ sidecar # Missing /\ saved \in States
      /\ watched = sidecar.signature /\ saved.signature = sidecar.signature
      /\ saved.shard = sidecar.shard /\ watched \in Versions
      /\ final["indices"] = Missing /\ final["distances"] = Missing
      /\ saved.completed_rows = sidecar.completed_rows
      /\ sidecar.pilot_signature # Missing => saved.pilot_signature = sidecar.pilot_signature
      /\ Data("indices") = part["indices"] /\ Data("distances") = part["distances"]
      /\ saved.completed_rows \in Nat
  BY <1>1, Running, StateFields
<1>4. /\ saved.shard \in Shards /\ build \in Builds /\ Whole(next - 1)
      /\ next > saved.completed_rows /\ next <= NRow
      /\ saved.pilot_signature \in {Missing, pilot}
      /\ next > 1 => saved.pilot_signature # Missing
  BY <1>1 DEF ShardIInv, CallHolds, InShard, Merging
<1>5. /\ next \in Nat /\ next >= 1 /\ LastRow \in Nat /\ next <= LastRow /\ LastRow <= NRow
      /\ NRow \in Nat /\ count \in Nat /\ count \in 0..count
      /\ next + count - 1 = LastRow /\ next + count = LastRow + 1
      /\ Whole(LastRow) /\ next' \in 1..(NRow + 1) /\ next' - 1 = LastRow
      /\ next' > saved.completed_rows /\ next' > 1
  <2>1. next \in Nat /\ next >= 1 /\ NRow \in Nat
    BY Parts, Divided DEF ShardIInv
  <2>2. LastRow \in Nat /\ next <= LastRow /\ LastRow <= NRow /\ Whole(LastRow)
    BY <1>4, <2>1, BatchEnd
  <2> QED
    BY <1>1, <1>3, <1>4, <2>1, <2>2
<1>6. pilot \in Pilots /\ pilot # Missing
  BY <1>3, <1>4, PilotIs
<1>7. /\ saved' \in States /\ saved' # Missing /\ saved'.signature = saved.signature
      /\ saved'.shard = saved.shard /\ saved'.completed_rows = saved.completed_rows
      /\ saved'.pilot_signature = pilot
      /\ sidecar.pilot_signature # Missing => saved'.pilot_signature = sidecar.pilot_signature
      /\ next > 1 => saved.pilot_signature = saved'.pilot_signature
  <2> HIDE DEF pilot
  <2>1. saved' = [saved EXCEPT !.pilot_signature = pilot]
    BY <1>1, <1>3, <1>4 DEF States
  <2>2. saved' \in States
    BY <1>3, <1>6, <2>1 DEF States, Pilots
  <2> QED
    BY <1>3, <1>4, <2>1, <2>2, StateFields DEF States
<1>8. merged \in [next..LastRow -> DistanceRows]
  BY <1>1 DEF ShardIInv, ShardTypeOK
<1>9. /\ RowsIn(part["distances"]) \in Nat
      /\ RowsIn(part["distances"]) = IF saved.shard > 0 THEN NRow ELSE next - 1
      /\ RowsIn(part["indices"]) = IF saved.shard > 0 THEN NRow ELSE LastRow
  BY <1>1, <1>5, Lengths
<1>10. /\ after \in Seq(DistanceRows) /\ after # Missing
       /\ Len(after) = IF saved.shard > 0 THEN NRow ELSE LastRow
       /\ \A q \in 1..(next - 1) : after[q] = part["distances"][q]
       /\ \A q \in (LastRow + 1)..RowsIn(part["distances"]) : after[q] = part["distances"][q]
       /\ \A q \in next..LastRow : after[q] = merged[q]
  <2> DEFINE content == part["distances"]
  <2>1. content \in Seq(DistanceRows) \cup {Missing} /\ Missing \notin Seq(DistanceRows)
    BY Parts, MissingIs DEF ShardIInv
  <2>2. next \in Nat /\ next >= 1 /\ next <= NRow /\ next - 1 <= RowsIn(content)
    BY <1>1, <1>4, <1>5, <1>9
  <2>3. BatchWritten(after, content, merged, DistanceRows)
    <3>1. after = Written(content, merged, LastRow - next + 1)
      OBVIOUS
    <3> HIDE DEF content, after, count
    <3> QED
      BY <1>8, <3>1, <2>1, <2>2, BatchWrittenIs, SMTT(20)
  <2> HIDE DEF after, content
  <2>4. Len(after) = IF saved.shard > 0 THEN NRow ELSE LastRow
    BY <1>5, <1>9, <2>3 DEF BatchWritten, content
  <2> QED
    BY <2>3, <2>4 DEF BatchWritten, content
<1> HIDE DEF after, count, pilot
<1>11. ShardTypeOK'
  <2>1. part'["indices"] \in Contents["indices"] \cup {Missing}
        /\ part'["distances"] \in Contents["distances"] \cup {Missing}
    BY <1>2, <1>10, MissingIs DEF ShardIInv, ShardTypeOK, Files
  <2> QED
    BY <1>1, <1>2, <1>5, <1>7, <2>1 DEF ShardIInv, ShardTypeOK, Files
<1>12. SidecarHolds'
  BY <1>1 DEF ShardIInv, SidecarHolds
<1>13. CallHolds'
  <2>1. Pilot(watched, build, saved.shard)' = pilot
    BY <1>1, <1>7 DEF pilot
  <2> QED
    BY <1>1, <1>3, <1>4, <1>5, <1>6, <1>7, <2>1 DEF CallHolds, InShard, Merging
<1>14. LengthsHold'
  <2>1. RowsIn(part["distances"])' = (IF saved.shard > 0 THEN NRow ELSE LastRow)
    BY <1>2, <1>10 DEF RowsIn
  <2>2. RowsIn(part["indices"])' = (IF saved.shard > 0 THEN NRow ELSE LastRow)
    BY <1>2, <1>9 DEF RowsIn
  <2> QED
    BY <1>1, <1>3, <1>5, <2>1, <2>2 DEF LengthsHold
<1>15. NamesHold'
  BY <1>1, <1>3 DEF NamesHold
<1>16. Data("indices")' = part["indices"] /\ Data("distances")' = after
  BY <1>1, <1>2, <1>3 DEF Data
<1>17. RowsHold'
  <2>1. Done' = LastRow /\ PilotNow' = pilot /\ Underway' = {}
        /\ Done = next - 1 /\ PilotNow = saved.pilot_signature /\ Underway = next..LastRow
    BY <1>1, <1>5, <1>7 DEF Done, PilotNow, Underway, Merging
  <2> SUFFICES ASSUME NEW q \in Stable'
               PROVE  Kept(part["indices"][q], after[q], watched, saved.shard,
                           IF q <= LastRow THEN pilot ELSE Missing, q)
    BY <1>1, <1>3, <1>16, <2>1 DEF RowsHold, RowsKept
  <2>2. q \in Nat /\ q >= 1 /\ q <= NRow /\ (sidecar.shard = 0 => q <= LastRow)
    <3>1. IF sidecar.shard = 0 THEN q \in 1..LastRow ELSE q \in 1..NRow
      BY <1>1, <2>1 DEF Stable, Rows
    <3> QED
      BY <1>5, <3>1
  <2>3. CASE q \in next..LastRow
    <3>1. Kept(part["indices"][q], merged[q], watched, saved.shard, pilot, q)
      BY <1>1, <2>3 DEF ShardIInv, UnderwayHolds, pilot
    <3> QED
      BY <1>5, <1>10, <2>2, <2>3, <3>1
  <2>4. CASE q < next
    <3>1. q \in 1..(next - 1) /\ q <= Done /\ q <= LastRow /\ next > 1 /\ q \notin next..LastRow
      BY <1>5, <2>1, <2>2, <2>4
    <3>2. q \in Stable
      BY <2>1, <2>2, <3>1 DEF Stable, Rows
    <3>3. Kept(part["indices"][q], part["distances"][q], watched, saved.shard,
               saved.pilot_signature, q)
      BY <1>3, <2>1, <3>1, <3>2 DEF ShardIInv, RowsHold, RowsKept
    <3> QED
      BY <1>7, <1>10, <3>1, <3>3
  <2>5. CASE q > LastRow
    <3>1. q \in (LastRow + 1)..NRow /\ ~(q <= Done) /\ ~(q <= LastRow) /\ q \notin next..LastRow
          /\ sidecar.shard # 0 /\ q \in Rows
      BY <1>5, <2>1, <2>2, <2>5 DEF Rows
    <3>2. q \in Stable
      BY <2>1, <3>1 DEF Stable
    <3>3. Kept(part["indices"][q], part["distances"][q], watched, saved.shard, Missing, q)
      BY <1>3, <3>1, <3>2 DEF ShardIInv, RowsHold, RowsKept
    <3>4. saved.shard > 0
      BY <1>3, <1>4, <3>1, Divided DEF Shards
    <3> QED
      BY <1>9, <1>10, <3>1, <3>3, <3>4
  <2> QED
    BY <1>5, <2>2, <2>3, <2>4, <2>5
<1>18. UnderwayHolds'
  BY <1>1 DEF UnderwayHolds
<1>19. ReplayIdempotent'
  BY <1>1, ReplaySame DEF ShardIInv
<1> QED
  BY <1>11, <1>12, <1>13, <1>14, <1>15, <1>17, <1>18, <1>19 DEF ShardIInv

-----------------------------------------------------------------------------
(* The invariant holds.                                                    *)

LEMMA ShardInit == Init => ShardIInv
<1> SUFFICES ASSUME Init PROVE ShardIInv
  OBVIOUS
<1>1. /\ pc = "idle" /\ sidecar = Missing /\ source = 0 /\ stops = 0 /\ saved = Missing
      /\ watched = Missing /\ build = Missing /\ next = 1 /\ merged = <<>>
      /\ DOMAIN part = Files /\ DOMAIN final = Files
      /\ \A f \in Files : part[f] = Missing /\ final[f] = Missing
  BY DEF Init
<1>2. ShardTypeOK
  <2>1. 0 \in Versions /\ 1 \in 1..(NRow + 1)
    BY SizeAssumption, BoundAssumption DEF Versions
  <2> QED
    BY <1>1, <2>1 DEF ShardTypeOK, Points
<1>3. SidecarHolds /\ LengthsHold /\ RowsHold
  BY <1>1 DEF SidecarHolds, LengthsHold, RowsHold
<1>4. CallHolds /\ UnderwayHolds
  BY <1>1 DEF CallHolds, UnderwayHolds, InShard, Merging
<1>5. NamesHold
  BY <1>1 DEF NamesHold, Files
<1>6. ReplayIdempotent
  BY <1>1 DEF ReplayIdempotent, Published, Files
<1> QED
  BY <1>2, <1>3, <1>4, <1>5, <1>6 DEF ShardIInv

LEMMA ShardStep ==
    ASSUME LaterShardsWhole
    PROVE  ShardIInv /\ [Next]_vars => ShardIInv'
<1> SUFFICES ASSUME ShardIInv, [Next]_vars PROVE ShardIInv'
  OBVIOUS
<1>1. CASE StartNew
  BY <1>1, StartNewKeeps
<1>2. CASE Resume
  BY <1>2, ResumeKeeps
<1>3. CASE BuildIndex
  BY <1>3, BuildIndexKeeps
<1>4. CASE RestoreFirst("indices", "restore_i", "restore_d")
  BY <1>4, RestoreFirstKeeps DEF Files
<1>5. CASE RestoreFirst("distances", "restore_d", "search")
  BY <1>5, RestoreFirstKeeps DEF Files
<1>6. CASE MergeIndices
  BY <1>6, MergeIndicesKeeps
<1>7. CASE MergeDistances
  BY <1>7, MergeDistancesKeeps
<1>8. CASE SaveSidecar
  BY <1>8, SaveSidecarKeeps
<1>9. CASE EndShard
  BY <1>9, EndShardKeeps
<1>10. CASE RenameIndices
  BY <1>10, RenameIndicesKeeps
<1>11. CASE RenameDistances
  BY <1>11, RenameDistancesKeeps
<1>12. CASE RetireSidecar
  BY <1>12, RetireSidecarKeeps
<1>13. CASE Refuse
  BY <1>13, RefuseKeeps
<1>14. CASE Interrupt
  BY <1>14, InterruptKeeps
<1>15. CASE TearBatch
  BY <1>15, TearBatchKeeps
<1>16. CASE RestoreIndices
  BY <1>16, RestoreIndicesKeeps
<1>17. CASE ChangeSource
  BY <1>17, ChangeSourceKeeps
<1>18. CASE UNCHANGED vars
  <2>1. UNCHANGED <<part, final, sidecar, stops, process>> /\ source' = source
    BY <1>18 DEF vars, disk
  <2>2. source' \in Versions
    BY <2>1 DEF ShardIInv, ShardTypeOK
  <2> QED
    BY <2>1, <2>2, ShardStutter
<1> QED
  BY <1>1, <1>2, <1>3, <1>4, <1>5, <1>6, <1>7, <1>8, <1>9, <1>10, <1>11, <1>12,
     <1>13, <1>14, <1>15, <1>16, <1>17, <1>18 DEF Next, Step

LEMMA ShardInductive ==
    ASSUME LaterShardsWhole
    PROVE  Spec => []ShardIInv
  BY ShardInit, ShardStep, PTL DEF Spec

-----------------------------------------------------------------------------
(* What it implies.                                                        *)

LEMMA KeptCommitted ==
    ASSUME ShardIInv
    PROVE  CommittedAnswersKept
<1> SUFFICES ASSUME sidecar # Missing, NEW s \in Shards, NEW q \in Committed(s) \ Underway
             PROVE  /\ TrueRow(sidecar.signature, q)
                    /\ \E b \in Builds :
                         /\ Absorbed(sidecar.signature, b, s, q)
                         /\ s = sidecar.shard =>
                              Pilot(sidecar.signature, b, s) = sidecar.pilot_signature
  BY DEF CommittedAnswersKept
<1> DEFINE v == sidecar.signature
           ids == Data("indices")[q]
           dists == Data("distances")[q]
           pilot == IF q <= sidecar.completed_rows THEN sidecar.pilot_signature ELSE Missing
<1>1. /\ sidecar \in States /\ v \in Versions /\ sidecar.shard \in Nat
      /\ sidecar.completed_rows \in Nat /\ sidecar.completed_rows <= NRow
      /\ (sidecar.completed_rows > 0 <=> sidecar.pilot_signature # Missing)
      /\ s \in Nat /\ NRow \in Nat
  <2>1. sidecar \in States
    BY Parts DEF ShardIInv
  <2>2. s \in Nat /\ NRow \in Nat
    BY Divided DEF Shards
  <2>3. sidecar.completed_rows \in 0..NRow
    BY <2>1, StateFields
  <2> QED
    BY <2>1, <2>2, <2>3, StateFields DEF ShardIInv, SidecarHolds, RecordWhole
<1>2. s < sidecar.shard \/ (s = sidecar.shard /\ q \in 1..sidecar.completed_rows)
  BY <1>1 DEF Committed
<1>3. q \in Rows
  BY <1>1, <1>2 DEF Committed, Rows
<1>4. q \in Stable
  <2>1. CASE sidecar.shard = 0
    <3>1. q \in 1..sidecar.completed_rows
      BY <1>1, <1>2, <2>1
    <3>2. pc \in Merging => Done = next - 1 /\ next > sidecar.completed_rows
      <4> SUFFICES ASSUME pc \in Merging PROVE next > sidecar.completed_rows
        BY DEF Done
      <4>1. pc # "idle" /\ pc \in InShard
        BY DEF Merging, InShard
      <4> QED
        BY <4>1, Running DEF ShardIInv, CallHolds
    <3>3. pc \notin Merging => Done = sidecar.completed_rows
      BY DEF Done
    <3> QED
      BY <1>1, <2>1, <3>1, <3>2, <3>3, Parts DEF Stable, ShardIInv
  <2>2. CASE sidecar.shard # 0
    BY <1>3, <2>2 DEF Stable
  <2> QED
    BY <2>1, <2>2
<1>5. Kept(ids, dists, v, sidecar.shard, pilot, q)
  BY <1>4, RecordedRow
<1>6. TrueRow(v, q) <=>
         \A r \in Ranks :
           IF ids[r] = 0 THEN dists[r] = Infinite
           ELSE /\ ids[r] # q
                /\ dists[r] = Distance(v, q, ids[r])
                /\ r > 1 => /\ ids[r - 1] # 0
                            /\ Before(<<dists[r - 1], ids[r - 1]>>, <<dists[r], ids[r]>>)
  BY DEF TrueRow
<1>7. ASSUME NEW b \in Builds
      PROVE  Absorbed(v, b, s, q) <=>
               \A c \in Candidates(v, b, s, q) :
                  \/ c \in Pairs(ids, dists)
                  \/ Cardinality(Pairs(ids, dists)) = K /\ \A e \in Pairs(ids, dists) : Before(e, c)
  BY DEF Absorbed
<1>8. (s = sidecar.shard => pilot = sidecar.pilot_signature /\ pilot # Missing)
  BY <1>1, <1>2
<1> HIDE DEF v, ids, dists, pilot
<1>9. PICK used \in [Shards -> SUBSET Builds] :
         Holds(ids, dists, v, used, q) /\ Uses(v, used, sidecar.shard, pilot)
  BY <1>5 DEF Kept
<1>10. TrueRow(v, q)
  BY <1>1, <1>3, <1>6, <1>9, HeldTrue
<1>11. PICK b \in used[s] : s = sidecar.shard => Pilot(v, b, s) = pilot
  <2>1. CASE s = sidecar.shard
    BY <1>8, <1>9, <2>1 DEF Uses
  <2>2. CASE s < sidecar.shard
    BY <1>1, <1>9, <2>2 DEF Uses
  <2> QED
    BY <1>2, <2>1, <2>2
<1>12. b \in Builds
  BY <1>9, <1>11
<1>13. Absorbed(v, b, s, q)
  BY <1>1, <1>3, <1>7, <1>9, <1>11, <1>12, HeldAbsorbs
<1> QED
  BY <1>8, <1>10, <1>11, <1>12, <1>13 DEF v

LEMMA KeptFits ==
    ASSUME ShardIInv
    PROVE  ResumeAccepted
<1>1. ASSUME pc = "idle", sidecar # Missing, sidecar.signature = source, ~OneAlone
      PROVE  PathsFit(TRUE) /\ Verified
  <2>1. /\ sidecar \in States /\ sidecar.shard \in Nat /\ sidecar.completed_rows \in Nat
        /\ sidecar.completed_rows <= NRow /\ NRow \in Nat /\ NRow > 0
        /\ RecordWhole(sidecar)
    <3>1. sidecar \in States
      BY <1>1, Parts DEF ShardIInv
    <3>2. sidecar.completed_rows \in 0..NRow /\ NRow \in Nat /\ NRow > 0
      BY <3>1, StateFields, SizeAssumption
    <3> QED
      BY <1>1, <3>1, <3>2, StateFields DEF ShardIInv, SidecarHolds
  <2>2. final["indices"] = Missing /\ final["distances"] = Missing
    <3>1. final["indices"] = Missing
      <4> SUFFICES ASSUME final["indices"] # Missing PROVE OneAlone
        BY <1>1
      <4>1. part["indices"] = Missing
        BY DEF ShardIInv, NamesHold
      <4> QED
        BY <4>1 DEF OneAlone, Files
    <3> QED
      BY <3>1 DEF ShardIInv, NamesHold
  <2>3. part["indices"] = Missing <=> part["distances"] = Missing
    BY <1>1 DEF OneAlone, Files
  <2>4. PathsFit(TRUE)
    <3>1. {f \in Files : part[f] # Missing} \in {{}, Files}
      BY <2>3 DEF Files
    <3> QED
      BY <2>2, <3>1 DEF PathsFit, Files
  <2>5. /\ RowsIn(part["indices"]) \in Nat /\ RowsIn(part["distances"]) \in Nat
        /\ part["indices"] # Missing => RowsIn(part["indices"]) = Len(part["indices"])
        /\ part["distances"] # Missing => RowsIn(part["distances"]) = Len(part["distances"])
        /\ RowsIn(part["indices"]) > 0 => part["indices"] # Missing
        /\ RowsIn(part["distances"]) > 0 => part["distances"] # Missing
    BY Parts, RowsInIs DEF ShardIInv
  <2>6. IF sidecar.shard > 0
        THEN RowsIn(part["indices"]) = NRow /\ RowsIn(part["distances"]) = NRow
        ELSE /\ RowsIn(part["indices"]) >= sidecar.completed_rows
             /\ RowsIn(part["distances"]) >= sidecar.completed_rows
    BY <1>1, <2>2 DEF ShardIInv, LengthsHold, Files
  <2>7. sidecar.shard > 0 \/ sidecar.completed_rows > 0 => \A f \in Files : part[f] # Missing
    BY <2>1, <2>5, <2>6 DEF Files
  <2>8. \A f \in Files : part[f] # Missing =>
          Len(part[f]) >= IF sidecar.shard = 0 THEN sidecar.completed_rows ELSE NRow
    BY <2>1, <2>5, <2>6 DEF Files
  <2> QED
    BY <1>1, <2>1, <2>4, <2>7, <2>8 DEF Verified, RecordWhole, Whole
<1>2. ASSUME pc = "search", next <= NRow, source = watched
      PROVE  BatchFits
  <2>1. ASSUME NEW f \in Files PROVE SizeFits(f)
    <3>1. RowsIn(part[f]) = IF saved.shard = 0 THEN next - 1 ELSE NRow
      <4>1. saved.shard \in Nat
        BY <1>2, Running
      <4>2. IF saved.shard = 0
            THEN RowsIn(part["indices"]) = next - 1 /\ RowsIn(part["distances"]) = next - 1
            ELSE RowsIn(part["indices"]) = NRow /\ RowsIn(part["distances"]) = NRow
        BY <1>2, <4>1, Lengths
      <4> QED
        BY <4>2 DEF Files
    <3> QED
      BY <3>1 DEF SizeFits, RowsIn
  <2>2. ASSUME NEW q \in next..LastRow
        PROVE  /\ RowValid(OldIds(q), OldDistances(q))
               /\ NRow \in ShardRows(saved.shard) => Len(MergedRow(q)) = K
    <3>1. saved.shard \in Shards
      BY <1>2 DEF ShardIInv, CallHolds, InShard
    <3> QED
      BY <1>2, <3>1, BatchKept, LastShard
  <2> QED
    BY <2>1, <2>2 DEF BatchFits
<1> QED
  BY <1>1, <1>2 DEF ResumeAccepted

(* When no kill falls inside a batch of a later shard, what the sidecar    *)
(* has committed is in the files, however often the call was interrupted,  *)
(* resumed with other builds of the same index and refused: the rows are   *)
(* the true answers and nothing a committed shard found is lost, though    *)
(* every later shard rewrites them in place (massive_sharded_batch).       *)
THEOREM AnswersAreKept ==
    ASSUME LaterShardsWhole
    PROVE  Spec => []CommittedAnswersKept
  BY ShardInductive, KeptCommitted, PTL

(* Under the same condition a published graph is the one an uninterrupted  *)
(* call computes from some builds of each shard of one version: replaying  *)
(* an uncommitted batch merges it idempotently (merge_row).                *)
THEOREM ReplayIsIdempotent ==
    ASSUME LaterShardsWhole
    PROVE  Spec => []ReplayIdempotent
<1>1. ShardIInv => ReplayIdempotent
  BY DEF ShardIInv
<1> QED
  BY <1>1, ShardInductive, PTL

(* And work with a checkpoint can be continued: massive_sharded_checkpoint *)
(* accepts every file and sidecar a stop leaves, but for the two cases of  *)
(* OneAlone, and the batches that follow fit the files.                    *)
THEOREM ResumeIsAccepted ==
    ASSUME LaterShardsWhole
    PROVE  Spec => []ResumeAccepted
  BY ShardInductive, KeptFits, PTL

=============================================================================
