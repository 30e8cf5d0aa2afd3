--------------------------- MODULE MCNearestRows ---------------------------
EXTENDS NearestRows
(* Rows with copies of each other, lists of one to four rows.              *)
Spread == <<0, 0, 0, 2, 3, 5, 5, 8>>
Even == <<1, 2, 4, 7, 8>>
SelfOf(rows) == [i \in DOMAIN rows |-> [at |-> rows[i], row |-> i]]
Asked(places) == [i \in DOMAIN places |-> [at |-> places[i], row |-> 0]]

Plain == [route |-> "threads", rows |-> Even, calls |-> <<SelfOf(Even)>>, self |-> TRUE, k |-> 2,
          exact |-> TRUE, centers |-> <<0, 4, 8>>, probes |-> 1, target |-> 990,
          labels |-> <<>>, strip |-> FALSE]
Copied == [Plain EXCEPT !.rows = Spread, !.calls = <<SelfOf(Spread)>>]
Lonely == [Plain EXCEPT !.rows = <<1, 4, 2, 8, 7>>, !.calls = <<SelfOf(<<1, 4, 2, 8, 7>>)>>]
Kinds == {[exact |-> TRUE, probes |-> 1, target |-> 990]}
         \cup [exact : {FALSE}, probes : {1, 2}, target : {800, 990}]
As(s, kind) == [s EXCEPT !.exact = kind.exact, !.probes = kind.probes, !.target = kind.target]
OnDevice ==
    {[As(s, kind) EXCEPT !.route = "device", !.k = k] :
        s \in {Copied, Lonely}, kind \in Kinds, k \in {1, 3}}
ForQueries ==
    {[As(s, kind) EXCEPT !.route = "queries", !.self = FALSE, !.k = 3,
                         !.calls = <<Asked(<<6, 1, 0, 9, 5>>)>>] :
        s \in {Plain, Copied}, kind \in Kinds}
KeptIndex ==
    {[s EXCEPT !.route = "index", !.self = FALSE, !.exact = x, !.k = k,
               !.calls = <<Asked(first), Asked(<<7, 0>>), Asked(<<4, 4, 1>>)>>] :
        s \in {Plain, Copied}, x \in BOOLEAN, k \in {1, 3}, first \in {<<5>>, <<3, 9, 2, 1>>}}
InChunks ==
    {[Copied EXCEPT !.route = "chunks", !.k = k] : k \in {1, 3, 7}}
    \cup {[Plain EXCEPT !.route = "chunks", !.self = FALSE, !.calls = <<Asked(<<6, 1, 0, 9>>)>>,
                        !.k = k, !.labels = <<1, 2, 1, 3, 2>>] : k \in 1..4}
WithItself ==
    {[s EXCEPT !.route = r, !.self = FALSE, !.k = k, !.strip = TRUE] :
        s \in {Plain, Copied}, r \in {"queries", "chunks"}, k \in {1, 2, 4}}
ByThreads == {Plain, [Plain EXCEPT !.self = FALSE, !.k = 3, !.strip = TRUE]}
MCSearches == OnDevice \cup ForQueries \cup KeptIndex \cup InChunks \cup WithItself \cup ByThreads

=============================================================================
