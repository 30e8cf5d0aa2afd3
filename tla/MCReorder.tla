----------------------------- MODULE MCReorder ------------------------------
(* A grouped graph brought back to the order of its source with the        *)
(* program's own fan-out of 32: 33 rows on a line around two centers,      *)
(* sorted one row at a time, without stops or changes of the source.       *)
EXTENDS Postings

MCLine(v, r) == (r * 7) % 33
MCEnds == <<3, 30>>
=============================================================================
