---------------------------- MODULE CommittedLog ----------------------------
(***************************************************************************)
(* What every checkpointed, resumable writer of the package promises its   *)
(* caller, whatever files it keeps: a log of output rows that only grows,  *)
(* whose committed rows are never rewritten, that is published once, and   *)
(* only when all of its rows are there.  Crashes and refused calls are     *)
(* stuttering steps of this specification.                                 *)
(***************************************************************************)
EXTENDS Naturals, Sequences, SequencesExt

CONSTANT  Valid(_)          \* which logs are acceptable contents

VARIABLES log,              \* the committed rows
          size,             \* rows of the output, fixed from the beginning
          published         \* the output has its final name

vars == <<log, size, published>>

Init == log = <<>> /\ size \in Nat \ {0} /\ published = FALSE

(* More rows are committed after the ones already there. *)
Commit ==
    /\ ~published
    /\ IsPrefix(log, log')
    /\ Len(log') <= size
    /\ Valid(log')
    /\ published' = FALSE /\ UNCHANGED size

(* The complete output gets its final name.  A writer that keeps no        *)
(* checkpoint commits everything in this one step.                         *)
Publish ==
    /\ ~published
    /\ IsPrefix(log, log')
    /\ Len(log') = size
    /\ Valid(log')
    /\ published' = TRUE /\ UNCHANGED size

Next == Commit \/ Publish

Spec == Init /\ [][Next]_vars
=============================================================================
