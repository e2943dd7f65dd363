---------------------------- MODULE MCIsysStream ----------------------------
(* Instances of IsysStream for TLC. *)
EXTENDS IsysStream

\* Messages are interchangeable: any free one may be taken.
MessageSymmetry == Permutations(Msg)

\* Pipelines start alike and differ only in what happens to them.
FullSymmetry == Permutations(Msg) \cup Permutations(Pipe)
=============================================================================
