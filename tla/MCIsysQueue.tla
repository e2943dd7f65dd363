---------------------------- MODULE MCIsysQueue ----------------------------
(* Instances of IsysQueue for TLC. *)
EXTENDS IsysQueue, TLC

\* Nodes differ in nothing but their buffers, which are named after them.
NodeSymmetry == Permutations(Node)
=============================================================================
