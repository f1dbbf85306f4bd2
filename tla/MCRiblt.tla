------------------------------- MODULE MCRiblt -------------------------------
(* Instances of Riblt for TLC.                                             *)
EXTENDS Riblt, TLC

\* The elements are interchangeable.
Symmetric == Permutations(Elem)
=============================================================================
