---------------------------- MODULE MCComLookup ----------------------------
(***************************************************************************)
(* Values for the constants of ComLookup: four classes and three ProgIDs,  *)
(* one of each in two spellings, and chains of two hops at most, so that   *)
(* there are cycles of each length and chains that are too long.           *)
(***************************************************************************)
EXTENDS ComLookup, TLC

CONSTANTS a, A, b, c, d, p, P, q, r

MCUpper == [n \in Names |->
              CASE n = A -> a [] n = P -> p [] OTHER -> n]

\* Names that are neither asked for nor spelled twice are alike.
Symmetry == Permutations({b, c, d}) \cup Permutations({q, r})
=============================================================================
