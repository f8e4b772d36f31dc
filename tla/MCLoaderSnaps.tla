--------------------------- MODULE MCLoaderSnaps ----------------------------
(***************************************************************************)
(* Values for the constants of LoaderSnaps: three runs of one image and    *)
(* one other flag bit.  The runs are symmetric; the symmetry is used only  *)
(* where no liveness is checked.                                           *)
(***************************************************************************)
EXTENDS LoaderSnaps, TLC

CONSTANTS A, B, C, heap, snaps

MCInstances == {A, B, C}
MCPair == {A, B}
MCBits == {heap}
Symmetry == Permutations(MCInstances)
=============================================================================
