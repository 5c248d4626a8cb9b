------------------------- MODULE MCPrewarmedVerifier -------------------------
(***************************************************************************)
(* PrewarmedVerifier for TLC.  Takes, workers and children only differ by  *)
(* name: no action and no invariant mentions one of them.                  *)
(***************************************************************************)
EXTENDS PrewarmedVerifier, TLC

Symmetry ==
    Permutations(Takes) \cup Permutations(Workers) \cup Permutations(Children)
=============================================================================
