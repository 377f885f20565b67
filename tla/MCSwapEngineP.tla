--------------------------- MODULE MCSwapEngineP ---------------------------
(* The swap engine alone, under every caller that keeps its discipline.    *)
EXTENDS SwapEngineP, TLC

\* Page 0 is padding: the pages are numbered from 1.
MCPhysPage ==
  CHOOSE f \in [Pages -> 1 .. Cardinality(Pages)] : \A p, q \in Pages : f[p] = f[q] => p = q
\* Page numbers matter only to the legacy local index (LocalFix = FALSE).
MCSymmetry == Permutations(Pages)
=============================================================================
