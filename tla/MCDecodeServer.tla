--------------------------- MODULE MCDecodeServer ---------------------------
(* Instances of the decode server for TLC.                                 *)
EXTENDS DecodeServer, TLC

CONSTANTS i1, i2, i3

\* Page 0 is padding: the pages are numbered from 1.
MCPhysPage ==
  CHOOSE f \in [Pages -> 1 .. Cardinality(Pages)] : \A p, q \in Pages : f[p] = f[q] => p = q
MCPrefill1 == [r \in Reqs |-> 1]
MCSlots2 == <<i1, i2>>
MCSlots3 == <<i1, i2, i3>>
\* Page numbers matter only to the legacy local index (LocalFix = FALSE).
MCReqSymmetry == Permutations(Reqs)
MCSymmetry == Permutations(Pages) \cup Permutations(Reqs)
=============================================================================
