----------------------------- MODULE MCV1Server -----------------------------
(* V1Server on small instances for TLC. *)
EXTENDS V1Server, TLC

Symm == Permutations(Workers) \cup Permutations(Conns)

=============================================================================
