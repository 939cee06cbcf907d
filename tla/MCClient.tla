------------------------------ MODULE MCClient ------------------------------
(* Client on small instances for TLC. *)
EXTENDS Client, TLC

Symm == Permutations(Workers) \cup Permutations(Callers) \cup Permutations(Conns)

(* left, fin and pkt of a freed ConnCtx are dead, but pkt is kept: it tells   *)
(* which connections totalServers has counted.                               *)
LiveView ==
    <<mainVars, mem, pkt,
      [k \in Conns |-> IF mem[k] = "freed" THEN <<>> ELSE <<left[k], fin[k]>>],
      inflight, ctlist, timerVars, countVars, threadVars>>

=============================================================================
