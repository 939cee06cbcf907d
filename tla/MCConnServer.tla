---------------------------- MODULE MCConnServer ----------------------------
(* ConnServer on small instances for TLC. *)
EXTENDS ConnServer, TLC

Symm == Permutations(Workers) \cup Permutations(Conns)

(* The fields of a freed ConnCtx are dead: no action reads them, but for a    *)
(* reference count that would not be zero.                                   *)
Fields(k) ==
    IF mem[k] = "freed" THEN <<refcount[k]>>
    ELSE <<refcount[k], ps[k], req[k], want[k], wantsend[k], recvThreshold[k], fin[k]>>

LiveView ==
    <<mem, [k \in Conns |-> Fields(k)], inflight, acceptVars, conns, countVars,
      workerVars, monitorVars>>

=============================================================================
