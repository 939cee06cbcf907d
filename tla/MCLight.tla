------------------------------ MODULE MCLight ------------------------------
(* Light, and with it Wheels, on small instances for TLC. *)
EXTENDS Light, TLC

Symm == Permutations(Workers) \cup Permutations(Conns)

(* The fields of a connection that no later step reads are dead: those of its *)
(* last operation between two operations, all of them once it is gone.        *)
Fields(k) ==
    IF at[k] \in {"none", "gone"} THEN <<>>
    ELSE <<dir[k], newtimer[k], oldtimer[k],
           IF at[k] = "event" THEN ot[k] ELSE NoWheel,
           IF at[k] \in Armed THEN <<timers[k], tid[k], timed[k]>> ELSE <<>> >>

LiveView == <<freeids, ioc, c, at, [k \in Conns |-> Fields(k)], lightVars>>

=============================================================================
