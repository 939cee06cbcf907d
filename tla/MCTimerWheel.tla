---------------------------- MODULE MCTimerWheel ----------------------------
(* TimerWheel on small instances for TLC. *)
EXTENDS TimerWheel, TLC

Symm == Permutations(Ops)

(* The record of an id that no operation carries and no slot lists is dead:   *)
(* maketimer clears it (memset) before anything reads it.                    *)
Live(id) == Owned(id) \/ InWheel(id)
LiveView ==
    <<crs, lst, freeids, cbVars, opVars,
      [id \in Ids |->
          IF Live(id)
          THEN <<wheelpos[id], index_in_bucket[id], rounds[id], hasTouchedByWorker[id], ioc[id]>>
          ELSE <<>>]>>

=============================================================================
