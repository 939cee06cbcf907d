----------------------------- MODULE Ownership -----------------------------
(***************************************************************************)
(* What the server and the client promise about every ConnCtx, whatever    *)
(* threads serve it: it is handed from one thread to the system with each  *)
(* overlapped operation and back with each completion, it is deleted by    *)
(* the thread that has it and never while the system has it, it is deleted *)
(* once, and it is not used again.  Where MayLose holds, a thread may also *)
(* let go of it without handing it to anyone; then it is lost for good.    *)
(***************************************************************************)
CONSTANTS
    Conns,      \* ConnCtx objects that can be allocated
    MayLose     \* whether a thread may let go of one

VARIABLE owner      \* ConnCtx -> who has it

Init == owner = [k \in Conns |-> "none"]

Pass(k, from, to) ==
    /\ owner[k] = from
    /\ owner' = [owner EXCEPT ![k] = to]

Open(k)    == Pass(k, "none", "thread")
Submit(k)  == Pass(k, "thread", "system")
Deliver(k) == Pass(k, "system", "thread")
Delete(k)  == Pass(k, "thread", "freed")
Lose(k)    == MayLose /\ Pass(k, "thread", "lost")

Next == \E k \in Conns : Open(k) \/ Submit(k) \/ Deliver(k) \/ Delete(k) \/ Lose(k)

Spec == Init /\ [][Next]_owner

=============================================================================
