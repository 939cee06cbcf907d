------------------------------- MODULE Timers -------------------------------
(***************************************************************************)
(* What a timer wheel promises to the operations it times, without slots,  *)
(* ids or a cursor.  Time is what is left until something is due, and a    *)
(* tick takes one from all of it.  An armed timer is due on time or one    *)
(* turn of the wheel late, it expires when it is due, before the next      *)
(* tick, and it is lost only to the late removal of another timer.  An     *)
(* operation is cancelled by its own timer, or, once a timer has been      *)
(* forgotten, by one of those.                                             *)
(***************************************************************************)
EXTENDS Integers

CONSTANTS
    Ops,        \* operation slots
    Timeout,    \* the ticks every operation is allowed
    Turn        \* the ticks of one turn of the wheel

VARIABLES
    asked,      \* ticks left until Timeout + 1 have passed since maketimer began
    timer,      \* operation -> "off", "armed", "gone" or "closing"
    due,        \* ticks left until an armed timer expires
    io,         \* operation -> "none", "pending", "expired", "struck" or "over"
    forgotten   \* a timer has been left behind by a post that failed

vars == <<asked, timer, due, io, forgotten>>

Init ==
    /\ asked = [o \in Ops |-> 0]
    /\ timer = [o \in Ops |-> "off"]
    /\ due = [o \in Ops |-> 0]
    /\ io = [o \in Ops |-> "none"]
    /\ forgotten = FALSE

-----------------------------------------------------------------------------
(* The thread of an operation. *)

Ask(o) ==
    /\ timer[o] = "off" /\ io[o] = "none"
    /\ asked' = [asked EXCEPT ![o] = Timeout + 1]
    /\ UNCHANGED <<timer, due, io, forgotten>>

\* A thread may be held up between asking and arming for as long as it likes.
\* Unless that takes the whole timeout, the timer is due on time or one turn late.
DueTimes(o) == IF asked[o] > 0 THEN {asked[o], asked[o] + Turn} ELSE 0 .. 2 * Turn

Arm(o) ==
    /\ timer[o] = "off" /\ io[o] = "none"
    /\ timer' = [timer EXCEPT ![o] = "armed"]
    /\ \E n \in DueTimes(o) : due' = [due EXCEPT ![o] = n]
    /\ UNCHANGED <<asked, io, forgotten>>

Post(o) ==
    /\ io[o] = "none"
    /\ io' = [io EXCEPT ![o] = "pending"]
    /\ UNCHANGED <<asked, timer, due, forgotten>>

Complete(o) ==
    /\ io[o] \in {"pending", "expired", "struck"}
    /\ io' = [io EXCEPT ![o] = "over"]
    /\ UNCHANGED <<asked, timer, due, forgotten>>

\* A worker takes the timer over, after the completion or a post that failed.
TakeDown(o) ==
    /\ io[o] \in {"none", "over"}
    /\ io' = [io EXCEPT ![o] = "none"]
    /\ asked' = [asked EXCEPT ![o] = 0]
    /\ due' = [due EXCEPT ![o] = 0]
    /\ timer' = [timer EXCEPT ![o] = IF @ = "off" THEN "off" ELSE "closing"]
    /\ UNCHANGED forgotten

\* A post that failed leaves its timer to itself.
Forget(o) ==
    /\ io[o] = "none" /\ timer[o] \in {"armed", "gone"}
    /\ timer' = [timer EXCEPT ![o] = "off"]
    /\ asked' = [asked EXCEPT ![o] = 0]
    /\ due' = [due EXCEPT ![o] = 0]
    /\ forgotten' = TRUE
    /\ UNCHANGED io

Close(o) ==
    /\ timer[o] = "closing"
    /\ timer' = [timer EXCEPT ![o] = "off"]
    /\ UNCHANGED <<asked, due, io, forgotten>>

\* The removal of o's timer comes too late and takes p's out in its place.
CloseStale(o, p) ==
    /\ timer[o] = "closing" /\ timer[p] = "armed"
    /\ timer' = [timer EXCEPT ![o] = "off", ![p] = "gone"]
    /\ due' = [due EXCEPT ![p] = 0]
    /\ UNCHANGED <<asked, io, forgotten>>

-----------------------------------------------------------------------------
(* The wheel. *)

\* No tick passes over a timer that is due.
Tick ==
    /\ \A o \in Ops : timer[o] = "armed" => due[o] > 0
    /\ due' = [o \in Ops |-> IF timer[o] = "armed" THEN due[o] - 1 ELSE due[o]]
    /\ asked' = [o \in Ops |-> IF asked[o] > 0 THEN asked[o] - 1 ELSE asked[o]]
    /\ UNCHANGED <<timer, io, forgotten>>

Expire(o) ==
    /\ timer[o] = "armed" /\ due[o] = 0
    /\ timer' = [timer EXCEPT ![o] = "gone"]
    /\ io' = [io EXCEPT ![o] = IF @ = "pending" THEN "expired" ELSE @]
    /\ UNCHANGED <<asked, due, forgotten>>

Strike(o) ==
    /\ forgotten /\ io[o] = "pending"
    /\ io' = [io EXCEPT ![o] = "struck"]
    /\ UNCHANGED <<asked, timer, due, forgotten>>

-----------------------------------------------------------------------------
Next ==
    \/ \E o \in Ops :
          \/ Ask(o) \/ Arm(o) \/ Post(o) \/ Complete(o) \/ TakeDown(o) \/ Forget(o)
          \/ Close(o) \/ (\E p \in Ops : CloseStale(o, p))
          \/ Expire(o) \/ Strike(o)
    \/ Tick

Spec == Init /\ [][Next]_vars

=============================================================================
