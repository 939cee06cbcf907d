---------------------------- MODULE TimersFacts ----------------------------
(***************************************************************************)
(* What may be concluded from the contract of Timers alone, and so about   *)
(* any wheel that implements it.                                           *)
(***************************************************************************)
EXTENDS Timers, TLAPS

TimersTyped ==
    /\ asked \in [Ops -> 0 .. Timeout + 1]
    /\ timer \in [Ops -> {"off", "armed", "gone", "closing"}]
    /\ due \in [Ops -> 0 .. 2 * Turn]
    /\ io \in [Ops -> {"none", "pending", "expired", "struck", "over"}]
    /\ forgotten \in BOOLEAN

\* While an operation has time left, its timer is due with it or a turn later.
DueWithIt ==
    \A o \in Ops :
        timer[o] = "armed" /\ asked[o] > 0 => due[o] \in {asked[o], asked[o] + Turn}

\* An operation that its own timer cancelled has had its whole Timeout.
ExpiredInTime == \A o \in Ops : io[o] = "expired" => asked[o] = 0

\* An operation is struck by a foreign timer only once one has been forgotten.
StruckByForgotten == (\E o \in Ops : io[o] = "struck") => forgotten

ContractInv == TimersTyped /\ DueWithIt /\ ExpiredInTime /\ StruckByForgotten

\* The first states of the contract.
LEMMA ContractInit ==
    ASSUME Timeout \in Nat, Turn \in Nat, Init
    PROVE  ContractInv
<1>1. TimersTyped
  <2>1. /\ 0 \in 0 .. Timeout + 1 /\ 0 \in 0 .. 2 * Turn
        /\ "off" \in {"off", "armed", "gone", "closing"}
        /\ "none" \in {"none", "pending", "expired", "struck", "over"}
    OBVIOUS
  <2> QED
    BY <2>1, Zenon DEF Init, TimersTyped
<1>2. DueWithIt /\ ExpiredInTime /\ StruckByForgotten
  BY DEF Init, DueWithIt, ExpiredInTime, StruckByForgotten
<1> QED
  BY <1>1, <1>2 DEF ContractInv

\* A step of the contract keeps its invariant.  Timeout + 1 is at most a turn, so
\* that a timer that is due a turn late still has a number of ticks.
LEMMA ContractStep ==
    ASSUME Timeout \in Nat, Turn \in Nat, Timeout + 1 <= Turn, ContractInv, [Next]_vars
    PROVE  ContractInv'
<1> USE DEF ContractInv
<1>1. ASSUME NEW o \in Ops, Ask(o)
      PROVE  ContractInv'
  BY <1>1 DEF Ask, TimersTyped, DueWithIt, ExpiredInTime, StruckByForgotten
<1>2. ASSUME NEW o \in Ops, Arm(o)
      PROVE  ContractInv'
  BY <1>2 DEF Arm, DueTimes, TimersTyped, DueWithIt, ExpiredInTime, StruckByForgotten
<1>3. ASSUME NEW o \in Ops, Post(o) \/ Complete(o)
      PROVE  ContractInv'
  BY <1>3 DEF Post, Complete, TimersTyped, DueWithIt, ExpiredInTime, StruckByForgotten
<1>4. ASSUME NEW o \in Ops, TakeDown(o) \/ Close(o)
      PROVE  ContractInv'
  BY <1>4 DEF TakeDown, Close, TimersTyped, DueWithIt, ExpiredInTime, StruckByForgotten
<1>5. ASSUME NEW o \in Ops, Forget(o)
      PROVE  ContractInv'
  <2>1. TimersTyped'
    <3>1. forgotten' \in BOOLEAN
      BY <1>5, Zenon DEF Forget
    <3> QED
      BY <1>5, <3>1 DEF Forget, TimersTyped
  <2>2. DueWithIt' /\ ExpiredInTime' /\ StruckByForgotten'
    BY <1>5 DEF Forget, TimersTyped, DueWithIt, ExpiredInTime, StruckByForgotten
  <2> QED
    BY <2>1, <2>2
<1>6. ASSUME NEW o \in Ops, NEW p \in Ops, CloseStale(o, p)
      PROVE  ContractInv'
  BY <1>6 DEF CloseStale, TimersTyped, DueWithIt, ExpiredInTime, StruckByForgotten
<1>7. ASSUME NEW o \in Ops, Expire(o) \/ Strike(o)
      PROVE  ContractInv'
  BY <1>7 DEF Expire, Strike, TimersTyped, DueWithIt, ExpiredInTime, StruckByForgotten
<1>8. CASE Tick
  BY <1>8 DEF Tick, TimersTyped, DueWithIt, ExpiredInTime, StruckByForgotten
<1>9. CASE UNCHANGED vars
  BY <1>9 DEF vars, TimersTyped, DueWithIt, ExpiredInTime, StruckByForgotten
<1> QED
  BY <1>1, <1>2, <1>3, <1>4, <1>5, <1>6, <1>7, <1>8, <1>9 DEF Next

\* What a user of the wheel (the post and completion paths of worker.h) may rely
\* on without knowing its slots: no timeout before its time, no timer due at any
\* other time than its own or a turn later, and no foreign cancellation unless a
\* timer has been forgotten.
THEOREM ContractHolds ==
    ASSUME Timeout \in Nat, Turn \in Nat, Timeout + 1 <= Turn
    PROVE  Spec => [](DueWithIt /\ ExpiredInTime /\ StruckByForgotten)
<1>1. Init => ContractInv
  BY ContractInit
<1>2. ContractInv /\ [Next]_vars => ContractInv'
  BY ContractStep
<1>3. ContractInv => DueWithIt /\ ExpiredInTime /\ StruckByForgotten
  BY DEF ContractInv
<1> QED
  BY <1>1, <1>2, <1>3, PTL DEF Spec

=============================================================================
