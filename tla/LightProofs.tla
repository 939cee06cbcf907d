----------------------------- MODULE LightProofs -----------------------------
(***************************************************************************)
(* Proofs about Light, for any numbers of workers, connections and timer   *)
(* ids.  What the workers do to the wheels is what module Wheels lets them *)
(* do, so that what is proved of Wheels holds of the started server; the   *)
(* rest is about when workers do it, and about the wheels' lifetime.       *)
(***************************************************************************)
EXTENDS Light, WheelsProofs

\* Start-up: there is a worker only after work has been set, and it is cleared
\* once at most, by the failure that ends the creation of workers.
Started ==
    /\ main \in {"ctor", "serve", "overflow"} => \A w \in Workers : wpc[w] = "none"
    /\ main \in {"accept", "create"} => work
    /\ failed => ~work /\ main = "print"
    /\ \A w \in Workers : wpc[w] # "none" => work \/ failed

\* The life of a worker's wheel follows the worker.
WheelLife ==
    \A w \in Workers :
        /\ wpc[w] \in {"none", "start"} => wheel[w] = "none"
        /\ wpc[w] \in {"test", "wait", "busy", "exit", "cancel"} => wheel[w] = "live"
        /\ wpc[w] \in {"exit", "cancel"} => failed
        /\ wheel[w] = "freed" => failed

Usable(v) == wheel[v] = "live" \/ (failed /\ wheel[v] = "freed")

\* Every wheel pointer of a connection or of its IoCtx names a usable wheel.
PointersUsable ==
    \A k \in Conns :
        /\ timers[k] # NoWheel => Usable(timers[k])
        /\ ot[k] # NoWheel => Usable(ot[k])
        /\ \A d \in Directions :
              /\ oldtimer[k][d] # NoWheel => Usable(oldtimer[k][d])
              /\ newtimer[k][d] # NoWheel => Usable(newtimer[k][d])
              /\ at[k] # "none" => newtimer[k][d] # NoWheel

LightInv == TypeOK /\ SameWheel /\ Started /\ WheelLife /\ PointersUsable

-----------------------------------------------------------------------------
(* The wheels. *)

\* A step of the server is a step of its wheels, or does not touch them.
LEMMA StepOfWheels == [Next]_vars => [WheelsNext]_wheelsVars
<1> SUFFICES ASSUME [Next]_vars PROVE [WheelsNext]_wheelsVars
  OBVIOUS
<1>1. CASE Serve
  BY <1>1 DEF Serve, Clear, ServeFails, ServeUp, ServeAccept, ServeCreate, ServeCreateFails
<1>2. ASSUME NEW w \in Workers, Run(w) PROVE [WheelsNext]_wheelsVars
  <2>1. CASE Handle(w)
    BY <2>1 DEF Handle, WheelsNext
  <2> QED
    BY <1>2, <2>1 DEF Run, SetUp, SetUpFails, LoopTest, ExitClear, ExitCancel, ExitDelete
<1>3. ASSUME NEW w \in Workers, TakeFailedAccept(w) PROVE [WheelsNext]_wheelsVars
  BY <1>3 DEF TakeFailedAccept
<1>4. ASSUME NEW w \in Workers, NEW k \in Conns, TakeAccept(w, k) PROVE [WheelsNext]_wheelsVars
  BY <1>4 DEF TakeAccept, WheelsNext
<1>5. ASSUME NEW w \in Workers, NEW k \in Conns, Take(w, k) PROVE [WheelsNext]_wheelsVars
  BY <1>5 DEF Take, WheelsNext
<1>6. ASSUME NEW k \in Conns, End(k) PROVE [WheelsNext]_wheelsVars
  BY <1>6 DEF End, WheelsNext
<1>7. CASE UNCHANGED vars
  BY <1>7 DEF vars
<1> QED  BY <1>1, <1>2, <1>3, <1>4, <1>5, <1>6, <1>7 DEF Next

\* The wheels of the server, by themselves, run as module Wheels says.
THEOREM ServerRunsWheels == Spec => WheelsSpec
<1>1. Init => WheelsInit
  BY DEF Init
<1> QED  BY <1>1, StepOfWheels, PTL DEF Spec, WheelsSpec

\* In the started server too, handle_event locks the wheel that it writes to,
\* until the process ends (worker.h:581-585, 621-623).
THEOREM ServerLocksItsWheel == Spec => []OtIsTimers
BY ServerRunsWheels, HandlerLocksItsWheel, PTL

\* And an id comes to have two places only by the failed post of a connection
\* that has moved to another wheel (worker.h:480, 539).
THEOREM ServerIdsBreakOneWayOnly == Spec => OneOwnerBreaks
BY ServerRunsWheels, IdsBreakOneWayOnly, PTL

-----------------------------------------------------------------------------
(* What the steps of Wheels do to the pointers. *)

\* handle_event hands on no pointer but newtimer, to the IoCtx it arms.
LEMMA DrivePointers ==
    ASSUME WheelsTypeOK, NEW w \in Workers, Drive(w)
    PROVE  /\ UNCHANGED <<newtimer, oldtimer, ot>>
           /\ \A k \in Conns :
                 /\ at'[k] # "none" => at[k] # "none"
                 /\ \/ timers'[k] = timers[k]
                    \/ timers'[k] = NoWheel
                    \/ timers'[k] = newtimer[k][dir[k]]
<1>1. CASE MakeTimerFull(w)
  BY <1>1 DEF MakeTimerFull, Move, WheelsTypeOK
<1>2. CASE MakeTimer(w)
  BY <1>2 DEF MakeTimer, Move, WheelsTypeOK
<1>3. CASE PostOk(w)
  BY <1>3 DEF PostOk, Move, ioctxVars, WheelsTypeOK
<1>4. CASE PostFail(w)
  BY <1>4 DEF PostFail, Move, WheelsTypeOK
<1>5. CASE TakeDown(w)
  BY <1>5 DEF TakeDown, Move, WheelsTypeOK
<1>6. CASE HandleNext(w)
  BY <1>6 DEF HandleNext, Move, ioctxVars, WheelsTypeOK
<1>7. CASE HandleLast(w)
  BY <1>7 DEF HandleLast, Move, ioctxVars, WheelsTypeOK
<1> QED  BY <1>1, <1>2, <1>3, <1>4, <1>5, <1>6, <1>7 DEF Drive

-----------------------------------------------------------------------------
(* The invariant. *)

\* The constructor runs alone, with no wheel and no connection.
LEMMA LightInitInv == Init => LightInv
<1> SUFFICES ASSUME Init PROVE LightInv
  OBVIOUS
<1>1. WheelsTypeOK /\ SameWheel
  BY WheelsInitInv DEF Init, WheelsInv
<1>2. TypeOK
  <2>1. 1 \in 1 .. ATSIZEA
    BY WheelsAssumption
  <2>2. rec \in [Workers -> 1 .. ATSIZEA]
    BY <2>1 DEF Init
  <2> QED  BY <1>1, <2>2 DEF Init, TypeOK
<1>3. Started /\ WheelLife
  BY DEF Init, Started, WheelLife
<1>4. PointersUsable
  BY DEF Init, WheelsInit, PointersUsable
<1> QED
  BY <1>1, <1>2, <1>3, <1>4 DEF LightInv

\* Wheels keep usable while nobody frees one before CreateThread has failed.
LEMMA UsableStays ==
    ASSUME PointersUsable, UNCHANGED wheelsVars, WheelsTypeOK,
           \A v \in Workers : Usable(v) => Usable(v)'
    PROVE  PointersUsable'
<1>1. UNCHANGED <<timers, ot, oldtimer, newtimer, at>>
  BY DEF wheelsVars, ioctxVars
<1>2. \A k \in Conns :
         /\ timers[k] \in Workers \cup {NoWheel} /\ ot[k] \in Workers \cup {NoWheel}
         /\ \A d \in Directions : /\ oldtimer[k][d] \in Workers \cup {NoWheel}
                                  /\ newtimer[k][d] \in Workers \cup {NoWheel}
  BY DEF WheelsTypeOK
<1> QED  BY <1>1, <1>2, Zenon DEF PointersUsable

\* An accepted connection is timed on the wheel of the worker that took it.
LEMMA PointersMove ==
    ASSUME LightInv, WheelsTypeOK, NEW w \in Workers, NEW k \in Conns, Usable(w),
           \A v \in Workers : Usable(v)' <=> Usable(v),
           newtimer' = [newtimer EXCEPT ![k] = [d \in Directions |-> w]],
           at' = [at EXCEPT ![k] = "arm"],
           UNCHANGED <<oldtimer, ot, timers>>
    PROVE  PointersUsable'
<1>1. ASSUME NEW i \in Conns
      PROVE  /\ timers[i] \in Workers \cup {NoWheel} /\ ot[i] \in Workers \cup {NoWheel}
             /\ \A d \in Directions : oldtimer[i][d] \in Workers \cup {NoWheel}
  BY DEF WheelsTypeOK
<1>2. ASSUME NEW i \in Conns, NEW d \in Directions
      PROVE  /\ (newtimer[i][d] # NoWheel => Usable(newtimer[i][d]))'
             /\ (at[i] # "none" => newtimer[i][d] # NoWheel)'
  <2>1. CASE i = k
    <3>1. newtimer'[i][d] = w
      BY <2>1 DEF WheelsTypeOK
    <3> QED  BY <3>1, WheelsAssumption DEF Usable
  <2>2. CASE i # k
    <3>1. newtimer'[i] = newtimer[i] /\ at'[i] = at[i]
      BY <2>2 DEF WheelsTypeOK
    <3>2. newtimer[i][d] \in Workers \cup {NoWheel}
      BY DEF WheelsTypeOK
    <3> QED  BY <3>1, <3>2 DEF LightInv, PointersUsable, Usable
  <2> QED  BY <2>1, <2>2
<1> QED  BY <1>1, <1>2 DEF LightInv, PointersUsable, Usable

\* A completion moves one direction to the wheel of the worker that took it.
LEMMA PointersDequeue ==
    ASSUME LightInv, WheelsTypeOK, NEW w \in Workers, NEW k \in Conns, Usable(w),
           \A v \in Workers : Usable(v)' <=> Usable(v),
           Dequeue(w, k)
    PROVE  PointersUsable'
<1>1. /\ at[k] = "queued" /\ at' = [at EXCEPT ![k] = "event"]
      /\ ot' = [ot EXCEPT ![k] = newtimer[k][dir[k]]]
      /\ oldtimer' = [oldtimer EXCEPT ![k][dir[k]] = newtimer[k][dir[k]]]
      /\ newtimer' = [newtimer EXCEPT ![k][dir[k]] = w]
      /\ timers' = timers
  BY DEF Dequeue, Move, ioctxVars
<1>2. dir[k] \in Directions /\ newtimer[k][dir[k]] \in Workers /\ Usable(newtimer[k][dir[k]])
  BY <1>1 DEF LightInv, PointersUsable, WheelsTypeOK
<1>3. ASSUME NEW i \in Conns
      PROVE  /\ (timers[i] # NoWheel => Usable(timers[i]))'
             /\ (ot[i] # NoWheel => Usable(ot[i]))'
  <2>1. timers[i] \in Workers \cup {NoWheel} /\ ot[i] \in Workers \cup {NoWheel}
    BY DEF WheelsTypeOK
  <2>2. ot'[i] = IF i = k THEN newtimer[k][dir[k]] ELSE ot[i]
    BY <1>1 DEF WheelsTypeOK
  <2> QED  BY <1>1, <1>2, <2>1, <2>2 DEF LightInv, PointersUsable, Usable
<1>4. ASSUME NEW i \in Conns, NEW d \in Directions
      PROVE  /\ (oldtimer[i][d] # NoWheel => Usable(oldtimer[i][d]))'
             /\ (newtimer[i][d] # NoWheel => Usable(newtimer[i][d]))'
             /\ (at[i] # "none" => newtimer[i][d] # NoWheel)'
  <2>1. oldtimer[i][d] \in Workers \cup {NoWheel} /\ newtimer[i][d] \in Workers \cup {NoWheel}
    BY DEF WheelsTypeOK
  <2>2. /\ oldtimer'[i][d] = IF i = k /\ d = dir[k] THEN newtimer[k][dir[k]] ELSE oldtimer[i][d]
        /\ newtimer'[i][d] = IF i = k /\ d = dir[k] THEN w ELSE newtimer[i][d]
    BY <1>1, <1>2 DEF WheelsTypeOK
  <2>3. at'[i] # "none" => at[i] # "none"
    BY <1>1 DEF WheelsTypeOK
  <2> QED  BY <1>2, <2>1, <2>2, <2>3, WheelsAssumption DEF LightInv, PointersUsable, Usable
<1> QED  BY <1>3, <1>4 DEF PointersUsable, Usable

\* A step of the constructor, of serve() or of a worker outside handle_event.
LEMMA LightStepOutside ==
    ASSUME LightInv, UNCHANGED wheelsVars,
           Serve \/ \E w \in Workers : SetUp(w) \/ SetUpFails(w) \/ LoopTest(w)
                                        \/ ExitClear(w) \/ ExitCancel(w) \/ ExitDelete(w)
    PROVE  LightInv'
<1> USE DEF LightInv, Goto
<1>1. WheelsTypeOK' /\ SameWheel'
  BY WheelsStep DEF WheelsInv, TypeOK
<1>2. CASE Clear
  <2>1. UNCHANGED <<wheel, failed>>
    BY <1>2 DEF Clear
  <2>2. PointersUsable'
    BY <2>1, UsableStays DEF TypeOK, Usable
  <2> QED  BY <1>1, <1>2, <2>2 DEF Clear, TypeOK, Started, WheelLife
<1>3. CASE ServeFails
  <2>1. UNCHANGED <<wheel, failed>>
    BY <1>3 DEF ServeFails
  <2>2. PointersUsable'
    BY <2>1, UsableStays DEF TypeOK, Usable
  <2> QED  BY <1>1, <1>3, <2>2 DEF ServeFails, TypeOK, Started, WheelLife
<1>4. CASE ServeUp
  <2>1. UNCHANGED <<wheel, failed>>
    BY <1>4 DEF ServeUp
  <2>2. PointersUsable'
    BY <2>1, UsableStays DEF TypeOK, Usable
  <2> QED  BY <1>1, <1>4, <2>2 DEF ServeUp, TypeOK, Started, WheelLife
<1>5. CASE ServeAccept
  <2>1. UNCHANGED <<wheel, failed>>
    BY <1>5 DEF ServeAccept
  <2>2. PointersUsable'
    BY <2>1, UsableStays DEF TypeOK, Usable
  <2>3. accepting' \in Nat
    BY <1>5 DEF ServeAccept, TypeOK
  <2> QED  BY <1>1, <1>5, <2>2, <2>3 DEF ServeAccept, TypeOK, Started, WheelLife
<1>6. ASSUME NEW w \in Workers, ServeCreate(w) PROVE LightInv'
  <2>1. UNCHANGED <<wheel, failed>>
    BY <1>6 DEF ServeCreate
  <2>2. PointersUsable'
    BY <2>1, UsableStays DEF TypeOK, Usable
  <2>3. TypeOK' /\ Started'
    BY <1>1, <1>6 DEF ServeCreate, TypeOK, Started
  <2>4. WheelLife'
    BY <1>6 DEF ServeCreate, TypeOK, Started, WheelLife
  <2> QED  BY <1>1, <2>2, <2>3, <2>4
<1>7. CASE ServeCreateFails
  <2>1. \A v \in Workers : Usable(v) => Usable(v)'
    BY <1>7 DEF ServeCreateFails, Usable
  <2>2. PointersUsable'
    BY <2>1, UsableStays DEF TypeOK
  <2> QED  BY <1>1, <1>7, <2>2 DEF ServeCreateFails, TypeOK, Started, WheelLife
<1>8. ASSUME NEW w \in Workers, SetUp(w) PROVE LightInv'
  <2>1. \A v \in Workers : Usable(v) => Usable(v)'
    BY <1>8 DEF SetUp, Usable, TypeOK
  <2>2. PointersUsable'
    BY <2>1, UsableStays DEF TypeOK
  <2>3. TypeOK' /\ Started'
    BY <1>1, <1>8 DEF SetUp, TypeOK, Started
  <2>4. WheelLife'
    BY <1>8 DEF SetUp, TypeOK, WheelLife
  <2> QED  BY <1>1, <2>2, <2>3, <2>4
<1>9. ASSUME NEW w \in Workers, SetUpFails(w) PROVE LightInv'
  <2>1. \A v \in Workers : Usable(v) => Usable(v)'
    BY <1>9 DEF SetUpFails, Usable, WheelLife, TypeOK
  <2>2. PointersUsable'
    BY <2>1, UsableStays DEF TypeOK
  <2>3. TypeOK' /\ Started'
    BY <1>1, <1>9 DEF SetUpFails, TypeOK, Started
  <2>4. WheelLife'
    BY <1>9 DEF SetUpFails, TypeOK, WheelLife
  <2> QED  BY <1>1, <2>2, <2>3, <2>4
<1>10. ASSUME NEW w \in Workers, LoopTest(w) PROVE LightInv'
  <2>1. UNCHANGED <<wheel, failed>>
    BY <1>10 DEF LoopTest
  <2>2. PointersUsable'
    BY <2>1, UsableStays DEF TypeOK, Usable
  <2>3. TypeOK' /\ Started'
    BY <1>1, <1>10 DEF LoopTest, TypeOK, Started
  <2>4. WheelLife'
    BY <1>10 DEF LoopTest, TypeOK, Started, WheelLife
  <2> QED  BY <1>1, <2>2, <2>3, <2>4
<1>11. ASSUME NEW w \in Workers, ExitCancel(w) PROVE LightInv'
  <2>1. UNCHANGED <<wheel, failed>>
    BY <1>11 DEF ExitCancel
  <2>2. PointersUsable'
    BY <2>1, UsableStays DEF TypeOK, Usable
  <2>3. cancelled' \subseteq Conns
    BY <1>11 DEF ExitCancel, TypeOK
  <2>4. rec' \in [Workers -> 1 .. ATSIZEA]
    BY <1>11, WheelsAssumption DEF ExitCancel, TypeOK
  <2>5. TypeOK' /\ Started' /\ WheelLife'
    BY <1>1, <1>11, <2>3, <2>4 DEF ExitCancel, TypeOK, Started, WheelLife
  <2> QED  BY <1>1, <2>2, <2>5
<1>12. ASSUME NEW w \in Workers, ExitDelete(w) PROVE LightInv'
  <2>1. \A v \in Workers : Usable(v) => Usable(v)'
    BY <1>12 DEF ExitDelete, Usable, WheelLife, TypeOK
  <2>2. PointersUsable'
    BY <2>1, UsableStays DEF TypeOK
  <2>3. TypeOK' /\ Started'
    BY <1>1, <1>12 DEF ExitDelete, TypeOK, Started
  <2>4. WheelLife'
    BY <1>12 DEF ExitDelete, TypeOK, WheelLife
  <2> QED  BY <1>1, <2>2, <2>3, <2>4
<1>13. ASSUME NEW w \in Workers, ExitClear(w) PROVE LightInv'
  <2>1. UNCHANGED <<wheel, failed>>
    BY <1>13 DEF ExitClear
  <2>2. PointersUsable'
    BY <2>1, UsableStays DEF TypeOK, Usable
  <2>3. TypeOK' /\ Started'
    BY <1>1, <1>13 DEF ExitClear, TypeOK, Started
  <2>4. WheelLife'
    BY <1>13 DEF ExitClear, TypeOK, WheelLife
  <2> QED  BY <1>1, <2>2, <2>3, <2>4
<1> QED
  BY <1>2, <1>3, <1>4, <1>5, <1>6, <1>7, <1>8, <1>9, <1>10, <1>11, <1>12,
     <1>13 DEF Serve

\* A worker that takes a completion is in its loop, and its wheel lives.
LEMMA TakenKeeps ==
    ASSUME LightInv, NEW w \in Workers, Taken(w),
           NEW l \in {"busy", "test"}, Goto(w, l)
    PROVE  /\ wpc' \in [Workers -> {"none", "start", "test", "wait", "busy", "exit", "cancel", "ended"}]
           /\ Started' /\ WheelLife'
           /\ Usable(w)
           /\ \A v \in Workers : Usable(v)' <=> Usable(v)
<1> USE DEF LightInv, Taken, Goto
<1>1. wpc[w] = "wait" /\ wheel[w] = "live"
  BY DEF WheelLife, TypeOK
<1>2. wpc' \in [Workers -> {"none", "start", "test", "wait", "busy", "exit", "cancel", "ended"}]
  BY DEF TypeOK
<1>3. Started' /\ WheelLife'
  BY <1>1 DEF Started, WheelLife, TypeOK
<1> QED  BY <1>1, <1>2, <1>3 DEF Usable

\* Every step of the server keeps the invariant.
LEMMA LightStep == LightInv /\ [Next]_vars => LightInv'
<1> SUFFICES ASSUME LightInv, [Next]_vars PROVE LightInv'
  OBVIOUS
<1>0. WheelsTypeOK /\ WheelsTypeOK' /\ SameWheel'
  BY StepOfWheels, WheelsStep DEF LightInv, TypeOK, WheelsInv
<1>1. CASE Serve
  <2>1. UNCHANGED wheelsVars
    BY <1>1 DEF Serve, Clear, ServeFails, ServeUp, ServeAccept, ServeCreate, ServeCreateFails
  <2> QED  BY <1>1, <2>1, LightStepOutside
<1>2. ASSUME NEW w \in Workers, Run(w), ~Handle(w) PROVE LightInv'
  <2>1. SetUp(w) \/ SetUpFails(w) \/ LoopTest(w)
        \/ ExitClear(w) \/ ExitCancel(w) \/ ExitDelete(w)
    BY <1>2 DEF Run
  <2>2. UNCHANGED wheelsVars
    BY <2>1 DEF SetUp, SetUpFails, LoopTest, ExitClear, ExitCancel, ExitDelete
  <2> QED  BY <2>1, <2>2, LightStepOutside
<1>3. ASSUME NEW w \in Workers, Handle(w) PROVE LightInv'
  <2>1. Drive(w) /\ UNCHANGED <<main, work, timestr, failed, accepting, wheel, rec, cancelled>>
    BY <1>3 DEF Handle
  <2>2. PICK l \in {"test", "busy"} : wpc' = [wpc EXCEPT ![w] = l]
    BY <1>3 DEF Handle, Goto
  <2>3. wpc[w] = "busy"
    BY <1>3 DEF Handle
  <2>4. TypeOK' /\ Started'
    BY <1>0, <2>1, <2>2, <2>3 DEF LightInv, TypeOK, Started
  <2>5. WheelLife'
    BY <2>1, <2>2, <2>3 DEF LightInv, TypeOK, WheelLife
  <2>6. \A v : Usable(v)' <=> Usable(v)
    BY <2>1 DEF Usable
  <2>7. \A k \in Conns : dir[k] \in Directions
    BY <1>0 DEF WheelsTypeOK
  <2>8. PointersUsable'
    BY <1>0, <2>1, <2>6, <2>7, DrivePointers DEF LightInv, PointersUsable
  <2> QED  BY <1>0, <2>4, <2>5, <2>8 DEF LightInv
<1>4. ASSUME NEW w \in Workers, TakeFailedAccept(w) PROVE LightInv'
  <2>1. Taken(w) /\ Goto(w, "test") /\ UNCHANGED <<wheelsVars, cancelled>>
    BY <1>4 DEF TakeFailedAccept
  <2>2. accepting' \in Nat
    BY <1>4 DEF TakeFailedAccept, LightInv, TypeOK
  <2>3. /\ wpc' \in [Workers -> {"none", "start", "test", "wait", "busy", "exit", "cancel", "ended"}]
        /\ Started' /\ WheelLife'
        /\ \A v \in Workers : Usable(v)' <=> Usable(v)
    BY <2>1, TakenKeeps
  <2>4. TypeOK'
    BY <1>0, <2>1, <2>2, <2>3 DEF Taken, LightInv, TypeOK
  <2>5. PointersUsable'
    BY <1>0, <2>1, <2>3, UsableStays DEF LightInv
  <2> QED  BY <1>0, <2>3, <2>4, <2>5 DEF LightInv
<1>5. ASSUME NEW w \in Workers, NEW k \in Conns, TakeAccept(w, k) PROVE LightInv'
  <2>1. Taken(w) /\ Accept(w, k) /\ Goto(w, "busy") /\ UNCHANGED cancelled
    BY <1>5 DEF TakeAccept
  <2>2. accepting' \in Nat
    BY <1>5 DEF TakeAccept, LightInv, TypeOK
  <2>3. /\ wpc' \in [Workers -> {"none", "start", "test", "wait", "busy", "exit", "cancel", "ended"}]
        /\ Started' /\ WheelLife' /\ Usable(w)
        /\ \A v \in Workers : Usable(v)' <=> Usable(v)
    BY <2>1, TakenKeeps
  <2>4. TypeOK'
    BY <1>0, <2>1, <2>2, <2>3 DEF Taken, LightInv, TypeOK
  <2>5. /\ newtimer' = [newtimer EXCEPT ![k] = [d \in Directions |-> w]]
        /\ at' = [at EXCEPT ![k] = "arm"]
        /\ UNCHANGED <<oldtimer, ot, timers>>
    BY <2>1 DEF Accept, Move, ioctxVars
  <2>6. PointersUsable'
    BY <1>0, <2>3, <2>5, PointersMove
  <2> QED  BY <1>0, <2>3, <2>4, <2>6 DEF LightInv
<1>6. ASSUME NEW w \in Workers, NEW k \in Conns, Take(w, k) PROVE LightInv'
  <2>1. Taken(w) /\ Dequeue(w, k) /\ Goto(w, "busy") /\ UNCHANGED accepting
    BY <1>6 DEF Take
  <2>2. cancelled' \subseteq Conns
    BY <1>6 DEF Take, LightInv, TypeOK
  <2>3. /\ wpc' \in [Workers -> {"none", "start", "test", "wait", "busy", "exit", "cancel", "ended"}]
        /\ Started' /\ WheelLife' /\ Usable(w)
        /\ \A v \in Workers : Usable(v)' <=> Usable(v)
    BY <2>1, TakenKeeps
  <2>4. TypeOK'
    BY <1>0, <2>1, <2>2, <2>3 DEF Taken, LightInv, TypeOK
  <2>5. PointersUsable'
    BY <1>0, <2>1, <2>3, PointersDequeue
  <2> QED  BY <1>0, <2>3, <2>4, <2>5 DEF LightInv
<1>7. ASSUME NEW k \in Conns, End(k) PROVE LightInv'
  <2>1. Complete(k) /\ UNCHANGED lightVars
    BY <1>7 DEF End
  <2>2. TypeOK' /\ Started' /\ WheelLife'
    BY <1>0, <2>1 DEF lightVars, LightInv, TypeOK, Started, WheelLife
  <2>3. PointersUsable'
    BY <1>0, <2>1 DEF Complete, Move, ioctxVars, lightVars, LightInv, PointersUsable, Usable,
       WheelsTypeOK
  <2> QED  BY <1>0, <2>2, <2>3 DEF LightInv
<1>8. CASE UNCHANGED vars
  <2>1. UNCHANGED wheelsVars /\ UNCHANGED lightVars
    BY <1>8 DEF vars
  <2>2. TypeOK' /\ Started' /\ WheelLife'
    BY <1>0, <2>1 DEF lightVars, LightInv, TypeOK, Started, WheelLife
  <2>3. \A v \in Workers : Usable(v) => Usable(v)'
    BY <2>1 DEF lightVars, Usable
  <2>4. PointersUsable'
    BY <1>0, <2>1, <2>3, UsableStays DEF LightInv
  <2> QED  BY <1>0, <2>2, <2>4 DEF LightInv
<1> QED
  BY <1>1, <1>2, <1>3, <1>4, <1>5, <1>6, <1>7, <1>8 DEF Next

-----------------------------------------------------------------------------
\* The invariant holds of the server.
LEMMA LightInvHolds == Spec => []LightInv
BY LightInitInv, LightStep, PTL DEF Spec

\* Every variable has its type.
THEOREM LightTypeCorrect == Spec => []TypeOK
<1>1. LightInv => TypeOK
  BY DEF LightInv
<1> QED  BY <1>1, LightInvHolds, PTL

\* A wheel that a connection is timed on, or that a callback turns, is allocated
\* unless CreateThread has failed before (net2.cpp:838, 893, 1050).
THEOREM WheelsOutliveConnections == Spec => []WheelsOutliveUse
<1>1. ASSUME LightInv PROVE WheelsOutliveUse
  <2>1. ASSUME NEW k \in Conns, NEW v \in Uses(k) PROVE Usable(v)
    <3>1. dir[k] \in Directions
      BY <1>1 DEF LightInv, TypeOK, WheelsTypeOK
    <3>2. CASE at[k] = "arm"
      BY <1>1, <2>1, <3>1, <3>2 DEF LightInv, PointersUsable, Uses
    <3>3. CASE at[k] = "ready"
      BY <1>1, <2>1, <3>1, <3>3 DEF LightInv, PointersUsable, Uses
    <3>4. CASE at[k] \in {"pending", "queued"}
      BY <1>1, <2>1, <3>1, <3>4 DEF LightInv, PointersUsable, Uses
    <3>5. CASE at[k] = "event"
      BY <1>1, <2>1, <3>1, <3>5 DEF LightInv, PointersUsable, Uses
    <3> QED  BY <2>1, <3>2, <3>3, <3>4, <3>5 DEF Uses
  <2>2. \A w \in Workers : wheel[w] = "freed" => failed
    BY <1>1 DEF LightInv, WheelLife
  <2> QED  BY <2>1, <2>2 DEF WheelsOutliveUse, Usable
<1> QED  BY <1>1, LightInvHolds, PTL

-----------------------------------------------------------------------------
(* The exit stages. *)

\* An operation that is pending after a step of the wheels has just been posted,
\* or it was pending before, on the same wheel and with the same id.
LEMMA PendingBefore ==
    ASSUME WheelsTypeOK, [WheelsNext]_wheelsVars, NEW k \in Conns, at'[k] = "pending"
    PROVE  \/ at[k] = "ready"
           \/ at[k] = "pending" /\ tid'[k] = tid[k] /\ timers'[k] = timers[k]
<1> USE DEF Move, WheelsTypeOK
<1>1. ASSUME NEW w \in Workers, NEW j \in Conns, Accept(w, j) \/ Dequeue(w, j)
      PROVE  at[k] = "pending" /\ UNCHANGED <<tid, timers>>
  BY <1>1 DEF Accept, Dequeue, ioctxVars
<1>2. ASSUME NEW w \in Workers, Drive(w)
      PROVE  \/ at[k] = "ready"
             \/ at[k] = "pending" /\ tid'[k] = tid[k] /\ timers'[k] = timers[k]
  <2>1. CASE MakeTimerFull(w)
    BY <2>1 DEF MakeTimerFull
  <2>2. CASE MakeTimer(w)
    BY <2>2 DEF MakeTimer
  <2>3. CASE PostOk(w)
    BY <2>3 DEF PostOk, ioctxVars
  <2>4. CASE PostFail(w)
    BY <2>4 DEF PostFail
  <2>5. CASE TakeDown(w)
    BY <2>5 DEF TakeDown
  <2>6. CASE HandleNext(w)
    BY <2>6 DEF HandleNext, ioctxVars
  <2>7. CASE HandleLast(w)
    BY <2>7 DEF HandleLast, ioctxVars
  <2> QED  BY <1>2, <2>1, <2>2, <2>3, <2>4, <2>5, <2>6, <2>7 DEF Drive
<1>3. ASSUME NEW j \in Conns, Complete(j)
      PROVE  at[k] = "pending" /\ UNCHANGED <<tid, timers>>
  BY <1>3 DEF Complete, ioctxVars
<1>4. CASE UNCHANGED wheelsVars
  BY <1>4 DEF wheelsVars, ioctxVars
<1> QED  BY <1>1, <1>2, <1>3, <1>4 DEF WheelsNext

\* The loop of a leaving worker passes a record only by having been at it, and
\* what CancelIoEx has hit stays cancelled until its completion is taken.
LEMMA PassingCancels ==
    ASSUME TypeOK, [Next]_vars, NEW k \in Conns, NEW w \in Workers,
           at[k] = "pending", at'[k] = "pending", On(k, w), k \notin cancelled'
    PROVE  /\ k \notin cancelled
           /\ rec'[w] # rec[w] => /\ rec'[w] = rec[w] + 1
                                 /\ ~(rec[w] = tid[k] /\ ioc[w][tid[k]] = k)
<1> USE DEF TypeOK
<1>1. CASE Serve
  BY <1>1 DEF Serve, Clear, ServeFails, ServeUp, ServeAccept, ServeCreate, ServeCreateFails
<1>2. ASSUME NEW v \in Workers, Run(v), ~ExitCancel(v)
      PROVE  UNCHANGED <<rec, cancelled>>
  BY <1>2 DEF Run, SetUp, SetUpFails, LoopTest, Handle, ExitClear, ExitDelete
<1>3. ASSUME NEW v \in Workers, ExitCancel(v)
      PROVE  /\ k \notin cancelled
             /\ rec'[w] # rec[w] => /\ rec'[w] = rec[w] + 1
                                   /\ ~(rec[w] = tid[k] /\ ioc[w][tid[k]] = k)
  BY <1>3 DEF ExitCancel
<1>4. ASSUME NEW v \in Workers, NEW j \in Conns, TakeAccept(v, j)
      PROVE  UNCHANGED <<rec, cancelled>>
  BY <1>4 DEF TakeAccept, Taken
<1>5. ASSUME NEW v \in Workers, NEW j \in Conns, Take(v, j)
      PROVE  UNCHANGED rec /\ k \notin cancelled
  <2>1. j # k
    BY <1>5 DEF Take, Dequeue
  <2> QED  BY <1>5, <2>1 DEF Take, Taken
<1>6. ASSUME NEW j \in Conns, End(j) PROVE UNCHANGED <<rec, cancelled>>
  BY <1>6 DEF End, lightVars
<1>7. CASE UNCHANGED vars
  BY <1>7 DEF vars, lightVars
<1>8. ASSUME NEW v \in Workers, TakeFailedAccept(v) PROVE UNCHANGED <<rec, cancelled>>
  BY <1>8 DEF TakeFailedAccept, Taken
<1> QED  BY <1>1, <1>2, <1>3, <1>4, <1>5, <1>6, <1>7, <1>8 DEF Next

\* A leaving worker cancels every operation that is timed on its wheel, except one
\* that is posted behind the loop and one whose record names another
\* (net2.cpp:885-892, worker.h:471-480).
THEOREM MissedInTwoWaysOnly == Spec => MissedWays
<1>1. ASSUME LightInv, [Next]_vars, NEW k \in Conns, NEW w \in Workers,
             ~Missed(k, w), Missed(k, w)'
      PROVE  \/ at[k] = "ready"
             \/ rec[w] = tid[k] /\ ioc[w][tid[k]] # k
  <2>1. TypeOK /\ WheelsTypeOK
    BY <1>1 DEF LightInv, TypeOK
  <2>2. at'[k] = "pending" /\ k \notin cancelled' /\ tid'[k] < rec'[w]
        /\ tid'[k] # 0 /\ timers'[k] = w
    BY <1>1 DEF Missed, On
  <2>3. CASE at[k] # "ready"
    <3>1. at[k] = "pending" /\ tid'[k] = tid[k] /\ timers'[k] = timers[k]
      BY <1>1, <2>1, <2>2, <2>3, StepOfWheels, PendingBefore
    <3>2. On(k, w)
      BY <2>2, <3>1 DEF On, Armed
    <3>3. /\ k \notin cancelled
          /\ rec'[w] # rec[w] => /\ rec'[w] = rec[w] + 1
                                /\ ~(rec[w] = tid[k] /\ ioc[w][tid[k]] = k)
      BY <1>1, <2>1, <2>2, <3>1, <3>2, PassingCancels
    <3>4. ~(tid[k] < rec[w])
      BY <1>1, <3>1, <3>2, <3>3 DEF Missed
    <3>5. tid[k] \in Nat /\ rec[w] \in Nat
      BY <2>1, WheelsAssumption DEF TypeOK, WheelsTypeOK, Ids
    <3>6. rec'[w] = rec[w] + 1 /\ rec[w] = tid[k]
      BY <2>2, <3>1, <3>3, <3>4, <3>5
    <3> QED  BY <3>3, <3>5, <3>6
  <2> QED  BY <2>3
<1>2. ASSUME LightInv, [Next]_vars
      PROVE  [\A k \in Conns : \A w \in Workers :
                ~Missed(k, w) /\ Missed(k, w)' =>
                   \/ at[k] = "ready"
                   \/ rec[w] = tid[k] /\ ioc[w][tid[k]] # k]_vars
  BY <1>1, <1>2
<1> QED  BY <1>2, LightInvHolds, PTL DEF Spec, MissedWays

=============================================================================
