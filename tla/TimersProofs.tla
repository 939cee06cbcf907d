---------------------------- MODULE TimersProofs ----------------------------
(***************************************************************************)
(* Proofs that the wheel keeps the contract of Timers, and about how it    *)
(* loses ids: what the operations see of the slots, the cursor and the     *)
(* callback's local vector.                                                *)
(***************************************************************************)
EXTENDS TimerWheelProofs

-----------------------------------------------------------------------------
(* When a timer is due, exactly.  TimerWheelProofs bounds the ticks that an    *)
(* operation has left by the distance of its slot; while it has any left, the  *)
(* two are equal, and the timer has a round to go exactly when maketimer's sum *)
(* went past the end of the wheel.  The slot in the callback's hands is one    *)
(* whole turn away.                                                            *)

ExactInv ==
    \A o \in Ops :
        /\ pc[o] = "alloc" /\ left[o] > 0 => left[o] = Dist(WheelNum(o))
        /\ tid[o] # 0 /\ left[o] > 0 =>
              /\ left[o] = Dist(wheelpos[tid[o]])
              /\ rounds[tid[o]] = IF wheelpos[tid[o]] < Timeout THEN 1 ELSE 0

LoopInv == cbpc = "loop" => crs = IF cur = WHLCST - 1 THEN 0 ELSE cur + 1

TInv == IInv /\ LinkInv /\ ExactInv /\ LoopInv

\* No slot is farther away than one turn.
LEMMA DistAtMostATurn ==
    ASSUME TypeOK, NEW s \in Slots
    PROVE  Dist(s) \in Nat /\ Dist(s) <= WHLCST
BY WheelAssumption DEF Dist, Slots, TypeOK

\* The slot that the callback has just taken is one whole turn away.
LEMMA DistTaken ==
    ASSUME TypeOK, LoopInv, cbpc = "loop"
    PROVE  Dist(cur) = WHLCST
<1>1. /\ cur \in Nat /\ cur < WHLCST /\ WHLCST \in Nat
      /\ crs = IF cur = WHLCST - 1 THEN 0 ELSE cur + 1
  BY WheelAssumption DEF TypeOK, Slots, LoopInv
<1> QED
  BY <1>1 DEF Dist

\* The slots below Timeout are the ones that are reached past the end.
LEMMA RoundIsWrap ==
    ASSUME TypeOK, NEW o \in Ops
    PROVE  RoundsFor(o) = IF WheelNum(o) < Timeout THEN 1 ELSE 0
<1>1. /\ aux[o] \in Nat /\ aux[o] < WHLCST /\ Timeout \in Nat /\ WHLCST \in Nat
  BY WheelAssumption DEF TypeOK, Slots
<1>2. /\ WheelNum(o) = IF aux[o] + Timeout < WHLCST THEN aux[o] + Timeout
                                                    ELSE aux[o] + Timeout - WHLCST
      /\ RoundsFor(o) = IF aux[o] + Timeout < WHLCST THEN 0 ELSE 1
  BY SlotOfSum DEF WheelNum, RoundsFor, TypeOK
<1> QED
  BY <1>1, <1>2

LEMMA ExactWorkers ==
    ASSUME IInv, ExactInv, NEW o \in Ops,
           MakeTimer(o) \/ Io(o) \/ Touch(o) \/ RemoveTimerId(o) \/ Recycle(o)
    PROVE  ExactInv'
<1> USE DEF IInv
<1>1. UNCHANGED <<crs, cbpc, cur>>
  BY DEF MakeTimer, Io, RemoveTimerId, MakeTimerRead, MakeTimerFull, MakeTimerAlloc,
         MakeTimerInsert, PostOk, PostFail, Complete, Abort, Touch, RemoveRead, RemoveMark,
         RemoveUnlink, Recycle, wheelVars, cbVars
<1>2. \A s : Dist(s)' = Dist(s)
  BY <1>1 DEF Dist
<1>3. SUFFICES ASSUME NEW p \in Ops, left'[p] > 0
               PROVE  /\ pc'[p] = "alloc" => left'[p] = Dist(WheelNum(p)')
                      /\ tid'[p] # 0 =>
                            /\ left'[p] = Dist(wheelpos'[tid'[p]])
                            /\ rounds'[tid'[p]] =
                                  IF wheelpos'[tid'[p]] < Timeout THEN 1 ELSE 0
  BY <1>1 DEF ExactInv, Dist
<1>4. CASE MakeTimerRead(o) /\ p = o
  <2>1. /\ WheelNum(p)' = (crs + Timeout) % WHLCST /\ left'[p] = Timeout + 1
        /\ tid'[p] = 0
    BY <1>4 DEF MakeTimerRead, WheelNum, TypeOK, TidSet
  <2> QED
    BY <2>1, DistFresh
<1>5. CASE MakeTimerAlloc(o) /\ p = o
  <2>1. /\ pc[p] = "alloc" /\ pc'[p] = "insert" /\ left'[p] = left[p]
        /\ tid'[p] = freeids[Len(freeids)]
        /\ wheelpos'[tid'[p]] = WheelNum(p) /\ rounds'[tid'[p]] = RoundsFor(p)
    BY <1>5, LastFreeId DEF MakeTimerAlloc, TypeOK
  <2> QED
    BY <1>3, <2>1, RoundIsWrap DEF ExactInv
<1>6. CASE ~((MakeTimerRead(o) \/ MakeTimerAlloc(o)) /\ p = o)
  <2>1. /\ pc'[p] = "alloc" => pc[p] = "alloc" /\ aux'[p] = aux[p]
        /\ tid'[p] = tid[p] \/ tid'[p] = 0
        /\ left'[p] = left[p]
    <3>1. CASE p # o
      BY <3>1 DEF TypeOK, MakeTimer, Io, RemoveTimerId, MakeTimerRead, MakeTimerFull,
           MakeTimerAlloc, MakeTimerInsert, PostOk, PostFail, Complete, Abort, Touch, RemoveRead,
           RemoveMark, RemoveUnlink, Recycle
    <3>2. CASE p = o
      <4>1. ~MakeTimerRead(o) /\ ~MakeTimerAlloc(o)
        BY <1>6, <3>2
      <4>2. CASE MakeTimer(o) \/ Io(o)
        BY <1>3, <3>2, <4>1, <4>2 DEF TypeOK, MakeTimer, Io, MakeTimerFull,
           MakeTimerInsert, PostOk, PostFail, Complete, Abort
      <4>3. CASE Touch(o) \/ RemoveTimerId(o) \/ Recycle(o)
        BY <1>3, <3>2, <4>3 DEF TypeOK, Touch, RemoveTimerId, RemoveRead, RemoveMark,
           RemoveUnlink, Recycle
      <4> QED
        BY <4>2, <4>3
    <3> QED
      BY <3>1, <3>2
  <2>2. pc'[p] = "alloc" => left'[p] = Dist(WheelNum(p)')
    BY <1>3, <2>1 DEF ExactInv, WheelNum
  <2>3. ASSUME tid'[p] # 0
        PROVE  UNCHANGED <<wheelpos[tid[p]], rounds[tid[p]]>>
    <3>1. CASE MakeTimerAlloc(o)
      <4>1. Len(freeids) \in 1 .. Len(freeids)
        BY <3>1, LastFreeId DEF MakeTimerAlloc
      <4>2. tid[p] # freeids[Len(freeids)]
        BY <4>1 DEF PlaceInv, FreeInv, Owned
      <4>3. tid[p] = tid'[p]
        BY <2>1, <2>3
      <4> QED
        BY <3>1, <4>2, <4>3 DEF MakeTimerAlloc, TypeOK
    <3>2. CASE ~MakeTimerAlloc(o)
      <4>1. UNCHANGED <<wheelpos, rounds>>
        BY <3>2 DEF MakeTimer, Io, RemoveTimerId, MakeTimerRead, MakeTimerFull,
           MakeTimerInsert, PostOk, PostFail, Complete, Abort, Touch, RemoveRead, RemoveMark,
           RemoveUnlink, Recycle, timerVars
      <4> QED
        BY <2>1, <2>3, <4>1
    <3> QED
      BY <3>1, <3>2
  <2> QED
    BY <1>3, <2>1, <2>2, <2>3 DEF ExactInv
<1> QED
  BY <1>4, <1>5, <1>6

LEMMA ExactCallback ==
    ASSUME IInv, ExactInv, Callback
    PROVE  ExactInv'
<1> USE DEF IInv
<1>1. UNCHANGED <<pc, aux, tid, wheelpos>>
  BY DEF Callback, CbAdvance, CbSwap, CbDrop, CbFire, CbRequeue, CbDone, opVars, timerVars
<1>2. \A p \in Ops : /\ WheelNum(p) \in Slots /\ left[p] \in Nat
                     /\ tid[p] # 0 => tid[p] \in Ids /\ wheelpos[tid[p]] \in Slots
  BY SlotOfOp, WheelAssumption DEF TypeOK
<1>3. ASSUME NEW p \in Ops, NEW s \in Slots, left[p] > 0 => left[p] = Dist(s), left'[p] > 0
      PROVE  left[p] > 0 /\ left'[p] = Dist(s)'
  <2>1. CASE CbAdvance
    <3>1. left'[p] = IF left[p] > 0 THEN left[p] - 1 ELSE 0
      BY <2>1 DEF CbAdvance
    <3> QED
      BY <1>2, <1>3, <2>1, <3>1, DistAdvance
  <2>2. CASE CbSwap
    <3>1. left' = left /\ cbpc' = "loop" /\ cbpc = "lock" /\ UNCHANGED <<crs, cur>>
      BY <2>2 DEF CbSwap, opVars
    <3>2. s # cur
      BY <1>3, <2>2, <3>1, DistSwap
    <3>3. Dist(s)' = Dist(s)
      BY <3>1, <3>2 DEF Dist
    <3> QED
      BY <1>3, <3>1, <3>3
  <2>3. CASE CbDrop \/ CbFire \/ CbRequeue \/ CbDone
    <3>1. left' = left /\ crs' = crs /\ cbpc = "loop" /\ cbpc' # "lock"
      BY <2>3 DEF CbDrop, CbFire, CbRequeue, CbDone, opVars, wheelVars
    <3>2. Dist(s)' = Dist(s)
      BY <3>1 DEF Dist
    <3> QED
      BY <1>3, <3>1, <3>2
  <2> QED
    BY <2>1, <2>2, <2>3 DEF Callback
<1>4. ASSUME NEW p \in Ops, pc'[p] = "alloc", left'[p] > 0
      PROVE  left'[p] = Dist(WheelNum(p))'
  <2>1. ASSUME NEW s \in Slots, s = WheelNum(p) PROVE left'[p] = Dist(s)'
    BY <1>1, <1>3, <1>4, <2>1 DEF ExactInv
  <2> QED
    BY <1>1, <1>2, <2>1 DEF WheelNum, Dist
<1>5. ASSUME NEW p \in Ops, tid'[p] # 0, left'[p] > 0
      PROVE  /\ left'[p] = Dist(wheelpos[tid[p]])'
             /\ rounds'[tid'[p]] = IF wheelpos'[tid'[p]] < Timeout THEN 1 ELSE 0
  <2>1. ASSUME NEW s \in Slots, s = wheelpos[tid[p]] PROVE left[p] > 0 /\ left'[p] = Dist(s)'
    BY <1>1, <1>3, <1>5, <2>1 DEF ExactInv
  <2>2. left[p] > 0
    BY <1>1, <1>2, <1>5, <2>1
  <2>3. left'[p] = Dist(wheelpos[tid[p]])'
    BY <1>1, <1>2, <1>5, <2>1 DEF Dist
  <2>4. rounds'[tid[p]] = rounds[tid[p]]
    <3>1. CASE CbRequeue
      <4>1. /\ curvec # <<>> /\ curvec \in Seq(Ids)
            /\ rounds' = [rounds EXCEPT ![Head(curvec)] = @ - 1]
        BY <3>1 DEF CbRequeue, TypeOK
      <4>2. tid[p] # Head(curvec)
        BY <1>1, <1>5, <2>2, <4>1, HeadInSeq DEF ScheduleInv
      <4> QED
        BY <4>1, <4>2 DEF TypeOK
    <3>2. CASE ~CbRequeue
      BY <3>2 DEF Callback, CbAdvance, CbSwap, CbDrop, CbFire, CbDone, timerVars
    <3> QED
      BY <3>1, <3>2
  <2> QED
    BY <1>1, <1>5, <2>2, <2>3, <2>4 DEF ExactInv
<1> QED
  BY <1>4, <1>5 DEF ExactInv

\* The invariant of the refinement.
LEMMA TInvHolds == Spec => []TInv
<1>1. Init => ExactInv /\ LoopInv
  BY DEF Init, ExactInv, LoopInv
<1>2. ASSUME IInv, ExactInv, LoopInv, [Next]_vars
      PROVE  ExactInv' /\ LoopInv'
  <2>1. CASE UNCHANGED vars
    <3>1. UNCHANGED <<crs, cbpc, cur, pc, aux, left, tid, wheelpos, rounds>>
      BY <2>1 DEF vars, wheelVars, timerVars, cbVars, opVars
    <3> QED
      BY <1>2, <3>1 DEF ExactInv, LoopInv, Dist, WheelNum
  <2>2. ASSUME NEW o \in Ops,
               MakeTimer(o) \/ Io(o) \/ Touch(o) \/ RemoveTimerId(o) \/ Recycle(o)
        PROVE  ExactInv' /\ LoopInv'
    <3>1. UNCHANGED <<crs, cbpc, cur>>
      BY <2>2 DEF MakeTimer, Io, RemoveTimerId, MakeTimerRead, MakeTimerFull, MakeTimerAlloc,
         MakeTimerInsert, PostOk, PostFail, Complete, Abort, Touch, RemoveRead, RemoveMark,
         RemoveUnlink, Recycle, wheelVars, cbVars
    <3> QED
      BY <1>2, <2>2, <3>1, ExactWorkers DEF LoopInv
  <2>3. CASE Callback
    <3>1. LoopInv'
      BY <1>2, <2>3 DEF Callback, CbAdvance, CbSwap, CbDrop, CbFire, CbRequeue, CbDone,
         LoopInv, IInv, PlaceInv, CurvecInv, wheelVars
    <3> QED
      BY <1>2, <2>3, <3>1, ExactCallback
  <2> QED
    BY <1>2, <2>1, <2>2, <2>3 DEF Next
<1>3. Spec => [](ExactInv /\ LoopInv)
  <2>1. IInv /\ (ExactInv /\ LoopInv) /\ [Next]_vars => (ExactInv /\ LoopInv)'
    BY <1>2
  <2> QED
    BY <1>1, <2>1, Inductive, PTL DEF Spec
<1>4. IInv /\ LinkInv /\ (ExactInv /\ LoopInv) => TInv
  BY DEF TInv
<1> QED
  BY <1>3, <1>4, Linked, PTL

\* What "on time" comes to in this code: a linked timer of an operation that has
\* not had its Timeout is due when it should be, unless maketimer's sum went past
\* the last slot, and then it is due one whole turn of the wheel late
\* (maketimer adds (aux + Timeout) / WHLCST rounds to a slot that is less than a
\* turn away).
DueExactly ==
    \A o \in Ops :
        tid[o] # 0 /\ left[o] > 0 /\ InWheel(tid[o]) =>
           Remaining(tid[o]) =
              left[o] + IF wheelpos[tid[o]] < Timeout THEN WHLCST ELSE 0

\* wstruc.h:77 is late by a turn for the slots below Timeout, and for no others.
THEOREM LateExactlyPastTheEnd == Spec => []DueExactly
<1>1. ASSUME TInv, NEW o \in Ops, tid[o] # 0, left[o] > 0, InWheel(tid[o])
      PROVE  Remaining(tid[o]) = left[o] + IF wheelpos[tid[o]] < Timeout THEN WHLCST ELSE 0
  <2>1. ~InSeq(tid[o], curvec)
    BY <1>1 DEF TInv, IInv, ScheduleInv
  <2>2. /\ left[o] = Dist(wheelpos[tid[o]])
        /\ rounds[tid[o]] = IF wheelpos[tid[o]] < Timeout THEN 1 ELSE 0
    BY <1>1 DEF TInv, ExactInv
  <2>3. left[o] \in Int /\ WHLCST \in Int
    BY <1>1, WheelAssumption DEF TInv, IInv, TypeOK
  <2>4. Remaining(tid[o]) = WHLCST * rounds[tid[o]] + left[o]
    BY <2>1, <2>2 DEF Remaining
  <2>5. CASE wheelpos[tid[o]] < Timeout
    BY <2>2, <2>3, <2>4, <2>5
  <2>6. CASE ~(wheelpos[tid[o]] < Timeout)
    BY <2>2, <2>3, <2>4, <2>6
  <2> QED
    BY <2>5, <2>6
<1>2. TInv => DueExactly
  BY <1>1 DEF DueExactly
<1> QED
  BY TInvHolds, <1>2, PTL

-----------------------------------------------------------------------------
(* The ways in which the pool loses an id. *)

\* What a failed post leaves behind stays behind.
LEMMA OrphansStay == [Next]_vars => orphaned \subseteq orphaned'
BY DEF Next, MakeTimer, Io, RemoveTimerId, Callback, MakeTimerRead, MakeTimerFull,
       MakeTimerAlloc, MakeTimerInsert, PostOk, PostFail, Complete, Abort, Touch, RemoveRead,
       RemoveMark, RemoveUnlink, Recycle, CbAdvance, CbSwap, CbDrop, CbFire, CbRequeue, CbDone,
       vars, opVars

\* Only maketimer takes an id out of the pool, and it carries that id.
LEMMA PoolKeeps ==
    ASSUME TypeOK, [Next]_vars, NEW id, InSeq(id, freeids), ~InSeq(id, freeids')
    PROVE  \E o \in Ops : tid'[o] = id
<1>1. freeids \in Seq(Ids)
  BY DEF TypeOK
<1>2. CASE \E o \in Ops : MakeTimerAlloc(o)
  <2> PICK o \in Ops : MakeTimerAlloc(o)
    BY <1>2
  <2>1. /\ freeids # <<>> /\ freeids' = SubSeq(freeids, 1, Len(freeids) - 1)
        /\ tid'[o] = freeids[Len(freeids)]
    BY DEF MakeTimerAlloc, TypeOK
  <2>2. /\ Len(freeids') = Len(freeids) - 1
        /\ \A i \in 1 .. Len(freeids) - 1 : freeids'[i] = freeids[i]
    BY <1>1, <2>1, PopBackSeq
  <2>3. PICK i \in 1 .. Len(freeids) : freeids[i] = id
    BY DEF InSeq
  <2>4. i \notin 1 .. Len(freeids) - 1
    BY <2>2, <2>3 DEF InSeq
  <2>5. i = Len(freeids)
    BY <1>1, <2>3, <2>4
  <2> QED
    BY <2>1, <2>3, <2>5
<1>3. CASE \E o \in Ops : RemoveUnlink(o)
  <2>1. PICK o \in Ops : RemoveUnlink(o)
    BY <1>3
  <2>2. freeids' = <<tid[o]>> \o freeids
    BY <2>1 DEF RemoveUnlink
  <2>3. PICK i \in 1 .. Len(freeids) : freeids[i] = id
    BY DEF InSeq
  <2>4. i + 1 \in 1 .. Len(freeids') /\ freeids'[i + 1] = id
    BY <1>1, <2>2, <2>3
  <2> QED
    BY <2>4 DEF InSeq
<1>4. CASE UNCHANGED freeids
  BY <1>4
<1> QED
  BY <1>2, <1>3, <1>4 DEF Next, MakeTimer, Io, RemoveTimerId, Callback, MakeTimerRead,
     MakeTimerFull, MakeTimerInsert, PostOk, PostFail, Complete, Abort, Touch, RemoveRead,
     RemoveMark, Recycle, CbAdvance, CbSwap, CbDrop, CbFire, CbRequeue, CbDone, vars, wheelVars

\* An operation lets go of its id in three steps only.
LEMMA OwnerLeaves ==
    ASSUME TypeOK, TidSet, [Next]_vars, NEW o \in Ops, tid[o] # 0, tid'[o] # tid[o]
    PROVE  PostFail(o) \/ RemoveMark(o) \/ RemoveUnlink(o)
<1>1. \A p \in Ops : p # o =>
        ~(MakeTimer(p) \/ Io(p) \/ Touch(p) \/ RemoveTimerId(p) \/ Recycle(p))
  BY DEF TypeOK, MakeTimer, Io, RemoveTimerId, MakeTimerRead, MakeTimerFull, MakeTimerAlloc,
         MakeTimerInsert, PostOk, PostFail, Complete, Abort, Touch, RemoveRead, RemoveMark,
         RemoveUnlink, Recycle
<1>2. ~Callback /\ ~UNCHANGED vars
  BY DEF Callback, CbAdvance, CbSwap, CbDrop, CbFire, CbRequeue, CbDone, vars, opVars
<1> QED
  BY <1>1, <1>2 DEF Next, MakeTimer, Io, RemoveTimerId, MakeTimerRead, MakeTimerFull,
     MakeTimerAlloc, MakeTimerInsert, PostOk, Complete, Abort, Touch, RemoveRead, Recycle,
     TidSet, TypeOK

\* The pool loses an id to a post that failed without an old wheel, to a removal
\* that met the cursor, or with an entry that a removal had only marked; never
\* to a removal that unlinks (removetimerid, wheel_callback).
THEOREM IdsLeakThreeWaysOnly == Spec => LeakWays
<1>1. ASSUME IInv, LinkInv, [Next]_vars, NEW id \in Ids, ~Leaked(id), Leaked(id)'
      PROVE  \/ id \in orphaned'
             \/ \E o \in Ops : pc[o] = "remove" /\ tid[o] = id
                               /\ wheelpos[id] = aux[o] /\ ~InWheel(id)
             \/ ~Owned(id) /\ hasTouchedByWorker[id]
  <2>0. TypeOK /\ TidSet /\ PlaceInv
    BY <1>1 DEF IInv
  <2>1. /\ ~InSeq(id, freeids') /\ ~InWheel(id)'
        /\ \A o \in Ops : tid'[o] # id
    BY <1>1 DEF Leaked, Owned, InSeq
  <2>2. ~InSeq(id, freeids)
    BY <1>1, <2>0, <2>1, PoolKeeps
  <2>3. CASE Owned(id)
    <3>1. PICK o \in Ops : tid[o] = id
      BY <2>3 DEF Owned
    <3>2. id # 0
      BY WheelAssumption DEF Ids
    <3>3. PostFail(o) \/ RemoveMark(o) \/ RemoveUnlink(o)
      BY <1>1, <2>0, <2>1, <3>1, <3>2, OwnerLeaves
    <3>4. CASE PostFail(o)
      BY <2>0, <2>1, <3>1, <3>2, <3>4 DEF PostFail, TypeOK
    <3>5. CASE RemoveMark(o)
      <4>1. /\ pc[o] = "remove" /\ wheelpos[tid[o]] = aux[o] /\ UNCHANGED <<lst, curvec>>
        BY <3>5 DEF RemoveMark, wheelVars, cbVars
      <4>2. ~InWheel(id)
        BY <2>1, <4>1 DEF InWheel, InSeq
      <4> QED
        BY <3>1, <4>1, <4>2
    <3>6. CASE RemoveUnlink(o)
      <4>1. freeids' = <<id>> \o freeids /\ freeids \in Seq(Ids)
        BY <2>0, <3>1, <3>6 DEF RemoveUnlink, TypeOK
      <4>2. 1 \in 1 .. Len(freeids') /\ freeids'[1] = id
        BY <4>1
      <4> QED
        BY <2>1, <4>2 DEF InSeq
    <3> QED
      BY <3>3, <3>4, <3>5, <3>6
  <2>4. CASE ~Owned(id)
    <3>1. InWheel(id)
      BY <1>1, <2>2, <2>4 DEF Leaked
    <3>2. id \in orphaned \/ hasTouchedByWorker[id]
      BY <1>1, <2>4, <3>1 DEF LinkInv, Owned
    <3> QED
      BY <1>1, <2>4, <3>2, OrphansStay
  <2> QED
    BY <2>3, <2>4
<1>2. IInv /\ LinkInv /\ [Next]_vars =>
        [\A id \in Ids :
           ~Leaked(id) /\ Leaked(id)' =>
              \/ id \in orphaned'
              \/ \E o \in Ops : pc[o] = "remove" /\ tid[o] = id
                                /\ wheelpos[id] = aux[o] /\ ~InWheel(id)
              \/ ~Owned(id) /\ hasTouchedByWorker[id]]_vars
  BY <1>1
<1> QED
  BY Linked, <1>2, PTL DEF Spec, LeakWays

-----------------------------------------------------------------------------
(* The wheel implements Timers.  What an operation sees of the wheel is its     *)
(* view; first, how the views change, one operation at a time.                 *)

Asks   == [o \in Ops |-> AskedOf(o)]
Tmrs   == [o \in Ops |-> TimerOf(o)]
Dues   == [o \in Ops |-> DueOf(o)]
Ios    == [o \in Ops |-> IoOf(o)]
Lost   == orphaned # {}
Mapped == <<Asks, Tmrs, Dues, Ios, Lost>>

SameView(p) ==
    /\ AskedOf(p)' = AskedOf(p) /\ TimerOf(p)' = TimerOf(p)
    /\ DueOf(p)' = DueOf(p)     /\ IoOf(p)' = IoOf(p)

OthersSame(o) == \A p \in Ops : p # o => SameView(p)

\* The steps of o change the view of o alone.
LEMMA OneView ==
    ASSUME NEW o \in Ops, OthersSame(o)
    PROVE  /\ Asks' = [Asks EXCEPT ![o] = AskedOf(o)']
           /\ Tmrs' = [Tmrs EXCEPT ![o] = TimerOf(o)']
           /\ Dues' = [Dues EXCEPT ![o] = DueOf(o)']
           /\ Ios' = [Ios EXCEPT ![o] = IoOf(o)']
BY DEF OthersSame, SameView, Asks, Tmrs, Dues, Ios

LEMMA NoView ==
    ASSUME \A p \in Ops : SameView(p), Lost' = Lost
    PROVE  Mapped' = Mapped
BY DEF SameView, Asks, Tmrs, Dues, Ios, Mapped

\* The view of an operation that carries x after the step.
LEMMA ViewNext ==
    ASSUME NEW p \in Ops, NEW x, tid'[p] = x
    PROVE  /\ AskedOf(p)' = IF pc'[p] \in {"alloc", "insert", "ready", "posted", "done"}
                            THEN left'[p] ELSE 0
           /\ pc'[p] \in {"touched", "unpost", "remove"} => TimerOf(p)' = "closing"
           /\ pc'[p] \in {"ready", "posted", "done"} /\ x # 0 =>
                 TimerOf(p)' = IF InWheel(x)' THEN "armed" ELSE "gone"
           /\ pc'[p] \in {"ready", "posted", "done"} /\ x = 0 => TimerOf(p)' = "off"
           /\ pc'[p] \in {"idle", "alloc", "insert"} => TimerOf(p)' = "off"
           /\ DueOf(p)' = IF TimerOf(p)' = "armed" THEN Remaining(x)' ELSE 0
           /\ pc'[p] = "posted" => /\ cancelled'[p] = "no" => IoOf(p)' = "pending"
                                   /\ cancelled'[p] = "own" => IoOf(p)' = "expired"
                                   /\ cancelled'[p] = "stray" => IoOf(p)' = "struck"
           /\ pc'[p] = "done" => IoOf(p)' = "over"
           /\ pc'[p] \notin {"posted", "done"} => IoOf(p)' = "none"
<1>1. /\ AskedOf(p)' = IF pc'[p] \in {"alloc", "insert", "ready", "posted", "done"}
                       THEN left'[p] ELSE 0
      /\ pc'[p] = "posted" => /\ cancelled'[p] = "no" => IoOf(p)' = "pending"
                              /\ cancelled'[p] = "own" => IoOf(p)' = "expired"
                              /\ cancelled'[p] = "stray" => IoOf(p)' = "struck"
      /\ pc'[p] = "done" => IoOf(p)' = "over"
      /\ pc'[p] \notin {"posted", "done"} => IoOf(p)' = "none"
  BY DEF AskedOf, IoOf
<1>2. /\ pc'[p] \in {"touched", "unpost", "remove"} => TimerOf(p)' = "closing"
      /\ pc'[p] \in {"ready", "posted", "done"} /\ x # 0 =>
            TimerOf(p)' = IF InWheel(x)' THEN "armed" ELSE "gone"
      /\ pc'[p] \in {"ready", "posted", "done"} /\ x = 0 => TimerOf(p)' = "off"
      /\ pc'[p] \in {"idle", "alloc", "insert"} => TimerOf(p)' = "off"
  BY DEF TimerOf, InWheel, InSeq
<1>3. DueOf(p)' = IF TimerOf(p)' = "armed" THEN Remaining(x)' ELSE 0
  BY DEF DueOf, Remaining, Dist, InSeq
<1> QED
  BY <1>1, <1>2, <1>3

\* The view of an operation that carries x.
LEMMA ViewNow ==
    ASSUME NEW p \in Ops, NEW x, tid[p] = x
    PROVE  /\ AskedOf(p) = IF pc[p] \in {"alloc", "insert", "ready", "posted", "done"}
                           THEN left[p] ELSE 0
           /\ pc[p] \in {"touched", "unpost", "remove"} => TimerOf(p) = "closing"
           /\ pc[p] \in {"ready", "posted", "done"} /\ x # 0 =>
                 TimerOf(p) = IF InWheel(x) THEN "armed" ELSE "gone"
           /\ pc[p] \in {"ready", "posted", "done"} /\ x = 0 => TimerOf(p) = "off"
           /\ pc[p] \in {"idle", "alloc", "insert"} => TimerOf(p) = "off"
           /\ DueOf(p) = IF TimerOf(p) = "armed" THEN Remaining(x) ELSE 0
           /\ pc[p] = "posted" => /\ cancelled[p] = "no" => IoOf(p) = "pending"
                                  /\ cancelled[p] = "own" => IoOf(p) = "expired"
                                  /\ cancelled[p] = "stray" => IoOf(p) = "struck"
           /\ pc[p] = "done" => IoOf(p) = "over"
           /\ pc[p] \notin {"posted", "done"} => IoOf(p) = "none"
<1>1. /\ AskedOf(p) = IF pc[p] \in {"alloc", "insert", "ready", "posted", "done"}
                      THEN left[p] ELSE 0
      /\ pc[p] = "posted" => /\ cancelled[p] = "no" => IoOf(p) = "pending"
                             /\ cancelled[p] = "own" => IoOf(p) = "expired"
                             /\ cancelled[p] = "stray" => IoOf(p) = "struck"
      /\ pc[p] = "done" => IoOf(p) = "over"
      /\ pc[p] \notin {"posted", "done"} => IoOf(p) = "none"
  BY DEF AskedOf, IoOf
<1>2. /\ pc[p] \in {"touched", "unpost", "remove"} => TimerOf(p) = "closing"
      /\ pc[p] \in {"ready", "posted", "done"} /\ x # 0 =>
            TimerOf(p) = IF InWheel(x) THEN "armed" ELSE "gone"
      /\ pc[p] \in {"ready", "posted", "done"} /\ x = 0 => TimerOf(p) = "off"
      /\ pc[p] \in {"idle", "alloc", "insert"} => TimerOf(p) = "off"
  BY DEF TimerOf
<1> QED
  BY <1>1, <1>2 DEF DueOf

\* An operation whose timer is where it was, and as far away, sees no step.
LEMMA Unseen ==
    ASSUME TypeOK, NEW p \in Ops, NEW x, tid[p] = x,
           UNCHANGED <<pc[p], tid[p], left[p], cancelled[p]>>,
           pc[p] \in {"ready", "posted", "done"} /\ x # 0 =>
              /\ InWheel(x)' <=> InWheel(x)
              /\ InWheel(x) => Remaining(x)' = Remaining(x)
    PROVE  SameView(p)
<1>1. pc[p] \in PCs /\ cancelled[p] \in {"no", "own", "stray"}
  BY DEF TypeOK
<1>2. tid'[p] = x
  OBVIOUS
<1>3. AskedOf(p)' = AskedOf(p) /\ IoOf(p)' = IoOf(p)
  BY DEF AskedOf, IoOf
<1>4. TimerOf(p)' = TimerOf(p)
  BY <1>1, <1>2, ViewNext, ViewNow DEF PCs
<1>5. TimerOf(p) = "armed" => pc[p] \in {"ready", "posted", "done"} /\ x # 0 /\ InWheel(x)
  BY <1>1, ViewNow DEF PCs
<1>6. DueOf(p)' = DueOf(p)
  BY <1>2, <1>4, <1>5, ViewNext, ViewNow
<1> QED
  BY <1>3, <1>4, <1>6 DEF SameView

-----------------------------------------------------------------------------
(* What the steps of the threads do to the entries of the wheel. *)

\* All but a removal that unlinks leave every entry, and its distance, alone,
\* but for the one that maketimer makes.
LEMMA EntriesStay ==
    ASSUME TypeOK, TidSet, PlaceInv, NEW o \in Ops,
           MakeTimer(o) \/ Io(o) \/ Touch(o) \/ RemoveRead(o) \/ RemoveMark(o) \/ Recycle(o),
           NEW x \in Ids, MakeTimerAlloc(o) => x # freeids[Len(freeids)]
    PROVE  /\ Remaining(x)' = Remaining(x)
           /\ ~(MakeTimerInsert(o) /\ x = tid[o]) => (InWheel(x)' <=> InWheel(x))
<1>1. UNCHANGED <<crs, cbpc, cur, curvec>>
  BY DEF MakeTimer, Io, MakeTimerRead, MakeTimerFull, MakeTimerAlloc,
         MakeTimerInsert, PostOk, PostFail, Complete, Abort, Touch, RemoveRead, RemoveMark,
         Recycle, wheelVars, cbVars
<1>2. wheelpos'[x] = wheelpos[x] /\ rounds'[x] = rounds[x]
  BY DEF MakeTimer, Io, MakeTimerRead, MakeTimerFull, MakeTimerAlloc,
         MakeTimerInsert, PostOk, PostFail, Complete, Abort, Touch, RemoveRead, RemoveMark,
         Recycle, timerVars, TypeOK
<1>3. Remaining(x)' = Remaining(x)
  BY <1>1, <1>2 DEF Remaining, Dist, InSeq
<1>4. CASE MakeTimerInsert(o) /\ x # tid[o]
  <2>1. /\ WheelNum(o) \in Slots /\ lst[WheelNum(o)] \in Seq(Ids) /\ tid[o] \in Ids
        /\ lst'[WheelNum(o)] = Append(lst[WheelNum(o)], tid[o])
        /\ \A s \in Slots : s # WheelNum(o) => lst'[s] = lst[s]
    BY <1>4, SlotOfOp DEF MakeTimerInsert, TypeOK, TidSet, HasTid
  <2>2. InSeq(x, lst'[WheelNum(o)]) <=> InSeq(x, lst[WheelNum(o)])
    BY <1>4, <2>1 DEF InSeq
  <2>3. InWheel(x)' <=> InWheel(x)
    BY <1>1, <2>1, <2>2 DEF InWheel
  <2> QED
    BY <1>3, <2>3
<1>5. CASE ~MakeTimerInsert(o)
  <2>1. lst' = lst
    BY <1>5 DEF MakeTimer, Io, MakeTimerRead, MakeTimerFull, MakeTimerAlloc,
         PostOk, PostFail, Complete, Abort, Touch, RemoveRead, RemoveMark,
         Recycle, wheelVars
  <2>2. InWheel(x)' <=> InWheel(x)
    BY <1>1, <2>1 DEF InWheel, InSeq
  <2> QED
    BY <1>3, <2>2
<1> QED
  BY <1>3, <1>4, <1>5

\* No other operation sees them.
LEMMA ThreadAlone ==
    ASSUME TypeOK, TidSet, PlaceInv, NEW o \in Ops,
           MakeTimer(o) \/ Io(o) \/ Touch(o) \/ RemoveRead(o) \/ RemoveMark(o) \/ Recycle(o)
    PROVE  OthersSame(o)
<1> SUFFICES ASSUME NEW p \in Ops, p # o PROVE SameView(p)
  BY DEF OthersSame
<1>1. UNCHANGED <<pc[p], tid[p], left[p], cancelled[p]>>
  BY DEF MakeTimer, Io, MakeTimerRead, MakeTimerFull, MakeTimerAlloc,
         MakeTimerInsert, PostOk, PostFail, Complete, Abort, Touch, RemoveRead, RemoveMark,
         Recycle, TypeOK
<1>2. ASSUME NEW x, x = tid[p], x # 0
      PROVE  (InWheel(x)' <=> InWheel(x)) /\ Remaining(x)' = Remaining(x)
  <2>1. x \in Ids /\ x # tid[o]
    BY <1>2 DEF TypeOK, PlaceInv, OpInv
  <2>2. MakeTimerAlloc(o) => x # freeids[Len(freeids)]
    <3>1. MakeTimerAlloc(o) => Len(freeids) \in 1 .. Len(freeids)
      BY LastFreeId DEF MakeTimerAlloc
    <3> QED
      BY <1>2, <3>1 DEF PlaceInv, FreeInv, Owned
  <2> QED
    BY <2>1, <2>2, EntriesStay
<1> QED
  BY <1>1, <1>2, Unseen

\* maketimer: the cursor is read, and the time asked for begins.
LEMMA ReadAsks ==
    ASSUME TInv, NEW o \in Ops, MakeTimerRead(o)
    PROVE  Timers!Ask(o)
<1> USE DEF TInv, IInv
<1>1. /\ pc[o] = "idle" /\ pc'[o] = "alloc" /\ left'[o] = Timeout + 1
      /\ Lost' = Lost
  BY DEF MakeTimerRead, TypeOK, Lost
<1>2. OthersSame(o)
  BY ThreadAlone DEF MakeTimer
<1>3. /\ TimerOf(o) = "off" /\ IoOf(o) = "none" /\ DueOf(o) = 0
      /\ TimerOf(o)' = "off" /\ IoOf(o)' = "none" /\ DueOf(o)' = 0
      /\ AskedOf(o)' = Timeout + 1
  BY <1>1, ViewNow, ViewNext
<1> QED
  BY <1>1, <1>2, <1>3, OneView DEF Timers!Ask, Asks, Tmrs, Dues, Ios, Lost

\* maketimer between its first section and its last, the first step of a
\* removal and the end of a connection change nothing.
LEMMA ThreadsUnseen ==
    ASSUME TInv, NEW o \in Ops,
           MakeTimerFull(o) \/ MakeTimerAlloc(o) \/ RemoveRead(o) \/ Recycle(o)
    PROVE  Mapped' = Mapped
<1> USE DEF TInv, IInv
<1>1. OthersSame(o)
  BY ThreadAlone DEF MakeTimer
<1>2. Lost' = Lost
  BY DEF MakeTimerFull, MakeTimerAlloc, RemoveRead, Recycle, Lost
<1>3. CASE MakeTimerFull(o) \/ MakeTimerAlloc(o)
  <2>1. /\ pc[o] = "alloc" /\ tid[o] = 0 /\ left'[o] = left[o]
        /\ \/ pc'[o] = "insert"
           \/ pc'[o] = "ready" /\ tid'[o] = 0
    BY <1>3 DEF MakeTimerFull, MakeTimerAlloc, TypeOK, TidSet
  <2>2. SameView(o)
    BY <2>1, ViewNow, ViewNext DEF SameView
  <2> QED
    BY <1>1, <1>2, <2>2, NoView DEF OthersSame
<1>4. CASE RemoveRead(o)
  <2>1. pc[o] \in {"touched", "unpost"} /\ pc'[o] = "remove"
    BY <1>4 DEF RemoveRead, TypeOK
  <2>2. SameView(o)
    BY <2>1, ViewNow, ViewNext DEF SameView
  <2> QED
    BY <1>1, <1>2, <2>2, NoView DEF OthersSame
<1>5. CASE Recycle(o)
  <2>1. pc[o] = "idle" /\ pc'[o] = "idle"
    BY <1>5 DEF Recycle
  <2>2. SameView(o)
    BY <2>1, ViewNow, ViewNext DEF SameView
  <2> QED
    BY <1>1, <1>2, <2>2, NoView DEF OthersSame
<1> QED
  BY <1>3, <1>4, <1>5

\* maketimer: the timer is linked, due on time or one turn late.
LEMMA InsertArms ==
    ASSUME TInv, NEW o \in Ops, MakeTimerInsert(o)
    PROVE  Timers!Arm(o)
<1> USE DEF TInv, IInv
<1> DEFINE slot == WheelNum(o)
           n    == Remaining(tid[o])
<1>1. /\ pc[o] = "insert" /\ pc'[o] = "ready" /\ left'[o] = left[o]
      /\ tid[o] \in Ids /\ tid[o] # 0 /\ tid'[o] = tid[o]
      /\ Lost' = Lost /\ ~MakeTimerAlloc(o) /\ MakeTimer(o)
  BY DEF MakeTimerInsert, MakeTimerAlloc, MakeTimer, TypeOK, TidSet, HasTid, Lost
<1>2. OthersSame(o)
  BY <1>1, ThreadAlone
<1>3. ASSUME NEW x, x = tid[o]
      PROVE  InWheel(x)' /\ Remaining(x)' = n
  <2>1. /\ slot \in Slots /\ lst[slot] \in Seq(Ids)
        /\ lst'[slot] = Append(lst[slot], tid[o])
    BY SlotOfOp DEF MakeTimerInsert, TypeOK
  <2>2. Len(lst[slot]) + 1 \in 1 .. Len(lst'[slot]) /\ lst'[slot][Len(lst[slot]) + 1] = x
    BY <1>1, <1>3, <2>1
  <2>3. InWheel(x)'
    BY <2>1, <2>2 DEF InWheel, InSeq
  <2> QED
    BY <1>1, <1>3, <2>3, EntriesStay
<1>4. n \in (IF left[o] > 0 THEN {left[o], left[o] + WHLCST} ELSE 0 .. 2 * WHLCST)
  <2>1. slot \in Slots /\ wheelpos[tid[o]] = slot /\ ~InSeq(tid[o], curvec)
    BY <1>1, SlotOfOp DEF PlaceInv, OpInv, InWheel
  <2>2. n = WHLCST * rounds[tid[o]] + Dist(slot)
    BY <2>1 DEF Remaining
  <2>3. Dist(slot) \in Nat /\ Dist(slot) <= WHLCST /\ WHLCST \in Nat
    BY <2>1, DistAtMostATurn, WheelAssumption
  <2>4. left[o] > 0 => left[o] = Dist(slot)
    BY <1>1, <2>1 DEF ExactInv
  <2>5. CASE rounds[tid[o]] = 0
    BY <2>2, <2>3, <2>4, <2>5
  <2>6. CASE rounds[tid[o]] = 1
    BY <2>2, <2>3, <2>4, <2>6
  <2> QED
    BY <1>1, <2>5, <2>6 DEF TypeOK
<1>5. /\ TimerOf(o) = "off" /\ IoOf(o) = "none" /\ AskedOf(o) = left[o]
      /\ TimerOf(o)' = "armed" /\ IoOf(o)' = "none" /\ AskedOf(o)' = left[o]
      /\ DueOf(o)' = n
  BY <1>1, <1>3, ViewNow, ViewNext
<1> HIDE DEF n
<1> QED
  BY <1>1, <1>2, <1>4, <1>5, OneView
     DEF Timers!Arm, Timers!DueTimes, Asks, Tmrs, Dues, Ios, Lost

\* post_recv, post_send: the call is taken.
LEMMA OkPosts ==
    ASSUME TInv, NEW o \in Ops, PostOk(o)
    PROVE  Timers!Post(o)
<1> USE DEF TInv, IInv
<1>1. /\ pc[o] = "ready" /\ pc'[o] = "posted" /\ left'[o] = left[o]
      /\ tid'[o] = tid[o] /\ cancelled'[o] = "no" /\ Lost' = Lost /\ Io(o)
      /\ ~MakeTimerAlloc(o) /\ ~MakeTimerInsert(o)
  BY DEF PostOk, Io, MakeTimerAlloc, MakeTimerInsert, TypeOK, ScheduleInv, Lost
<1>2. OthersSame(o)
  BY <1>1, ThreadAlone
<1>3. ASSUME NEW x, x = tid[o], x # 0
      PROVE  (InWheel(x)' <=> InWheel(x)) /\ Remaining(x)' = Remaining(x)
  BY <1>1, <1>3, EntriesStay DEF TypeOK
<1>4. TimerOf(o)' = TimerOf(o) /\ DueOf(o)' = DueOf(o)
  BY <1>1, <1>3, ViewNow, ViewNext
<1>5. IoOf(o) = "none" /\ IoOf(o)' = "pending" /\ AskedOf(o)' = AskedOf(o)
  BY <1>1, ViewNow, ViewNext
<1> QED
  BY <1>1, <1>2, <1>4, <1>5, OneView DEF Timers!Post, Asks, Tmrs, Dues, Ios, Lost

\* The operation ends, cancelled or not.
LEMMA EndCompletes ==
    ASSUME TInv, NEW o \in Ops, Complete(o) \/ Abort(o)
    PROVE  Timers!Complete(o)
<1> USE DEF TInv, IInv
<1>1. /\ pc[o] = "posted" /\ pc'[o] = "done" /\ left'[o] = left[o]
      /\ tid'[o] = tid[o] /\ Lost' = Lost /\ Io(o)
      /\ ~MakeTimerAlloc(o) /\ ~MakeTimerInsert(o) /\ cancelled[o] \in {"no", "own", "stray"}
  BY DEF Complete, Abort, Io, MakeTimerAlloc, MakeTimerInsert, TypeOK, Lost
<1>2. OthersSame(o)
  BY <1>1, ThreadAlone
<1>3. ASSUME NEW x, x = tid[o], x # 0
      PROVE  (InWheel(x)' <=> InWheel(x)) /\ Remaining(x)' = Remaining(x)
  BY <1>1, <1>3, EntriesStay DEF TypeOK
<1>4. TimerOf(o)' = TimerOf(o) /\ DueOf(o)' = DueOf(o)
  BY <1>1, <1>3, ViewNow, ViewNext
<1>5. /\ IoOf(o) \in {"pending", "expired", "struck"} /\ IoOf(o)' = "over"
      /\ AskedOf(o)' = AskedOf(o)
  BY <1>1, ViewNow, ViewNext
<1> QED
  BY <1>1, <1>2, <1>4, <1>5, OneView DEF Timers!Complete, Asks, Tmrs, Dues, Ios, Lost

\* handle_event, and a post that failed and finds the old wheel, hand the timer
\* to its removal.
LEMMA TakesDown ==
    ASSUME TInv, NEW o \in Ops, OthersSame(o), Lost' = Lost,
           \/ pc[o] = "done" /\ pc'[o] \in {"touched", "idle"}
           \/ pc[o] = "ready" /\ pc'[o] \in {"unpost", "idle"},
           pc'[o] = "idle" <=> tid[o] = 0
    PROVE  Timers!TakeDown(o)
<1>1. /\ IoOf(o) \in {"none", "over"} /\ IoOf(o)' = "none"
      /\ AskedOf(o)' = 0 /\ DueOf(o)' = 0
      /\ TimerOf(o)' = IF TimerOf(o) = "off" THEN "off" ELSE "closing"
  BY ViewNow, ViewNext
<1> QED
  BY <1>1, OneView DEF Timers!TakeDown, Asks, Tmrs, Dues, Ios, Lost

LEMMA TouchTakesDown ==
    ASSUME TInv, NEW o \in Ops, Touch(o)
    PROVE  Timers!TakeDown(o)
<1> USE DEF TInv, IInv
<1>1. /\ pc[o] = "done" /\ pc'[o] \in {"touched", "idle"}
      /\ pc'[o] = "idle" <=> tid[o] = 0
      /\ Lost' = Lost
  BY DEF Touch, TypeOK, Lost
<1> QED
  BY <1>1, ThreadAlone, TakesDown

\* A post that failed: the timer goes to its removal, or is forgotten.
LEMMA FailedPostLeaves ==
    ASSUME TInv, NEW o \in Ops, PostFail(o)
    PROVE  Timers!TakeDown(o) \/ Timers!Forget(o)
<1> USE DEF TInv, IInv
<1>0. OthersSame(o)
  BY ThreadAlone DEF Io
<1>1. CASE oldwheel[o] /\ tid[o] # 0
  <2>1. pc[o] = "ready" /\ pc'[o] = "unpost" /\ Lost' = Lost
    BY <1>1 DEF PostFail, TypeOK, Lost
  <2> QED
    BY <1>0, <1>1, <2>1, TakesDown
<1>2. CASE tid[o] = 0
  <2>1. pc[o] = "ready" /\ pc'[o] = "idle" /\ Lost' = Lost
    BY <1>2 DEF PostFail, TypeOK, Lost
  <2> QED
    BY <1>0, <1>2, <2>1, TakesDown
<1>3. CASE ~oldwheel[o] /\ tid[o] # 0
  <2>1. pc[o] = "ready" /\ pc'[o] = "idle" /\ Lost' = TRUE
    BY <1>3 DEF PostFail, TypeOK, Lost
  <2>2. /\ IoOf(o) = "none" /\ TimerOf(o) \in {"armed", "gone"}
        /\ IoOf(o)' = "none" /\ TimerOf(o)' = "off" /\ AskedOf(o)' = 0 /\ DueOf(o)' = 0
    BY <1>3, <2>1, ViewNow, ViewNext
  <2>3. Timers!Forget(o)
    BY <1>0, <2>1, <2>2, OneView DEF Timers!Forget, Asks, Tmrs, Dues, Ios, Lost
  <2> QED
    BY <2>3
<1> QED
  BY <1>1, <1>2, <1>3

\* removetimerid leaves the entry marked: the timer is closed.
LEMMA MarkCloses ==
    ASSUME TInv, NEW o \in Ops, RemoveMark(o)
    PROVE  Timers!Close(o)
<1> USE DEF TInv, IInv
<1>1. pc[o] = "remove" /\ pc'[o] = "idle" /\ Lost' = Lost
  BY DEF RemoveMark, TypeOK, Lost
<1>2. /\ TimerOf(o) = "closing" /\ TimerOf(o)' = "off" /\ IoOf(o)' = IoOf(o)
      /\ DueOf(o)' = DueOf(o) /\ AskedOf(o)' = AskedOf(o)
  BY <1>1, ViewNow, ViewNext
<1> QED
  BY <1>1, <1>2, ThreadAlone, OneView DEF Timers!Close, Asks, Tmrs, Dues, Ios, Lost

\* Whatever stands at the index, a removal takes one entry out of its slot.
LEMMA UnlinkTakesOne ==
    ASSUME TypeOK, NEW o \in Ops, RemoveUnlink(o), tid[o] \in Ids
    PROVE  \E y : \A x : x # y /\ InWheel(x) => InWheel(x)'
<1> DEFINE pos == wheelpos[tid[o]]
           idx == index_in_bucket[tid[o]]
           L   == Len(lst[pos])
           y   == IF idx + 1 <= L THEN lst[pos][idx + 1] ELSE lst[pos][L]
<1>1. /\ pos \in Slots /\ idx \in Nat /\ lst[pos] \in Seq(Ids) /\ L \in Nat
      /\ \A t \in Slots : t # pos => lst'[t] = lst[t]
      /\ curvec' = curvec
  BY DEF RemoveUnlink, TypeOK, cbVars
<1>2. ASSUME NEW x, x # y, InSeq(x, lst[pos]) PROVE InSeq(x, lst'[pos])
  <2>1. PICK j \in 1 .. L : lst[pos][j] = x
    BY <1>2 DEF InSeq
  <2>2. lst[pos] # <<>> /\ L >= 1
    BY <1>1, <2>1
  <2>3. lst'[pos] = SwapPop(lst[pos], idx)
    BY <1>1, <2>2 DEF RemoveUnlink, TypeOK
  <2>4. /\ Len(lst'[pos]) = L - 1
        /\ \A i \in 1 .. L - 1 :
             lst'[pos][i] = IF i = idx + 1 THEN lst[pos][L] ELSE lst[pos][i]
    <3>1. lst[pos] # <<>> /\ lst[pos] \in Seq(Ids) /\ idx \in Nat
      BY <1>1, <2>2
    <3>2. /\ Len(SwapPop(lst[pos], idx)) = Len(lst[pos]) - 1
          /\ \A i \in 1 .. Len(lst[pos]) - 1 :
                SwapPop(lst[pos], idx)[i] =
                  IF i = idx + 1 THEN lst[pos][Len(lst[pos])] ELSE lst[pos][i]
      BY <3>1, SwapPopSeq
    <3> QED
      BY <2>3, <3>2
  <2>5. CASE j = L
    <3>1. idx + 1 <= L /\ idx + 1 # L
      BY <1>1, <1>2, <2>1, <2>5
    <3>2. idx + 1 \in 1 .. L - 1
      BY <1>1, <3>1
    <3>3. lst'[pos][idx + 1] = x
      BY <2>1, <2>4, <2>5, <3>2
    <3> QED
      BY <2>4, <3>2, <3>3 DEF InSeq
  <2>6. CASE j # L
    <3>1. j \in 1 .. L - 1 /\ j # idx + 1
      BY <1>1, <1>2, <2>1, <2>6
    <3>2. lst'[pos][j] = x
      BY <2>1, <2>4, <3>1
    <3> QED
      BY <2>4, <3>1, <3>2 DEF InSeq
  <2> QED
    BY <2>5, <2>6
<1>3. ASSUME NEW x, x # y, InWheel(x) PROVE InWheel(x)'
  <2>1. CASE InSeq(x, curvec)
    BY <1>1, <2>1 DEF InWheel
  <2>2. CASE ~InSeq(x, curvec)
    <3>1. PICK s \in Slots : InSeq(x, lst[s])
      BY <1>3, <2>2 DEF InWheel
    <3>2. InSeq(x, lst'[s])
      BY <1>1, <1>2, <1>3, <3>1
    <3> QED
      BY <3>2 DEF InWheel
  <2> QED
    BY <2>1, <2>2
<1> HIDE DEF y
<1> QED
  BY <1>3

\* removetimerid unlinks: the timer is closed, and if its entry was no longer
\* there, another one may be gone.
LEMMA UnlinkCloses ==
    ASSUME TInv, [Next]_vars, NEW o \in Ops, RemoveUnlink(o)
    PROVE  Timers!Close(o) \/ \E p \in Ops : Timers!CloseStale(o, p)
<1> USE DEF TInv, IInv
<1>1. /\ pc[o] = "remove" /\ pc'[o] = "idle" /\ tid[o] \in Ids /\ Lost' = Lost
      /\ UNCHANGED <<crs, cbpc, cur, curvec, wheelpos, rounds>>
      /\ \A p \in Ops : p # o => UNCHANGED <<pc[p], tid[p], left[p], cancelled[p]>>
  BY DEF RemoveUnlink, TypeOK, TidSet, HasTid, Lost, cbVars
<1>2. /\ TimerOf(o) = "closing" /\ TimerOf(o)' = "off" /\ IoOf(o)' = IoOf(o)
      /\ DueOf(o)' = DueOf(o) /\ AskedOf(o)' = AskedOf(o) /\ DueOf(o) = 0
  BY <1>1, ViewNow, ViewNext
<1>3. \A x : InWheel(x)' => InWheel(x)
  <2>1. \A p \in Ops : ~MakeTimerInsert(p)
    BY <1>1 DEF MakeTimerInsert, RemoveUnlink, TypeOK
  <2> QED
    BY <2>1, WheelStep
<1>4. \A x : Remaining(x)' = Remaining(x)
  BY <1>1 DEF Remaining, Dist, InSeq
<1>5. PICK y : \A x : x # y /\ InWheel(x) => InWheel(x)'
  BY <1>1, UnlinkTakesOne
<1>6. ASSUME NEW p \in Ops, p # o,
             NEW x, x = tid[p],
             pc[p] \in {"ready", "posted", "done"} /\ x # 0 => (InWheel(x)' <=> InWheel(x))
      PROVE  SameView(p)
  BY <1>1, <1>4, <1>6, Unseen
<1>7. CASE \E p \in Ops : /\ p # o /\ tid[p] = y /\ y # 0 /\ InWheel(y) /\ ~InWheel(y)'
                          /\ pc[p] \in {"ready", "posted", "done"}
  <2>1. PICK p \in Ops : /\ p # o /\ tid[p] = y /\ y # 0 /\ InWheel(y) /\ ~InWheel(y)'
                         /\ pc[p] \in {"ready", "posted", "done"}
    BY <1>7
  <2>2. ASSUME NEW q \in Ops, q # o, q # p PROVE SameView(q)
    <3>1. ASSUME NEW x, x = tid[q], x # 0 PROVE InWheel(x)' <=> InWheel(x)
      <4>1. x # y
        BY <2>1, <2>2, <3>1 DEF PlaceInv, OpInv
      <4> QED
        BY <1>3, <1>5, <4>1
    <3> QED
      BY <1>6, <2>2, <3>1
  <2>3. /\ TimerOf(p) = "armed" /\ TimerOf(p)' = "gone" /\ DueOf(p)' = 0
        /\ AskedOf(p)' = AskedOf(p) /\ IoOf(p)' = IoOf(p)
    <3>1. TimerOf(p) = "armed" /\ TimerOf(p)' = "gone" /\ DueOf(p)' = 0
      BY <1>1, <2>1, ViewNow, ViewNext
    <3>2. AskedOf(p)' = AskedOf(p) /\ IoOf(p)' = IoOf(p)
      BY <1>1, <2>1 DEF AskedOf, IoOf
    <3> QED
      BY <3>1, <3>2
  <2>4. /\ Tmrs' = [Tmrs EXCEPT ![o] = "off", ![p] = "gone"]
        /\ Dues' = [Dues EXCEPT ![p] = 0]
        /\ Asks' = Asks /\ Ios' = Ios
    BY <1>2, <2>1, <2>2, <2>3 DEF SameView, Asks, Tmrs, Dues, Ios
  <2>5. Timers!CloseStale(o, p)
    BY <1>1, <1>2, <2>3, <2>4 DEF Timers!CloseStale, Asks, Tmrs, Dues, Ios, Lost
  <2> QED
    BY <2>5
<1>8. CASE ~ \E p \in Ops : /\ p # o /\ tid[p] = y /\ y # 0 /\ InWheel(y) /\ ~InWheel(y)'
                            /\ pc[p] \in {"ready", "posted", "done"}
  <2>1. ASSUME NEW p \in Ops, p # o PROVE SameView(p)
    <3>1. ASSUME NEW x, x = tid[p], pc[p] \in {"ready", "posted", "done"}, x # 0
          PROVE  InWheel(x)' <=> InWheel(x)
      BY <1>3, <1>5, <1>8, <2>1, <3>1
    <3> QED
      BY <1>6, <2>1, <3>1
  <2>2. OthersSame(o)
    BY <2>1 DEF OthersSame
  <2> QED
    BY <1>1, <1>2, <2>2, OneView DEF Timers!Close, Asks, Tmrs, Dues, Ios, Lost
<1> QED
  BY <1>7, <1>8

-----------------------------------------------------------------------------
(* What the steps of the callback do to the views. *)

\* A tick: every timer is one tick nearer, and none was due.
LEMMA AdvanceTicks ==
    ASSUME TInv, CbAdvance
    PROVE  Timers!Tick
<1> USE DEF TInv, IInv
<1>1. /\ curvec = <<>> /\ curvec' = <<>> /\ cbpc = "idle"
      /\ UNCHANGED <<lst, pc, tid, wheelpos, rounds, cancelled, Lost>>
      /\ \A o \in Ops : left'[o] = IF left[o] > 0 THEN left[o] - 1 ELSE 0
  BY DEF CbAdvance, PlaceInv, CurvecInv, timerVars, Lost
<1>2. \A x : InWheel(x)' <=> InWheel(x)
  BY <1>1 DEF InWheel, InSeq
<1>3. ASSUME NEW x \in Ids
      PROVE  Remaining(x) \in Nat /\ Remaining(x) > 0 /\ Remaining(x)' = Remaining(x) - 1
  <2>1. wheelpos[x] \in Slots /\ rounds[x] \in {0, 1} /\ WHLCST \in Nat
    BY WheelAssumption DEF TypeOK
  <2>2. Dist(wheelpos[x]) \in Nat /\ Dist(wheelpos[x]) >= 1
    BY <1>1, <2>1, DistType
  <2>3. Dist(wheelpos[x])' = Dist(wheelpos[x]) - 1
    <3>1. ASSUME NEW s \in Slots, s = wheelpos[x] PROVE Dist(s)' = Dist(wheelpos[x]) - 1
      BY <3>1, DistAdvance
    <3> QED
      BY <1>1, <2>1, <3>1 DEF Dist
  <2>4. /\ Remaining(x) = WHLCST * rounds[x] + Dist(wheelpos[x])
        /\ Remaining(x)' = WHLCST * rounds[x] + Dist(wheelpos[x])'
    BY <1>1 DEF Remaining, InSeq
  <2>5. WHLCST * rounds[x] \in Nat
    BY <2>1
  <2> QED
    BY <2>2, <2>3, <2>4, <2>5
<1>4. ASSUME NEW o \in Ops
      PROVE  /\ TimerOf(o)' = TimerOf(o) /\ IoOf(o)' = IoOf(o)
             /\ TimerOf(o) = "armed" => DueOf(o) > 0
             /\ DueOf(o)' = IF TimerOf(o) = "armed" THEN DueOf(o) - 1 ELSE DueOf(o)
             /\ AskedOf(o)' = IF AskedOf(o) > 0 THEN AskedOf(o) - 1 ELSE AskedOf(o)
  <2>1. pc[o] \in PCs /\ left[o] \in Nat /\ tid[o] \in Ids \cup {0}
    BY WheelAssumption DEF TypeOK
  <2>2. TimerOf(o)' = TimerOf(o) /\ IoOf(o)' = IoOf(o)
    BY <1>1, <1>2, <2>1, ViewNow, ViewNext DEF PCs, IoOf
  <2>3. TimerOf(o) = "armed" => tid[o] \in Ids
    BY <2>1, ViewNow DEF PCs
  <2>4. /\ TimerOf(o) = "armed" => DueOf(o) > 0
        /\ DueOf(o)' = IF TimerOf(o) = "armed" THEN DueOf(o) - 1 ELSE DueOf(o)
    BY <1>1, <1>3, <2>2, <2>3, ViewNow, ViewNext
  <2>5. AskedOf(o)' = IF AskedOf(o) > 0 THEN AskedOf(o) - 1 ELSE AskedOf(o)
    BY <1>1, <2>1 DEF AskedOf
  <2> QED
    BY <2>2, <2>4, <2>5
<1> QED
  BY <1>1, <1>4 DEF Timers!Tick, Asks, Tmrs, Dues, Ios, Lost

\* Without repetitions, a tail is all but the head.
LEMMA TailDropsHead ==
    ASSUME NEW S, NEW s \in Seq(S), s # <<>>,
           \A i, j \in 1 .. Len(s) : s[i] = s[j] => i = j
    PROVE  \A x : InSeq(x, Tail(s)) <=> InSeq(x, s) /\ x # Head(s)
<1>1. /\ Len(s) \in Nat /\ 1 \in 1 .. Len(s) /\ s[1] = Head(s)
      /\ Len(Tail(s)) = Len(s) - 1
      /\ \A i \in 1 .. Len(s) - 1 : i + 1 \in 1 .. Len(s) /\ i + 1 # 1 /\ Tail(s)[i] = s[i + 1]
      /\ \A i \in 1 .. Len(s) : i # 1 => i - 1 \in 1 .. Len(s) - 1 /\ Tail(s)[i - 1] = s[i]
  OBVIOUS
<1>2. ASSUME NEW x, InSeq(x, Tail(s)) PROVE InSeq(x, s) /\ x # Head(s)
  <2>1. PICK i \in 1 .. Len(s) - 1 : Tail(s)[i] = x
    BY <1>1, <1>2 DEF InSeq
  <2>2. i + 1 \in 1 .. Len(s) /\ i + 1 # 1 /\ s[i + 1] = x
    BY <1>1, <2>1
  <2>3. s[i + 1] # s[1]
    BY <1>1, <2>2
  <2> QED
    BY <1>1, <2>2, <2>3 DEF InSeq
<1>3. ASSUME NEW x, InSeq(x, s), x # Head(s) PROVE InSeq(x, Tail(s))
  <2>1. PICK i \in 1 .. Len(s) : s[i] = x
    BY <1>3 DEF InSeq
  <2>2. i # 1
    BY <1>1, <1>3, <2>1
  <2>3. i - 1 \in 1 .. Len(Tail(s)) /\ Tail(s)[i - 1] = x
    BY <1>1, <2>1, <2>2
  <2> QED
    BY <2>3 DEF InSeq
<1> QED
  BY <1>2, <1>3

\* The entry in the callback's hands stands in no slot.
LEMMA HeadInHand ==
    ASSUME TypeOK, PlaceInv, curvec # <<>>
    PROVE  /\ Head(curvec) \in Ids /\ wheelpos[Head(curvec)] = cur
           /\ InSeq(Head(curvec), curvec)
           /\ \A s \in Slots : ~InSeq(Head(curvec), lst[s])
           /\ \A x : InSeq(x, Tail(curvec)) <=> InSeq(x, curvec) /\ x # Head(curvec)
<1>1. /\ curvec \in Seq(Ids) /\ Head(curvec) = curvec[1] /\ 1 \in 1 .. Len(curvec)
      /\ Head(curvec) \in Ids
  BY DEF TypeOK
<1>2. wheelpos[Head(curvec)] = cur /\ ~InSeq(Head(curvec), lst[cur])
  BY <1>1 DEF PlaceInv, CurvecInv
<1>3. \A s \in Slots : ~InSeq(Head(curvec), lst[s])
  BY <1>2, LinkedPlace
<1>4. \A x : InSeq(x, Tail(curvec)) <=> InSeq(x, curvec) /\ x # Head(curvec)
  BY <1>1, TailDropsHead DEF PlaceInv, CurvecInv
<1> QED
  BY <1>1, <1>2, <1>3, <1>4, HeadInSeq

\* Taking a slot: what was about to be due is due, and stays in the wheel.
LEMMA SwapEntries ==
    ASSUME TypeOK, PlaceInv, CbSwap, NEW x
    PROVE  (InWheel(x)' <=> InWheel(x)) /\ (InWheel(x) => Remaining(x)' = Remaining(x))
<1>1. /\ lst' = [lst EXCEPT ![cur] = <<>>] /\ curvec = <<>> /\ curvec' = lst[cur]
      /\ cur \in Slots /\ cbpc = "lock" /\ cbpc' = "loop"
      /\ UNCHANGED <<crs, cur, wheelpos, rounds>>
  BY DEF CbSwap, timerVars, PlaceInv, CurvecInv, TypeOK
<1>2. ~InSeq(x, curvec) /\ (InSeq(x, curvec') <=> InSeq(x, lst[cur]))
  BY <1>1 DEF InSeq
<1>3. \A s \in Slots : InSeq(x, lst'[s]) <=> s # cur /\ InSeq(x, lst[s])
  <2>1. \A s \in Slots : lst'[s] = IF s = cur THEN <<>> ELSE lst[s]
    BY <1>1 DEF TypeOK
  <2> QED
    BY <2>1 DEF InSeq
<1>4. InWheel(x)' <=> InWheel(x)
  BY <1>1, <1>2, <1>3 DEF InWheel
<1>5. ASSUME InWheel(x) PROVE Remaining(x)' = Remaining(x)
  <2>1. PICK s \in Slots : InSeq(x, lst[s])
    BY <1>2, <1>5 DEF InWheel
  <2>2. x \in Ids /\ wheelpos[x] = s /\ (InSeq(x, lst[cur]) => s = cur)
    BY <1>1, <2>1, LinkedPlace
  <2>3. CASE s = cur
    <3>1. Remaining(x)' = WHLCST * rounds[x] + 0
      BY <1>1, <1>2, <2>1, <2>3 DEF Remaining
    <3>2. Remaining(x) = WHLCST * rounds[x] + 0
      BY <1>2, <2>2, <2>3, DistSwap DEF Remaining
    <3> QED
      BY <3>1, <3>2
  <2>4. CASE s # cur
    <3>1. ~InSeq(x, curvec')
      BY <1>2, <2>2, <2>4
    <3>2. Dist(wheelpos[x])' = Dist(wheelpos[x])
      BY <1>1, <2>2, <2>4 DEF Dist
    <3> QED
      BY <1>1, <1>2, <3>1, <3>2 DEF Remaining
  <2> QED
    BY <2>3, <2>4
<1> QED
  BY <1>4, <1>5

\* Putting an entry back: a round less, and a turn farther away.
LEMMA RequeueEntries ==
    ASSUME TypeOK, PlaceInv, LoopInv, CbRequeue, NEW x \in Ids
    PROVE  (InWheel(x)' <=> InWheel(x)) /\ (InWheel(x) => Remaining(x)' = Remaining(x))
<1> DEFINE dw == Head(curvec)
<1>1. /\ cbpc = "loop" /\ curvec # <<>> /\ curvec' = Tail(curvec) /\ cur \in Slots
      /\ lst[cur] \in Seq(Ids) /\ rounds[dw] # 0
      /\ lst'[cur] = Append(lst[cur], dw)
      /\ \A s \in Slots : s # cur => lst'[s] = lst[s]
      /\ rounds' = [rounds EXCEPT ![dw] = @ - 1]
      /\ UNCHANGED <<crs, cbpc, cur, wheelpos>>
  BY DEF CbRequeue, TypeOK
<1>2. /\ dw \in Ids /\ wheelpos[dw] = cur /\ InSeq(dw, curvec)
      /\ InSeq(x, curvec') <=> InSeq(x, curvec) /\ x # dw
  BY <1>1, HeadInHand
<1>3. \A s : Dist(s)' = Dist(s)
  BY <1>1 DEF Dist
<1>4. InSeq(x, lst'[cur]) <=> InSeq(x, lst[cur]) \/ x = dw
  <2>1. /\ Len(lst'[cur]) = Len(lst[cur]) + 1 /\ Len(lst[cur]) \in Nat
        /\ \A i \in 1 .. Len(lst'[cur]) :
              lst'[cur][i] = IF i = Len(lst[cur]) + 1 THEN dw ELSE lst[cur][i]
    BY <1>1, <1>2
  <2>2. Len(lst[cur]) + 1 \in 1 .. Len(lst'[cur])
    BY <2>1
  <2> QED
    BY <2>1, <2>2 DEF InSeq
<1>5. InWheel(x)' <=> InWheel(x)
  <2>1. CASE x = dw
    BY <1>1, <1>2, <1>4, <2>1 DEF InWheel
  <2>2. CASE x # dw
    BY <1>1, <1>2, <1>4, <2>2 DEF InWheel
  <2> QED
    BY <2>1, <2>2
<1>6. Remaining(x)' = Remaining(x)
  <2>1. CASE x = dw
    <3>1. rounds[dw] = 1 /\ rounds'[dw] = 0 /\ WHLCST \in Nat
      BY <1>1, <1>2, WheelAssumption DEF TypeOK
    <3>2. Dist(wheelpos[x])' = WHLCST
      BY <1>1, <1>2, <1>3, <2>1, DistTaken DEF Dist
    <3>3. Remaining(x)' = WHLCST * 0 + WHLCST
      BY <1>1, <1>2, <2>1, <3>1, <3>2 DEF Remaining
    <3>4. Remaining(x) = WHLCST * 1 + 0
      BY <1>2, <2>1, <3>1 DEF Remaining
    <3> QED
      BY <3>1, <3>3, <3>4
  <2>2. CASE x # dw
    <3>1. rounds'[x] = rounds[x] /\ (InSeq(x, curvec') <=> InSeq(x, curvec))
      BY <1>1, <1>2, <2>2 DEF TypeOK
    <3>2. Dist(wheelpos[x])' = Dist(wheelpos[x])
      BY <1>1 DEF Dist
    <3> QED
      BY <3>1, <3>2 DEF Remaining
  <2> QED
    BY <2>1, <2>2
<1> QED
  BY <1>5, <1>6

\* Dropping or firing an entry leaves all the others.
LEMMA TakenEntries ==
    ASSUME TypeOK, PlaceInv, CbDrop \/ CbFire, NEW x
    PROVE  /\ x # Head(curvec) => (InWheel(x)' <=> InWheel(x)) /\ Remaining(x)' = Remaining(x)
           /\ x = Head(curvec) => InWheel(x) /\ ~InWheel(x)'
<1>1. /\ curvec # <<>> /\ curvec' = Tail(curvec)
      /\ UNCHANGED <<lst, crs, cbpc, cur, wheelpos, rounds>>
  BY DEF CbDrop, CbFire, wheelVars, timerVars
<1>2. InSeq(x, curvec') <=> InSeq(x, curvec) /\ x # Head(curvec)
  BY <1>1, HeadInHand
<1>3. ASSUME x # Head(curvec)
      PROVE  (InWheel(x)' <=> InWheel(x)) /\ Remaining(x)' = Remaining(x)
  <2>1. Dist(wheelpos[x])' = Dist(wheelpos[x])
    BY <1>1 DEF Dist
  <2>2. Remaining(x)' = Remaining(x)
    BY <1>1, <1>2, <1>3, <2>1 DEF Remaining
  <2>3. InWheel(x)' <=> InWheel(x)
    BY <1>1, <1>2, <1>3 DEF InWheel
  <2> QED
    BY <2>2, <2>3
<1>4. ASSUME x = Head(curvec) PROVE InWheel(x) /\ ~InWheel(x)'
  BY <1>1, <1>2, <1>4, HeadInHand DEF InWheel
<1> QED
  BY <1>3, <1>4

\* What the callback does besides ticking and firing is not seen.
LEMMA CallbackUnseen ==
    ASSUME TInv, CbSwap \/ CbDrop \/ CbRequeue \/ CbDone
    PROVE  Mapped' = Mapped
<1> USE DEF TInv, IInv
<1>1. /\ UNCHANGED <<pc, tid, left, cancelled>> /\ Lost' = Lost
  BY DEF CbSwap, CbDrop, CbRequeue, CbDone, opVars, Lost
<1>2. ASSUME NEW p \in Ops, NEW x, x = tid[p], x # 0, pc[p] \in {"ready", "posted", "done"}
      PROVE  (InWheel(x)' <=> InWheel(x)) /\ (InWheel(x) => Remaining(x)' = Remaining(x))
  <2>1. x \in Ids /\ ~hasTouchedByWorker[x]
    BY <1>2 DEF TypeOK, LinkInv
  <2>2. CASE CbSwap
    BY <2>2, SwapEntries
  <2>3. CASE CbRequeue
    BY <2>1, <2>3, RequeueEntries
  <2>4. CASE CbDrop
    <3>1. x # Head(curvec)
      BY <2>1, <2>4 DEF CbDrop
    <3> QED
      BY <2>4, <3>1, TakenEntries
  <2>5. CASE CbDone
    <3>1. /\ UNCHANGED <<lst, curvec, crs, wheelpos, rounds>> /\ cbpc = "loop" /\ cbpc' = "idle"
      BY <2>5 DEF CbDone, wheelVars, timerVars
    <3>2. Dist(wheelpos[x])' = Dist(wheelpos[x])
      BY <3>1 DEF Dist
    <3> QED
      BY <3>1, <3>2 DEF InWheel, InSeq, Remaining
  <2> QED
    BY <2>2, <2>3, <2>4, <2>5
<1>3. \A p \in Ops : SameView(p)
  BY <1>1, <1>2, Unseen
<1> QED
  BY <1>1, <1>3, NoView

\* Firing: the timer of an operation that carries it expires; what was left
\* behind by a failed post may strike any operation, and else is not seen.
LEMMA FireExpires ==
    ASSUME TInv, CbFire
    PROVE  \/ Mapped' = Mapped
           \/ \E o \in Ops : Timers!Expire(o) \/ Timers!Strike(o)
<1> USE DEF TInv, IInv
<1> DEFINE id == Head(curvec)
<1>0. PICK q : q = ioc[id]
  OBVIOUS
<1>1. /\ curvec # <<>> /\ ~hasTouchedByWorker[id] /\ rounds[id] = 0
      /\ UNCHANGED <<pc, tid, left>> /\ Lost' = Lost
      /\ id \in Ids /\ id # 0 /\ InSeq(id, curvec)
  BY HeadInHand, WheelAssumption DEF CbFire, Ids, Lost
<1>2. ASSUME NEW p \in Ops, tid[p] # id, cancelled'[p] = cancelled[p] PROVE SameView(p)
  <2>1. ASSUME NEW x, x = tid[p]
        PROVE  (InWheel(x)' <=> InWheel(x)) /\ Remaining(x)' = Remaining(x)
    BY <1>2, <2>1, TakenEntries
  <2> QED
    BY <1>1, <1>2, <2>1, Unseen
<1>3. \/ q \in Ops /\ tid[q] = id
      \/ Lost /\ ~(q \in Ops /\ tid[q] = id)
  <2>1. InWheel(id)
    BY <1>1 DEF InWheel
  <2> QED
    BY <1>0, <1>1, <2>1 DEF LinkInv, Lost
<1>4. CASE q \in Ops /\ tid[q] = id
  <2>1. \A p \in Ops : p # q => tid[p] # id
    BY <1>1, <1>4 DEF PlaceInv, OpInv
  <2>2. cancelled' = IF pc[q] = "posted" /\ cancelled[q] = "no"
                     THEN [cancelled EXCEPT ![q] = "own"] ELSE cancelled
    BY <1>0, <1>4 DEF CbFire, CancelIoEx
  <2>3. \A p \in Ops : p # q => cancelled'[p] = cancelled[p]
    BY <2>2 DEF TypeOK
  <2>4. OthersSame(q)
    BY <1>2, <2>1, <2>3 DEF OthersSame
  <2>5. cancelled[q] \in {"no", "own", "stray"} /\ pc[q] \in PCs
    BY <1>4 DEF TypeOK
  <2>6. CASE pc[q] \in {"ready", "posted", "done"}
    <3>1. InWheel(id) /\ Remaining(id) = 0
      <4>1. InWheel(id) /\ Remaining(id) = WHLCST * 0 + 0 /\ WHLCST \in Nat
        BY <1>1, WheelAssumption DEF InWheel, Remaining
      <4> QED
        BY <4>1
    <3>2. ASSUME NEW x, x = id PROVE ~InWheel(x)'
      BY <3>2, TakenEntries
    <3>3. TimerOf(q) = "armed" /\ DueOf(q) = 0
      BY <1>1, <1>4, <2>6, <3>1, ViewNow
    <3>4. TimerOf(q)' = "gone" /\ DueOf(q)' = 0
      BY <1>1, <1>4, <2>6, <3>2, ViewNext
    <3>5. AskedOf(q)' = AskedOf(q)
      BY <1>1, <1>4 DEF AskedOf
    <3>6. IoOf(q)' = IF IoOf(q) = "pending" THEN "expired" ELSE IoOf(q)
      <4>1. CASE pc[q] = "posted" /\ cancelled[q] = "no"
        <5>1. cancelled'[q] = "own" /\ pc'[q] = "posted"
          BY <1>1, <1>4, <2>2, <4>1 DEF TypeOK
        <5> QED
          BY <1>4, <4>1, <5>1, ViewNow, ViewNext
      <4>2. CASE ~(pc[q] = "posted" /\ cancelled[q] = "no")
        <5>1. cancelled'[q] = cancelled[q] /\ pc'[q] = pc[q]
          BY <1>1, <2>2, <4>2
        <5> QED
          BY <1>4, <2>5, <2>6, <4>2, <5>1, ViewNow, ViewNext
      <4> QED
        BY <4>1, <4>2
    <3>7. Timers!Expire(q)
      BY <1>1, <1>4, <2>4, <3>3, <3>4, <3>5, <3>6, OneView
         DEF Timers!Expire, Asks, Tmrs, Dues, Ios, Lost
    <3> QED
      BY <1>4, <3>7
  <2>7. CASE pc[q] \notin {"ready", "posted", "done"}
    <3>1. cancelled'[q] = cancelled[q]
      BY <2>2, <2>7
    <3>2. SameView(q)
      BY <1>1, <1>4, <2>7, <3>1, Unseen
    <3> QED
      BY <1>1, <2>4, <3>2, NoView DEF OthersSame
  <2> QED
    BY <2>6, <2>7
<1>5. CASE Lost /\ ~(q \in Ops /\ tid[q] = id)
  <2>1. ASSUME NEW p \in Ops, tid[p] = id PROVE FALSE
    BY <1>0, <1>1, <1>5, <2>1 DEF PlaceInv, OpInv
  <2>2. CASE cancelled' = cancelled
    <3>1. \A p \in Ops : SameView(p)
      BY <1>2, <2>1, <2>2
    <3> QED
      BY <1>1, <3>1, NoView
  <2>3. CASE cancelled' # cancelled
    <3>1. /\ q \in Ops /\ pc[q] = "posted" /\ cancelled[q] = "no"
          /\ cancelled' = [cancelled EXCEPT ![q] = "stray"]
      BY <1>0, <1>5, <2>3 DEF CbFire, CancelIoEx, TypeOK
    <3>2. OthersSame(q)
      BY <1>2, <2>1, <3>1 DEF OthersSame, TypeOK
    <3>3. ASSUME NEW x, x = tid[q]
          PROVE  (InWheel(x)' <=> InWheel(x)) /\ Remaining(x)' = Remaining(x)
      <4>1. x # id
        BY <2>1, <3>1, <3>3
      <4> QED
        BY <4>1, TakenEntries
    <3>4. TimerOf(q)' = TimerOf(q) /\ DueOf(q)' = DueOf(q)
      BY <1>1, <3>1, <3>3, ViewNow, ViewNext
    <3>5. IoOf(q) = "pending" /\ IoOf(q)' = "struck" /\ AskedOf(q)' = AskedOf(q)
      <4>1. cancelled'[q] = "stray" /\ pc'[q] = "posted" /\ left'[q] = left[q]
        BY <1>1, <3>1 DEF TypeOK
      <4> QED
        BY <3>1, <4>1, ViewNow, ViewNext
    <3>6. Timers!Strike(q)
      BY <1>1, <1>5, <3>1, <3>2, <3>4, <3>5, OneView
         DEF Timers!Strike, Asks, Tmrs, Dues, Ios, Lost
    <3> QED
      BY <3>1, <3>6
  <2> QED
    BY <2>2, <2>3
<1> QED
  BY <1>3, <1>4, <1>5

\* Every step of the wheel is a step of Timers, or changes nothing in it.
LEMMA TimersStep ==
    ASSUME TInv, [Next]_vars
    PROVE  [Timers!Next]_Mapped
<1>1. ASSUME NEW o \in Ops, MakeTimer(o) PROVE [Timers!Next]_Mapped
  BY <1>1, ReadAsks, ThreadsUnseen, InsertArms DEF MakeTimer, Timers!Next
<1>2. ASSUME NEW o \in Ops, Io(o) PROVE [Timers!Next]_Mapped
  BY <1>2, OkPosts, FailedPostLeaves, EndCompletes DEF Io, Timers!Next
<1>3. ASSUME NEW o \in Ops, Touch(o) PROVE [Timers!Next]_Mapped
  BY <1>3, TouchTakesDown DEF Timers!Next
<1>4. ASSUME NEW o \in Ops, RemoveTimerId(o) PROVE [Timers!Next]_Mapped
  BY <1>4, ThreadsUnseen, MarkCloses, UnlinkCloses DEF RemoveTimerId, Timers!Next
<1>5. ASSUME NEW o \in Ops, Recycle(o) PROVE [Timers!Next]_Mapped
  BY <1>5, ThreadsUnseen
<1>6. CASE Callback
  BY <1>6, AdvanceTicks, CallbackUnseen, FireExpires DEF Callback, Timers!Next
<1>7. CASE UNCHANGED vars
  <2>1. /\ UNCHANGED <<crs, lst, cbpc, cur, curvec, wheelpos, rounds, pc, tid, left, cancelled>>
        /\ Lost' = Lost
    BY <1>7 DEF vars, wheelVars, timerVars, cbVars, opVars, Lost
  <2>2. ASSUME NEW p \in Ops, NEW x, x = tid[p]
        PROVE  (InWheel(x)' <=> InWheel(x)) /\ Remaining(x)' = Remaining(x)
    BY <2>1 DEF InWheel, InSeq, Remaining, Dist
  <2>3. \A p \in Ops : SameView(p)
    BY <2>1, <2>2, Unseen DEF TInv, IInv
  <2> QED
    BY <2>1, <2>3, NoView
<1> QED
  BY <1>1, <1>2, <1>3, <1>4, <1>5, <1>6, <1>7 DEF Next

\* For every size of the wheel and the pool, every timeout and any number of
\* operations, however maketimer, removetimerid and the callback interleave:
\* the wheel keeps the contract of Timers.
THEOREM WheelImplementsTimers == Spec => TimersKept
<1>1. Init => Timers!Init
  <2> SUFFICES ASSUME Init PROVE Timers!Init
    OBVIOUS
  <2>1. ASSUME NEW o \in Ops
        PROVE  AskedOf(o) = 0 /\ TimerOf(o) = "off" /\ DueOf(o) = 0 /\ IoOf(o) = "none"
    <3>1. pc[o] = "idle"
      BY DEF Init
    <3> QED
      BY <3>1, ViewNow
  <2> QED
    BY <2>1 DEF Init, Timers!Init
<1>2. TInv /\ [Next]_vars => [Timers!Next]_Mapped
  BY TimersStep
<1> QED
  BY <1>1, <1>2, TInvHolds, PTL
     DEF Spec, TimersKept, Timers!Spec, Timers!vars, Mapped, Asks, Tmrs, Dues, Ios, Lost

=============================================================================
