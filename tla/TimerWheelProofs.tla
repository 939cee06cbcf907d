-------------------------- MODULE TimerWheelProofs --------------------------
(***************************************************************************)
(* Proofs about TimerWheel: its types, the place of every timer id, the    *)
(* earliest time of a timeout, who can be hit by CancelIoEx, and how a     *)
(* pending operation can lose its timer.                                   *)
(***************************************************************************)
EXTENDS TimerWheel, SequenceTheorems, TLAPS

-----------------------------------------------------------------------------
(* Lemmas about the operators of the model. *)

\* Division below twice the divisor.
LEMMA DivModSmall ==
    ASSUME NEW n \in Nat, NEW w \in Nat, w > 0, n < 2 * w
    PROVE  /\ n < w => n % w = n /\ n \div w = 0
           /\ ~(n < w) => n % w = n - w /\ n \div w = 1
<1>1. CASE n < w
  <2>1. n % w = n /\ n \div w = 0
    BY <1>1
  <2> QED
    BY <1>1, <2>1
<1>2. CASE ~(n < w)
  <2>1. n >= w
    BY <1>2
  <2>2. n % w = n - w /\ n \div w = 1
    BY <2>1
  <2> QED
    BY <1>2, <2>2
<1> QED
  BY <1>1, <1>2

\* The slot and the rounds of a new timer: at most one turn of the wheel.
LEMMA SlotOfSum ==
    ASSUME NEW a \in Slots
    PROVE  /\ (a + Timeout) % WHLCST =
                IF a + Timeout < WHLCST THEN a + Timeout ELSE a + Timeout - WHLCST
           /\ (a + Timeout) \div WHLCST = IF a + Timeout < WHLCST THEN 0 ELSE 1
<1>1. /\ WHLCST \in Nat /\ WHLCST > 0 /\ Timeout \in Nat /\ a \in Nat
      /\ a + Timeout < 2 * WHLCST
  BY WheelAssumption DEF Slots
<1>2. a + Timeout \in Nat
  BY <1>1
<1> QED
  BY <1>1, <1>2, DivModSmall

\* swap-and-pop at the place k of an entry leaves every other entry, and only
\* entries, in the sequence.
LEMMA SwapPopSeq ==
    ASSUME NEW S, NEW s \in Seq(S), s # <<>>, NEW idx \in Nat
    PROVE  /\ SwapPop(s, idx) \in Seq(S)
           /\ Len(SwapPop(s, idx)) = Len(s) - 1
           /\ \A i \in 1 .. Len(s) - 1 :
                SwapPop(s, idx)[i] = IF i = idx + 1 THEN s[Len(s)] ELSE s[i]
<1>1. Len(s) - 1 \in Nat /\ Len(s) \in 1 .. Len(s)
  OBVIOUS
<1>2. \A i \in 1 .. Len(s) - 1 : (IF i = idx + 1 THEN s[Len(s)] ELSE s[i]) \in S
  BY <1>1
<1>3. SwapPop(s, idx) \in [1 .. Len(s) - 1 -> S]
  BY <1>2 DEF SwapPop
<1>4. SwapPop(s, idx) \in Seq(S)
  BY <1>1, <1>3
<1> QED
  BY <1>1, <1>3, <1>4 DEF SwapPop

\* The entries of a tail, and the head, are entries.
LEMMA TailInSeq ==
    ASSUME NEW S, NEW s \in Seq(S), s # <<>>
    PROVE  \A x : InSeq(x, Tail(s)) => InSeq(x, s)
<1>1. \A i \in 1 .. Len(Tail(s)) : Tail(s)[i] = s[i + 1] /\ i + 1 \in 1 .. Len(s)
  OBVIOUS
<1> QED
  BY <1>1 DEF InSeq

LEMMA HeadInSeq ==
    ASSUME NEW S, NEW s \in Seq(S), s # <<>>
    PROVE  InSeq(Head(s), s)
<1>1. 1 \in 1 .. Len(s) /\ s[1] = Head(s)
  OBVIOUS
<1> QED
  BY <1>1 DEF InSeq

\* What `pick the last free id' finds.
LEMMA LastFreeId ==
    ASSUME TypeOK, freeids # <<>>
    PROVE  /\ Len(freeids) \in Nat /\ Len(freeids) >= 1
           /\ Len(freeids) \in 1 .. Len(freeids)
           /\ freeids[Len(freeids)] \in Ids /\ freeids[Len(freeids)] # 0
<1>1. freeids \in Seq(Ids)
  BY DEF TypeOK
<1>2. Len(freeids) \in Nat /\ Len(freeids) >= 1
  BY <1>1
<1>3. freeids[Len(freeids)] \in Ids
  BY <1>1, <1>2
<1> QED
  BY <1>2, <1>3, WheelAssumption DEF Ids

\* Every free id is an id, and none is 0, which is how an operation says it has no timer.
LEMMA FreeIdsAreIds ==
    ASSUME TypeOK
    PROVE  \A i \in 1 .. Len(freeids) : freeids[i] \in Ids /\ freeids[i] # 0
<1>1. freeids \in Seq(Ids)
  BY DEF TypeOK
<1>2. \A i \in 1 .. Len(freeids) : freeids[i] \in Ids
  BY <1>1
<1> QED
  BY <1>2, WheelAssumption DEF Ids

\* What pop_back leaves.
LEMMA PopBackSeq ==
    ASSUME NEW S, NEW s \in Seq(S), s # <<>>
    PROVE  /\ Len(SubSeq(s, 1, Len(s) - 1)) = Len(s) - 1
           /\ \A i \in 1 .. Len(s) - 1 : SubSeq(s, 1, Len(s) - 1)[i] = s[i]
<1>1. /\ Len(s) \in Nat /\ Len(s) >= 1 /\ Len(s) - 1 \in Nat /\ 1 \in Int
      /\ \A i \in 1 .. Len(s) - 1 : s[i] \in S
  OBVIOUS
<1>2. ASSUME NEW n \in Nat, \A i \in 1 .. n : s[i] \in S
      PROVE  /\ Len(SubSeq(s, 1, n)) = n
             /\ \A i \in 1 .. n : SubSeq(s, 1, n)[i] = s[i]
  <2>1. n \in Int
    OBVIOUS
  <2>2. /\ Len(SubSeq(s, 1, n)) = IF 1 <= n THEN n - 1 + 1 ELSE 0
        /\ \A i \in 1 .. n - 1 + 1 : SubSeq(s, 1, n)[i] = s[1 + i - 1]
    BY <1>1, <1>2, <2>1, SubSeqProperties
  <2> QED
    BY <2>2
<1> QED
  BY <1>1, <1>2

-----------------------------------------------------------------------------
(* Types.  TypeOK needs one fact more to be inductive: an operation that is    *)
(* about to insert or to remove a timer carries an id.                         *)

HasTid == {"insert", "touched", "unpost", "remove"}

TidSet ==
    \A o \in Ops : /\ pc[o] \in {"idle", "alloc"} => tid[o] = 0
                   /\ pc[o] \in HasTid => tid[o] # 0

LEMMA TypeInit == Init => TypeOK /\ TidSet
<1> SUFFICES ASSUME Init PROVE TypeOK /\ TidSet
  OBVIOUS
<1>1. 0 \in Slots /\ WHLCST - 1 \in Slots /\ ATSIZEA - 1 \in Nat /\ Timeout \in Nat
  BY WheelAssumption DEF Slots
<1>2. AllIds \in Seq(Ids)
  BY <1>1 DEF AllIds, Ids
<1> QED
  BY <1>1, <1>2 DEF Init, TypeOK, TidSet, HasTid, PCs

LEMMA SlotOfOp ==
    ASSUME TypeOK, NEW o \in Ops
    PROVE  WheelNum(o) \in Slots /\ RoundsFor(o) \in {0, 1}
<1>1. aux[o] \in Slots
  BY DEF TypeOK
<1>2. /\ aux[o] \in Nat /\ Timeout \in Nat /\ WHLCST \in Nat /\ aux[o] < WHLCST
      /\ Timeout < WHLCST
  BY <1>1, WheelAssumption DEF Slots
<1>3. (aux[o] + Timeout) % WHLCST =
        IF aux[o] + Timeout < WHLCST THEN aux[o] + Timeout ELSE aux[o] + Timeout - WHLCST
  BY <1>1, SlotOfSum
<1>4. (aux[o] + Timeout) \div WHLCST = IF aux[o] + Timeout < WHLCST THEN 0 ELSE 1
  BY <1>1, SlotOfSum
<1>5. WheelNum(o) = IF aux[o] + Timeout < WHLCST THEN aux[o] + Timeout
                                                 ELSE aux[o] + Timeout - WHLCST
  BY <1>3 DEF WheelNum
<1>6. RoundsFor(o) = IF aux[o] + Timeout < WHLCST THEN 0 ELSE 1
  BY <1>4 DEF RoundsFor
<1>7. WheelNum(o) \in Slots
  BY <1>2, <1>5 DEF Slots
<1> QED
  BY <1>6, <1>7

LEMMA TypeStep == TypeOK /\ TidSet /\ [Next]_vars => TypeOK' /\ TidSet'
<1> SUFFICES ASSUME TypeOK, TidSet, [Next]_vars PROVE TypeOK' /\ TidSet'
  OBVIOUS
<1> USE DEF TypeOK, TidSet, HasTid
<1>0. /\ 0 \in Slots /\ Timeout \in Nat /\ WHLCST \in Nat /\ WHLCST > 0
      /\ 0 \in 0 .. (Timeout + 1) /\ \A id \in Ids : id # 0
  BY WheelAssumption DEF Slots, Ids
<1>1. ASSUME NEW o \in Ops, MakeTimerRead(o) PROVE TypeOK' /\ TidSet'
  BY <1>0, <1>1 DEF MakeTimerRead, PCs, wheelVars, timerVars, cbVars, opVars
<1>2. ASSUME NEW o \in Ops, MakeTimerFull(o) PROVE TypeOK' /\ TidSet'
  BY <1>0, <1>2 DEF MakeTimerFull, PCs, wheelVars, timerVars, cbVars, opVars
<1>3. ASSUME NEW o \in Ops, MakeTimerAlloc(o) PROVE TypeOK' /\ TidSet'
  <2> DEFINE myid == freeids[Len(freeids)]
  <2>1. myid \in Ids /\ SubSeq(freeids, 1, Len(freeids) - 1) \in Seq(Ids)
    BY <1>3 DEF MakeTimerAlloc
  <2>2. WheelNum(o) \in Slots /\ RoundsFor(o) \in {0, 1}
    BY SlotOfOp
  <2> QED
    BY <1>0, <1>3, <2>1, <2>2 DEF MakeTimerAlloc, PCs, cbVars
<1>4. ASSUME NEW o \in Ops, MakeTimerInsert(o) PROVE TypeOK' /\ TidSet'
  <2>1. WheelNum(o) \in Slots /\ tid[o] \in Ids
    BY SlotOfOp, <1>4 DEF MakeTimerInsert
  <2>2. Append(lst[WheelNum(o)], tid[o]) \in Seq(Ids) /\ Len(lst[WheelNum(o)]) \in Nat
    BY <2>1
  <2> QED
    BY <1>0, <1>4, <2>1, <2>2 DEF MakeTimerInsert, PCs, cbVars
<1>5. ASSUME NEW o \in Ops, PostOk(o) PROVE TypeOK' /\ TidSet'
  BY <1>0, <1>5 DEF PostOk, PCs, wheelVars, timerVars, cbVars, opVars
<1>6. ASSUME NEW o \in Ops, PostFail(o) PROVE TypeOK' /\ TidSet'
  <2>1. orphaned' \in SUBSET Ids
    <3>1. tid[o] # 0 => tid[o] \in Ids
      OBVIOUS
    <3> QED
      BY <1>6, <3>1, SMTT(30) DEF PostFail
  <2>2. /\ pc' \in [Ops -> PCs]
       /\ tid' \in [Ops -> Ids \cup {0}]
       /\ left' \in [Ops -> 0 .. (Timeout + 1)]
    <3>1. pc' \in [Ops -> PCs]
      <4>1. pc' = [pc EXCEPT ![o] = "unpost"] \/ pc' = [pc EXCEPT ![o] = "idle"]
        BY <1>6 DEF PostFail
      <4>2. pc \in [Ops -> PCs] /\ "unpost" \in PCs /\ "idle" \in PCs
        BY DEF PCs
      <4> HIDE DEF TypeOK, TidSet
      <4> QED
        BY <4>1, <4>2
    <3>2. tid' \in [Ops -> Ids \cup {0}]
      <4>1. tid' = tid \/ tid' = [tid EXCEPT ![o] = 0]
        BY <1>6 DEF PostFail
      <4>2. tid \in [Ops -> Ids \cup {0}]
        OBVIOUS
      <4> HIDE DEF TypeOK, TidSet
      <4> QED
        BY <4>1, <4>2
    <3>3. left' \in [Ops -> 0 .. (Timeout + 1)]
      <4>1. left' = left \/ left' = [left EXCEPT ![o] = 0]
        BY <1>6 DEF PostFail
      <4> QED
        BY <1>0, <4>1
    <3> QED
      BY <3>1, <3>2, <3>3
  <2>3. TidSet'
    BY <1>6 DEF PostFail
  <2> QED
    BY <1>0, <1>6, <2>1, <2>2, <2>3 DEF PostFail, PCs, wheelVars, timerVars, cbVars
<1>7. ASSUME NEW o \in Ops, Complete(o) PROVE TypeOK' /\ TidSet'
  BY <1>0, <1>7 DEF Complete, PCs, wheelVars, timerVars, cbVars, opVars
<1>8. ASSUME NEW o \in Ops, Abort(o) PROVE TypeOK' /\ TidSet'
  BY <1>0, <1>8 DEF Abort, PCs, wheelVars, timerVars, cbVars, opVars
<1>9. ASSUME NEW o \in Ops, Touch(o) PROVE TypeOK' /\ TidSet'
  <2>1. hasTouchedByWorker' \in [Ids -> BOOLEAN]
    BY <1>9 DEF Touch
  <2>2. /\ pc' \in [Ops -> PCs]
       /\ left' \in [Ops -> 0 .. (Timeout + 1)]
    <3>1. pc' \in [Ops -> PCs]
      BY <1>0, <1>9 DEF Touch, PCs
    <3>2. left' \in [Ops -> 0 .. (Timeout + 1)]
      BY <1>0, <1>9 DEF Touch, PCs
    <3> QED
      BY <3>1, <3>2
  <2>3. TidSet'
    BY <1>9 DEF Touch
  <2> QED
    BY <1>0, <1>9, <2>1, <2>2, <2>3 DEF Touch, PCs, wheelVars, cbVars
<1>10. ASSUME NEW o \in Ops, RemoveRead(o) PROVE TypeOK' /\ TidSet'
  BY <1>0, <1>10 DEF RemoveRead, PCs, wheelVars, timerVars, cbVars, opVars
<1>11. ASSUME NEW o \in Ops, RemoveMark(o) PROVE TypeOK' /\ TidSet'
  <2>1. hasTouchedByWorker' \in [Ids -> BOOLEAN]
    BY <1>11 DEF RemoveMark
  <2> QED
    BY <1>0, <1>11, <2>1 DEF RemoveMark, PCs, wheelVars, cbVars
<1>12. ASSUME NEW o \in Ops, RemoveUnlink(o) PROVE TypeOK' /\ TidSet'
  <2> DEFINE id  == tid[o]
             pos == wheelpos[id]
             idx == index_in_bucket[id]
  <2>1. id \in Ids /\ pos \in Slots /\ idx \in Nat /\ lst[pos] \in Seq(Ids)
    BY <1>12 DEF RemoveUnlink
  <2>2. freeids' \in Seq(Ids)
    BY <1>12, <2>1 DEF RemoveUnlink
  <2>3. lst' \in [Slots -> Seq(Ids)] /\ index_in_bucket' \in [Ids -> Nat]
    <3>1. CASE lst[pos] = <<>>
      BY <1>12, <3>1 DEF RemoveUnlink
    <3>2. CASE lst[pos] # <<>>
      <4>1. SwapPop(lst[pos], idx) \in Seq(Ids) /\ lst[pos][Len(lst[pos])] \in Ids
        <5>1. Len(lst[pos]) \in 1 .. Len(lst[pos])
          BY <2>1, <3>2
        <5>2. lst[pos][Len(lst[pos])] \in Ids
          BY <2>1, <5>1
        <5>3. SwapPop(lst[pos], idx) \in Seq(Ids)
          BY <2>1, <3>2, SwapPopSeq
        <5> QED
          BY <5>2, <5>3
      <4> QED
        BY <1>12, <2>1, <3>2, <4>1 DEF RemoveUnlink
    <3> QED
      BY <3>1, <3>2
  <2>4. /\ pc' \in [Ops -> PCs]
       /\ tid' \in [Ops -> Ids \cup {0}]
       /\ left' \in [Ops -> 0 .. (Timeout + 1)]
       /\ aux' \in [Ops -> Slots]
    <3>1. pc' \in [Ops -> PCs]
      BY <1>0, <1>12 DEF RemoveUnlink, PCs
    <3>2. tid' \in [Ops -> Ids \cup {0}]
      BY <1>0, <1>12 DEF RemoveUnlink, PCs
    <3>3. left' \in [Ops -> 0 .. (Timeout + 1)]
      BY <1>0, <1>12 DEF RemoveUnlink, PCs
    <3>4. aux' \in [Ops -> Slots]
      BY <1>0, <1>12 DEF RemoveUnlink, PCs
    <3> QED
      BY <3>1, <3>2, <3>3, <3>4
  <2>5. TidSet'
    BY <1>12 DEF RemoveUnlink
  <2> QED
    BY <1>0, <1>12, <2>2, <2>3, <2>4, <2>5 DEF RemoveUnlink, PCs, cbVars
<1>13. ASSUME NEW o \in Ops, Recycle(o) PROVE TypeOK' /\ TidSet'
  BY <1>0, <1>13 DEF Recycle, PCs, wheelVars, timerVars, cbVars, opVars
<1>14. CASE CbAdvance
  <2>1. crs' \in Slots
    BY <1>14, WheelAssumption DEF CbAdvance, Slots
  <2>2. left' \in [Ops -> 0 .. (Timeout + 1)]
    BY <1>0, <1>14 DEF CbAdvance
  <2> QED
    BY <1>0, <1>14, <2>1, <2>2 DEF CbAdvance, PCs, timerVars
<1>15. CASE CbSwap
  BY <1>0, <1>15 DEF CbSwap, PCs, wheelVars, timerVars, cbVars, opVars
<1>16. CASE CbDrop
  BY <1>0, <1>16, SMTT(30) DEF CbDrop, PCs, wheelVars, timerVars, cbVars, opVars
<1>17. CASE CbFire
  <2>1. Head(curvec) \in Ids /\ curvec' \in Seq(Ids)
    BY <1>17 DEF CbFire
  <2>2. cancelled' \in [Ops -> {"no", "own", "stray"}]
    BY <1>17, <2>1 DEF CbFire, CancelIoEx
  <2> QED
    BY <1>0, <1>17, <2>1, <2>2 DEF CbFire, PCs, wheelVars, timerVars
<1>18. CASE CbRequeue
  <2>1. Head(curvec) \in Ids /\ curvec' \in Seq(Ids)
    BY <1>18 DEF CbRequeue
  <2>2. lst' \in [Slots -> Seq(Ids)] /\ index_in_bucket' \in [Ids -> Nat]
    BY <1>18, <2>1 DEF CbRequeue
  <2>3. rounds' \in [Ids -> {0, 1}]
    BY <1>18, <2>1 DEF CbRequeue
  <2> QED
    BY <1>0, <1>18, <2>1, <2>2, <2>3 DEF CbRequeue, PCs, opVars
<1>19. CASE CbDone
  BY <1>0, <1>19 DEF CbDone, PCs, wheelVars, timerVars, cbVars, opVars
<1>20. CASE UNCHANGED vars
  BY <1>20 DEF vars, wheelVars, timerVars, cbVars, opVars
<1> QED
  BY <1>1, <1>2, <1>3, <1>4, <1>5, <1>6, <1>7, <1>8, <1>9, <1>10, <1>11, <1>12, <1>13, <1>14, <1>15, <1>16, <1>17, <1>18, <1>19, <1>20 DEF Next, MakeTimer, Io, RemoveTimerId, Callback

-----------------------------------------------------------------------------
(* Where the ids are.  BucketsIndexed and OneOwner hold by induction together  *)
(* with what the callback's local vector and the operations know.              *)

CurvecInv ==
    /\ cbpc # "loop" => curvec = <<>>
    /\ cbpc = "lock" => crs = IF cur = WHLCST - 1 THEN 0 ELSE cur + 1
    /\ \A i \in 1 .. Len(curvec) :
          wheelpos[curvec[i]] = cur /\ ~InSeq(curvec[i], lst[cur])
    /\ \A i, j \in 1 .. Len(curvec) : curvec[i] = curvec[j] => i = j

FreeInv ==
    /\ \A i, j \in 1 .. Len(freeids) : freeids[i] = freeids[j] => i = j
    /\ \A i \in 1 .. Len(freeids) : ~Owned(freeids[i]) /\ ~InWheel(freeids[i])

OpInv ==
    \A o \in Ops :
        /\ tid[o] # 0 => ioc[tid[o]] = o
        /\ pc[o] = "insert" => wheelpos[tid[o]] = WheelNum(o) /\ ~InWheel(tid[o])

PlaceInv == BucketsIndexed /\ CurvecInv /\ FreeInv /\ OpInv

LEMMA PlaceInit == Init => PlaceInv
<1> SUFFICES ASSUME Init PROVE PlaceInv
  OBVIOUS
<1>1. ATSIZEA - 1 \in Nat /\ \A id \in Ids : id # 0
  BY WheelAssumption DEF Ids
<1>2. freeids = AllIds /\ Len(AllIds) = ATSIZEA - 1
  BY <1>1 DEF Init, AllIds
<1>3. \A id : ~InWheel(id)
  BY DEF Init, InWheel, InSeq
<1>4. \A i \in 1 .. Len(freeids) : freeids[i] = i /\ freeids[i] \in Ids
  BY <1>1, <1>2 DEF AllIds, Ids
<1>5. FreeInv
  BY <1>1, <1>3, <1>4 DEF FreeInv, Owned, Init
<1> QED
  BY <1>5 DEF Init, PlaceInv, BucketsIndexed, CurvecInv, OpInv

\* A linked timer stands in the slot its record names, nowhere else.
LEMMA LinkedPlace ==
    ASSUME TypeOK, PlaceInv, NEW s \in Slots, NEW id, InSeq(id, lst[s])
    PROVE  id \in Ids /\ wheelpos[id] = s
<1> PICK i \in 1 .. Len(lst[s]) : lst[s][i] = id
  BY DEF InSeq
<1> QED
  BY DEF TypeOK, PlaceInv, BucketsIndexed

\* swap-and-pop takes the entry at idx + 1 out of an indexed slot, and leaves
\* the other entries where they were, but for the last one, which moves there.
LEMMA UnlinkEntries ==
    ASSUME TypeOK, BucketsIndexed, NEW o \in Ops, RemoveUnlink(o), tid[o] \in Ids
    PROVE  /\ BucketsIndexed'
           /\ \A id, s : s \in Slots /\ InSeq(id, lst'[s]) => InSeq(id, lst[s])
           /\ ~InSeq(tid[o], lst'[wheelpos[tid[o]]])
<1> DEFINE id  == tid[o]
           pos == wheelpos[id]
           idx == index_in_bucket[id]
           L   == Len(lst[pos])
<1>1. /\ pos \in Slots /\ idx \in Nat /\ lst[pos] \in Seq(Ids) /\ L \in Nat
      /\ \A s \in Slots : s # pos => lst'[s] = lst[s]
      /\ wheelpos' = wheelpos
  BY SMTT(30) DEF RemoveUnlink, TypeOK
<1>2. CASE lst[pos] = <<>>
  BY <1>1, <1>2 DEF RemoveUnlink, BucketsIndexed, InSeq
<1>3. CASE lst[pos] # <<>>
  <2>1. L >= 1 /\ lst[pos][L] \in Ids
    BY <1>1, <1>3
  <2>2. /\ lst'[pos] = SwapPop(lst[pos], idx)
        /\ index_in_bucket' = [index_in_bucket EXCEPT ![lst[pos][L]] = idx]
    BY <1>1, <1>3 DEF RemoveUnlink, TypeOK
  <2>3. /\ Len(lst'[pos]) = L - 1
        /\ \A i \in 1 .. L - 1 :
             lst'[pos][i] = IF i = idx + 1 THEN lst[pos][L] ELSE lst[pos][i]
    BY <1>1, <1>3, <2>2, SwapPopSeq
  <2>4. \A i \in 1 .. L : /\ lst[pos][i] \in Ids
                          /\ wheelpos[lst[pos][i]] = pos
                          /\ index_in_bucket[lst[pos][i]] = i - 1
    BY <1>1 DEF BucketsIndexed
  <2>5. \A i, j \in 1 .. L : lst[pos][i] = lst[pos][j] => i = j
    BY <1>1, <2>4, SMTT(30)
  <2>6. ASSUME NEW s \in Slots, NEW i \in 1 .. Len(lst'[s])
        PROVE  /\ wheelpos'[lst'[s][i]] = s
               /\ index_in_bucket'[lst'[s][i]] = i - 1
    <3>1. CASE s # pos
      <4>1. lst'[s] = lst[s] /\ lst[s][i] \in Ids /\ wheelpos[lst[s][i]] = s
        BY <1>1, <3>1, SMTT(30) DEF BucketsIndexed, TypeOK
      <4>2. lst[s][i] # lst[pos][L]
        BY <4>1, <2>1, <2>4, <3>1
      <4> QED
        BY <1>1, <2>2, <4>1, <4>2 DEF BucketsIndexed, TypeOK
    <3>2. CASE s = pos
      <4>1. i \in 1 .. L - 1 /\ i \in 1 .. L /\ i # L
        BY <1>1, <2>3, <3>2
      <4>2. CASE i = idx + 1
        <5>0. idx = i - 1
          BY <1>1, <4>1, <4>2
        <5>1. lst'[s][i] = lst[pos][L]
          BY <2>3, <3>2, <4>1, <4>2
        <5>2. L \in 1 .. L
          BY <1>1, <2>1
        <5>3. wheelpos[lst[pos][L]] = pos
          BY <2>4, <5>2
        <5>4. index_in_bucket'[lst[pos][L]] = idx
          BY <2>1, <2>2 DEF TypeOK
        <5> QED
          BY <1>1, <3>2, <5>0, <5>1, <5>3, <5>4
      <4>3. CASE i # idx + 1
        <5>1. lst'[s][i] = lst[pos][i]
          BY <2>3, <3>2, <4>1, <4>3
        <5>2. lst[pos][i] # lst[pos][L] /\ lst[pos][i] \in Ids
          BY <2>1, <2>4, <2>5, <4>1
        <5> QED
          BY <1>1, <2>2, <2>4, <3>2, <4>1, <5>1, <5>2 DEF TypeOK
      <4> QED
        BY <4>2, <4>3
    <3> QED
      BY <3>1, <3>2
  <2>7. \A i \in 1 .. L - 1 : InSeq(lst'[pos][i], lst[pos])
    <3>1. SUFFICES ASSUME NEW i \in 1 .. L - 1
                   PROVE  \E j \in 1 .. L : lst[pos][j] = lst'[pos][i]
      BY DEF InSeq
    <3>2. i \in 1 .. L /\ L \in 1 .. L
      BY <1>1, <2>1
    <3> QED
      BY <2>3, <3>2
  <2>8. ASSUME NEW i \in 1 .. L - 1 PROVE lst'[pos][i] # id
    <3>1. i \in 1 .. L /\ i # L /\ L \in 1 .. L
      BY <1>1, <2>1
    <3>2. CASE i = idx + 1
      <4>1. lst'[pos][i] = lst[pos][L]
        BY <2>3, <3>2
      <4>2. index_in_bucket[lst[pos][L]] = L - 1
        BY <2>4, <3>1
      <4>3. L - 1 # idx
        BY <1>1, <3>1, <3>2
      <4> QED
        BY <4>1, <4>2, <4>3
    <3>3. CASE i # idx + 1
      <4>1. lst'[pos][i] = lst[pos][i]
        BY <2>3, <3>3
      <4>2. index_in_bucket[lst[pos][i]] = i - 1
        BY <2>4, <3>1
      <4>3. i - 1 # idx
        BY <1>1, <3>1, <3>3
      <4> QED
        BY <4>1, <4>2, <4>3
    <3> QED
      BY <3>2, <3>3
  <2>9. \A x : InSeq(x, lst'[pos]) => InSeq(x, lst[pos]) /\ x # id
    BY <2>3, <2>7, <2>8 DEF InSeq
  <2>10. BucketsIndexed'
    BY <2>6 DEF BucketsIndexed
  <2> QED
    BY <1>1, <2>9, <2>10
<1> QED
  BY <1>2, <1>3

\* Steps that neither move an id nor change the record of a timer.
LEMMA PlaceQuiet ==
    ASSUME TypeOK, PlaceInv, NEW o \in Ops,
           \/ MakeTimerRead(o) \/ MakeTimerFull(o) \/ PostOk(o) \/ Complete(o)
           \/ Abort(o) \/ Touch(o) \/ RemoveRead(o) \/ Recycle(o)
    PROVE  PlaceInv'
<1>1. /\ UNCHANGED <<crs, lst, freeids, wheelpos, index_in_bucket, ioc, cbpc, cur, curvec, tid>>
      /\ \A p \in Ops : pc'[p] = "insert" => pc[p] = "insert" /\ aux'[p] = aux[p]
  BY DEF MakeTimerRead, MakeTimerFull, PostOk, Complete, Abort, Touch, RemoveRead,
         Recycle, wheelVars, timerVars, cbVars, TypeOK
<1>2. BucketsIndexed'
  BY <1>1 DEF PlaceInv, BucketsIndexed
<1>3. CurvecInv'
  BY <1>1 DEF PlaceInv, CurvecInv, InSeq
<1>4. FreeInv'
  BY <1>1 DEF PlaceInv, FreeInv, Owned, InWheel, InSeq
<1>5. OpInv'
  BY <1>1 DEF PlaceInv, OpInv, WheelNum, InWheel, InSeq
<1> QED
  BY <1>2, <1>3, <1>4, <1>5 DEF PlaceInv

\* The operation lets go of its id, and the wheel stays as it is.
LEMMA PlaceRelease ==
    ASSUME TypeOK, PlaceInv, NEW o \in Ops, PostFail(o) \/ RemoveMark(o)
    PROVE  PlaceInv'
<1>1. /\ UNCHANGED <<crs, lst, freeids, wheelpos, index_in_bucket, ioc, cbpc, cur, curvec>>
      /\ \A p \in Ops : tid'[p] = tid[p] \/ tid'[p] = 0
      /\ \A p \in Ops : pc'[p] = "insert" =>
            pc[p] = "insert" /\ aux'[p] = aux[p] /\ tid'[p] = tid[p]
  BY DEF PostFail, RemoveMark, wheelVars, timerVars, cbVars, TypeOK
<1>2. BucketsIndexed'
  BY <1>1 DEF PlaceInv, BucketsIndexed
<1>3. CurvecInv'
  BY <1>1 DEF PlaceInv, CurvecInv, InSeq
<1>4. FreeInv'
  <2>1. \A i \in 1 .. Len(freeids) : freeids[i] # 0
    BY FreeIdsAreIds
  <2>2. \A id : id # 0 /\ Owned(id)' => Owned(id)
    BY <1>1 DEF Owned
  <2> QED
    BY <1>1, <2>1, <2>2 DEF PlaceInv, FreeInv, InWheel, InSeq
<1>5. OpInv'
  BY <1>1 DEF PlaceInv, OpInv, WheelNum, InWheel, InSeq
<1> QED
  BY <1>2, <1>3, <1>4, <1>5 DEF PlaceInv

LEMMA PlaceAlloc ==
    ASSUME TypeOK, TidSet, PlaceInv, NEW o \in Ops, MakeTimerAlloc(o)
    PROVE  PlaceInv'
<1> DEFINE n    == Len(freeids)
           myid == freeids[n]
<1>1. /\ n \in Nat /\ n >= 1 /\ n \in 1 .. n /\ myid \in Ids /\ myid # 0
      /\ UNCHANGED <<crs, lst, cbpc, cur, curvec, aux>>
      /\ freeids' = SubSeq(freeids, 1, n - 1)
      /\ wheelpos' = [wheelpos EXCEPT ![myid] = WheelNum(o)]
      /\ index_in_bucket' = [index_in_bucket EXCEPT ![myid] = 0]
      /\ ioc' = [ioc EXCEPT ![myid] = o]
      /\ tid' = [tid EXCEPT ![o] = myid]
      /\ pc' = [pc EXCEPT ![o] = "insert"]
  <2>1. freeids # <<>>
    BY DEF MakeTimerAlloc
  <2>2. n \in Nat /\ n >= 1 /\ n \in 1 .. n /\ myid \in Ids /\ myid # 0
    BY <2>1, LastFreeId
  <2> QED
    BY <2>2 DEF MakeTimerAlloc, cbVars
<1>2. ~Owned(myid) /\ ~InWheel(myid) /\ tid[o] = 0
  BY <1>1 DEF PlaceInv, FreeInv, TidSet, MakeTimerAlloc
<1>3. \A id \in Ids : id # myid => /\ wheelpos'[id] = wheelpos[id]
                                   /\ index_in_bucket'[id] = index_in_bucket[id]
                                   /\ ioc'[id] = ioc[id]
  BY <1>1 DEF TypeOK
<1>4. BucketsIndexed'
  <2>1. SUFFICES ASSUME NEW s \in Slots, NEW i \in 1 .. Len(lst[s])
                 PROVE  /\ wheelpos'[lst[s][i]] = s
                        /\ index_in_bucket'[lst[s][i]] = i - 1
    BY <1>1 DEF BucketsIndexed
  <2>2. lst[s][i] \in Ids /\ lst[s][i] # myid
    BY <1>2 DEF TypeOK, InWheel, InSeq
  <2> QED
    BY <1>3, <2>2 DEF PlaceInv, BucketsIndexed
<1>5. CurvecInv'
  <2>1. \A i \in 1 .. Len(curvec) : curvec[i] \in Ids /\ curvec[i] # myid
    BY <1>2 DEF TypeOK, InWheel, InSeq
  <2> QED
    BY <1>1, <1>3, <2>1 DEF PlaceInv, CurvecInv, InSeq
<1>6. FreeInv'
  <2>1. /\ Len(freeids') = n - 1
        /\ \A i \in 1 .. n - 1 : freeids'[i] = freeids[i] /\ i \in 1 .. n /\ i # n
    <3>1. freeids \in Seq(Ids) /\ freeids # <<>>
      BY <1>1 DEF TypeOK
    <3>2. /\ Len(SubSeq(freeids, 1, n - 1)) = n - 1
          /\ \A i \in 1 .. n - 1 : SubSeq(freeids, 1, n - 1)[i] = freeids[i]
      BY <3>1, PopBackSeq
    <3> QED
      BY <1>1, <3>2
  <2>2. \A i \in 1 .. n - 1 : freeids[i] # myid
    BY <1>1, <2>1 DEF PlaceInv, FreeInv
  <2>3. \A id : Owned(id)' => Owned(id) \/ id = myid
    BY <1>1 DEF Owned, TypeOK
  <2>4. \A id : InWheel(id)' <=> InWheel(id)
    BY <1>1 DEF InWheel, InSeq
  <2>5. \A i, j \in 1 .. Len(freeids') : freeids'[i] = freeids'[j] => i = j
    BY <2>1 DEF PlaceInv, FreeInv
  <2>6. \A i \in 1 .. Len(freeids') : ~Owned(freeids[i])' /\ ~InWheel(freeids[i])'
    BY <2>1, <2>2, <2>3, <2>4 DEF PlaceInv, FreeInv
  <2> QED
    BY <2>5, <2>6 DEF FreeInv
<1>7. OpInv'
  <2>1. \A id : InWheel(id)' <=> InWheel(id)
    BY <1>1 DEF InWheel, InSeq
  <2>2. SUFFICES ASSUME NEW p \in Ops
                 PROVE  /\ tid'[p] # 0 => ioc'[tid'[p]] = p
                        /\ pc'[p] = "insert" =>
                              wheelpos'[tid'[p]] = WheelNum(p)' /\ ~InWheel(tid[p])'
    BY DEF OpInv
  <2>3. CASE p = o
    BY <1>1, <1>2, <2>1, <2>3 DEF TypeOK, WheelNum
  <2>4. CASE p # o
    <3>1. tid'[p] = tid[p] /\ pc'[p] = pc[p] /\ tid[p] # myid /\ tid[p] \in Ids \cup {0}
      BY <1>1, <1>2, <2>4 DEF TypeOK, Owned
    <3>2. tid[p] # 0 => ioc[tid[p]] = p
      BY DEF PlaceInv, OpInv
    <3>3. pc[p] = "insert" => wheelpos[tid[p]] = WheelNum(p) /\ ~InWheel(tid[p]) /\ tid[p] # 0
      BY DEF PlaceInv, OpInv, TidSet, HasTid
    <3> QED
      BY <1>1, <1>3, <2>1, <3>1, <3>2, <3>3 DEF WheelNum
  <2> QED
    BY <2>3, <2>4
<1> QED
  BY <1>4, <1>5, <1>6, <1>7 DEF PlaceInv

LEMMA PlaceInsert ==
    ASSUME TypeOK, TidSet, PlaceInv, NEW o \in Ops, MakeTimerInsert(o)
    PROVE  PlaceInv'
<1> DEFINE id   == tid[o]
           slot == WheelNum(o)
           n    == Len(lst[slot])
<1>1. /\ slot \in Slots /\ id \in Ids /\ id # 0 /\ lst[slot] \in Seq(Ids) /\ n \in Nat
      /\ ~SlotLocked(slot)
      /\ wheelpos[id] = slot /\ ~InWheel(id) /\ ioc[id] = o
      /\ UNCHANGED <<crs, freeids, wheelpos, ioc, cbpc, cur, curvec, tid>>
      /\ index_in_bucket' = [index_in_bucket EXCEPT ![id] = n]
      /\ lst' = [lst EXCEPT ![slot] = Append(@, id)]
      /\ pc' = [pc EXCEPT ![o] = "ready"]
      /\ aux' = [aux EXCEPT ![o] = 0]
  BY SlotOfOp DEF MakeTimerInsert, cbVars, TypeOK, TidSet, HasTid, PlaceInv, OpInv
<1>2. /\ \A s \in Slots : s # slot => lst'[s] = lst[s]
      /\ lst'[slot] = Append(lst[slot], id)
  BY <1>1 DEF TypeOK
<1>3. /\ Len(lst'[slot]) = n + 1 /\ lst'[slot][n + 1] = id
      /\ \A i \in 1 .. n : lst'[slot][i] = lst[slot][i]
  BY <1>1, <1>2
<1>4. \A x : \A s \in Slots : InSeq(x, lst'[s]) => InSeq(x, lst[s]) \/ (x = id /\ s = slot)
  <2>1. ASSUME NEW x, NEW s \in Slots, NEW i \in 1 .. Len(lst'[s]), lst'[s][i] = x
        PROVE  InSeq(x, lst[s]) \/ (x = id /\ s = slot)
    <3>1. CASE s # slot
      BY <1>2, <2>1, <3>1 DEF InSeq
    <3>2. CASE s = slot
      <4>1. i \in 1 .. n \/ i = n + 1
        BY <1>1, <1>3, <3>2
      <4> QED
        BY <1>3, <2>1, <3>2, <4>1 DEF InSeq
    <3> QED
      BY <3>1, <3>2
  <2> QED
    BY <2>1 DEF InSeq
<1>5. \A x : InWheel(x)' => InWheel(x) \/ x = id
  BY <1>1, <1>4 DEF InWheel
<1>6. BucketsIndexed'
  <2>1. SUFFICES ASSUME NEW s \in Slots, NEW i \in 1 .. Len(lst'[s])
                 PROVE  /\ wheelpos'[lst'[s][i]] = s
                        /\ index_in_bucket'[lst'[s][i]] = i - 1
    BY DEF BucketsIndexed
  <2>2. CASE s = slot /\ i = n + 1
    BY <1>1, <1>3, <2>2 DEF TypeOK
  <2>3. CASE ~(s = slot /\ i = n + 1)
    <3>1. i \in 1 .. Len(lst[s]) /\ lst'[s][i] = lst[s][i] /\ lst[s][i] \in Ids
      BY <1>1, <1>2, <1>3, <2>3, SMTT(30) DEF TypeOK
    <3>2. lst[s][i] # id
      BY <1>1, <3>1 DEF InWheel, InSeq
    <3>3. wheelpos[lst[s][i]] = s /\ index_in_bucket[lst[s][i]] = i - 1
      BY <3>1 DEF PlaceInv, BucketsIndexed
    <3>4. index_in_bucket'[lst[s][i]] = index_in_bucket[lst[s][i]]
      BY <1>1, <3>1, <3>2 DEF TypeOK
    <3> QED
      BY <1>1, <3>1, <3>3, <3>4
  <2> QED
    BY <2>2, <2>3
<1>7. CurvecInv'
  <2>1. curvec # <<>> => slot # cur
    BY <1>1 DEF PlaceInv, CurvecInv, SlotLocked
  <2>2. curvec # <<>> => lst'[cur] = lst[cur]
    BY <1>2, <2>1 DEF TypeOK
  <2>3. \A i \in 1 .. Len(curvec) : curvec # <<>>
    OBVIOUS
  <2>4. ASSUME NEW i \in 1 .. Len(curvec)
        PROVE  wheelpos[curvec[i]] = cur /\ ~InSeq(curvec[i], lst'[cur])
    BY <2>2, <2>3 DEF PlaceInv, CurvecInv
  <2> QED
    BY <1>1, <2>4 DEF PlaceInv, CurvecInv, InSeq
<1>8. FreeInv'
  <2>1. \A i \in 1 .. Len(freeids) : freeids[i] # id
    BY <1>1 DEF PlaceInv, FreeInv, Owned
  <2>2. \A x : Owned(x)' <=> Owned(x)
    BY <1>1 DEF Owned
  <2> QED
    BY <1>1, <1>5, <2>1, <2>2 DEF PlaceInv, FreeInv
<1>9. OpInv'
  <2>1. SUFFICES ASSUME NEW p \in Ops
                 PROVE  /\ tid[p] # 0 => ioc[tid[p]] = p
                        /\ pc'[p] = "insert" =>
                              wheelpos[tid[p]] = WheelNum(p)' /\ ~InWheel(tid[p])'
    BY <1>1 DEF OpInv
  <2>2. tid[p] # 0 => ioc[tid[p]] = p
    BY DEF PlaceInv, OpInv
  <2>3. ASSUME pc'[p] = "insert"
        PROVE  wheelpos[tid[p]] = WheelNum(p)' /\ ~InWheel(tid[p])'
    <3>1. p # o /\ pc[p] = "insert" /\ aux'[p] = aux[p]
      BY <1>1, <2>3 DEF TypeOK
    <3>2. tid[p] # 0 /\ tid[p] # id
      BY <1>1, <2>2, <3>1 DEF TidSet, HasTid
    <3>3. wheelpos[tid[p]] = WheelNum(p)' /\ ~InWheel(tid[p])
      BY <3>1 DEF PlaceInv, OpInv, WheelNum
    <3>4. \A x : x = tid[p] => ~InWheel(x)'
      BY <1>5, <3>2, <3>3
    <3> QED
      BY <1>1, <3>3, <3>4
  <2> QED
    BY <2>2, <2>3
<1> QED
  BY <1>6, <1>7, <1>8, <1>9 DEF PlaceInv

LEMMA PlaceUnlink ==
    ASSUME TypeOK, TidSet, PlaceInv, NEW o \in Ops, RemoveUnlink(o)
    PROVE  PlaceInv'
<1> DEFINE id  == tid[o]
           pos == wheelpos[id]
<1>1. /\ id \in Ids /\ id # 0 /\ pos \in Slots /\ ~SlotLocked(pos)
      /\ UNCHANGED <<crs, wheelpos, ioc, cbpc, cur, curvec>>
      /\ freeids' = <<id>> \o freeids
      /\ \A s \in Slots : s # pos => lst'[s] = lst[s]
      /\ tid' = [tid EXCEPT ![o] = 0]
      /\ pc' = [pc EXCEPT ![o] = "idle"]
      /\ aux' = [aux EXCEPT ![o] = 0]
  BY WheelAssumption DEF RemoveUnlink, cbVars, TypeOK, TidSet, HasTid, Ids
<1>2. /\ BucketsIndexed'
      /\ \A x, s : s \in Slots /\ InSeq(x, lst'[s]) => InSeq(x, lst[s])
      /\ ~InSeq(id, lst'[pos])
  BY <1>1, UnlinkEntries DEF PlaceInv
<1>3. ~InSeq(id, curvec)
  <2>1. SUFFICES ASSUME NEW i \in 1 .. Len(curvec), curvec[i] = id PROVE FALSE
    BY DEF InSeq
  <2>2. cbpc = "loop" /\ pos = cur
    BY <2>1 DEF PlaceInv, CurvecInv
  <2> QED
    BY <1>1, <2>2 DEF SlotLocked
<1>4. /\ \A x : InWheel(x)' => InWheel(x)
      /\ \A x : x = id => ~InWheel(x)'
  <2>1. \A x : InWheel(x)' => InWheel(x)
    BY <1>1, <1>2 DEF InWheel
  <2>2. ASSUME NEW s \in Slots, InSeq(id, lst'[s]) PROVE FALSE
    <3>1. InSeq(id, lst[s]) /\ s = pos
      BY <1>2, <2>2, LinkedPlace
    <3> QED
      BY <1>2, <2>2, <3>1
  <2>3. ASSUME NEW x, x = id PROVE ~InWheel(x)'
    BY <1>1, <1>3, <2>2, <2>3 DEF InWheel
  <2> QED
    BY <2>1, <2>3
<1>5. CurvecInv'
  <2>1. \A x : InSeq(x, lst'[cur]) => InSeq(x, lst[cur])
    BY <1>2 DEF TypeOK
  <2> QED
    BY <1>1, <2>1 DEF PlaceInv, CurvecInv
<1>6. FreeInv'
  <2> DEFINE n == Len(freeids)
  <2>1. /\ n \in Nat /\ Len(freeids') = n + 1 /\ freeids'[1] = id
        /\ \A i \in 1 .. n + 1 : i # 1 => i - 1 \in 1 .. n /\ freeids'[i] = freeids[i - 1]
    BY <1>1 DEF TypeOK
  <2>2. \A i \in 1 .. n : freeids[i] # id
    BY <1>1 DEF PlaceInv, FreeInv, Owned
  <2>3. \A x : Owned(x)' => Owned(x) \/ x = 0
    BY <1>1 DEF Owned, TypeOK
  <2>4. ASSUME NEW x, x = id PROVE ~Owned(x)'
    <3>1. \A p \in Ops : p # o => tid[p] # id
      BY <1>1 DEF PlaceInv, OpInv
    <3> QED
      BY <1>1, <2>4, <3>1 DEF Owned, TypeOK
  <2>5. \A i \in 1 .. n : freeids[i] # 0
    BY FreeIdsAreIds
  <2>6. ASSUME NEW i \in 1 .. n + 1, NEW j \in 1 .. n + 1, freeids'[i] = freeids'[j]
        PROVE  i = j
    <3>1. CASE i = 1 \/ j = 1
      BY <2>1, <2>2, <2>6, <3>1
    <3>2. CASE i # 1 /\ j # 1
      <4>1. i - 1 = j - 1
        BY <2>1, <2>6, <3>2 DEF PlaceInv, FreeInv
      <4> QED
        BY <2>1, <4>1
    <3> QED
      BY <3>1, <3>2
  <2>7. ASSUME NEW i \in 1 .. n + 1 PROVE ~Owned(freeids[i])' /\ ~InWheel(freeids[i])'
    <3>1. CASE i = 1
      BY <1>4, <2>1, <2>4, <3>1
    <3>2. CASE i # 1
      BY <1>4, <2>1, <2>3, <2>5, <3>2 DEF PlaceInv, FreeInv
    <3> QED
      BY <3>1, <3>2
  <2> QED
    BY <2>1, <2>6, <2>7 DEF FreeInv
<1>7. OpInv'
  <2>1. SUFFICES ASSUME NEW p \in Ops
                 PROVE  /\ tid'[p] # 0 => ioc[tid'[p]] = p
                        /\ pc'[p] = "insert" =>
                              wheelpos[tid'[p]] = WheelNum(p)' /\ ~InWheel(tid[p])'
    BY <1>1 DEF OpInv
  <2>2. CASE p = o
    BY <1>1, <2>2 DEF TypeOK
  <2>3. CASE p # o
    BY <1>1, <1>4, <2>3 DEF PlaceInv, OpInv, WheelNum, TypeOK
  <2> QED
    BY <2>2, <2>3
<1> QED
  BY <1>2, <1>5, <1>6, <1>7 DEF PlaceInv

\* The callback: the slot it empties, its local vector, and what it puts back.
LEMMA PlaceCallback ==
    ASSUME TypeOK, PlaceInv, CbAdvance \/ CbDone \/ CbDrop \/ CbFire
    PROVE  PlaceInv'
<1>1. /\ UNCHANGED <<lst, freeids, wheelpos, index_in_bucket, ioc, pc, aux, tid>>
      /\ \/ CbAdvance /\ curvec' = <<>>
         \/ CbDone /\ curvec' = <<>>
         \/ /\ UNCHANGED <<crs, cbpc, cur>> /\ cbpc = "loop"
            /\ curvec # <<>> /\ curvec' = Tail(curvec)
  BY DEF CbAdvance, CbDone, CbDrop, CbFire, wheelVars, timerVars, opVars, PlaceInv, CurvecInv
<1>2. curvec' # <<>> => \A i \in 1 .. Len(curvec') :
          i + 1 \in 1 .. Len(curvec) /\ curvec'[i] = curvec[i + 1]
  <2>1. curvec' # <<>> => curvec # <<>> /\ curvec' = Tail(curvec)
    BY <1>1
  <2>2. curvec \in Seq(Ids)
    BY DEF TypeOK
  <2> QED
    BY <2>1, <2>2
<1>3. \A x : InSeq(x, curvec') => InSeq(x, curvec)
  BY <1>1, <1>2 DEF InSeq
<1>4. BucketsIndexed'
  BY <1>1 DEF PlaceInv, BucketsIndexed
<1>5. CurvecInv'
  <2>1. CASE curvec' = <<>>
    <3>1. cbpc' = "lock" => crs' = IF cur' = WHLCST - 1 THEN 0 ELSE cur' + 1
      BY <1>1, <2>1 DEF CbAdvance, CbDone, PlaceInv, CurvecInv
    <3> QED
      BY <2>1, <3>1 DEF CurvecInv
  <2>2. CASE curvec' # <<>>
    <3>1. UNCHANGED <<crs, cbpc, cur, lst, wheelpos>> /\ cbpc = "loop"
      BY <1>1, <2>2
    <3>2. ASSUME NEW i \in 1 .. Len(curvec')
          PROVE  wheelpos[curvec'[i]] = cur /\ ~InSeq(curvec'[i], lst[cur])
      BY <1>2, <2>2 DEF PlaceInv, CurvecInv
    <3>3. ASSUME NEW i \in 1 .. Len(curvec'), NEW j \in 1 .. Len(curvec'),
                 curvec'[i] = curvec'[j]
          PROVE  i = j
      <4>1. i + 1 = j + 1
        BY <1>2, <2>2, <3>3 DEF PlaceInv, CurvecInv
      <4> QED
        BY <4>1
    <3> QED
      BY <3>1, <3>2, <3>3 DEF CurvecInv, InSeq
  <2> QED
    BY <2>1, <2>2
<1>6. \A x : InWheel(x)' => InWheel(x)
  BY <1>1, <1>3 DEF InWheel, InSeq
<1>7. FreeInv'
  <2>1. \A x : Owned(x)' => Owned(x)
    BY <1>1 DEF Owned
  <2> QED
    BY <1>1, <1>6, <2>1 DEF PlaceInv, FreeInv
<1>8. OpInv'
  BY <1>1, <1>6 DEF PlaceInv, OpInv, WheelNum
<1> QED
  BY <1>4, <1>5, <1>7, <1>8 DEF PlaceInv

LEMMA PlaceSwap ==
    ASSUME TypeOK, PlaceInv, CbSwap
    PROVE  PlaceInv'
<1>1. /\ UNCHANGED <<crs, freeids, wheelpos, index_in_bucket, ioc, cur, pc, aux, tid>>
      /\ cbpc = "lock" /\ cbpc' = "loop" /\ curvec = <<>> /\ curvec' = lst[cur]
      /\ cur \in Slots /\ lst'[cur] = <<>>
      /\ \A s \in Slots : s # cur => lst'[s] = lst[s]
  BY DEF CbSwap, timerVars, opVars, PlaceInv, CurvecInv, TypeOK
<1>2. \A x : \A s \in Slots : InSeq(x, lst'[s]) => InSeq(x, lst[s])
  BY <1>1 DEF InSeq
<1>3. BucketsIndexed'
  <2>1. SUFFICES ASSUME NEW s \in Slots, NEW i \in 1 .. Len(lst'[s])
                 PROVE  /\ wheelpos[lst'[s][i]] = s
                        /\ index_in_bucket[lst'[s][i]] = i - 1
    BY <1>1 DEF BucketsIndexed
  <2>2. lst'[s] = lst[s]
    BY <1>1, <2>1
  <2> QED
    BY <2>2 DEF PlaceInv, BucketsIndexed
<1>4. CurvecInv'
  <2>1. \A i \in 1 .. Len(lst[cur]) :
           wheelpos[lst[cur][i]] = cur /\ index_in_bucket[lst[cur][i]] = i - 1
    BY <1>1 DEF PlaceInv, BucketsIndexed
  <2>2. ASSUME NEW i \in 1 .. Len(lst[cur]), NEW j \in 1 .. Len(lst[cur]),
               lst[cur][i] = lst[cur][j]
        PROVE  i = j
    <3>1. i - 1 = j - 1
      BY <2>1, <2>2
    <3> QED
      BY <3>1
  <2> QED
    BY <1>1, <2>1, <2>2 DEF CurvecInv, InSeq
<1>5. \A x : InWheel(x)' => InWheel(x)
  BY <1>1, <1>2 DEF InWheel
<1>6. FreeInv'
  <2>1. \A x : Owned(x)' => Owned(x)
    BY <1>1 DEF Owned
  <2> QED
    BY <1>1, <1>5, <2>1 DEF PlaceInv, FreeInv
<1>7. OpInv'
  BY <1>1, <1>5 DEF PlaceInv, OpInv, WheelNum
<1> QED
  BY <1>3, <1>4, <1>6, <1>7 DEF PlaceInv

LEMMA PlaceRequeue ==
    ASSUME TypeOK, PlaceInv, CbRequeue
    PROVE  PlaceInv'
<1> DEFINE dw == Head(curvec)
           n  == Len(lst[cur])
<1>1. /\ UNCHANGED <<crs, freeids, wheelpos, ioc, cbpc, cur, pc, aux, tid>>
      /\ cbpc = "loop" /\ curvec # <<>> /\ curvec' = Tail(curvec)
      /\ dw \in Ids /\ dw = curvec[1] /\ cur \in Slots /\ n \in Nat
      /\ index_in_bucket' = [index_in_bucket EXCEPT ![dw] = n]
      /\ lst'[cur] = Append(lst[cur], dw)
      /\ \A s \in Slots : s # cur => lst'[s] = lst[s]
  BY DEF CbRequeue, opVars, TypeOK
<1>2. /\ wheelpos[dw] = cur /\ ~InSeq(dw, lst[cur])
      /\ \A i \in 1 .. Len(curvec) : curvec[i] = dw => i = 1
  BY <1>1 DEF PlaceInv, CurvecInv, TypeOK
<1>3. /\ Len(lst'[cur]) = n + 1 /\ lst'[cur][n + 1] = dw
      /\ \A i \in 1 .. n : lst'[cur][i] = lst[cur][i]
  BY <1>1 DEF TypeOK
<1>4. \A i \in 1 .. Len(curvec') :
          i + 1 \in 1 .. Len(curvec) /\ curvec'[i] = curvec[i + 1] /\ curvec'[i] # dw
  BY <1>1, <1>2, SMTT(30) DEF TypeOK
<1>5. \A x : InSeq(x, lst'[cur]) => InSeq(x, lst[cur]) \/ x = dw
  <2>1. ASSUME NEW x, NEW i \in 1 .. Len(lst'[cur]), lst'[cur][i] = x
        PROVE  InSeq(x, lst[cur]) \/ x = dw
    <3>1. i \in 1 .. n \/ i = n + 1
      BY <1>1, <1>3
    <3> QED
      BY <1>3, <2>1, <3>1 DEF InSeq
  <2> QED
    BY <2>1 DEF InSeq
<1>6. BucketsIndexed'
  <2>1. SUFFICES ASSUME NEW s \in Slots, NEW i \in 1 .. Len(lst'[s])
                 PROVE  /\ wheelpos[lst'[s][i]] = s
                        /\ index_in_bucket'[lst'[s][i]] = i - 1
    BY <1>1 DEF BucketsIndexed
  <2>2. CASE s = cur /\ i = n + 1
    BY <1>1, <1>2, <1>3, <2>2 DEF TypeOK
  <2>3. CASE ~(s = cur /\ i = n + 1)
    <3>1. i \in 1 .. Len(lst[s]) /\ lst'[s][i] = lst[s][i] /\ lst[s][i] \in Ids
      <4>1. lst[s] \in Seq(Ids)
        BY DEF TypeOK
      <4>2. CASE s # cur
        BY <1>1, <4>1, <4>2
      <4>3. CASE s = cur
        <5>1. i \in 1 .. n
          BY <1>1, <1>3, <2>3, <4>3
        <5> QED
          BY <1>3, <4>1, <4>3, <5>1
      <4> QED
        BY <4>2, <4>3
    <3>2. wheelpos[lst[s][i]] = s /\ index_in_bucket[lst[s][i]] = i - 1
      BY <3>1 DEF PlaceInv, BucketsIndexed
    <3>3. lst[s][i] # dw
      BY <1>2, <3>1, <3>2 DEF InSeq
    <3>4. index_in_bucket'[lst[s][i]] = index_in_bucket[lst[s][i]]
      BY <1>1, <3>1, <3>3 DEF TypeOK
    <3> QED
      BY <3>1, <3>2, <3>4
  <2> QED
    BY <2>2, <2>3
<1>7. CurvecInv'
  <2>1. ASSUME NEW i \in 1 .. Len(curvec')
        PROVE  wheelpos[curvec'[i]] = cur /\ ~InSeq(curvec'[i], lst'[cur])
    <3>1. wheelpos[curvec[i + 1]] = cur /\ ~InSeq(curvec[i + 1], lst[cur])
      BY <1>4 DEF PlaceInv, CurvecInv
    <3> QED
      BY <1>4, <1>5, <3>1
  <2>2. ASSUME NEW i \in 1 .. Len(curvec'), NEW j \in 1 .. Len(curvec'),
               curvec'[i] = curvec'[j]
        PROVE  i = j
    <3>1. i + 1 = j + 1
      BY <1>4, <2>2 DEF PlaceInv, CurvecInv
    <3> QED
      BY <3>1
  <2> QED
    BY <1>1, <2>1, <2>2 DEF CurvecInv, InSeq
<1>8. \A x : InWheel(x)' => InWheel(x)
  <2>1. InSeq(dw, curvec)
    BY <1>1 DEF InSeq, TypeOK
  <2>2. \A x : InSeq(x, curvec') => InSeq(x, curvec)
    BY <1>4 DEF InSeq
  <2>3. \A x : (\E s \in Slots : InSeq(x, lst'[s])) =>
                  (\E s \in Slots : InSeq(x, lst[s])) \/ x = dw
    BY <1>1, <1>5
  <2> QED
    BY <2>1, <2>2, <2>3 DEF InWheel
<1>9. FreeInv'
  <2>1. \A x : Owned(x)' => Owned(x)
    BY <1>1 DEF Owned
  <2> QED
    BY <1>1, <1>8, <2>1 DEF PlaceInv, FreeInv
<1>10. OpInv'
  BY <1>1, <1>8 DEF PlaceInv, OpInv, WheelNum
<1> QED
  BY <1>6, <1>7, <1>9, <1>10 DEF PlaceInv

LEMMA PlaceStep == TypeOK /\ TidSet /\ PlaceInv /\ [Next]_vars => PlaceInv'
<1> SUFFICES ASSUME TypeOK, TidSet, PlaceInv, [Next]_vars PROVE PlaceInv'
  OBVIOUS
<1>1. ASSUME NEW o \in Ops, MakeTimer(o) \/ Io(o) \/ Touch(o) \/ RemoveTimerId(o) \/ Recycle(o)
      PROVE  PlaceInv'
  BY <1>1, PlaceQuiet, PlaceRelease, PlaceAlloc, PlaceInsert, PlaceUnlink
     DEF MakeTimer, Io, RemoveTimerId
<1>2. CASE Callback
  BY <1>2, PlaceCallback, PlaceSwap, PlaceRequeue DEF Callback
<1>3. CASE UNCHANGED vars
  <2>1. UNCHANGED <<crs, lst, freeids, wheelpos, index_in_bucket, ioc, cbpc, cur, curvec,
                    pc, aux, tid>>
    BY <1>3 DEF vars, wheelVars, timerVars, cbVars, opVars
  <2> QED
    BY <2>1 DEF PlaceInv, BucketsIndexed, CurvecInv, FreeInv, OpInv, Owned, InWheel, InSeq, WheelNum
<1> QED
  BY <1>1, <1>2, <1>3 DEF Next

\* Every variable keeps its type.
THEOREM TypeCorrect == Spec => []TypeOK
<1>1. TypeOK /\ TidSet /\ [Next]_vars => (TypeOK /\ TidSet)'
  BY TypeStep
<1> QED
  BY TypeInit, <1>1, PTL DEF Spec

LEMMA Placed == Spec => [](TypeOK /\ TidSet /\ PlaceInv)
<1>1. Init => TypeOK /\ TidSet /\ PlaceInv
  BY TypeInit, PlaceInit
<1>2. TypeOK /\ TidSet /\ PlaceInv /\ [Next]_vars => (TypeOK /\ TidSet /\ PlaceInv)'
  BY TypeStep, PlaceStep
<1> QED
  BY <1>1, <1>2, PTL DEF Spec

\* For every size of the wheel, the pool and the number of operations: an entry
\* of a slot is where wheelpos and index_in_bucket say (removetimerid).
THEOREM BucketsStayIndexed == Spec => []BucketsIndexed
<1>1. PlaceInv => BucketsIndexed
  BY DEF PlaceInv
<1> QED
  BY Placed, <1>1, PTL

\* No timer id is ever in two hands (freeids, IoCtx.tid, the slots).
THEOREM IdsHaveOneOwner == Spec => []OneOwner
<1>1. TypeOK /\ PlaceInv => OneOwner
  BY DEF PlaceInv, FreeInv, OpInv, OneOwner, TypeOK
<1> QED
  BY Placed, <1>1, PTL

-----------------------------------------------------------------------------
(* When a timer fires.  The ticks an operation has left never exceed the ticks *)
(* until the callback takes its slot, so that nothing in the callback's local  *)
(* vector has any left.                                                        *)

ScheduleInv ==
    \A o \in Ops :
        /\ pc[o] = "alloc" => left[o] <= Dist(WheelNum(o))
        /\ tid[o] # 0 => left[o] <= Dist(wheelpos[tid[o]])
        /\ tid[o] # 0 /\ InSeq(tid[o], curvec) => left[o] = 0
        /\ cancelled[o] # "no" => pc[o] \in {"posted", "done"}
        /\ cancelled[o] = "own" => left[o] = 0

LEMMA DistType ==
    ASSUME TypeOK, NEW s \in Slots
    PROVE  Dist(s) \in Nat /\ (cbpc # "lock" => Dist(s) >= 1)
BY WheelAssumption DEF Dist, Slots, TypeOK

\* A tick brings every slot one tick nearer.
LEMMA DistAdvance ==
    ASSUME TypeOK, CbAdvance
    PROVE  \A s \in Slots : Dist(s)' = Dist(s) - 1
<1> TAKE s \in Slots
<1>1. /\ crs \in Nat /\ crs < WHLCST /\ WHLCST \in Nat /\ s \in Nat /\ s < WHLCST
  BY WheelAssumption DEF TypeOK, Slots
<1>2. /\ cbpc = "idle" /\ cbpc' = "lock" /\ cur' = crs
      /\ crs' = IF crs = WHLCST - 1 THEN 0 ELSE crs + 1
  BY DEF CbAdvance
<1>3. Dist(s) = IF s >= crs THEN s - crs + 1 ELSE s + WHLCST - crs + 1
  BY <1>2 DEF Dist
<1>4. Dist(s)' = IF s = crs THEN 0
                 ELSE IF s >= crs' THEN s - crs' + 1 ELSE s + WHLCST - crs' + 1
  BY <1>2 DEF Dist
<1>5. CASE crs = WHLCST - 1
  BY <1>1, <1>2, <1>3, <1>4, <1>5
<1>6. CASE crs # WHLCST - 1
  BY <1>1, <1>2, <1>3, <1>4, <1>6
<1> QED
  BY <1>5, <1>6

\* Taking a slot puts that slot a whole turn away and leaves the others.
LEMMA DistSwap ==
    ASSUME TypeOK, CbSwap
    PROVE  /\ Dist(cur) = 0
           /\ \A s \in Slots : Dist(s)' >= Dist(s)
BY WheelAssumption DEF Dist, Slots, TypeOK, CbSwap

\* A fresh timer's slot is Timeout + 1 ticks away, whether or not the callback
\* is between its tick and its slot: this needs Timeout <= WHLCST - 2.
LEMMA DistFresh ==
    ASSUME TypeOK, PlaceInv
    PROVE  Dist((crs + Timeout) % WHLCST) = Timeout + 1
<1> DEFINE s == (crs + Timeout) % WHLCST
<1>1. /\ crs \in Nat /\ crs < WHLCST /\ WHLCST \in Nat /\ Timeout \in Nat
      /\ Timeout >= 1 /\ Timeout <= WHLCST - 2 /\ cur \in Nat /\ cur < WHLCST
  BY WheelAssumption DEF TypeOK, Slots
<1>2. s = IF crs + Timeout < WHLCST THEN crs + Timeout ELSE crs + Timeout - WHLCST
  BY SlotOfSum DEF TypeOK
<1>3. cbpc = "lock" => crs = IF cur = WHLCST - 1 THEN 0 ELSE cur + 1
  BY DEF PlaceInv, CurvecInv
<1>4. cbpc = "lock" => s # cur
  BY <1>1, <1>2, <1>3
<1>5. (IF s >= crs THEN s - crs + 1 ELSE s + WHLCST - crs + 1) = Timeout + 1
  BY <1>1, <1>2
<1> QED
  BY <1>4, <1>5 DEF Dist

LEMMA ScheduleInit == Init => ScheduleInv
<1> SUFFICES ASSUME Init PROVE ScheduleInv
  OBVIOUS
<1> QED
  BY DEF Init, ScheduleInv

\* Steps of the workers and of the I/O.
LEMMA ScheduleWorkers ==
    ASSUME TypeOK, TidSet, PlaceInv, ScheduleInv, NEW o \in Ops,
           MakeTimer(o) \/ Io(o) \/ Touch(o) \/ RemoveTimerId(o) \/ Recycle(o)
    PROVE  ScheduleInv'
<1>1. UNCHANGED <<crs, cbpc, cur, curvec>>
  BY DEF MakeTimer, Io, RemoveTimerId, MakeTimerRead, MakeTimerFull, MakeTimerAlloc,
         MakeTimerInsert, PostOk, PostFail, Complete, Abort, Touch, RemoveRead, RemoveMark,
         RemoveUnlink, Recycle, wheelVars, cbVars
<1>2. \A s : Dist(s)' = Dist(s)
  BY <1>1 DEF Dist
<1>3. \A p \in Ops : p # o => /\ UNCHANGED <<pc[p], aux[p], tid[p], left[p], cancelled[p]>>
                              /\ tid[p] # 0 => wheelpos'[tid[p]] = wheelpos[tid[p]]
  <2>1. \A p \in Ops : p # o => UNCHANGED <<pc[p], aux[p], tid[p], left[p], cancelled[p]>>
    BY DEF TypeOK, MakeTimer, Io, RemoveTimerId, MakeTimerRead, MakeTimerFull, MakeTimerAlloc,
           MakeTimerInsert, PostOk, PostFail, Complete, Abort, Touch, RemoveRead, RemoveMark,
           RemoveUnlink, Recycle
  <2>2. CASE MakeTimerAlloc(o)
    <3>1. \A p \in Ops : tid[p] # freeids[Len(freeids)]
      <4>1. Len(freeids) \in 1 .. Len(freeids)
        BY <2>2 DEF MakeTimerAlloc, TypeOK
      <4> QED
        BY <4>1 DEF PlaceInv, FreeInv, Owned
    <3> QED
      BY <2>1, <2>2, <3>1 DEF MakeTimerAlloc, TypeOK
  <2>3. CASE ~MakeTimerAlloc(o)
    <3>1. wheelpos' = wheelpos
      BY <2>3 DEF MakeTimer, Io, RemoveTimerId, MakeTimerRead, MakeTimerFull,
           MakeTimerInsert, PostOk, PostFail, Complete, Abort, Touch, RemoveRead, RemoveMark,
           RemoveUnlink, Recycle, timerVars
    <3> QED
      BY <2>1, <3>1
  <2> QED
    BY <2>2, <2>3
<1>4. SUFFICES ASSUME NEW p \in Ops
      PROVE  /\ pc'[p] = "alloc" => left'[p] <= Dist(WheelNum(p)')
             /\ tid'[p] # 0 => left'[p] <= Dist(wheelpos'[tid'[p]])
             /\ tid'[p] # 0 /\ InSeq(tid'[p], curvec) => left'[p] = 0
             /\ cancelled'[p] # "no" => pc'[p] \in {"posted", "done"}
             /\ cancelled'[p] = "own" => left'[p] = 0
  BY <1>1, <1>2 DEF ScheduleInv, InSeq, Dist
<1>5. CASE p # o
  BY <1>3, <1>5 DEF ScheduleInv, WheelNum
<1>6. CASE p = o
  <2>1. CASE MakeTimerRead(o)
    <3>1. WheelNum(p)' = (crs + Timeout) % WHLCST /\ left'[p] = Timeout + 1
      BY <1>6, <2>1 DEF MakeTimerRead, WheelNum, TypeOK
    <3>2. tid'[p] = 0 /\ cancelled'[p] = "no"
      BY <1>6, <2>1 DEF MakeTimerRead, TidSet, ScheduleInv, TypeOK
    <3>3. left'[p] <= Dist(WheelNum(p)')
      BY <3>1, DistFresh, WheelAssumption
    <3> QED
      BY <3>2, <3>3
  <2>2. CASE MakeTimerAlloc(o)
    <3> DEFINE myid == freeids[Len(freeids)]
    <3>1. /\ tid'[p] = myid /\ myid \in Ids /\ wheelpos'[myid] = WheelNum(p)
          /\ left'[p] = left[p] /\ pc[p] = "alloc" /\ pc'[p] = "insert"
          /\ cancelled'[p] = cancelled[p]
      BY <1>6, <2>2 DEF MakeTimerAlloc, TypeOK
    <3>2. ~InSeq(myid, curvec)
      BY <2>2 DEF MakeTimerAlloc, PlaceInv, FreeInv, InWheel, TypeOK
    <3> QED
      BY <3>1, <3>2 DEF ScheduleInv
  <2>3. CASE MakeTimerFull(o)
    BY <1>6, <2>3 DEF MakeTimerFull, ScheduleInv, TypeOK, TidSet
  <2>4. CASE MakeTimerInsert(o)
    <3>1. UNCHANGED <<tid[p], left[p], cancelled[p], wheelpos>> /\ pc[p] = "insert" /\ pc'[p] = "ready"
      BY <1>6, <2>4 DEF MakeTimerInsert, TypeOK
    <3> QED
      BY <3>1 DEF ScheduleInv
  <2>5. CASE Io(o)
    <3>1. CASE PostFail(o)
      <4>1. /\ tid'[p] = 0 \/ (tid'[p] = tid[p] /\ left'[p] = left[p])
            /\ wheelpos' = wheelpos /\ pc[p] = "ready" /\ pc'[p] # "alloc"
            /\ cancelled'[p] = cancelled[p]
        BY <1>6, <3>1 DEF PostFail, TypeOK, timerVars
      <4> QED
        BY <4>1 DEF ScheduleInv
    <3>2. CASE PostOk(o) \/ Complete(o) \/ Abort(o)
      <4>1. /\ UNCHANGED <<tid[p], left[p], cancelled[p], wheelpos>>
            /\ pc'[p] \in {"posted", "done"}
        BY <1>6, <3>2 DEF PostOk, Complete, Abort, TypeOK, timerVars
      <4> QED
        BY <4>1 DEF ScheduleInv
    <3> QED
      BY <2>5, <3>1, <3>2 DEF Io
  <2>6. CASE Touch(o)
    <3>1. /\ UNCHANGED <<tid[p], wheelpos>> /\ left'[p] = 0 /\ cancelled'[p] = "no"
          /\ pc'[p] # "alloc"
      BY <1>6, <2>6 DEF Touch, TypeOK
    <3>2. tid[p] # 0 => wheelpos[tid[p]] \in Slots
      BY DEF TypeOK
    <3> QED
      BY <3>1, <3>2, DistType
  <2>7. CASE RemoveRead(o) \/ Recycle(o)
    <3>1. /\ UNCHANGED <<tid[p], left[p], cancelled[p], wheelpos>>
          /\ pc[p] \in {"touched", "unpost", "idle"} /\ pc'[p] # "alloc"
      BY <1>6, <2>7 DEF RemoveRead, Recycle, TypeOK, timerVars
    <3> QED
      BY <3>1 DEF ScheduleInv
  <2>8. CASE RemoveMark(o) \/ RemoveUnlink(o)
    <3>1. /\ tid'[p] = 0 /\ cancelled'[p] = cancelled[p] /\ pc[p] = "remove"
          /\ pc'[p] = "idle"
      BY <1>6, <2>8 DEF RemoveMark, RemoveUnlink, TypeOK
    <3> QED
      BY <3>1 DEF ScheduleInv
  <2> QED
    BY <2>1, <2>2, <2>3, <2>4, <2>5, <2>6, <2>7, <2>8 DEF MakeTimer, RemoveTimerId
<1> QED
  BY <1>5, <1>6

LEMMA ScheduleCallback ==
    ASSUME TypeOK, PlaceInv, ScheduleInv, Callback
    PROVE  ScheduleInv'
<1>1. UNCHANGED <<wheelpos, pc, aux, tid>>
  BY DEF Callback, CbAdvance, CbSwap, CbDrop, CbFire, CbRequeue, CbDone, timerVars, opVars
<1>2. \A p \in Ops : WheelNum(p) \in Slots /\ (tid[p] # 0 => wheelpos[tid[p]] \in Slots)
  BY SlotOfOp DEF TypeOK
<1>3. SUFFICES ASSUME NEW p \in Ops
      PROVE  /\ pc[p] = "alloc" => left'[p] <= Dist(WheelNum(p))'
             /\ tid[p] # 0 => left'[p] <= Dist(wheelpos[tid[p]])'
             /\ tid[p] # 0 /\ InSeq(tid[p], curvec') => left'[p] = 0
             /\ cancelled'[p] # "no" => pc[p] \in {"posted", "done"}
             /\ cancelled'[p] = "own" => left'[p] = 0
  BY <1>1 DEF ScheduleInv, InSeq
<1>4. \A s, t : s = WheelNum(p) /\ t = wheelpos[tid[p]] =>
          /\ (Dist(WheelNum(p))' = Dist(s)')
          /\ (Dist(wheelpos[tid[p]])' = Dist(t)')
  BY <1>1 DEF WheelNum, Dist
<1>5. CASE CbAdvance
  <2>1. /\ left'[p] = IF left[p] > 0 THEN left[p] - 1 ELSE 0
        /\ left[p] \in Nat /\ cancelled' = cancelled /\ curvec' = <<>>
    BY <1>5, WheelAssumption DEF CbAdvance, PlaceInv, CurvecInv, TypeOK
  <2>2. \A s \in Slots : left[p] <= Dist(s) => left'[p] <= Dist(s)'
    BY <1>5, <2>1, DistAdvance, DistType DEF CbAdvance
  <2>3. \A x : ~InSeq(x, curvec')
    BY <2>1 DEF InSeq
  <2> QED
    BY <1>2, <1>4, <2>1, <2>2, <2>3 DEF ScheduleInv
<1>6. CASE CbSwap
  <2>1. /\ left' = left /\ cancelled' = cancelled /\ curvec' = lst[cur] /\ cur \in Slots
        /\ left[p] \in Nat
    BY <1>6, WheelAssumption DEF CbSwap, opVars, TypeOK
  <2>2. \A s \in Slots : left[p] <= Dist(s) => left'[p] <= Dist(s)'
    <3> SUFFICES ASSUME NEW s \in Slots, left[p] <= Dist(s) PROVE left'[p] <= Dist(s)'
      OBVIOUS
    <3>1. Dist(s)' >= Dist(s) /\ Dist(s) \in Nat
      BY <1>6, DistSwap, DistType
    <3>2. Dist(s)' \in Int
      BY <1>6, WheelAssumption DEF CbSwap, Dist, TypeOK, Slots
    <3> QED
      BY <2>1, <3>1, <3>2
  <2>3. tid[p] # 0 /\ InSeq(tid[p], lst[cur]) => left[p] = 0
    <3> SUFFICES ASSUME tid[p] # 0, InSeq(tid[p], lst[cur]) PROVE left[p] = 0
      OBVIOUS
    <3>1. wheelpos[tid[p]] = cur
      BY <2>1, LinkedPlace
    <3>2. left[p] <= 0
      BY <1>6, <3>1, DistSwap DEF ScheduleInv
    <3> QED
      BY <2>1, <3>2
  <2> QED
    BY <1>2, <1>4, <2>1, <2>2, <2>3 DEF ScheduleInv
<1>7. CASE CbDrop \/ CbRequeue
  <2>1. /\ UNCHANGED <<left, cancelled, crs, cbpc, cur>>
        /\ curvec # <<>> /\ curvec' = Tail(curvec)
    BY <1>7 DEF CbDrop, CbRequeue, opVars, wheelVars
  <2>2. \A s : Dist(s)' = Dist(s)
    BY <2>1 DEF Dist
  <2>3. \A x : InSeq(x, curvec') => InSeq(x, curvec)
    BY <2>1, TailInSeq DEF TypeOK
  <2> QED
    BY <1>2, <1>4, <2>1, <2>2, <2>3 DEF ScheduleInv
<1>8. CASE CbDone
  <2>1. UNCHANGED <<left, cancelled, crs, curvec>> /\ cbpc = "loop" /\ cbpc' = "idle"
    BY <1>8 DEF CbDone, opVars, wheelVars
  <2>2. \A s : Dist(s)' = Dist(s)
    BY <2>1 DEF Dist
  <2> QED
    BY <1>2, <1>4, <2>1, <2>2 DEF ScheduleInv
<1>9. CASE CbFire
  <2> DEFINE id == Head(curvec)
  <2>1. /\ UNCHANGED <<left, crs, cbpc, cur>> /\ curvec # <<>> /\ curvec' = Tail(curvec)
        /\ id \in Ids /\ InSeq(id, curvec)
    BY <1>9, HeadInSeq DEF CbFire, opVars, wheelVars, TypeOK
  <2>2. \A s : Dist(s)' = Dist(s)
    BY <2>1 DEF Dist
  <2>3. \A x : InSeq(x, curvec') => InSeq(x, curvec)
    BY <2>1, TailInSeq DEF TypeOK
  <2>4. \/ cancelled'[p] = cancelled[p]
        \/ cancelled'[p] = "own" /\ pc[p] = "posted" /\ tid[p] = id
        \/ cancelled'[p] = "stray" /\ pc[p] = "posted"
    BY <1>9 DEF CbFire, CancelIoEx, TypeOK
  <2>5. cancelled'[p] # "no" => pc[p] \in {"posted", "done"}
    BY <2>4 DEF ScheduleInv
  <2>6. cancelled'[p] = "own" => left[p] = 0
    BY <2>1, <2>4, WheelAssumption DEF ScheduleInv, Ids
  <2> QED
    BY <1>2, <1>4, <2>1, <2>2, <2>3, <2>5, <2>6 DEF ScheduleInv
<1> QED
  BY <1>5, <1>6, <1>7, <1>8, <1>9 DEF Callback

IInv == TypeOK /\ TidSet /\ PlaceInv /\ ScheduleInv

LEMMA Inductive == Spec => []IInv
<1>1. Init => IInv
  BY TypeInit, PlaceInit, ScheduleInit DEF IInv
<1>2. IInv /\ [Next]_vars => IInv'
  <2> SUFFICES ASSUME IInv, [Next]_vars PROVE IInv'
    OBVIOUS
  <2> USE DEF IInv
  <2>1. TypeOK' /\ TidSet' /\ PlaceInv'
    BY TypeStep, PlaceStep
  <2>2. ScheduleInv'
    <3>1. CASE UNCHANGED vars
      <4>1. UNCHANGED <<crs, cbpc, cur, curvec, wheelpos, pc, aux, tid, left, cancelled>>
        BY <3>1 DEF vars, wheelVars, timerVars, cbVars, opVars
      <4> QED
        BY <4>1 DEF ScheduleInv, Dist, WheelNum, InSeq
    <3> QED
      BY <3>1, ScheduleWorkers, ScheduleCallback DEF Next
  <2> QED
    BY <2>1, <2>2
<1> QED
  BY <1>1, <1>2, PTL DEF Spec

\* The wheel never fires a timer before its Timeout is over: whatever the sizes,
\* and however maketimer's three sections interleave with the ticks.
THEOREM TimeoutsAreNeverEarly == Spec => []NeverEarly
<1>1. IInv => NeverEarly
  BY DEF IInv, ScheduleInv, NeverEarly
<1> QED
  BY Inductive, <1>1, PTL

-----------------------------------------------------------------------------
(* Whom a timer can hit.  An entry that no worker has touched is carried by the *)
(* operation its record names, or was orphaned by a failed post.               *)

LinkInv ==
    /\ \A o \in Ops : pc[o] \in {"insert", "ready", "posted", "done"} /\ tid[o] # 0
                      => ~hasTouchedByWorker[tid[o]]
    /\ \A id \in Ids : InWheel(id) /\ ~hasTouchedByWorker[id]
                       => id \in orphaned \/ (ioc[id] \in Ops /\ tid[ioc[id]] = id)
    /\ StrayOnlyAfterFailedPost

\* Only maketimer puts an id into the wheel, its own; and a removal leaves its
\* own id outside.
LEMMA WheelStep ==
    ASSUME TypeOK, TidSet, PlaceInv, [Next]_vars
    PROVE  /\ \A x : InWheel(x)' =>
                 InWheel(x) \/ \E o \in Ops : MakeTimerInsert(o) /\ x = tid[o]
           /\ \A o \in Ops : RemoveUnlink(o) => \A x : x = tid[o] => ~InWheel(x)'
<1>1. CASE \E o \in Ops : MakeTimerInsert(o)
  <2> PICK o \in Ops : MakeTimerInsert(o)
    BY <1>1
  <2>1. /\ WheelNum(o) \in Slots /\ lst[WheelNum(o)] \in Seq(Ids) /\ tid[o] \in Ids
        /\ lst'[WheelNum(o)] = Append(lst[WheelNum(o)], tid[o])
        /\ \A s \in Slots : s # WheelNum(o) => lst'[s] = lst[s]
        /\ curvec' = curvec /\ pc[o] = "insert" /\ pc'[o] = "ready" /\ freeids' = freeids
    BY SlotOfOp DEF MakeTimerInsert, TypeOK, TidSet, HasTid, cbVars
  <2>2. \A x : InSeq(x, lst'[WheelNum(o)]) => InSeq(x, lst[WheelNum(o)]) \/ x = tid[o]
    BY <2>1 DEF InSeq
  <2>3. \A x : InWheel(x)' => InWheel(x) \/ x = tid[o]
    BY <2>1, <2>2 DEF InWheel
  <2>4. \A p \in Ops : ~RemoveUnlink(p)
    <3>1. ASSUME NEW p \in Ops, RemoveUnlink(p) PROVE FALSE
      <4>1. pc[p] = "remove" /\ pc' = [pc EXCEPT ![p] = "idle"]
        BY <3>1 DEF RemoveUnlink
      <4> QED
        BY <2>1, <4>1 DEF TypeOK
    <3> QED
      BY <3>1
  <2> QED
    BY <2>3, <2>4
<1>2. CASE \E o \in Ops : RemoveUnlink(o)
  <2>1. ASSUME NEW o \in Ops, RemoveUnlink(o)
        PROVE  /\ \A x : InWheel(x)' => InWheel(x)
               /\ \A x : x = tid[o] => ~InWheel(x)'
    <3>1. tid[o] \in Ids /\ curvec' = curvec
      BY <2>1 DEF RemoveUnlink, TypeOK, TidSet, HasTid, cbVars
    <3>2. /\ \A x, s : s \in Slots /\ InSeq(x, lst'[s]) => InSeq(x, lst[s])
          /\ ~InSeq(tid[o], lst'[wheelpos[tid[o]]])
      BY <2>1, <3>1, UnlinkEntries DEF PlaceInv
    <3>3. ~InSeq(tid[o], curvec)
      BY <2>1 DEF RemoveUnlink, SlotLocked, PlaceInv, CurvecInv, InSeq
    <3>4. \A x : InWheel(x)' => InWheel(x)
      BY <3>1, <3>2 DEF InWheel
    <3>5. \A s \in Slots : InSeq(tid[o], lst'[s]) => FALSE
      <4>1. SUFFICES ASSUME NEW s \in Slots, InSeq(tid[o], lst'[s]) PROVE FALSE
        OBVIOUS
      <4>2. InSeq(tid[o], lst[s]) /\ wheelpos[tid[o]] = s
        BY <3>2, <4>1, LinkedPlace
      <4> QED
        BY <3>2, <4>1, <4>2
    <3>6. ASSUME NEW x, x = tid[o] PROVE ~InWheel(x)'
      BY <3>1, <3>3, <3>5, <3>6 DEF InWheel
    <3> QED
      BY <3>4, <3>6
  <2> QED
    BY <1>2, <2>1
<1>3. CASE CbSwap
  <2>1. /\ lst' = [lst EXCEPT ![cur] = <<>>] /\ curvec' = lst[cur] /\ cur \in Slots
        /\ pc' = pc
    BY <1>3 DEF CbSwap, TypeOK, opVars
  <2>2. \A x : InWheel(x)' => InWheel(x)
    BY <2>1 DEF InWheel, InSeq, TypeOK
  <2> QED
    BY <1>2, <2>2
<1>4. CASE CbRequeue
  <2>1. /\ curvec # <<>> /\ curvec' = Tail(curvec) /\ curvec \in Seq(Ids) /\ cur \in Slots
        /\ lst[cur] \in Seq(Ids) /\ Head(curvec) \in Ids
        /\ lst'[cur] = Append(lst[cur], Head(curvec))
        /\ \A s \in Slots : s # cur => lst'[s] = lst[s]
    BY <1>4 DEF CbRequeue, TypeOK
  <2>2. \A x : InSeq(x, lst'[cur]) => InSeq(x, lst[cur]) \/ x = Head(curvec)
    BY <2>1 DEF InSeq
  <2>3. \A x : InWheel(x)' => InWheel(x)
    BY <2>1, <2>2, TailInSeq, HeadInSeq, ZenonT(60) DEF InWheel
  <2> QED
    BY <1>2, <2>3
<1>5. CASE UNCHANGED lst
  <2>1. curvec' = curvec \/ (curvec # <<>> /\ curvec' = Tail(curvec))
    BY <1>5, ZenonT(60) DEF Next, MakeTimer, Io, RemoveTimerId, Callback, MakeTimerRead, MakeTimerFull,
         MakeTimerAlloc, MakeTimerInsert, PostOk, PostFail, Complete, Abort, Touch, RemoveRead,
         RemoveMark, RemoveUnlink, Recycle, CbAdvance, CbSwap, CbDrop, CbFire, CbRequeue, CbDone,
         vars, cbVars, PlaceInv, CurvecInv, TypeOK
  <2>2. \A x : InSeq(x, curvec') => InSeq(x, curvec)
    <3>1. curvec \in Seq(Ids)
      BY DEF TypeOK
    <3> HIDE DEF TypeOK
    <3>2. CASE curvec' = curvec
      BY <3>2
    <3>3. CASE curvec # <<>> /\ curvec' = Tail(curvec)
      BY <3>1, <3>3, TailInSeq
    <3> QED
      BY <2>1, <3>2, <3>3
  <2>3. \A x : InWheel(x)' => InWheel(x)
    BY <1>5, <2>2 DEF InWheel
  <2> QED
    BY <1>2, <2>3
<1>6. UNCHANGED lst \/ CbSwap \/ CbRequeue \/ (\E o \in Ops : MakeTimerInsert(o) \/ RemoveUnlink(o))
  BY DEF Next, MakeTimer, Io, RemoveTimerId, Callback, MakeTimerRead, MakeTimerFull,
         MakeTimerAlloc, PostOk, PostFail, Complete, Abort, Touch, RemoveRead,
         RemoveMark, Recycle, CbAdvance, CbDrop, CbFire, CbDone,
         vars, wheelVars
<1> QED
  BY <1>1, <1>2, <1>3, <1>4, <1>5, <1>6

\* What a step does to the records and the owners, for LinkInv.
LEMMA LinkWorkers ==
    ASSUME IInv, LinkInv, NEW o \in Ops, [Next]_vars,
           MakeTimer(o) \/ Io(o) \/ Touch(o) \/ RemoveTimerId(o) \/ Recycle(o)
    PROVE  LinkInv'
<1> USE DEF IInv
<1>1. \A p \in Ops : p # o => UNCHANGED <<pc[p], tid[p], cancelled[p]>>
  BY DEF TypeOK, MakeTimer, Io, RemoveTimerId, MakeTimerRead, MakeTimerFull, MakeTimerAlloc,
         MakeTimerInsert, PostOk, PostFail, Complete, Abort, Touch, RemoveRead, RemoveMark,
         RemoveUnlink, Recycle
<1>2. orphaned \subseteq orphaned' /\ (cancelled'[o] = "stray" => cancelled[o] = "stray")
  BY DEF TypeOK, MakeTimer, Io, RemoveTimerId, MakeTimerRead, MakeTimerFull, MakeTimerAlloc,
         MakeTimerInsert, PostOk, PostFail, Complete, Abort, Touch, RemoveRead, RemoveMark,
         RemoveUnlink, Recycle
<1>3. StrayOnlyAfterFailedPost'
  BY <1>1, <1>2 DEF LinkInv, StrayOnlyAfterFailedPost
<1>4. \A p, q \in Ops : tid[p] = tid[q] /\ tid[p] # 0 => p = q
  BY DEF PlaceInv, OpInv
<1>5. \A x : InWheel(x)' => InWheel(x) \/ \E p \in Ops : MakeTimerInsert(p) /\ x = tid[p]
  BY WheelStep
<1>6. CASE MakeTimerAlloc(o)
  <2> DEFINE myid == freeids[Len(freeids)]
  <2>1. /\ Len(freeids) \in 1 .. Len(freeids) /\ myid \in Ids /\ pc[o] = "alloc"
        /\ orphaned' = orphaned
        /\ hasTouchedByWorker' = [hasTouchedByWorker EXCEPT ![myid] = FALSE]
        /\ ioc' = [ioc EXCEPT ![myid] = o] /\ tid' = [tid EXCEPT ![o] = myid]
        /\ pc' = [pc EXCEPT ![o] = "insert"]
        /\ lst' = lst /\ curvec' = curvec
    BY <1>6 DEF MakeTimerAlloc, TypeOK, cbVars
  <2>2. ~InWheel(myid) /\ ~Owned(myid) /\ tid[o] = 0
    BY <2>1 DEF PlaceInv, FreeInv, TidSet
  <2>3. \A x : InWheel(x)' <=> InWheel(x)
    BY <2>1 DEF InWheel, InSeq
  <2>4. ASSUME NEW p \in Ops, pc'[p] \in {"insert", "ready", "posted", "done"}, tid'[p] # 0
        PROVE  ~hasTouchedByWorker'[tid'[p]]
    <3>1. CASE p = o
      BY <2>1, <3>1 DEF TypeOK
    <3>2. CASE p # o
      BY <1>1, <2>1, <2>2, <2>4, <3>2 DEF LinkInv, Owned, TypeOK
    <3> QED
      BY <3>1, <3>2
  <2>5. ASSUME NEW id \in Ids, InWheel(id)', ~hasTouchedByWorker'[id]
        PROVE  id \in orphaned' \/ (ioc'[id] \in Ops /\ tid'[ioc'[id]] = id)
    <3>1. InWheel(id) /\ id # myid
      BY <2>2, <2>3, <2>5
    <3>2. ~hasTouchedByWorker[id] /\ ioc'[id] = ioc[id]
      BY <2>1, <2>5, <3>1 DEF TypeOK
    <3>3. id \in orphaned \/ (ioc[id] \in Ops /\ tid[ioc[id]] = id)
      BY <3>1, <3>2 DEF LinkInv
    <3>4. id # 0
      BY WheelAssumption DEF Ids
    <3> QED
      BY <2>1, <2>2, <3>2, <3>3, <3>4 DEF TypeOK
  <2> QED
    BY <1>3, <2>4, <2>5 DEF LinkInv
<1>7. CASE ~MakeTimerAlloc(o)
  <2>1. ioc' = ioc
    BY <1>7 DEF MakeTimer, Io, RemoveTimerId, MakeTimerRead, MakeTimerFull,
         MakeTimerInsert, PostOk, PostFail, Complete, Abort, Touch, RemoveRead, RemoveMark,
         RemoveUnlink, Recycle, timerVars
  <2>2. /\ \A id \in Ids : hasTouchedByWorker[id] => hasTouchedByWorker'[id]
        /\ \A id \in Ids : hasTouchedByWorker'[id] # hasTouchedByWorker[id] =>
              id = tid[o] /\ pc'[o] \in {"touched", "idle"}
    BY <1>7 DEF MakeTimer, Io, RemoveTimerId, MakeTimerRead, MakeTimerFull,
         MakeTimerInsert, PostOk, PostFail, Complete, Abort, Touch, RemoveRead, RemoveMark,
         RemoveUnlink, Recycle, timerVars, TypeOK
  <2>3. tid'[o] = tid[o] \/ tid'[o] = 0
    BY <1>7 DEF MakeTimer, Io, RemoveTimerId, MakeTimerRead, MakeTimerFull,
         MakeTimerInsert, PostOk, PostFail, Complete, Abort, Touch, RemoveRead, RemoveMark,
         RemoveUnlink, Recycle, TypeOK
  <2>4. pc'[o] \in {"insert", "ready", "posted", "done"} /\ tid'[o] # 0 =>
           tid'[o] = tid[o] /\ pc[o] \in {"insert", "ready", "posted", "done"}
    BY <1>7, <2>3 DEF MakeTimer, Io, RemoveTimerId, MakeTimerRead, MakeTimerFull,
         MakeTimerInsert, PostOk, PostFail, Complete, Abort, Touch, RemoveRead, RemoveMark,
         RemoveUnlink, Recycle, TypeOK, TidSet
  <2>5. ASSUME NEW p \in Ops, pc'[p] \in {"insert", "ready", "posted", "done"}, tid'[p] # 0
        PROVE  ~hasTouchedByWorker'[tid'[p]]
    <3>1. tid'[p] = tid[p] /\ pc[p] \in {"insert", "ready", "posted", "done"} /\ tid[p] \in Ids
      BY <1>1, <2>4, <2>5 DEF TypeOK
    <3>2. ~hasTouchedByWorker[tid[p]]
      BY <2>5, <3>1 DEF LinkInv
    <3>3. tid[p] = tid[o] /\ tid[o] # 0 => p = o
      BY <1>4, <2>5, <3>1
    <3>4. CASE p = o
      BY <2>2, <2>5, <3>1, <3>2, <3>4
    <3>5. CASE p # o
      BY <2>2, <2>5, <3>1, <3>2, <3>3, <3>5
    <3> QED
      BY <3>4, <3>5
  <2>6. ASSUME NEW id \in Ids, InWheel(id)', ~hasTouchedByWorker'[id]
        PROVE  id \in orphaned' \/ (ioc[id] \in Ops /\ tid'[ioc[id]] = id)
    <3>1. ~hasTouchedByWorker[id] /\ id # 0
      BY <2>2, <2>6, WheelAssumption DEF Ids
    <3>2. id \in orphaned \/ (ioc[id] \in Ops /\ tid[ioc[id]] = id)
      <4>1. CASE InWheel(id)
        BY <3>1, <4>1 DEF LinkInv
      <4>2. CASE ~InWheel(id)
        <5>1. PICK p \in Ops : MakeTimerInsert(p) /\ id = tid[p]
          BY <1>5, <2>6, <4>2
        <5> QED
          BY <3>1, <5>1 DEF PlaceInv, OpInv
      <4> QED
        BY <4>1, <4>2
    <3>3. CASE id # tid[o] \/ tid'[o] = tid[o]
      <4>1. ASSUME ioc[id] \in Ops, tid[ioc[id]] = id PROVE tid'[ioc[id]] = id
        BY <1>1, <3>3, <4>1
      <4> QED
        BY <1>2, <3>2, <4>1
    <3>4. CASE id = tid[o] /\ tid'[o] # tid[o]
      <4>1. PostFail(o) \/ RemoveMark(o) \/ RemoveUnlink(o)
        BY <1>7, <3>4 DEF MakeTimer, Io, RemoveTimerId, MakeTimerRead, MakeTimerFull,
           MakeTimerInsert, PostOk, Complete, Abort, Touch, RemoveRead, Recycle
      <4>2. CASE PostFail(o)
        BY <3>1, <3>4, <4>2 DEF PostFail, TypeOK
      <4>3. CASE RemoveMark(o)
        BY <2>6, <3>4, <4>3 DEF RemoveMark, TypeOK
      <4>4. CASE RemoveUnlink(o)
        BY <2>6, <3>4, <4>4, WheelStep
      <4> QED
        BY <4>1, <4>2, <4>3, <4>4
    <3> QED
      BY <3>3, <3>4
  <2> QED
    BY <1>3, <2>1, <2>5, <2>6 DEF LinkInv
<1> QED
  BY <1>6, <1>7

LEMMA LinkCallback ==
    ASSUME IInv, LinkInv, [Next]_vars, Callback \/ UNCHANGED vars
    PROVE  LinkInv'
<1> USE DEF IInv
<1>1. UNCHANGED <<hasTouchedByWorker, ioc, pc, tid, orphaned>>
  BY DEF Callback, CbAdvance, CbSwap, CbDrop, CbFire, CbRequeue, CbDone, vars, timerVars, opVars
<1>2. \A x : InWheel(x)' => InWheel(x)
  <2>1. \A p \in Ops : ~MakeTimerInsert(p)
    BY <1>1 DEF MakeTimerInsert, TypeOK
  <2> QED
    BY <2>1, WheelStep
<1>3. StrayOnlyAfterFailedPost'
  <2>1. CASE CbFire
    <3> DEFINE id == Head(curvec)
    <3>1. curvec # <<>> /\ curvec \in Seq(Ids) /\ ~hasTouchedByWorker[id] /\ id \in Ids
      BY <2>1 DEF CbFire, TypeOK
    <3>2. InWheel(id)
      BY <3>1, HeadInSeq DEF InWheel
    <3>3. id \in orphaned \/ tid[ioc[id]] = id
      BY <3>1, <3>2 DEF LinkInv
    <3>4. CASE \E p \in Ops : cancelled'[p] = "stray" /\ cancelled[p] # "stray"
      <4>1. tid[ioc[id]] # id
        BY <2>1, <3>4 DEF CbFire, CancelIoEx, TypeOK
      <4> QED
        BY <1>1, <3>3, <4>1 DEF StrayOnlyAfterFailedPost
    <3>5. CASE ~ \E p \in Ops : cancelled'[p] = "stray" /\ cancelled[p] # "stray"
      BY <1>1, <3>5 DEF LinkInv, StrayOnlyAfterFailedPost
    <3> QED
      BY <3>4, <3>5
  <2>2. CASE ~CbFire
    <3>1. cancelled' = cancelled
      BY <2>2 DEF Callback, CbAdvance, CbSwap, CbDrop, CbRequeue, CbDone, vars, opVars
    <3> QED
      BY <1>1, <3>1 DEF LinkInv, StrayOnlyAfterFailedPost
  <2> QED
    BY <2>1, <2>2
<1> QED
  BY <1>1, <1>2, <1>3 DEF LinkInv

LEMMA Linked == Spec => [](IInv /\ LinkInv)
<1>1. Init => LinkInv
  <2> SUFFICES ASSUME Init PROVE LinkInv
    OBVIOUS
  <2>1. \A id : ~InWheel(id)
    BY DEF Init, InWheel, InSeq
  <2> QED
    BY <2>1 DEF Init, LinkInv, StrayOnlyAfterFailedPost
<1>2. IInv /\ LinkInv /\ [Next]_vars => LinkInv'
  BY LinkWorkers, LinkCallback DEF Next
<1> QED
  BY Inductive, <1>1, <1>2, PTL DEF Spec

\* CancelIoEx in the callback only ever hits an operation that the timer was not
\* armed for after some post has failed and left its timer behind.
THEOREM StraysNeedAFailedPost == Spec => []StrayOnlyAfterFailedPost
<1>1. LinkInv => StrayOnlyAfterFailedPost
  BY DEF LinkInv
<1> QED
  BY Linked, <1>1, PTL

-----------------------------------------------------------------------------
(* How a pending operation can lose its timer. *)

\* A removal whose own entry is still linked takes nothing else out.
LEMMA OwnUnlink ==
    ASSUME TypeOK, BucketsIndexed, NEW p \in Ops, RemoveUnlink(p), tid[p] \in Ids,
           \/ InSeq(tid[p], lst[wheelpos[tid[p]]])
           \/ lst[wheelpos[tid[p]]] = <<>>,
           NEW s \in Slots, NEW x, x # tid[p], InSeq(x, lst[s])
    PROVE  InSeq(x, lst'[s])
<1> DEFINE id  == tid[p]
           pos == wheelpos[id]
           idx == index_in_bucket[id]
           L   == Len(lst[pos])
<1>1. /\ pos \in Slots /\ idx \in Nat /\ lst[pos] \in Seq(Ids) /\ L \in Nat
      /\ \A t \in Slots : t # pos => lst'[t] = lst[t]
  BY DEF RemoveUnlink, TypeOK
<1>2. CASE s # pos
  BY <1>1, <1>2
<1>3. CASE s = pos /\ lst[pos] = <<>>
  BY <1>1, <1>3 DEF InSeq
<1>4. CASE s = pos /\ lst[pos] # <<>>
  <2>1. PICK k \in 1 .. L : lst[pos][k] = id
    BY <1>4 DEF InSeq
  <2>2. idx = k - 1
    BY <1>1, <2>1 DEF BucketsIndexed
  <2>3. lst'[pos] = SwapPop(lst[pos], idx)
    BY <1>1, <1>4 DEF RemoveUnlink, TypeOK
  <2>4. /\ Len(lst'[pos]) = L - 1
        /\ \A i \in 1 .. L - 1 :
             lst'[pos][i] = IF i = idx + 1 THEN lst[pos][L] ELSE lst[pos][i]
    <3>1. lst[pos] # <<>>
      BY <1>4
    <3>2. lst[pos] \in Seq(Ids) /\ idx \in Nat
      BY <1>1
    <3>3. /\ Len(SwapPop(lst[pos], idx)) = Len(lst[pos]) - 1
          /\ \A i \in 1 .. Len(lst[pos]) - 1 :
                SwapPop(lst[pos], idx)[i] =
                  IF i = idx + 1 THEN lst[pos][Len(lst[pos])] ELSE lst[pos][i]
      BY <3>1, <3>2, SwapPopSeq
    <3> QED
      BY <2>3, <3>3
  <2>5. PICK j \in 1 .. L : lst[pos][j] = x
    BY <1>4 DEF InSeq
  <2>6. j # k
    BY <2>1, <2>5
  <2>7. CASE j = L
    <3>1. k \in 1 .. L - 1 /\ lst'[pos][k] = x
      BY <1>1, <2>2, <2>4, <2>5, <2>6, <2>7
    <3> QED
      BY <1>4, <2>4, <3>1 DEF InSeq
  <2>8. CASE j # L
    <3>1. j \in 1 .. L - 1 /\ j # idx + 1
      BY <1>1, <2>2, <2>6, <2>8
    <3>2. lst'[pos][j] = x
      BY <2>4, <2>5, <3>1
    <3> QED
      BY <1>4, <2>4, <3>1, <3>2 DEF InSeq
  <2> QED
    BY <2>7, <2>8
<1> QED
  BY <1>2, <1>3, <1>4

\* A watched operation stays watched, is cancelled or completes, unless another
\* operation's removal is late behind the callback (removetimerid's second branch).
THEOREM TimersAreLostOneWayOnly == Spec => LostOnlyByStaleUnlink
<1>1. ASSUME IInv, LinkInv, [Next]_vars, NEW o \in Ops, Watched(o), pc'[o] = "posted",
             ~Watched(o)', cancelled'[o] = "no"
      PROVE  \E p \in Ops : StaleUnlink(p)
  <2> DEFINE id == tid[o]
  <2>0. TypeOK /\ TidSet /\ PlaceInv /\ LinkInv
    BY <1>1 DEF IInv
  <2>1. /\ pc[o] = "posted" /\ id \in Ids /\ id # 0 /\ cancelled[o] = "no"
        /\ InWheel(id) /\ ~hasTouchedByWorker[id] /\ ioc[id] = o
    BY <1>1, <2>0 DEF Watched, LinkInv, PlaceInv, OpInv, TypeOK
  <2>2. tid'[o] = tid[o]
    BY <1>1, <2>0, <2>1, ZenonT(60) DEF Next, MakeTimer, Io, RemoveTimerId, Callback, MakeTimerRead, MakeTimerFull,
         MakeTimerAlloc, MakeTimerInsert, PostOk, PostFail, Complete, Abort, Touch, RemoveRead,
         RemoveMark, RemoveUnlink, Recycle, CbAdvance, CbSwap, CbDrop, CbFire, CbRequeue, CbDone,
         vars, opVars, TypeOK
  <2>3. ASSUME \A x : x = id => InWheel(x)' PROVE FALSE
    <3>1. InWheel(tid[o])'
      BY <2>2, <2>3
    <3> QED
      BY <1>1, <2>1, <2>2, <3>1 DEF Watched
  <2>4. CASE \E p \in Ops : RemoveUnlink(p)
    <3> PICK p \in Ops : RemoveUnlink(p)
      BY <2>4
    <3>1. /\ p # o /\ tid[p] \in Ids /\ tid[p] # id /\ pc[p] = "remove"
          /\ wheelpos[tid[p]] # aux[p] /\ curvec' = curvec
      BY <2>0, <2>1 DEF RemoveUnlink, TypeOK, TidSet, HasTid, PlaceInv, OpInv, cbVars
    <3>2. SUFFICES ASSUME \/ InSeq(tid[p], lst[wheelpos[tid[p]]])
                          \/ lst[wheelpos[tid[p]]] = <<>>
                   PROVE  FALSE
      BY <3>1 DEF StaleUnlink
    <3>3. \A s \in Slots : InSeq(id, lst[s]) => InSeq(id, lst'[s])
      BY <2>0, <3>1, <3>2, OwnUnlink DEF PlaceInv
    <3>4. ASSUME NEW x, x = id PROVE InWheel(x)'
      BY <2>1, <3>1, <3>3, <3>4 DEF InWheel
    <3> QED
      BY <2>3, <3>4
  <2>5. CASE CbSwap
    <3>1. /\ lst' = [lst EXCEPT ![cur] = <<>>] /\ curvec' = lst[cur] /\ curvec = <<>>
          /\ cur \in Slots
      BY <2>0, <2>5 DEF CbSwap, PlaceInv, CurvecInv, TypeOK
    <3>2. ASSUME NEW x, x = id PROVE InWheel(x)'
      <4>1. PICK s \in Slots : InSeq(id, lst[s])
        BY <2>1, <3>1 DEF InWheel, InSeq
      <4>2. CASE s = cur
        BY <3>1, <3>2, <4>1, <4>2 DEF InWheel
      <4>3. CASE s # cur
        <5>1. lst'[s] = lst[s]
          BY <2>0, <3>1, <4>3 DEF TypeOK
        <5> QED
          BY <3>2, <4>1, <5>1 DEF InWheel
      <4> QED
        BY <4>2, <4>3
    <3> QED
      BY <2>3, <3>2
  <2>6. CASE CbDrop \/ CbFire \/ CbRequeue
    <3> DEFINE hd == Head(curvec)
    <3>1. curvec # <<>> /\ curvec \in Seq(Ids) /\ curvec' = Tail(curvec) /\ hd \in Ids
      BY <2>0, <2>6 DEF CbDrop, CbFire, CbRequeue, TypeOK
    <3>2. InSeq(id, curvec) /\ id # hd => InSeq(id, curvec')
      <4> SUFFICES ASSUME InSeq(id, curvec), id # hd PROVE InSeq(id, curvec')
        OBVIOUS
      <4>1. PICK i \in 1 .. Len(curvec) : curvec[i] = id
        BY DEF InSeq
      <4>2. i # 1 /\ i - 1 \in 1 .. Len(Tail(curvec)) /\ Tail(curvec)[i - 1] = curvec[i]
        BY <3>1, <4>1
      <4> QED
        BY <3>1, <4>1, <4>2 DEF InSeq
    <3>3. CASE CbDrop \/ CbFire
      <4>1. lst' = lst
        BY <3>3 DEF CbDrop, CbFire, wheelVars
      <4>2. id # hd
        <5>1. SUFFICES ASSUME id = hd PROVE FALSE
          OBVIOUS
        <5>2. CbFire
          BY <2>1, <3>3, <5>1 DEF CbDrop
        <5> QED
          BY <1>1, <2>0, <2>1, <5>1, <5>2 DEF CbFire, CancelIoEx, TypeOK
      <4>3. ASSUME NEW x, x = id PROVE InWheel(x)'
        BY <2>1, <3>2, <4>1, <4>2, <4>3 DEF InWheel
      <4> QED
        BY <2>3, <4>3
    <3>4. CASE CbRequeue
      <4>1. /\ cur \in Slots /\ lst[cur] \in Seq(Ids)
            /\ lst'[cur] = Append(lst[cur], hd)
            /\ \A s \in Slots : s # cur => lst'[s] = lst[s]
        BY <2>0, <3>4 DEF CbRequeue, TypeOK
      <4>2. /\ InSeq(hd, lst'[cur])
            /\ \A x : InSeq(x, lst[cur]) => InSeq(x, lst'[cur])
        <5>1. /\ Len(lst'[cur]) = Len(lst[cur]) + 1
              /\ lst'[cur][Len(lst[cur]) + 1] = hd
              /\ \A i \in 1 .. Len(lst[cur]) :
                    lst'[cur][i] = lst[cur][i] /\ i \in 1 .. Len(lst[cur]) + 1
              /\ Len(lst[cur]) + 1 \in 1 .. Len(lst[cur]) + 1
          BY <3>1, <4>1
        <5> QED
          BY <5>1 DEF InSeq
      <4>3. ASSUME NEW x, x = id PROVE InWheel(x)'
        <5>1. CASE InSeq(id, curvec)
          BY <3>2, <4>1, <4>2, <4>3, <5>1 DEF InWheel
        <5>2. CASE ~InSeq(id, curvec)
          <6>1. PICK s \in Slots : InSeq(id, lst[s])
            BY <2>1, <5>2 DEF InWheel
          <6>2. InSeq(id, lst'[s])
            BY <4>1, <4>2, <6>1
          <6> QED
            BY <4>3, <6>2 DEF InWheel
        <5> QED
          BY <5>1, <5>2
      <4> QED
        BY <2>3, <4>3
    <3> QED
      BY <2>6, <3>3, <3>4
  <2>7. CASE \E p \in Ops : MakeTimerInsert(p)
    <3> PICK p \in Ops : MakeTimerInsert(p)
      BY <2>7
    <3>1. /\ WheelNum(p) \in Slots /\ lst[WheelNum(p)] \in Seq(Ids) /\ tid[p] \in Ids
          /\ lst'[WheelNum(p)] = Append(lst[WheelNum(p)], tid[p])
          /\ \A s \in Slots : s # WheelNum(p) => lst'[s] = lst[s]
          /\ curvec' = curvec
      BY <2>0, SlotOfOp DEF MakeTimerInsert, TypeOK, TidSet, HasTid, cbVars
    <3>2. \A x : InSeq(x, lst[WheelNum(p)]) => InSeq(x, lst'[WheelNum(p)])
      <4>1. \A i \in 1 .. Len(lst[WheelNum(p)]) :
               /\ lst'[WheelNum(p)][i] = lst[WheelNum(p)][i]
               /\ i \in 1 .. Len(lst'[WheelNum(p)])
        BY <3>1
      <4> QED
        BY <4>1 DEF InSeq
    <3>3. ASSUME NEW x, x = id PROVE InWheel(x)'
      BY <2>1, <3>1, <3>2, <3>3 DEF InWheel
    <3> QED
      BY <2>3, <3>3
  <2>8. CASE UNCHANGED <<lst, curvec>>
    <3>1. \A x : InWheel(x)' <=> InWheel(x)
      BY <2>8 DEF InWheel, InSeq
    <3> QED
      BY <2>1, <2>3, <3>1
  <2>9. \/ UNCHANGED <<lst, curvec>> \/ CbSwap \/ CbDrop \/ CbFire \/ CbRequeue
        \/ \E p \in Ops : MakeTimerInsert(p) \/ RemoveUnlink(p)
    BY <1>1 DEF Next, MakeTimer, Io, RemoveTimerId, Callback, MakeTimerRead, MakeTimerFull,
         MakeTimerAlloc, PostOk, PostFail, Complete, Abort, Touch, RemoveRead,
         RemoveMark, Recycle, CbAdvance, CbDone, vars, wheelVars, cbVars
  <2> QED
    BY <2>4, <2>5, <2>6, <2>7, <2>8, <2>9
<1>2. IInv /\ LinkInv /\ [Next]_vars =>
        [\A o \in Ops :
           Watched(o) /\ pc'[o] = "posted" /\ ~Watched(o)' /\ cancelled'[o] = "no"
           => \E p \in Ops : StaleUnlink(p)]_vars
  BY <1>1
<1> QED
  BY Linked, <1>2, PTL DEF Spec, LostOnlyByStaleUnlink

=============================================================================
