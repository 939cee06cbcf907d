---------------------------- MODULE WheelsProofs ----------------------------
(***************************************************************************)
(* Proofs about Wheels, for any numbers of workers, connections and timer  *)
(* ids: the types, that handle_event locks the wheel it writes to, and     *)
(* that an id comes to have two places only by the failed post of a        *)
(* connection that has moved.                                              *)
(***************************************************************************)
EXTENDS Wheels, SequenceTheorems, TLAPS

\* The IoCtx of an operation and the pointer of its ConnCtx name one wheel:
\* newtimer until the completion is dequeued, ot from then on.
SameWheel ==
    \A k \in Conns :
        /\ at[k] \in Armed /\ timed[k] => tid[k] # 0
        /\ at[k] \in {"ready", "pending", "queued"} /\ tid[k] # 0 =>
              timers[k] = newtimer[k][dir[k]]
        /\ at[k] = "event" /\ tid[k] # 0 => timers[k] = ot[k]

WheelsInv == WheelsTypeOK /\ SameWheel

-----------------------------------------------------------------------------
(* The pool as a sequence. *)

\* Taking the last id.
LEMMA PopSeq ==
    ASSUME NEW S, NEW s \in Seq(S), s # <<>>
    PROVE  /\ s[Len(s)] \in S
           /\ Len(s) \in Nat \ {0}
           /\ SubSeq(s, 1, Len(s) - 1) \in Seq(S)
           /\ Len(SubSeq(s, 1, Len(s) - 1)) = Len(s) - 1
           /\ \A i \in 1 .. Len(s) - 1 : SubSeq(s, 1, Len(s) - 1)[i] = s[i]
<1>1. Len(s) \in Nat \ {0}
  BY EmptySeq
<1> QED  BY <1>1, SubSeqProperties

\* Putting an id in front.
LEMMA PushSeq ==
    ASSUME NEW S, NEW s \in Seq(S), NEW x \in S
    PROVE  /\ <<x>> \o s \in Seq(S)
           /\ Len(<<x>> \o s) = Len(s) + 1
           /\ (<<x>> \o s)[1] = x
           /\ \A i \in 2 .. Len(s) + 1 : (<<x>> \o s)[i] = s[i - 1]
<1>1. <<x>> \in Seq(S) /\ Len(<<x>>) = 1 /\ <<x>>[1] = x
  OBVIOUS
<1> QED  BY <1>1, ConcatProperties

-----------------------------------------------------------------------------
(* Types and SameWheel. *)

LEMMA WheelsInitInv == WheelsInit => WheelsInv
<1> SUFFICES ASSUME WheelsInit PROVE WheelsInv
  OBVIOUS
<1>1. [i \in 1 .. ATSIZEA - 1 |-> i] \in Seq(Ids)
  <2>1. ATSIZEA - 1 \in Nat
    BY WheelsAssumption
  <2>2. [i \in 1 .. ATSIZEA - 1 |-> i] \in [1 .. ATSIZEA - 1 -> Ids]
    BY DEF Ids
  <2> QED  BY <2>1, <2>2, SeqDef
<1>2. WheelsTypeOK
  BY <1>1 DEF WheelsInit, WheelsTypeOK, Directions
<1>3. SameWheel
  BY DEF WheelsInit, SameWheel, Armed
<1> QED  BY <1>2, <1>3 DEF WheelsInv

\* What removetimerid does to the pool and the flags.
LEMMA RemoveTyped ==
    ASSUME WheelsInv, NEW v, NEW id, RemoveTimerId(v, id)
    PROVE  /\ freeids' \in [Workers -> Seq(Ids)]
           /\ timed' \in [Conns -> BOOLEAN]
           /\ \A k \in Conns : timed'[k] => timed[k]
<1>1. CASE ~Known(v, id) /\ UNCHANGED <<freeids, timed>>
  BY <1>1 DEF WheelsInv, WheelsTypeOK
<1>2. CASE Known(v, id) /\ Untime(v, id)
  <2>1. v \in Workers /\ id \in Ids
    BY <1>2 DEF Known
  <2>2. <<id>> \o freeids[v] \in Seq(Ids)
    BY <2>1, PushSeq DEF WheelsInv, WheelsTypeOK
  <2>3. freeids' = freeids \/ freeids' = [freeids EXCEPT ![v] = <<id>> \o @]
    BY <1>2 DEF RemoveTimerId
  <2>4. freeids' \in [Workers -> Seq(Ids)]
    BY <2>1, <2>2, <2>3 DEF WheelsInv, WheelsTypeOK
  <2>5. timed' = timed \/ \E i : timed' = [timed EXCEPT ![i] = FALSE]
    BY <1>2 DEF Untime
  <2>6. timed' \in [Conns -> BOOLEAN] /\ \A k \in Conns : timed'[k] => timed[k]
    BY <2>5 DEF WheelsInv, WheelsTypeOK
  <2> QED  BY <2>4, <2>6
<1> QED  BY <1>1, <1>2 DEF RemoveTimerId

LEMMA WheelsStep == WheelsInv /\ [WheelsNext]_wheelsVars => WheelsInv'
<1> SUFFICES ASSUME WheelsInv, [WheelsNext]_wheelsVars PROVE WheelsInv'
  OBVIOUS
<1> USE DEF WheelsInv
<1>1. ASSUME NEW w \in Workers, NEW k \in Conns, Accept(w, k) PROVE WheelsInv'
  BY <1>1 DEF Accept, Move, ioctxVars, WheelsTypeOK, SameWheel, Armed, Directions
<1>2. ASSUME NEW w \in Workers, MakeTimerFull(w) PROVE WheelsInv'
  BY <1>2 DEF MakeTimerFull, Move, WheelsTypeOK, SameWheel, Armed
<1>3. ASSUME NEW w \in Workers, MakeTimer(w) PROVE WheelsInv'
  <2>1. PICK k \in Conns, v \in Workers :
           /\ c[w] = k /\ at[k] = "arm" /\ v = newtimer[k][dir[k]] /\ freeids[v] # <<>>
           /\ freeids' = [freeids EXCEPT ![v] = SubSeq(@, 1, Len(@) - 1)]
           /\ ioc' = [ioc EXCEPT ![v][freeids[v][Len(freeids[v])]] = k]
           /\ tid' = [tid EXCEPT ![k] = freeids[v][Len(freeids[v])]]
           /\ timers' = [timers EXCEPT ![k] = v]
           /\ timed' = [timed EXCEPT ![k] = TRUE]
           /\ Move(k, "ready")
           /\ UNCHANGED <<c, dir, newtimer, oldtimer, ot>>
    BY <1>3 DEF MakeTimer
  <2> DEFINE myid == freeids[v][Len(freeids[v])]
  <2>2. myid \in Ids /\ SubSeq(freeids[v], 1, Len(freeids[v]) - 1) \in Seq(Ids)
    BY <2>1, PopSeq DEF WheelsTypeOK
  <2>3. freeids' \in [Workers -> Seq(Ids)]
    BY <2>1, <2>2 DEF WheelsTypeOK
  <2>4. ioc' \in [Workers -> [Ids -> Conns \cup {NoConn}]]
    BY <2>1, <2>2 DEF WheelsTypeOK
  <2>5. myid # 0
    BY <2>2 DEF Ids
  <2> HIDE DEF myid
  <2>6. tid' = [tid EXCEPT ![k] = myid]
    BY <2>1 DEF myid
  <2>7. WheelsTypeOK'
    BY <2>1, <2>2, <2>3, <2>4, <2>6 DEF WheelsTypeOK, Move
  <2>8. SameWheel'
    BY <2>1, <2>5, <2>6 DEF WheelsTypeOK, SameWheel, Move, Armed
  <2> QED  BY <2>7, <2>8
<1>4. ASSUME NEW w \in Workers, PostOk(w) PROVE WheelsInv'
  BY <1>4 DEF PostOk, Move, ioctxVars, WheelsTypeOK, SameWheel, Armed
<1>5. ASSUME NEW w \in Workers, PostFail(w) PROVE WheelsInv'
  <2>1. PICK k \in Conns :
           /\ RemoveTimerId(oldtimer[k][dir[k]], tid[k]) /\ Move(k, "gone")
           /\ c' = [c EXCEPT ![w] = NoConn]
           /\ UNCHANGED <<ioc, dir, newtimer, oldtimer, ot, timers, tid>>
    BY <1>5 DEF PostFail
  <2>2. /\ freeids' \in [Workers -> Seq(Ids)] /\ timed' \in [Conns -> BOOLEAN]
        /\ \A j \in Conns : timed'[j] => timed[j]
    BY <2>1, RemoveTyped
  <2>3. WheelsTypeOK'
    BY <2>1, <2>2 DEF WheelsTypeOK, Move
  <2>4. SameWheel'
    BY <2>1, <2>2 DEF WheelsTypeOK, SameWheel, Move, Armed
  <2> QED  BY <2>3, <2>4
<1>6. ASSUME NEW k \in Conns, Complete(k) PROVE WheelsInv'
  BY <1>6 DEF Complete, Move, ioctxVars, WheelsTypeOK, SameWheel, Armed
<1>7. ASSUME NEW w \in Workers, NEW k \in Conns, Dequeue(w, k) PROVE WheelsInv'
  <2>1. WheelsTypeOK'
    BY <1>7 DEF Dequeue, Move, ioctxVars, WheelsTypeOK, Directions
  <2>2. SameWheel'
    BY <1>7 DEF Dequeue, Move, ioctxVars, WheelsTypeOK, SameWheel, Armed
  <2> QED  BY <2>1, <2>2
<1>8. ASSUME NEW w \in Workers, TakeDown(w) PROVE WheelsInv'
  <2>1. PICK k \in Conns :
           /\ IF timed[k] THEN RemoveTimerId(ot[k], tid[k]) ELSE UNCHANGED <<freeids, timed>>
           /\ Move(k, "handle")
           /\ UNCHANGED <<ioc, c, dir, newtimer, oldtimer, ot, timers, tid>>
    BY <1>8 DEF TakeDown
  <2>2. /\ freeids' \in [Workers -> Seq(Ids)] /\ timed' \in [Conns -> BOOLEAN]
        /\ \A j \in Conns : timed'[j] => timed[j]
    BY <2>1, RemoveTyped DEF WheelsTypeOK
  <2>3. WheelsTypeOK'
    BY <2>1, <2>2 DEF WheelsTypeOK, Move
  <2>4. SameWheel'
    BY <2>1, <2>2 DEF WheelsTypeOK, SameWheel, Move, Armed
  <2> QED  BY <2>3, <2>4
<1>9. ASSUME NEW w \in Workers, HandleNext(w) PROVE WheelsInv'
  BY <1>9 DEF HandleNext, Move, ioctxVars, WheelsTypeOK, SameWheel, Armed
<1>10. ASSUME NEW w \in Workers, HandleLast(w) PROVE WheelsInv'
  BY <1>10 DEF HandleLast, Move, ioctxVars, WheelsTypeOK, SameWheel, Armed
<1>11. CASE UNCHANGED wheelsVars
  BY <1>11 DEF wheelsVars, ioctxVars, WheelsTypeOK, SameWheel
<1> QED
  BY <1>1, <1>2, <1>3, <1>4, <1>5, <1>6, <1>7, <1>8, <1>9, <1>10, <1>11
  DEF WheelsNext, Drive

LEMMA WheelsInvHolds == WheelsSpec => []WheelsInv
BY WheelsInitInv, WheelsStep, PTL DEF WheelsSpec

\* Every variable has its type.
THEOREM WheelsTypeCorrect == WheelsSpec => []WheelsTypeOK
<1>1. WheelsInv => WheelsTypeOK
  BY DEF WheelsInv
<1> QED  BY <1>1, WheelsInvHolds, PTL

\* handle_event locks the wheel it writes to (worker.h:581-585, 621-623).
THEOREM HandlerLocksItsWheel == WheelsSpec => []OtIsTimers
<1>1. WheelsInv => OtIsTimers
  BY DEF WheelsInv, SameWheel, OtIsTimers, Armed
<1> QED  BY <1>1, WheelsInvHolds, PTL

-----------------------------------------------------------------------------
(* One place for every id of a wheel. *)

\* Operations leave the wheel, the pool stays.
LEMMA OneOwnerShrinks ==
    ASSUME NEW v \in Workers, OneOwner(v), freeids'[v] = freeids[v],
           \A k \in Conns : On(k, v)' => On(k, v) /\ tid'[k] = tid[k]
    PROVE  OneOwner(v)'
BY DEF OneOwner

\* An operation gives its own id back, or drops it.
LEMMA OneOwnerReturns ==
    ASSUME WheelsInv, NEW v \in Workers, OneOwner(v), NEW k \in Conns, On(k, v), ~On(k, v)',
           freeids'[v] = freeids[v] \/ freeids'[v] = <<tid[k]>> \o freeids[v],
           \A j \in Conns : On(j, v)' => On(j, v) /\ tid'[j] = tid[j]
    PROVE  OneOwner(v)'
<1>1. CASE freeids'[v] = freeids[v]
  BY <1>1, OneOwnerShrinks
<1>2. CASE freeids'[v] = <<tid[k]>> \o freeids[v]
  <2> DEFINE s == freeids[v]
             p == freeids'[v]
  <2>1. s \in Seq(Ids) /\ tid[k] \in Ids
    BY DEF WheelsInv, WheelsTypeOK, On
  <2>2. /\ Len(s) \in Nat /\ Len(p) = Len(s) + 1 /\ p[1] = tid[k]
        /\ \A i \in 2 .. Len(s) + 1 : p[i] = s[i - 1]
    BY <1>2, <2>1, PushSeq
  <2>3. \A i \in 1 .. Len(s) : s[i] # tid[k]
    BY DEF OneOwner
  <2> HIDE DEF s, p
  <2>4. \A i \in 1 .. Len(p) : i = 1 \/ (i - 1 \in 1 .. Len(s) /\ p[i] = s[i - 1])
    BY <2>2
  <2>5. \A i, j \in 1 .. Len(s) : s[i] = s[j] => i = j
    BY DEF OneOwner, s
  <2>6. ASSUME NEW i \in 1 .. Len(p), NEW j \in 1 .. Len(p), p[i] = p[j] PROVE i = j
    <3>1. CASE i = 1 /\ j = 1
      BY <3>1
    <3>2. CASE i = 1 /\ j # 1
      BY <2>2, <2>3, <2>4, <2>6, <3>2
    <3>3. CASE i # 1 /\ j = 1
      BY <2>2, <2>3, <2>4, <2>6, <3>3
    <3>4. CASE i # 1 /\ j # 1
      <4>1. i - 1 = j - 1
        BY <2>4, <2>5, <2>6, <3>4
      <4> QED  BY <2>2, <4>1
    <3> QED  BY <3>1, <3>2, <3>3, <3>4
  <2>7. \A i \in 1 .. Len(s) : \A j \in Conns : On(j, v) => tid[j] # s[i]
    BY DEF OneOwner, s
  <2>8. \A i, j \in Conns : On(i, v) /\ On(j, v) /\ tid[i] = tid[j] => i = j
    BY DEF OneOwner
  <2>9. ASSUME NEW i \in 1 .. Len(p), NEW j \in Conns, On(j, v)' PROVE tid'[j] # p[i]
    <3>1. On(j, v) /\ tid'[j] = tid[j] /\ j # k
      BY <2>9
    <3>2. tid[j] # tid[k]
      BY <2>8, <3>1
    <3> QED  BY <2>2, <2>4, <2>7, <3>1, <3>2
  <2>10. \A i, j \in Conns : On(i, v)' /\ On(j, v)' /\ tid'[i] = tid'[j] => i = j
    BY <2>8
  <2> QED  BY <2>6, <2>9, <2>10 DEF OneOwner, p
<1> QED  BY <1>1, <1>2

\* Every step but one leaves the ids of a wheel in one place.
LEMMA OneOwnerStep ==
    ASSUME WheelsInv, [WheelsNext]_wheelsVars, NEW v \in Workers, OneOwner(v),
           \A k \in Conns : ~(Strays(k, v) /\ at'[k] = "gone")
    PROVE  OneOwner(v)'
<1> USE DEF WheelsInv
<1>1. ASSUME NEW w \in Workers, NEW k \in Conns, Accept(w, k) PROVE OneOwner(v)'
  BY <1>1, OneOwnerShrinks DEF Accept, Move, ioctxVars, WheelsTypeOK, On, Armed
<1>2. ASSUME NEW w \in Workers, MakeTimerFull(w) PROVE OneOwner(v)'
  <2>1. PICK k \in Conns :
           /\ freeids' = freeids /\ at' = [at EXCEPT ![k] = "ready"]
           /\ tid' = [tid EXCEPT ![k] = 0] /\ timers' = [timers EXCEPT ![k] = NoWheel]
    BY <1>2 DEF MakeTimerFull, Move
  <2>2. \A j \in Conns : On(j, v)' => On(j, v) /\ tid'[j] = tid[j]
    BY <2>1 DEF WheelsTypeOK, On
  <2> QED  BY <2>1, <2>2, OneOwnerShrinks
<1>3. ASSUME NEW w \in Workers, MakeTimer(w) PROVE OneOwner(v)'
  <2>1. PICK k \in Conns, u \in Workers :
           /\ at[k] = "arm" /\ freeids[u] # <<>>
           /\ freeids' = [freeids EXCEPT ![u] = SubSeq(@, 1, Len(@) - 1)]
           /\ tid' = [tid EXCEPT ![k] = freeids[u][Len(freeids[u])]]
           /\ timers' = [timers EXCEPT ![k] = u]
           /\ at' = [at EXCEPT ![k] = "ready"]
    BY <1>3 DEF MakeTimer, Move
  <2>2. \A j \in Conns : j # k => (On(j, v)' <=> On(j, v)) /\ tid'[j] = tid[j]
    BY <2>1 DEF WheelsTypeOK, On
  <2>3. ~On(k, v)
    BY <2>1 DEF On, Armed
  <2>4. CASE u # v
    <3>1. freeids'[v] = freeids[v] /\ ~On(k, v)'
      BY <2>1, <2>4 DEF WheelsTypeOK, On
    <3> QED  BY <2>2, <3>1, OneOwnerShrinks
  <2>5. CASE u = v
    <3> DEFINE s == freeids[v]
    <3>1. s \in Seq(Ids) /\ s # <<>>
      BY <2>1, <2>5 DEF WheelsTypeOK
    <3>2. /\ freeids'[v] = SubSeq(s, 1, Len(s) - 1) /\ tid'[k] = s[Len(s)]
      BY <2>1, <2>5 DEF WheelsTypeOK
    <3>3. /\ Len(s) \in Nat \ {0} /\ Len(freeids'[v]) = Len(s) - 1
          /\ \A i \in 1 .. Len(s) - 1 : freeids'[v][i] = s[i]
      BY <3>1, <3>2, PopSeq
    <3>4. \A i, j \in 1 .. Len(s) : s[i] = s[j] => i = j
      BY DEF OneOwner
    <3>5. \A i \in 1 .. Len(s) : \A j \in Conns : On(j, v) => tid[j] # s[i]
      BY DEF OneOwner
    <3>6. \A i, j \in Conns : On(i, v) /\ On(j, v) /\ tid[i] = tid[j] => i = j
      BY DEF OneOwner
    <3> HIDE DEF s
    <3>7. \A i, j \in 1 .. Len(freeids'[v]) : freeids'[v][i] = freeids'[v][j] => i = j
      BY <3>3, <3>4
    <3>8. \A i \in 1 .. Len(freeids'[v]) : freeids'[v][i] # s[Len(s)] /\ freeids'[v][i] = s[i]
      BY <3>3, <3>4
    <3>9. \A i \in 1 .. Len(freeids'[v]) : i \in 1 .. Len(s)
      BY <3>3
    <3>10. ASSUME NEW i \in 1 .. Len(freeids'[v]), NEW j \in Conns, On(j, v)'
           PROVE  tid'[j] # freeids'[v][i]
      BY <2>2, <3>2, <3>5, <3>8, <3>9, <3>10
    <3>11. Len(s) \in 1 .. Len(s)
      BY <3>3
    <3>12. \A j \in Conns : On(j, v) => tid[j] # tid'[k]
      BY <3>2, <3>5, <3>11
    <3>13. ASSUME NEW i \in Conns, NEW j \in Conns, On(i, v)', On(j, v)', tid'[i] = tid'[j]
           PROVE  i = j
      BY <2>2, <3>6, <3>12, <3>13
    <3> QED  BY <3>7, <3>10, <3>13 DEF OneOwner
  <2> QED  BY <2>4, <2>5
<1>4. ASSUME NEW w \in Workers, PostOk(w) PROVE OneOwner(v)'
  BY <1>4, OneOwnerShrinks DEF PostOk, Move, ioctxVars, WheelsTypeOK, On, Armed
<1>5. ASSUME NEW w \in Workers, PostFail(w) PROVE OneOwner(v)'
  <2>1. PICK k \in Conns :
           /\ at[k] = "ready" /\ at' = [at EXCEPT ![k] = "gone"]
           /\ RemoveTimerId(oldtimer[k][dir[k]], tid[k])
           /\ UNCHANGED <<timers, tid>>
    BY <1>5 DEF PostFail, Move
  <2> DEFINE u == oldtimer[k][dir[k]]
  <2>2. /\ ~On(k, v)' /\ at'[k] = "gone"
        /\ \A j \in Conns : On(j, v)' => On(j, v) /\ tid'[j] = tid[j]
    BY <2>1 DEF WheelsTypeOK, On, Armed
  <2>3. \/ freeids' = freeids
        \/ Known(u, tid[k]) /\ freeids' = [freeids EXCEPT ![u] = <<tid[k]>> \o @]
    BY <2>1 DEF RemoveTimerId
  <2>4. CASE freeids' = freeids
    BY <2>2, <2>4, OneOwnerShrinks
  <2>5. CASE Known(u, tid[k]) /\ freeids' = [freeids EXCEPT ![u] = <<tid[k]>> \o @]
    <3>1. tid[k] # 0 /\ u \in Workers
      BY <2>5 DEF Known, Ids
    <3>2. CASE u # v
      <4>1. freeids'[v] = freeids[v]
        BY <2>5, <3>2 DEF WheelsTypeOK
      <4> QED  BY <2>2, <4>1, OneOwnerShrinks
    <3>3. CASE u = v
      <4>1. timers[k] = v
        BY <2>1, <2>2, <3>1, <3>3 DEF Strays
      <4>2. On(k, v)
        BY <2>1, <3>1, <4>1 DEF On, Armed
      <4>3. freeids'[v] = <<tid[k]>> \o freeids[v]
        BY <2>5, <3>3 DEF WheelsTypeOK
      <4> QED  BY <2>2, <4>2, <4>3, OneOwnerReturns
    <3> QED  BY <3>2, <3>3
  <2> QED  BY <2>3, <2>4, <2>5
<1>6. ASSUME NEW k \in Conns, Complete(k) PROVE OneOwner(v)'
  BY <1>6, OneOwnerShrinks DEF Complete, Move, ioctxVars, WheelsTypeOK, On, Armed
<1>7. ASSUME NEW w \in Workers, NEW k \in Conns, Dequeue(w, k) PROVE OneOwner(v)'
  BY <1>7, OneOwnerShrinks DEF Dequeue, Move, ioctxVars, WheelsTypeOK, On, Armed
<1>8. ASSUME NEW w \in Workers, TakeDown(w) PROVE OneOwner(v)'
  <2>1. PICK k \in Conns :
           /\ at[k] = "event" /\ at' = [at EXCEPT ![k] = "handle"]
           /\ IF timed[k] THEN RemoveTimerId(ot[k], tid[k]) ELSE UNCHANGED <<freeids, timed>>
           /\ UNCHANGED <<timers, tid>>
    BY <1>8 DEF TakeDown, Move
  <2>2. /\ ~On(k, v)'
        /\ \A j \in Conns : On(j, v)' => On(j, v) /\ tid'[j] = tid[j]
    BY <2>1 DEF WheelsTypeOK, On, Armed
  <2>3. \/ freeids' = freeids
        \/ /\ timed[k] /\ Known(ot[k], tid[k])
           /\ freeids' = [freeids EXCEPT ![ot[k]] = <<tid[k]>> \o @]
    BY <2>1 DEF RemoveTimerId, WheelsTypeOK
  <2>4. CASE freeids' = freeids
    BY <2>2, <2>4, OneOwnerShrinks
  <2>5. CASE /\ timed[k] /\ Known(ot[k], tid[k])
             /\ freeids' = [freeids EXCEPT ![ot[k]] = <<tid[k]>> \o @]
    <3>1. ot[k] \in Workers /\ timers[k] = ot[k] /\ tid[k] # 0
      BY <2>1, <2>5 DEF Known, SameWheel, Armed
    <3>2. CASE ot[k] # v
      <4>1. freeids'[v] = freeids[v]
        BY <2>5, <3>2 DEF WheelsTypeOK
      <4> QED  BY <2>2, <4>1, OneOwnerShrinks
    <3>3. CASE ot[k] = v
      <4>1. On(k, v)
        BY <2>1, <3>1, <3>3 DEF On, Armed
      <4>2. freeids'[v] = <<tid[k]>> \o freeids[v]
        BY <2>5, <3>3 DEF WheelsTypeOK
      <4> QED  BY <2>2, <4>1, <4>2, OneOwnerReturns
    <3> QED  BY <3>2, <3>3
  <2> QED  BY <2>3, <2>4, <2>5
<1>9. ASSUME NEW w \in Workers, HandleNext(w) PROVE OneOwner(v)'
  BY <1>9, OneOwnerShrinks DEF HandleNext, Move, ioctxVars, WheelsTypeOK, On, Armed
<1>10. ASSUME NEW w \in Workers, HandleLast(w) PROVE OneOwner(v)'
  BY <1>10, OneOwnerShrinks DEF HandleLast, Move, ioctxVars, WheelsTypeOK, On, Armed
<1>11. CASE UNCHANGED wheelsVars
  BY <1>11, OneOwnerShrinks DEF wheelsVars, ioctxVars, On
<1> QED
  BY <1>1, <1>2, <1>3, <1>4, <1>5, <1>6, <1>7, <1>8, <1>9, <1>10, <1>11
  DEF WheelsNext, Drive

\* An id gets a second place only by the failed post of a connection that has
\* moved to another wheel.
THEOREM IdsBreakOneWayOnly == WheelsSpec => OneOwnerBreaks
<1>1. ASSUME WheelsInv, [WheelsNext]_wheelsVars
      PROVE  [\A v \in Workers : OneOwner(v) /\ ~OneOwner(v)' =>
                 \E k \in Conns : Strays(k, v) /\ at'[k] = "gone"]_wheelsVars
  BY <1>1, OneOwnerStep
<1> QED  BY <1>1, WheelsInvHolds, PTL DEF WheelsSpec, OneOwnerBreaks

=============================================================================
