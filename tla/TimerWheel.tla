----------------------------- MODULE TimerWheel -----------------------------
(***************************************************************************)
(* The timer wheel of one worker thread (whstruc, typs.h): WHLCST slots of *)
(* timer ids, a pool of free ids, the multimedia callback that advances    *)
(* the cursor crs once per tick and cancels expired operations, and the    *)
(* worker threads that arm a timer before they post an overlapped          *)
(* operation (maketimer) and disarm it when its completion is dequeued     *)
(* (handle_event, removetimerid).                                          *)
(*                                                                         *)
(* An element of Ops is one overlapped-operation slot of a connection: at  *)
(* most one operation of it is in flight, and every operation of it is     *)
(* timed on this wheel.  The slot lock lst[s].lock is held over several    *)
(* steps only by the callback; the pool lock timersmute never outlives a   *)
(* step.                                                                   *)
(***************************************************************************)
EXTENDS Integers, Sequences, FiniteSets

CONSTANTS
    WHLCST,     \* number of slots (60000 in the source)
    ATSIZEA,    \* size of timers[]; id 0 is never handed out
    Timeout,    \* the ticks every operation is allowed (50 in the source)
    Ops,        \* operation slots
    NoOp        \* the null IoCtx pointer

\* 50 and 60000 in the code.  The upper bound is what keeps the slot of a new
\* timer apart from the slot the callback is about to lock.
ASSUME WheelAssumption ==
    /\ WHLCST \in Nat
    /\ ATSIZEA \in Nat \ {0}
    /\ Timeout \in 1 .. (WHLCST - 2)
    /\ NoOp \notin Ops

Slots == 0 .. (WHLCST - 1)
Ids   == 1 .. (ATSIZEA - 1)

VARIABLES
    crs,                \* the cursor: the slot the next tick visits
    lst,                \* slot -> sequence of timer ids
    freeids,            \* the pool, a list
    wheelpos,           \* timers[id].wheelpos
    index_in_bucket,    \* timers[id].index_in_bucket, counted from 0
    rounds,             \* timers[id].rounds
    hasTouchedByWorker, \* timers[id].os.hasTouchedByWorker
    ioc,                \* timers[id].os.ioc
    cbpc, cur, curvec,  \* the callback: where it is, its slot, its local vector
    pc,                 \* operation slot -> where its thread (or the I/O) is
    aux,                \* the value of crs its thread has read
    tid,                \* IoCtx.tid; 0 = not timed
    left,               \* ghost: ticks left until Timeout + 1 have passed
    cancelled,          \* which CancelIoEx hit the posted operation
    oldwheel,           \* c->oldtimer... is this wheel (else it is null)
    orphaned            \* ghost: ids whose post failed before it had an old wheel

wheelVars == <<crs, lst, freeids>>
timerVars == <<wheelpos, index_in_bucket, rounds, hasTouchedByWorker, ioc>>
cbVars    == <<cbpc, cur, curvec>>
opVars    == <<pc, aux, tid, left, cancelled, oldwheel, orphaned>>
vars      == <<wheelVars, timerVars, cbVars, opVars>>

-----------------------------------------------------------------------------
(* Sequences as the source's containers use them. *)

InSeq(x, s) == \E i \in 1 .. Len(s) : s[i] = x

\* Mutated SwapPop: the last entry leaves, whichever entry was asked for.
SwapPopLast(s, idx) == SubSeq(s, 1, Len(s) - 1)

\* lst[idx] = lst.back(); lst.pop_back().  An idx past the end writes into
\* memory the vector does not own (left out), and the pop still happens.
SwapPop(s, idx) ==
    [i \in 1 .. Len(s) - 1 |-> IF i = idx + 1 THEN s[Len(s)] ELSE s[i]]

AllIds == [i \in 1 .. ATSIZEA - 1 |-> i]

Init ==
    /\ crs = WHLCST - 1
    /\ lst = [s \in Slots |-> <<>>]
    /\ freeids = AllIds
    /\ wheelpos = [id \in Ids |-> 0]
    /\ index_in_bucket = [id \in Ids |-> 0]
    /\ rounds = [id \in Ids |-> 0]
    /\ hasTouchedByWorker = [id \in Ids |-> FALSE]
    /\ ioc = [id \in Ids |-> NoOp]
    /\ cbpc = "idle" /\ cur = 0 /\ curvec = <<>>
    /\ pc = [o \in Ops |-> "idle"]
    /\ aux = [o \in Ops |-> 0]
    /\ tid = [o \in Ops |-> 0]
    /\ left = [o \in Ops |-> 0]
    /\ cancelled = [o \in Ops |-> "no"]
    /\ oldwheel = [o \in Ops |-> FALSE]
    /\ orphaned = {}

\* The callback holds lst[s].lock.
SlotLocked(s) == cbpc = "loop" /\ cur = s

-----------------------------------------------------------------------------
(* maketimer: three critical sections, and ticks pass between them. *)

MakeTimerRead(o) ==
    /\ pc[o] = "idle"
    /\ pc' = [pc EXCEPT ![o] = "alloc"]
    /\ aux' = [aux EXCEPT ![o] = crs]
    /\ left' = [left EXCEPT ![o] = Timeout + 1]
    /\ UNCHANGED <<wheelVars, timerVars, cbVars, tid, cancelled, oldwheel, orphaned>>

\* Mutated WheelNum: one slot too near.
WheelNumNear(o) == (aux[o] + Timeout - 1) % WHLCST

WheelNum(o)  == (aux[o] + Timeout) % WHLCST
RoundsFor(o) == (aux[o] + Timeout) \div WHLCST

\* The pool is empty: the operation runs without a timer.
MakeTimerFull(o) ==
    /\ pc[o] = "alloc"
    /\ freeids = <<>>
    /\ pc' = [pc EXCEPT ![o] = "ready"]
    /\ aux' = [aux EXCEPT ![o] = 0]
    /\ UNCHANGED <<wheelVars, timerVars, cbVars, tid, left, cancelled, oldwheel, orphaned>>

MakeTimerAlloc(o) ==
    /\ pc[o] = "alloc"
    /\ freeids # <<>>
    /\ LET myid == freeids[Len(freeids)] IN
       /\ freeids' = SubSeq(freeids, 1, Len(freeids) - 1)
       /\ wheelpos' = [wheelpos EXCEPT ![myid] = WheelNum(o)]
       /\ index_in_bucket' = [index_in_bucket EXCEPT ![myid] = 0]
       /\ rounds' = [rounds EXCEPT ![myid] = RoundsFor(o)]
       /\ hasTouchedByWorker' = [hasTouchedByWorker EXCEPT ![myid] = FALSE]
       /\ ioc' = [ioc EXCEPT ![myid] = o]
       /\ tid' = [tid EXCEPT ![o] = myid]
    /\ pc' = [pc EXCEPT ![o] = "insert"]
    /\ UNCHANGED <<crs, lst, cbVars, aux, left, cancelled, oldwheel, orphaned>>

MakeTimerInsert(o) ==
    /\ pc[o] = "insert"
    /\ LET slot == WheelNum(o) IN
       /\ ~SlotLocked(slot)
       /\ index_in_bucket' = [index_in_bucket EXCEPT ![tid[o]] = Len(lst[slot])]
       /\ lst' = [lst EXCEPT ![slot] = Append(@, tid[o])]
    /\ pc' = [pc EXCEPT ![o] = "ready"]
    /\ aux' = [aux EXCEPT ![o] = 0]
    /\ UNCHANGED <<crs, freeids, wheelpos, rounds, hasTouchedByWorker, ioc, cbVars,
                   tid, left, cancelled, oldwheel, orphaned>>

-----------------------------------------------------------------------------
(* post_recv, post_send: WSARecv or WSASend after maketimer has returned. *)

PostOk(o) ==
    /\ pc[o] = "ready"
    /\ pc' = [pc EXCEPT ![o] = "posted"]
    /\ UNCHANGED <<wheelVars, timerVars, cbVars, aux, tid, left, cancelled, oldwheel, orphaned>>

\* The call fails at once: removetimerid is given the OLD wheel.  It is null on
\* the first post of a connection, and then the new timer stays armed on a
\* context that is deleted; freesock ends the connection either way.
PostFail(o) ==
    /\ pc[o] = "ready"
    /\ oldwheel' = [oldwheel EXCEPT ![o] = FALSE]
    /\ IF oldwheel[o] /\ tid[o] # 0
       THEN /\ pc' = [pc EXCEPT ![o] = "unpost"]
            /\ UNCHANGED <<tid, left, orphaned>>
       ELSE /\ pc' = [pc EXCEPT ![o] = "idle"]
            /\ tid' = [tid EXCEPT ![o] = 0]
            /\ left' = [left EXCEPT ![o] = 0]
            /\ orphaned' = orphaned \cup ({tid[o]} \ {0})
    /\ UNCHANGED <<wheelVars, timerVars, cbVars, aux, cancelled>>

\* The peer's bytes, its FIN or an error end the operation.
Complete(o) ==
    /\ pc[o] = "posted"
    /\ cancelled[o] = "no"
    /\ pc' = [pc EXCEPT ![o] = "done"]
    /\ UNCHANGED <<wheelVars, timerVars, cbVars, aux, tid, left, cancelled, oldwheel, orphaned>>

\* The I/O manager queues the completion of a cancelled operation.
Abort(o) ==
    /\ pc[o] = "posted"
    /\ cancelled[o] # "no"
    /\ pc' = [pc EXCEPT ![o] = "done"]
    /\ UNCHANGED <<wheelVars, timerVars, cbVars, aux, tid, left, cancelled, oldwheel, orphaned>>

-----------------------------------------------------------------------------
(* handle_event, before it looks at the result: take the timer down. *)

Touch(o) ==
    /\ pc[o] = "done"
    /\ oldwheel' = [oldwheel EXCEPT ![o] = TRUE]
    /\ cancelled' = [cancelled EXCEPT ![o] = "no"]
    /\ left' = [left EXCEPT ![o] = 0]
    /\ IF tid[o] # 0
       THEN /\ hasTouchedByWorker' = [hasTouchedByWorker EXCEPT ![tid[o]] = TRUE]
            /\ pc' = [pc EXCEPT ![o] = "touched"]
       ELSE /\ pc' = [pc EXCEPT ![o] = "idle"]
            /\ UNCHANGED hasTouchedByWorker
    /\ UNCHANGED <<wheelVars, wheelpos, index_in_bucket, rounds, ioc, cbVars,
                   aux, tid, orphaned>>

RemoveRead(o) ==
    /\ pc[o] \in {"touched", "unpost"}
    /\ aux' = [aux EXCEPT ![o] = crs]
    /\ pc' = [pc EXCEPT ![o] = "remove"]
    /\ UNCHANGED <<wheelVars, timerVars, cbVars, tid, left, cancelled, oldwheel, orphaned>>

\* removetimerid, pos == aux: the slot is next, so the entry is only marked and
\* the callback drops it.  The id does not return to the pool.
RemoveMark(o) ==
    /\ pc[o] = "remove"
    /\ wheelpos[tid[o]] = aux[o]
    /\ ~SlotLocked(wheelpos[tid[o]])
    /\ hasTouchedByWorker' = [hasTouchedByWorker EXCEPT ![tid[o]] = TRUE]
    /\ pc' = [pc EXCEPT ![o] = "idle"]
    /\ aux' = [aux EXCEPT ![o] = 0]
    /\ tid' = [tid EXCEPT ![o] = 0]
    /\ left' = [left EXCEPT ![o] = 0]
    /\ UNCHANGED <<wheelVars, wheelpos, index_in_bucket, rounds, ioc, cbVars,
                   cancelled, oldwheel, orphaned>>

\* Mutated RemoveUnlink: the id does not go back to the pool.
RemoveUnlinkKeepsId(o) ==
    /\ pc[o] = "remove"
    /\ LET pos == wheelpos[tid[o]]
           idx == index_in_bucket[tid[o]]
       IN  /\ pos # aux[o]
           /\ ~SlotLocked(pos)
           /\ IF lst[pos] # <<>>
              THEN /\ lst' = [lst EXCEPT ![pos] = SwapPop(@, idx)]
                   /\ index_in_bucket' =
                        [index_in_bucket EXCEPT ![lst[pos][Len(lst[pos])]] = idx]
              ELSE UNCHANGED <<lst, index_in_bucket>>
    /\ pc' = [pc EXCEPT ![o] = "idle"]
    /\ aux' = [aux EXCEPT ![o] = 0]
    /\ tid' = [tid EXCEPT ![o] = 0]
    /\ left' = [left EXCEPT ![o] = 0]
    /\ UNCHANGED <<crs, freeids, wheelpos, rounds, hasTouchedByWorker, ioc, cbVars,
                   cancelled, oldwheel, orphaned>>

\* removetimerid, otherwise: whatever stands at index_in_bucket leaves a
\* non-empty slot, the last entry takes its place, and the id is free again.
RemoveUnlink(o) ==
    /\ pc[o] = "remove"
    /\ LET id  == tid[o]
           pos == wheelpos[tid[o]]
           idx == index_in_bucket[tid[o]]
       IN  /\ pos # aux[o]
           /\ ~SlotLocked(pos)
           /\ IF lst[pos] # <<>>
              THEN /\ lst' = [lst EXCEPT ![pos] = SwapPop(@, idx)]
                   /\ index_in_bucket' =
                        [index_in_bucket EXCEPT ![lst[pos][Len(lst[pos])]] = idx]
              ELSE UNCHANGED <<lst, index_in_bucket>>
           /\ freeids' = <<id>> \o freeids
    /\ pc' = [pc EXCEPT ![o] = "idle"]
    /\ aux' = [aux EXCEPT ![o] = 0]
    /\ tid' = [tid EXCEPT ![o] = 0]
    /\ left' = [left EXCEPT ![o] = 0]
    /\ UNCHANGED <<crs, wheelpos, rounds, hasTouchedByWorker, ioc, cbVars,
                   cancelled, oldwheel, orphaned>>

\* freesock ends the connection; the slot serves a new one, with no old wheel.
Recycle(o) ==
    /\ pc[o] = "idle"
    /\ oldwheel[o]
    /\ oldwheel' = [oldwheel EXCEPT ![o] = FALSE]
    /\ UNCHANGED <<wheelVars, timerVars, cbVars, pc, aux, tid, left, cancelled, orphaned>>

-----------------------------------------------------------------------------
(* wheel_callback: one call per tick, calls never overlap. *)

\* Mutated CbAdvance: the cursor wraps one slot late.
CbAdvanceLateWrap ==
    /\ cbpc = "idle"
    /\ cbpc' = "lock"
    /\ cur' = crs
    /\ crs' = IF crs = WHLCST THEN 0 ELSE crs + 1
    /\ left' = [o \in Ops |-> IF left[o] > 0 THEN left[o] - 1 ELSE 0]
    /\ UNCHANGED <<lst, freeids, timerVars, curvec, pc, aux, tid, cancelled, oldwheel, orphaned>>

CbAdvance ==
    /\ cbpc = "idle"
    /\ cbpc' = "lock"
    /\ cur' = crs
    /\ crs' = IF crs = WHLCST - 1 THEN 0 ELSE crs + 1
    /\ left' = [o \in Ops |-> IF left[o] > 0 THEN left[o] - 1 ELSE 0]
    /\ UNCHANGED <<lst, freeids, timerVars, curvec, pc, aux, tid, cancelled, oldwheel, orphaned>>

CbSwap ==
    /\ cbpc = "lock"
    /\ cbpc' = "loop"
    /\ curvec' = lst[cur]
    /\ lst' = [lst EXCEPT ![cur] = <<>>]
    /\ UNCHANGED <<crs, freeids, timerVars, cur, opVars>>

CbDrop ==
    /\ cbpc = "loop" /\ curvec # <<>>
    /\ hasTouchedByWorker[Head(curvec)]
    /\ curvec' = Tail(curvec)
    /\ UNCHANGED <<wheelVars, timerVars, cbpc, cur, opVars>>

\* What CancelIoEx(sock, ovP) of timer id hits: the operation it was armed for
\* while that is pending; for a context that is gone, nothing or whatever is
\* pending at the same address on the same handle.
CancelIoEx(id) ==
    LET o == ioc[id] IN
    \/ /\ tid[o] = id
       /\ cancelled' = IF pc[o] = "posted" /\ cancelled[o] = "no"
                       THEN [cancelled EXCEPT ![o] = "own"] ELSE cancelled
    \/ /\ tid[o] # id
       /\ UNCHANGED cancelled
    \/ /\ tid[o] # id /\ pc[o] = "posted" /\ cancelled[o] = "no"
       /\ cancelled' = [cancelled EXCEPT ![o] = "stray"]

\* Mutated CbFire: a timer that a worker has taken over fires all the same.
CbFireTouched ==
    /\ cbpc = "loop" /\ curvec # <<>>
    /\ rounds[Head(curvec)] = 0
    /\ CancelIoEx(Head(curvec))
    /\ curvec' = Tail(curvec)
    /\ UNCHANGED <<wheelVars, timerVars, cbpc, cur, pc, aux, tid, left, oldwheel, orphaned>>

CbFire ==
    /\ cbpc = "loop" /\ curvec # <<>>
    /\ ~hasTouchedByWorker[Head(curvec)]
    /\ rounds[Head(curvec)] = 0
    /\ CancelIoEx(Head(curvec))
    /\ curvec' = Tail(curvec)
    /\ UNCHANGED <<wheelVars, timerVars, cbpc, cur, pc, aux, tid, left, oldwheel, orphaned>>

\* Mutated CbRequeue: the index is taken after the push.
CbRequeueIndexLate ==
    /\ cbpc = "loop" /\ curvec # <<>>
    /\ LET dw == Head(curvec) IN
       /\ ~hasTouchedByWorker[dw]
       /\ rounds[dw] # 0
       /\ index_in_bucket' = [index_in_bucket EXCEPT ![dw] = Len(lst[cur]) + 1]
       /\ lst' = [lst EXCEPT ![cur] = Append(@, dw)]
       /\ rounds' = [rounds EXCEPT ![dw] = @ - 1]
    /\ curvec' = Tail(curvec)
    /\ UNCHANGED <<crs, freeids, wheelpos, hasTouchedByWorker, ioc, cbpc, cur, opVars>>

\* Mutated CbRequeue: the round is counted, the entry is not put back.
CbRequeueForgets ==
    /\ cbpc = "loop" /\ curvec # <<>>
    /\ ~hasTouchedByWorker[Head(curvec)]
    /\ rounds[Head(curvec)] # 0
    /\ rounds' = [rounds EXCEPT ![Head(curvec)] = @ - 1]
    /\ curvec' = Tail(curvec)
    /\ UNCHANGED <<wheelVars, wheelpos, index_in_bucket, hasTouchedByWorker, ioc,
                   cbpc, cur, opVars>>

\* Mutated CbRequeue: the entry is put back, the round is not counted.
CbRequeueSameRound ==
    /\ cbpc = "loop" /\ curvec # <<>>
    /\ LET dw == Head(curvec) IN
       /\ ~hasTouchedByWorker[dw]
       /\ rounds[dw] # 0
       /\ index_in_bucket' = [index_in_bucket EXCEPT ![dw] = Len(lst[cur])]
       /\ lst' = [lst EXCEPT ![cur] = Append(@, dw)]
    /\ curvec' = Tail(curvec)
    /\ UNCHANGED <<crs, freeids, wheelpos, rounds, hasTouchedByWorker, ioc, cbpc, cur, opVars>>

CbRequeue ==
    /\ cbpc = "loop" /\ curvec # <<>>
    /\ LET dw == Head(curvec) IN
       /\ ~hasTouchedByWorker[dw]
       /\ rounds[dw] # 0
       /\ index_in_bucket' = [index_in_bucket EXCEPT ![dw] = Len(lst[cur])]
       /\ lst' = [lst EXCEPT ![cur] = Append(@, dw)]
       /\ rounds' = [rounds EXCEPT ![dw] = @ - 1]
    /\ curvec' = Tail(curvec)
    /\ UNCHANGED <<crs, freeids, wheelpos, hasTouchedByWorker, ioc, cbpc, cur, opVars>>

CbDone ==
    /\ cbpc = "loop" /\ curvec = <<>>
    /\ cbpc' = "idle"
    /\ cur' = 0
    /\ UNCHANGED <<wheelVars, timerVars, curvec, opVars>>

-----------------------------------------------------------------------------
MakeTimer(o)     == MakeTimerRead(o) \/ MakeTimerFull(o) \/ MakeTimerAlloc(o) \/ MakeTimerInsert(o)
Io(o)            == PostOk(o) \/ PostFail(o) \/ Complete(o) \/ Abort(o)
RemoveTimerId(o) == RemoveRead(o) \/ RemoveMark(o) \/ RemoveUnlink(o)
Callback         == CbAdvance \/ CbSwap \/ CbDrop \/ CbFire \/ CbRequeue \/ CbDone

Next ==
    \/ \E o \in Ops : MakeTimer(o) \/ Io(o) \/ Touch(o) \/ RemoveTimerId(o) \/ Recycle(o)
    \/ Callback

Spec == Init /\ [][Next]_vars

\* The periodic multimedia timer keeps calling back, and the system completes
\* what it was told to cancel.  Nothing is assumed of worker threads or peers.
Fairness == WF_vars(Callback) /\ \A o \in Ops : WF_vars(Abort(o))

FairSpec == Spec /\ Fairness

-----------------------------------------------------------------------------
PCs == {"idle", "alloc", "insert", "ready", "posted", "done", "touched", "unpost", "remove"}

\* Every variable has its type.
TypeOK ==
    /\ crs \in Slots
    /\ lst \in [Slots -> Seq(Ids)]
    /\ freeids \in Seq(Ids)
    /\ wheelpos \in [Ids -> Slots]
    /\ index_in_bucket \in [Ids -> Nat]
    /\ rounds \in [Ids -> {0, 1}]
    /\ hasTouchedByWorker \in [Ids -> BOOLEAN]
    /\ ioc \in [Ids -> Ops \cup {NoOp}]
    /\ cbpc \in {"idle", "lock", "loop"}
    /\ cur \in Slots
    /\ curvec \in Seq(Ids)
    /\ pc \in [Ops -> PCs]
    /\ aux \in [Ops -> Slots]
    /\ tid \in [Ops -> Ids \cup {0}]
    /\ left \in [Ops -> 0 .. (Timeout + 1)]
    /\ cancelled \in [Ops -> {"no", "own", "stray"}]
    /\ oldwheel \in [Ops -> BOOLEAN]
    /\ orphaned \in SUBSET Ids

InWheel(id) == (\E s \in Slots : InSeq(id, lst[s])) \/ InSeq(id, curvec)
Owned(id)   == \E o \in Ops : tid[o] = id

\* An entry of a slot knows where it stands: removetimerid finds a linked timer
\* through wheelpos and index_in_bucket alone (worker.h never searches), and
\* the swap-and-pop and the callback's requeue both have to keep it true.
BucketsIndexed ==
    \A s \in Slots : \A i \in 1 .. Len(lst[s]) :
        /\ wheelpos[lst[s][i]] = s
        /\ index_in_bucket[lst[s][i]] = i - 1

\* A timer id has one place: twice in the pool, pooled while an operation
\* carries it or a slot lists it, or carried by two operations would hand one
\* timer to two connections.
OneOwner ==
    /\ \A i, j \in 1 .. Len(freeids) : freeids[i] = freeids[j] => i = j
    /\ \A i \in 1 .. Len(freeids) : ~Owned(freeids[i]) /\ ~InWheel(freeids[i])
    /\ \A o, p \in Ops : tid[o] = tid[p] /\ tid[o] # 0 => o = p

\* The wheel never times an operation out before its Timeout has passed since
\* maketimer read the cursor, however maketimer and the callback interleave.
NeverEarly == \A o \in Ops : cancelled[o] = "own" => left[o] = 0

\* CancelIoEx hits an operation the firing timer was not armed for only when an
\* earlier post failed and left its timer behind in the wheel.
StrayOnlyAfterFailedPost ==
    (\E o \in Ops : cancelled[o] = "stray") => orphaned # {}

\* The timer of a posted operation is still going to act.
Watched(o) == pc[o] = "posted" /\ tid[o] # 0 /\ cancelled[o] = "no" /\ InWheel(tid[o])

\* p is about to take out of its slot an entry that is not its own, because the
\* callback has taken its own entry out before.
StaleUnlink(p) ==
    /\ pc[p] = "remove"
    /\ wheelpos[tid[p]] # aux[p]
    /\ ~InSeq(tid[p], lst[wheelpos[tid[p]]])
    /\ lst[wheelpos[tid[p]]] # <<>>

\* A pending operation loses its timer in one way only: another operation's
\* removetimerid, late behind the callback, pops an entry that is not its own.
LostOnlyByStaleUnlink ==
    [][\A o \in Ops :
          Watched(o) /\ pc'[o] = "posted" /\ ~Watched(o)' /\ cancelled'[o] = "no"
          => \E p \in Ops : StaleUnlink(p)]_vars

\* A pending operation whose timer stays in the wheel does not wait for ever.
WatchedTimesOut == \A o \in Ops : Watched(o) ~> ~Watched(o)

\* Ticks until the callback next takes the entries of slot s.
Dist(s) ==
    IF cbpc = "lock" /\ s = cur THEN 0
    ELSE IF s >= crs THEN s - crs + 1 ELSE s + WHLCST - crs + 1

\* The id is in nobody's hands: no maketimer can ever find it again.
Leaked(id) == ~InSeq(id, freeids) /\ ~Owned(id) /\ ~InWheel(id)

\* The pool shrinks for good, until operations run without timers, and an id is
\* lost to it in three ways only: the post it was armed for failed before there
\* was an old wheel; its removal met the cursor after the callback had fired it;
\* or its removal met the cursor, and what it left marked in the slot has gone.
LeakWays ==
    [][\A id \in Ids :
          ~Leaked(id) /\ Leaked(id)' =>
             \/ id \in orphaned'
             \/ \E o \in Ops : pc[o] = "remove" /\ tid[o] = id
                               /\ wheelpos[id] = aux[o] /\ ~InWheel(id)
             \/ ~Owned(id) /\ hasTouchedByWorker[id]]_vars

-----------------------------------------------------------------------------
(* The wheel implements Timers: an operation's timer is armed while it is in   *)
(* the wheel and no worker has taken it over.                                 *)

TimerOf(o) ==
    CASE pc[o] \in {"touched", "unpost", "remove"} -> "closing"
      [] pc[o] \in {"ready", "posted", "done"} /\ tid[o] # 0 ->
            IF InWheel(tid[o]) THEN "armed" ELSE "gone"
      [] OTHER -> "off"

\* Ticks until the callback fires id, which is in the wheel: the entries in the
\* callback's hands have had this turn.
Remaining(id) ==
    WHLCST * rounds[id] + IF InSeq(id, curvec) THEN 0 ELSE Dist(wheelpos[id])

DueOf(o) == IF TimerOf(o) = "armed" THEN Remaining(tid[o]) ELSE 0

AskedOf(o) == IF pc[o] \in {"alloc", "insert", "ready", "posted", "done"} THEN left[o] ELSE 0

IoOf(o) ==
    CASE pc[o] = "posted" /\ cancelled[o] = "no"    -> "pending"
      [] pc[o] = "posted" /\ cancelled[o] = "own"   -> "expired"
      [] pc[o] = "posted" /\ cancelled[o] = "stray" -> "struck"
      [] pc[o] = "done" -> "over"
      [] OTHER -> "none"

Timers ==
    INSTANCE Timers WITH
        Turn      <- WHLCST,
        asked     <- [o \in Ops |-> AskedOf(o)],
        timer     <- [o \in Ops |-> TimerOf(o)],
        due       <- [o \in Ops |-> DueOf(o)],
        io        <- [o \in Ops |-> IoOf(o)],
        forgotten <- orphaned # {}

\* However the three steps of maketimer, the two of a removal and the callback
\* interleave, every operation sees the timers that Timers describes: due on
\* time or one whole turn late, fired in the tick they are due, and gone before
\* that only to the late removal of another.
TimersKept == Timers!Spec

\* typs.h:143 and worker.h:22 (ms_time): the timeout is a number of ticks.  An
\* operation posted within the tick in which maketimer read the cursor is due
\* Timeout + 1 ticks later.
ScheduledOnTime ==
    \A o \in Ops :
        pc[o] = "posted" /\ tid[o] # 0 /\ left[o] = Timeout + 1
        => Dist(wheelpos[tid[o]]) + WHLCST * rounds[tid[o]] = Timeout + 1

\* wstruc.h:159, "unlink, then add to the free list": what a removal takes out
\* of a slot is the timer it was called for.
RemovalUnlinksOwn ==
    [][\A o, p \in Ops :
          pc[o] = "remove" /\ pc'[o] = "idle" /\ o # p /\ tid[p] # 0 /\ tid'[p] = tid[p]
          => (InWheel(tid[p]) => InWheel(tid[p])')]_vars

=============================================================================
