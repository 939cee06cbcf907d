------------------------------- MODULE Wheels -------------------------------
(***************************************************************************)
(* The timer wheels of all workers together, as far as the ids of timers   *)
(* go.  Every worker has a wheel, and a connection moves between them: it  *)
(* is armed on the wheel of the worker that handled its last completion,   *)
(* and taken down by the worker that handles the next one.  Where          *)
(* TimerWheel follows one wheel slot by slot, this module follows the      *)
(* pools of several wheels, the records' pointers to operations, and the   *)
(* four wheel pointers of a ConnCtx.                                       *)
(*                                                                         *)
(* What slot an entry stands in is left out: whether removetimerid meets   *)
(* the cursor is a choice, and a timer that fires is one of the ways in    *)
(* which a pending operation completes.                                    *)
(***************************************************************************)
EXTENDS Integers, Sequences

CONSTANTS
    Workers,    \* worker threads, each of which names its wheel
    Conns,      \* ConnCtx objects; each serves one client
    NoWheel,    \* the null whstruc pointer
    NoConn,     \* the null IoCtx (or ConnCtx) pointer
    ATSIZEA     \* size of timers[]; id 0 is never handed out

ASSUME WheelsAssumption ==
    /\ ATSIZEA \in Nat \ {0}
    /\ NoWheel \notin Workers
    /\ NoConn \notin Conns

Ids        == 1 .. (ATSIZEA - 1)
Directions == {"recv", "send"}

VARIABLES
    freeids,    \* wheel -> the pool, a list
    ioc,        \* wheel -> id -> whose IoCtx timers[id].os.ioc points to
    c,          \* worker -> the connection it drives
    at,         \* connection -> how far its operation is
    dir,        \* connection -> the type of that operation
    newtimer,   \* connection -> direction -> newtimerrecv, newtimersend
    oldtimer,   \* connection -> direction -> oldtimerrecv, oldtimersend
    ot,         \* connection -> the wheel handle_event works on
    timers, tid, timed  \* fields of the operation's IoCtx; tid 0 = none

ioctxVars == <<timers, tid, timed>>
wheelsVars == <<freeids, ioc, c, at, dir, newtimer, oldtimer, ot, ioctxVars>>

\* Mutated WheelsInit: the pool is filled from 0.
WheelsInitFromZero ==
    /\ freeids = [v \in Workers |-> [i \in 1 .. ATSIZEA |-> i - 1]]
    /\ ioc = [v \in Workers |-> [id \in Ids |-> NoConn]]
    /\ c = [w \in Workers |-> NoConn]
    /\ at = [k \in Conns |-> "none"]
    /\ dir = [k \in Conns |-> "recv"]
    /\ newtimer = [k \in Conns |-> [d \in Directions |-> NoWheel]]
    /\ oldtimer = [k \in Conns |-> [d \in Directions |-> NoWheel]]
    /\ ot = [k \in Conns |-> NoWheel]
    /\ timers = [k \in Conns |-> NoWheel]
    /\ tid = [k \in Conns |-> 0]
    /\ timed = [k \in Conns |-> FALSE]

WheelsInit ==
    /\ freeids = [v \in Workers |-> [i \in 1 .. ATSIZEA - 1 |-> i]]
    /\ ioc = [v \in Workers |-> [id \in Ids |-> NoConn]]
    /\ c = [w \in Workers |-> NoConn]
    /\ at = [k \in Conns |-> "none"]
    /\ dir = [k \in Conns |-> "recv"]
    /\ newtimer = [k \in Conns |-> [d \in Directions |-> NoWheel]]
    /\ oldtimer = [k \in Conns |-> [d \in Directions |-> NoWheel]]
    /\ ot = [k \in Conns |-> NoWheel]
    /\ timers = [k \in Conns |-> NoWheel]
    /\ tid = [k \in Conns |-> 0]
    /\ timed = [k \in Conns |-> FALSE]

Move(k, l) == at' = [at EXCEPT ![k] = l]

\* k's operation is timed by timer id of wheel v; its IoCtx is allocated.
Armed     == {"ready", "pending", "queued", "event"}
On(k, v)  == at[k] \in Armed /\ tid[k] # 0 /\ timers[k] = v

-----------------------------------------------------------------------------
(* IO_ACCEPT: both directions of a new connection are timed on the wheel of *)
(* the worker that accepted it.                                             *)

Accept(w, k) ==
    /\ c[w] = NoConn
    /\ at[k] = "none"
    /\ c' = [c EXCEPT ![w] = k]
    /\ Move(k, "arm")
    /\ newtimer' = [newtimer EXCEPT ![k] = [d \in Directions |-> w]]
    /\ UNCHANGED <<freeids, ioc, dir, oldtimer, ot, ioctxVars>>

-----------------------------------------------------------------------------
(* post_recv, post_send *)

\* maketimer with an empty pool: the operation is not timed.
MakeTimerFull(w) ==
    \E k \in Conns :
       /\ c[w] = k /\ at[k] = "arm"
       /\ freeids[newtimer[k][dir[k]]] = <<>>
       /\ tid' = [tid EXCEPT ![k] = 0]
       /\ timers' = [timers EXCEPT ![k] = NoWheel]
       /\ timed' = [timed EXCEPT ![k] = FALSE]
       /\ Move(k, "ready")
       /\ UNCHANGED <<freeids, ioc, c, dir, newtimer, oldtimer, ot>>

\* maketimer: the last id of the pool of newtimerrecv or newtimersend.
MakeTimer(w) ==
    \E k \in Conns : \E v \in Workers :
       /\ c[w] = k /\ at[k] = "arm"
       /\ v = newtimer[k][dir[k]]
       /\ freeids[v] # <<>>
       /\ LET myid == freeids[v][Len(freeids[v])] IN
          /\ freeids' = [freeids EXCEPT ![v] = SubSeq(@, 1, Len(@) - 1)]
          /\ ioc' = [ioc EXCEPT ![v][myid] = k]
          /\ tid' = [tid EXCEPT ![k] = myid]
       /\ timers' = [timers EXCEPT ![k] = v]
       /\ timed' = [timed EXCEPT ![k] = TRUE]
       /\ Move(k, "ready")
       /\ UNCHANGED <<c, dir, newtimer, oldtimer, ot>>

\* WSARecv or WSASend has taken the operation: the worker is done with it.
PostOk(w) ==
    \E k \in Conns :
       /\ c[w] = k /\ at[k] = "ready"
       /\ Move(k, "pending")
       /\ c' = [c EXCEPT ![w] = NoConn]
       /\ UNCHANGED <<freeids, ioc, dir, newtimer, oldtimer, ot, ioctxVars>>

\* removetimerid finds something to do: a wheel, an id, and a record that was
\* used before.
Known(v, id) == v \in Workers /\ id \in Ids /\ ioc[v][id] # NoConn

\* timer.os.ioc->timed = 0.  The record may point to an IoCtx deleted since;
\* the write then hits nothing, or the IoCtx allocated at the same address.
Untime(v, id) ==
    LET j == ioc[v][id] IN
    \/ /\ On(j, v) /\ tid[j] = id
       /\ timed' = [timed EXCEPT ![j] = FALSE]
    \/ /\ ~(On(j, v) /\ tid[j] = id)
       /\ \/ UNCHANGED timed
          \/ \E i \in Conns : at[i] \in Armed /\ timed' = [timed EXCEPT ![i] = FALSE]

\* removetimerid(v, id, c): at the cursor the entry is only marked and the id is
\* gone, elsewhere the id goes to the front of the pool of v.
RemoveTimerId(v, id) ==
    \/ ~Known(v, id) /\ UNCHANGED <<freeids, timed>>
    \/ /\ Known(v, id)
       /\ Untime(v, id)
       /\ \/ UNCHANGED freeids
          \/ freeids' = [freeids EXCEPT ![v] = <<id>> \o @]

\* The call fails at once: removetimerid is given the OLD wheel of the
\* direction and the id that the new wheel has just handed out; then freesock.
PostFail(w) ==
    \E k \in Conns :
       /\ c[w] = k /\ at[k] = "ready"
       /\ RemoveTimerId(oldtimer[k][dir[k]], tid[k])
       /\ Move(k, "gone")
       /\ c' = [c EXCEPT ![w] = NoConn]
       /\ UNCHANGED <<ioc, dir, newtimer, oldtimer, ot, timers, tid>>

-----------------------------------------------------------------------------
(* The I/O manager, and handle_event for IO_RECV and IO_SEND. *)

\* The operation ends, by its peer, by an error, or cancelled by its timer.
Complete(k) ==
    /\ at[k] = "pending"
    /\ Move(k, "queued")
    /\ UNCHANGED <<freeids, ioc, c, dir, newtimer, oldtimer, ot, ioctxVars>>

\* Mutated Dequeue: the pointer is read after it has been replaced.
DequeueLateRead(w, k) ==
    /\ c[w] = NoConn
    /\ at[k] = "queued"
    /\ c' = [c EXCEPT ![w] = k]
    /\ ot' = [ot EXCEPT ![k] = w]
    /\ oldtimer' = [oldtimer EXCEPT ![k][dir[k]] = newtimer[k][dir[k]]]
    /\ newtimer' = [newtimer EXCEPT ![k][dir[k]] = w]
    /\ Move(k, "event")
    /\ UNCHANGED <<freeids, ioc, dir, ioctxVars>>

\* The wheel the operation was armed on becomes the old wheel of its direction,
\* and the wheel of the worker that dequeued it the new one.
Dequeue(w, k) ==
    /\ c[w] = NoConn
    /\ at[k] = "queued"
    /\ c' = [c EXCEPT ![w] = k]
    /\ ot' = [ot EXCEPT ![k] = newtimer[k][dir[k]]]
    /\ oldtimer' = [oldtimer EXCEPT ![k][dir[k]] = newtimer[k][dir[k]]]
    /\ newtimer' = [newtimer EXCEPT ![k][dir[k]] = w]
    /\ Move(k, "event")
    /\ UNCHANGED <<freeids, ioc, dir, ioctxVars>>

\* Mutated TakeDown: the id is given to the wheel of the worker itself.
TakeDownMine(w) ==
    \E k \in Conns :
       /\ c[w] = k /\ at[k] = "event"
       /\ IF timed[k] THEN RemoveTimerId(w, tid[k]) ELSE UNCHANGED <<freeids, timed>>
       /\ Move(k, "handle")
       /\ UNCHANGED <<ioc, c, dir, newtimer, oldtimer, ot, timers, tid>>

\* if (ctx->timed): mark the entry under ot's lock, then removetimerid on ot.
TakeDown(w) ==
    \E k \in Conns :
       /\ c[w] = k /\ at[k] = "event"
       /\ IF timed[k] THEN RemoveTimerId(ot[k], tid[k]) ELSE UNCHANGED <<freeids, timed>>
       /\ Move(k, "handle")
       /\ UNCHANGED <<ioc, c, dir, newtimer, oldtimer, ot, timers, tid>>

\* The handlers: the rest of a receive, a reply or the rest of it, or the end
\* (freesock, or an unknown request that is let go of).
HandleNext(w) ==
    \E k \in Conns :
       /\ c[w] = k /\ at[k] = "handle"
       /\ \E d \in Directions :
             /\ dir[k] = "send" => d = "send"
             /\ dir' = [dir EXCEPT ![k] = d]
       /\ Move(k, "arm")
       /\ UNCHANGED <<freeids, ioc, c, newtimer, oldtimer, ot, ioctxVars>>

HandleLast(w) ==
    \E k \in Conns :
       /\ c[w] = k /\ at[k] = "handle"
       /\ Move(k, "gone")
       /\ c' = [c EXCEPT ![w] = NoConn]
       /\ UNCHANGED <<freeids, ioc, dir, newtimer, oldtimer, ot, ioctxVars>>

-----------------------------------------------------------------------------
\* What the worker does with the connection it drives.
Drive(w) ==
    \/ MakeTimerFull(w) \/ MakeTimer(w) \/ PostOk(w) \/ PostFail(w)
    \/ TakeDown(w) \/ HandleNext(w) \/ HandleLast(w)

WheelsNext ==
    \/ \E w \in Workers :
          \/ \E k \in Conns : Accept(w, k) \/ Dequeue(w, k)
          \/ Drive(w)
    \/ \E k \in Conns : Complete(k)

WheelsSpec == WheelsInit /\ [][WheelsNext]_wheelsVars

-----------------------------------------------------------------------------
\* Every variable has its type.
WheelsTypeOK ==
    /\ freeids \in [Workers -> Seq(Ids)]
    /\ ioc \in [Workers -> [Ids -> Conns \cup {NoConn}]]
    /\ c \in [Workers -> Conns \cup {NoConn}]
    /\ at \in [Conns -> {"none", "arm", "ready", "pending", "queued", "event", "handle", "gone"}]
    /\ dir \in [Conns -> Directions]
    /\ newtimer \in [Conns -> [Directions -> Workers \cup {NoWheel}]]
    /\ oldtimer \in [Conns -> [Directions -> Workers \cup {NoWheel}]]
    /\ ot \in [Conns -> Workers \cup {NoWheel}]
    /\ timers \in [Conns -> Workers \cup {NoWheel}]
    /\ tid \in [Conns -> Ids \cup {0}]
    /\ timed \in [Conns -> BOOLEAN]

\* handle_event locks the wheel newtimerrecv (or newtimersend) named and writes
\* to the wheel ctx->timers names (worker.h:581-585): whatever workers a
\* connection has moved between, and in whichever direction, they are the same.
OtIsTimers == \A k \in Conns : at[k] = "event" /\ timed[k] => ot[k] = timers[k]

\* An id of wheel v has one place: once in the pool, or one operation.
OneOwner(v) ==
    /\ \A i, j \in 1 .. Len(freeids[v]) : freeids[v][i] = freeids[v][j] => i = j
    /\ \A i \in 1 .. Len(freeids[v]) : \A k \in Conns : On(k, v) => tid[k] # freeids[v][i]
    /\ \A j, k \in Conns : On(j, v) /\ On(k, v) /\ tid[j] = tid[k] => j = k

\* The post of k that is about to fail hands an id of another wheel to v.
Strays(k, v) == at[k] = "ready" /\ tid[k] # 0 /\ oldtimer[k][dir[k]] = v /\ timers[k] # v

\* However connections move between workers, an id comes to have two places on
\* one way only: the post of a connection that has moved fails, and its new
\* wheel's id is put into the pool of its old wheel (worker.h:480, 539).
OneOwnerBreaks ==
    [][\A v \in Workers :
          OneOwner(v) /\ ~OneOwner(v)' =>
             \E k \in Conns : Strays(k, v) /\ at'[k] = "gone"]_wheelsVars

=============================================================================
