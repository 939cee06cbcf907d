------------------------------- MODULE V1Proofs -------------------------------
(***************************************************************************)
(* Proofs about V1Server, for any numbers of workers, connections, accepts *)
(* and pieces, and whichever of the endings the handlers use.              *)
(***************************************************************************)
EXTENDS V1Server, FiniteSetTheorems, TLAPS

\* A worker has a connection while it works on one, and owes a post_accept from
\* the accept until it has called it.
Shape ==
    \A w \in Workers :
        /\ pc[w] \in {"handler", "post", "event"} <=> c[w] # NoConn
        /\ w \in reaccept => pc[w] \in {"handler", "post", "reaccept"}
        /\ pc[w] = "reaccept" => w \in reaccept

\* A connection has one operation at most, and while it has one, or a worker,
\* it is allocated and its socket is open.
Flight ==
    \A k \in Conns :
        /\ inflight[k] # {} => mem[k] = "live" /\ k \in open
        /\ \A o, p \in inflight[k] : o = p
        /\ \A w \in Workers : c[w] = k => k \in open

V1Inv == TypeOK /\ Shape /\ AloneOnLiveMemory /\ Flight /\ AcceptPool

-----------------------------------------------------------------------------
(* The steps that end handle_event's work on a connection. *)

\* LeaveConn lets go of the connection, and keeps the post_accept that is owed.
LEMMA Leaves ==
    ASSUME TypeOK, Shape, NEW w \in Workers, LeaveConn(w)
    PROVE  /\ c' = [c EXCEPT ![w] = NoConn]
           /\ c'[w] = NoConn
           /\ pc'[w] \in {"idle", "reaccept"}
           /\ pc'[w] = "reaccept" <=> w \in reaccept
           /\ \A v \in Workers : v # w => c'[v] = c[v] /\ pc'[v] = pc[v]
           /\ c' \in [Workers -> Conns \cup {NoConn}]
           /\ pc' \in [Workers -> {"idle", "handler", "post", "reaccept", "event"}]
           /\ op' \in [Workers -> Operations]
<1>1. NoOperation \in Operations
  BY V1Assumption DEF NoOperation, Operation, Operations
<1> QED  BY <1>1 DEF LeaveConn, Goto, TypeOK

\* What LeaveConn does for Shape.
LEMMA LeavesShape ==
    ASSUME TypeOK, Shape, NEW w \in Workers, LeaveConn(w), UNCHANGED reaccept
    PROVE  Shape'
BY Leaves DEF Shape

-----------------------------------------------------------------------------
(* Types, but for the bounds of the accept pool. *)

Typed ==
    /\ mem' \in [Conns -> {"none", "live", "freed"}]
    /\ open' \subseteq Conns
    /\ left' \in [Conns -> 0 .. Pieces]
    /\ inflight' \in [Conns -> SUBSET Operations]
    /\ accepting' \in Nat /\ lostaccepts' \in Nat
    /\ pc' \in [Workers -> {"idle", "handler", "post", "reaccept", "event"}]
    /\ c' \in [Workers -> Conns \cup {NoConn}]
    /\ op' \in [Workers -> Operations]
    /\ reaccept' \subseteq Workers

\* Every step keeps the types; the completions of an operation fit its buffer.
LEMMA TypedStep ==
    ASSUME TypeOK, Shape, [Next]_vars
    PROVE  Typed
<1>1. accepting \in Nat /\ lostaccepts \in Nat
  BY V1Assumption DEF TypeOK
<1>2. ASSUME NEW w \in Workers, NEW k \in Conns, AcceptOk(w, k) PROVE Typed
  BY <1>1, <1>2 DEF AcceptOk, Goto, TypeOK, Typed
<1>3. ASSUME NEW w \in Workers, NEW k \in Conns, Dequeue(w, k) PROVE Typed
  <2>1. PICK o \in inflight[k] :
           /\ inflight' = [inflight EXCEPT ![k] = @ \ {o}]
           /\ op' = [op EXCEPT ![w] = o]
    BY <1>3 DEF Dequeue
  <2>2. o \in Operations
    BY DEF TypeOK
  <2>3. op' \in [Workers -> Operations] /\ inflight' \in [Conns -> SUBSET Operations]
    BY <2>1, <2>2 DEF TypeOK
  <2> QED  BY <1>1, <1>3, <2>3 DEF Dequeue, Goto, poolVars, TypeOK, Typed
<1>4. ASSUME NEW w \in Workers, AcceptFailed(w) PROVE Typed
  BY <1>1, <1>4 DEF AcceptFailed, connVars, TypeOK, Typed
<1>5. ASSUME NEW w \in Workers, PostAccept(w) PROVE Typed
  BY <1>1, <1>5 DEF PostAccept, Goto, connVars, TypeOK, Typed
<1>6. ASSUME NEW w \in Workers, c[w] \in Conns,
             \/ EventFailed(w) \/ EventClosed(w)
             \/ HandlerFrees(w) \/ HandlerReturns(w) \/ PostFails(w)
      PROVE  Typed
  <2>1. LeaveConn(w) /\ UNCHANGED <<left, inflight, poolVars, reaccept>>
    BY <1>6 DEF EventFailed, EventClosed, HandlerFrees, HandlerReturns, PostFails, connVars
  <2>2. /\ mem' = mem \/ mem' = [mem EXCEPT ![c[w]] = "freed"]
        /\ open' \subseteq open
    BY <1>6 DEF EventFailed, EventClosed, HandlerFrees, HandlerReturns, PostFails, connVars
  <2>3. mem' \in [Conns -> {"none", "live", "freed"}] /\ open' \subseteq Conns
    BY <2>2 DEF TypeOK
  <2> QED  BY <1>1, <2>1, <2>3, Leaves DEF poolVars, TypeOK, Typed
<1>7. ASSUME NEW w \in Workers, c[w] \in Conns, EventPart(w) PROVE Typed
  <2>1. left[c[w]] \in 0 .. Pieces /\ op[w].bytes \in 1 .. (left[c[w]] - 1)
    BY <1>7 DEF EventPart, TypeOK
  <2>2. left[c[w]] - op[w].bytes \in 0 .. Pieces
    BY <2>1, V1Assumption
  <2>3. left' \in [Conns -> 0 .. Pieces]
    BY <1>7, <2>2 DEF EventPart, TypeOK
  <2> QED  BY <1>1, <1>7, <2>3 DEF EventPart, Goto, poolVars, TypeOK, Typed
<1>8. ASSUME NEW w \in Workers, c[w] \in Conns, EventFull(w) PROVE Typed
  BY <1>1, <1>8, V1Assumption DEF EventFull, Goto, poolVars, TypeOK, Typed
<1>9. ASSUME NEW w \in Workers, c[w] \in Conns, HandlerPosts(w) PROVE Typed
  <2>1. PICK type \in {"IO_RECV", "IO_SEND"} :
           op' = [op EXCEPT ![w] = Operation(type, "none", 0)]
    BY <1>9 DEF HandlerPosts
  <2>2. Operation(type, "none", 0) \in Operations
    BY V1Assumption DEF Operation, Operations
  <2>3. op' \in [Workers -> Operations] /\ left' \in [Conns -> 0 .. Pieces]
    BY <1>9, <2>1, <2>2, V1Assumption DEF HandlerPosts, TypeOK
  <2> QED  BY <1>1, <1>9, <2>3 DEF HandlerPosts, Goto, poolVars, TypeOK, Typed
<1>10. ASSUME NEW w \in Workers, c[w] \in Conns, Post(w) PROVE Typed
  <2>1. Operation(op[w].type, "pending", 0) \in Operations
    BY V1Assumption DEF TypeOK, Operation, Operations
  <2>2. inflight' \in [Conns -> SUBSET Operations]
    BY <1>10, <2>1 DEF Post, TypeOK
  <2>3. LeaveConn(w) /\ UNCHANGED <<mem, open, left, poolVars, reaccept>>
    BY <1>10 DEF Post
  <2> QED  BY <1>1, <2>2, <2>3, Leaves DEF poolVars, TypeOK, Typed
<1>11. ASSUME NEW k \in Conns, Complete(k) PROVE Typed
  <2>0. PICK o \in inflight[k] : \E r \in Results(k, o) :
           inflight' = [inflight EXCEPT ![k] = (@ \ {o}) \cup {r}]
    BY <1>11 DEF Complete
  <2>1. PICK r \in Results(k, o) : inflight' = [inflight EXCEPT ![k] = (@ \ {o}) \cup {r}]
    BY <2>0
  <2>2. o \in Operations /\ left[k] \in 0 .. Pieces
    BY DEF TypeOK
  <2>3. r \in Operations
    BY <2>1, <2>2, V1Assumption DEF Results, Operation, Operations
  <2>4. inflight' \in [Conns -> SUBSET Operations]
    BY <2>1, <2>3 DEF TypeOK
  <2> QED  BY <1>1, <1>11, <2>4 DEF Complete, poolVars, TypeOK, Typed
<1>12. CASE UNCHANGED vars
  BY <1>1, <1>12 DEF vars, connVars, poolVars, TypeOK, Typed
<1>13. \A w \in Workers : HandleEvent(w) \/ Handler(w) \/ Post(w) \/ PostFails(w) => c[w] \in Conns
  BY DEF HandleEvent, EventFailed, EventClosed, EventPart, EventFull, Handler, HandlerPosts,
     HandlerFrees, HandlerReturns, Post, PostFails, Shape, TypeOK
<1> QED
  BY <1>2, <1>3, <1>4, <1>5, <1>6, <1>7, <1>8, <1>9, <1>10, <1>11, <1>12, <1>13
  DEF Next, HandleEvent, Handler

-----------------------------------------------------------------------------
(* Shape, AloneOnLiveMemory and Flight. *)

\* A worker that has the connection k goes on with it.
LEMMA GoesOn ==
    ASSUME Shape, AloneOnLiveMemory, Flight, TypeOK,
           NEW w \in Workers, NEW to \in {"handler", "post"}, pc[w] \in {"handler", "event"},
           Goto(w, to), UNCHANGED <<mem, open, inflight, c, reaccept>>
    PROVE  Shape' /\ AloneOnLiveMemory' /\ Flight'
<1>1. Shape'
  BY DEF Shape, Goto, TypeOK
<1> QED  BY <1>1 DEF AloneOnLiveMemory, Flight

\* A worker that has a connection lets go of it, deleted or closed or neither.
LEMMA LetsGo ==
    ASSUME Shape, AloneOnLiveMemory, Flight, TypeOK,
           NEW w \in Workers, c[w] \in Conns,
           LeaveConn(w), UNCHANGED <<inflight, reaccept>>,
           mem' = mem \/ mem' = [mem EXCEPT ![c[w]] = "freed"],
           open' = open \/ open' = open \ {c[w]}
    PROVE  Shape' /\ AloneOnLiveMemory' /\ Flight'
<1> DEFINE k == c[w]
<1>1. inflight[k] = {} /\ \A v \in Workers : c[v] = k => v = w
  BY DEF AloneOnLiveMemory
<1>2. /\ c'[w] = NoConn
      /\ \A v \in Workers : v # w => c'[v] = c[v]
  BY Leaves
<1>3. \A j \in Conns : j # k => mem'[j] = mem[j] /\ (j \in open' <=> j \in open)
  BY DEF TypeOK
<1>4. AloneOnLiveMemory'
  BY <1>1, <1>2, <1>3, V1Assumption DEF AloneOnLiveMemory
<1>5. Flight'
  BY <1>1, <1>2, <1>3, V1Assumption DEF Flight
<1> QED  BY <1>4, <1>5, LeavesShape

\* Every step of a worker or of the I/O manager keeps one owner per connection.
LEMMA OwnerStep ==
    ASSUME TypeOK, Shape, AloneOnLiveMemory, Flight, [Next]_vars
    PROVE  Shape' /\ AloneOnLiveMemory' /\ Flight'
<1> DEFINE Goal == Shape' /\ AloneOnLiveMemory' /\ Flight'
<1>1. ASSUME NEW w \in Workers, NEW k \in Conns, AcceptOk(w, k) PROVE Goal
  <2>1. /\ pc[w] = "idle" /\ mem[k] = "none" /\ c[w] = NoConn /\ w \notin reaccept
        /\ mem' = [mem EXCEPT ![k] = "live"] /\ open' = open \cup {k}
        /\ c' = [c EXCEPT ![w] = k] /\ pc' = [pc EXCEPT ![w] = "handler"]
        /\ reaccept' = reaccept \cup {w} /\ inflight' = inflight
    BY <1>1 DEF AcceptOk, Goto, Shape
  <2>2. inflight[k] = {} /\ \A v \in Workers : c[v] # k
    BY <2>1 DEF AloneOnLiveMemory, Flight
  <2>3. Shape'
    BY <2>1, V1Assumption DEF Shape, TypeOK
  <2>4. AloneOnLiveMemory'
    BY <2>1, <2>2 DEF AloneOnLiveMemory, TypeOK
  <2>5. Flight'
    BY <2>1, <2>2 DEF Flight, TypeOK
  <2> QED  BY <2>3, <2>4, <2>5
<1>2. ASSUME NEW w \in Workers, NEW k \in Conns, Dequeue(w, k) PROVE Goal
  <2>1. /\ pc[w] = "idle" /\ c[w] = NoConn /\ w \notin reaccept
        /\ c' = [c EXCEPT ![w] = k] /\ pc' = [pc EXCEPT ![w] = "event"]
        /\ UNCHANGED <<mem, open, reaccept>>
    BY <1>2 DEF Dequeue, Goto, Shape
  <2>2. PICK o \in inflight[k] : inflight' = [inflight EXCEPT ![k] = @ \ {o}]
    BY <1>2 DEF Dequeue
  <2>3. /\ mem[k] = "live" /\ k \in open /\ \A v \in Workers : c[v] # k
        /\ inflight'[k] = {} /\ \A j \in Conns : j # k => inflight'[j] = inflight[j]
    BY <2>2 DEF Flight, AloneOnLiveMemory, TypeOK
  <2>4. Shape'
    BY <2>1, V1Assumption DEF Shape, TypeOK
  <2>5. AloneOnLiveMemory'
    BY <2>1, <2>3 DEF AloneOnLiveMemory, TypeOK
  <2>6. Flight'
    BY <2>1, <2>3 DEF Flight, TypeOK
  <2> QED  BY <2>4, <2>5, <2>6
<1>3. ASSUME NEW w \in Workers, AcceptFailed(w) PROVE Goal
  BY <1>3 DEF AcceptFailed, connVars, Shape, AloneOnLiveMemory, Flight
<1>4. ASSUME NEW w \in Workers, PostAccept(w) PROVE Goal
  <2>1. /\ pc[w] = "reaccept" /\ pc' = [pc EXCEPT ![w] = "idle"] /\ reaccept' = reaccept \ {w}
        /\ UNCHANGED <<mem, open, inflight, c>>
    BY <1>4 DEF PostAccept, Goto, connVars
  <2>2. Shape'
    BY <2>1 DEF Shape, TypeOK
  <2> QED  BY <2>1, <2>2 DEF AloneOnLiveMemory, Flight
<1>5. ASSUME NEW w \in Workers,
             \/ EventFailed(w) \/ EventClosed(w)
             \/ HandlerFrees(w) \/ HandlerReturns(w) \/ PostFails(w)
      PROVE  Goal
  <2>1. /\ LeaveConn(w) /\ UNCHANGED <<inflight, reaccept>>
        /\ pc[w] \in {"event", "handler", "post"}
    BY <1>5 DEF EventFailed, EventClosed, HandlerFrees, HandlerReturns, PostFails, connVars
  <2>2. /\ mem' = mem \/ mem' = [mem EXCEPT ![c[w]] = "freed"]
        /\ open' = open \/ open' = open \ {c[w]}
    BY <1>5 DEF EventFailed, EventClosed, HandlerFrees, HandlerReturns, PostFails, connVars
  <2>3. c[w] \in Conns
    BY <2>1 DEF Shape, TypeOK
  <2> QED  BY <2>1, <2>2, <2>3, LetsGo
<1>6. ASSUME NEW w \in Workers, EventPart(w) \/ EventFull(w) \/ HandlerPosts(w) PROVE Goal
  <2>1. /\ pc[w] \in {"handler", "event"}
        /\ Goto(w, "handler") \/ Goto(w, "post")
        /\ UNCHANGED <<mem, open, inflight, c, reaccept>>
    BY <1>6 DEF EventPart, EventFull, HandlerPosts
  <2> QED  BY <2>1, GoesOn
<1>7. ASSUME NEW w \in Workers, Post(w) PROVE Goal
  <2> DEFINE k == c[w]
             o == Operation(op[w].type, "pending", 0)
  <2>1. /\ LeaveConn(w) /\ UNCHANGED <<mem, open, reaccept>> /\ pc[w] = "post"
        /\ inflight' = [inflight EXCEPT ![k] = @ \cup {o}]
    BY <1>7 DEF Post
  <2>2. k \in Conns
    BY <2>1 DEF Shape, TypeOK
  <2>3. /\ inflight[k] = {} /\ mem[k] = "live" /\ k \in open
        /\ \A v \in Workers : c[v] = k => v = w
    BY <2>2 DEF AloneOnLiveMemory, Flight
  <2> HIDE DEF o
  <2>4. inflight'[k] = {o} /\ \A j \in Conns : j # k => inflight'[j] = inflight[j]
    BY <2>1, <2>2, <2>3 DEF TypeOK
  <2>5. c'[w] = NoConn /\ \A v \in Workers : v # w => c'[v] = c[v]
    BY <2>1, Leaves
  <2>6. AloneOnLiveMemory'
    BY <2>1, <2>3, <2>4, <2>5, V1Assumption DEF AloneOnLiveMemory
  <2>7. Flight'
    BY <2>1, <2>3, <2>4, <2>5, V1Assumption DEF Flight
  <2> QED  BY <2>1, <2>6, <2>7, LeavesShape
<1>8. ASSUME NEW k \in Conns, Complete(k) PROVE Goal
  <2>0. PICK o \in inflight[k] : \E r \in Results(k, o) :
           inflight' = [inflight EXCEPT ![k] = (@ \ {o}) \cup {r}]
    BY <1>8 DEF Complete
  <2>1. PICK r \in Results(k, o) : inflight' = [inflight EXCEPT ![k] = (@ \ {o}) \cup {r}]
    BY <2>0
  <2>2. UNCHANGED <<mem, open, pc, c, reaccept>>
    BY <1>8 DEF Complete
  <2>3. inflight[k] = {o}
    BY <2>1 DEF Flight
  <2>4. inflight'[k] = {r} /\ \A j \in Conns : j # k => inflight'[j] = inflight[j]
    BY <2>1, <2>3 DEF TypeOK
  <2>5. AloneOnLiveMemory'
    BY <2>2, <2>3, <2>4 DEF AloneOnLiveMemory
  <2>6. Flight'
    BY <2>2, <2>3, <2>4 DEF Flight
  <2> QED  BY <2>2, <2>5, <2>6 DEF Shape
<1>9. CASE UNCHANGED vars
  BY <1>9 DEF vars, connVars, Shape, AloneOnLiveMemory, Flight
<1> QED
  BY <1>1, <1>2, <1>3, <1>4, <1>5, <1>6, <1>7, <1>8, <1>9 DEF Next, HandleEvent, Handler

-----------------------------------------------------------------------------
(* The accept pool. *)

\* Adding to and taking from the workers that owe a post_accept.
LEMMA PoolCard ==
    ASSUME NEW S, IsFiniteSet(S), NEW x
    PROVE  /\ Cardinality(S) \in Nat
           /\ x \notin S => Cardinality(S \cup {x}) = Cardinality(S) + 1
           /\ x \in S => Cardinality(S \ {x}) = Cardinality(S) - 1
BY FS_CardinalityType, FS_AddElement, FS_RemoveElement

\* Every accept that is taken out of the port is owed, lost or posted again.
LEMMA PoolStep ==
    ASSUME TypeOK, Shape, AcceptPool, [Next]_vars
    PROVE  AcceptPool'
<1>1. accepting \in Nat /\ lostaccepts \in Nat /\ IsFiniteSet(reaccept)
  BY FS_Subset, V1Assumption DEF TypeOK
<1>2. Cardinality(reaccept) \in Nat
  BY <1>1, FS_CardinalityType
<1>3. ASSUME NEW w \in Workers, NEW k \in Conns, AcceptOk(w, k) PROVE AcceptPool'
  <2>1. /\ w \notin reaccept /\ reaccept' = reaccept \cup {w}
        /\ accepting' = accepting - 1 /\ lostaccepts' = lostaccepts
    BY <1>3 DEF AcceptOk, Shape
  <2>2. Cardinality(reaccept') = Cardinality(reaccept) + 1
    BY <1>1, <2>1, PoolCard
  <2> QED  BY <1>1, <1>2, <2>1, <2>2, V1Assumption DEF AcceptPool
<1>4. ASSUME NEW w \in Workers, AcceptFailed(w) PROVE AcceptPool'
  BY <1>1, <1>2, <1>4, V1Assumption DEF AcceptFailed, AcceptPool
<1>5. ASSUME NEW w \in Workers, PostAccept(w) PROVE AcceptPool'
  <2>1. /\ w \in reaccept /\ reaccept' = reaccept \ {w}
        /\ \/ accepting' = accepting + 1 /\ lostaccepts' = lostaccepts
           \/ lostaccepts' = lostaccepts + 1 /\ accepting' = accepting
    BY <1>5 DEF PostAccept, Shape
  <2>2. Cardinality(reaccept') = Cardinality(reaccept) - 1
    BY <1>1, <2>1, PoolCard
  <2> QED  BY <1>1, <1>2, <2>1, <2>2, V1Assumption DEF AcceptPool
<1>6. CASE UNCHANGED <<poolVars, reaccept>>
  BY <1>6 DEF poolVars, AcceptPool
<1>7. \A w \in Workers : HandleEvent(w) \/ Handler(w) \/ Post(w) \/ PostFails(w)
         => UNCHANGED <<poolVars, reaccept>>
  BY DEF HandleEvent, EventFailed, EventClosed, EventPart, EventFull, Handler, HandlerPosts,
     HandlerFrees, HandlerReturns, Post, PostFails
<1>8. \A k \in Conns : Complete(k) \/ (\E w \in Workers : Dequeue(w, k))
         => UNCHANGED <<poolVars, reaccept>>
  BY DEF Complete, Dequeue
<1>9. UNCHANGED vars => UNCHANGED <<poolVars, reaccept>>
  BY DEF vars
<1> QED  BY <1>3, <1>4, <1>5, <1>6, <1>7, <1>8, <1>9 DEF Next

-----------------------------------------------------------------------------
(* The invariant. *)

\* Nothing is accepted, and every AcceptEx is posted.
LEMMA V1InitInv == Init => V1Inv
<1> SUFFICES ASSUME Init PROVE V1Inv
  OBVIOUS
<1>1. NoOperation \in Operations
  BY V1Assumption DEF NoOperation, Operation, Operations
<1>2. TypeOK
  BY <1>1, V1Assumption DEF Init, TypeOK
<1>3. Shape /\ AloneOnLiveMemory /\ Flight
  BY V1Assumption DEF Init, Shape, AloneOnLiveMemory, Flight
<1>4. AcceptPool
  BY FS_EmptySet, V1Assumption DEF Init, AcceptPool
<1> QED  BY <1>2, <1>3, <1>4 DEF V1Inv

\* Every step keeps the invariant; the pool bounds its two counters.
LEMMA V1Step == V1Inv /\ [Next]_vars => V1Inv'
<1> SUFFICES ASSUME V1Inv, [Next]_vars PROVE V1Inv'
  OBVIOUS
<1>1. Typed /\ AcceptPool'
  BY TypedStep, PoolStep DEF V1Inv
<1>2. Cardinality(reaccept') \in Nat
  BY <1>1, FS_Subset, FS_CardinalityType, V1Assumption DEF Typed
<1>3. accepting' \in 0 .. Accepts /\ lostaccepts' \in 0 .. Accepts
  BY <1>1, <1>2, V1Assumption DEF Typed, AcceptPool
<1>4. TypeOK'
  BY <1>1, <1>3 DEF Typed, TypeOK
<1> QED  BY <1>1, <1>4, OwnerStep DEF V1Inv

\* The invariant holds of the skeleton.
LEMMA V1InvHolds == Spec => []V1Inv
BY V1InitInv, V1Step, PTL DEF Spec

\* Every variable has its type.
THEOREM V1TypeCorrect == Spec => []TypeOK
<1>1. V1Inv => TypeOK
  BY DEF V1Inv
<1> QED  BY <1>1, V1InvHolds, PTL

\* A worker that has a ConnCtx is alone with it and it is allocated, without any
\* reference count (worker.h:157, 176).
THEOREM WorkersAloneWithConnections == Spec => []AloneOnLiveMemory
<1>1. V1Inv => AloneOnLiveMemory
  BY DEF V1Inv
<1> QED  BY <1>1, V1InvHolds, PTL

\* The accept pool shrinks by failed accepts and failed posts of them only
\* (worker.h:194, 239).
THEOREM AcceptsAreKept == Spec => []AcceptPool
<1>1. V1Inv => AcceptPool
  BY DEF V1Inv
<1> QED  BY <1>1, V1InvHolds, PTL

-----------------------------------------------------------------------------
(* How connections are lost, and V1Server implements Ownership. *)

Lose(w, k) ==
    /\ c[w] = k
    /\ \/ pc[w] = "event" /\ op[w].st = "failed" /\ k \in open'
       \/ pc[w] = "post" /\ k \notin open'
       \/ pc[w] = "handler" /\ k \in open'

\* A connection whose memory, operations and workers stay keeps its owner.
LEMMA SameOwner ==
    ASSUME NEW k \in Conns, mem'[k] = mem[k], inflight'[k] = inflight[k],
           (\E w \in Workers : c'[w] = k) <=> (\E w \in Workers : c[w] = k)
    PROVE  OwnerOf(k)' = OwnerOf(k)
BY DEF OwnerOf

\* What one step does to the owners of the connections.
OwnersMove ==
    \/ \A k \in Conns : OwnerOf(k)' = OwnerOf(k)
    \/ \E k \in Conns :
          /\ \A j \in Conns : j # k => OwnerOf(j)' = OwnerOf(j)
          /\ \/ OwnerOf(k) = "none" /\ OwnerOf(k)' = "thread"
             \/ OwnerOf(k) = "thread" /\ OwnerOf(k)' \in {"system", "freed"}
             \/ OwnerOf(k) = "system" /\ OwnerOf(k)' = "thread"
             \/ /\ OwnerOf(k) = "thread" /\ OwnerOf(k)' = "lost"
                /\ \E w \in Workers : Lose(w, k)

\* Every step passes one connection on at most.
LEMMA OwnersStep ==
    ASSUME V1Inv, [Next]_vars
    PROVE  OwnersMove
<1> USE DEF V1Inv
<1>1. ASSUME NEW w \in Workers, NEW k \in Conns, AcceptOk(w, k) PROVE OwnersMove
  <2>1. /\ pc[w] = "idle" /\ mem[k] = "none" /\ c[w] = NoConn
        /\ mem' = [mem EXCEPT ![k] = "live"]
        /\ c' = [c EXCEPT ![w] = k] /\ inflight' = inflight
    BY <1>1 DEF AcceptOk, Shape
  <2>2. inflight'[k] = {} /\ mem'[k] = "live" /\ c'[w] = k
    BY <2>1 DEF Flight, TypeOK
  <2>3. OwnerOf(k) = "none" /\ OwnerOf(k)' = "thread"
    BY <2>1, <2>2 DEF OwnerOf
  <2>4. ASSUME NEW j \in Conns, j # k PROVE OwnerOf(j)' = OwnerOf(j)
    <3>1. mem'[j] = mem[j] /\ \A v \in Workers : c'[v] = j <=> c[v] = j
      BY <2>1, <2>4, V1Assumption DEF TypeOK
    <3> QED  BY <2>1, <3>1, SameOwner
  <2> QED  BY <2>3, <2>4 DEF OwnersMove
<1>2. ASSUME NEW w \in Workers, NEW k \in Conns, Dequeue(w, k) PROVE OwnersMove
  <2>1. /\ c[w] = NoConn /\ c' = [c EXCEPT ![w] = k] /\ mem' = mem
    BY <1>2 DEF Dequeue, Shape
  <2>2. PICK o \in inflight[k] : inflight' = [inflight EXCEPT ![k] = @ \ {o}]
    BY <1>2 DEF Dequeue
  <2>3. /\ mem[k] = "live" /\ inflight[k] # {} /\ inflight'[k] = {} /\ c'[w] = k
        /\ \A j \in Conns : j # k => inflight'[j] = inflight[j]
    BY <2>1, <2>2 DEF Flight, TypeOK
  <2>4. OwnerOf(k) = "system" /\ OwnerOf(k)' = "thread"
    BY <2>1, <2>3 DEF OwnerOf
  <2>5. ASSUME NEW j \in Conns, j # k PROVE OwnerOf(j)' = OwnerOf(j)
    <3>1. \A v \in Workers : c'[v] = j <=> c[v] = j
      BY <2>1, <2>5, V1Assumption DEF TypeOK
    <3> QED  BY <2>1, <2>3, <2>5, <3>1, SameOwner
  <2> QED  BY <2>4, <2>5 DEF OwnersMove
<1>3. ASSUME NEW w \in Workers,
             \/ AcceptFailed(w) \/ PostAccept(w)
             \/ EventPart(w) \/ EventFull(w) \/ HandlerPosts(w)
      PROVE  OwnersMove
  <2>1. UNCHANGED <<mem, inflight, c>>
    BY <1>3 DEF AcceptFailed, PostAccept, EventPart, EventFull, HandlerPosts, connVars
  <2> QED  BY <2>1 DEF OwnerOf, OwnersMove
<1>4. ASSUME NEW w \in Workers,
             \/ EventFailed(w) \/ EventClosed(w)
             \/ HandlerFrees(w) \/ HandlerReturns(w) \/ PostFails(w) \/ Post(w)
      PROVE  OwnersMove
  <2>1. LeaveConn(w) /\ pc[w] \in {"event", "handler", "post"}
    BY <1>4 DEF EventFailed, EventClosed, HandlerFrees, HandlerReturns, PostFails, Post
  <2>2. PICK k \in Conns : c[w] = k
    BY <2>1 DEF Shape, TypeOK
  <2>3. /\ inflight[k] = {} /\ mem[k] = "live" /\ k \in open
        /\ \A v \in Workers : c[v] = k => v = w
    BY <2>2 DEF AloneOnLiveMemory, Flight
  <2>4. c'[w] = NoConn /\ \A v \in Workers : v # w => c'[v] = c[v]
    BY <2>1, Leaves
  <2>5. OwnerOf(k) = "thread" /\ \A v \in Workers : c'[v] # k
    BY <2>2, <2>3, <2>4, V1Assumption DEF OwnerOf
  <2>6. ASSUME NEW j \in Conns, j # k, mem'[j] = mem[j], inflight'[j] = inflight[j]
        PROVE  OwnerOf(j)' = OwnerOf(j)
    <3>1. \A v \in Workers : c'[v] = j <=> c[v] = j
      BY <2>2, <2>4, <2>6, V1Assumption
    <3> QED  BY <2>6, <3>1, SameOwner
  <2>7. CASE EventFailed(w) \/ HandlerReturns(w) \/ PostFails(w)
    <3>1. mem' = mem /\ inflight' = inflight
      BY <2>7 DEF EventFailed, HandlerReturns, PostFails, connVars
    <3>2. OwnerOf(k)' = "lost"
      BY <2>3, <2>5, <3>1 DEF OwnerOf
    <3>3. Lose(w, k)
      BY <2>2, <2>3, <2>7 DEF EventFailed, HandlerReturns, PostFails, connVars, Lose
    <3> QED  BY <2>2, <2>5, <2>6, <3>1, <3>2, <3>3 DEF OwnersMove
  <2>8. CASE EventClosed(w) \/ HandlerFrees(w)
    <3>1. mem' = [mem EXCEPT ![k] = "freed"] /\ inflight' = inflight
      BY <2>2, <2>8 DEF EventClosed, HandlerFrees
    <3>2. mem'[k] = "freed" /\ \A j \in Conns : j # k => mem'[j] = mem[j]
      BY <2>2, <3>1 DEF TypeOK
    <3>3. OwnerOf(k)' = "freed"
      BY <3>2 DEF OwnerOf
    <3> QED  BY <2>2, <2>5, <2>6, <3>1, <3>2, <3>3 DEF OwnersMove
  <2>9. CASE Post(w)
    <3>1. mem' = mem
          /\ inflight' = [inflight EXCEPT ![k] = @ \cup {Operation(op[w].type, "pending", 0)}]
      BY <2>2, <2>9 DEF Post
    <3>2. inflight'[k] # {} /\ \A j \in Conns : j # k => inflight'[j] = inflight[j]
      BY <2>2, <3>1 DEF TypeOK
    <3>3. OwnerOf(k)' = "system"
      BY <2>3, <3>1, <3>2 DEF OwnerOf
    <3> QED  BY <2>2, <2>5, <2>6, <3>1, <3>2, <3>3 DEF OwnersMove
  <2> QED  BY <1>4, <2>7, <2>8, <2>9
<1>5. ASSUME NEW k \in Conns, Complete(k) PROVE OwnersMove
  <2>1. PICK o \in inflight[k] : \E r \in Results(k, o) :
           inflight' = [inflight EXCEPT ![k] = (@ \ {o}) \cup {r}]
    BY <1>5 DEF Complete
  <2>2. PICK r \in Results(k, o) : inflight' = [inflight EXCEPT ![k] = (@ \ {o}) \cup {r}]
    BY <2>1
  <2>3. mem' = mem /\ c' = c
    BY <1>5 DEF Complete
  <2>4. /\ inflight[k] # {} /\ inflight'[k] # {}
        /\ \A j \in Conns : j # k => inflight'[j] = inflight[j]
    BY <2>2 DEF TypeOK
  <2>5. \A j \in Conns : OwnerOf(j)' = OwnerOf(j)
    BY <2>3, <2>4 DEF OwnerOf
  <2> QED  BY <2>5 DEF OwnersMove
<1>6. CASE UNCHANGED vars
  BY <1>6 DEF vars, connVars, OwnerOf, OwnersMove
<1> QED
  BY <1>1, <1>2, <1>3, <1>4, <1>5, <1>6 DEF Next, HandleEvent, Handler

\* A connection is lost in three ways only (worker.h:158, 177, 194, 77-94).
THEOREM LostInThreeWaysOnly == Spec => LostWays
<1>1. ASSUME V1Inv, [Next]_vars, NEW k \in Conns, ~Lost(k), Lost(k)'
      PROVE  \E w \in Workers : Lose(w, k)
  <2>1. OwnerOf(k) # "lost" /\ OwnerOf(k)' = "lost"
    BY <1>1 DEF Lost, OwnerOf, V1Inv, TypeOK
  <2> QED  BY <1>1, <2>1, OwnersStep DEF OwnersMove
<1>2. V1Inv /\ [Next]_vars =>
         [\A k \in Conns : ~Lost(k) /\ Lost(k)' =>
             \E w \in Workers :
                /\ c[w] = k
                /\ \/ pc[w] = "event" /\ op[w].st = "failed" /\ k \in open'
                   \/ pc[w] = "post" /\ k \notin open'
                   \/ pc[w] = "handler" /\ k \in open']_vars
  BY <1>1 DEF Lose
<1> QED  BY <1>2, V1InvHolds, PTL DEF Spec, LostWays

Owners == [k \in Conns |-> OwnerOf(k)]

\* The owners of all connections change by one step of Ownership.
LEMMA OwnersPass ==
    ASSUME NEW k \in Conns, \A j \in Conns : j # k => OwnerOf(j)' = OwnerOf(j)
    PROVE  Owners' = [Owners EXCEPT ![k] = OwnerOf(k)']
BY DEF Owners

\* The skeleton implements Ownership, losing connections.
THEOREM SkeletonImplementsOwnership == Spec => OwnershipKept
<1>1. Init => Ownership!Init
  BY DEF Init, Ownership!Init, OwnerOf
<1>2. ASSUME V1Inv, [Next]_vars PROVE [Ownership!Next]_Owners
  <2>1. CASE \A k \in Conns : OwnerOf(k)' = OwnerOf(k)
    BY <2>1 DEF Owners
  <2>2. ASSUME NEW k \in Conns, \A j \in Conns : j # k => OwnerOf(j)' = OwnerOf(j),
               \/ OwnerOf(k) = "none" /\ OwnerOf(k)' = "thread"
               \/ OwnerOf(k) = "thread" /\ OwnerOf(k)' \in {"system", "freed", "lost"}
               \/ OwnerOf(k) = "system" /\ OwnerOf(k)' = "thread"
        PROVE  Ownership!Next
    <3>1. Owners' = [Owners EXCEPT ![k] = OwnerOf(k)'] /\ Owners[k] = OwnerOf(k)
      BY <2>2, OwnersPass DEF Owners
    <3> QED
      BY <2>2, <3>1 DEF Owners, Ownership!Next, Ownership!Open, Ownership!Submit,
         Ownership!Deliver, Ownership!Delete, Ownership!Lose, Ownership!Pass
  <2> QED  BY <1>2, <2>1, <2>2, OwnersStep DEF OwnersMove
<1> QED  BY <1>1, <1>2, V1InvHolds, PTL DEF OwnershipKept, Ownership!Spec, Spec, Owners

=============================================================================
