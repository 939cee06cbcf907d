------------------------------ MODULE V1Server ------------------------------
(***************************************************************************)
(* The skeleton of the first server (src/worker.h): accept, receive and    *)
(* send operations with their completions, and three handlers that are     *)
(* left to whoever fills the skeleton in ("your processing").  A handler   *)
(* may end with a receive, a send, freesock, or with nothing, as the empty *)
(* ones of the source do; like the handlers of the v2 server, which is the *)
(* skeleton filled in, it starts one operation at most.                    *)
(*                                                                         *)
(* The worker threads are those main.cpp creates; their loop is not in the *)
(* repository and is taken to hand each completion to handle_event.        *)
(* streaming is false in every connection (worker.h:229).                  *)
(***************************************************************************)
EXTENDS Integers, FiniteSets

CONSTANTS
    Workers,    \* worker threads (4 in the source)
    Conns,      \* ConnCtx objects that can be allocated
    NoConn,     \* the null ConnCtx pointer
    Accepts,    \* AcceptEx calls main posts (4 in the source)
    Pieces,     \* pieces of the buffer a handler asks for
    Handlers    \* how a handler may end

ASSUME V1Assumption ==
    /\ IsFiniteSet(Workers)
    /\ NoConn \notin Conns
    /\ Accepts \in Nat
    /\ Pieces \in Nat \ {0}
    /\ Handlers \subseteq {"post_recv", "post_send", "freesock", "nothing"}

VARIABLES
    mem,            \* ConnCtx -> "none", "live" or "freed"
    open,           \* connections whose socket is open
    left,           \* ConnCtx -> want - wantPresent, or wantsend - sentOff
    inflight,       \* ConnCtx -> operations posted and not yet dequeued
    accepting,      \* AcceptEx operations posted and not yet dequeued
    lostaccepts,    \* ghost: AcceptEx operations that were not posted again
    pc, c, op,      \* worker: where it is, its ConnCtx, its operation
    reaccept        \* workers that have post_accept to call

connVars == <<mem, open, left, inflight>>
poolVars == <<accepting, lostaccepts>>
vars == <<connVars, poolVars, pc, c, op, reaccept>>

Operation(type, st, bytes) == [type |-> type, st |-> st, bytes |-> bytes]
NoOperation == Operation("IO_ACCEPT", "none", 0)

Init ==
    /\ mem = [k \in Conns |-> "none"]
    /\ open = {}
    /\ left = [k \in Conns |-> 0]
    /\ inflight = [k \in Conns |-> {}]
    /\ accepting = Accepts /\ lostaccepts = 0
    /\ pc = [w \in Workers |-> "idle"]
    /\ c = [w \in Workers |-> NoConn]
    /\ op = [w \in Workers |-> NoOperation]
    /\ reaccept = {}

Goto(w, l) == pc' = [pc EXCEPT ![w] = l]

\* handle_event goes on after the connection: post_accept for an accept,
\* otherwise it returns.
LeaveConn(w) ==
    /\ Goto(w, IF w \in reaccept THEN "reaccept" ELSE "idle")
    /\ c' = [c EXCEPT ![w] = NoConn]
    /\ op' = [op EXCEPT ![w] = NoOperation]

-----------------------------------------------------------------------------
(* The I/O manager. *)

Results(k, o) ==
    {Operation(o.type, "ok", b) : b \in 1 .. left[k]}
    \cup {Operation(o.type, "failed", 0)}
    \cup (IF o.type = "IO_RECV" THEN {Operation(o.type, "ok", 0)} ELSE {})

Complete(k) ==
    /\ \E o \in inflight[k] :
          /\ o.st = "pending"
          /\ \E r \in Results(k, o) : inflight' = [inflight EXCEPT ![k] = (@ \ {o}) \cup {r}]
    /\ UNCHANGED <<mem, open, left, poolVars, pc, c, op, reaccept>>

-----------------------------------------------------------------------------
(* Completions of AcceptEx. *)

\* A new ConnCtx, for handle_accepted; post_accept follows.
AcceptOk(w, k) ==
    /\ pc[w] = "idle"
    /\ accepting > 0
    /\ mem[k] = "none"
    /\ accepting' = accepting - 1
    /\ mem' = [mem EXCEPT ![k] = "live"]
    /\ open' = open \cup {k}
    /\ c' = [c EXCEPT ![w] = k]
    /\ reaccept' = reaccept \cup {w}
    /\ Goto(w, "handler")
    /\ UNCHANGED <<left, inflight, lostaccepts, op>>

\* if (!ok): the context is deleted, and nothing is posted in its place.
AcceptFailed(w) ==
    /\ pc[w] = "idle"
    /\ accepting > 0
    /\ accepting' = accepting - 1
    /\ lostaccepts' = lostaccepts + 1
    /\ UNCHANGED <<connVars, pc, c, op, reaccept>>

PostAccept(w) ==
    /\ pc[w] = "reaccept"
    /\ \/ accepting' = accepting + 1 /\ UNCHANGED lostaccepts
       \/ lostaccepts' = lostaccepts + 1 /\ UNCHANGED accepting
    /\ reaccept' = reaccept \ {w}
    /\ Goto(w, "idle")
    /\ UNCHANGED <<connVars, c, op>>

-----------------------------------------------------------------------------
(* Completions of WSARecv and WSASend. *)

Dequeue(w, k) ==
    /\ pc[w] = "idle"
    /\ \E o \in inflight[k] :
          /\ o.st # "pending"
          /\ inflight' = [inflight EXCEPT ![k] = @ \ {o}]
          /\ op' = [op EXCEPT ![w] = o]
    /\ c' = [c EXCEPT ![w] = k]
    /\ Goto(w, "event")
    /\ UNCHANGED <<mem, open, left, poolVars, reaccept>>

\* if (!ok): the IoCtx is deleted; the ConnCtx and its socket are forgotten.
EventFailed(w) ==
    /\ pc[w] = "event" /\ op[w].st = "failed"
    /\ LeaveConn(w)
    /\ UNCHANGED <<connVars, poolVars, reaccept>>

\* Mutated EventClosed: the ConnCtx is not deleted.
EventClosedKeeps(w) ==
    /\ pc[w] = "event" /\ op[w].st = "ok"
    /\ op[w].type = "IO_RECV" /\ op[w].bytes = 0
    /\ open' = open \ {c[w]}
    /\ LeaveConn(w)
    /\ UNCHANGED <<mem, left, inflight, poolVars, reaccept>>

\* A receive of no bytes: the peer has closed.
EventClosed(w) ==
    /\ pc[w] = "event" /\ op[w].st = "ok"
    /\ op[w].type = "IO_RECV" /\ op[w].bytes = 0
    /\ mem' = [mem EXCEPT ![c[w]] = "freed"]
    /\ open' = open \ {c[w]}
    /\ LeaveConn(w)
    /\ UNCHANGED <<left, inflight, poolVars, reaccept>>

\* Mutated EventPart: the bytes are counted twice.
EventPartTwice(w) ==
    /\ pc[w] = "event" /\ op[w].st = "ok"
    /\ op[w].bytes \in 1 .. (left[c[w]] - 1)
    /\ left' = [left EXCEPT ![c[w]] = @ - 2 * op[w].bytes]
    /\ Goto(w, "post")
    /\ UNCHANGED <<mem, open, inflight, poolVars, c, op, reaccept>>

\* Less than was asked for: post the rest.
EventPart(w) ==
    /\ pc[w] = "event" /\ op[w].st = "ok"
    /\ op[w].bytes \in 1 .. (left[c[w]] - 1)
    /\ left' = [left EXCEPT ![c[w]] = @ - op[w].bytes]
    /\ Goto(w, "post")
    /\ UNCHANGED <<mem, open, inflight, poolVars, c, op, reaccept>>

\* All of it: handle_packet or handle_sent.
EventFull(w) ==
    /\ pc[w] = "event" /\ op[w].st = "ok"
    /\ op[w].bytes > 0 /\ op[w].bytes = left[c[w]]
    /\ left' = [left EXCEPT ![c[w]] = 0]
    /\ Goto(w, "handler")
    /\ UNCHANGED <<mem, open, inflight, poolVars, c, op, reaccept>>

-----------------------------------------------------------------------------
(* handle_accepted, handle_packet, handle_sent: what the handler ends with. *)

HandlerPosts(w) ==
    /\ pc[w] = "handler"
    /\ \E type \in {"IO_RECV", "IO_SEND"} :
          /\ (IF type = "IO_RECV" THEN "post_recv" ELSE "post_send") \in Handlers
          /\ op' = [op EXCEPT ![w] = Operation(type, "none", 0)]
    /\ left' = [left EXCEPT ![c[w]] = Pieces]
    /\ Goto(w, "post")
    /\ UNCHANGED <<mem, open, inflight, poolVars, c, reaccept>>

\* Mutated HandlerFrees: freesock ends the whole of handle_event.
HandlerFreesAll(w) ==
    /\ pc[w] = "handler"
    /\ "freesock" \in Handlers
    /\ mem' = [mem EXCEPT ![c[w]] = "freed"]
    /\ open' = open \ {c[w]}
    /\ Goto(w, "idle")
    /\ c' = [c EXCEPT ![w] = NoConn]
    /\ op' = [op EXCEPT ![w] = NoOperation]
    /\ reaccept' = reaccept \ {w}
    /\ UNCHANGED <<left, inflight, poolVars>>

\* freesock
HandlerFrees(w) ==
    /\ pc[w] = "handler"
    /\ "freesock" \in Handlers
    /\ mem' = [mem EXCEPT ![c[w]] = "freed"]
    /\ open' = open \ {c[w]}
    /\ LeaveConn(w)
    /\ UNCHANGED <<left, inflight, poolVars, reaccept>>

\* The empty handlers of the source.
HandlerReturns(w) ==
    /\ pc[w] = "handler"
    /\ "nothing" \in Handlers
    /\ LeaveConn(w)
    /\ UNCHANGED <<connVars, poolVars, reaccept>>

-----------------------------------------------------------------------------
(* post_recv, post_send *)

\* Mutated Post: the handler goes on with the ConnCtx it has posted.
PostKeeps(w) ==
    /\ pc[w] = "post"
    /\ inflight' = [inflight EXCEPT ![c[w]] = @ \cup {Operation(op[w].type, "pending", 0)}]
    /\ Goto(w, "handler")
    /\ UNCHANGED <<mem, open, left, poolVars, c, op, reaccept>>

\* WSARecv or WSASend: nothing of the ConnCtx is touched afterwards.
Post(w) ==
    /\ pc[w] = "post"
    /\ inflight' = [inflight EXCEPT ![c[w]] = @ \cup {Operation(op[w].type, "pending", 0)}]
    /\ LeaveConn(w)
    /\ UNCHANGED <<mem, open, left, poolVars, reaccept>>

\* The call fails at once: the socket is closed, the ConnCtx is not deleted and
\* the caller is not told.
PostFails(w) ==
    /\ pc[w] = "post"
    /\ open' = open \ {c[w]}
    /\ LeaveConn(w)
    /\ UNCHANGED <<mem, left, inflight, poolVars, reaccept>>

-----------------------------------------------------------------------------
HandleEvent(w) == EventFailed(w) \/ EventClosed(w) \/ EventPart(w) \/ EventFull(w)
Handler(w)     == HandlerPosts(w) \/ HandlerFrees(w) \/ HandlerReturns(w)

Next ==
    \/ \E w \in Workers :
          \/ \E k \in Conns : AcceptOk(w, k) \/ Dequeue(w, k)
          \/ AcceptFailed(w) \/ PostAccept(w)
          \/ HandleEvent(w) \/ Handler(w) \/ Post(w) \/ PostFails(w)
    \/ \E k \in Conns : Complete(k)

Spec == Init /\ [][Next]_vars

-----------------------------------------------------------------------------
Operations ==
    [type : {"IO_ACCEPT", "IO_RECV", "IO_SEND"},
     st : {"none", "pending", "ok", "failed"},
     bytes : 0 .. Pieces]

\* Every variable has its type.
TypeOK ==
    /\ mem \in [Conns -> {"none", "live", "freed"}]
    /\ open \subseteq Conns
    /\ left \in [Conns -> 0 .. Pieces]
    /\ inflight \in [Conns -> SUBSET Operations]
    /\ accepting \in 0 .. Accepts /\ lostaccepts \in 0 .. Accepts
    /\ pc \in [Workers -> {"idle", "handler", "post", "reaccept", "event"}]
    /\ c \in [Workers -> Conns \cup {NoConn}]
    /\ op \in [Workers -> Operations]
    /\ reaccept \subseteq Workers

\* Without any reference count, and although the completion of an operation may
\* be handled to the end of the connection before WSARecv has returned, a
\* worker that has a ConnCtx is alone with it and it is allocated.
AloneOnLiveMemory ==
    \A w \in Workers : \A k \in Conns :
        c[w] = k => /\ mem[k] = "live" /\ inflight[k] = {}
                    /\ \A v \in Workers : c[v] = k => v = w

\* A live connection that nobody has and no operation will ever wake.
Lost(k) == mem[k] = "live" /\ inflight[k] = {} /\ \A w \in Workers : c[w] # k

\* A connection is lost in three ways, and its socket stays open with it except
\* in the second: its operation fails, the next one cannot be posted, or its
\* handler does nothing.
LostWays ==
    [][\A k \in Conns :
          ~Lost(k) /\ Lost(k)' =>
             \E w \in Workers :
                /\ c[w] = k
                /\ \/ pc[w] = "event" /\ op[w].st = "failed" /\ k \in open'
                   \/ pc[w] = "post" /\ k \notin open'
                   \/ pc[w] = "handler" /\ k \in open']_vars

\* The accept pool shrinks when an accept fails or cannot be posted again, and
\* in no other way: whatever becomes of the connection that was accepted.
AcceptPool == accepting + lostaccepts + Cardinality(reaccept) = Accepts

-----------------------------------------------------------------------------
OwnerOf(k) ==
    IF mem[k] # "live" THEN mem[k]
    ELSE IF inflight[k] # {} THEN "system"
    ELSE IF \E w \in Workers : c[w] = k THEN "thread"
    ELSE "lost"

Ownership ==
    INSTANCE Ownership WITH owner <- [k \in Conns |-> OwnerOf(k)], MayLose <- TRUE

\* The skeleton keeps the same contract as the server made from it: one owner at
\* a time, deleted once by the worker that has it, and a lost connection is
\* never picked up again.
OwnershipKept == Ownership!Spec

=============================================================================
