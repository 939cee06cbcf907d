------------------------------- MODULE Client -------------------------------
(***************************************************************************)
(* The load client (v2/ioclient): detached caller threads that open        *)
(* connections with ConnectEx (post_connect), worker threads that share    *)
(* one completion port and take a connection from "connected" through one  *)
(* request and one reply to freesock, the list ctlist that the multimedia  *)
(* timer walks once a millisecond, and the two counters main prints.       *)
(*                                                                         *)
(* Unlike the server, the client counts no references: post_connect,       *)
(* post_recv and post_send write to the ConnCtx after the call that hands  *)
(* it to whichever worker dequeues the completion (the tails).  No timeout *)
(* is ever set (nothing calls set_rd_tio or set_wr_tio), so the timer      *)
(* reads the fields of every listed connection and cancels nothing.        *)
(***************************************************************************)
EXTENDS Integers, FiniteSets

CONSTANTS
    Workers,    \* worker threads (6 in the source)
    Callers,    \* caller threads that run at the same time
    Conns,      \* ConnCtx objects that can be allocated
    NoConn,     \* the null ConnCtx pointer
    Pieces      \* pieces of the largest buffer

ASSUME ClientAssumption ==
    /\ IsFiniteSet(Workers) /\ IsFiniteSet(Callers) /\ IsFiniteSet(Conns)
    /\ Workers \cap Callers = {}
    /\ NoConn \notin Conns
    /\ Pieces \in Nat \ {0}

Threads == Workers \cup Callers

VARIABLES
    serving,            \* main: "serve" while it starts threads, then "loop"
    work,               \* IOCL.work
    ticking,            \* timeSetEvent has armed timer_callback
    mem,                \* ConnCtx -> "none", "live" or "freed"
    pkt,                \* c->pkt is set: the connection is counted
    left,               \* bytes still missing: want - wantPresent while it
                        \* receives, wantsend - sentOff while it sends
    fin,                \* the server has closed its sending side
    inflight,           \* ConnCtx -> operations posted and not yet dequeued
    ctlist,             \* tstr->ctlist
    mtx,                \* tstr->mtx: "free", or "timer" during a callback
    scan,               \* connections the callback has yet to visit
    concurrentServers, totalServers,
    pc, c, op           \* thread: where it is, its ConnCtx, the operation it
                        \* handles or posts

mainVars   == <<serving, work, ticking>>
connVars   == <<mem, pkt, left, fin>>
timerVars  == <<mtx, scan>>
countVars  == <<concurrentServers, totalServers>>
threadVars == <<pc, c, op>>
vars == <<mainVars, connVars, inflight, ctlist, timerVars, countVars, threadVars>>

Operation(type, st, bytes) == [type |-> type, st |-> st, bytes |-> bytes]
NoOperation == Operation("IO_CONNECT", "none", 0)

Init ==
    /\ serving = "serve" /\ work = TRUE /\ ticking = FALSE
    /\ mem = [k \in Conns |-> "none"]
    /\ pkt = [k \in Conns |-> FALSE]
    /\ left = [k \in Conns |-> 0]
    /\ fin = [k \in Conns |-> FALSE]
    /\ inflight = [k \in Conns |-> {}]
    /\ ctlist = {} /\ mtx = "free" /\ scan = {}
    /\ concurrentServers = 0 /\ totalServers = 0
    /\ pc = [t \in Threads |-> IF t \in Workers THEN "off" ELSE "idle"]
    /\ c = [t \in Threads |-> NoConn]
    /\ op = [t \in Threads |-> NoOperation]

Goto(t, l) == pc' = [pc EXCEPT ![t] = l]

-----------------------------------------------------------------------------
(* serve, run by main once the port exists and work is set. *)

CreateWorker(w) ==
    /\ serving = "serve" /\ work
    /\ pc[w] = "off"
    /\ Goto(w, "loop")
    /\ UNCHANGED <<mainVars, connVars, inflight, ctlist, timerVars, countVars, c, op>>

\* CreateThread fails: serve returns, and main goes on as if nothing happened.
WorkerNotCreated ==
    /\ serving = "serve"
    /\ \E w \in Workers : pc[w] = "off"
    /\ work' = FALSE
    /\ serving' = "loop"
    /\ UNCHANGED <<ticking, connVars, inflight, ctlist, timerVars, countVars, threadVars>>

\* timer_thread: the timer may fail to start, and nobody looks.
CreateTimer ==
    /\ serving = "serve"
    /\ \A w \in Workers : pc[w] # "off"
    /\ ticking' \in BOOLEAN
    /\ serving' = "loop"
    /\ UNCHANGED <<work, connVars, inflight, ctlist, timerVars, countVars, threadVars>>

-----------------------------------------------------------------------------
(* post_connect, in a caller thread. *)

PostConnect(t, k) ==
    /\ serving = "loop"
    /\ t \in Callers /\ pc[t] = "idle"
    /\ mem[k] = "none"
    /\ mem' = [mem EXCEPT ![k] = "live"]
    /\ c' = [c EXCEPT ![t] = k]
    /\ op' = [op EXCEPT ![t] = Operation("IO_CONNECT", "none", 0)]
    /\ Goto(t, "link")
    /\ UNCHANGED <<mainVars, pkt, left, fin, inflight, ctlist, timerVars, countVars>>

Link(t) ==
    /\ pc[t] = "link"
    /\ mtx = "free"
    /\ ctlist' = ctlist \cup {c[t]}
    /\ Goto(t, "post")
    /\ UNCHANGED <<mainVars, connVars, inflight, timerVars, countVars, c, op>>

-----------------------------------------------------------------------------
(* ConnectEx, WSARecv and WSASend, and what is stored once they are back. *)

\* Mutated PostIssue: ERROR_IO_PENDING is taken for a failure.
PostIssuePendingFails(t) ==
    /\ pc[t] = "post"
    /\ inflight' = [inflight EXCEPT ![c[t]] = @ \cup {Operation(op[t].type, "pending", 0)}]
    /\ Goto(t, "freesock")
    /\ UNCHANGED <<mainVars, connVars, ctlist, timerVars, countVars, c, op>>

\* The system has the operation: its completion may be handled by any worker.
PostIssue(t) ==
    /\ pc[t] = "post"
    /\ inflight' = [inflight EXCEPT ![c[t]] = @ \cup {Operation(op[t].type, "pending", 0)}]
    /\ Goto(t, "tail")
    /\ UNCHANGED <<mainVars, connVars, ctlist, timerVars, countVars, c, op>>

\* The call, or for a connection anything on the way to it, fails at once.
PostFail(t) ==
    /\ pc[t] = "post"
    /\ Goto(t, "freesock")
    /\ UNCHANGED <<mainVars, connVars, inflight, ctlist, timerVars, countVars, c, op>>

\* c->ov_connection, or c->ov_recv and recvtio, or c->ov_send and sendtio.
Tail(t) ==
    /\ pc[t] = "tail"
    /\ Goto(t, "return")
    /\ UNCHANGED <<mainVars, connVars, inflight, ctlist, timerVars, countVars, c, op>>

-----------------------------------------------------------------------------
(* The server at the other end and the I/O manager. *)

PeerFin(k) ==
    /\ mem[k] = "live" /\ pkt[k] /\ ~fin[k]
    /\ fin' = [fin EXCEPT ![k] = TRUE]
    /\ UNCHANGED <<mainVars, mem, pkt, left, inflight, ctlist, timerVars, countVars, threadVars>>

\* A receive completes with no bytes only after the FIN.
Results(k, o) ==
    {Operation(o.type, "failed", 0)}
    \cup (IF o.type = "IO_CONNECT" THEN {Operation(o.type, "ok", 0)}
          ELSE {Operation(o.type, "ok", b) : b \in 1 .. left[k]})
    \cup (IF o.type = "IO_RECV" /\ fin[k] THEN {Operation(o.type, "ok", 0)} ELSE {})

Complete(k) ==
    /\ \E o \in inflight[k] :
          /\ o.st = "pending"
          /\ \E r \in Results(k, o) : inflight' = [inflight EXCEPT ![k] = (@ \ {o}) \cup {r}]
    /\ UNCHANGED <<mainVars, connVars, ctlist, timerVars, countVars, threadVars>>

-----------------------------------------------------------------------------
(* worker and handle_event. *)

\* while (pkt->work->load()): the flag is read before every wait, not after it.
WorkerLoop(w) ==
    /\ pc[w] = "loop"
    /\ Goto(w, IF work THEN "wait" ELSE "exit")
    /\ UNCHANGED <<mainVars, connVars, inflight, ctlist, timerVars, countVars, c, op>>

Dequeue(w, k) ==
    /\ pc[w] = "wait"
    /\ \E o \in inflight[k] :
          /\ o.st # "pending"
          /\ inflight' = [inflight EXCEPT ![k] = @ \ {o}]
          /\ op' = [op EXCEPT ![w] = o]
    /\ c' = [c EXCEPT ![w] = k]
    /\ Goto(w, "event")
    /\ UNCHANGED <<mainVars, connVars, ctlist, timerVars, countVars>>

\* Mutated EventFailed: the completion is dropped.
EventFailedIgnored(w) ==
    /\ pc[w] = "event" /\ op[w].st = "failed"
    /\ Goto(w, "return")
    /\ UNCHANGED <<mainVars, connVars, inflight, ctlist, timerVars, countVars, c, op>>

\* Refused, reset or aborted: freesock, whatever the operation was.
EventFailed(w) ==
    /\ pc[w] = "event" /\ op[w].st = "failed"
    /\ Goto(w, "freesock")
    /\ UNCHANGED <<mainVars, connVars, inflight, ctlist, timerVars, countVars, c, op>>

\* IO_CONNECT: counted in total first, in concurrent second.
EventConnected(w) ==
    /\ pc[w] = "event" /\ op[w].st = "ok" /\ op[w].type = "IO_CONNECT"
    /\ pkt' = [pkt EXCEPT ![c[w]] = TRUE]
    /\ totalServers' = totalServers + 1
    /\ Goto(w, "count")
    /\ UNCHANGED <<mainVars, mem, left, fin, inflight, ctlist, timerVars, concurrentServers, c, op>>

\* ... then handle_connected: the request is ready to be sent.
Connected(w) ==
    /\ pc[w] = "count"
    /\ concurrentServers' = concurrentServers + 1
    /\ left' = [left EXCEPT ![c[w]] = Pieces]
    /\ op' = [op EXCEPT ![w] = Operation("IO_SEND", "none", 0)]
    /\ Goto(w, "post")
    /\ UNCHANGED <<mainVars, mem, pkt, fin, inflight, ctlist, timerVars, totalServers, c>>

\* Mutated EventPart: the whole buffer is posted again.
EventPartWhole(w) ==
    /\ pc[w] = "event" /\ op[w].st = "ok" /\ op[w].type \in {"IO_RECV", "IO_SEND"}
    /\ op[w].bytes < left[c[w]]
    /\ op' = [op EXCEPT ![w] = Operation(op[w].type, "none", 0)]
    /\ Goto(w, "post")
    /\ UNCHANGED <<mainVars, connVars, inflight, ctlist, timerVars, countVars, c>>

\* Part of a buffer: post the rest.  recvThreshold and sendThreshold are 0 for
\* every operation of the client, and keepalive and streaming are off.
EventPart(w) ==
    /\ pc[w] = "event" /\ op[w].st = "ok" /\ op[w].type \in {"IO_RECV", "IO_SEND"}
    /\ op[w].bytes < left[c[w]]
    /\ left' = [left EXCEPT ![c[w]] = @ - op[w].bytes]
    /\ op' = [op EXCEPT ![w] = Operation(op[w].type, "none", 0)]
    /\ Goto(w, "post")
    /\ UNCHANGED <<mainVars, mem, pkt, fin, inflight, ctlist, timerVars, countVars, c>>

\* Mutated EventSent: one piece more is asked for than the buffer holds.
EventSentLong(w) ==
    /\ pc[w] = "event" /\ op[w].st = "ok" /\ op[w].type = "IO_SEND"
    /\ op[w].bytes = left[c[w]]
    /\ left' = [left EXCEPT ![c[w]] = Pieces + 1]
    /\ op' = [op EXCEPT ![w] = Operation("IO_RECV", "none", 0)]
    /\ Goto(w, "post")
    /\ UNCHANGED <<mainVars, mem, pkt, fin, inflight, ctlist, timerVars, countVars, c>>

\* handle_sent: the request is out, wait for the whole reply.
EventSent(w) ==
    /\ pc[w] = "event" /\ op[w].st = "ok" /\ op[w].type = "IO_SEND"
    /\ op[w].bytes = left[c[w]]
    /\ left' = [left EXCEPT ![c[w]] = Pieces]
    /\ op' = [op EXCEPT ![w] = Operation("IO_RECV", "none", 0)]
    /\ Goto(w, "post")
    /\ UNCHANGED <<mainVars, mem, pkt, fin, inflight, ctlist, timerVars, countVars, c>>

\* handle_packet: the reply is here, close.
EventReceived(w) ==
    /\ pc[w] = "event" /\ op[w].st = "ok" /\ op[w].type = "IO_RECV"
    /\ op[w].bytes = left[c[w]]
    /\ left' = [left EXCEPT ![c[w]] = 0]
    /\ Goto(w, "freesock")
    /\ UNCHANGED <<mainVars, mem, pkt, fin, inflight, ctlist, timerVars, countVars, c, op>>

-----------------------------------------------------------------------------
(* freesock, in a worker or in a caller. *)

\* Mutated Uncount: a connection that never connected is counted out too.
UncountAlways(t) ==
    /\ pc[t] = "freesock"
    /\ concurrentServers' = concurrentServers - 1
    /\ Goto(t, "unlink")
    /\ UNCHANGED <<mainVars, connVars, inflight, ctlist, timerVars, totalServers, c, op>>

\* A connection that was never connected has no pkt and is not counted out.
Uncount(t) ==
    /\ pc[t] = "freesock"
    /\ concurrentServers' = IF pkt[c[t]] THEN concurrentServers - 1 ELSE concurrentServers
    /\ Goto(t, "unlink")
    /\ UNCHANGED <<mainVars, connVars, inflight, ctlist, timerVars, totalServers, c, op>>

\* Mutated Unlink: tstr->mtx is not taken.
UnlinkUnlocked(t) ==
    /\ pc[t] = "unlink"
    /\ ctlist' = ctlist \ {c[t]}
    /\ Goto(t, "delete")
    /\ UNCHANGED <<mainVars, connVars, inflight, timerVars, countVars, c, op>>

\* Under tstr->mtx, which the callback holds from its first entry to its last.
Unlink(t) ==
    /\ pc[t] = "unlink"
    /\ mtx = "free"
    /\ ctlist' = ctlist \ {c[t]}
    /\ Goto(t, "delete")
    /\ UNCHANGED <<mainVars, connVars, inflight, timerVars, countVars, c, op>>

Delete(t) ==
    /\ pc[t] = "delete"
    /\ mem' = [mem EXCEPT ![c[t]] = "freed"]
    /\ Goto(t, "return")
    /\ UNCHANGED <<mainVars, pkt, left, fin, inflight, ctlist, timerVars, countVars, c, op>>

\* A worker waits for its next completion; a caller thread ends.
Return(t) ==
    /\ pc[t] = "return"
    /\ Goto(t, IF t \in Workers THEN "loop" ELSE "idle")
    /\ c' = [c EXCEPT ![t] = NoConn]
    /\ op' = [op EXCEPT ![t] = NoOperation]
    /\ UNCHANGED <<mainVars, connVars, inflight, ctlist, timerVars, countVars>>

-----------------------------------------------------------------------------
(* timer_callback: every millisecond, under tstr->mtx from end to end. *)

TickLock ==
    /\ ticking /\ mtx = "free" /\ ctlist # {}
    /\ mtx' = "timer"
    /\ scan' = ctlist
    /\ UNCHANGED <<mainVars, connVars, inflight, ctlist, countVars, threadVars>>

\* hlrcvtimeo and hlsndtimeo are 0, so a visit reads and changes nothing.
TickVisit(k) ==
    /\ k \in scan
    /\ scan' = scan \ {k}
    /\ UNCHANGED <<mainVars, connVars, inflight, ctlist, mtx, countVars, threadVars>>

TickUnlock ==
    /\ mtx = "timer" /\ scan = {}
    /\ mtx' = "free"
    /\ UNCHANGED <<mainVars, connVars, inflight, ctlist, scan, countVars, threadVars>>

-----------------------------------------------------------------------------
Serve          == (\E w \in Workers : CreateWorker(w)) \/ WorkerNotCreated \/ CreateTimer
Post(t)        == PostIssue(t) \/ PostFail(t) \/ Tail(t)
HandleEvent(w) == EventFailed(w) \/ EventConnected(w) \/ Connected(w) \/ EventPart(w)
                  \/ EventSent(w) \/ EventReceived(w)
Freesock(t)    == Uncount(t) \/ Unlink(t) \/ Delete(t)
Timer          == TickLock \/ (\E k \in Conns : TickVisit(k)) \/ TickUnlock

Next ==
    \/ Serve
    \/ \E t \in Callers : (\E k \in Conns : PostConnect(t, k)) \/ Link(t)
    \/ \E t \in Threads : Post(t) \/ Freesock(t) \/ Return(t)
    \/ \E w \in Workers :
          WorkerLoop(w) \/ (\E k \in Conns : Dequeue(w, k)) \/ HandleEvent(w)
    \/ \E k \in Conns : PeerFin(k) \/ Complete(k)
    \/ Timer

Spec == Init /\ [][Next]_vars

\* Workers and callers run and get the mutex they keep asking for (the callback
\* holds it for one round a millisecond); completions are handed out in order.
\* Nothing is assumed of CreateThread, of the callers, of the timer, or of the
\* operations in the system: no timeout is set (timerthrd.h:45 and 60 test 0),
\* so an operation lasts as long as the server is silent.
Fairness ==
    /\ \A t \in Threads :
          /\ WF_vars(Post(t) \/ Uncount(t) \/ Delete(t) \/ Return(t))
          /\ SF_vars(Unlink(t))
    /\ \A t \in Callers : SF_vars(Link(t))
    /\ \A w \in Workers : WF_vars(WorkerLoop(w) \/ HandleEvent(w))
    /\ WF_vars((\E k \in Conns : TickVisit(k)) \/ TickUnlock)
    /\ \A k \in Conns : SF_vars(\E w \in Workers : Dequeue(w, k))

FairSpec == Spec /\ Fairness

-----------------------------------------------------------------------------
WorkerPCs == {"off", "loop", "wait", "exit", "event", "count"}
CallerPCs == {"idle", "link"}
SharedPCs == {"post", "tail", "freesock", "unlink", "delete", "return"}
PCs == WorkerPCs \cup CallerPCs \cup SharedPCs

Operations ==
    [type : {"IO_CONNECT", "IO_RECV", "IO_SEND"},
     st : {"none", "pending", "ok", "failed"},
     bytes : 0 .. Pieces]

\* Every variable has its type.
TypeOK ==
    /\ serving \in {"serve", "loop"} /\ work \in BOOLEAN /\ ticking \in BOOLEAN
    /\ mem \in [Conns -> {"none", "live", "freed"}]
    /\ pkt \in [Conns -> BOOLEAN]
    /\ left \in [Conns -> 0 .. Pieces]
    /\ fin \in [Conns -> BOOLEAN]
    /\ inflight \in [Conns -> SUBSET Operations]
    /\ ctlist \subseteq Conns
    /\ mtx \in {"free", "timer"} /\ scan \subseteq Conns
    /\ concurrentServers \in Int /\ totalServers \in Nat
    /\ pc \in [Threads -> PCs]
    /\ c \in [Threads -> Conns \cup {NoConn}]
    /\ op \in [Threads -> Operations]

At(t, k, labels) == c[t] = k /\ pc[t] \in labels

\* The thread that decides what happens to the connection next.
Driving == {"link", "event", "count", "post", "freesock", "unlink", "delete"}

\* A connection is driven by one thread or waits for one operation, never two
\* of these at once, although the caller that opened it, the worker that posted
\* its last operation and the worker that handles it are three threads.
OneDriver ==
    \A k \in Conns :
        /\ \A s, t \in Threads : At(s, k, Driving) /\ At(t, k, Driving) => s = t
        /\ \A t \in Threads : At(t, k, Driving) => inflight[k] = {}
        /\ \A a, b \in inflight[k] : a = b

\* A connection that is not freed yet has a thread or an operation that will
\* take it further: the client, unlike the server, leaves none behind.
NeverAbandoned ==
    \A k \in Conns :
        mem[k] = "live" => inflight[k] # {} \/ \E t \in Threads : At(t, k, Driving)

\* Only what post_connect, post_recv and post_send store after the call can
\* reach a ConnCtx that has been deleted: everything before that works on live
\* memory, and no operation is in flight on freed memory.
LiveUntilTail ==
    \A k \in Conns :
        /\ \A t \in Threads : At(t, k, Driving) => mem[k] = "live"
        /\ inflight[k] # {} => mem[k] = "live"

\* ctlist holds the live connections, from post_connect's first lock to
\* freesock's, and what a callback has yet to visit cannot leave it meanwhile.
ListExact ==
    /\ ctlist = {k \in Conns : mem[k] = "live" /\ \A t \in Threads : ~At(t, k, {"link", "delete"})}
    /\ scan \subseteq ctlist

\* The counters main prints: total counts the connections that succeeded, and
\* concurrent those of them that no freesock has counted out; a failed connect
\* changes neither, so the size_t never wraps.
CountersExact ==
    /\ totalServers = Cardinality({k \in Conns : pkt[k]})
    /\ concurrentServers =
          Cardinality({k \in Conns : pkt[k] /\ mem[k] = "live"
                          /\ \A t \in Threads : ~At(t, k, {"count", "unlink", "delete"})})

\* The system has an operation of k that has not ended.
Waiting(k) == \E o \in inflight[k] : o.st = "pending"

\* A worker handles a receive that brought nothing, after the server's FIN.
EmptyReceive(k) ==
    fin[k] /\ \E w \in Workers :
        At(w, k, {"event"}) /\ op[w].type = "IO_RECV" /\ op[w].st = "ok" /\ op[w].bytes = 0

\* A completion of k is in the port, and the last worker has left the loop.
Unserved(k) ==
    /\ ~work /\ \A w \in Workers : pc[w] \in {"off", "exit"}
    /\ \E o \in inflight[k] : o.st # "pending"

\* A connection is not live for ever, with these exceptions and no others: one
\* operation of it never ends; its server has closed before the whole reply came
\* and it goes round in empty receives (worker.h:733); or a worker thread could
\* not be created (ioclient.cpp:292) and all the others have stopped.
Settles ==
    \A k \in Conns :
        \/ []<>(mem[k] # "live")
        \/ <>[]Waiting(k)
        \/ []<>EmptyReceive(k)
        \/ <>[]Unserved(k)

-----------------------------------------------------------------------------
(* Each ConnCtx is owned as Ownership says, and none is lost. *)

OwnerOf(k) ==
    IF mem[k] # "live" THEN mem[k]
    ELSE IF inflight[k] # {} THEN "system"
    ELSE IF \E t \in Threads : At(t, k, Driving) THEN "thread"
    ELSE "lost"

Ownership ==
    INSTANCE Ownership WITH owner <- [k \in Conns |-> OwnerOf(k)], MayLose <- FALSE

\* The client hands a ConnCtx over and never shares it, deletes it once and
\* never under a pending operation, and lets go of none.
OwnershipKept == Ownership!Spec

=============================================================================
