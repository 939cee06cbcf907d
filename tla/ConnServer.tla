----------------------------- MODULE ConnServer -----------------------------
(***************************************************************************)
(* The connections of the v2 server: the worker threads that share one     *)
(* completion port, the AcceptEx pool, the life of a ConnCtx from accept   *)
(* to freesock, the reference count a posting worker holds across WSARecv  *)
(* and WSASend, the registry gt.conns and the two client counters that     *)
(* main prints once a second.                                              *)
(*                                                                         *)
(* A ConnCtx is an element of Conns and serves one client; a buffer is a   *)
(* number of pieces, and so are the bytes of a completion.  The timers of  *)
(* the operations are module TimerWheel; here any pending operation may    *)
(* be aborted.  keepalive and streaming are false in every connection      *)
(* (worker.h:777, 793) and the branches they guard are left out.           *)
(***************************************************************************)
EXTENDS Integers, FiniteSets

CONSTANTS
    Workers,    \* worker threads (6 in the source)
    Conns,      \* ConnCtx objects that can be allocated
    NoConn,     \* the null ConnCtx pointer
    Accepts,    \* AcceptEx calls serve() posts (6 in the source)
    Pieces      \* pieces of the largest buffer

ASSUME ServerAssumption ==
    /\ IsFiniteSet(Workers) /\ IsFiniteSet(Conns)
    /\ NoConn \notin Conns
    /\ Accepts \in Nat
    /\ Pieces \in Nat \ {0}

\* want and wantsend are what is left of the buffer: want - wantPresent and
\* wantsend - sentOff in the source.

\* What a request turns out to be: two answered types, an unknown type, the
\* ARGUMENTS flag, and a name so short that nothing is left to read of it.
Requests == {"GET", "POST", "other", "ARGUMENTS", "noname"}

VARIABLES
    mem,                \* ConnCtx -> "none", "live" or "freed"
    refcount, ps, req, want, wantsend, recvThreshold,   \* fields of ConnCtx
    fin,                \* the peer has closed its sending side
    inflight,           \* ConnCtx -> operations posted and not yet dequeued
    accepting,          \* AcceptEx operations posted and not yet dequeued
    lostaccepts,        \* ghost: AcceptEx operations that were not posted again
    conns,              \* gt.conns
    concurrentClients, totalClients,
    pc, c, op, after,   \* worker: where it is, its ConnCtx, the operation it
                        \* handles or posts, what its caller still touches
    gtmtx,              \* gt.mtx: "free", or "main" while main prints
    dump                \* connections main has yet to print

connVars    == <<mem, refcount, ps, req, want, wantsend, recvThreshold, fin>>
acceptVars  == <<accepting, lostaccepts>>
countVars   == <<concurrentClients, totalClients>>
workerVars  == <<pc, c, op, after>>
monitorVars == <<gtmtx, dump>>
vars == <<connVars, inflight, acceptVars, conns, countVars, workerVars, monitorVars>>

Operation(type, st, bytes) == [type |-> type, st |-> st, bytes |-> bytes]
NoOperation == Operation("IO_ACCEPT", "none", 0)

Init ==
    /\ mem = [k \in Conns |-> "none"]
    /\ refcount = [k \in Conns |-> 0]
    /\ ps = [k \in Conns |-> "PS_HDR"]
    /\ req = [k \in Conns |-> "none"]
    /\ want = [k \in Conns |-> 0]
    /\ wantsend = [k \in Conns |-> 0]
    /\ recvThreshold = [k \in Conns |-> 0]
    /\ fin = [k \in Conns |-> FALSE]
    /\ inflight = [k \in Conns |-> {}]
    /\ accepting = Accepts /\ lostaccepts = 0
    /\ conns = {}
    /\ concurrentClients = 0 /\ totalClients = 0
    /\ pc = [w \in Workers |-> "idle"]
    /\ c = [w \in Workers |-> NoConn]
    /\ op = [w \in Workers |-> NoOperation]
    /\ after = [w \in Workers |-> "none"]
    /\ gtmtx = "free" /\ dump = {}

Goto(w, l) == pc' = [pc EXCEPT ![w] = l]

-----------------------------------------------------------------------------
(* The peers and the I/O manager. *)

\* The peer of a connection shuts down its sending side.
PeerFin(k) ==
    /\ mem[k] = "live" /\ ~fin[k]
    /\ fin' = [fin EXCEPT ![k] = TRUE]
    /\ UNCHANGED <<mem, refcount, ps, req, want, wantsend, recvThreshold, inflight,
                   acceptVars, conns, countVars, workerVars, monitorVars>>

\* How a pending operation may end.  A receive completes with no bytes only
\* after the peer's FIN.
Results(k, o) ==
    LET most == IF o.type = "IO_RECV" THEN want[k] ELSE wantsend[k] IN
    {Operation(o.type, "ok", b) : b \in 1 .. most}
    \cup {Operation(o.type, st, 0) : st \in {"failed", "aborted"}}
    \cup (IF o.type = "IO_RECV" /\ fin[k] THEN {Operation(o.type, "ok", 0)} ELSE {})

Complete(k) ==
    /\ \E o \in inflight[k] :
          /\ o.st = "pending"
          /\ \E r \in Results(k, o) :
                inflight' = [inflight EXCEPT ![k] = (@ \ {o}) \cup {r}]
    /\ UNCHANGED <<connVars, acceptVars, conns, countVars, workerVars, monitorVars>>

-----------------------------------------------------------------------------
(* worker: GetQueuedCompletionStatus hands out one completion. *)

Dequeue(w, k) ==
    /\ pc[w] = "idle"
    /\ \E o \in inflight[k] :
          /\ o.st # "pending"
          /\ inflight' = [inflight EXCEPT ![k] = @ \ {o}]
          /\ op' = [op EXCEPT ![w] = o]
    /\ c' = [c EXCEPT ![w] = k]
    /\ Goto(w, "event")
    /\ UNCHANGED <<connVars, acceptVars, conns, countVars, after, monitorVars>>

\* IO_ACCEPT: a new ConnCtx, counted at once.
AcceptOk(w, k) ==
    /\ pc[w] = "idle"
    /\ accepting > 0
    /\ mem[k] = "none"
    /\ accepting' = accepting - 1
    /\ mem' = [mem EXCEPT ![k] = "live"]
    /\ concurrentClients' = concurrentClients + 1
    /\ totalClients' = totalClients + 1
    /\ c' = [c EXCEPT ![w] = k]
    /\ Goto(w, "track")
    /\ UNCHANGED <<refcount, ps, req, want, wantsend, recvThreshold, fin, inflight,
                   lostaccepts, conns, op, after, monitorVars>>

\* Mutated AcceptFailed: the next AcceptEx is not posted.
AcceptFailedGivesUp(w) ==
    /\ pc[w] = "idle"
    /\ accepting > 0
    /\ accepting' = accepting - 1
    /\ Goto(w, "idle")
    /\ UNCHANGED <<connVars, inflight, lostaccepts, conns, countVars, c, op, after, monitorVars>>

\* IO_ACCEPT that failed: close the socket and post the next one.
AcceptFailed(w) ==
    /\ pc[w] = "idle"
    /\ accepting > 0
    /\ accepting' = accepting - 1
    /\ Goto(w, "reaccept")
    /\ UNCHANGED <<connVars, inflight, lostaccepts, conns, countVars, c, op, after, monitorVars>>

\* gt.addMe, under gt.mtx.
AddMe(w) ==
    /\ pc[w] = "track"
    /\ gtmtx = "free"
    /\ conns' = conns \cup {c[w]}
    /\ Goto(w, "reaccept")
    /\ UNCHANGED <<connVars, inflight, acceptVars, countVars, c, op, after, monitorVars>>

\* post_accept, then handle_accepted for a new connection: the first receive
\* wants the whole header and takes anything less for a timeout.
PostAccept(w) ==
    /\ pc[w] = "reaccept"
    /\ \/ /\ accepting' = accepting + 1
          /\ UNCHANGED lostaccepts
       \/ /\ lostaccepts' = lostaccepts + 1
          /\ UNCHANGED accepting
    /\ IF c[w] = NoConn
       THEN /\ Goto(w, "idle")
            /\ UNCHANGED <<ps, want, recvThreshold, op>>
       ELSE /\ ps' = [ps EXCEPT ![c[w]] = "PS_HDR"]
            /\ want' = [want EXCEPT ![c[w]] = Pieces]
            /\ recvThreshold' = [recvThreshold EXCEPT ![c[w]] = Pieces]
            /\ op' = [op EXCEPT ![w] = Operation("IO_RECV", "none", 0)]
            /\ Goto(w, "post")
    /\ UNCHANGED <<mem, refcount, req, wantsend, fin, inflight, conns, countVars,
                   c, after, monitorVars>>

-----------------------------------------------------------------------------
(* handle_event for IO_RECV and IO_SEND. *)

\* freesock is the next call, and touched is what handle_event does with the
\* ConnCtx once it is back.
CallFreesock(w, touched) ==
    /\ Goto(w, "freesock")
    /\ after' = [after EXCEPT ![w] = touched]

CallPost(w, type, touched) ==
    /\ Goto(w, "post")
    /\ op' = [op EXCEPT ![w] = Operation(type, "none", 0)]
    /\ after' = [after EXCEPT ![w] = touched]

\* An aborted operation is a timeout (handle_timeo); after any other failure
\* the bytes of the ConnCtx are printed once freesock has returned.
EventFailed(w) ==
    /\ pc[w] = "event"
    /\ op[w].st \in {"failed", "aborted"}
    /\ CallFreesock(w, IF op[w].st = "failed" THEN "dump" ELSE "none")
    /\ UNCHANGED <<connVars, inflight, acceptVars, conns, countVars, c, op, monitorVars>>

Received(w) == pc[w] = "event" /\ op[w].st = "ok" /\ op[w].type = "IO_RECV"
Sent(w)     == pc[w] = "event" /\ op[w].st = "ok" /\ op[w].type = "IO_SEND"

\* Fewer bytes than recvThreshold: handle_timeo(c, IO_RECVTHRES).
EventShort(w) ==
    /\ Received(w)
    /\ op[w].bytes < recvThreshold[c[w]]
    /\ want' = [want EXCEPT ![c[w]] = @ - op[w].bytes]
    /\ CallFreesock(w, "none")
    /\ UNCHANGED <<mem, refcount, ps, req, wantsend, recvThreshold, fin, inflight,
                   acceptVars, conns, countVars, c, op, monitorVars>>

\* Mutated EventPartRecv: the bytes that came are asked for again.
EventPartRecvAgain(w) ==
    /\ Received(w)
    /\ op[w].bytes >= recvThreshold[c[w]]
    /\ op[w].bytes < want[c[w]]
    /\ recvThreshold' = [recvThreshold EXCEPT ![c[w]] = 0]
    /\ CallPost(w, "IO_RECV", "none")
    /\ UNCHANGED <<mem, refcount, ps, req, want, wantsend, fin, inflight,
                   acceptVars, conns, countVars, c, monitorVars>>

\* The buffer is not full yet: receive the rest, with no threshold.
EventPartRecv(w) ==
    /\ Received(w)
    /\ op[w].bytes >= recvThreshold[c[w]]
    /\ op[w].bytes < want[c[w]]
    /\ want' = [want EXCEPT ![c[w]] = @ - op[w].bytes]
    /\ recvThreshold' = [recvThreshold EXCEPT ![c[w]] = 0]
    /\ CallPost(w, "IO_RECV", "none")
    /\ UNCHANGED <<mem, refcount, ps, req, wantsend, fin, inflight,
                   acceptVars, conns, countVars, c, monitorVars>>

FullRecv(w) == Received(w) /\ op[w].bytes = want[c[w]] /\ op[w].bytes >= recvThreshold[c[w]]

\* handle_packet, PS_HDR: the header says what the request is and how long its
\* name is; one byte of the name has come with it.
PacketHeader(w) ==
    /\ FullRecv(w)
    /\ ps[c[w]] = "PS_HDR"
    /\ \E r \in Requests :
          /\ req' = [req EXCEPT ![c[w]] = r]
          /\ want' = [want EXCEPT ![c[w]] = IF r = "noname" THEN 0 ELSE Pieces]
    /\ ps' = [ps EXCEPT ![c[w]] = "PS_HEADHEAP"]
    /\ recvThreshold' = [recvThreshold EXCEPT ![c[w]] = 0]
    /\ CallPost(w, "IO_RECV", "recv")
    /\ UNCHANGED <<mem, refcount, wantsend, fin, inflight, acceptVars, conns, countVars,
                   c, monitorVars>>

\* Mutated PacketArguments: the lengths of the arguments are waited for.
PacketArgumentsRead(w) ==
    /\ FullRecv(w)
    /\ ps[c[w]] = "PS_HEADHEAP" /\ req[c[w]] = "ARGUMENTS"
    /\ ps' = [ps EXCEPT ![c[w]] = "PS_ARGVLEN"]
    /\ want' = [want EXCEPT ![c[w]] = Pieces]
    /\ CallPost(w, "IO_RECV", "recv")
    /\ UNCHANGED <<mem, refcount, req, wantsend, recvThreshold, fin, inflight,
                   acceptVars, conns, countVars, c, monitorVars>>

\* handle_packet, PS_HEADHEAP with ARGUMENTS: the number of arguments was never
\* stored (worker.h:135 reads the flag before line 154 sets it), so nothing is
\* left to receive.
PacketArguments(w) ==
    /\ FullRecv(w)
    /\ ps[c[w]] = "PS_HEADHEAP" /\ req[c[w]] = "ARGUMENTS"
    /\ ps' = [ps EXCEPT ![c[w]] = "PS_ARGVLEN"]
    /\ want' = [want EXCEPT ![c[w]] = 0]
    /\ CallPost(w, "IO_RECV", "recv")
    /\ UNCHANGED <<mem, refcount, req, wantsend, recvThreshold, fin, inflight,
                   acceptVars, conns, countVars, c, monitorVars>>

\* Mutated PacketGet: the length of the reply counts its header twice.
PacketGetLong(w) ==
    /\ FullRecv(w)
    /\ ps[c[w]] = "PS_HEADHEAP" /\ req[c[w]] = "GET"
    /\ want' = [want EXCEPT ![c[w]] = 0]
    /\ wantsend' = [wantsend EXCEPT ![c[w]] = Pieces + 1]
    /\ ps' = [ps EXCEPT ![c[w]] = "PS_CLOSED"]
    /\ CallPost(w, "IO_SEND", "recv")
    /\ UNCHANGED <<mem, refcount, req, recvThreshold, fin, inflight,
                   acceptVars, conns, countVars, c, monitorVars>>

\* handle_packet, GET: build the reply and send it.
PacketGet(w) ==
    /\ FullRecv(w)
    /\ ps[c[w]] = "PS_HEADHEAP" /\ req[c[w]] = "GET"
    /\ want' = [want EXCEPT ![c[w]] = 0]
    /\ wantsend' = [wantsend EXCEPT ![c[w]] = Pieces]
    /\ ps' = [ps EXCEPT ![c[w]] = "PS_CLOSED"]
    /\ CallPost(w, "IO_SEND", "recv")
    /\ UNCHANGED <<mem, refcount, req, recvThreshold, fin, inflight,
                   acceptVars, conns, countVars, c, monitorVars>>

\* handle_packet, POST: build the reply, then freesock.
PacketPost(w) ==
    /\ FullRecv(w)
    /\ ps[c[w]] = "PS_HEADHEAP" /\ req[c[w]] = "POST"
    /\ want' = [want EXCEPT ![c[w]] = 0]
    /\ wantsend' = [wantsend EXCEPT ![c[w]] = Pieces]
    /\ ps' = [ps EXCEPT ![c[w]] = "PS_RECEIVING"]
    /\ CallFreesock(w, "recv")
    /\ UNCHANGED <<mem, refcount, req, recvThreshold, fin, inflight,
                   acceptVars, conns, countVars, c, op, monitorVars>>

\* handle_packet, any other type: return with nothing posted.
PacketOther(w) ==
    /\ FullRecv(w)
    /\ ps[c[w]] = "PS_HEADHEAP" /\ req[c[w]] = "other"
    /\ want' = [want EXCEPT ![c[w]] = 0]
    /\ Goto(w, "return")
    /\ after' = [after EXCEPT ![w] = "recv"]
    /\ UNCHANGED <<mem, refcount, ps, req, wantsend, recvThreshold, fin, inflight,
                   acceptVars, conns, countVars, c, op, monitorVars>>

EventPartSend(w) ==
    /\ Sent(w)
    /\ op[w].bytes < wantsend[c[w]]
    /\ wantsend' = [wantsend EXCEPT ![c[w]] = @ - op[w].bytes]
    /\ CallPost(w, "IO_SEND", "none")
    /\ UNCHANGED <<mem, refcount, ps, req, want, recvThreshold, fin, inflight,
                   acceptVars, conns, countVars, c, monitorVars>>

\* handle_sent: the reply is out, PS_CLOSED.
EventFullSend(w) ==
    /\ Sent(w)
    /\ op[w].bytes = wantsend[c[w]]
    /\ wantsend' = [wantsend EXCEPT ![c[w]] = 0]
    /\ CallFreesock(w, "send")
    /\ UNCHANGED <<mem, refcount, ps, req, want, recvThreshold, fin, inflight,
                   acceptVars, conns, countVars, c, op, monitorVars>>

-----------------------------------------------------------------------------
(* post_recv and post_send. *)

\* Nothing to receive: freesock, before the reference is taken.
PostNull(w) ==
    /\ pc[w] = "post"
    /\ op[w].type = "IO_RECV" /\ want[c[w]] = 0
    /\ Goto(w, "freesock")
    /\ UNCHANGED <<connVars, inflight, acceptVars, conns, countVars, c, op, after, monitorVars>>

PostRef(w) ==
    /\ pc[w] = "post"
    /\ (IF op[w].type = "IO_RECV" THEN want ELSE wantsend)[c[w]] > 0
    /\ refcount' = [refcount EXCEPT ![c[w]] = @ + 1]
    /\ Goto(w, "issue")
    /\ UNCHANGED <<mem, ps, req, want, wantsend, recvThreshold, fin, inflight,
                   acceptVars, conns, countVars, c, op, after, monitorVars>>

\* Mutated PostIssue: WSA_IO_PENDING is taken for a failure.
PostIssuePendingFails(w) ==
    /\ pc[w] = "issue"
    /\ inflight' = [inflight EXCEPT ![c[w]] = @ \cup {Operation(op[w].type, "pending", 0)}]
    /\ Goto(w, "unreffail")
    /\ UNCHANGED <<connVars, acceptVars, conns, countVars, c, op, after, monitorVars>>

\* WSARecv or WSASend: from here the completion may be handled by any worker.
PostIssue(w) ==
    /\ pc[w] = "issue"
    /\ inflight' = [inflight EXCEPT ![c[w]] = @ \cup {Operation(op[w].type, "pending", 0)}]
    /\ Goto(w, "unref")
    /\ UNCHANGED <<connVars, acceptVars, conns, countVars, c, op, after, monitorVars>>

PostFail(w) ==
    /\ pc[w] = "issue"
    /\ Goto(w, "unreffail")
    /\ UNCHANGED <<connVars, inflight, acceptVars, conns, countVars, c, op, after, monitorVars>>

\* Mutated PostUnref: the path of a failed call keeps the reference.
PostUnrefKeeps(w) ==
    /\ pc[w] \in {"unref", "unreffail"}
    /\ refcount' = [refcount EXCEPT ![c[w]] = IF pc[w] = "unref" THEN @ - 1 ELSE @]
    /\ Goto(w, IF pc[w] = "unref" THEN "return" ELSE "freesock")
    /\ UNCHANGED <<mem, ps, req, want, wantsend, recvThreshold, fin, inflight,
                   acceptVars, conns, countVars, c, op, after, monitorVars>>

\* Mutated PostUnref: a failed call returns without freesock.
PostUnrefReturns(w) ==
    /\ pc[w] \in {"unref", "unreffail"}
    /\ refcount' = [refcount EXCEPT ![c[w]] = @ - 1]
    /\ Goto(w, "return")
    /\ UNCHANGED <<mem, ps, req, want, wantsend, recvThreshold, fin, inflight,
                   acceptVars, conns, countVars, c, op, after, monitorVars>>

PostUnref(w) ==
    /\ pc[w] \in {"unref", "unreffail"}
    /\ refcount' = [refcount EXCEPT ![c[w]] = @ - 1]
    /\ Goto(w, IF pc[w] = "unref" THEN "return" ELSE "freesock")
    /\ UNCHANGED <<mem, ps, req, want, wantsend, recvThreshold, fin, inflight,
                   acceptVars, conns, countVars, c, op, after, monitorVars>>

-----------------------------------------------------------------------------
(* freesock. *)

\* Somebody still holds a reference: freesock does nothing.
FreesockRefused(w) ==
    /\ pc[w] = "freesock"
    /\ refcount[c[w]] # 0
    /\ Goto(w, "return")
    /\ UNCHANGED <<connVars, inflight, acceptVars, conns, countVars, c, op, after, monitorVars>>

\* Mutated FreesockEnter: the reference count is not looked at.
FreesockEnterAlways(w) ==
    /\ pc[w] = "freesock"
    /\ Goto(w, "untrack")
    /\ UNCHANGED <<connVars, inflight, acceptVars, conns, countVars, c, op, after, monitorVars>>

FreesockEnter(w) ==
    /\ pc[w] = "freesock"
    /\ refcount[c[w]] = 0
    /\ Goto(w, "untrack")
    /\ UNCHANGED <<connVars, inflight, acceptVars, conns, countVars, c, op, after, monitorVars>>

\* Mutated RemoveMe: gt.mtx is not taken.
RemoveMeUnlocked(w) ==
    /\ pc[w] = "untrack"
    /\ conns' = conns \ {c[w]}
    /\ Goto(w, "uncount")
    /\ UNCHANGED <<connVars, inflight, acceptVars, countVars, c, op, after, monitorVars>>

\* Mutated RemoveMe: freesock goes on without counting the client out.
RemoveMeUncounted(w) ==
    /\ pc[w] = "untrack"
    /\ gtmtx = "free"
    /\ conns' = conns \ {c[w]}
    /\ Goto(w, "delete")
    /\ UNCHANGED <<connVars, inflight, acceptVars, countVars, c, op, after, monitorVars>>

\* gt.removeMe, under gt.mtx.
RemoveMe(w) ==
    /\ pc[w] = "untrack"
    /\ gtmtx = "free"
    /\ conns' = conns \ {c[w]}
    /\ Goto(w, "uncount")
    /\ UNCHANGED <<connVars, inflight, acceptVars, countVars, c, op, after, monitorVars>>

Uncount(w) ==
    /\ pc[w] = "uncount"
    /\ concurrentClients' = concurrentClients - 1
    /\ Goto(w, "delete")
    /\ UNCHANGED <<connVars, inflight, acceptVars, conns, totalClients, c, op, after, monitorVars>>

\* closesocket, free and delete.
Delete(w) ==
    /\ pc[w] = "delete"
    /\ mem' = [mem EXCEPT ![c[w]] = "freed"]
    /\ Goto(w, "return")
    /\ UNCHANGED <<refcount, ps, req, want, wantsend, recvThreshold, fin, inflight,
                   acceptVars, conns, countVars, c, op, after, monitorVars>>

\* Back in handle_event: what after names (lastrecvamifree, lastsendamifree or
\* the dump) is touched whatever has become of the ConnCtx.
Return(w) ==
    /\ pc[w] = "return"
    /\ Goto(w, "idle")
    /\ c' = [c EXCEPT ![w] = NoConn]
    /\ op' = [op EXCEPT ![w] = NoOperation]
    /\ after' = [after EXCEPT ![w] = "none"]
    /\ UNCHANGED <<connVars, inflight, acceptVars, conns, countVars, monitorVars>>

-----------------------------------------------------------------------------
(* main, once a second: print every registered connection under gt.mtx. *)

MonitorLock ==
    /\ gtmtx = "free"
    /\ gtmtx' = "main"
    /\ dump' = conns
    /\ UNCHANGED <<connVars, inflight, acceptVars, conns, countVars, workerVars>>

MonitorDump(k) ==
    /\ k \in dump
    /\ dump' = dump \ {k}
    /\ UNCHANGED gtmtx
    /\ UNCHANGED <<connVars, inflight, acceptVars, conns, countVars, workerVars>>

MonitorUnlock ==
    /\ gtmtx = "main" /\ dump = {}
    /\ gtmtx' = "free"
    /\ UNCHANGED dump
    /\ UNCHANGED <<connVars, inflight, acceptVars, conns, countVars, workerVars>>

-----------------------------------------------------------------------------
Accept(w)       == AcceptFailed(w) \/ AddMe(w) \/ PostAccept(w)
HandlePacket(w) == PacketHeader(w) \/ PacketArguments(w) \/ PacketGet(w)
                   \/ PacketPost(w) \/ PacketOther(w)
HandleEvent(w)  == EventFailed(w) \/ EventShort(w) \/ EventPartRecv(w) \/ HandlePacket(w)
                   \/ EventPartSend(w) \/ EventFullSend(w)
Post(w)         == PostNull(w) \/ PostRef(w) \/ PostIssue(w) \/ PostFail(w) \/ PostUnref(w)
Freesock(w)     == FreesockRefused(w) \/ FreesockEnter(w) \/ RemoveMe(w) \/ Uncount(w)
                   \/ Delete(w)
Monitor         == MonitorLock \/ (\E k \in Conns : MonitorDump(k)) \/ MonitorUnlock

Next ==
    \/ \E w \in Workers :
          \/ \E k \in Conns : Dequeue(w, k) \/ AcceptOk(w, k)
          \/ Accept(w) \/ HandleEvent(w) \/ Post(w) \/ Freesock(w) \/ Return(w)
    \/ \E k \in Conns : PeerFin(k) \/ Complete(k)
    \/ Monitor

Spec == Init /\ [][Next]_vars

\* The threads run: a worker goes on, main finishes what it prints, and both
\* get the mutex they keep asking for (main sleeps between two rounds).  The
\* completion queue is first in, first out, so no completion is passed over
\* for ever.  Nothing is assumed of the operations in the system: maketimer may
\* find no id (wstruc.h:28), a timer may be lost (wstruc.h:166), and a silent
\* peer then keeps an operation for ever.
Fairness ==
    /\ \A w \in Workers :
          /\ WF_vars(PostAccept(w) \/ HandleEvent(w) \/ Post(w) \/ Freesock(w) \/ Return(w))
          /\ SF_vars(AddMe(w))
          /\ SF_vars(RemoveMe(w))
    /\ WF_vars((\E k \in Conns : MonitorDump(k)) \/ MonitorUnlock)
    /\ \A k \in Conns : SF_vars(\E w \in Workers : Dequeue(w, k))

FairSpec == Spec /\ Fairness

-----------------------------------------------------------------------------
PCs == {"idle", "track", "reaccept", "event", "post", "issue", "unref", "unreffail",
        "freesock", "untrack", "uncount", "delete", "return"}

Operations ==
    [type : {"IO_ACCEPT", "IO_RECV", "IO_SEND"},
     st : {"none", "pending", "ok", "failed", "aborted"},
     bytes : 0 .. Pieces]

\* Every variable has its type.
TypeOK ==
    /\ mem \in [Conns -> {"none", "live", "freed"}]
    /\ refcount \in [Conns -> Int]
    /\ ps \in [Conns -> {"PS_HDR", "PS_HEADHEAP", "PS_ARGVLEN", "PS_RECEIVING", "PS_CLOSED"}]
    /\ req \in [Conns -> Requests \cup {"none"}]
    /\ want \in [Conns -> 0 .. Pieces]
    /\ wantsend \in [Conns -> 0 .. Pieces]
    /\ recvThreshold \in [Conns -> 0 .. Pieces]
    /\ fin \in [Conns -> BOOLEAN]
    /\ inflight \in [Conns -> SUBSET Operations]
    /\ accepting \in 0 .. Accepts /\ lostaccepts \in 0 .. Accepts
    /\ conns \subseteq Conns
    /\ concurrentClients \in Int /\ totalClients \in Nat
    /\ pc \in [Workers -> PCs]
    /\ c \in [Workers -> Conns \cup {NoConn}]
    /\ op \in [Workers -> Operations]
    /\ after \in [Workers -> {"none", "recv", "send", "dump"}]
    /\ gtmtx \in {"free", "main"}
    /\ dump \subseteq Conns

-----------------------------------------------------------------------------
(* Who a connection belongs to. *)

At(w, k, labels) == c[w] = k /\ pc[w] \in labels

\* The worker that decides what happens to the connection next.
Driving == {"track", "reaccept", "event", "post", "issue", "unreffail",
            "freesock", "untrack", "uncount", "delete"}
\* The workers that hold a reference, and those past freesock's test of it.
Holding == {"issue", "unref", "unreffail"}
Freeing == {"untrack", "uncount", "delete"}

\* A connection is driven by one worker or waits for one operation, never two
\* of these at once: nothing in handle_event takes a lock on the ConnCtx, its
\* plain fields are safe only because receive and send alternate.
OneDriver ==
    \A k \in Conns :
        /\ \A v, w \in Workers : At(v, k, Driving) /\ At(w, k, Driving) => v = w
        /\ \A w \in Workers : At(w, k, Driving) => inflight[k] = {}
        /\ \A a, b \in inflight[k] : a = b

\* refcount is the number of workers between its fetch_add and its fetch_sub
\* in post_recv or post_send; it never goes below zero or stays behind.
RefCountExact ==
    \A k \in Conns : refcount[k] = Cardinality({w \in Workers : At(w, k, Holding)})

\* No worker reads or writes a ConnCtx that another one has deleted, up to and
\* including the fetch_sub after WSARecv, by which time the completion may have
\* run the connection to its end; what is touched after "return" is not covered.
NoUseAfterFree ==
    \A w \in Workers : \A k \in Conns : At(w, k, PCs \ {"return"}) => mem[k] = "live"

\* No operation is in flight on a deleted connection: its completion would be
\* handled by reading the ConnCtx.
NoOrphanOperation == \A k \in Conns : inflight[k] # {} => mem[k] = "live"

\* What main prints while it holds gt.mtx is allocated: freesock unregisters a
\* connection, under that mutex, before it deletes it.
MonitorSafe ==
    /\ conns \subseteq {k \in Conns : mem[k] = "live"}
    /\ dump \subseteq conns

\* concurrentClients counts the allocated connections that no freesock has
\* counted out, a size_t that must not wrap below zero.
CounterExact ==
    concurrentClients =
        Cardinality({k \in Conns : mem[k] = "live" /\ \A w \in Workers : ~At(w, k, {"delete"})})

\* The AcceptEx pool shrinks only when post_accept itself fails.
AcceptPool ==
    accepting + lostaccepts
      + Cardinality({w \in Workers : pc[w] \in {"track", "reaccept"}}) = Accepts

\* A live connection that nobody drives and no operation will ever wake.
Abandoned(k) ==
    /\ mem[k] = "live"
    /\ inflight[k] = {}
    /\ \A w \in Workers : ~At(w, k, Driving)

\* A connection is abandoned in two ways only: freesock finds a reference of
\* the worker that posted the operation and has not yet dropped it, or
\* handle_packet meets a request type it does not know.
AbandonedTwoWays ==
    [][\A k \in Conns :
          ~Abandoned(k) /\ Abandoned(k)' =>
             \E w \in Workers :
                \/ /\ At(w, k, {"freesock"})
                   /\ \E v \in Workers : At(v, k, {"unref"})
                \/ At(w, k, {"event"}) /\ req[k] = "other"]_vars

\* The arguments of a request are never received: handle_packet's branches for
\* PS_ARGVLEN and PS_ARGDATA do not run.
ArgumentsNeverPending == \A k \in Conns : inflight[k] # {} => ps[k] \in {"PS_HDR", "PS_HEADHEAP", "PS_CLOSED"}

\* typs.h:42-43, "read arglenv[]" and "read the arguments": a connection in that
\* phase has something to receive.
ArgumentsAreRead == \A k \in Conns : mem[k] = "live" /\ ps[k] = "PS_ARGVLEN" => want[k] > 0

\* worker.h:270, "take care that the receiver gets back the header, the code and
\* the length": a reply that was built is given up only after a send was tried.
ReplyIsSent ==
    \A w \in Workers : \A k \in Conns :
        At(w, k, {"freesock"}) /\ wantsend[k] > 0 => op[w].type = "IO_SEND"

\* The system has an operation of k that has not ended.
Waiting(k) == \E o \in inflight[k] : o.st = "pending"

\* A worker handles a receive that brought nothing, after the peer's FIN.
EmptyReceive(k) ==
    fin[k] /\ \E w \in Workers :
        At(w, k, {"event"}) /\ op[w].type = "IO_RECV" /\ op[w].st = "ok" /\ op[w].bytes = 0

\* A connection is not live for ever, with these exceptions and no others: it is
\* abandoned; one operation of it never ends; or its peer has closed and it
\* goes round in empty receives (worker.h:865).  No other completion can be
\* handled for ever, and none stays unhandled.
Settles ==
    \A k \in Conns :
        \/ []<>(mem[k] # "live" \/ Abandoned(k))
        \/ <>[]Waiting(k)
        \/ []<>EmptyReceive(k)

-----------------------------------------------------------------------------
(* Each ConnCtx is owned as Ownership says, though it may be lost. *)

OwnerOf(k) ==
    IF mem[k] # "live" THEN mem[k]
    ELSE IF inflight[k] # {} THEN "system"
    ELSE IF \E w \in Workers : At(w, k, Driving) THEN "thread"
    ELSE "lost"

Ownership ==
    INSTANCE Ownership WITH owner <- [k \in Conns |-> OwnerOf(k)], MayLose <- TRUE

\* The server hands a ConnCtx over and never shares it: it is posted and
\* delivered in turn, deleted once and never under a pending operation, and one
\* that freesock or handle_packet has let go of is never picked up again.
OwnershipKept == Ownership!Spec

=============================================================================
