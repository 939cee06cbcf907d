-------------------------- MODULE ConnServerProofs --------------------------
(***************************************************************************)
(* Proofs about ConnServer, for any number of workers, connections and     *)
(* AcceptEx operations and any buffer size.  The inductive invariant       *)
(* relates the program counters of the workers, the operations in flight,  *)
(* the reference counts and the memory of each connection (Control), the   *)
(* registry (Registry), the client counter and the accept pool, and the    *)
(* sizes of buffers and completions (Data).                                *)
(***************************************************************************)
EXTENDS ConnServer, FiniteSetTheorems, TLAPS

\* A worker has a connection exactly while it works on one.
WorkerShape ==
    \A w \in Workers :
        /\ pc[w] = "idle" => c[w] = NoConn
        /\ pc[w] \notin {"idle", "reaccept"} => c[w] \in Conns

\* Nobody holds a reference to a connection that is past freesock's test.
FreeingUnheld ==
    \A k \in Conns : \A v, w \in Workers : At(v, k, Freeing) => ~At(w, k, Holding)

Control == WorkerShape /\ OneDriver /\ FreeingUnheld /\ NoUseAfterFree /\ NoOrphanOperation

\* A connection past removeMe is not registered; dump is empty outside gt.mtx.
Unregistered ==
    /\ \A w \in Workers : \A k \in Conns : At(w, k, {"track", "uncount", "delete"}) => k \notin conns
    /\ gtmtx = "free" => dump = {}

Registry == MonitorSafe /\ Unregistered

\* No completion has more bytes than its buffer had room for.
Room(k, type) == IF type = "IO_RECV" THEN want[k] ELSE wantsend[k]

Data ==
    /\ \A k \in Conns : \A o \in inflight[k] :
          o.type \in {"IO_RECV", "IO_SEND"} /\ o.bytes <= Room(k, o.type)
    /\ \A w \in Workers :
          /\ pc[w] = "event" => op[w].bytes <= Room(c[w], op[w].type)
          /\ pc[w] \in {"event", "post", "issue"} => op[w].type \in {"IO_RECV", "IO_SEND"}

IInv == TypeOK /\ Control /\ RefCountExact /\ Registry /\ CounterExact /\ AcceptPool /\ Data

-----------------------------------------------------------------------------
(* Control: who drives, holds and frees a connection. *)

\* A step that touches neither workers nor operations nor memory.
LEMMA ControlStutter ==
    ASSUME Control, UNCHANGED <<mem, inflight, pc, c>>
    PROVE  Control'
BY DEF Control, WorkerShape, OneDriver, FreeingUnheld, NoUseAfterFree, NoOrphanOperation, At

\* A worker goes on with its connection: it may start to drive or to hold it
\* only if it drives it, and to free it only if nobody holds it.
LEMMA ControlMove ==
    ASSUME TypeOK, Control,
           NEW w \in Workers, NEW to \in PCs \ {"idle"},
           c[w] \in Conns, pc[w] \notin {"idle", "return"},
           pc' = [pc EXCEPT ![w] = to],
           to \in Driving => pc[w] \in Driving,
           to \in Holding => pc[w] \in Driving \ Freeing,
           to \in Freeing => \/ pc[w] \in Freeing
                             \/ /\ pc[w] \in Driving
                                /\ \A v \in Workers : ~At(v, c[w], Holding),
           UNCHANGED <<mem, inflight, c>>
    PROVE  Control'
<1>0. pc \in [Workers -> PCs] /\ c \in [Workers -> Conns \cup {NoConn}]
  BY DEF TypeOK
<1>1. \A v \in Workers : v # w => pc'[v] = pc[v]
  BY <1>0
<1>2. pc'[w] = to
  BY <1>0
<1>3. WorkerShape'
  BY <1>0, <1>1, <1>2 DEF Control, WorkerShape
<1>4. OneDriver'
  <2>1. ASSUME NEW v \in Workers, NEW k \in Conns, At(v, k, Driving)'
        PROVE  At(v, k, Driving)
    BY <2>1, <1>0, <1>1, <1>2 DEF At
  <2> QED  BY <2>1 DEF Control, OneDriver, At
<1>5. FreeingUnheld'
  <2> SUFFICES ASSUME NEW k \in Conns, NEW v \in Workers, NEW u \in Workers,
                      At(v, k, Freeing)', At(u, k, Holding)'
               PROVE  FALSE
    BY DEF FreeingUnheld, At
  <2>1. CASE v # w /\ u # w
    BY <2>1, <1>1 DEF Control, FreeingUnheld, At
  <2>2. CASE v = w /\ u # w
    <3>1. At(u, k, Holding) /\ c[w] = k
      BY <2>2, <1>1 DEF At
    <3>2. pc[w] \in Freeing
      BY <3>1, <2>2, <1>2 DEF At
    <3> QED  BY <3>1, <3>2 DEF Control, FreeingUnheld, At
  <2>3. CASE u = w /\ v # w
    <3>1. At(v, k, Freeing) /\ c[w] = k
      BY <2>3, <1>1 DEF At
    <3>2. pc[w] \in Driving \ Freeing
      BY <2>3, <1>2 DEF At
    <3>3. At(v, k, Driving) /\ At(w, k, Driving)
      BY <3>1, <3>2 DEF At, Driving, Freeing
    <3> QED  BY <3>3, <2>3 DEF Control, OneDriver
  <2>4. CASE u = w /\ v = w
    BY <2>4, <1>2 DEF At, Holding, Freeing
  <2> QED  BY <2>1, <2>2, <2>3, <2>4
<1>6. NoUseAfterFree'
  <2> SUFFICES ASSUME NEW v \in Workers, NEW k \in Conns, At(v, k, PCs \ {"return"})'
               PROVE  mem[k] = "live"
    BY DEF NoUseAfterFree, At
  <2>1. At(v, k, PCs \ {"return"})
    BY <1>0, <1>1, <1>2 DEF At
  <2> QED  BY <2>1 DEF Control, NoUseAfterFree
<1>7. NoOrphanOperation'
  BY DEF Control, NoOrphanOperation
<1> QED  BY <1>3, <1>4, <1>5, <1>6, <1>7 DEF Control

LEMMA ControlComplete ==
    ASSUME TypeOK, Control, NEW k \in Conns, Complete(k)
    PROVE  Control'
<1>1. PICK o \in inflight[k] : \E r \in Results(k, o) :
              inflight' = [inflight EXCEPT ![k] = (@ \ {o}) \cup {r}]
  BY DEF Complete
<1>2. PICK r \in Results(k, o) : inflight' = [inflight EXCEPT ![k] = (@ \ {o}) \cup {r}]
  BY <1>1
<1>3. UNCHANGED <<mem, pc, c>>
  BY DEF Complete, connVars, workerVars
<1>4. inflight \in [Conns -> SUBSET Operations]
  BY DEF TypeOK
<1>5. inflight[k] = {o}
  BY DEF Control, OneDriver
<1>6. inflight'[k] = {r} /\ \A j \in Conns : j # k => inflight'[j] = inflight[j]
  BY <1>2, <1>4, <1>5
<1>7. WorkerShape' /\ FreeingUnheld' /\ NoUseAfterFree'
  BY <1>3 DEF Control, WorkerShape, FreeingUnheld, NoUseAfterFree, At
<1>8. NoOrphanOperation'
  BY <1>3, <1>5, <1>6 DEF Control, NoOrphanOperation
<1>9. OneDriver'
  <2>1. \A w \in Workers : ~At(w, k, Driving)
    BY <1>5 DEF Control, OneDriver
  <2> QED  BY <2>1, <1>3, <1>6 DEF Control, OneDriver, At
<1> QED  BY <1>7, <1>8, <1>9 DEF Control

LEMMA ControlDequeue ==
    ASSUME TypeOK, Control, NEW w \in Workers, NEW k \in Conns, Dequeue(w, k)
    PROVE  Control'
<1>1. PICK o \in inflight[k] : inflight' = [inflight EXCEPT ![k] = @ \ {o}]
  BY DEF Dequeue
<1>2. /\ pc[w] = "idle" /\ mem' = mem
      /\ c' = [c EXCEPT ![w] = k] /\ pc' = [pc EXCEPT ![w] = "event"]
  BY DEF Dequeue, Goto, connVars
<1>3. /\ pc \in [Workers -> PCs] /\ c \in [Workers -> Conns \cup {NoConn}]
      /\ inflight \in [Conns -> SUBSET Operations]
  BY DEF TypeOK
<1>4. /\ c'[w] = k /\ pc'[w] = "event"
      /\ \A v \in Workers : v # w => c'[v] = c[v] /\ pc'[v] = pc[v]
  BY <1>2, <1>3
<1>5. inflight'[k] = {} /\ \A j \in Conns : j # k => inflight'[j] = inflight[j]
  BY <1>1, <1>3 DEF Control, OneDriver
<1>6. mem[k] = "live" /\ \A v \in Workers : ~At(v, k, Driving)
  BY <1>1 DEF Control, NoOrphanOperation, OneDriver
<1>7. WorkerShape'
  BY <1>4 DEF Control, WorkerShape
<1>8. OneDriver'
  BY <1>4, <1>5, <1>6 DEF Control, OneDriver, At
<1>9. FreeingUnheld'
  BY <1>4 DEF Control, FreeingUnheld, At, Freeing, Holding
<1>10. NoUseAfterFree'
  BY <1>2, <1>4, <1>6 DEF Control, NoUseAfterFree, At
<1>11. NoOrphanOperation'
  BY <1>2, <1>5 DEF Control, NoOrphanOperation
<1> QED  BY <1>7, <1>8, <1>9, <1>10, <1>11 DEF Control

LEMMA ControlAcceptOk ==
    ASSUME TypeOK, Control, NEW w \in Workers, NEW k \in Conns, AcceptOk(w, k)
    PROVE  Control'
<1>1. /\ pc[w] = "idle" /\ mem[k] = "none" /\ inflight' = inflight
      /\ mem' = [mem EXCEPT ![k] = "live"]
      /\ c' = [c EXCEPT ![w] = k] /\ pc' = [pc EXCEPT ![w] = "track"]
  BY DEF AcceptOk, Goto
<1>2. /\ pc \in [Workers -> PCs] /\ c \in [Workers -> Conns \cup {NoConn}]
      /\ mem \in [Conns -> {"none", "live", "freed"}]
  BY DEF TypeOK
<1>3. /\ c'[w] = k /\ pc'[w] = "track"
      /\ \A v \in Workers : v # w => c'[v] = c[v] /\ pc'[v] = pc[v]
  BY <1>1, <1>2
<1>4. mem'[k] = "live" /\ \A j \in Conns : j # k => mem'[j] = mem[j]
  BY <1>1, <1>2
<1>5. inflight[k] = {} /\ \A v \in Workers : ~At(v, k, PCs \ {"return"})
  BY <1>1 DEF Control, NoOrphanOperation, NoUseAfterFree
<1>6. WorkerShape'
  BY <1>3 DEF Control, WorkerShape
<1>7. OneDriver'
  <2>1. \A v \in Workers : ~At(v, k, Driving)
    BY <1>5 DEF At, Driving, PCs
  <2> QED  BY <2>1, <1>1, <1>3, <1>5 DEF Control, OneDriver, At
<1>8. FreeingUnheld'
  BY <1>3 DEF Control, FreeingUnheld, At, Freeing, Holding
<1>9. NoUseAfterFree'
  BY <1>3, <1>4 DEF Control, NoUseAfterFree, At
<1>10. NoOrphanOperation'
  BY <1>1, <1>4 DEF Control, NoOrphanOperation
<1> QED  BY <1>6, <1>7, <1>8, <1>9, <1>10 DEF Control

\* A worker without a connection moves between idle and reaccept.
LEMMA ControlNoConn ==
    ASSUME TypeOK, Control, NEW w \in Workers, NEW to \in {"idle", "reaccept"},
           c[w] = NoConn, pc' = [pc EXCEPT ![w] = to], UNCHANGED <<mem, inflight, c>>
    PROVE  Control'
<1>1. NoConn \notin Conns
  BY ServerAssumption
<1>2. pc'[w] = to /\ \A v \in Workers : v # w => pc'[v] = pc[v]
  BY DEF TypeOK
<1>3. \A k \in Conns : c[w] # k
  BY <1>1
<1>4. WorkerShape'
  BY <1>2 DEF Control, WorkerShape
<1>5. OneDriver' /\ FreeingUnheld' /\ NoUseAfterFree' /\ NoOrphanOperation'
  BY <1>2, <1>3 DEF Control, OneDriver, FreeingUnheld, NoUseAfterFree, NoOrphanOperation, At
<1> QED  BY <1>4, <1>5 DEF Control

LEMMA ControlPostIssue ==
    ASSUME TypeOK, Control, NEW w \in Workers, PostIssue(w)
    PROVE  Control'
<1>1. /\ pc[w] = "issue" /\ UNCHANGED <<mem, c>>
      /\ pc' = [pc EXCEPT ![w] = "unref"]
      /\ inflight' = [inflight EXCEPT ![c[w]] =
                        @ \cup {Operation(op[w].type, "pending", 0)}]
  BY DEF PostIssue, Goto, connVars
<1>2. pc'[w] = "unref" /\ \A v \in Workers : v # w => pc'[v] = pc[v]
  BY <1>1 DEF TypeOK
<1>3. c[w] \in Conns
  BY <1>1 DEF Control, WorkerShape
<1>4. At(w, c[w], Driving) /\ At(w, c[w], Holding) /\ At(w, c[w], PCs \ {"return"})
  BY <1>1 DEF At, Driving, Holding, PCs
<1>5. inflight[c[w]] = {} /\ mem[c[w]] = "live"
  BY <1>3, <1>4 DEF Control, OneDriver, NoUseAfterFree
<1>6. /\ inflight'[c[w]] = {Operation(op[w].type, "pending", 0)}
      /\ \A j \in Conns : j # c[w] => inflight'[j] = inflight[j]
  BY <1>1, <1>3, <1>5 DEF TypeOK
<1>7. WorkerShape'
  BY <1>1, <1>2, <1>3 DEF Control, WorkerShape
<1>8. OneDriver'
  <2>1. \A v \in Workers : At(v, c[w], Driving) => v = w
    BY <1>3, <1>4 DEF Control, OneDriver
  <2>2. \A v \in Workers : ~At(v, c[w], Driving)'
    BY <2>1, <1>1, <1>2 DEF At, Driving
  <2>3. \A v \in Workers : \A k \in Conns : At(v, k, Driving)' => At(v, k, Driving)
    BY <1>1, <1>2 DEF At, Driving
  <2> SUFFICES ASSUME NEW k \in Conns
               PROVE  /\ \A u, v \in Workers : At(u, k, Driving)' /\ At(v, k, Driving)' => u = v
                      /\ \A v \in Workers : At(v, k, Driving)' => inflight'[k] = {}
                      /\ \A a, b \in inflight'[k] : a = b
    BY DEF OneDriver, At
  <2>4. CASE k = c[w]
    BY <2>4, <2>2, <1>6, <1>1 DEF At
  <2>5. CASE k # c[w]
    <3>1. inflight'[k] = inflight[k]
      BY <2>5, <1>6
    <3> QED  BY <3>1, <2>3 DEF Control, OneDriver
  <2> QED  BY <2>4, <2>5
<1>9. FreeingUnheld'
  <2>1. \A v \in Workers : \A k \in Conns : At(v, k, Freeing)' => At(v, k, Freeing)
    BY <1>1, <1>2 DEF At, Freeing
  <2>2. \A v \in Workers : \A k \in Conns : At(v, k, Holding)' => At(v, k, Holding)
    BY <1>1, <1>2 DEF At, Holding
  <2> QED  BY <2>1, <2>2 DEF Control, FreeingUnheld, At
<1>10. NoUseAfterFree'
  BY <1>1, <1>2, <1>5 DEF Control, NoUseAfterFree, At
<1>11. NoOrphanOperation'
  BY <1>1, <1>5, <1>6 DEF Control, NoOrphanOperation
<1> QED  BY <1>7, <1>8, <1>9, <1>10, <1>11 DEF Control

LEMMA ControlDelete ==
    ASSUME TypeOK, Control, NEW w \in Workers, Delete(w)
    PROVE  Control'
<1>1. /\ pc[w] = "delete" /\ UNCHANGED <<inflight, c>>
      /\ pc' = [pc EXCEPT ![w] = "return"]
      /\ mem' = [mem EXCEPT ![c[w]] = "freed"]
  BY DEF Delete, Goto
<1>2. pc'[w] = "return" /\ \A v \in Workers : v # w => pc'[v] = pc[v]
  BY <1>1 DEF TypeOK
<1>3. c[w] \in Conns
  BY <1>1 DEF Control, WorkerShape
<1>4. At(w, c[w], Driving) /\ At(w, c[w], Freeing)
  BY <1>1 DEF At, Driving, Freeing
<1>5. /\ inflight[c[w]] = {}
      /\ \A v \in Workers : v # w => ~At(v, c[w], Driving) /\ ~At(v, c[w], Holding)
  BY <1>3, <1>4 DEF Control, OneDriver, FreeingUnheld
<1>6. \A j \in Conns : j # c[w] => mem'[j] = mem[j]
  BY <1>1 DEF TypeOK
<1>7. WorkerShape'
  BY <1>1, <1>2, <1>3 DEF Control, WorkerShape
<1>8. \A v \in Workers : \A k \in Conns :
          /\ At(v, k, Driving)' => At(v, k, Driving)
          /\ At(v, k, Freeing)' => At(v, k, Freeing)
          /\ At(v, k, Holding)' => At(v, k, Holding)
  BY <1>1, <1>2 DEF At, Driving, Freeing, Holding
<1>9. OneDriver' /\ FreeingUnheld'
  BY <1>8, <1>1 DEF Control, OneDriver, FreeingUnheld, At
<1>10. NoUseAfterFree'
  <2> SUFFICES ASSUME NEW v \in Workers, NEW k \in Conns, At(v, k, PCs \ {"return"})'
               PROVE  mem'[k] = "live"
    BY DEF NoUseAfterFree, At
  <2>1. v # w /\ At(v, k, PCs \ {"return"})
    BY <1>1, <1>2 DEF At
  <2>2. mem[k] = "live"
    BY <2>1 DEF Control, NoUseAfterFree
  <2>3. k # c[w]
    <3>1. pc[v] # "idle"
      BY <2>1, ServerAssumption DEF At, Control, WorkerShape
    <3>2. pc[v] \in Driving \cup Holding
      BY <3>1, <2>1 DEF At, PCs, Driving, Holding
    <3> QED  BY <3>2, <2>1, <1>5 DEF At
  <2> QED  BY <2>2, <2>3, <1>6
<1>11. NoOrphanOperation'
  BY <1>1, <1>5, <1>6 DEF Control, NoOrphanOperation
<1> QED  BY <1>7, <1>9, <1>10, <1>11 DEF Control

LEMMA ControlReturn ==
    ASSUME TypeOK, Control, NEW w \in Workers, Return(w)
    PROVE  Control'
<1>1. /\ pc[w] = "return" /\ UNCHANGED <<mem, inflight>>
      /\ pc' = [pc EXCEPT ![w] = "idle"] /\ c' = [c EXCEPT ![w] = NoConn]
  BY DEF Return, Goto, connVars
<1>2. /\ pc'[w] = "idle" /\ c'[w] = NoConn
      /\ \A v \in Workers : v # w => pc'[v] = pc[v] /\ c'[v] = c[v]
  BY <1>1 DEF TypeOK
<1>3. NoConn \notin Conns
  BY ServerAssumption
<1>4. WorkerShape'
  BY <1>2 DEF Control, WorkerShape
<1>5. OneDriver' /\ FreeingUnheld' /\ NoUseAfterFree' /\ NoOrphanOperation'
  BY <1>1, <1>2, <1>3 DEF Control, OneDriver, FreeingUnheld, NoUseAfterFree, NoOrphanOperation, At
<1> QED  BY <1>4, <1>5 DEF Control

\* What a worker does to a connection it drives is a ControlMove, in every
\* handler that neither posts nor deletes.
LEMMA ControlDrive ==
    ASSUME TypeOK, Control, NEW w \in Workers,
           c[w] \in Conns, pc[w] \in {"track", "reaccept", "event", "post", "freesock"},
           \E to \in {"reaccept", "post", "freesock", "return"} : pc' = [pc EXCEPT ![w] = to],
           UNCHANGED <<mem, inflight, c>>
    PROVE  Control'
<1>1. PICK to \in {"reaccept", "post", "freesock", "return"} : pc' = [pc EXCEPT ![w] = to]
  OBVIOUS
<1>2. to \in PCs \ {"idle"} /\ to \notin Holding /\ to \notin Freeing
  BY DEF PCs, Holding, Freeing
<1>3. pc[w] \in Driving
  BY DEF Driving
<1> QED  BY <1>1, <1>2, <1>3, ControlMove

\* Control holds after any step of handle_event.
LEMMA ControlHandleEvent ==
    ASSUME TypeOK, Control, NEW w \in Workers, HandleEvent(w)
    PROVE  Control'
<1>1. pc[w] = "event"
  BY DEF HandleEvent, HandlePacket, EventFailed, EventShort, EventPartRecv, EventPartSend,
         EventFullSend, PacketHeader, PacketArguments, PacketGet, PacketPost, PacketOther,
         FullRecv, Received, Sent
<1>2. c[w] \in Conns
  BY <1>1 DEF Control, WorkerShape
<1>3. UNCHANGED <<mem, inflight, c>>
  BY DEF HandleEvent, HandlePacket, EventFailed, EventShort, EventPartRecv, EventPartSend,
         EventFullSend, PacketHeader, PacketArguments, PacketGet, PacketPost, PacketOther,
         connVars
<1>4. \E to \in {"post", "freesock", "return"} : pc' = [pc EXCEPT ![w] = to]
  BY DEF HandleEvent, HandlePacket, EventFailed, EventShort, EventPartRecv, EventPartSend,
         EventFullSend, PacketHeader, PacketArguments, PacketGet, PacketPost, PacketOther,
         CallPost, CallFreesock, Goto
<1> QED  BY <1>1, <1>2, <1>3, <1>4, ControlDrive

LEMMA ControlAccept ==
    ASSUME TypeOK, Control, NEW w \in Workers, Accept(w)
    PROVE  Control'
<1>1. CASE AcceptFailed(w)
  <2>1. /\ pc[w] = "idle" /\ pc' = [pc EXCEPT ![w] = "reaccept"]
        /\ UNCHANGED <<mem, inflight, c>>
    BY <1>1 DEF AcceptFailed, Goto, connVars
  <2>2. c[w] = NoConn
    BY <2>1 DEF Control, WorkerShape
  <2> QED  BY <2>1, <2>2, ControlNoConn
<1>2. CASE AddMe(w)
  <2>1. /\ pc[w] = "track" /\ pc' = [pc EXCEPT ![w] = "reaccept"]
        /\ UNCHANGED <<mem, inflight, c>>
    BY <1>2 DEF AddMe, Goto, connVars
  <2>2. c[w] \in Conns
    BY <2>1 DEF Control, WorkerShape
  <2> QED  BY <2>1, <2>2, ControlDrive
<1>3. CASE PostAccept(w)
  <2>1. pc[w] = "reaccept" /\ UNCHANGED <<mem, inflight, c>>
    BY <1>3 DEF PostAccept
  <2>2. CASE c[w] = NoConn
    <3>1. pc' = [pc EXCEPT ![w] = "idle"]
      BY <1>3, <2>2 DEF PostAccept, Goto
    <3> QED  BY <3>1, <2>1, <2>2, ControlNoConn
  <2>3. CASE c[w] # NoConn
    <3>1. pc' = [pc EXCEPT ![w] = "post"]
      BY <1>3, <2>3 DEF PostAccept, Goto
    <3>2. c[w] \in Conns
      BY <2>3 DEF TypeOK
    <3> QED  BY <3>1, <3>2, <2>1, ControlDrive
  <2> QED  BY <2>2, <2>3
<1> QED  BY <1>1, <1>2, <1>3 DEF Accept

LEMMA ControlPost ==
    ASSUME TypeOK, Control, NEW w \in Workers, Post(w)
    PROVE  Control'
<1>0. pc[w] \notin {"idle", "reaccept"}
  BY DEF Post, PostNull, PostRef, PostIssue, PostFail, PostUnref
<1>1. c[w] \in Conns
  BY <1>0 DEF Control, WorkerShape
<1>2. CASE PostNull(w)
  <2>1. /\ pc[w] = "post" /\ pc' = [pc EXCEPT ![w] = "freesock"]
        /\ UNCHANGED <<mem, inflight, c>>
    BY <1>2 DEF PostNull, Goto, connVars
  <2> QED  BY <2>1, <1>1, ControlDrive
<1>3. CASE PostRef(w)
  <2>1. /\ pc[w] = "post" /\ pc' = [pc EXCEPT ![w] = "issue"]
        /\ UNCHANGED <<mem, inflight, c>>
    BY <1>3 DEF PostRef, Goto, connVars
  <2>2. "issue" \in PCs \ {"idle"} /\ "issue" \notin Freeing /\ "post" \in Driving \ Freeing
    BY DEF PCs, Freeing, Driving
  <2> QED  BY <2>1, <2>2, <1>1, ControlMove
<1>4. CASE PostIssue(w)
  BY <1>4, ControlPostIssue
<1>5. CASE PostFail(w)
  <2>1. /\ pc[w] = "issue" /\ pc' = [pc EXCEPT ![w] = "unreffail"]
        /\ UNCHANGED <<mem, inflight, c>>
    BY <1>5 DEF PostFail, Goto, connVars
  <2>2. /\ "unreffail" \in PCs \ {"idle"} /\ "unreffail" \notin Freeing
        /\ "issue" \in Driving \ Freeing
    BY DEF PCs, Freeing, Driving
  <2> QED  BY <2>1, <2>2, <1>1, ControlMove
<1>6. CASE PostUnref(w)
  <2>1. UNCHANGED <<mem, inflight, c>>
    BY <1>6 DEF PostUnref
  <2>2. CASE pc[w] = "unref"
    <3>1. pc' = [pc EXCEPT ![w] = "return"]
      BY <1>6, <2>2 DEF PostUnref, Goto
    <3>2. /\ "return" \in PCs \ {"idle"} /\ "return" \notin Driving
          /\ "return" \notin Holding /\ "return" \notin Freeing
      BY DEF PCs, Driving, Holding, Freeing
    <3> QED  BY <3>1, <3>2, <2>1, <2>2, <1>1, ControlMove
  <2>3. CASE pc[w] = "unreffail"
    <3>1. pc' = [pc EXCEPT ![w] = "freesock"]
      BY <1>6, <2>3 DEF PostUnref, Goto
    <3>2. /\ "freesock" \in PCs \ {"idle"} /\ "unreffail" \in Driving
          /\ "freesock" \notin Holding /\ "freesock" \notin Freeing
      BY DEF PCs, Driving, Holding, Freeing
    <3> QED  BY <3>1, <3>2, <2>1, <2>3, <1>1, ControlMove
  <2> QED  BY <1>6, <2>2, <2>3 DEF PostUnref
<1> QED  BY <1>2, <1>3, <1>4, <1>5, <1>6 DEF Post

\* A reference count of zero says that nobody holds the connection.
LEMMA ZeroUnheld ==
    ASSUME RefCountExact, NEW k \in Conns, refcount[k] = 0
    PROVE  \A w \in Workers : ~At(w, k, Holding)
<1> DEFINE H == {w \in Workers : At(w, k, Holding)}
<1>1. IsFiniteSet(H)
  BY ServerAssumption, FS_Subset, H \subseteq Workers
<1>2. Cardinality(H) = 0
  BY DEF RefCountExact
<1>3. H = {}
  BY <1>1, <1>2, FS_EmptySet
<1> QED  BY <1>3

LEMMA ControlFreesock ==
    ASSUME TypeOK, Control, RefCountExact, NEW w \in Workers, Freesock(w)
    PROVE  Control'
<1>0. pc[w] \notin {"idle", "reaccept"}
  BY DEF Freesock, FreesockRefused, FreesockEnter, RemoveMe, Uncount, Delete
<1>1. c[w] \in Conns
  BY <1>0 DEF Control, WorkerShape
<1>2. CASE FreesockRefused(w)
  <2>1. /\ pc[w] = "freesock" /\ pc' = [pc EXCEPT ![w] = "return"]
        /\ UNCHANGED <<mem, inflight, c>>
    BY <1>2 DEF FreesockRefused, Goto, connVars
  <2> QED  BY <2>1, <1>1, ControlDrive
<1>3. CASE FreesockEnter(w)
  <2>1. /\ pc[w] = "freesock" /\ pc' = [pc EXCEPT ![w] = "untrack"]
        /\ refcount[c[w]] = 0 /\ UNCHANGED <<mem, inflight, c>>
    BY <1>3 DEF FreesockEnter, Goto, connVars
  <2>2. \A v \in Workers : ~At(v, c[w], Holding)
    BY <2>1, <1>1, ZeroUnheld
  <2>3. "untrack" \in PCs \ {"idle"} /\ "untrack" \notin Holding /\ "freesock" \in Driving
    BY DEF PCs, Holding, Driving
  <2> QED  BY <2>1, <2>2, <2>3, <1>1, ControlMove
<1>4. CASE RemoveMe(w) \/ Uncount(w)
  <2>1. /\ pc[w] \in {"untrack", "uncount"} /\ UNCHANGED <<mem, inflight, c>>
        /\ \E to \in {"uncount", "delete"} : pc' = [pc EXCEPT ![w] = to]
    BY <1>4 DEF RemoveMe, Uncount, Goto, connVars
  <2>2. PICK to \in {"uncount", "delete"} : pc' = [pc EXCEPT ![w] = to]
    BY <2>1
  <2>3. /\ to \in PCs \ {"idle"} /\ to \notin Holding
        /\ pc[w] \in Driving /\ pc[w] \in Freeing
    BY <2>1 DEF PCs, Holding, Driving, Freeing
  <2> QED  BY <2>1, <2>2, <2>3, <1>1, ControlMove
<1>5. CASE Delete(w)
  BY <1>5, ControlDelete
<1> QED  BY <1>2, <1>3, <1>4, <1>5 DEF Freesock

\* PeerFin and main touch nothing that Control speaks of.
LEMMA BystandersFrame ==
    ASSUME (\E k \in Conns : PeerFin(k)) \/ Monitor \/ UNCHANGED vars
    PROVE  UNCHANGED <<mem, refcount, inflight, pc, c, concurrentClients, accepting, lostaccepts>>
BY DEF PeerFin, Monitor, MonitorLock, MonitorDump, MonitorUnlock, vars, connVars, workerVars,
       acceptVars, countVars

LEMMA ControlStep ==
    ASSUME TypeOK, Control, RefCountExact, [Next]_vars
    PROVE  Control'
<1>1. ASSUME NEW w \in Workers, NEW k \in Conns, Dequeue(w, k) \/ AcceptOk(w, k)
      PROVE  Control'
  BY <1>1, ControlDequeue, ControlAcceptOk
<1>2. ASSUME NEW w \in Workers, Accept(w) \/ HandleEvent(w) \/ Post(w) \/ Freesock(w) \/ Return(w)
      PROVE  Control'
  BY <1>2, ControlAccept, ControlHandleEvent, ControlPost, ControlFreesock, ControlReturn
<1>3. ASSUME NEW k \in Conns, Complete(k)
      PROVE  Control'
  BY <1>3, ControlComplete
<1>4. CASE (\E k \in Conns : PeerFin(k)) \/ Monitor \/ UNCHANGED vars
  BY <1>4, BystandersFrame, ControlStutter
<1> QED  BY <1>1, <1>2, <1>3, <1>4 DEF Next

-----------------------------------------------------------------------------
(* References, the client counter and the accept pool: cardinalities. *)

Holders(k) == {w \in Workers : At(w, k, Holding)}

LEMMA HoldersFinite == \A k \in Conns : IsFiniteSet(Holders(k))
BY ServerAssumption, FS_Subset, \A k \in Conns : Holders(k) \subseteq Workers DEF Holders

\* A step that keeps refcount keeps the holders.
LEMMA RefCountSame ==
    ASSUME RefCountExact, refcount' = refcount,
           \A k \in Conns : Holders(k)' = Holders(k)
    PROVE  RefCountExact'
BY DEF RefCountExact, Holders

LEMMA RefCountPostRef ==
    ASSUME TypeOK, RefCountExact, NEW w \in Workers, c[w] \in Conns, PostRef(w)
    PROVE  RefCountExact'
<1>1. /\ pc[w] = "post" /\ c' = c /\ pc' = [pc EXCEPT ![w] = "issue"]
      /\ refcount' = [refcount EXCEPT ![c[w]] = @ + 1]
  BY DEF PostRef, Goto
<1>2. pc'[w] = "issue" /\ \A v \in Workers : v # w => pc'[v] = pc[v]
  BY <1>1 DEF TypeOK
<1>3. Holders(c[w])' = Holders(c[w]) \cup {w} /\ w \notin Holders(c[w])
  BY <1>1, <1>2 DEF Holders, At, Holding
<1>4. \A k \in Conns : k # c[w] => Holders(k)' = Holders(k)
  BY <1>1, <1>2 DEF Holders, At
<1>5. Cardinality(Holders(c[w]) \cup {w}) = Cardinality(Holders(c[w])) + 1
  BY <1>3, HoldersFinite, FS_AddElement
<1>6. refcount'[c[w]] = refcount[c[w]] + 1
      /\ \A k \in Conns : k # c[w] => refcount'[k] = refcount[k]
  BY <1>1 DEF TypeOK
<1>7. \A k \in Conns : refcount'[k] = Cardinality(Holders(k))'
  BY <1>1, <1>3, <1>4, <1>5, <1>6 DEF RefCountExact, Holders
<1> QED  BY <1>7 DEF RefCountExact, Holders

LEMMA RefCountPostUnref ==
    ASSUME TypeOK, RefCountExact, NEW w \in Workers, c[w] \in Conns, PostUnref(w)
    PROVE  RefCountExact'
<1>1. /\ pc[w] \in {"unref", "unreffail"} /\ c' = c
      /\ refcount' = [refcount EXCEPT ![c[w]] = @ - 1]
      /\ \E to \in {"return", "freesock"} : pc' = [pc EXCEPT ![w] = to]
  BY DEF PostUnref, Goto
<1>2. pc'[w] \in {"return", "freesock"} /\ \A v \in Workers : v # w => pc'[v] = pc[v]
  BY <1>1 DEF TypeOK
<1>3. Holders(c[w])' = Holders(c[w]) \ {w} /\ w \in Holders(c[w])
  BY <1>1, <1>2 DEF Holders, At, Holding
<1>4. \A k \in Conns : k # c[w] => Holders(k)' = Holders(k)
  BY <1>1, <1>2 DEF Holders, At
<1>5. /\ Cardinality(Holders(c[w]) \ {w}) = Cardinality(Holders(c[w])) - 1
      /\ Cardinality(Holders(c[w])) \in Nat
  BY <1>3, HoldersFinite, FS_RemoveElement, FS_CardinalityType
<1>6. refcount'[c[w]] = refcount[c[w]] - 1
      /\ \A k \in Conns : k # c[w] => refcount'[k] = refcount[k]
  BY <1>1 DEF TypeOK
<1>7. \A k \in Conns : refcount'[k] = Cardinality(Holders(k))'
  BY <1>1, <1>3, <1>4, <1>5, <1>6 DEF RefCountExact, Holders
<1> QED  BY <1>7 DEF RefCountExact, Holders

\* A worker that neither starts nor stops holding a reference.
LEMMA HoldersSame ==
    ASSUME NEW w \in Workers,
           \A v \in Workers : v # w => pc'[v] = pc[v] /\ c'[v] = c[v],
           \/ pc[w] \notin Holding /\ pc'[w] \notin Holding
           \/ pc[w] \in Holding /\ pc'[w] \in Holding /\ c'[w] = c[w]
    PROVE  \A k \in Conns : Holders(k)' = Holders(k)
BY DEF Holders, At

\* Where handle_event takes a worker: it posts, frees or returns.
LEMMA HandleEventMoves ==
    ASSUME TypeOK, NEW w \in Workers, HandleEvent(w)
    PROVE  /\ pc[w] = "event" /\ pc'[w] \in {"post", "freesock", "return"} /\ c' = c
           /\ \A v \in Workers : v # w => pc'[v] = pc[v]
           /\ UNCHANGED <<mem, refcount, inflight, acceptVars, conns, countVars, monitorVars>>
<1>1. pc[w] = "event"
  BY DEF HandleEvent, HandlePacket, EventFailed, EventShort, EventPartRecv, EventPartSend,
           EventFullSend, PacketHeader, PacketArguments, PacketGet, PacketPost, PacketOther,
           FullRecv, Received, Sent, CallPost, CallFreesock, Goto
<1>2. /\ \E to \in {"post", "freesock", "return"} : pc' = [pc EXCEPT ![w] = to]
      /\ c' = c
  BY DEF HandleEvent, HandlePacket, EventFailed, EventShort, EventPartRecv, EventPartSend,
           EventFullSend, PacketHeader, PacketArguments, PacketGet, PacketPost, PacketOther,
           FullRecv, Received, Sent, CallPost, CallFreesock, Goto
<1>3. UNCHANGED <<mem, refcount, inflight, acceptVars, conns, countVars, monitorVars>>
  BY DEF HandleEvent, HandlePacket, EventFailed, EventShort, EventPartRecv, EventPartSend,
           EventFullSend, PacketHeader, PacketArguments, PacketGet, PacketPost, PacketOther,
           FullRecv, Received, Sent, CallPost, CallFreesock, Goto, connVars
<1> QED  BY <1>1, <1>2, <1>3 DEF TypeOK

\* The other steps of a worker that leave the reference counts alone.
LEMMA OtherMoves ==
    ASSUME TypeOK, NEW w \in Workers,
           \/ \E k \in Conns : Dequeue(w, k) \/ AcceptOk(w, k)
           \/ Accept(w) \/ Freesock(w) \/ Return(w) \/ PostNull(w)
    PROVE  /\ pc[w] \notin Holding /\ pc'[w] \notin Holding /\ refcount' = refcount
           /\ \A v \in Workers : v # w => pc'[v] = pc[v] /\ c'[v] = c[v]
<1>1. CASE \E k \in Conns : Dequeue(w, k) \/ AcceptOk(w, k)
  BY <1>1 DEF Dequeue, AcceptOk, Goto, Holding, TypeOK, connVars
<1>2. CASE AcceptFailed(w) \/ AddMe(w) \/ PostNull(w)
  BY <1>2 DEF AcceptFailed, AddMe, PostNull, Goto, Holding, TypeOK, connVars
<1>3. CASE PostAccept(w)
  <2>1. \E to \in {"idle", "post"} : pc' = [pc EXCEPT ![w] = to]
    BY <1>3 DEF PostAccept, Goto
  <2> QED  BY <2>1, <1>3 DEF PostAccept, Holding, TypeOK
<1>4. CASE Freesock(w)
  BY <1>4 DEF Freesock, FreesockRefused, FreesockEnter, RemoveMe, Uncount, Delete, Goto,
              Holding, TypeOK, connVars
<1>5. CASE Return(w)
  BY <1>5 DEF Return, Goto, Holding, TypeOK, connVars
<1> QED  BY <1>1, <1>2, <1>3, <1>4, <1>5 DEF Accept

LEMMA RefCountStep ==
    ASSUME TypeOK, Control, RefCountExact, [Next]_vars
    PROVE  RefCountExact'
<1>1. ASSUME NEW w \in Workers,
             \/ \E k \in Conns : Dequeue(w, k) \/ AcceptOk(w, k)
             \/ Accept(w) \/ Freesock(w) \/ Return(w) \/ PostNull(w)
      PROVE  RefCountExact'
  BY <1>1, OtherMoves, HoldersSame, RefCountSame
<1>2. ASSUME NEW w \in Workers, HandleEvent(w)
      PROVE  RefCountExact'
  <2>1. pc[w] \notin Holding /\ pc'[w] \notin Holding
    BY <1>2, HandleEventMoves DEF Holding
  <2> QED  BY <2>1, <1>2, HandleEventMoves, HoldersSame, RefCountSame
<1>3. ASSUME NEW w \in Workers, PostIssue(w) \/ PostFail(w)
      PROVE  RefCountExact'
  <2>1. /\ pc[w] \in Holding /\ pc'[w] \in Holding /\ refcount' = refcount /\ c' = c
        /\ \A v \in Workers : v # w => pc'[v] = pc[v]
    BY <1>3 DEF PostIssue, PostFail, Goto, Holding, TypeOK, connVars
  <2> QED  BY <2>1, HoldersSame, RefCountSame
<1>4. ASSUME NEW w \in Workers, PostRef(w) \/ PostUnref(w)
      PROVE  RefCountExact'
  <2>1. c[w] \in Conns
    BY <1>4 DEF PostRef, PostUnref, Control, WorkerShape
  <2> QED  BY <2>1, <1>4, RefCountPostRef, RefCountPostUnref
<1>5. ASSUME NEW k \in Conns, Complete(k)
      PROVE  RefCountExact'
  BY <1>5 DEF Complete, connVars, workerVars, RefCountExact, At
<1>6. CASE (\E k \in Conns : PeerFin(k)) \/ Monitor \/ UNCHANGED vars
  BY <1>6, BystandersFrame DEF RefCountExact, At
<1> QED  BY <1>1, <1>2, <1>3, <1>4, <1>5, <1>6 DEF Next, Post

-----------------------------------------------------------------------------
(* The counter of live connections. *)

Deleting(k) == \E w \in Workers : At(w, k, {"delete"})
Counted     == {k \in Conns : mem[k] = "live" /\ ~Deleting(k)}

LEMMA CountedFinite == IsFiniteSet(Counted)
BY ServerAssumption, FS_Subset, Counted \subseteq Conns DEF Counted

LEMMA CounterIsCounted == CounterExact <=> concurrentClients = Cardinality(Counted)
BY DEF CounterExact, Counted, Deleting

LEMMA CounterIsCountedNext == CounterExact' <=> concurrentClients' = Cardinality(Counted)'
BY DEF CounterExact, Counted, Deleting

\* A step that neither allocates, counts out nor deletes.
LEMMA CounterSame ==
    ASSUME CounterExact, concurrentClients' = concurrentClients, mem' = mem,
           \A w \in Workers : \A k \in Conns : At(w, k, {"delete"})' <=> At(w, k, {"delete"})
    PROVE  CounterExact'
BY DEF CounterExact

LEMMA CounterAcceptOk ==
    ASSUME TypeOK, Control, CounterExact, NEW w \in Workers, NEW k \in Conns, AcceptOk(w, k)
    PROVE  CounterExact'
<1>1. /\ pc[w] = "idle" /\ mem[k] = "none" /\ concurrentClients' = concurrentClients + 1
      /\ mem' = [mem EXCEPT ![k] = "live"]
      /\ c' = [c EXCEPT ![w] = k] /\ pc' = [pc EXCEPT ![w] = "track"]
  BY DEF AcceptOk, Goto
<1>2. /\ pc'[w] = "track" /\ mem'[k] = "live"
      /\ \A v \in Workers : v # w => c'[v] = c[v] /\ pc'[v] = pc[v]
      /\ \A j \in Conns : j # k => mem'[j] = mem[j]
  BY <1>1 DEF TypeOK
<1>3. ~Deleting(k)
  BY <1>1 DEF Deleting, Control, NoUseAfterFree, At, PCs
<1>4. \A j \in Conns : Deleting(j)' <=> Deleting(j)
  BY <1>1, <1>2 DEF Deleting, At
<1>5. k \notin Counted /\ Counted' = Counted \cup {k}
  BY <1>1, <1>2, <1>3, <1>4 DEF Counted
<1>6. Cardinality(Counted \cup {k}) = Cardinality(Counted) + 1
  BY <1>5, CountedFinite, FS_AddElement
<1> QED  BY <1>1, <1>5, <1>6, CounterIsCounted, CounterIsCountedNext

LEMMA CounterUncount ==
    ASSUME TypeOK, Control, CounterExact, NEW w \in Workers, Uncount(w)
    PROVE  CounterExact'
<1>1. /\ pc[w] = "uncount" /\ concurrentClients' = concurrentClients - 1
      /\ mem' = mem /\ c' = c /\ pc' = [pc EXCEPT ![w] = "delete"]
  BY DEF Uncount, Goto, connVars
<1>2. pc'[w] = "delete" /\ \A v \in Workers : v # w => pc'[v] = pc[v]
  BY <1>1 DEF TypeOK
<1>3. c[w] \in Conns
  BY <1>1 DEF Control, WorkerShape
<1>4. mem[c[w]] = "live" /\ ~Deleting(c[w])
  BY <1>1, <1>3 DEF Deleting, Control, NoUseAfterFree, OneDriver, At, PCs, Driving
<1>5. \A j \in Conns : Deleting(j)' <=> Deleting(j) \/ j = c[w]
  BY <1>1, <1>2 DEF Deleting, At
<1>6. c[w] \in Counted /\ Counted' = Counted \ {c[w]}
  BY <1>1, <1>3, <1>4, <1>5 DEF Counted
<1>7. /\ Cardinality(Counted \ {c[w]}) = Cardinality(Counted) - 1
      /\ Cardinality(Counted) \in Nat
  BY <1>6, CountedFinite, FS_RemoveElement, FS_CardinalityType
<1> QED  BY <1>1, <1>6, <1>7, CounterIsCounted, CounterIsCountedNext

LEMMA CounterDelete ==
    ASSUME TypeOK, Control, CounterExact, NEW w \in Workers, Delete(w)
    PROVE  CounterExact'
<1>1. /\ pc[w] = "delete" /\ concurrentClients' = concurrentClients
      /\ mem' = [mem EXCEPT ![c[w]] = "freed"] /\ c' = c /\ pc' = [pc EXCEPT ![w] = "return"]
  BY DEF Delete, Goto, countVars
<1>2. pc'[w] = "return" /\ \A v \in Workers : v # w => pc'[v] = pc[v]
  BY <1>1 DEF TypeOK
<1>3. c[w] \in Conns /\ Deleting(c[w])
  BY <1>1 DEF Control, WorkerShape, Deleting, At
<1>4. /\ mem'[c[w]] = "freed" /\ \A j \in Conns : j # c[w] => mem'[j] = mem[j]
  BY <1>1, <1>3 DEF TypeOK
<1>5. \A j \in Conns : j # c[w] => (Deleting(j)' <=> Deleting(j))
  BY <1>1, <1>2 DEF Deleting, At
<1>6. Counted' = Counted
  BY <1>3, <1>4, <1>5 DEF Counted
<1> QED  BY <1>1, <1>6, CounterIsCounted, CounterIsCountedNext

LEMMA CounterStep ==
    ASSUME TypeOK, Control, CounterExact, [Next]_vars
    PROVE  CounterExact'
<1>1. ASSUME NEW w \in Workers, NEW k \in Conns, AcceptOk(w, k)
      PROVE  CounterExact'
  BY <1>1, CounterAcceptOk
<1>2. ASSUME NEW w \in Workers, Uncount(w) \/ Delete(w)
      PROVE  CounterExact'
  BY <1>2, CounterUncount, CounterDelete
<1>3. ASSUME NEW w \in Workers,
             \/ \E k \in Conns : Dequeue(w, k)
             \/ Accept(w) \/ HandleEvent(w) \/ Post(w) \/ Return(w)
             \/ FreesockRefused(w) \/ FreesockEnter(w) \/ RemoveMe(w)
      PROVE  CounterExact'
  <2>1. UNCHANGED <<mem, concurrentClients>>
    BY <1>3, HandleEventMoves
       DEF Dequeue, Accept, AcceptFailed, AddMe, PostAccept, Post, PostNull, PostRef, PostIssue,
           PostFail, PostUnref, Return, FreesockRefused, FreesockEnter, RemoveMe, connVars, countVars
  <2>2. pc[w] # "delete" /\ pc'[w] # "delete"
    <3>1. CASE HandleEvent(w)
      BY <3>1, HandleEventMoves
    <3>2. CASE PostAccept(w) \/ PostUnref(w)
      <4>1. \E to \in {"idle", "post", "return", "freesock"} : pc' = [pc EXCEPT ![w] = to]
        BY <3>2 DEF PostAccept, PostUnref, Goto
      <4> QED  BY <4>1, <3>2 DEF PostAccept, PostUnref, TypeOK
    <3>3. CASE \E k \in Conns : Dequeue(w, k)
      BY <3>3 DEF Dequeue, Goto, TypeOK
    <3>4. CASE AcceptFailed(w) \/ AddMe(w) \/ PostNull(w) \/ PostRef(w) \/ PostIssue(w)
               \/ PostFail(w) \/ Return(w) \/ FreesockRefused(w) \/ FreesockEnter(w) \/ RemoveMe(w)
      BY <3>4 DEF AcceptFailed, AddMe, PostNull, PostRef, PostIssue, PostFail, Return,
                  FreesockRefused, FreesockEnter, RemoveMe, Goto, TypeOK
    <3> QED  BY <1>3, <3>1, <3>2, <3>3, <3>4 DEF Accept, Post
  <2>3. \A v \in Workers : v # w => pc'[v] = pc[v] /\ c'[v] = c[v]
    <3>1. CASE HandleEvent(w)
      BY <3>1, HandleEventMoves
    <3>2. CASE Post(w)
      BY <3>2 DEF Post, PostNull, PostRef, PostIssue, PostFail, PostUnref, Goto, TypeOK
    <3>3. CASE \/ \E k \in Conns : Dequeue(w, k)
               \/ Accept(w) \/ Return(w) \/ FreesockRefused(w) \/ FreesockEnter(w) \/ RemoveMe(w)
      BY <3>3, OtherMoves DEF Freesock
    <3> QED  BY <1>3, <3>1, <3>2, <3>3
  <2>4. \A v \in Workers : \A k \in Conns : At(v, k, {"delete"})' <=> At(v, k, {"delete"})
    BY <2>2, <2>3 DEF At
  <2> QED  BY <2>1, <2>4, CounterSame
<1>4. ASSUME NEW k \in Conns, Complete(k)
      PROVE  CounterExact'
  BY <1>4, CounterSame DEF Complete, connVars, workerVars, countVars, At
<1>5. CASE (\E k \in Conns : PeerFin(k)) \/ Monitor \/ UNCHANGED vars
  BY <1>5, BystandersFrame, CounterSame DEF At
<1> QED  BY <1>1, <1>2, <1>3, <1>4, <1>5 DEF Next, Freesock

-----------------------------------------------------------------------------
(* The accept pool. *)

Reaccepting == {w \in Workers : pc[w] \in {"track", "reaccept"}}

LEMMA ReacceptingFinite ==
    IsFiniteSet(Reaccepting) /\ Cardinality(Reaccepting) \in Nat
<1>1. IsFiniteSet(Reaccepting)
  BY ServerAssumption, FS_Subset, Reaccepting \subseteq Workers DEF Reaccepting
<1> QED  BY <1>1, FS_CardinalityType

LEMMA PoolSame ==
    ASSUME AcceptPool, UNCHANGED acceptVars, Reaccepting' = Reaccepting
    PROVE  AcceptPool'
BY DEF AcceptPool, Reaccepting, acceptVars

LEMMA PoolStep ==
    ASSUME TypeOK, AcceptPool, [Next]_vars
    PROVE  AcceptPool'
<1>1. ASSUME NEW w \in Workers, (\E k \in Conns : AcceptOk(w, k)) \/ AcceptFailed(w)
      PROVE  AcceptPool'
  <2>1. /\ pc[w] = "idle" /\ accepting' = accepting - 1 /\ lostaccepts' = lostaccepts
        /\ \E to \in {"track", "reaccept"} : pc' = [pc EXCEPT ![w] = to]
    BY <1>1 DEF AcceptOk, AcceptFailed, Goto
  <2>2. /\ pc'[w] \in {"track", "reaccept"} /\ \A v \in Workers : v # w => pc'[v] = pc[v]
    BY <2>1 DEF TypeOK
  <2>3. w \notin Reaccepting /\ Reaccepting' = Reaccepting \cup {w}
    BY <2>1, <2>2 DEF Reaccepting
  <2>4. Cardinality(Reaccepting \cup {w}) = Cardinality(Reaccepting) + 1
    BY <2>3, ReacceptingFinite, FS_AddElement
  <2>5. AcceptPool' <=> accepting' + lostaccepts' + Cardinality(Reaccepting') = Accepts
    BY DEF AcceptPool, Reaccepting
  <2>6. accepting + lostaccepts + Cardinality(Reaccepting) = Accepts
    BY DEF AcceptPool, Reaccepting
  <2>7. accepting \in Nat /\ lostaccepts \in Nat
    BY ServerAssumption DEF TypeOK
  <2> QED  BY <2>1, <2>3, <2>4, <2>5, <2>6, <2>7, ReacceptingFinite
<1>2. ASSUME NEW w \in Workers, PostAccept(w)
      PROVE  AcceptPool'
  <2>1. /\ pc[w] = "reaccept"
        /\ \/ accepting' = accepting + 1 /\ lostaccepts' = lostaccepts
           \/ accepting' = accepting /\ lostaccepts' = lostaccepts + 1
        /\ \E to \in {"idle", "post"} : pc' = [pc EXCEPT ![w] = to]
    BY <1>2 DEF PostAccept, Goto
  <2>2. /\ pc'[w] \in {"idle", "post"} /\ \A v \in Workers : v # w => pc'[v] = pc[v]
    BY <2>1 DEF TypeOK
  <2>3. w \in Reaccepting /\ Reaccepting' = Reaccepting \ {w}
    BY <2>1, <2>2 DEF Reaccepting
  <2>4. Cardinality(Reaccepting \ {w}) = Cardinality(Reaccepting) - 1
    BY <2>3, ReacceptingFinite, FS_RemoveElement
  <2>5. AcceptPool' <=> accepting' + lostaccepts' + Cardinality(Reaccepting') = Accepts
    BY DEF AcceptPool, Reaccepting
  <2>6. accepting + lostaccepts + Cardinality(Reaccepting) = Accepts
    BY DEF AcceptPool, Reaccepting
  <2>7. accepting \in Nat /\ lostaccepts \in Nat
    BY ServerAssumption DEF TypeOK
  <2>8. \A n \in Nat : accepting + lostaccepts + n = Accepts
                       => accepting' + lostaccepts' + (n - 1) = Accepts
    <3>1. CASE accepting' = accepting + 1 /\ lostaccepts' = lostaccepts
      BY <3>1, <2>7, ServerAssumption
    <3>2. CASE accepting' = accepting /\ lostaccepts' = lostaccepts + 1
      BY <3>2, <2>7, ServerAssumption
    <3> QED  BY <2>1, <3>1, <3>2
  <2> QED  BY <2>3, <2>4, <2>5, <2>6, <2>8, ReacceptingFinite
<1>3. ASSUME NEW w \in Workers, AddMe(w)
      PROVE  AcceptPool'
  <2>1. /\ pc[w] = "track" /\ pc'[w] = "reaccept" /\ UNCHANGED acceptVars
        /\ \A v \in Workers : v # w => pc'[v] = pc[v]
    BY <1>3 DEF AddMe, Goto, TypeOK
  <2> QED  BY <2>1, PoolSame DEF Reaccepting
<1>4. ASSUME NEW w \in Workers, (\E k \in Conns : Dequeue(w, k)) \/ Return(w) \/ HandleEvent(w)
      PROVE  AcceptPool'
  <2>1. /\ pc[w] \notin {"track", "reaccept"} /\ pc'[w] \notin {"track", "reaccept"}
        /\ UNCHANGED acceptVars /\ \A v \in Workers : v # w => pc'[v] = pc[v]
    BY <1>4, HandleEventMoves DEF Dequeue, Return, Goto, TypeOK
  <2> QED  BY <2>1, PoolSame DEF Reaccepting
<1>5. ASSUME NEW w \in Workers, Post(w) \/ Freesock(w)
      PROVE  AcceptPool'
  <2>1. /\ pc[w] \notin {"track", "reaccept"} /\ pc'[w] \notin {"track", "reaccept"}
        /\ UNCHANGED acceptVars /\ \A v \in Workers : v # w => pc'[v] = pc[v]
    BY <1>5 DEF Post, PostNull, PostRef, PostIssue, PostFail, PostUnref, Freesock, FreesockRefused,
                FreesockEnter, RemoveMe, Uncount, Delete, Goto, TypeOK
  <2> QED  BY <2>1, PoolSame DEF Reaccepting
<1>6. ASSUME NEW k \in Conns, Complete(k)
      PROVE  AcceptPool'
  BY <1>6, PoolSame DEF Complete, workerVars, Reaccepting
<1>7. CASE (\E k \in Conns : PeerFin(k)) \/ Monitor \/ UNCHANGED vars
  BY <1>7, BystandersFrame, PoolSame DEF Reaccepting, acceptVars
<1> QED  BY <1>1, <1>2, <1>3, <1>4, <1>5, <1>6, <1>7 DEF Next, Accept

\* The pool bounds both its parts.
LEMMA PoolBounds ==
    ASSUME AcceptPool, accepting \in Nat, lostaccepts \in Nat
    PROVE  accepting \in 0 .. Accepts /\ lostaccepts \in 0 .. Accepts
<1>1. accepting + lostaccepts + Cardinality(Reaccepting) = Accepts
  BY DEF AcceptPool, Reaccepting
<1> QED  BY <1>1, ReacceptingFinite, ServerAssumption

-----------------------------------------------------------------------------
(* The registry gt.conns. *)

LEMMA RegistryStep ==
    ASSUME TypeOK, Control, Registry, [Next]_vars
    PROVE  Registry'
<1> DEFINE Leaving == {"track", "uncount", "delete"}
\* A worker step that keeps conns, dump and live memory and does not bring a
\* registered connection to a place where it must not be.
<1>0. ASSUME NEW w \in Workers, UNCHANGED <<conns, monitorVars>>,
             \A k \in conns : mem'[k] = "live",
             \A v \in Workers : v # w => pc'[v] = pc[v] /\ c'[v] = c[v],
             pc'[w] \in Leaving => \/ pc[w] \in Leaving /\ c'[w] = c[w]
                                   \/ c'[w] \notin conns
      PROVE  Registry'
  <2>1. MonitorSafe'
    BY <1>0 DEF Registry, MonitorSafe, monitorVars
  <2>2. Unregistered'
    BY <1>0 DEF Registry, Unregistered, At, monitorVars
  <2> QED  BY <2>1, <2>2 DEF Registry
<1>1. ASSUME NEW w \in Workers, NEW k \in Conns, AcceptOk(w, k)
      PROVE  Registry'
  <2>1. k \notin conns
    BY <1>1 DEF AcceptOk, Registry, MonitorSafe
  <2>2. /\ UNCHANGED <<conns, monitorVars>> /\ c'[w] = k
        /\ \A v \in Workers : v # w => pc'[v] = pc[v] /\ c'[v] = c[v]
        /\ \A j \in conns : mem'[j] = "live"
    BY <1>1, <2>1 DEF AcceptOk, Goto, TypeOK, Registry, MonitorSafe
  <2> QED  BY <2>1, <2>2, <1>0
<1>2. ASSUME NEW w \in Workers, AddMe(w)
      PROVE  Registry'
  <2>1. /\ pc[w] = "track" /\ gtmtx = "free" /\ conns' = conns \cup {c[w]}
        /\ UNCHANGED <<mem, c, gtmtx, dump>> /\ pc'[w] = "reaccept"
        /\ \A v \in Workers : v # w => pc'[v] = pc[v]
    BY <1>2 DEF AddMe, Goto, TypeOK, connVars, monitorVars
  <2>2. c[w] \in Conns /\ mem[c[w]] = "live"
    BY <2>1 DEF Control, WorkerShape, NoUseAfterFree, At, PCs
  <2>3. \A v \in Workers : v # w => ~At(v, c[w], Driving)
    BY <2>1, <2>2 DEF Control, OneDriver, At, Driving
  <2>4. MonitorSafe'
    BY <2>1, <2>2 DEF Registry, MonitorSafe, Unregistered
  <2>5. Unregistered'
    BY <2>1, <2>2, <2>3 DEF Registry, Unregistered, At, Driving
  <2> QED  BY <2>4, <2>5 DEF Registry
<1>3. ASSUME NEW w \in Workers, RemoveMe(w)
      PROVE  Registry'
  <2>1. /\ pc[w] = "untrack" /\ gtmtx = "free" /\ conns' = conns \ {c[w]}
        /\ UNCHANGED <<mem, c, gtmtx, dump>> /\ pc'[w] = "uncount"
        /\ \A v \in Workers : v # w => pc'[v] = pc[v]
    BY <1>3 DEF RemoveMe, Goto, TypeOK, connVars, monitorVars
  <2>2. MonitorSafe'
    BY <2>1 DEF Registry, MonitorSafe, Unregistered
  <2>3. Unregistered'
    BY <2>1 DEF Registry, Unregistered, At
  <2> QED  BY <2>2, <2>3 DEF Registry
<1>4. ASSUME NEW w \in Workers, Delete(w)
      PROVE  Registry'
  <2>1. /\ pc[w] = "delete" /\ pc'[w] = "return" /\ UNCHANGED <<conns, c, monitorVars>>
        /\ \A v \in Workers : v # w => pc'[v] = pc[v]
        /\ \A j \in Conns : j # c[w] => mem'[j] = mem[j]
    BY <1>4 DEF Delete, Goto, TypeOK
  <2>2. c[w] \notin conns
    BY <2>1 DEF Control, WorkerShape, Registry, Unregistered, At
  <2>3. \A j \in conns : mem'[j] = "live"
    BY <2>1, <2>2 DEF Registry, MonitorSafe
  <2> QED  BY <2>1, <2>3, <1>0
<1>5. ASSUME NEW w \in Workers, HandleEvent(w)
      PROVE  Registry'
  <2>1. pc'[w] \notin Leaving /\ \A j \in conns : mem'[j] = "live"
    BY <1>5, HandleEventMoves DEF Registry, MonitorSafe
  <2> QED  BY <2>1, <1>5, HandleEventMoves, <1>0
<1>6. ASSUME NEW w \in Workers,
             \/ \E k \in Conns : Dequeue(w, k)
             \/ Post(w) \/ Return(w) \/ AcceptFailed(w) \/ PostAccept(w)
             \/ FreesockRefused(w) \/ FreesockEnter(w) \/ Uncount(w)
      PROVE  Registry'
  <2>1. UNCHANGED <<mem, conns, monitorVars>>
    BY <1>6 DEF Dequeue, Post, PostNull, PostRef, PostIssue, PostFail, PostUnref, Return,
                AcceptFailed, PostAccept, FreesockRefused, FreesockEnter, Uncount, connVars
  <2>2. \A v \in Workers : v # w => pc'[v] = pc[v] /\ c'[v] = c[v]
    <3>1. CASE Post(w)
      BY <3>1 DEF Post, PostNull, PostRef, PostIssue, PostFail, PostUnref, Goto, TypeOK
    <3>2. CASE ~Post(w)
      BY <3>2, <1>6, OtherMoves DEF Freesock, Accept
    <3> QED  BY <3>1, <3>2
  <2>3. pc'[w] \in Leaving => pc[w] \in Leaving /\ c'[w] = c[w]
    <3>1. CASE PostAccept(w) \/ PostUnref(w)
      <4>1. \E to \in {"idle", "post", "return", "freesock"} : pc' = [pc EXCEPT ![w] = to]
        BY <3>1 DEF PostAccept, PostUnref, Goto
      <4> QED  BY <4>1 DEF TypeOK
    <3>2. CASE \/ \E k \in Conns : Dequeue(w, k)
               \/ PostNull(w) \/ PostRef(w) \/ PostIssue(w) \/ PostFail(w) \/ Return(w)
               \/ AcceptFailed(w) \/ FreesockRefused(w) \/ FreesockEnter(w) \/ Uncount(w)
      BY <3>2 DEF Dequeue, PostNull, PostRef, PostIssue, PostFail, Return,
                  AcceptFailed, FreesockRefused, FreesockEnter, Uncount, Goto, TypeOK
    <3> QED  BY <1>6, <3>1, <3>2 DEF Post
  <2>4. \A j \in conns : mem'[j] = "live"
    BY <2>1 DEF Registry, MonitorSafe
  <2> QED  BY <2>1, <2>2, <2>3, <2>4, <1>0
<1>7. ASSUME NEW k \in Conns, Complete(k) \/ PeerFin(k)
      PROVE  Registry'
  BY <1>7 DEF Complete, PeerFin, Registry, MonitorSafe, Unregistered, At, connVars, workerVars,
              monitorVars
<1>8. CASE Monitor
  <2>1. UNCHANGED <<mem, conns, workerVars>>
    BY <1>8 DEF Monitor, MonitorLock, MonitorDump, MonitorUnlock, connVars
  <2>2. dump' \subseteq conns /\ (gtmtx' = "free" => dump' = {})
    BY <1>8 DEF Monitor, MonitorLock, MonitorDump, MonitorUnlock, Registry, MonitorSafe,
                Unregistered
  <2> QED  BY <2>1, <2>2 DEF Registry, MonitorSafe, Unregistered, At, workerVars
<1>9. CASE UNCHANGED vars
  BY <1>9 DEF vars, Registry, MonitorSafe, Unregistered, At, connVars, workerVars, monitorVars
<1> QED
  BY <1>1, <1>2, <1>3, <1>4, <1>5, <1>6, <1>7, <1>8, <1>9 DEF Next, Accept, Freesock

-----------------------------------------------------------------------------
(* Buffers and completions. *)

\* The driver of a connection may change its buffers as it likes.
LEMMA DataDriven ==
    ASSUME TypeOK, Control, Data, NEW w \in Workers, c[w] \in Conns,
           pc[w] \in Driving,
           \A j \in Conns : j # c[w] => want'[j] = want[j] /\ wantsend'[j] = wantsend[j],
           UNCHANGED <<inflight, c>>,
           \A v \in Workers : v # w => pc'[v] = pc[v] /\ op'[v] = op[v],
           pc'[w] # "event",
           pc'[w] \in {"post", "issue"} => op'[w].type \in {"IO_RECV", "IO_SEND"}
    PROVE  Data'
<1>1. At(w, c[w], Driving)
  BY DEF At
<1>2. inflight[c[w]] = {} /\ \A v \in Workers : v # w => ~At(v, c[w], Driving)
  BY <1>1 DEF Control, OneDriver
<1>3. \A k \in Conns : \A o \in inflight'[k] :
          o.type \in {"IO_RECV", "IO_SEND"} /\ o.bytes <= Room(k, o.type)'
  BY <1>2 DEF Data, Room
<1>4. \A v \in Workers : pc'[v] = "event" => op'[v].bytes <= Room(c[v], op[v].type)'
  <2> SUFFICES ASSUME NEW v \in Workers, pc'[v] = "event"
               PROVE  op'[v].bytes <= Room(c[v], op[v].type)'
    OBVIOUS
  <2>1. v # w /\ pc[v] = "event" /\ op'[v] = op[v]
    OBVIOUS
  <2>2. c[v] \in Conns /\ c[v] # c[w]
    BY <2>1, <1>2 DEF Control, WorkerShape, At, Driving
  <2>3. op[v].bytes <= Room(c[v], op[v].type)
    BY <2>1 DEF Data
  <2> QED  BY <2>1, <2>2, <2>3 DEF Room
<1>5. \A v \in Workers : pc'[v] \in {"event", "post", "issue"} => op'[v].type \in {"IO_RECV", "IO_SEND"}
  BY DEF Data
<1> QED  BY <1>3, <1>4, <1>5 DEF Data

\* A step that keeps buffers and operations in flight and starts no event.
LEMMA DataSame ==
    ASSUME Data, UNCHANGED <<want, wantsend, inflight>>,
           \A v \in Workers : pc'[v] = "event" => pc[v] = "event" /\ c'[v] = c[v] /\ op'[v] = op[v],
           \A v \in Workers : pc'[v] \in {"post", "issue"} =>
              pc[v] \in {"post", "issue"} /\ op'[v] = op[v]
    PROVE  Data'
BY DEF Data, Room

LEMMA DataStep ==
    ASSUME TypeOK, Control, Data, [Next]_vars
    PROVE  Data'
<1>1. ASSUME NEW w \in Workers, HandleEvent(w)
      PROVE  Data'
  <2>1. c[w] \in Conns /\ pc[w] \in Driving
    BY <1>1, HandleEventMoves DEF Control, WorkerShape, Driving
  <2>2. \A j \in Conns : j # c[w] => want'[j] = want[j] /\ wantsend'[j] = wantsend[j]
    BY <1>1 DEF TypeOK, HandleEvent, HandlePacket, EventFailed, EventShort, EventPartRecv,
         EventPartSend, EventFullSend, PacketHeader, PacketArguments, PacketGet, PacketPost,
         PacketOther, connVars
  <2>3. \A v \in Workers : v # w => op'[v] = op[v]
    BY <1>1 DEF TypeOK, HandleEvent, HandlePacket, EventFailed, EventShort, EventPartRecv,
         EventPartSend, EventFullSend, PacketHeader, PacketArguments, PacketGet, PacketPost,
         PacketOther, CallPost, CallFreesock
  <2>4. pc'[w] = "post" => op'[w].type \in {"IO_RECV", "IO_SEND"}
    BY <1>1 DEF TypeOK, HandleEvent, HandlePacket, EventFailed, EventShort, EventPartRecv,
         EventPartSend, EventFullSend, PacketHeader, PacketArguments, PacketGet, PacketPost,
         PacketOther, CallPost, CallFreesock, Operation, Goto
  <2> QED  BY <2>1, <2>2, <2>3, <2>4, <1>1, HandleEventMoves, DataDriven
<1>2. ASSUME NEW w \in Workers, PostAccept(w)
      PROVE  Data'
  <2>1. /\ pc[w] = "reaccept" /\ UNCHANGED <<inflight, c, wantsend>>
        /\ \E to \in {"idle", "post"} : pc' = [pc EXCEPT ![w] = to]
    BY <1>2 DEF PostAccept, Goto
  <2>2. pc'[w] # "event" /\ \A v \in Workers : v # w => pc'[v] = pc[v]
    BY <2>1 DEF TypeOK
  <2>3. CASE c[w] = NoConn
    <3>1. want' = want /\ op' = op /\ pc'[w] = "idle"
      BY <1>2, <2>3 DEF PostAccept, Goto, TypeOK
    <3> QED  BY <3>1, <2>1, <2>2, DataSame
  <2>4. CASE c[w] # NoConn
    <3>1. c[w] \in Conns /\ pc[w] \in Driving
      BY <2>1, <2>4 DEF TypeOK, Driving
    <3>2. /\ \A j \in Conns : j # c[w] => want'[j] = want[j]
          /\ \A v \in Workers : v # w => op'[v] = op[v]
          /\ op'[w].type = "IO_RECV"
      BY <1>2, <2>4, <3>1 DEF PostAccept, TypeOK, Operation
    <3> QED  BY <3>1, <3>2, <2>1, <2>2, DataDriven
  <2> QED  BY <2>3, <2>4
<1>3. ASSUME NEW w \in Workers, NEW k \in Conns, Dequeue(w, k)
      PROVE  Data'
  <2>1. PICK o \in inflight[k] : /\ inflight' = [inflight EXCEPT ![k] = @ \ {o}]
                                 /\ op' = [op EXCEPT ![w] = o]
    BY <1>3 DEF Dequeue
  <2>2. /\ c' = [c EXCEPT ![w] = k] /\ pc' = [pc EXCEPT ![w] = "event"]
        /\ UNCHANGED <<want, wantsend>>
    BY <1>3 DEF Dequeue, Goto, connVars
  <2>3. \A j \in Conns : inflight'[j] \subseteq inflight[j]
    BY <2>1 DEF TypeOK
  <2>4. /\ op'[w] = o /\ c'[w] = k
        /\ \A v \in Workers : v # w => pc'[v] = pc[v] /\ c'[v] = c[v] /\ op'[v] = op[v]
    BY <2>1, <2>2 DEF TypeOK
  <2>5. o.bytes <= Room(k, o.type) /\ o.type \in {"IO_RECV", "IO_SEND"}
    BY DEF Data
  <2> QED  BY <2>2, <2>3, <2>4, <2>5 DEF Data, Room
<1>4. ASSUME NEW w \in Workers, PostIssue(w)
      PROVE  Data'
  <2>1. /\ pc[w] = "issue" /\ UNCHANGED <<want, wantsend, c, op>>
        /\ pc' = [pc EXCEPT ![w] = "unref"]
        /\ inflight' = [inflight EXCEPT ![c[w]] = @ \cup {Operation(op[w].type, "pending", 0)}]
    BY <1>4 DEF PostIssue, Goto, connVars
  <2>2. op[w].type \in {"IO_RECV", "IO_SEND"} /\ c[w] \in Conns
    BY <2>1 DEF Control, WorkerShape, Data
  <2>3. \A k \in Conns : want[k] \in Nat /\ wantsend[k] \in Nat
    BY DEF TypeOK
  <2>4. 0 <= Room(c[w], op[w].type)
    BY <2>2, <2>3 DEF Room
  <2>5. Operation(op[w].type, "pending", 0).bytes = 0
        /\ Operation(op[w].type, "pending", 0).type = op[w].type
    BY DEF Operation
  <2>6. \A k \in Conns : \A o \in inflight'[k] :
            o \in inflight[k] \/ (k = c[w] /\ o = Operation(op[w].type, "pending", 0))
    BY <2>1, <2>2 DEF TypeOK
  <2>7. \A k \in Conns : \A o \in inflight'[k] :
            o.type \in {"IO_RECV", "IO_SEND"} /\ o.bytes <= Room(k, o.type)
    BY <2>2, <2>4, <2>5, <2>6 DEF Data
  <2>8. \A v \in Workers : v # w => pc'[v] = pc[v]
    BY <2>1 DEF TypeOK
  <2>9. pc'[w] = "unref"
    BY <2>1 DEF TypeOK
  <2> QED  BY <2>1, <2>7, <2>8, <2>9 DEF Data, Room
<1>5. ASSUME NEW k \in Conns, Complete(k)
      PROVE  Data'
  <2>1. PICK o \in inflight[k] : \E r \in Results(k, o) :
                inflight' = [inflight EXCEPT ![k] = (@ \ {o}) \cup {r}]
    BY <1>5 DEF Complete
  <2>2. PICK r \in Results(k, o) : inflight' = [inflight EXCEPT ![k] = (@ \ {o}) \cup {r}]
    BY <2>1
  <2>3. UNCHANGED <<want, wantsend, pc, c, op>>
    BY <1>5 DEF Complete, connVars, workerVars
  <2>4. o.type \in {"IO_RECV", "IO_SEND"}
    BY DEF Data
  <2>5. want[k] \in Nat /\ wantsend[k] \in Nat
    BY DEF TypeOK
  <2>6. r.type = o.type /\ r.bytes <= Room(k, o.type)
    BY <2>4, <2>5 DEF Results, Operation, Room
  <2>7. \A j \in Conns : \A q \in inflight'[j] : q \in inflight[j] \/ (j = k /\ q = r)
    BY <2>2 DEF TypeOK
  <2>8. \A j \in Conns : \A q \in inflight'[j] :
            q.type \in {"IO_RECV", "IO_SEND"} /\ q.bytes <= Room(j, q.type)
    BY <2>4, <2>6, <2>7 DEF Data
  <2> QED  BY <2>3, <2>8 DEF Data, Room
<1>6. ASSUME NEW w \in Workers,
             \/ \E k \in Conns : AcceptOk(w, k)
             \/ AcceptFailed(w) \/ AddMe(w) \/ Freesock(w) \/ Return(w)
             \/ PostNull(w) \/ PostRef(w) \/ PostFail(w) \/ PostUnref(w)
      PROVE  Data'
  <2>1. UNCHANGED <<want, wantsend, inflight>>
    BY <1>6 DEF AcceptOk, AcceptFailed, AddMe, Freesock, FreesockRefused, FreesockEnter, RemoveMe,
                Uncount, Delete, Return, PostNull, PostRef, PostFail, PostUnref, connVars
  <2>2. /\ \A v \in Workers : v # w => pc'[v] = pc[v] /\ c'[v] = c[v] /\ op'[v] = op[v]
        /\ pc'[w] # "event"
        /\ pc'[w] \in {"post", "issue"} => pc[w] \in {"post", "issue"} /\ op'[w] = op[w]
    BY <1>6 DEF AcceptOk, AcceptFailed, AddMe, Freesock, FreesockRefused, FreesockEnter, RemoveMe,
                Uncount, Delete, Return, PostNull, PostRef, PostFail, PostUnref, Goto, TypeOK
  <2> QED  BY <2>1, <2>2, DataSame
<1>7. CASE (\E k \in Conns : PeerFin(k)) \/ Monitor \/ UNCHANGED vars
  BY <1>7, DataSame DEF PeerFin, Monitor, MonitorLock, MonitorDump, MonitorUnlock, vars, connVars,
                        workerVars
<1> QED  BY <1>1, <1>2, <1>3, <1>4, <1>5, <1>6, <1>7 DEF Next, Accept, Post

-----------------------------------------------------------------------------
(* Types. *)

LEMMA OperationType ==
    ASSUME NEW t \in {"IO_ACCEPT", "IO_RECV", "IO_SEND"},
           NEW st \in {"none", "pending", "ok", "failed", "aborted"}, NEW b \in 0 .. Pieces
    PROVE  Operation(t, st, b) \in Operations
BY DEF Operation, Operations

LEMMA TypeHandleEvent ==
    ASSUME TypeOK, Control, Data, NEW w \in Workers, HandleEvent(w)
    PROVE  TypeOK'
<1>1. c[w] \in Conns /\ pc[w] = "event" /\ op[w] \in Operations
  BY HandleEventMoves DEF Control, WorkerShape, TypeOK
<1>2. /\ Operation("IO_RECV", "none", 0) \in Operations
      /\ Operation("IO_SEND", "none", 0) \in Operations
      /\ Pieces \in Nat /\ Pieces \in 0 .. Pieces /\ 0 \in 0 .. Pieces
  BY ServerAssumption, OperationType
<1>3. /\ want[c[w]] \in 0 .. Pieces /\ wantsend[c[w]] \in 0 .. Pieces
      /\ op[w].bytes \in 0 .. Pieces /\ op[w].bytes <= Room(c[w], op[w].type)
  BY <1>1 DEF TypeOK, Operations, Data
<1>4. /\ op[w].type = "IO_RECV" => want[c[w]] - op[w].bytes \in 0 .. Pieces
      /\ op[w].type = "IO_SEND" => wantsend[c[w]] - op[w].bytes \in 0 .. Pieces
  BY <1>3, ServerAssumption DEF Room
<1>5. CASE EventFailed(w)
  BY <1>5, <1>1, <1>2, <1>4
     DEF TypeOK, EventFailed, CallPost, CallFreesock, Goto, FullRecv, Received, Sent, PCs, Requests, connVars,
         acceptVars, countVars, monitorVars
<1>6. CASE EventShort(w)
  BY <1>6, <1>1, <1>2, <1>4
     DEF TypeOK, EventShort, CallPost, CallFreesock, Goto, FullRecv, Received, Sent, PCs, Requests, connVars,
         acceptVars, countVars, monitorVars
<1>7. CASE EventPartRecv(w)
  BY <1>7, <1>1, <1>2, <1>4
     DEF TypeOK, EventPartRecv, CallPost, CallFreesock, Goto, FullRecv, Received, Sent, PCs, Requests, connVars,
         acceptVars, countVars, monitorVars
<1>8. CASE PacketHeader(w)
  BY <1>8, <1>1, <1>2, <1>4
     DEF TypeOK, PacketHeader, CallPost, CallFreesock, Goto, FullRecv, Received, Sent, PCs, Requests, connVars,
         acceptVars, countVars, monitorVars
<1>9. CASE PacketArguments(w)
  BY <1>9, <1>1, <1>2, <1>4
     DEF TypeOK, PacketArguments, CallPost, CallFreesock, Goto, FullRecv, Received, Sent, PCs, Requests, connVars,
         acceptVars, countVars, monitorVars
<1>10. CASE PacketGet(w)
  BY <1>10, <1>1, <1>2, <1>4
     DEF TypeOK, PacketGet, CallPost, CallFreesock, Goto, FullRecv, Received, Sent, PCs, Requests, connVars,
         acceptVars, countVars, monitorVars
<1>11. CASE PacketPost(w)
  BY <1>11, <1>1, <1>2, <1>4
     DEF TypeOK, PacketPost, CallPost, CallFreesock, Goto, FullRecv, Received, Sent, PCs, Requests, connVars,
         acceptVars, countVars, monitorVars
<1>12. CASE PacketOther(w)
  BY <1>12, <1>1, <1>2, <1>4
     DEF TypeOK, PacketOther, CallPost, CallFreesock, Goto, FullRecv, Received, Sent, PCs, Requests, connVars,
         acceptVars, countVars, monitorVars
<1>13. CASE EventPartSend(w)
  BY <1>13, <1>1, <1>2, <1>4
     DEF TypeOK, EventPartSend, CallPost, CallFreesock, Goto, FullRecv, Received, Sent, PCs, Requests, connVars,
         acceptVars, countVars, monitorVars
<1>14. CASE EventFullSend(w)
  BY <1>14, <1>1, <1>2, <1>4
     DEF TypeOK, EventFullSend, CallPost, CallFreesock, Goto, FullRecv, Received, Sent, PCs, Requests, connVars,
         acceptVars, countVars, monitorVars
<1> QED
  BY <1>5, <1>6, <1>7, <1>8, <1>9, <1>10, <1>11, <1>12, <1>13, <1>14 DEF HandleEvent, HandlePacket

LEMMA TypeStep ==
    ASSUME TypeOK, Control, Data, AcceptPool', [Next]_vars
    PROVE  TypeOK'
<1>1. ASSUME NEW w \in Workers, HandleEvent(w)
      PROVE  TypeOK'
  BY <1>1, TypeHandleEvent
<1>2. ASSUME NEW w \in Workers, NEW k \in Conns, Dequeue(w, k)
      PROVE  TypeOK'
  BY <1>2 DEF TypeOK, Dequeue, Goto, PCs, connVars, acceptVars, countVars, monitorVars
<1>3. ASSUME NEW w \in Workers, NEW k \in Conns, AcceptOk(w, k)
      PROVE  TypeOK'
  BY <1>3, ServerAssumption DEF TypeOK, AcceptOk, Goto, PCs, monitorVars
<1>4. ASSUME NEW w \in Workers, AcceptFailed(w) \/ AddMe(w)
      PROVE  TypeOK'
  <2>1. AddMe(w) => c[w] \in Conns
    BY DEF AddMe, Control, WorkerShape
  <2> QED
    BY <1>4, <2>1, ServerAssumption
       DEF TypeOK, AcceptFailed, AddMe, Goto, PCs, connVars, acceptVars, countVars, monitorVars
<1>5. ASSUME NEW w \in Workers, PostAccept(w)
      PROVE  TypeOK'
  <2>1. accepting' \in Nat /\ lostaccepts' \in Nat
    BY <1>5, ServerAssumption DEF PostAccept, TypeOK
  <2>2. accepting' \in 0 .. Accepts /\ lostaccepts' \in 0 .. Accepts
    <3>1. accepting' + lostaccepts' + Cardinality(Reaccepting') = Accepts
      BY DEF AcceptPool, Reaccepting
    <3>2. Cardinality(Reaccepting') \in Nat
      <4>1. IsFiniteSet(Reaccepting')
        BY ServerAssumption, FS_Subset, Reaccepting' \subseteq Workers DEF Reaccepting
      <4> QED  BY <4>1, FS_CardinalityType
    <3> QED  BY <2>1, <3>1, <3>2, ServerAssumption
  <2>3. Operation("IO_RECV", "none", 0) \in Operations /\ Pieces \in 0 .. Pieces
    BY ServerAssumption, OperationType
  <2>4. /\ ps' \in [Conns -> {"PS_HDR", "PS_HEADHEAP", "PS_ARGVLEN", "PS_RECEIVING", "PS_CLOSED"}]
        /\ want' \in [Conns -> 0 .. Pieces] /\ recvThreshold' \in [Conns -> 0 .. Pieces]
        /\ op' \in [Workers -> Operations] /\ pc' \in [Workers -> PCs]
    BY <1>5, <2>3 DEF TypeOK, PostAccept, Goto, PCs
  <2> QED
    BY <1>5, <2>2, <2>4 DEF TypeOK, PostAccept, countVars, monitorVars
<1>6. ASSUME NEW w \in Workers, Post(w)
      PROVE  TypeOK'
  <2>1. /\ c[w] \in Conns
        /\ pc[w] = "issue" => Operation(op[w].type, "pending", 0) \in Operations
    BY <1>6, OperationType, ServerAssumption
       DEF Post, PostNull, PostRef, PostIssue, PostFail, PostUnref, Control, WorkerShape, Data
  <2>2. CASE PostNull(w) \/ PostFail(w)
    BY <2>2 DEF TypeOK, PostNull, PostFail, Goto, PCs, connVars, acceptVars, countVars, monitorVars
  <2>3. CASE PostRef(w)
    <3>1. refcount' \in [Conns -> Int]
      BY <2>3, <2>1 DEF TypeOK, PostRef
    <3> QED
      BY <2>3, <3>1 DEF TypeOK, PostRef, Goto, PCs, acceptVars, countVars, monitorVars
  <2>4. CASE PostIssue(w)
    BY <2>4, <2>1 DEF TypeOK, PostIssue, Goto, PCs, connVars, acceptVars, countVars, monitorVars
  <2>5. CASE PostUnref(w)
    <3>1. \E to \in {"return", "freesock"} : pc' = [pc EXCEPT ![w] = to]
      BY <2>5 DEF PostUnref, Goto
    <3>2. pc' \in [Workers -> PCs]
      BY <3>1 DEF TypeOK, PCs
    <3>3. refcount' \in [Conns -> Int]
      BY <2>5, <2>1 DEF TypeOK, PostUnref
    <3> QED  BY <2>5, <3>2, <3>3 DEF TypeOK, PostUnref, acceptVars, countVars, monitorVars
  <2> QED  BY <1>6, <2>2, <2>3, <2>4, <2>5 DEF Post
<1>7. ASSUME NEW w \in Workers, Freesock(w)
      PROVE  TypeOK'
  BY <1>7 DEF TypeOK, Freesock, FreesockRefused, FreesockEnter, RemoveMe, Uncount, Delete, Goto, PCs,
              connVars, acceptVars, countVars, monitorVars
<1>8. ASSUME NEW w \in Workers, Return(w)
      PROVE  TypeOK'
  <2>1. NoOperation \in Operations
    BY ServerAssumption, OperationType DEF NoOperation
  <2> QED
    BY <1>8, <2>1 DEF TypeOK, Return, Goto, PCs, connVars, acceptVars, countVars, monitorVars
<1>9. ASSUME NEW k \in Conns, Complete(k)
      PROVE  TypeOK'
  <2>1. PICK o \in inflight[k] : \E r \in Results(k, o) :
                inflight' = [inflight EXCEPT ![k] = (@ \ {o}) \cup {r}]
    BY <1>9 DEF Complete
  <2>2. PICK r \in Results(k, o) : inflight' = [inflight EXCEPT ![k] = (@ \ {o}) \cup {r}]
    BY <2>1
  <2>3. /\ want[k] \in 0 .. Pieces /\ wantsend[k] \in 0 .. Pieces
        /\ o.type \in {"IO_RECV", "IO_SEND"}
    BY DEF TypeOK, Data
  <2>4. r \in Operations
    <3>1. \A b \in Nat : b <= Room(k, o.type) => b \in 0 .. Pieces
      BY <2>3, ServerAssumption DEF Room
    <3> QED  BY <2>3, <3>1, OperationType, ServerAssumption DEF Results, Room
  <2>5. inflight' \in [Conns -> SUBSET Operations]
    BY <2>2, <2>4 DEF TypeOK
  <2> QED
    BY <1>9, <2>5 DEF TypeOK, Complete, connVars, acceptVars, countVars, workerVars, monitorVars
<1>10. ASSUME NEW k \in Conns, PeerFin(k)
      PROVE  TypeOK'
  BY <1>10 DEF TypeOK, PeerFin, connVars, acceptVars, countVars, workerVars, monitorVars
<1>11. CASE Monitor
  BY <1>11 DEF TypeOK, Monitor, MonitorLock, MonitorDump, MonitorUnlock, connVars, acceptVars,
               countVars, workerVars
<1>12. CASE UNCHANGED vars
  BY <1>12 DEF TypeOK, vars, connVars, acceptVars, countVars, workerVars, monitorVars
<1> QED
  BY <1>1, <1>2, <1>3, <1>4, <1>5, <1>6, <1>7, <1>8, <1>9, <1>10, <1>11, <1>12 DEF Next, Accept

-----------------------------------------------------------------------------
(* The inductive invariant and its theorems. *)

LEMMA InitIInv == Init => IInv
<1> SUFFICES ASSUME Init PROVE IInv
  OBVIOUS
<1>0. NoConn \notin Conns /\ \A w \in Workers : pc[w] = "idle" /\ c[w] = NoConn
  BY ServerAssumption DEF Init
<1>1. TypeOK
  <2>1. NoOperation \in Operations
    BY ServerAssumption, OperationType DEF NoOperation
  <2> QED  BY <2>1, ServerAssumption DEF Init, TypeOK, PCs
<1>2. \A w \in Workers : \A k \in Conns : \A S : ~At(w, k, S)
  BY <1>0 DEF At
<1>3. Control
  <2>1. OneDriver /\ FreeingUnheld /\ NoUseAfterFree
    BY <1>2 DEF Init, OneDriver, FreeingUnheld, NoUseAfterFree
  <2>2. WorkerShape /\ NoOrphanOperation
    BY <1>0 DEF Init, WorkerShape, NoOrphanOperation
  <2> QED  BY <2>1, <2>2 DEF Control
<1>4. RefCountExact
  <2>1. \A k \in Conns : {w \in Workers : At(w, k, Holding)} = {}
    BY <1>2
  <2> QED  BY <2>1, FS_EmptySet DEF Init, RefCountExact
<1>5. Registry
  BY <1>2 DEF Init, Registry, MonitorSafe, Unregistered
<1>6. CounterExact
  <2>1. Counted = {}
    BY DEF Init, Counted
  <2> QED  BY <2>1, FS_EmptySet, CounterIsCounted DEF Init
<1>7. AcceptPool
  <2>1. Reaccepting = {}
    BY <1>0 DEF Reaccepting
  <2>2. accepting = Accepts /\ lostaccepts = 0 /\ Cardinality(Reaccepting) = 0
    BY <2>1, FS_EmptySet DEF Init
  <2> QED  BY <2>2, ServerAssumption DEF AcceptPool, Reaccepting
<1>8. Data
  BY <1>0 DEF Init, Data
<1> QED  BY <1>1, <1>3, <1>4, <1>5, <1>6, <1>7, <1>8 DEF IInv

LEMMA NextIInv == IInv /\ [Next]_vars => IInv'
<1> SUFFICES ASSUME IInv, [Next]_vars PROVE IInv'
  OBVIOUS
<1>1. AcceptPool'
  BY PoolStep DEF IInv
<1>2. Control' /\ RefCountExact' /\ Registry' /\ CounterExact' /\ Data'
  BY ControlStep, RefCountStep, RegistryStep, CounterStep, DataStep DEF IInv
<1>3. TypeOK'
  BY <1>1, TypeStep DEF IInv
<1> QED  BY <1>1, <1>2, <1>3 DEF IInv

THEOREM InvariantHolds == Spec => []IInv
BY InitIInv, NextIInv, PTL DEF Spec

\* Every variable of the server keeps its type; in particular the accept pool
\* never grows beyond the operations serve() posted.
THEOREM ServerTypeCorrect == Spec => []TypeOK
<1>1. IInv => TypeOK
  BY DEF IInv
<1> QED  BY <1>1, InvariantHolds, PTL

\* A connection has one driver: receive and send alternate, so no two workers
\* ever handle events of one ConnCtx at once.
THEOREM ConnectionsHaveOneDriver == Spec => []OneDriver
<1>1. IInv => OneDriver
  BY DEF IInv, Control
<1> QED  BY <1>1, InvariantHolds, PTL

\* The reference count is exact: what freesock tests is whether some worker is
\* still between its fetch_add and its fetch_sub.
THEOREM ReferencesAreExact == Spec => []RefCountExact
<1>1. IInv => RefCountExact
  BY DEF IInv
<1> QED  BY <1>1, InvariantHolds, PTL

\* Up to the return into handle_event no worker touches a deleted ConnCtx.
THEOREM ConnectionsAreLiveWhenUsed == Spec => []NoUseAfterFree
<1>1. IInv => NoUseAfterFree
  BY DEF IInv, Control
<1> QED  BY <1>1, InvariantHolds, PTL

\* No completion is left to come for a deleted ConnCtx.
THEOREM OperationsEndBeforeDelete == Spec => []NoOrphanOperation
<1>1. IInv => NoOrphanOperation
  BY DEF IInv, Control
<1> QED  BY <1>1, InvariantHolds, PTL

\* main never prints a deleted connection.
THEOREM MonitorReadsLiveMemory == Spec => []MonitorSafe
<1>1. IInv => MonitorSafe
  BY DEF IInv, Registry
<1> QED  BY <1>1, InvariantHolds, PTL

\* concurrentClients counts what is allocated and not yet counted out.
THEOREM ClientsAreCounted == Spec => []CounterExact
<1>1. IInv => CounterExact
  BY DEF IInv
<1> QED  BY <1>1, InvariantHolds, PTL

\* An AcceptEx slot is lost only when post_accept fails.
THEOREM AcceptsAreConserved == Spec => []AcceptPool
<1>1. IInv => AcceptPool
  BY DEF IInv
<1> QED  BY <1>1, InvariantHolds, PTL

-----------------------------------------------------------------------------
(* The phases after the name of a request. *)

\* A connection in these phases has nothing to receive and nothing in flight:
\* its driver has yet to call post_recv, in vain, or is on its way out.
Late(k) == ps[k] \in {"PS_ARGVLEN", "PS_RECEIVING"}

Phases ==
    \A k \in Conns :
        /\ mem[k] = "none" => ps[k] = "PS_HDR"
        /\ Late(k) =>
              /\ inflight[k] = {}
              /\ \A w \in Workers : At(w, k, Driving) =>
                    \/ pc[w] \in {"freesock", "untrack", "uncount", "delete"}
                    \/ pc[w] = "post" /\ op[w].type = "IO_RECV" /\ want[k] = 0

\* What can change the phase of k: its driver, in handle_event or handle_accepted.
LEMMA PhaseChanges ==
    ASSUME IInv, [Next]_vars, NEW k \in Conns, ps'[k] # ps[k]
    PROVE  /\ mem[k] = "live"
           /\ \E w \in Workers :
                 /\ c[w] = k /\ pc[w] \in Driving
                 /\ \/ ~Late(k)'
                    \/ PacketArguments(w) \/ PacketPost(w)
<1> USE DEF IInv
<1>1. PICK w \in Workers : PostAccept(w) \/ PacketHeader(w) \/ PacketArguments(w)
                              \/ PacketGet(w) \/ PacketPost(w)
  <2>1. ~UNCHANGED ps
    OBVIOUS
  <2> QED
    BY <2>1 DEF Next, Accept, HandleEvent, HandlePacket, Post, Freesock, Monitor, vars, connVars,
       Dequeue, AcceptOk, AcceptFailed, AddMe, EventFailed, EventShort, EventPartRecv, PacketOther,
       EventPartSend, EventFullSend, PostNull, PostRef, PostIssue, PostFail, PostUnref,
       FreesockRefused, FreesockEnter, RemoveMe, Uncount, Delete, Return, PeerFin, Complete,
       MonitorLock, MonitorDump, MonitorUnlock
<1>2. /\ pc[w] \in {"event", "reaccept"} /\ c[w] = k
      /\ ~Late(k)' \/ PacketArguments(w) \/ PacketPost(w)
  BY <1>1 DEF PostAccept, PacketHeader, PacketArguments, PacketGet, PacketPost, FullRecv, Received,
     Late, TypeOK
<1>3. At(w, k, PCs \ {"return"})
  BY <1>2 DEF At, PCs
<1>4. mem[k] = "live"
  BY <1>3 DEF Control, NoUseAfterFree
<1> QED  BY <1>2, <1>4 DEF Driving

\* A connection that has reached a late phase stays out of the system's hands.
LEMMA LateStays ==
    ASSUME IInv, Phases, [Next]_vars, NEW k \in Conns, Late(k), ps'[k] = ps[k]
    PROVE  /\ inflight'[k] = {}
           /\ \A w \in Workers : At(w, k, Driving)' =>
                 \/ pc'[w] \in {"freesock", "untrack", "uncount", "delete"}
                 \/ pc'[w] = "post" /\ op'[w].type = "IO_RECV" /\ want'[k] = 0
<1> DEFINE Parked(w) == \/ pc[w] \in {"freesock", "untrack", "uncount", "delete"}
                        \/ pc[w] = "post" /\ op[w].type = "IO_RECV" /\ want[k] = 0
           Goal == inflight'[k] = {} /\ \A v \in Workers : At(v, k, Driving)' => Parked(v)'
<1>0. /\ inflight[k] = {} /\ mem[k] # "none"
      /\ \A v \in Workers : At(v, k, Driving) => Parked(v)
  BY DEF Phases, Late
<1>1. ASSUME NEW w \in Workers, c[w] # k,
             \A v \in Workers : v # w => pc'[v] = pc[v] /\ c'[v] = c[v] /\ op'[v] = op[v],
             c'[w] # k, want'[k] = want[k], inflight'[k] = inflight[k]
      PROVE  Goal
  BY <1>0, <1>1 DEF At
<1>2. ASSUME NEW w \in Workers, c[w] = k, c'[w] \in {k, NoConn}, inflight' = inflight,
             \A v \in Workers : v # w => pc'[v] = pc[v] /\ c'[v] = c[v] /\ op'[v] = op[v],
             want' = want,
             pc'[w] \in Driving => pc'[w] \in {"freesock", "untrack", "uncount", "delete"}
      PROVE  Goal
  BY <1>0, <1>2 DEF At
<1>3. ASSUME NEW w \in Workers, HandleEvent(w) PROVE Goal
  <2>1. /\ pc[w] = "event" /\ c' = c /\ c[w] \in Conns /\ inflight' = inflight
        /\ \A v \in Workers : v # w => pc'[v] = pc[v]
    BY <1>3, HandleEventMoves DEF IInv, Control, WorkerShape
  <2>2. c[w] # k
    BY <1>0, <2>1 DEF At, Driving
  <2>3. want'[k] = want[k] /\ \A v \in Workers : v # w => op'[v] = op[v]
    BY <1>3, <2>1, <2>2
       DEF HandleEvent, HandlePacket, EventFailed, EventShort, EventPartRecv, EventPartSend,
           EventFullSend, PacketHeader, PacketArguments, PacketGet, PacketPost, PacketOther,
           CallPost, CallFreesock, connVars, IInv, TypeOK
  <2> QED  BY <1>1, <2>1, <2>2, <2>3
<1>4. ASSUME NEW w \in Workers, NEW j \in Conns, Dequeue(w, j) \/ AcceptOk(w, j) PROVE Goal
  <2>1. /\ j # k /\ pc[w] = "idle" /\ want' = want
        /\ c' = [c EXCEPT ![w] = j] /\ inflight'[k] = inflight[k]
        /\ \A v \in Workers : v # w => pc'[v] = pc[v] /\ c'[v] = c[v] /\ op'[v] = op[v]
    BY <1>0, <1>4 DEF Dequeue, AcceptOk, Goto, connVars, IInv, TypeOK
  <2>2. c[w] # k /\ c'[w] # k
    BY <2>1, ServerAssumption DEF IInv, Control, WorkerShape, TypeOK
  <2> QED  BY <1>1, <2>1, <2>2
<1>5. ASSUME NEW w \in Workers, Accept(w) PROVE Goal
  <2>1. /\ pc[w] \in {"idle", "track", "reaccept"} /\ c' = c /\ inflight' = inflight
        /\ \A v \in Workers : v # w => pc'[v] = pc[v] /\ op'[v] = op[v]
    BY <1>5 DEF Accept, AcceptFailed, AddMe, PostAccept, Goto, connVars, IInv, TypeOK
  <2>2. c[w] # k
    BY <1>0, <2>1, ServerAssumption DEF At, Driving, IInv, Control, WorkerShape
  <2>3. want'[k] = want[k]
    BY <1>5, <2>2 DEF Accept, AcceptFailed, AddMe, PostAccept, connVars, IInv, TypeOK
  <2> QED  BY <1>1, <2>1, <2>2, <2>3
<1>6. ASSUME NEW w \in Workers, Post(w) PROVE Goal
  <2>1. /\ pc[w] \in {"post", "issue", "unref", "unreffail"}
        /\ c' = c /\ op' = op /\ want' = want /\ c[w] \in Conns
        /\ \A v \in Workers : v # w => pc'[v] = pc[v]
    BY <1>6 DEF Post, PostNull, PostRef, PostIssue, PostFail, PostUnref, Goto, connVars, IInv,
       TypeOK, Control, WorkerShape
  <2>2. CASE c[w] # k
    <3>1. inflight'[k] = inflight[k]
      BY <1>6, <2>1, <2>2 DEF Post, PostNull, PostRef, PostIssue, PostFail, PostUnref, IInv, TypeOK
    <3> QED  BY <1>1, <2>1, <2>2, <3>1
  <2>3. CASE c[w] = k
    <3>1. pc[w] = "unref" \/ (pc[w] = "post" /\ op[w].type = "IO_RECV" /\ want[k] = 0)
      BY <1>0, <2>1, <2>3 DEF At, Driving
    <3>2. (PostNull(w) \/ PostUnref(w)) /\ pc'[w] \in {"freesock", "return"} /\ inflight' = inflight
      BY <1>6, <2>3, <3>1 DEF Post, PostNull, PostRef, PostIssue, PostFail, PostUnref, Goto, IInv,
         TypeOK
    <3> QED  BY <1>2, <2>1, <2>3, <3>2 DEF Driving
  <2> QED  BY <2>2, <2>3
<1>7. ASSUME NEW w \in Workers, Freesock(w) \/ Return(w) PROVE Goal
  <2>1. /\ inflight' = inflight /\ want' = want /\ c'[w] \in {c[w], NoConn}
        /\ pc'[w] \in {"untrack", "uncount", "delete", "return", "idle"}
        /\ \A v \in Workers : v # w => pc'[v] = pc[v] /\ c'[v] = c[v] /\ op'[v] = op[v]
    BY <1>7 DEF Freesock, FreesockRefused, FreesockEnter, RemoveMe, Uncount, Delete, Return, Goto,
       connVars, IInv, TypeOK
  <2> QED  BY <1>1, <1>2, <2>1, ServerAssumption DEF Driving
<1>8. ASSUME NEW j \in Conns, PeerFin(j) \/ Complete(j) PROVE Goal
  <2>1. UNCHANGED <<pc, c, op, want>> /\ inflight'[k] = inflight[k]
    BY <1>0, <1>8 DEF PeerFin, Complete, connVars, workerVars, IInv, TypeOK
  <2> QED  BY <1>0, <2>1 DEF At
<1>9. CASE Monitor \/ UNCHANGED vars
  <2>1. UNCHANGED <<pc, c, op, want, inflight>>
    BY <1>9 DEF Monitor, MonitorLock, MonitorDump, MonitorUnlock, vars, connVars, workerVars
  <2> QED  BY <1>0, <2>1 DEF At
<1> QED  BY <1>3, <1>4, <1>5, <1>6, <1>7, <1>8, <1>9 DEF Next

\* The worker that finds the arguments, or a POST, is alone with the connection.
LEMMA LateStarts ==
    ASSUME IInv, [Next]_vars, NEW k \in Conns, NEW w \in Workers, c[w] = k,
           PacketArguments(w) \/ PacketPost(w)
    PROVE  /\ inflight'[k] = {}
           /\ \A v \in Workers : At(v, k, Driving)' =>
                 \/ pc'[v] \in {"freesock", "untrack", "uncount", "delete"}
                 \/ pc'[v] = "post" /\ op'[v].type = "IO_RECV" /\ want'[k] = 0
<1>1. /\ pc[w] = "event" /\ c' = c /\ inflight' = inflight
      /\ \A v \in Workers : v # w => pc'[v] = pc[v]
  BY HandleEventMoves DEF HandleEvent, HandlePacket, IInv
<1>2. /\ inflight[k] = {}
      /\ \A v \in Workers : v # w => ~At(v, k, Driving)
  BY <1>1 DEF IInv, Control, OneDriver, At, Driving
<1>3. \A v \in Workers : v # w => ~At(v, k, Driving)'
  BY <1>1, <1>2 DEF At
<1>4. \/ pc'[w] = "freesock"
      \/ pc'[w] = "post" /\ op'[w].type = "IO_RECV" /\ want'[k] = 0
  BY DEF PacketArguments, PacketPost, CallPost, CallFreesock, Goto, Operation, IInv, TypeOK
<1> QED  BY <1>1, <1>2, <1>3, <1>4

\* Every step keeps Phases.
LEMMA PhasesStep == IInv /\ Phases /\ [Next]_vars => Phases'
<1> SUFFICES ASSUME IInv, Phases, [Next]_vars, NEW k \in Conns
             PROVE  /\ mem'[k] = "none" => ps'[k] = "PS_HDR"
                    /\ Late(k)' =>
                          /\ inflight'[k] = {}
                          /\ \A w \in Workers : At(w, k, Driving)' =>
                                \/ pc'[w] \in {"freesock", "untrack", "uncount", "delete"}
                                \/ pc'[w] = "post" /\ op'[w].type = "IO_RECV" /\ want'[k] = 0
  BY DEF Phases
<1>1. mem'[k] = "none" => mem[k] = "none"
  BY DEF Next, Accept, HandleEvent, HandlePacket, Post, Freesock, Monitor, vars, connVars,
     Dequeue, AcceptOk, AcceptFailed, AddMe, PostAccept, EventFailed, EventShort, EventPartRecv,
     PacketHeader, PacketArguments, PacketGet, PacketPost, PacketOther,
     EventPartSend, EventFullSend, PostNull, PostRef, PostIssue, PostFail, PostUnref,
     FreesockRefused, FreesockEnter, RemoveMe, Uncount, Delete, Return, PeerFin, Complete,
     MonitorLock, MonitorDump, MonitorUnlock, IInv, TypeOK
<1>2. mem'[k] = "none" => ps'[k] = "PS_HDR"
  BY <1>1, PhaseChanges DEF Phases
<1>3. CASE ps'[k] = ps[k]
  <2>1. Late(k)' => Late(k)
    BY <1>3 DEF Late
  <2> QED  BY <1>2, <1>3, <2>1, LateStays
<1>4. CASE ps'[k] # ps[k]
  BY <1>2, <1>4, PhaseChanges, LateStarts
<1> QED  BY <1>3, <1>4

\* The arguments of a request are never received (worker.h:135, 154).
THEOREM ArgumentsAreNeverReceived == Spec => []ArgumentsNeverPending
<1>1. Init => Phases
  BY ServerAssumption DEF Init, Phases, Late
<1>2. IInv /\ Phases => ArgumentsNeverPending
  BY DEF IInv, TypeOK, Phases, Late, ArgumentsNeverPending
<1> QED  BY <1>1, <1>2, PhasesStep, InvariantHolds, PTL DEF Spec

-----------------------------------------------------------------------------
(* How a connection is abandoned. *)

Cause(k) ==
    \E w \in Workers :
        \/ At(w, k, {"freesock"}) /\ \E v \in Workers : At(v, k, {"unref"})
        \/ At(w, k, {"event"}) /\ req[k] = "other"

\* A step after which the same worker still drives the connection it drove.
LEMMA StillDriven ==
    ASSUME NEW k \in Conns, NEW w \in Workers, ~Abandoned(k), Abandoned(k)',
           mem[k] = "live", inflight[k] = {} \/ inflight'[k] # {},
           \A v \in Workers : v # w => pc'[v] = pc[v] /\ c'[v] = c[v],
           c[w] = k /\ pc[w] \in Driving => c'[w] = k /\ pc'[w] \in Driving
    PROVE  FALSE
<1>1. PICK v \in Workers : At(v, k, Driving)
  BY DEF Abandoned, At
<1>2. At(v, k, Driving)'
  BY <1>1 DEF At
<1> QED  BY <1>2 DEF Abandoned, At

LEMMA RefusedByPoster ==
    ASSUME IInv, NEW w \in Workers, FreesockRefused(w)
    PROVE  \E v \in Workers : At(v, c[w], {"unref"})
<1>1. /\ pc[w] = "freesock" /\ refcount[c[w]] # 0
  BY DEF FreesockRefused
<1>2. c[w] \in Conns
  BY <1>1 DEF IInv, Control, WorkerShape
<1>3. \E v \in Workers : At(v, c[w], Holding)
  <2>1. Cardinality({v \in Workers : At(v, c[w], Holding)}) # 0
    BY <1>1, <1>2 DEF IInv, RefCountExact
  <2> QED  BY <2>1, FS_EmptySet
<1>4. PICK v \in Workers : At(v, c[w], Holding)
  BY <1>3
<1>5. v # w /\ At(w, c[w], Driving)
  BY <1>1, <1>4 DEF At, Holding, Driving
<1>6. ~At(v, c[w], Driving)
  BY <1>2, <1>5 DEF IInv, Control, OneDriver
<1>7. At(v, c[w], {"unref"})
  BY <1>4, <1>6 DEF At, Holding, Driving
<1> QED  BY <1>7

LEMMA AbandonedStep ==
    ASSUME IInv, [Next]_vars, NEW k \in Conns, ~Abandoned(k), Abandoned(k)'
    PROVE  Cause(k)
<1> USE DEF IInv
<1>0. mem'[k] = "live" /\ inflight'[k] = {} /\ \A v \in Workers : ~At(v, k, Driving)'
  BY DEF Abandoned, At
<1>1. ASSUME NEW w \in Workers, NEW j \in Conns, Dequeue(w, j)
      PROVE  FALSE
  <2>1. /\ pc[w] = "idle" /\ pc'[w] = "event" /\ c'[w] = j /\ mem' = mem
        /\ \A v \in Workers : v # w => pc'[v] = pc[v] /\ c'[v] = c[v]
        /\ \A i \in Conns : i # j => inflight'[i] = inflight[i]
    BY <1>1 DEF Dequeue, Goto, TypeOK, connVars
  <2>2. j # k
    BY <2>1, <1>0 DEF At, Driving
  <2> QED  BY <2>1, <2>2, <1>0, StillDriven DEF Driving
<1>2. ASSUME NEW w \in Workers, NEW j \in Conns, AcceptOk(w, j)
      PROVE  FALSE
  <2>1. /\ pc[w] = "idle" /\ pc'[w] = "track" /\ c'[w] = j /\ inflight' = inflight
        /\ \A v \in Workers : v # w => pc'[v] = pc[v] /\ c'[v] = c[v]
        /\ \A i \in Conns : i # j => mem'[i] = mem[i]
    BY <1>2 DEF AcceptOk, Goto, TypeOK
  <2>2. j # k
    BY <2>1, <1>0 DEF At, Driving
  <2> QED  BY <2>1, <2>2, <1>0, StillDriven DEF Driving
<1>3. ASSUME NEW w \in Workers, Accept(w)
      PROVE  FALSE
  <2>1. UNCHANGED <<mem, inflight, c>> /\ \A v \in Workers : v # w => pc'[v] = pc[v]
    <3>1. UNCHANGED <<mem, inflight, c>>
      BY <1>3 DEF Accept, AcceptFailed, AddMe, PostAccept, connVars
    <3> QED  BY <3>1, <1>3, OtherMoves
  <2>2. c[w] = k /\ pc[w] \in Driving => pc'[w] \in Driving
    <3>1. CASE AcceptFailed(w) \/ AddMe(w)
      BY <3>1 DEF AcceptFailed, AddMe, Goto, TypeOK, Driving
    <3>2. CASE PostAccept(w) /\ c[w] = k
      <4>1. c[w] # NoConn
        BY <3>2, ServerAssumption
      <4>2. pc'[w] = "post"
        BY <3>2, <4>1 DEF PostAccept, Goto, TypeOK
      <4> QED  BY <4>2 DEF Driving
    <3> QED  BY <1>3, <3>1, <3>2 DEF Accept
  <2> QED  BY <2>1, <2>2, <1>0, StillDriven
<1>4. ASSUME NEW w \in Workers, HandleEvent(w)
      PROVE  Cause(k)
  <2>1. CASE PacketOther(w) /\ c[w] = k
    <3>1. At(w, k, {"event"}) /\ req[k] = "other"
      BY <2>1 DEF PacketOther, FullRecv, Received, At
    <3> QED  BY <3>1 DEF Cause
  <2>2. CASE ~PacketOther(w) \/ c[w] # k
    <3>1. ~PacketOther(w) => pc'[w] \in {"post", "freesock"}
      BY <1>4 DEF HandleEvent, HandlePacket, EventFailed, EventShort, EventPartRecv, EventPartSend,
                  EventFullSend, PacketHeader, PacketArguments, PacketGet, PacketPost,
                  CallPost, CallFreesock, Goto, TypeOK
    <3>2. c[w] = k => pc'[w] \in Driving
      BY <2>2, <3>1 DEF Driving
    <3> QED  BY <3>2, <1>0, <1>4, HandleEventMoves, StillDriven
  <2> QED  BY <2>1, <2>2
<1>5. ASSUME NEW w \in Workers, Post(w)
      PROVE  FALSE
  <2>1. /\ mem' = mem /\ c' = c
        /\ \A v \in Workers : v # w => pc'[v] = pc[v]
    BY <1>5 DEF Post, PostNull, PostRef, PostIssue, PostFail, PostUnref, Goto, TypeOK, connVars
  <2>2. CASE PostIssue(w)
    <3>1. c[w] \in Conns /\ inflight' = [inflight EXCEPT ![c[w]] =
                                           @ \cup {Operation(op[w].type, "pending", 0)}]
      BY <2>2 DEF PostIssue, Control, WorkerShape
    <3>2. c[w] # k
      BY <3>1, <1>0 DEF TypeOK
    <3>3. inflight'[k] = inflight[k]
      BY <3>1, <3>2 DEF TypeOK
    <3> QED  BY <3>2, <3>3, <2>1, <1>0, StillDriven
  <2>3. CASE PostNull(w) \/ PostRef(w) \/ PostFail(w) \/ PostUnref(w)
    <3>1. inflight' = inflight
      BY <2>3 DEF PostNull, PostRef, PostFail, PostUnref
    <3>2. pc[w] \in Driving => pc'[w] \in Driving
      <4>1. CASE PostUnref(w) /\ pc[w] = "unreffail"
        <5>1. pc' = [pc EXCEPT ![w] = "freesock"]
          BY <4>1 DEF PostUnref, Goto
        <5> QED  BY <5>1 DEF TypeOK, Driving
      <4>2. CASE PostUnref(w) /\ pc[w] # "unreffail"
        BY <4>2 DEF PostUnref, Driving
      <4>3. CASE PostNull(w) \/ PostRef(w) \/ PostFail(w)
        BY <4>3 DEF PostNull, PostRef, PostFail, Goto, TypeOK, Driving
      <4> QED  BY <2>3, <4>1, <4>2, <4>3
    <3> QED  BY <3>1, <3>2, <2>1, <1>0, StillDriven
  <2> QED  BY <1>5, <2>2, <2>3 DEF Post
<1>6. ASSUME NEW w \in Workers, Freesock(w)
      PROVE  Cause(k)
  <2>1. /\ UNCHANGED <<inflight, c>>
        /\ \A v \in Workers : v # w => pc'[v] = pc[v]
    BY <1>6 DEF Freesock, FreesockRefused, FreesockEnter, RemoveMe, Uncount, Delete, Goto, TypeOK
  <2>2. CASE FreesockRefused(w) /\ c[w] = k
    <3>1. At(w, k, {"freesock"})
      BY <2>2 DEF FreesockRefused, At
    <3> QED  BY <3>1, <2>2, RefusedByPoster DEF Cause
  <2>3. CASE FreesockRefused(w) /\ c[w] # k
    <3>1. mem' = mem
      BY <2>3 DEF FreesockRefused, connVars
    <3> QED  BY <3>1, <2>1, <2>3, <1>0, StillDriven
  <2>4. CASE FreesockEnter(w) \/ RemoveMe(w) \/ Uncount(w)
    <3>1. mem' = mem /\ pc'[w] \in Driving
      BY <2>4 DEF FreesockEnter, RemoveMe, Uncount, Goto, TypeOK, Driving, connVars
    <3> QED  BY <3>1, <2>1, <1>0, StillDriven
  <2>5. CASE Delete(w)
    <3>1. pc[w] = "delete" /\ mem' = [mem EXCEPT ![c[w]] = "freed"]
      BY <2>5 DEF Delete
    <3>2. c[w] # k
      BY <3>1, <1>0 DEF TypeOK
    <3>3. mem[k] = "live"
      BY <3>1, <3>2, <1>0 DEF TypeOK
    <3> QED  BY <3>2, <3>3, <2>1, <1>0, StillDriven
  <2> QED  BY <1>6, <2>2, <2>3, <2>4, <2>5 DEF Freesock
<1>7. ASSUME NEW w \in Workers, Return(w)
      PROVE  FALSE
  <2>1. /\ pc[w] = "return" /\ UNCHANGED <<mem, inflight>>
        /\ \A v \in Workers : v # w => pc'[v] = pc[v] /\ c'[v] = c[v]
    BY <1>7 DEF Return, Goto, TypeOK, connVars
  <2> QED  BY <2>1, <1>0, StillDriven DEF Driving
<1>8. ASSUME NEW j \in Conns, Complete(j)
      PROVE  FALSE
  <2>1. PICK o \in inflight[j] : \E r \in Results(j, o) :
                inflight' = [inflight EXCEPT ![j] = (@ \ {o}) \cup {r}]
    BY <1>8 DEF Complete
  <2>2. inflight'[j] # {} /\ \A i \in Conns : i # j => inflight'[i] = inflight[i]
    BY <2>1 DEF TypeOK
  <2>3. UNCHANGED <<mem, pc, c>>
    BY <1>8 DEF Complete, connVars, workerVars
  <2> QED  BY <2>2, <2>3, <1>0 DEF Abandoned, At
<1>9. CASE (\E j \in Conns : PeerFin(j)) \/ Monitor \/ UNCHANGED vars
  BY <1>9, <1>0, BystandersFrame DEF Abandoned, At
<1> QED
  BY <1>1, <1>2, <1>3, <1>4, <1>5, <1>6, <1>7, <1>8, <1>9 DEF Next

\* A connection is left to nobody in two ways only: freesock refuses because the
\* worker that posted the operation still holds its reference, or the request
\* type is unknown.
THEOREM AbandonedInTwoWaysOnly == Spec => AbandonedTwoWays
<1>1. IInv /\ [Next]_vars =>
        [\A k \in Conns :
            ~Abandoned(k) /\ Abandoned(k)' =>
               \E w \in Workers :
                  \/ /\ At(w, k, {"freesock"})
                     /\ \E v \in Workers : At(v, k, {"unref"})
                  \/ At(w, k, {"event"}) /\ req[k] = "other"]_vars
  BY AbandonedStep DEF Cause
<1> QED  BY <1>1, InvariantHolds, PTL DEF AbandonedTwoWays, Spec

-----------------------------------------------------------------------------
(* ConnServer implements Ownership. *)

Owners == [k \in Conns |-> OwnerOf(k)]

SameDrivers == \A w \in Workers : \A k \in Conns : At(w, k, Driving)' <=> At(w, k, Driving)

\* Nobody starts or stops driving, and nothing is posted, delivered or deleted.
LEMMA OwnersKept ==
    ASSUME UNCHANGED <<mem, inflight>>, SameDrivers
    PROVE  Owners' = Owners
BY DEF Owners, OwnerOf, SameDrivers

LEMMA OwnerPasses ==
    ASSUME NEW k \in Conns, NEW from, NEW to,
           OwnerOf(k) = from, OwnerOf(k)' = to,
           \A j \in Conns : j # k => OwnerOf(j)' = OwnerOf(j)
    PROVE  Owners[k] = from /\ Owners' = [Owners EXCEPT ![k] = to]
BY DEF Owners

\* The connections that the worker w neither drives nor comes to drive.
LEMMA OtherOwners ==
    ASSUME NEW k \in Conns, NEW w \in Workers,
           \A j \in Conns : j # k => mem'[j] = mem[j] /\ inflight'[j] = inflight[j],
           \A v \in Workers : v # w => pc'[v] = pc[v] /\ c'[v] = c[v],
           \A j \in Conns : j # k => ~At(w, j, Driving) /\ ~At(w, j, Driving)'
    PROVE  \A j \in Conns : j # k => OwnerOf(j)' = OwnerOf(j)
<1>1. \A j \in Conns : j # k => \A v \in Workers : At(v, j, Driving)' <=> At(v, j, Driving)
  BY DEF At
<1> QED  BY <1>1 DEF OwnerOf

LEMMA DriverOwns ==
    ASSUME IInv, NEW w \in Workers, NEW k \in Conns, c[w] = k, pc[w] \in Driving
    PROVE  /\ OwnerOf(k) = "thread" /\ inflight[k] = {} /\ mem[k] = "live"
           /\ \A v \in Workers : v # w => ~At(v, k, Driving)
<1>1. At(w, k, Driving) /\ At(w, k, PCs \ {"return"})
  BY DEF At, Driving, PCs
<1>2. mem[k] = "live" /\ inflight[k] = {} /\ \A v \in Workers : v # w => ~At(v, k, Driving)
  BY <1>1 DEF IInv, Control, OneDriver, NoUseAfterFree
<1> QED  BY <1>1, <1>2 DEF OwnerOf

\* A driver that returns with nothing posted has lost its connection.
LEMMA DriverLoses ==
    ASSUME IInv, NEW w \in Workers, NEW k \in Conns, c[w] = k, pc[w] \in Driving,
           pc'[w] = "return", \A v \in Workers : v # w => pc'[v] = pc[v],
           UNCHANGED <<mem, inflight, c>>
    PROVE  Ownership!Lose(k)
<1>1. /\ OwnerOf(k) = "thread" /\ inflight[k] = {} /\ mem[k] = "live"
      /\ \A v \in Workers : v # w => ~At(v, k, Driving)
  BY DriverOwns
<1>2. \A v \in Workers : ~At(v, k, Driving)'
  BY <1>1 DEF At, Driving
<1>3. OwnerOf(k)' = "lost"
  BY <1>1, <1>2 DEF OwnerOf
<1>4. \A j \in Conns : j # k => ~At(w, j, Driving) /\ ~At(w, j, Driving)'
  BY DEF At
<1>5. \A j \in Conns : j # k => OwnerOf(j)' = OwnerOf(j)
  BY <1>4, OtherOwners
<1> QED  BY <1>1, <1>3, <1>5, OwnerPasses DEF Ownership!Lose, Ownership!Pass, Owners

LEMMA OwnershipStep ==
    ASSUME IInv, [Next]_vars
    PROVE  Ownership!Next \/ Owners' = Owners
<1> USE DEF IInv
<1>1. ASSUME NEW w \in Workers, NEW k \in Conns, AcceptOk(w, k)
      PROVE  Ownership!Open(k)
  <2>1. /\ mem[k] = "none" /\ mem' = [mem EXCEPT ![k] = "live"] /\ UNCHANGED inflight
        /\ pc[w] = "idle" /\ pc'[w] = "track" /\ c'[w] = k
        /\ \A v \in Workers : v # w => pc'[v] = pc[v] /\ c'[v] = c[v]
    BY <1>1 DEF AcceptOk, Goto, TypeOK
  <2>2. mem'[k] = "live" /\ \A j \in Conns : j # k => mem'[j] = mem[j]
    BY <2>1 DEF TypeOK
  <2>3. inflight[k] = {} /\ At(w, k, Driving)'
    BY <2>1 DEF Control, NoOrphanOperation, At, Driving
  <2>4. OwnerOf(k) = "none" /\ OwnerOf(k)' = "thread"
    BY <2>1, <2>2, <2>3 DEF OwnerOf
  <2>5. \A j \in Conns : j # k => ~At(w, j, Driving) /\ ~At(w, j, Driving)'
    BY <2>1 DEF At, Driving
  <2>6. \A j \in Conns : j # k => OwnerOf(j)' = OwnerOf(j)
    BY <2>1, <2>2, <2>5, OtherOwners
  <2> QED  BY <2>4, <2>6, OwnerPasses DEF Ownership!Open, Ownership!Pass, Owners
<1>2. ASSUME NEW w \in Workers, NEW k \in Conns, Dequeue(w, k)
      PROVE  Ownership!Deliver(k)
  <2>1. PICK o \in inflight[k] : inflight' = [inflight EXCEPT ![k] = @ \ {o}]
    BY <1>2 DEF Dequeue
  <2>2. /\ pc[w] = "idle" /\ pc'[w] = "event" /\ c'[w] = k /\ mem' = mem
        /\ \A v \in Workers : v # w => pc'[v] = pc[v] /\ c'[v] = c[v]
    BY <1>2 DEF Dequeue, Goto, TypeOK, connVars
  <2>3. inflight'[k] = {} /\ \A j \in Conns : j # k => inflight'[j] = inflight[j]
    BY <2>1 DEF TypeOK, Control, OneDriver
  <2>4. mem[k] = "live" /\ At(w, k, Driving)'
    BY <2>1, <2>2 DEF Control, NoOrphanOperation, At, Driving
  <2>5. OwnerOf(k) = "system" /\ OwnerOf(k)' = "thread"
    BY <2>1, <2>2, <2>3, <2>4 DEF OwnerOf
  <2>6. \A j \in Conns : j # k => ~At(w, j, Driving) /\ ~At(w, j, Driving)'
    BY <2>2 DEF At, Driving
  <2>7. \A j \in Conns : j # k => OwnerOf(j)' = OwnerOf(j)
    BY <2>2, <2>3, <2>6, OtherOwners
  <2> QED  BY <2>5, <2>7, OwnerPasses DEF Ownership!Deliver, Ownership!Pass, Owners
<1>3. ASSUME NEW w \in Workers, NEW k \in Conns, c[w] = k, PostIssue(w)
      PROVE  Ownership!Submit(k)
  <2>1. /\ pc[w] = "issue" /\ pc'[w] = "unref" /\ UNCHANGED <<mem, c>>
        /\ \A v \in Workers : v # w => pc'[v] = pc[v]
        /\ inflight' = [inflight EXCEPT ![k] = @ \cup {Operation(op[w].type, "pending", 0)}]
    BY <1>3 DEF PostIssue, Goto, TypeOK, connVars
  <2>2. OwnerOf(k) = "thread" /\ mem[k] = "live"
    BY <2>1, <1>3, DriverOwns DEF Driving
  <2>3. inflight'[k] # {} /\ \A j \in Conns : j # k => inflight'[j] = inflight[j]
    BY <2>1 DEF TypeOK
  <2>4. OwnerOf(k)' = "system"
    BY <2>1, <2>2, <2>3 DEF OwnerOf
  <2>5. \A j \in Conns : j # k => ~At(w, j, Driving) /\ ~At(w, j, Driving)'
    BY <2>1, <1>3 DEF At
  <2>6. \A j \in Conns : j # k => OwnerOf(j)' = OwnerOf(j)
    BY <2>1, <2>3, <2>5, OtherOwners
  <2> QED  BY <2>2, <2>4, <2>6, OwnerPasses DEF Ownership!Submit, Ownership!Pass, Owners
<1>4. ASSUME NEW w \in Workers, NEW k \in Conns, c[w] = k, Delete(w)
      PROVE  Ownership!Delete(k)
  <2>1. /\ pc[w] = "delete" /\ pc'[w] = "return" /\ UNCHANGED <<inflight, c>>
        /\ \A v \in Workers : v # w => pc'[v] = pc[v]
        /\ mem' = [mem EXCEPT ![k] = "freed"]
    BY <1>4 DEF Delete, Goto, TypeOK
  <2>2. OwnerOf(k) = "thread"
    BY <2>1, <1>4, DriverOwns DEF Driving
  <2>3. mem'[k] = "freed" /\ \A j \in Conns : j # k => mem'[j] = mem[j]
    BY <2>1 DEF TypeOK
  <2>4. OwnerOf(k)' = "freed"
    BY <2>3 DEF OwnerOf
  <2>5. \A j \in Conns : j # k => ~At(w, j, Driving) /\ ~At(w, j, Driving)'
    BY <2>1, <1>4 DEF At
  <2>6. \A j \in Conns : j # k => OwnerOf(j)' = OwnerOf(j)
    BY <2>1, <2>3, <2>5, OtherOwners
  <2> QED  BY <2>2, <2>4, <2>6, OwnerPasses DEF Ownership!Delete, Ownership!Pass, Owners
<1>5. ASSUME NEW w \in Workers, NEW k \in Conns, c[w] = k, FreesockRefused(w)
      PROVE  Ownership!Lose(k)
  <2>1. /\ pc[w] = "freesock" /\ pc'[w] = "return" /\ UNCHANGED <<mem, inflight, c>>
        /\ \A v \in Workers : v # w => pc'[v] = pc[v]
    BY <1>5 DEF FreesockRefused, Goto, TypeOK, connVars
  <2> QED  BY <2>1, <1>5, DriverLoses DEF Driving
<1>6. ASSUME NEW w \in Workers, NEW k \in Conns, c[w] = k, HandleEvent(w), pc'[w] = "return"
      PROVE  Ownership!Lose(k)
  <2>1. /\ pc[w] = "event" /\ UNCHANGED <<mem, inflight, c>>
        /\ \A v \in Workers : v # w => pc'[v] = pc[v]
    BY <1>6, HandleEventMoves
  <2> QED  BY <2>1, <1>6, DriverLoses DEF Driving
<1>7. ASSUME NEW w \in Workers, HandleEvent(w), pc'[w] # "return"
      PROVE  Owners' = Owners
  <2>1. /\ pc[w] \in Driving /\ pc'[w] \in Driving /\ UNCHANGED <<mem, inflight, c>>
        /\ \A v \in Workers : v # w => pc'[v] = pc[v]
    BY <1>7, HandleEventMoves DEF Driving
  <2>2. SameDrivers
    BY <2>1 DEF SameDrivers, At
  <2> QED  BY <2>1, <2>2, OwnersKept
<1>8. ASSUME NEW w \in Workers,
             AcceptFailed(w) \/ AddMe(w) \/ PostAccept(w)
      PROVE  Owners' = Owners
  <2>1. UNCHANGED <<mem, inflight, c>> /\ \A v \in Workers : v # w => pc'[v] = pc[v]
    <3>1. UNCHANGED <<mem, inflight, c>>
      BY <1>8 DEF AcceptFailed, AddMe, PostAccept, connVars
    <3> QED  BY <3>1, <1>8, OtherMoves DEF Accept
  <2>2. CASE c[w] \notin Conns
    <3>1. SameDrivers
      BY <2>1, <2>2 DEF SameDrivers, At
    <3> QED  BY <2>1, <3>1, OwnersKept
  <2>3. CASE c[w] \in Conns
    <3>1. c[w] # NoConn
      BY <2>3, ServerAssumption
    <3>2. pc[w] \in Driving /\ pc'[w] \in Driving
      <4>1. CASE AcceptFailed(w)
        BY <4>1, <3>1 DEF AcceptFailed, Control, WorkerShape
      <4>2. CASE AddMe(w)
        BY <4>2 DEF AddMe, Goto, TypeOK, Driving
      <4>3. CASE PostAccept(w)
        <5>1. pc[w] = "reaccept" /\ pc' = [pc EXCEPT ![w] = "post"]
          BY <4>3, <3>1 DEF PostAccept, Goto
        <5> QED  BY <5>1 DEF TypeOK, Driving
      <4> QED  BY <1>8, <4>1, <4>2, <4>3
    <3>3. SameDrivers
      BY <2>1, <3>2 DEF SameDrivers, At
    <3> QED  BY <2>1, <3>3, OwnersKept
  <2> QED  BY <2>2, <2>3
<1>9. ASSUME NEW w \in Workers,
             PostNull(w) \/ PostRef(w) \/ PostFail(w) \/ FreesockEnter(w) \/ RemoveMe(w) \/ Uncount(w)
      PROVE  Owners' = Owners
  <2>1. UNCHANGED <<mem, inflight, c>> /\ \A v \in Workers : v # w => pc'[v] = pc[v]
    BY <1>9 DEF PostNull, PostRef, PostFail, FreesockEnter, RemoveMe, Uncount, Goto, TypeOK,
                connVars
  <2>2. pc[w] \in Driving /\ pc'[w] \in Driving
    BY <1>9 DEF PostNull, PostRef, PostFail, FreesockEnter, RemoveMe, Uncount, Goto, TypeOK, Driving
  <2>3. SameDrivers
    BY <2>1, <2>2 DEF SameDrivers, At
  <2> QED  BY <2>1, <2>3, OwnersKept
<1>10. ASSUME NEW w \in Workers, PostUnref(w)
       PROVE  Owners' = Owners
  <2>1. UNCHANGED <<mem, inflight, c>> /\ \A v \in Workers : v # w => pc'[v] = pc[v]
    BY <1>10 DEF PostUnref, Goto, TypeOK
  <2>2. pc[w] \in Driving <=> pc'[w] \in Driving
    <3>1. CASE pc[w] = "unref"
      <4>1. pc' = [pc EXCEPT ![w] = "return"]
        BY <1>10, <3>1 DEF PostUnref, Goto
      <4> QED  BY <3>1, <4>1 DEF TypeOK, Driving
    <3>2. CASE pc[w] = "unreffail"
      <4>1. pc' = [pc EXCEPT ![w] = "freesock"]
        BY <1>10, <3>2 DEF PostUnref, Goto
      <4> QED  BY <3>2, <4>1 DEF TypeOK, Driving
    <3> QED  BY <1>10, <3>1, <3>2 DEF PostUnref
  <2>3. SameDrivers
    BY <2>1, <2>2 DEF SameDrivers, At
  <2> QED  BY <2>1, <2>3, OwnersKept
<1>11. ASSUME NEW w \in Workers, Return(w)
       PROVE  Owners' = Owners
  <2>1. /\ UNCHANGED <<mem, inflight>> /\ pc[w] = "return" /\ pc'[w] = "idle"
        /\ \A v \in Workers : v # w => pc'[v] = pc[v] /\ c'[v] = c[v]
    BY <1>11 DEF Return, Goto, TypeOK, connVars
  <2>2. SameDrivers
    BY <2>1 DEF SameDrivers, At, Driving
  <2> QED  BY <2>1, <2>2, OwnersKept
<1>12. ASSUME NEW k \in Conns, Complete(k)
       PROVE  Owners' = Owners
  <2>1. PICK o \in inflight[k] : \E r \in Results(k, o) :
                inflight' = [inflight EXCEPT ![k] = (@ \ {o}) \cup {r}]
    BY <1>12 DEF Complete
  <2>2. inflight[k] # {} /\ inflight'[k] # {} /\ \A j \in Conns : j # k => inflight'[j] = inflight[j]
    BY <2>1 DEF TypeOK
  <2>3. UNCHANGED <<mem, pc, c>>
    BY <1>12 DEF Complete, connVars, workerVars
  <2> QED  BY <2>2, <2>3 DEF Owners, OwnerOf, At
<1>13. CASE (\E k \in Conns : PeerFin(k)) \/ Monitor \/ UNCHANGED vars
  BY <1>13, BystandersFrame, OwnersKept DEF SameDrivers, At
<1>14. ASSUME NEW w \in Workers, PostIssue(w) \/ FreesockRefused(w) \/ Delete(w) \/ HandleEvent(w)
       PROVE  Ownership!Next \/ Owners' = Owners
  <2>1. pc[w] \notin {"idle", "reaccept"}
    BY <1>14, HandleEventMoves DEF PostIssue, FreesockRefused, Delete
  <2>2. PICK k \in Conns : c[w] = k
    BY <2>1 DEF Control, WorkerShape
  <2> QED  BY <1>3, <1>4, <1>5, <1>6, <1>7, <1>14, <2>2 DEF Ownership!Next
<1> QED
  BY <1>1, <1>2, <1>8, <1>9, <1>10, <1>11, <1>12, <1>13, <1>14
     DEF Next, Accept, Post, Freesock, Ownership!Next

\* The server implements Ownership, losing connections: a ConnCtx goes from
\* worker to system and back and is deleted once, by the worker that has it; one
\* that has been let go of is never picked up again.
THEOREM ServerImplementsOwnership == Spec => OwnershipKept
<1>1. Init => Ownership!Init
  <2>1. ASSUME Init PROVE \A k \in Conns : OwnerOf(k) = "none"
    BY <2>1 DEF Init, OwnerOf
  <2> QED  BY <2>1 DEF Ownership!Init
<1>2. IInv /\ [Next]_vars => [Ownership!Next]_Owners
  BY OwnershipStep
<1> QED  BY <1>1, <1>2, InvariantHolds, PTL DEF OwnershipKept, Ownership!Spec, Spec, Owners

=============================================================================
