---------------------------- MODULE ClientProofs ----------------------------
(***************************************************************************)
(* Proofs about Client, for any number of workers, callers and connections *)
(* and any buffer size.  The inductive invariant relates the program       *)
(* counters of the threads, the operations in flight and the memory of     *)
(* each connection (Control), the list and the callback that walks it      *)
(* (Listed), and c->pkt and the two counters (Counted).                    *)
(***************************************************************************)
EXTENDS Client, FiniteSetTheorems, TLAPS

\* A thread has a ConnCtx exactly while it works on one.
ThreadShape ==
    \A t \in Threads :
        /\ pc[t] \in {"off", "loop", "wait", "exit", "idle"} => c[t] = NoConn
        /\ pc[t] \notin {"off", "loop", "wait", "exit", "idle"} => c[t] \in Conns

Control == ThreadShape /\ OneDriver /\ NeverAbandoned /\ LiveUntilTail

Listed == ListExact /\ (mtx = "free" => scan = {})

\* Until its connect has succeeded a connection has no pkt.
PktAfterConnect ==
    /\ \A k \in Conns :
          /\ mem[k] = "none" => ~pkt[k]
          /\ \A o \in inflight[k] : o.type = "IO_CONNECT" => ~pkt[k]
    /\ \A t \in Threads :
          /\ pc[t] \in {"link", "post", "event"} /\ op[t].type = "IO_CONNECT" => ~pkt[c[t]]
          /\ pc[t] = "count" => pkt[c[t]]

Counted == PktAfterConnect /\ CountersExact

IInv == TypeOK /\ Control /\ Listed /\ Counted

-----------------------------------------------------------------------------
(* Control: who drives a connection. *)

\* A step that touches neither threads nor operations nor memory.
LEMMA ControlStutter ==
    ASSUME Control, UNCHANGED <<mem, inflight, pc, c>>
    PROVE  Control'
BY DEF Control, ThreadShape, OneDriver, NeverAbandoned, LiveUntilTail, At

\* A thread goes on driving the connection it drives.
LEMMA ControlDrive ==
    ASSUME TypeOK, Control, NEW t \in Threads, NEW to \in Driving,
           pc[t] \in Driving, pc' = [pc EXCEPT ![t] = to], UNCHANGED <<mem, inflight, c>>
    PROVE  Control'
<1>1. pc'[t] = to /\ \A s \in Threads : s # t => pc'[s] = pc[s]
  BY DEF TypeOK
<1>2. \A s \in Threads : \A k \in Conns : At(s, k, Driving)' <=> At(s, k, Driving)
  BY <1>1 DEF At
<1>3. ThreadShape'
  BY <1>1 DEF Control, ThreadShape, Driving
<1>4. OneDriver' /\ NeverAbandoned' /\ LiveUntilTail'
  BY <1>2 DEF Control, OneDriver, NeverAbandoned, LiveUntilTail
<1> QED  BY <1>3, <1>4 DEF Control

\* A thread that drives nothing goes on driving nothing.
LEMMA ControlAside ==
    ASSUME TypeOK, Control, NEW t \in Threads, NEW to \in PCs \ Driving,
           pc[t] \notin Driving, pc' = [pc EXCEPT ![t] = to],
           \A s \in Threads : s # t => c'[s] = c[s],
           to \in {"off", "loop", "wait", "exit", "idle"} => c'[t] = NoConn,
           to \notin {"off", "loop", "wait", "exit", "idle"} => c'[t] \in Conns,
           UNCHANGED <<mem, inflight>>
    PROVE  Control'
<1>1. pc'[t] = to /\ \A s \in Threads : s # t => pc'[s] = pc[s]
  BY DEF TypeOK
<1>2. \A s \in Threads : \A k \in Conns : At(s, k, Driving)' <=> At(s, k, Driving)
  BY <1>1 DEF At
<1>3. ThreadShape'
  BY <1>1 DEF Control, ThreadShape
<1>4. OneDriver' /\ NeverAbandoned' /\ LiveUntilTail'
  BY <1>2 DEF Control, OneDriver, NeverAbandoned, LiveUntilTail
<1> QED  BY <1>3, <1>4 DEF Control

LEMMA ControlComplete ==
    ASSUME TypeOK, Control, NEW k \in Conns, Complete(k)
    PROVE  Control'
<1>1. PICK o \in inflight[k] : \E r \in Results(k, o) :
              inflight' = [inflight EXCEPT ![k] = (@ \ {o}) \cup {r}]
  BY DEF Complete
<1>2. PICK r \in Results(k, o) : inflight' = [inflight EXCEPT ![k] = (@ \ {o}) \cup {r}]
  BY <1>1
<1>3. UNCHANGED <<mem, pc, c>>
  BY DEF Complete, connVars, threadVars
<1>4. inflight[k] = {o}
  BY DEF Control, OneDriver
<1>5. inflight'[k] = {r} /\ \A j \in Conns : j # k => inflight'[j] = inflight[j]
  BY <1>2, <1>4 DEF TypeOK
<1>6. mem[k] = "live" /\ \A t \in Threads : ~At(t, k, Driving)
  BY <1>4 DEF Control, OneDriver, LiveUntilTail
<1>7. ThreadShape'
  BY <1>3 DEF Control, ThreadShape
<1>8. OneDriver'
  BY <1>3, <1>5, <1>6 DEF Control, OneDriver, At
<1>9. NeverAbandoned'
  BY <1>3, <1>5 DEF Control, NeverAbandoned, At
<1>10. LiveUntilTail'
  BY <1>3, <1>5, <1>6 DEF Control, LiveUntilTail, At
<1> QED  BY <1>7, <1>8, <1>9, <1>10 DEF Control

LEMMA ControlDequeue ==
    ASSUME TypeOK, Control, NEW w \in Workers, NEW k \in Conns, Dequeue(w, k)
    PROVE  Control'
<1>0. w \in Threads
  BY DEF Threads
<1>1. PICK o \in inflight[k] : inflight' = [inflight EXCEPT ![k] = @ \ {o}]
  BY DEF Dequeue
<1>2. /\ pc[w] = "wait" /\ mem' = mem
      /\ c' = [c EXCEPT ![w] = k] /\ pc' = [pc EXCEPT ![w] = "event"]
  BY DEF Dequeue, Goto, connVars
<1>3. /\ c'[w] = k /\ pc'[w] = "event"
      /\ \A s \in Threads : s # w => c'[s] = c[s] /\ pc'[s] = pc[s]
  BY <1>0, <1>2 DEF TypeOK
<1>4. inflight'[k] = {} /\ \A j \in Conns : j # k => inflight'[j] = inflight[j]
  BY <1>1 DEF TypeOK, Control, OneDriver
<1>5. mem[k] = "live" /\ \A s \in Threads : ~At(s, k, Driving)
  BY <1>1 DEF Control, OneDriver, LiveUntilTail
<1>6. At(w, k, Driving)' /\ \A j \in Conns : ~At(w, j, Driving)
  BY <1>2, <1>3 DEF At, Driving
<1>7. \A s \in Threads : s # w => \A j \in Conns : At(s, j, Driving)' <=> At(s, j, Driving)
  BY <1>3 DEF At
<1>8. \A j \in Conns : j # k => ~At(w, j, Driving)'
  BY <1>3 DEF At
<1>9. ThreadShape'
  BY <1>3 DEF Control, ThreadShape
<1>10. OneDriver'
  BY <1>4, <1>5, <1>7, <1>8 DEF Control, OneDriver
<1>11. NeverAbandoned'
  <2> SUFFICES ASSUME NEW j \in Conns, mem[j] = "live"
               PROVE  inflight'[j] # {} \/ \E s \in Threads : At(s, j, Driving)'
    BY <1>2 DEF NeverAbandoned
  <2>1. CASE j = k
    BY <2>1, <1>0, <1>6
  <2>2. CASE j # k
    BY <2>2, <1>4, <1>6, <1>7 DEF Control, NeverAbandoned
  <2> QED  BY <2>1, <2>2
<1>12. LiveUntilTail'
  BY <1>2, <1>4, <1>5, <1>7, <1>8 DEF Control, LiveUntilTail
<1> QED  BY <1>9, <1>10, <1>11, <1>12 DEF Control

LEMMA ControlPostConnect ==
    ASSUME TypeOK, Control, NEW t \in Callers, NEW k \in Conns, PostConnect(t, k)
    PROVE  Control'
<1>0. t \in Threads
  BY DEF Threads
<1>1. /\ pc[t] = "idle" /\ mem[k] = "none" /\ inflight' = inflight
      /\ mem' = [mem EXCEPT ![k] = "live"]
      /\ c' = [c EXCEPT ![t] = k] /\ pc' = [pc EXCEPT ![t] = "link"]
  BY DEF PostConnect, Goto
<1>2. /\ c'[t] = k /\ pc'[t] = "link"
      /\ \A s \in Threads : s # t => c'[s] = c[s] /\ pc'[s] = pc[s]
  BY <1>0, <1>1 DEF TypeOK
<1>3. mem'[k] = "live" /\ \A j \in Conns : j # k => mem'[j] = mem[j]
  BY <1>1 DEF TypeOK
<1>4. inflight[k] = {} /\ \A s \in Threads : ~At(s, k, Driving)
  BY <1>1 DEF Control, LiveUntilTail
<1>5. At(t, k, Driving)' /\ \A j \in Conns : ~At(t, j, Driving)
  BY <1>1, <1>2 DEF At, Driving
<1>6. \A s \in Threads : s # t => \A j \in Conns : At(s, j, Driving)' <=> At(s, j, Driving)
  BY <1>2 DEF At
<1>7. \A j \in Conns : j # k => ~At(t, j, Driving)'
  BY <1>2 DEF At
<1>8. ThreadShape'
  BY <1>2 DEF Control, ThreadShape
<1>9. OneDriver'
  BY <1>1, <1>4, <1>6, <1>7 DEF Control, OneDriver
<1>10. NeverAbandoned'
  <2> SUFFICES ASSUME NEW j \in Conns, mem'[j] = "live"
               PROVE  inflight[j] # {} \/ \E s \in Threads : At(s, j, Driving)'
    BY <1>1 DEF NeverAbandoned
  <2>1. CASE j = k
    BY <2>1, <1>0, <1>5
  <2>2. CASE j # k
    BY <2>2, <1>3, <1>5, <1>6 DEF Control, NeverAbandoned
  <2> QED  BY <2>1, <2>2
<1>11. LiveUntilTail'
  BY <1>1, <1>3, <1>4, <1>6, <1>7 DEF Control, LiveUntilTail
<1> QED  BY <1>8, <1>9, <1>10, <1>11 DEF Control

LEMMA ControlPostIssue ==
    ASSUME TypeOK, Control, NEW t \in Threads, PostIssue(t)
    PROVE  Control'
<1>1. /\ pc[t] = "post" /\ UNCHANGED <<mem, c>>
      /\ pc' = [pc EXCEPT ![t] = "tail"]
      /\ inflight' = [inflight EXCEPT ![c[t]] = @ \cup {Operation(op[t].type, "pending", 0)}]
  BY DEF PostIssue, Goto, connVars
<1>2. pc'[t] = "tail" /\ \A s \in Threads : s # t => pc'[s] = pc[s]
  BY <1>1 DEF TypeOK
<1>3. c[t] \in Conns
  BY <1>1 DEF Control, ThreadShape
<1>4. At(t, c[t], Driving)
  BY <1>1 DEF At, Driving
<1>5. /\ inflight[c[t]] = {} /\ mem[c[t]] = "live"
      /\ \A s \in Threads : s # t => ~At(s, c[t], Driving)
  BY <1>3, <1>4 DEF Control, OneDriver, LiveUntilTail
<1>6. /\ inflight'[c[t]] = {Operation(op[t].type, "pending", 0)}
      /\ \A j \in Conns : j # c[t] => inflight'[j] = inflight[j]
  BY <1>1, <1>3, <1>5 DEF TypeOK
<1>7. \A s \in Threads : s # t => \A j \in Conns : At(s, j, Driving)' <=> At(s, j, Driving)
  BY <1>1, <1>2 DEF At
<1>8. \A j \in Conns : ~At(t, j, Driving)'
  BY <1>2 DEF At, Driving
<1>9. ThreadShape'
  BY <1>1, <1>2, <1>3 DEF Control, ThreadShape
<1>10. OneDriver'
  <2> SUFFICES ASSUME NEW k \in Conns
               PROVE  /\ \A u, v \in Threads : At(u, k, Driving)' /\ At(v, k, Driving)' => u = v
                      /\ \A v \in Threads : At(v, k, Driving)' => inflight'[k] = {}
                      /\ \A a, b \in inflight'[k] : a = b
    BY DEF OneDriver
  <2>1. CASE k = c[t]
    BY <2>1, <1>5, <1>6, <1>7, <1>8
  <2>2. CASE k # c[t]
    <3>1. inflight'[k] = inflight[k]
      BY <2>2, <1>6
    <3>2. \A v \in Threads : At(v, k, Driving)' => At(v, k, Driving)
      BY <1>7, <1>8
    <3> QED  BY <3>1, <3>2 DEF Control, OneDriver
  <2> QED  BY <2>1, <2>2
<1>11. NeverAbandoned'
  <2> SUFFICES ASSUME NEW j \in Conns, mem[j] = "live"
               PROVE  inflight'[j] # {} \/ \E s \in Threads : At(s, j, Driving)'
    BY <1>1 DEF NeverAbandoned
  <2>1. CASE j = c[t]
    BY <2>1, <1>6
  <2>2. CASE j # c[t]
    <3>1. ~At(t, j, Driving)
      BY <2>2 DEF At
    <3> QED  BY <3>1, <2>2, <1>6, <1>7 DEF Control, NeverAbandoned
  <2> QED  BY <2>1, <2>2
<1>12. LiveUntilTail'
  <2> SUFFICES ASSUME NEW j \in Conns
               PROVE  /\ \A s \in Threads : At(s, j, Driving)' => mem[j] = "live"
                      /\ inflight'[j] # {} => mem[j] = "live"
    BY <1>1 DEF LiveUntilTail
  <2>1. \A s \in Threads : At(s, j, Driving)' => At(s, j, Driving)
    BY <1>7, <1>8
  <2> QED  BY <2>1, <1>5, <1>6 DEF Control, LiveUntilTail
<1> QED  BY <1>9, <1>10, <1>11, <1>12 DEF Control

LEMMA ControlDelete ==
    ASSUME TypeOK, Control, NEW t \in Threads, Delete(t)
    PROVE  Control'
<1>1. /\ pc[t] = "delete" /\ UNCHANGED <<inflight, c>>
      /\ pc' = [pc EXCEPT ![t] = "return"]
      /\ mem' = [mem EXCEPT ![c[t]] = "freed"]
  BY DEF Delete, Goto
<1>2. pc'[t] = "return" /\ \A s \in Threads : s # t => pc'[s] = pc[s]
  BY <1>1 DEF TypeOK
<1>3. c[t] \in Conns
  BY <1>1 DEF Control, ThreadShape
<1>4. At(t, c[t], Driving)
  BY <1>1 DEF At, Driving
<1>5. inflight[c[t]] = {} /\ \A s \in Threads : s # t => ~At(s, c[t], Driving)
  BY <1>3, <1>4 DEF Control, OneDriver
<1>6. mem'[c[t]] = "freed" /\ \A j \in Conns : j # c[t] => mem'[j] = mem[j]
  BY <1>1, <1>3 DEF TypeOK
<1>7. \A s \in Threads : s # t => \A j \in Conns : At(s, j, Driving)' <=> At(s, j, Driving)
  BY <1>1, <1>2 DEF At
<1>8. \A j \in Conns : ~At(t, j, Driving)'
  BY <1>2 DEF At, Driving
<1>9. ThreadShape'
  BY <1>1, <1>2, <1>3 DEF Control, ThreadShape
<1>10. OneDriver'
  BY <1>1, <1>7, <1>8 DEF Control, OneDriver
<1>11. NeverAbandoned'
  <2> SUFFICES ASSUME NEW j \in Conns, mem'[j] = "live"
               PROVE  inflight[j] # {} \/ \E s \in Threads : At(s, j, Driving)'
    BY <1>1 DEF NeverAbandoned
  <2>1. j # c[t] /\ ~At(t, j, Driving)
    BY <1>6 DEF At
  <2> QED  BY <2>1, <1>6, <1>7 DEF Control, NeverAbandoned
<1>12. LiveUntilTail'
  <2> SUFFICES ASSUME NEW j \in Conns
               PROVE  /\ \A s \in Threads : At(s, j, Driving)' => mem'[j] = "live"
                      /\ inflight[j] # {} => mem'[j] = "live"
    BY <1>1 DEF LiveUntilTail
  <2>1. CASE j = c[t]
    BY <2>1, <1>5, <1>7, <1>8
  <2>2. CASE j # c[t]
    BY <2>2, <1>6, <1>7, <1>8 DEF Control, LiveUntilTail
  <2> QED  BY <2>1, <2>2
<1> QED  BY <1>9, <1>10, <1>11, <1>12 DEF Control

\* Control holds after every step.
LEMMA ControlStep ==
    ASSUME IInv, [Next]_vars
    PROVE  Control'
<1> USE DEF IInv
<1>1. CASE Serve
  <2>1. ASSUME NEW w \in Workers, CreateWorker(w)
        PROVE  Control'
    <3>1. /\ w \in Threads /\ pc[w] = "off" /\ pc' = [pc EXCEPT ![w] = "loop"]
          /\ UNCHANGED <<mem, inflight, c>>
      BY <2>1 DEF CreateWorker, Goto, Threads, connVars
    <3>2. c[w] = NoConn
      BY <3>1 DEF Control, ThreadShape
    <3>3. "loop" \in PCs \ Driving /\ pc[w] \notin Driving
      BY <3>1 DEF PCs, WorkerPCs, Driving
    <3> QED  BY <3>1, <3>2, <3>3, ControlAside
  <2>2. CASE WorkerNotCreated \/ CreateTimer
    BY <2>2, ControlStutter DEF WorkerNotCreated, CreateTimer, connVars, threadVars
  <2> QED  BY <1>1, <2>1, <2>2 DEF Serve
<1>2. ASSUME NEW t \in Callers, Link(t)
      PROVE  Control'
  <2>1. /\ t \in Threads /\ pc[t] = "link" /\ pc' = [pc EXCEPT ![t] = "post"]
        /\ UNCHANGED <<mem, inflight, c>>
    BY <1>2 DEF Link, Goto, Threads, connVars
  <2>2. "post" \in Driving /\ pc[t] \in Driving
    BY <2>1 DEF Driving
  <2> QED  BY <2>1, <2>2, ControlDrive
<1>3. ASSUME NEW t \in Threads, PostFail(t) \/ Uncount(t) \/ Unlink(t)
      PROVE  Control'
  <2>1. PICK to \in {"freesock", "unlink", "delete"} : pc' = [pc EXCEPT ![t] = to]
    BY <1>3 DEF PostFail, Uncount, Unlink, Goto
  <2>2. pc[t] \in Driving /\ to \in Driving /\ UNCHANGED <<mem, inflight, c>>
    BY <1>3 DEF PostFail, Uncount, Unlink, Driving, connVars
  <2> QED  BY <2>1, <2>2, ControlDrive
<1>4. ASSUME NEW t \in Threads, Tail(t) \/ Return(t)
      PROVE  Control'
  <2>1. PICK to \in {"return", "loop", "idle"} : pc' = [pc EXCEPT ![t] = to]
    BY <1>4 DEF Tail, Return, Goto
  <2>2. /\ pc[t] \notin Driving /\ to \in PCs \ Driving /\ UNCHANGED <<mem, inflight>>
        /\ \A s \in Threads : s # t => c'[s] = c[s]
    BY <1>4 DEF Tail, Return, Driving, PCs, SharedPCs, WorkerPCs, CallerPCs, TypeOK, connVars
  <2>3. CASE Tail(t)
    <3>1. c' = c /\ pc[t] = "tail" /\ pc' = [pc EXCEPT ![t] = "return"]
      BY <2>3 DEF Tail, Goto
    <3>2. c[t] \in Conns
      BY <3>1 DEF Control, ThreadShape
    <3>3. to = "return"
      BY <3>1, <2>1 DEF TypeOK
    <3> QED  BY <2>1, <2>2, <3>1, <3>2, <3>3, ControlAside
  <2>4. CASE Return(t)
    <3>1. c'[t] = NoConn
      BY <2>4 DEF Return, TypeOK
    <3>2. \E l \in {"loop", "idle"} : pc' = [pc EXCEPT ![t] = l]
      BY <2>4 DEF Return, Goto
    <3>3. to \in {"loop", "idle"}
      BY <2>1, <3>2 DEF TypeOK
    <3> QED  BY <2>1, <2>2, <3>1, <3>3, ControlAside
  <2> QED  BY <1>4, <2>3, <2>4
<1>5. ASSUME NEW w \in Workers, WorkerLoop(w)
      PROVE  Control'
  <2>1. /\ w \in Threads /\ pc[w] = "loop" /\ UNCHANGED <<mem, inflight, c>>
        /\ \E to \in {"wait", "exit"} : pc' = [pc EXCEPT ![w] = to]
    BY <1>5 DEF WorkerLoop, Goto, Threads, connVars
  <2>2. c[w] = NoConn
    BY <2>1 DEF Control, ThreadShape
  <2>3. PICK to \in {"wait", "exit"} : pc' = [pc EXCEPT ![w] = to]
    BY <2>1
  <2>4. to \in PCs \ Driving /\ pc[w] \notin Driving
    BY <2>1 DEF PCs, WorkerPCs, Driving
  <2> QED  BY <2>1, <2>2, <2>3, <2>4, ControlAside
<1>6. ASSUME NEW w \in Workers, HandleEvent(w)
      PROVE  Control'
  <2>1. PICK to \in {"freesock", "count", "post"} : pc' = [pc EXCEPT ![w] = to]
    BY <1>6 DEF HandleEvent, EventFailed, EventConnected, Connected, EventPart, EventSent,
                EventReceived, Goto
  <2>2. w \in Threads /\ pc[w] \in Driving /\ to \in Driving
    BY <1>6 DEF HandleEvent, EventFailed, EventConnected, Connected, EventPart, EventSent,
                EventReceived, Driving, Threads
  <2>3. UNCHANGED <<mem, inflight, c>>
    BY <1>6 DEF HandleEvent, EventFailed, EventConnected, Connected, EventPart, EventSent,
                EventReceived, connVars
  <2> QED  BY <2>1, <2>2, <2>3, ControlDrive
<1>7. CASE (\E k \in Conns : PeerFin(k)) \/ Timer \/ UNCHANGED vars
  BY <1>7, ControlStutter DEF PeerFin, Timer, TickLock, TickVisit, TickUnlock, vars, connVars,
                              threadVars
<1> QED
  BY <1>1, <1>2, <1>3, <1>4, <1>5, <1>6, <1>7, ControlComplete, ControlDequeue, ControlPostConnect,
     ControlPostIssue, ControlDelete
     DEF Next, Post, Freesock

-----------------------------------------------------------------------------
(* What the steps that neither link, unlink nor count leave alone. *)

\* No thread enters or leaves the places L.
SamePlaces(L) == \A t \in Threads : \A k \in Conns : At(t, k, L)' <=> At(t, k, L)

LEMMA OneThreadMoves ==
    ASSUME NEW t \in Threads, NEW L,
           \A s \in Threads : s # t => pc'[s] = pc[s] /\ c'[s] = c[s],
           pc[t] \notin L, pc'[t] \notin L
    PROVE  SamePlaces(L)
BY DEF SamePlaces, At

\* Steps that change neither the list nor the counters nor the memory, and
\* move one thread between places outside link, delete, count and unlink.
Plain ==
    \/ Serve
    \/ \E t \in Threads : Post(t) \/ Return(t)
    \/ \E w \in Workers :
          \/ WorkerLoop(w) \/ EventFailed(w) \/ EventPart(w) \/ EventSent(w) \/ EventReceived(w)
          \/ \E k \in Conns : Dequeue(w, k)
    \/ \E k \in Conns : PeerFin(k) \/ Complete(k)

LEMMA PlainFrame ==
    ASSUME TypeOK, Plain
    PROVE  /\ UNCHANGED <<mem, pkt, ctlist, timerVars, countVars>>
           /\ SamePlaces({"link", "delete"})
           /\ SamePlaces({"count", "unlink", "delete"})
<1>1. CASE WorkerNotCreated \/ CreateTimer \/ \E k \in Conns : PeerFin(k) \/ Complete(k)
  BY <1>1 DEF WorkerNotCreated, CreateTimer, PeerFin, Complete, SamePlaces, At, connVars, threadVars
<1>2. ASSUME NEW w \in Workers, CreateWorker(w) \/ WorkerLoop(w)
      PROVE  /\ UNCHANGED <<mem, pkt, ctlist, timerVars, countVars>>
             /\ SamePlaces({"link", "delete"})
             /\ SamePlaces({"count", "unlink", "delete"})
  <2>1. /\ UNCHANGED <<mem, pkt, ctlist, timerVars, countVars, c>> /\ w \in Threads
        /\ pc[w] \in {"off", "loop"} /\ pc'[w] \in {"loop", "wait", "exit"}
        /\ \A s \in Threads : s # w => pc'[s] = pc[s]
    BY <1>2 DEF CreateWorker, WorkerLoop, Goto, TypeOK, Threads, connVars
  <2> QED  BY <2>1, OneThreadMoves
<1>3. ASSUME NEW t \in Threads, Post(t) \/ Return(t)
      PROVE  /\ UNCHANGED <<mem, pkt, ctlist, timerVars, countVars>>
             /\ SamePlaces({"link", "delete"})
             /\ SamePlaces({"count", "unlink", "delete"})
  <2>1. /\ UNCHANGED <<mem, pkt, ctlist, timerVars, countVars>>
        /\ pc[t] \in {"post", "tail", "return"}
        /\ pc'[t] \in {"tail", "freesock", "return", "loop", "idle"}
        /\ \A s \in Threads : s # t => pc'[s] = pc[s] /\ c'[s] = c[s]
    BY <1>3 DEF Post, PostIssue, PostFail, Tail, Return, Goto, TypeOK, connVars
  <2> QED  BY <2>1, OneThreadMoves
<1>4. ASSUME NEW w \in Workers,
             EventFailed(w) \/ EventPart(w) \/ EventSent(w) \/ EventReceived(w)
      PROVE  /\ UNCHANGED <<mem, pkt, ctlist, timerVars, countVars>>
             /\ SamePlaces({"link", "delete"})
             /\ SamePlaces({"count", "unlink", "delete"})
  <2>1. /\ UNCHANGED <<mem, pkt, ctlist, timerVars, countVars, c>> /\ w \in Threads
        /\ pc[w] = "event" /\ pc'[w] \in {"freesock", "post"}
        /\ \A s \in Threads : s # w => pc'[s] = pc[s]
    BY <1>4 DEF EventFailed, EventPart, EventSent, EventReceived, Goto, TypeOK, Threads, connVars
  <2> QED  BY <2>1, OneThreadMoves
<1>5. ASSUME NEW w \in Workers, NEW k \in Conns, Dequeue(w, k)
      PROVE  /\ UNCHANGED <<mem, pkt, ctlist, timerVars, countVars>>
             /\ SamePlaces({"link", "delete"})
             /\ SamePlaces({"count", "unlink", "delete"})
  <2>1. /\ UNCHANGED <<mem, pkt, ctlist, timerVars, countVars>> /\ w \in Threads
        /\ pc[w] = "wait" /\ pc'[w] = "event"
        /\ \A s \in Threads : s # w => pc'[s] = pc[s] /\ c'[s] = c[s]
    BY <1>5 DEF Dequeue, Goto, TypeOK, Threads, connVars
  <2> QED  BY <2>1, OneThreadMoves
<1> QED  BY <1>1, <1>2, <1>3, <1>4, <1>5 DEF Plain, Serve

-----------------------------------------------------------------------------
(* Listed: the list and the callback that walks it. *)

LEMMA ListFrame ==
    ASSUME Listed, UNCHANGED <<mem, ctlist, timerVars>>, SamePlaces({"link", "delete"})
    PROVE  Listed'
BY DEF Listed, ListExact, SamePlaces, timerVars

LEMMA ListStep ==
    ASSUME IInv, [Next]_vars
    PROVE  Listed'
<1> USE DEF IInv
<1>1. CASE Plain
  BY <1>1, PlainFrame, ListFrame
<1>2. ASSUME NEW t \in Callers, NEW k \in Conns, PostConnect(t, k)
      PROVE  Listed'
  <2>1. /\ t \in Threads /\ mem[k] = "none" /\ UNCHANGED <<ctlist, timerVars>>
        /\ mem'[k] = "live" /\ \A j \in Conns : j # k => mem'[j] = mem[j]
        /\ pc[t] = "idle" /\ pc'[t] = "link" /\ c'[t] = k
        /\ \A s \in Threads : s # t => pc'[s] = pc[s] /\ c'[s] = c[s]
    BY <1>2 DEF PostConnect, Goto, TypeOK, Threads
  <2>2. \A j \in Conns : j # k =>
           \A s \in Threads : At(s, j, {"link", "delete"})' <=> At(s, j, {"link", "delete"})
    BY <2>1 DEF At
  <2>3. At(t, k, {"link", "delete"})'
    BY <2>1 DEF At
  <2> QED  BY <2>1, <2>2, <2>3 DEF Listed, ListExact, timerVars
<1>3. ASSUME NEW t \in Callers, Link(t)
      PROVE  Listed'
  <2>1. /\ t \in Threads /\ pc[t] = "link" /\ pc'[t] = "post" /\ mtx = "free"
        /\ ctlist' = ctlist \cup {c[t]} /\ UNCHANGED <<mem, timerVars, c>>
        /\ \A s \in Threads : s # t => pc'[s] = pc[s]
    BY <1>3 DEF Link, Goto, TypeOK, Threads, connVars
  <2>2. c[t] \in Conns /\ At(t, c[t], Driving)
    BY <2>1 DEF Control, ThreadShape, At, Driving
  <2>3. /\ mem[c[t]] = "live"
        /\ \A s \in Threads : s # t => ~At(s, c[t], {"link", "delete"})
    <3>1. \A s \in Threads : s # t => ~At(s, c[t], Driving)
      BY <2>1, <2>2 DEF Control, OneDriver
    <3>2. mem[c[t]] = "live"
      BY <2>1, <2>2 DEF Control, LiveUntilTail
    <3> QED  BY <3>1, <3>2 DEF At, Driving
  <2>4. \A s \in Threads : ~At(s, c[t], {"link", "delete"})'
    BY <2>1, <2>3 DEF At
  <2>5. \A j \in Conns : j # c[t] =>
           \A s \in Threads : At(s, j, {"link", "delete"})' <=> At(s, j, {"link", "delete"})
    BY <2>1 DEF At
  <2> QED  BY <2>1, <2>2, <2>3, <2>4, <2>5 DEF Listed, ListExact, timerVars
<1>4. ASSUME NEW t \in Threads, Unlink(t)
      PROVE  Listed'
  <2>1. /\ pc[t] = "unlink" /\ pc'[t] = "delete" /\ mtx = "free"
        /\ ctlist' = ctlist \ {c[t]} /\ UNCHANGED <<mem, timerVars, c>>
        /\ \A s \in Threads : s # t => pc'[s] = pc[s]
    BY <1>4 DEF Unlink, Goto, TypeOK, connVars
  <2>2. At(t, c[t], {"link", "delete"})'
    BY <2>1 DEF At
  <2>3. \A j \in Conns : j # c[t] =>
           \A s \in Threads : At(s, j, {"link", "delete"})' <=> At(s, j, {"link", "delete"})
    BY <2>1 DEF At
  <2> QED  BY <2>1, <2>2, <2>3 DEF Listed, ListExact, timerVars
<1>5. ASSUME NEW t \in Threads, Delete(t)
      PROVE  Listed'
  <2>1. /\ pc[t] = "delete" /\ pc'[t] = "return" /\ UNCHANGED <<ctlist, timerVars, c>>
        /\ mem' = [mem EXCEPT ![c[t]] = "freed"]
        /\ \A s \in Threads : s # t => pc'[s] = pc[s]
    BY <1>5 DEF Delete, Goto, TypeOK
  <2>2. c[t] \in Conns /\ At(t, c[t], {"link", "delete"})
    BY <2>1 DEF Control, ThreadShape, At
  <2>3. mem'[c[t]] = "freed" /\ \A j \in Conns : j # c[t] => mem'[j] = mem[j]
    BY <2>1, <2>2 DEF TypeOK
  <2>4. \A j \in Conns : j # c[t] =>
           \A s \in Threads : At(s, j, {"link", "delete"})' <=> At(s, j, {"link", "delete"})
    BY <2>1 DEF At
  <2> QED  BY <2>1, <2>2, <2>3, <2>4 DEF Listed, ListExact, timerVars
<1>6. ASSUME NEW t \in Threads, EventConnected(t) \/ Connected(t) \/ Uncount(t)
      PROVE  Listed'
  <2>1. /\ UNCHANGED <<mem, ctlist, timerVars, c>>
        /\ pc[t] \in {"event", "count", "freesock"} /\ pc'[t] \in {"count", "post", "unlink"}
        /\ \A s \in Threads : s # t => pc'[s] = pc[s]
    BY <1>6 DEF EventConnected, Connected, Uncount, Goto, TypeOK, connVars
  <2> QED  BY <2>1, OneThreadMoves, ListFrame
<1>7. CASE Timer
  <2>1. UNCHANGED <<mem, ctlist, pc, c>>
    BY <1>7 DEF Timer, TickLock, TickVisit, TickUnlock, connVars, threadVars
  <2>2. scan' \subseteq ctlist /\ (mtx' = "free" => scan' = {})
    BY <1>7 DEF Timer, TickLock, TickVisit, TickUnlock, Listed, ListExact
  <2> QED  BY <2>1, <2>2 DEF Listed, ListExact, At
<1>8. CASE UNCHANGED vars
  BY <1>8 DEF Listed, ListExact, At, vars, connVars, timerVars, threadVars
<1> QED
  BY <1>1, <1>2, <1>3, <1>4, <1>5, <1>6, <1>7, <1>8 DEF Next, Plain, HandleEvent, Freesock, Threads

-----------------------------------------------------------------------------
(* Counted: c->pkt and the counters. *)

Present == {k \in Conns : pkt[k] /\ mem[k] = "live"
                            /\ \A t \in Threads : ~At(t, k, {"count", "unlink", "delete"})}
Succeeded == {k \in Conns : pkt[k]}

LEMMA CountersAre ==
    /\ CountersExact <=> /\ totalServers = Cardinality(Succeeded)
                         /\ concurrentServers = Cardinality(Present)
    /\ CountersExact' <=> /\ totalServers' = Cardinality(Succeeded')
                          /\ concurrentServers' = Cardinality(Present')
BY DEF CountersExact, Present, Succeeded

LEMMA CountedSetsFinite ==
    /\ IsFiniteSet(Present) /\ IsFiniteSet(Succeeded)
    /\ Cardinality(Present) \in Nat /\ Cardinality(Succeeded) \in Nat
<1>1. Present \subseteq Conns /\ Succeeded \subseteq Conns
  BY DEF Present, Succeeded
<1> QED  BY <1>1, FS_Subset, FS_CardinalityType, ClientAssumption

LEMMA CountersFrame ==
    ASSUME CountersExact, UNCHANGED <<mem, pkt, countVars>>,
           SamePlaces({"count", "unlink", "delete"})
    PROVE  CountersExact'
BY DEF CountersExact, SamePlaces, countVars

LEMMA CountersStep ==
    ASSUME IInv, [Next]_vars
    PROVE  CountersExact'
<1> USE DEF IInv
<1>0. CountersExact
  BY DEF Counted
<1>1. CASE Plain
  BY <1>0, <1>1, PlainFrame, CountersFrame
<1>2. ASSUME NEW t \in Callers, NEW k \in Conns, PostConnect(t, k)
      PROVE  CountersExact'
  <2>1. /\ t \in Threads /\ mem[k] = "none" /\ UNCHANGED <<pkt, countVars>>
        /\ \A j \in Conns : j # k => mem'[j] = mem[j]
        /\ pc[t] = "idle" /\ pc'[t] = "link"
        /\ \A s \in Threads : s # t => pc'[s] = pc[s] /\ c'[s] = c[s]
    BY <1>2 DEF PostConnect, Goto, TypeOK, Threads
  <2>2. SamePlaces({"count", "unlink", "delete"})
    BY <2>1, OneThreadMoves
  <2>3. ~pkt[k]
    BY <2>1 DEF Counted, PktAfterConnect
  <2>4. Present' = Present /\ Succeeded' = Succeeded
    BY <2>1, <2>2, <2>3 DEF Present, Succeeded, SamePlaces
  <2> QED  BY <2>1, <2>4, <1>0, CountersAre DEF countVars
<1>3. ASSUME NEW t \in Callers, Link(t)
      PROVE  CountersExact'
  <2>1. /\ t \in Threads /\ UNCHANGED <<mem, pkt, countVars, c>>
        /\ pc[t] = "link" /\ pc'[t] = "post"
        /\ \A s \in Threads : s # t => pc'[s] = pc[s]
    BY <1>3 DEF Link, Goto, TypeOK, Threads, connVars
  <2> QED  BY <2>1, <1>0, OneThreadMoves, CountersFrame
<1>4. ASSUME NEW t \in Threads, Uncount(t)
      PROVE  CountersExact'
  <2>1. /\ UNCHANGED <<mem, pkt, totalServers, c>>
        /\ pc[t] = "freesock" /\ pc'[t] = "unlink"
        /\ concurrentServers' = IF pkt[c[t]] THEN concurrentServers - 1 ELSE concurrentServers
        /\ \A s \in Threads : s # t => pc'[s] = pc[s]
    BY <1>4 DEF Uncount, Goto, TypeOK, connVars
  <2>2. c[t] \in Conns /\ At(t, c[t], Driving)
    BY <2>1 DEF Control, ThreadShape, At, Driving
  <2>3. mem[c[t]] = "live" /\ \A s \in Threads : ~At(s, c[t], {"count", "unlink", "delete"})
    <3>1. \A s \in Threads : s # t => ~At(s, c[t], Driving)
      BY <2>1, <2>2 DEF Control, OneDriver
    <3>2. mem[c[t]] = "live"
      BY <2>1, <2>2 DEF Control, LiveUntilTail
    <3> QED  BY <2>1, <3>1, <3>2 DEF At, Driving
  <2>4. At(t, c[t], {"count", "unlink", "delete"})'
    BY <2>1 DEF At
  <2>5. \A j \in Conns : j # c[t] =>
           \A s \in Threads : At(s, j, {"count", "unlink", "delete"})'
                                 <=> At(s, j, {"count", "unlink", "delete"})
    BY <2>1 DEF At
  <2>6. Succeeded' = Succeeded /\ Present' = Present \ {c[t]}
    BY <2>1, <2>2, <2>4, <2>5 DEF Succeeded, Present
  <2>7. c[t] \in Present <=> pkt[c[t]]
    BY <2>2, <2>3 DEF Present
  <2>8. CASE pkt[c[t]]
    <3>1. Cardinality(Present \ {c[t]}) = Cardinality(Present) - 1
      BY <2>7, <2>8, CountedSetsFinite, FS_RemoveElement
    <3>2. Cardinality(Present') = Cardinality(Present) - 1
      BY <2>6, <3>1
    <3> QED  BY <2>1, <2>6, <2>8, <3>2, <1>0, CountersAre
  <2>9. CASE ~pkt[c[t]]
    <3>1. Present' = Present
      BY <2>6, <2>7, <2>9
    <3> QED  BY <2>1, <2>6, <2>9, <3>1, <1>0, CountersAre
  <2> QED  BY <2>8, <2>9
<1>5. ASSUME NEW t \in Threads, Unlink(t)
      PROVE  CountersExact'
  <2>1. /\ UNCHANGED <<mem, pkt, countVars, c>>
        /\ pc[t] = "unlink" /\ pc'[t] = "delete"
        /\ \A s \in Threads : s # t => pc'[s] = pc[s]
    BY <1>5 DEF Unlink, Goto, TypeOK, connVars
  <2>2. SamePlaces({"count", "unlink", "delete"})
    BY <2>1 DEF SamePlaces, At
  <2> QED  BY <2>1, <2>2, <1>0, CountersFrame
<1>6. ASSUME NEW t \in Threads, Delete(t)
      PROVE  CountersExact'
  <2>1. /\ pc[t] = "delete" /\ pc'[t] = "return" /\ UNCHANGED <<pkt, countVars, c>>
        /\ mem' = [mem EXCEPT ![c[t]] = "freed"]
        /\ \A s \in Threads : s # t => pc'[s] = pc[s]
    BY <1>6 DEF Delete, Goto, TypeOK
  <2>2. c[t] \in Conns /\ At(t, c[t], {"count", "unlink", "delete"})
    BY <2>1 DEF Control, ThreadShape, At
  <2>3. mem'[c[t]] = "freed" /\ \A j \in Conns : j # c[t] => mem'[j] = mem[j]
    BY <2>1, <2>2 DEF TypeOK
  <2>4. \A j \in Conns : j # c[t] =>
           \A s \in Threads : At(s, j, {"count", "unlink", "delete"})'
                                 <=> At(s, j, {"count", "unlink", "delete"})
    BY <2>1 DEF At
  <2>5. Present' = Present /\ Succeeded' = Succeeded
    BY <2>1, <2>2, <2>3, <2>4 DEF Present, Succeeded
  <2> QED  BY <2>1, <2>5, <1>0, CountersAre DEF countVars
<1>7. ASSUME NEW w \in Workers, EventConnected(w)
      PROVE  CountersExact'
  <2>1. /\ w \in Threads /\ pc[w] = "event" /\ op[w].type = "IO_CONNECT" /\ pc'[w] = "count"
        /\ UNCHANGED <<mem, concurrentServers, c>> /\ totalServers' = totalServers + 1
        /\ pkt' = [pkt EXCEPT ![c[w]] = TRUE]
        /\ \A s \in Threads : s # w => pc'[s] = pc[s]
    BY <1>7 DEF EventConnected, Goto, TypeOK, Threads
  <2>2. c[w] \in Conns /\ ~pkt[c[w]]
    BY <2>1 DEF Control, ThreadShape, Counted, PktAfterConnect
  <2>3. pkt'[c[w]] = TRUE /\ \A j \in Conns : j # c[w] => pkt'[j] = pkt[j]
    BY <2>1, <2>2 DEF TypeOK
  <2>4. At(w, c[w], {"count", "unlink", "delete"})'
    BY <2>1 DEF At
  <2>5. \A j \in Conns : j # c[w] =>
           \A s \in Threads : At(s, j, {"count", "unlink", "delete"})'
                                 <=> At(s, j, {"count", "unlink", "delete"})
    BY <2>1 DEF At
  <2>6. Present' = Present
    BY <2>1, <2>2, <2>3, <2>4, <2>5 DEF Present
  <2>7. Succeeded' = Succeeded \cup {c[w]} /\ c[w] \notin Succeeded
    BY <2>2, <2>3 DEF Succeeded
  <2>8. Cardinality(Succeeded') = Cardinality(Succeeded) + 1
    BY <2>7, CountedSetsFinite, FS_AddElement
  <2> QED  BY <2>1, <2>6, <2>8, <1>0, CountersAre
<1>8. ASSUME NEW w \in Workers, Connected(w)
      PROVE  CountersExact'
  <2>1. /\ w \in Threads /\ pc[w] = "count" /\ pc'[w] = "post"
        /\ UNCHANGED <<mem, pkt, totalServers, c>>
        /\ concurrentServers' = concurrentServers + 1
        /\ \A s \in Threads : s # w => pc'[s] = pc[s]
    BY <1>8 DEF Connected, Goto, TypeOK, Threads
  <2>2. c[w] \in Conns /\ At(w, c[w], Driving) /\ At(w, c[w], {"count", "unlink", "delete"})
    BY <2>1 DEF Control, ThreadShape, At, Driving
  <2>3. mem[c[w]] = "live" /\ \A s \in Threads : ~At(s, c[w], {"count", "unlink", "delete"})'
    <3>1. \A s \in Threads : s # w => ~At(s, c[w], Driving)
      BY <2>1, <2>2 DEF Control, OneDriver
    <3>2. mem[c[w]] = "live"
      BY <2>1, <2>2 DEF Control, LiveUntilTail
    <3> QED  BY <2>1, <3>1, <3>2 DEF At, Driving
  <2>4. \A j \in Conns : j # c[w] =>
           \A s \in Threads : At(s, j, {"count", "unlink", "delete"})'
                                 <=> At(s, j, {"count", "unlink", "delete"})
    BY <2>1 DEF At
  <2>5. pkt[c[w]]
    BY <2>1 DEF Counted, PktAfterConnect
  <2>6. Present' = Present \cup {c[w]} /\ c[w] \notin Present /\ Succeeded' = Succeeded
    BY <2>1, <2>2, <2>3, <2>4, <2>5 DEF Present, Succeeded
  <2>7. Cardinality(Present') = Cardinality(Present) + 1
    BY <2>6, CountedSetsFinite, FS_AddElement
  <2> QED  BY <2>1, <2>6, <2>7, <1>0, CountersAre
<1>9. CASE Timer \/ UNCHANGED vars
  BY <1>0, <1>9 DEF Timer, TickLock, TickVisit, TickUnlock, CountersExact, At, vars, connVars,
                    countVars, threadVars
<1> QED
  BY <1>1, <1>2, <1>3, <1>4, <1>5, <1>6, <1>7, <1>8, <1>9 DEF Next, Plain, HandleEvent, Freesock

\* The thread t moves, and where it now is the flag is as it should be; nothing
\* else that PktAfterConnect speaks of changes.
LEMMA PktMove ==
    ASSUME PktAfterConnect, NEW t \in Threads, UNCHANGED <<pkt, inflight>>,
           \A k \in Conns : mem'[k] = "none" => mem[k] = "none",
           \A s \in Threads : s # t => pc'[s] = pc[s] /\ c'[s] = c[s] /\ op'[s] = op[s],
           pc'[t] \in {"link", "post", "event"} /\ op'[t].type = "IO_CONNECT" => ~pkt[c'[t]],
           pc'[t] = "count" => pkt[c'[t]]
    PROVE  PktAfterConnect'
<1>1. ASSUME NEW s \in Threads
      PROVE  /\ pc'[s] \in {"link", "post", "event"} /\ op'[s].type = "IO_CONNECT"
                  => ~pkt'[c'[s]]
             /\ pc'[s] = "count" => pkt'[c'[s]]
  BY DEF PktAfterConnect
<1> QED  BY <1>1 DEF PktAfterConnect

LEMMA PktStep ==
    ASSUME IInv, [Next]_vars
    PROVE  PktAfterConnect'
<1> USE DEF IInv
<1>0. PktAfterConnect
  BY DEF Counted
<1>1. CASE Serve
  <2>1. ASSUME NEW w \in Workers, CreateWorker(w)
        PROVE  PktAfterConnect'
    <3>1. /\ w \in Threads /\ pc'[w] = "loop" /\ UNCHANGED <<pkt, inflight, mem, c, op>>
          /\ \A s \in Threads : s # w => pc'[s] = pc[s]
      BY <2>1 DEF CreateWorker, Goto, TypeOK, Threads, connVars
    <3> QED  BY <1>0, <3>1, PktMove
  <2>2. CASE WorkerNotCreated \/ CreateTimer
    BY <1>0, <2>2 DEF WorkerNotCreated, CreateTimer, PktAfterConnect, connVars, threadVars
  <2> QED  BY <1>1, <2>1, <2>2 DEF Serve
<1>2. ASSUME NEW t \in Callers, NEW k \in Conns, PostConnect(t, k)
      PROVE  PktAfterConnect'
  <2>1. /\ t \in Threads /\ mem[k] = "none" /\ UNCHANGED <<pkt, inflight>>
        /\ mem' = [mem EXCEPT ![k] = "live"] /\ pc'[t] = "link" /\ c'[t] = k
        /\ \A s \in Threads : s # t => pc'[s] = pc[s] /\ c'[s] = c[s] /\ op'[s] = op[s]
    BY <1>2 DEF PostConnect, Goto, TypeOK, Threads
  <2>2. ~pkt[k]
    BY <1>0, <2>1 DEF PktAfterConnect
  <2>3. \A j \in Conns : mem'[j] = "none" => mem[j] = "none"
    BY <2>1 DEF TypeOK
  <2> QED  BY <1>0, <2>1, <2>2, <2>3, PktMove
<1>3. ASSUME NEW t \in Callers, Link(t)
      PROVE  PktAfterConnect'
  <2>1. /\ t \in Threads /\ pc[t] = "link" /\ pc'[t] = "post"
        /\ UNCHANGED <<pkt, inflight, mem, c, op>>
        /\ \A s \in Threads : s # t => pc'[s] = pc[s]
    BY <1>3 DEF Link, Goto, TypeOK, Threads, connVars
  <2>2. op[t].type = "IO_CONNECT" => ~pkt[c[t]]
    BY <1>0, <2>1 DEF PktAfterConnect
  <2> QED  BY <1>0, <2>1, <2>2, PktMove
<1>4. ASSUME NEW t \in Threads, PostIssue(t)
      PROVE  PktAfterConnect'
  <2>1. /\ pc[t] = "post" /\ pc'[t] = "tail" /\ UNCHANGED <<pkt, mem, c, op>>
        /\ \A s \in Threads : s # t => pc'[s] = pc[s]
        /\ inflight' = [inflight EXCEPT ![c[t]] = @ \cup {Operation(op[t].type, "pending", 0)}]
    BY <1>4 DEF PostIssue, Goto, TypeOK, connVars
  <2>2. op[t].type = "IO_CONNECT" => ~pkt[c[t]]
    BY <1>0, <2>1 DEF PktAfterConnect
  <2>3. \A k \in Conns : \A o \in inflight'[k] : o.type = "IO_CONNECT" => ~pkt[k]
    <3>1. \A k \in Conns : \A o \in inflight'[k] :
             o \in inflight[k] \/ (k = c[t] /\ o = Operation(op[t].type, "pending", 0))
      BY <2>1 DEF TypeOK
    <3> QED  BY <1>0, <2>2, <3>1 DEF PktAfterConnect, Operation
  <2>4. \A s \in Threads :
           /\ pc'[s] \in {"link", "post", "event"} => pc[s] \in {"link", "post", "event"}
           /\ pc'[s] = "count" => pc[s] = "count"
    BY <2>1
  <2> QED  BY <1>0, <2>1, <2>3, <2>4 DEF PktAfterConnect
<1>5. ASSUME NEW t \in Threads,
             PostFail(t) \/ Tail(t) \/ Return(t) \/ Uncount(t) \/ Unlink(t) \/ Delete(t)
      PROVE  PktAfterConnect'
  <2>1. /\ pc'[t] \in {"freesock", "return", "loop", "idle", "unlink", "delete"}
        /\ UNCHANGED <<pkt, inflight>>
        /\ \A s \in Threads : s # t => pc'[s] = pc[s] /\ c'[s] = c[s] /\ op'[s] = op[s]
        /\ \A j \in Conns : mem'[j] = "none" => mem[j] = "none"
    BY <1>5 DEF PostFail, Tail, Return, Uncount, Unlink, Delete, Goto, TypeOK, connVars
  <2> QED  BY <1>0, <2>1, PktMove
<1>6. ASSUME NEW w \in Workers, WorkerLoop(w) \/ EventFailed(w) \/ EventReceived(w)
      PROVE  PktAfterConnect'
  <2>1. /\ w \in Threads /\ pc'[w] \in {"wait", "exit", "freesock"}
        /\ UNCHANGED <<pkt, inflight, mem, c, op>>
        /\ \A s \in Threads : s # w => pc'[s] = pc[s]
    BY <1>6 DEF WorkerLoop, EventFailed, EventReceived, Goto, TypeOK, Threads, connVars
  <2> QED  BY <1>0, <2>1, PktMove
<1>7. ASSUME NEW w \in Workers, Connected(w) \/ EventPart(w) \/ EventSent(w)
      PROVE  PktAfterConnect'
  <2>1. /\ w \in Threads /\ pc'[w] = "post" /\ op'[w].type # "IO_CONNECT"
        /\ UNCHANGED <<pkt, inflight, mem, c>>
        /\ \A s \in Threads : s # w => pc'[s] = pc[s] /\ op'[s] = op[s]
    BY <1>7 DEF Connected, EventPart, EventSent, Goto, TypeOK, Threads, Operation, Operations, connVars
  <2> QED  BY <1>0, <2>1, PktMove
<1>8. ASSUME NEW w \in Workers, EventConnected(w)
      PROVE  PktAfterConnect'
  <2>1. /\ w \in Threads /\ pc[w] = "event" /\ pc'[w] = "count"
        /\ UNCHANGED <<mem, inflight, c, op>>
        /\ pkt' = [pkt EXCEPT ![c[w]] = TRUE]
        /\ \A s \in Threads : s # w => pc'[s] = pc[s]
    BY <1>8 DEF EventConnected, Goto, TypeOK, Threads
  <2>2. c[w] \in Conns /\ At(w, c[w], Driving)
    BY <2>1 DEF Control, ThreadShape, At, Driving
  <2>3. /\ inflight[c[w]] = {} /\ mem[c[w]] = "live"
        /\ \A s \in Threads : s # w => ~At(s, c[w], Driving)
    BY <2>1, <2>2 DEF Control, OneDriver, LiveUntilTail
  <2>4. pkt'[c[w]] = TRUE /\ \A j \in Conns : j # c[w] => pkt'[j] = pkt[j]
    BY <2>1, <2>2 DEF TypeOK
  <2>5. \A k \in Conns : /\ mem'[k] = "none" => ~pkt'[k]
                         /\ \A o \in inflight'[k] : o.type = "IO_CONNECT" => ~pkt'[k]
    <3> SUFFICES ASSUME NEW k \in Conns
                 PROVE  /\ mem'[k] = "none" => ~pkt'[k]
                        /\ \A o \in inflight'[k] : o.type = "IO_CONNECT" => ~pkt'[k]
      OBVIOUS
    <3>1. CASE k = c[w]
      BY <3>1, <2>1, <2>3
    <3>2. CASE k # c[w]
      BY <3>2, <2>1, <2>4, <1>0 DEF PktAfterConnect
    <3> QED  BY <3>1, <3>2
  <2>6. ASSUME NEW s \in Threads
        PROVE  /\ pc'[s] \in {"link", "post", "event"} /\ op'[s].type = "IO_CONNECT"
                     => ~pkt'[c'[s]]
               /\ pc'[s] = "count" => pkt'[c'[s]]
    <3>1. CASE s = w
      BY <3>1, <2>1, <2>4
    <3>2. CASE s # w /\ pc[s] \in {"link", "post", "event", "count"}
      <4>1. c[s] # c[w]
        BY <3>2, <2>3 DEF At, Driving
      <4>2. c[s] \in Conns
        BY <3>2 DEF Control, ThreadShape
      <4>3. pkt'[c'[s]] = pkt[c[s]]
        BY <4>1, <4>2, <2>1, <2>4
      <4> QED  BY <4>3, <3>2, <2>1, <1>0 DEF PktAfterConnect
    <3>3. CASE s # w /\ pc[s] \notin {"link", "post", "event", "count"}
      BY <3>3, <2>1
    <3> QED  BY <3>1, <3>2, <3>3
  <2> QED  BY <2>5, <2>6 DEF PktAfterConnect
<1>9. ASSUME NEW w \in Workers, NEW k \in Conns, Dequeue(w, k)
      PROVE  PktAfterConnect'
  <2>1. PICK o \in inflight[k] : /\ inflight' = [inflight EXCEPT ![k] = @ \ {o}]
                                 /\ op' = [op EXCEPT ![w] = o]
    BY <1>9 DEF Dequeue
  <2>2. /\ w \in Threads /\ pc'[w] = "event" /\ c'[w] = k /\ UNCHANGED <<pkt, mem>>
        /\ op'[w] = o
        /\ \A s \in Threads : s # w => pc'[s] = pc[s] /\ c'[s] = c[s] /\ op'[s] = op[s]
    BY <1>9, <2>1 DEF Dequeue, Goto, TypeOK, Threads, connVars
  <2>3. \A j \in Conns : inflight'[j] \subseteq inflight[j]
    BY <2>1 DEF TypeOK
  <2>4. op'[w].type = "IO_CONNECT" => ~pkt[k]
    BY <1>0, <2>1, <2>2 DEF PktAfterConnect
  <2>5. ASSUME NEW s \in Threads
        PROVE  /\ pc'[s] \in {"link", "post", "event"} /\ op'[s].type = "IO_CONNECT"
                     => ~pkt'[c'[s]]
               /\ pc'[s] = "count" => pkt'[c'[s]]
    <3>1. CASE s = w
      BY <3>1, <2>2, <2>4
    <3>2. CASE s # w
      BY <3>2, <2>2, <1>0 DEF PktAfterConnect
    <3> QED  BY <3>1, <3>2
  <2>6. \A j \in Conns : /\ mem'[j] = "none" => ~pkt'[j]
                         /\ \A q \in inflight'[j] : q.type = "IO_CONNECT" => ~pkt'[j]
    BY <2>2, <2>3, <1>0 DEF PktAfterConnect
  <2> QED  BY <2>5, <2>6 DEF PktAfterConnect
<1>10. ASSUME NEW k \in Conns, Complete(k)
       PROVE  PktAfterConnect'
  <2>1. PICK o \in inflight[k] : \E r \in Results(k, o) :
                inflight' = [inflight EXCEPT ![k] = (@ \ {o}) \cup {r}]
    BY <1>10 DEF Complete
  <2>2. PICK r \in Results(k, o) : inflight' = [inflight EXCEPT ![k] = (@ \ {o}) \cup {r}]
    BY <2>1
  <2>3. r.type = o.type
    BY DEF Results, Operation
  <2>4. \A j \in Conns : \A q \in inflight'[j] :
           q \in inflight[j] \/ (j = k /\ q = r)
    BY <2>2 DEF TypeOK
  <2>5. UNCHANGED <<mem, pkt, pc, c, op>>
    BY <1>10 DEF Complete, connVars, threadVars
  <2>6. \A j \in Conns : \A q \in inflight'[j] : q.type = "IO_CONNECT" => ~pkt[j]
    BY <2>3, <2>4, <1>0 DEF PktAfterConnect
  <2> QED  BY <2>5, <2>6, <1>0 DEF PktAfterConnect
<1>11. CASE (\E k \in Conns : PeerFin(k)) \/ Timer \/ UNCHANGED vars
  BY <1>0, <1>11 DEF PeerFin, Timer, TickLock, TickVisit, TickUnlock, PktAfterConnect, vars,
                     connVars, threadVars
<1> QED
  BY <1>1, <1>2, <1>3, <1>4, <1>5, <1>6, <1>7, <1>8, <1>9, <1>10, <1>11
     DEF Next, Post, HandleEvent, Freesock

-----------------------------------------------------------------------------
(* Types. *)

LEMMA OperationType ==
    ASSUME NEW ty \in {"IO_CONNECT", "IO_RECV", "IO_SEND"},
           NEW st \in {"none", "pending", "ok", "failed"}, NEW b \in 0 .. Pieces
    PROVE  Operation(ty, st, b) \in Operations
BY DEF Operation, Operations

LEMMA TypeStep ==
    ASSUME IInv, [Next]_vars
    PROVE  TypeOK'
<1> USE DEF IInv
<1>0. /\ Workers \subseteq Threads /\ Callers \subseteq Threads
      /\ Pieces \in 0 .. Pieces /\ 0 \in 0 .. Pieces
      /\ SharedPCs \cup WorkerPCs \cup CallerPCs = PCs
  BY ClientAssumption DEF Threads, PCs
<1>1. CASE Serve
  BY <1>0, <1>1 DEF TypeOK, Serve, CreateWorker, WorkerNotCreated, CreateTimer, Goto, PCs, WorkerPCs,
                    mainVars, connVars, timerVars, countVars, threadVars
<1>2. ASSUME NEW t \in Callers, NEW k \in Conns, PostConnect(t, k)
      PROVE  TypeOK'
  <2>1. Operation("IO_CONNECT", "none", 0) \in Operations
    BY <1>0, OperationType
  <2> QED
    BY <1>0, <1>2, <2>1 DEF TypeOK, PostConnect, Goto, PCs, CallerPCs, mainVars, timerVars, countVars
<1>3. ASSUME NEW t \in Threads, Link(t) \/ PostFail(t) \/ Tail(t) \/ Uncount(t) \/ Unlink(t)
      PROVE  TypeOK'
  <2>1. c[t] \in Conns
    BY <1>3 DEF Link, PostFail, Tail, Uncount, Unlink, Control, ThreadShape
  <2>2. pc' \in [Threads -> PCs]
    BY <1>3 DEF TypeOK, Link, PostFail, Tail, Uncount, Unlink, Goto, PCs, SharedPCs
  <2>3. ctlist' \subseteq Conns
    BY <1>3, <2>1 DEF TypeOK, Link, PostFail, Tail, Uncount, Unlink
  <2>4. concurrentServers' \in Int /\ totalServers' \in Nat
    BY <1>3 DEF TypeOK, Link, PostFail, Tail, Uncount, Unlink, countVars
  <2> QED
    BY <1>3, <2>2, <2>3, <2>4 DEF TypeOK, Link, PostFail, Tail, Uncount, Unlink, mainVars, connVars, timerVars,
                            countVars
<1>4. ASSUME NEW t \in Threads, PostIssue(t)
      PROVE  TypeOK'
  <2>1. Operation(op[t].type, "pending", 0) \in Operations
    <3>1. op[t] \in Operations
      BY DEF TypeOK
    <3> QED  BY <1>0, <3>1, OperationType DEF Operations
  <2> QED
    BY <1>4, <2>1 DEF TypeOK, PostIssue, Goto, PCs, SharedPCs, mainVars, connVars, timerVars,
                      countVars
<1>5. ASSUME NEW t \in Threads, Delete(t) \/ Return(t)
      PROVE  TypeOK'
  <2>1. NoOperation \in Operations
    BY <1>0, OperationType DEF NoOperation
  <2> QED
    BY <1>5, <2>1 DEF TypeOK, Delete, Return, Goto, PCs, SharedPCs, WorkerPCs, CallerPCs, mainVars,
                      connVars, timerVars, countVars
<1>6. ASSUME NEW w \in Workers, WorkerLoop(w) \/ EventFailed(w) \/ EventConnected(w)
      PROVE  TypeOK'
  <2>1. pc' \in [Threads -> PCs]
    BY <1>6 DEF TypeOK, WorkerLoop, EventFailed, EventConnected, Goto, PCs, SharedPCs, WorkerPCs
  <2>2. pkt' \in [Conns -> BOOLEAN]
    BY <1>6, Zenon DEF TypeOK, WorkerLoop, EventFailed, EventConnected, connVars
  <2>3. totalServers' \in Nat /\ concurrentServers' \in Int
    BY <1>6 DEF TypeOK, WorkerLoop, EventFailed, EventConnected, countVars
  <2> QED
    BY <1>6, <2>1, <2>2, <2>3 DEF TypeOK, WorkerLoop, EventFailed, EventConnected, mainVars, connVars,
                            timerVars
<1>7. ASSUME NEW w \in Workers, Connected(w) \/ EventSent(w) \/ EventReceived(w)
      PROVE  TypeOK'
  <2>1. op' \in [Threads -> Operations]
    <3>1. /\ Operation("IO_SEND", "none", 0) \in Operations
          /\ Operation("IO_RECV", "none", 0) \in Operations
      BY <1>0, OperationType
    <3> QED  BY <1>7, <3>1 DEF TypeOK, Connected, EventSent, EventReceived
  <2>2. left' \in [Conns -> 0 .. Pieces]
    BY <1>0, <1>7 DEF TypeOK, Connected, EventSent, EventReceived
  <2>3. pc' \in [Threads -> PCs] /\ concurrentServers' \in Int
    BY <1>7 DEF TypeOK, Connected, EventSent, EventReceived, Goto, PCs, SharedPCs, countVars
  <2> QED
    BY <1>7, <2>1, <2>2, <2>3 DEF TypeOK, Connected, EventSent, EventReceived, mainVars, timerVars,
                                  countVars
<1>8. ASSUME NEW w \in Workers, EventPart(w)
      PROVE  TypeOK'
  <2>1. c[w] \in Conns /\ op[w] \in Operations
    BY <1>0, <1>8 DEF EventPart, Control, ThreadShape, TypeOK
  <2>2. left[c[w]] - op[w].bytes \in 0 .. Pieces
    <3>1. left[c[w]] \in 0 .. Pieces /\ op[w].bytes \in 0 .. Pieces
      BY <2>1 DEF TypeOK, Operations
    <3> QED  BY <3>1, <1>8, ClientAssumption DEF EventPart
  <2>3. left' \in [Conns -> 0 .. Pieces]
    BY <1>8, <2>1, <2>2 DEF EventPart, TypeOK
  <2>4. Operation(op[w].type, "none", 0) \in Operations
    BY <1>0, <2>1, OperationType DEF Operations
  <2> QED
    BY <1>8, <2>3, <2>4 DEF TypeOK, EventPart, Goto, PCs, SharedPCs, mainVars, timerVars, countVars
<1>9. ASSUME NEW w \in Workers, NEW k \in Conns, Dequeue(w, k)
      PROVE  TypeOK'
  <2>1. PICK o \in inflight[k] : /\ inflight' = [inflight EXCEPT ![k] = @ \ {o}]
                                 /\ op' = [op EXCEPT ![w] = o]
    BY <1>9 DEF Dequeue
  <2>2. inflight' \in [Conns -> SUBSET Operations] /\ op' \in [Threads -> Operations]
    BY <2>1 DEF TypeOK
  <2> QED
    BY <1>0, <1>9, <2>2 DEF TypeOK, Dequeue, Goto, PCs, WorkerPCs, mainVars, connVars, timerVars,
                            countVars
<1>10. ASSUME NEW k \in Conns, Complete(k)
       PROVE  TypeOK'
  <2>1. PICK o \in inflight[k] : \E r \in Results(k, o) :
                inflight' = [inflight EXCEPT ![k] = (@ \ {o}) \cup {r}]
    BY <1>10 DEF Complete
  <2>2. PICK r \in Results(k, o) : inflight' = [inflight EXCEPT ![k] = (@ \ {o}) \cup {r}]
    BY <2>1
  <2>3. left[k] \in 0 .. Pieces /\ o.type \in {"IO_CONNECT", "IO_RECV", "IO_SEND"}
    BY DEF TypeOK, Operations
  <2>4. r \in Operations
    <3>1. 1 .. left[k] \subseteq 0 .. Pieces
      BY <2>3, ClientAssumption
    <3> QED  BY <1>0, <2>3, <3>1, OperationType DEF Results
  <2>5. inflight' \in [Conns -> SUBSET Operations]
    BY <2>2, <2>4 DEF TypeOK
  <2> QED
    BY <1>10, <2>5 DEF TypeOK, Complete, mainVars, connVars, timerVars, countVars, threadVars
<1>11. ASSUME NEW k \in Conns, PeerFin(k)
       PROVE  TypeOK'
  BY <1>11 DEF TypeOK, PeerFin, mainVars, timerVars, countVars, threadVars
<1>12. CASE Timer \/ UNCHANGED vars
  BY <1>12 DEF TypeOK, Timer, TickLock, TickVisit, TickUnlock, vars, mainVars, connVars, timerVars,
               countVars, threadVars
<1> QED
  BY <1>0, <1>1, <1>2, <1>3, <1>4, <1>5, <1>6, <1>7, <1>8, <1>9, <1>10, <1>11, <1>12
     DEF Next, Post, HandleEvent, Freesock

-----------------------------------------------------------------------------
(* The inductive invariant and its theorems. *)

LEMMA InitIInv == Init => IInv
<1> SUFFICES ASSUME Init PROVE IInv
  OBVIOUS
<1>0. /\ NoConn \notin Conns
      /\ \A t \in Threads : pc[t] \in {"off", "idle"} /\ c[t] = NoConn
  BY ClientAssumption DEF Init
<1>1. TypeOK
  <2>1. NoOperation \in Operations /\ 0 \in 0 .. Pieces
    BY ClientAssumption, OperationType DEF NoOperation
  <2>2. pc \in [Threads -> PCs]
    BY DEF Init, PCs, WorkerPCs, CallerPCs
  <2>3. /\ c \in [Threads -> Conns \cup {NoConn}] /\ op \in [Threads -> Operations]
        /\ left \in [Conns -> 0 .. Pieces] /\ inflight \in [Conns -> SUBSET Operations]
        /\ mem \in [Conns -> {"none", "live", "freed"}]
    BY <2>1 DEF Init
  <2>4. pkt \in [Conns -> BOOLEAN] /\ fin \in [Conns -> BOOLEAN]
    BY DEF Init
  <2>5. serving \in {"serve", "loop"} /\ work \in BOOLEAN /\ ticking \in BOOLEAN
    BY Zenon DEF Init
  <2>6. /\ ctlist \subseteq Conns /\ mtx \in {"free", "timer"} /\ scan \subseteq Conns
        /\ concurrentServers \in Int /\ totalServers \in Nat
    BY DEF Init
  <2> QED  BY <2>2, <2>3, <2>4, <2>5, <2>6 DEF TypeOK
<1>2. \A t \in Threads : \A k \in Conns : \A S : ~At(t, k, S)
  BY <1>0 DEF At
<1>3. Control
  <2>1. ThreadShape
    BY <1>0 DEF ThreadShape
  <2>2. OneDriver /\ NeverAbandoned /\ LiveUntilTail
    BY <1>2 DEF Init, OneDriver, NeverAbandoned, LiveUntilTail
  <2> QED  BY <2>1, <2>2 DEF Control
<1>4. Listed
  BY DEF Init, Listed, ListExact
<1>5. Counted
  <2>1. PktAfterConnect
    BY <1>0 DEF Init, PktAfterConnect
  <2>2. Succeeded = {} /\ Present = {}
    BY DEF Init, Succeeded, Present
  <2> QED  BY <2>1, <2>2, FS_EmptySet, CountersAre DEF Init, Counted
<1> QED  BY <1>1, <1>3, <1>4, <1>5 DEF IInv

LEMMA NextIInv == IInv /\ [Next]_vars => IInv'
BY TypeStep, ControlStep, ListStep, PktStep, CountersStep DEF IInv, Counted

THEOREM InvariantHolds == Spec => []IInv
BY InitIInv, NextIInv, PTL DEF Spec

\* Every variable of the client keeps its type; in particular no receive or
\* send is left with a negative number of bytes to go.
THEOREM ClientTypeCorrect == Spec => []TypeOK
<1>1. IInv => TypeOK
  BY DEF IInv
<1> QED  BY <1>1, InvariantHolds, PTL

\* However many threads share the port, a connection has one driver or one
\* operation in flight.
THEOREM ClientConnectionsHaveOneDriver == Spec => []OneDriver
<1>1. IInv => OneDriver
  BY DEF IInv, Control
<1> QED  BY <1>1, InvariantHolds, PTL

\* No live connection is left without a thread or an operation.
THEOREM ClientAbandonsNothing == Spec => []NeverAbandoned
<1>1. IInv => NeverAbandoned
  BY DEF IInv, Control
<1> QED  BY <1>1, InvariantHolds, PTL

\* A deleted ConnCtx can be reached from the tails of the posting functions only.
THEOREM ClientUsesLiveMemoryUntilTail == Spec => []LiveUntilTail
<1>1. IInv => LiveUntilTail
  BY DEF IInv, Control
<1> QED  BY <1>1, InvariantHolds, PTL

\* The timer callback walks exactly the live connections, and none of those it
\* has yet to visit is unlinked, let alone deleted, under it.
THEOREM ListIsExact == Spec => []ListExact
<1>1. IInv => ListExact
  BY DEF IInv, Listed
<1> QED  BY <1>1, InvariantHolds, PTL

\* What main prints is the number of connections that succeeded and of those
\* not yet counted out.
THEOREM ClientCountersAreExact == Spec => []CountersExact
<1>1. IInv => CountersExact
  BY DEF IInv, Counted
<1> QED  BY <1>1, InvariantHolds, PTL

-----------------------------------------------------------------------------
(* Client implements Ownership. *)

Owners == [k \in Conns |-> OwnerOf(k)]

\* Nobody starts or stops driving, and nothing is posted, delivered or deleted.
LEMMA OwnersKept ==
    ASSUME UNCHANGED <<mem, inflight>>, SamePlaces(Driving)
    PROVE  Owners' = Owners
BY DEF Owners, OwnerOf, SamePlaces

LEMMA OwnerPasses ==
    ASSUME NEW k \in Conns, NEW from, NEW to,
           OwnerOf(k) = from, OwnerOf(k)' = to,
           \A j \in Conns : j # k => OwnerOf(j)' = OwnerOf(j)
    PROVE  Owners[k] = from /\ Owners' = [Owners EXCEPT ![k] = to]
BY DEF Owners

\* Who owns the connections other than the one that k names.
LEMMA OtherOwners ==
    ASSUME NEW k \in Conns, NEW t \in Threads,
           \A j \in Conns : j # k => mem'[j] = mem[j] /\ inflight'[j] = inflight[j],
           \A s \in Threads : s # t => pc'[s] = pc[s] /\ c'[s] = c[s],
           \A j \in Conns : j # k => ~At(t, j, Driving) /\ ~At(t, j, Driving)'
    PROVE  \A j \in Conns : j # k => OwnerOf(j)' = OwnerOf(j)
<1>1. \A j \in Conns : j # k => \A s \in Threads : At(s, j, Driving)' <=> At(s, j, Driving)
  BY DEF At
<1> QED  BY <1>1 DEF OwnerOf

LEMMA DriverOwns ==
    ASSUME IInv, NEW t \in Threads, pc[t] \in Driving
    PROVE  c[t] \in Conns /\ OwnerOf(c[t]) = "thread" /\ inflight[c[t]] = {} /\ mem[c[t]] = "live"
<1>1. c[t] \in Conns
  BY DEF IInv, Control, ThreadShape, Driving
<1>2. At(t, c[t], Driving)
  BY DEF At
<1>3. mem[c[t]] = "live" /\ inflight[c[t]] = {}
  BY <1>1, <1>2 DEF IInv, Control, OneDriver, LiveUntilTail
<1> QED  BY <1>1, <1>2, <1>3 DEF OwnerOf

LEMMA OwnershipStep ==
    ASSUME IInv, [Next]_vars
    PROVE  Ownership!Next \/ Owners' = Owners
<1> USE DEF IInv
<1>1. CASE Serve
  <2>1. ASSUME NEW w \in Workers, CreateWorker(w)
        PROVE  Owners' = Owners
    <3>1. /\ w \in Threads /\ UNCHANGED <<mem, inflight, c>>
          /\ pc[w] = "off" /\ pc'[w] = "loop" /\ \A s \in Threads : s # w => pc'[s] = pc[s]
      BY <2>1 DEF CreateWorker, Goto, TypeOK, Threads, connVars
    <3>2. SamePlaces(Driving)
      BY <3>1, OneThreadMoves DEF Driving
    <3> QED  BY <3>1, <3>2, OwnersKept
  <2>2. CASE WorkerNotCreated \/ CreateTimer
    BY <2>2, OwnersKept DEF WorkerNotCreated, CreateTimer, SamePlaces, At, connVars, threadVars
  <2> QED  BY <1>1, <2>1, <2>2 DEF Serve
<1>2. ASSUME NEW t \in Threads, Tail(t) \/ Return(t)
      PROVE  Owners' = Owners
  <2>1. /\ UNCHANGED <<mem, inflight>> /\ pc[t] \notin Driving /\ pc'[t] \notin Driving
        /\ \A s \in Threads : s # t => pc'[s] = pc[s] /\ c'[s] = c[s]
    BY <1>2 DEF Tail, Return, Goto, TypeOK, Driving, connVars
  <2>2. SamePlaces(Driving)
    BY <2>1, OneThreadMoves
  <2> QED  BY <2>1, <2>2, OwnersKept
<1>3. ASSUME NEW w \in Workers, WorkerLoop(w)
      PROVE  Owners' = Owners
  <2>1. /\ w \in Threads /\ UNCHANGED <<mem, inflight, c>>
        /\ pc[w] = "loop" /\ pc'[w] \in {"wait", "exit"}
        /\ \A s \in Threads : s # w => pc'[s] = pc[s]
    BY <1>3 DEF WorkerLoop, Goto, TypeOK, Threads, connVars
  <2>2. SamePlaces(Driving)
    BY <2>1, OneThreadMoves DEF Driving
  <2> QED  BY <2>1, <2>2, OwnersKept
<1>4. ASSUME NEW t \in Threads,
             Link(t) \/ PostFail(t) \/ Uncount(t) \/ Unlink(t) \/ HandleEvent(t)
      PROVE  Owners' = Owners
  <2>1. UNCHANGED <<mem, inflight, c>>
    BY <1>4 DEF Link, PostFail, Uncount, Unlink, HandleEvent, EventFailed, EventConnected, Connected,
                EventPart, EventSent, EventReceived, connVars
  <2>2. /\ pc[t] \in Driving /\ pc'[t] \in Driving
        /\ \A s \in Threads : s # t => pc'[s] = pc[s]
    BY <1>4 DEF Link, PostFail, Uncount, Unlink, HandleEvent, EventFailed, EventConnected, Connected,
                EventPart, EventSent, EventReceived, Goto, TypeOK, Driving
  <2>3. SamePlaces(Driving)
    BY <2>1, <2>2 DEF SamePlaces, At
  <2> QED  BY <2>1, <2>3, OwnersKept
<1>5. ASSUME NEW t \in Callers, NEW k \in Conns, PostConnect(t, k)
      PROVE  Ownership!Open(k)
  <2>1. /\ t \in Threads /\ mem[k] = "none" /\ mem' = [mem EXCEPT ![k] = "live"]
        /\ pc[t] = "idle" /\ pc'[t] = "link" /\ c'[t] = k /\ UNCHANGED inflight
        /\ \A s \in Threads : s # t => pc'[s] = pc[s] /\ c'[s] = c[s]
    BY <1>5 DEF PostConnect, Goto, TypeOK, Threads
  <2>2. mem'[k] = "live" /\ \A j \in Conns : j # k => mem'[j] = mem[j]
    BY <2>1 DEF TypeOK
  <2>3. inflight[k] = {} /\ At(t, k, Driving)'
    BY <2>1 DEF Control, LiveUntilTail, At, Driving
  <2>4. OwnerOf(k) = "none" /\ OwnerOf(k)' = "thread"
    BY <2>1, <2>2, <2>3 DEF OwnerOf
  <2>5. \A j \in Conns : j # k => ~At(t, j, Driving) /\ ~At(t, j, Driving)'
    BY <2>1 DEF At, Driving
  <2>6. \A j \in Conns : j # k => OwnerOf(j)' = OwnerOf(j)
    BY <2>1, <2>2, <2>5, OtherOwners
  <2> QED  BY <2>4, <2>6, OwnerPasses DEF Ownership!Open, Ownership!Pass, Owners
<1>6. ASSUME NEW t \in Threads, NEW k \in Conns, c[t] = k, PostIssue(t)
      PROVE  Ownership!Submit(k)
  <2>1. /\ pc[t] = "post" /\ pc'[t] = "tail" /\ UNCHANGED <<mem, c>>
        /\ \A s \in Threads : s # t => pc'[s] = pc[s]
        /\ inflight' = [inflight EXCEPT ![k] = @ \cup {Operation(op[t].type, "pending", 0)}]
    BY <1>6 DEF PostIssue, Goto, TypeOK, connVars
  <2>2. OwnerOf(k) = "thread" /\ mem[k] = "live"
    BY <2>1, <1>6, DriverOwns DEF Driving
  <2>3. /\ inflight'[k] # {}
        /\ \A j \in Conns : j # k => inflight'[j] = inflight[j]
    BY <2>1, <2>2 DEF TypeOK
  <2>4. OwnerOf(k)' = "system"
    BY <2>1, <2>2, <2>3 DEF OwnerOf
  <2>5. \A j \in Conns : j # k => ~At(t, j, Driving) /\ ~At(t, j, Driving)'
    BY <2>1, <1>6 DEF At
  <2>6. \A j \in Conns : j # k => OwnerOf(j)' = OwnerOf(j)
    BY <2>1, <2>2, <2>3, <2>5, OtherOwners
  <2> QED  BY <2>2, <2>4, <2>6, OwnerPasses DEF Ownership!Submit, Ownership!Pass, Owners
<1>7. ASSUME NEW t \in Threads, NEW k \in Conns, c[t] = k, Delete(t)
      PROVE  Ownership!Delete(k)
  <2>1. /\ pc[t] = "delete" /\ pc'[t] = "return" /\ UNCHANGED <<inflight, c>>
        /\ \A s \in Threads : s # t => pc'[s] = pc[s]
        /\ mem' = [mem EXCEPT ![k] = "freed"]
    BY <1>7 DEF Delete, Goto, TypeOK
  <2>2. OwnerOf(k) = "thread"
    BY <2>1, <1>7, DriverOwns DEF Driving
  <2>3. mem'[k] = "freed" /\ \A j \in Conns : j # k => mem'[j] = mem[j]
    BY <2>1, <2>2 DEF TypeOK
  <2>4. OwnerOf(k)' = "freed"
    BY <2>1, <2>3 DEF OwnerOf
  <2>5. \A j \in Conns : j # k => ~At(t, j, Driving) /\ ~At(t, j, Driving)'
    BY <2>1, <1>7 DEF At
  <2>6. \A j \in Conns : j # k => OwnerOf(j)' = OwnerOf(j)
    BY <2>1, <2>2, <2>3, <2>5, OtherOwners
  <2> QED  BY <2>2, <2>4, <2>6, OwnerPasses DEF Ownership!Delete, Ownership!Pass, Owners
<1>8. ASSUME NEW w \in Workers, NEW k \in Conns, Dequeue(w, k)
      PROVE  Ownership!Deliver(k)
  <2>1. PICK o \in inflight[k] : inflight' = [inflight EXCEPT ![k] = @ \ {o}]
    BY <1>8 DEF Dequeue
  <2>2. /\ w \in Threads /\ pc[w] = "wait" /\ pc'[w] = "event" /\ c'[w] = k /\ mem' = mem
        /\ \A s \in Threads : s # w => pc'[s] = pc[s] /\ c'[s] = c[s]
    BY <1>8 DEF Dequeue, Goto, TypeOK, Threads, connVars
  <2>3. inflight'[k] = {} /\ \A j \in Conns : j # k => inflight'[j] = inflight[j]
    BY <2>1 DEF TypeOK, Control, OneDriver
  <2>4. mem[k] = "live" /\ At(w, k, Driving)'
    BY <2>1, <2>2 DEF Control, LiveUntilTail, At, Driving
  <2>5. OwnerOf(k) = "system" /\ OwnerOf(k)' = "thread"
    BY <2>1, <2>2, <2>3, <2>4 DEF OwnerOf
  <2>6. \A j \in Conns : j # k => ~At(w, j, Driving) /\ ~At(w, j, Driving)'
    BY <2>2 DEF At, Driving
  <2>7. \A j \in Conns : j # k => OwnerOf(j)' = OwnerOf(j)
    BY <2>2, <2>3, <2>6, OtherOwners
  <2> QED  BY <2>5, <2>7, OwnerPasses DEF Ownership!Deliver, Ownership!Pass, Owners
<1>9. ASSUME NEW k \in Conns, Complete(k)
      PROVE  Owners' = Owners
  <2>1. PICK o \in inflight[k] : \E r \in Results(k, o) :
                inflight' = [inflight EXCEPT ![k] = (@ \ {o}) \cup {r}]
    BY <1>9 DEF Complete
  <2>2. inflight[k] # {} /\ inflight'[k] # {} /\ \A j \in Conns : j # k => inflight'[j] = inflight[j]
    BY <2>1 DEF TypeOK
  <2>3. UNCHANGED <<mem, pc, c>>
    BY <1>9 DEF Complete, connVars, threadVars
  <2> QED  BY <2>2, <2>3 DEF Owners, OwnerOf, At
<1>10. CASE (\E k \in Conns : PeerFin(k)) \/ Timer \/ UNCHANGED vars
  <2>1. UNCHANGED <<mem, inflight, pc, c>>
    BY <1>10 DEF PeerFin, Timer, TickLock, TickVisit, TickUnlock, vars, connVars, threadVars
  <2> QED  BY <2>1, OwnersKept DEF SamePlaces, At
<1>11. ASSUME NEW t \in Threads, PostIssue(t) \/ Delete(t)
       PROVE  Ownership!Next
  <2>1. PICK k \in Conns : c[t] = k
    BY <1>11 DEF PostIssue, Delete, Control, ThreadShape
  <2> QED  BY <1>6, <1>7, <1>11, <2>1 DEF Ownership!Next
<1>12. Workers \subseteq Threads /\ Callers \subseteq Threads
  BY DEF Threads
<1> QED
  BY <1>1, <1>2, <1>3, <1>4, <1>5, <1>8, <1>9, <1>10, <1>11, <1>12
     DEF Next, Post, Freesock, Ownership!Next

\* The client implements Ownership: every ConnCtx goes from thread to system
\* and back, is deleted once by the thread that has it, and is never let go of.
THEOREM ClientImplementsOwnership == Spec => OwnershipKept
<1>1. Init => Ownership!Init
  <2>1. ASSUME Init PROVE \A k \in Conns : OwnerOf(k) = "none"
    BY <2>1 DEF Init, OwnerOf
  <2> QED  BY <2>1 DEF Ownership!Init
<1>2. IInv /\ [Next]_vars => [Ownership!Next]_Owners
  BY OwnershipStep
<1> QED  BY <1>1, <1>2, InvariantHolds, PTL DEF OwnershipKept, Ownership!Spec, Spec, Owners

=============================================================================
