-------------------------------- MODULE Light --------------------------------
(***************************************************************************)
(* Start and end of the v2 server: the constructor of Light and serve() in *)
(* main's thread, and the workers from their set-up through their loop to  *)
(* the stages behind it, around the wheels and connections of module       *)
(* Wheels.  A worker may only do what Wheels has it do while it is in its   *)
(* loop; what serve() and the loop decide is when that is.                 *)
(*                                                                         *)
(* The periodic callback of a worker's wheel runs from its timeSetEvent to *)
(* the end of the process: wheel_callback ends it when tstr->work is       *)
(* false, and net2.cpp:1034 stores the address of Light::work there, which *)
(* is never null, instead of its value.                                    *)
(***************************************************************************)
EXTENDS Wheels

CONSTANT MaxAccepts     \* bound on AcceptEx operations at one time

VARIABLES
    main,       \* where the constructor, serve() or main is
    work,       \* Light::work
    timestr,    \* Light::timestr has been made
    failed,     \* ghost: a CreateThread of serve() has failed
    accepting,  \* AcceptEx operations posted and not yet dequeued
    wpc,        \* worker -> where it is
    wheel,      \* worker -> the whstruc it allocates
    rec,        \* worker -> i of "stage timers cancel": records below have been visited
    cancelled   \* connections whose pending operation CancelIoEx has hit

lightVars == <<main, work, timestr, failed, accepting, wpc, wheel, rec, cancelled>>
vars      == <<wheelsVars, lightVars>>

\* No constructor initialises work before clear() reads it.  Record 0 of a wheel is
\* never used.
Init ==
    /\ WheelsInit
    /\ main = "ctor"
    /\ work \in BOOLEAN
    /\ timestr = FALSE /\ failed = FALSE
    /\ accepting = 0
    /\ wpc = [w \in Workers |-> "none"]
    /\ wheel = [w \in Workers |-> "none"]
    /\ rec = [w \in Workers |-> 1]
    /\ cancelled = {}

Goto(w, l) == wpc' = [wpc EXCEPT ![w] = l]

-----------------------------------------------------------------------------
(* main: Light::Light, serve. *)

\* clear() calls close() when work is set and close() calls clear(): with work
\* set, the two never come back.
Clear ==
    /\ main = "ctor"
    /\ main' = IF work THEN "overflow" ELSE "serve"
    /\ UNCHANGED <<wheelsVars, work, timestr, failed, accepting, wpc, wheel, rec, cancelled>>

\* newServer, CreateIoCompletionPort or WSAIoctl fails; serve() returns, and main
\* goes on to print from a timestr that was never made.
ServeFails ==
    /\ main = "serve"
    /\ main' = "print"
    /\ UNCHANGED <<wheelsVars, work, timestr, failed, accepting, wpc, wheel, rec, cancelled>>

ServeUp ==
    /\ main = "serve"
    /\ main' = "accept"
    /\ timestr' = TRUE
    /\ work' = TRUE
    /\ UNCHANGED <<wheelsVars, failed, accepting, wpc, wheel, rec, cancelled>>

\* post_accept, once before each CreateThread; a failure is not noticed.
ServeAccept ==
    /\ main = "accept"
    /\ main' = "create"
    /\ accepting' \in {accepting, accepting + 1}
    /\ accepting' <= MaxAccepts
    /\ UNCHANGED <<wheelsVars, work, timestr, failed, wpc, wheel, rec, cancelled>>

ServeCreate(w) ==
    /\ main = "create"
    /\ wpc[w] = "none"
    /\ Goto(w, "start")
    /\ main' = IF \E v \in Workers \ {w} : wpc[v] = "none" THEN "accept" ELSE "print"
    /\ UNCHANGED <<wheelsVars, work, timestr, failed, accepting, wheel, rec, cancelled>>

ServeCreateFails ==
    /\ main = "create"
    /\ main' = "print"
    /\ work' = FALSE
    /\ failed' = TRUE
    /\ UNCHANGED <<wheelsVars, timestr, accepting, wpc, wheel, rec, cancelled>>

Serve == Clear \/ ServeFails \/ ServeUp \/ ServeAccept
         \/ (\E w \in Workers : ServeCreate(w)) \/ ServeCreateFails

-----------------------------------------------------------------------------
(* worker *)

\* new whstruc, timeSetEvent.
SetUp(w) ==
    /\ wpc[w] = "start"
    /\ wheel' = [wheel EXCEPT ![w] = "live"]
    /\ Goto(w, "test")
    /\ UNCHANGED <<wheelsVars, main, work, timestr, failed, accepting, rec, cancelled>>

\* Mutated SetUpFails: the thread goes on without its timer.
SetUpFailsGoesOn(w) ==
    /\ wpc[w] = "start"
    /\ wheel' = [wheel EXCEPT ![w] = "leaked"]
    /\ Goto(w, "test")
    /\ UNCHANGED <<wheelsVars, main, work, timestr, failed, accepting, rec, cancelled>>

\* timeSetEvent fails: the thread ends, its wheel stays allocated, and nobody
\* is told.
SetUpFails(w) ==
    /\ wpc[w] = "start"
    /\ wheel' = [wheel EXCEPT ![w] = "leaked"]
    /\ Goto(w, "ended")
    /\ UNCHANGED <<wheelsVars, main, work, timestr, failed, accepting, rec, cancelled>>

\* while (pkt->work->load())
LoopTest(w) ==
    /\ wpc[w] = "test"
    /\ Goto(w, IF work THEN "wait" ELSE "exit")
    /\ UNCHANGED <<wheelsVars, main, work, timestr, failed, accepting, wheel, rec, cancelled>>

\* GetQueuedCompletionStatus has returned a completion to w.
Taken(w) ==
    /\ wpc[w] = "wait"
    /\ UNCHANGED <<main, work, timestr, failed, wheel, rec>>

\* IO_ACCEPT, with the post_accept that follows it.
TakeAccept(w, k) ==
    /\ Taken(w)
    /\ accepting > 0
    /\ accepting' \in {accepting - 1, accepting}
    /\ Accept(w, k)
    /\ Goto(w, "busy")
    /\ UNCHANGED cancelled

TakeFailedAccept(w) ==
    /\ Taken(w)
    /\ accepting > 0
    /\ accepting' \in {accepting - 1, accepting}
    /\ Goto(w, "test")
    /\ UNCHANGED <<wheelsVars, cancelled>>

Take(w, k) ==
    /\ Taken(w)
    /\ Dequeue(w, k)
    /\ Goto(w, "busy")
    /\ cancelled' = cancelled \ {k}
    /\ UNCHANGED accepting

\* Mutated Handle: the loop is left with the connection.
HandleOnce(w) ==
    /\ wpc[w] = "busy"
    /\ Drive(w)
    /\ Goto(w, IF c'[w] = NoConn THEN "ended" ELSE "busy")
    /\ UNCHANGED <<main, work, timestr, failed, accepting, wheel, rec, cancelled>>

\* handle_event up to its return.
Handle(w) ==
    /\ wpc[w] = "busy"
    /\ Drive(w)
    /\ Goto(w, IF c'[w] = NoConn THEN "test" ELSE "busy")
    /\ UNCHANGED <<main, work, timestr, failed, accepting, wheel, rec, cancelled>>

\* "stage wheel clear", one slot lock at a time: of the entries that stand in a
\* slot now, the callback finds none; one that is made later it may find.
ExitClear(w) ==
    /\ wpc[w] = "exit"
    /\ Goto(w, "cancel")
    /\ UNCHANGED <<wheelsVars, main, work, timestr, failed, accepting, wheel, rec, cancelled>>

\* Mutated ExitCancel: nothing is cancelled.
ExitCancelsNothing(w) ==
    /\ wpc[w] = "cancel" /\ rec[w] < ATSIZEA
    /\ rec' = [rec EXCEPT ![w] = @ + 1]
    /\ UNCHANGED <<wheelsVars, main, work, timestr, failed, accepting, wpc, wheel, cancelled>>

\* "stage timers cancel", one record under timersmute: CancelIoEx for what the
\* record names.  Nothing is pending when that is not posted yet.  A stale record
\* hits nothing, or an operation at the same address, which may as well have
\* completed by itself.
ExitCancel(w) ==
    /\ wpc[w] = "cancel" /\ rec[w] < ATSIZEA
    /\ cancelled' = cancelled \cup
          {k \in Conns : at[k] = "pending" /\ On(k, w) /\ tid[k] = rec[w] /\ ioc[w][rec[w]] = k}
    /\ rec' = [rec EXCEPT ![w] = @ + 1]
    /\ UNCHANGED <<wheelsVars, main, work, timestr, failed, accepting, wpc, wheel>>

\* Mutated ExitDelete: the loop ends before the last record.
ExitDeleteEarly(w) ==
    /\ wpc[w] = "cancel" /\ rec[w] >= ATSIZEA - 1
    /\ wheel' = [wheel EXCEPT ![w] = "freed"]
    /\ Goto(w, "ended")
    /\ UNCHANGED <<wheelsVars, main, work, timestr, failed, accepting, rec, cancelled>>

\* delete whs; the callback goes on, and so do the connections that are timed on
\* the wheel.  What they then find in freed memory is taken to be what was there.
ExitDelete(w) ==
    /\ wpc[w] = "cancel" /\ rec[w] = ATSIZEA
    /\ wheel' = [wheel EXCEPT ![w] = "freed"]
    /\ Goto(w, "ended")
    /\ UNCHANGED <<wheelsVars, main, work, timestr, failed, accepting, rec, cancelled>>

Run(w) == SetUp(w) \/ SetUpFails(w) \/ LoopTest(w) \/ Handle(w)
          \/ ExitClear(w) \/ ExitCancel(w) \/ ExitDelete(w)

\* A pending operation completes.
End(k) == Complete(k) /\ UNCHANGED lightVars

-----------------------------------------------------------------------------
Next ==
    \/ Serve
    \/ \E w \in Workers :
          \/ Run(w) \/ TakeFailedAccept(w)
          \/ \E k \in Conns : TakeAccept(w, k) \/ Take(w, k)
    \/ \E k \in Conns : End(k)

Spec == Init /\ [][Next]_vars

\* Threads that can go on do; the port is first in, first out, so that a
\* completion is not passed over for ever by workers that keep coming back;
\* and a cancelled operation completes.
Fairness ==
    /\ \A w \in Workers : WF_vars(Run(w))
    /\ \A k \in Conns :
          /\ SF_vars(\E w \in Workers : Take(w, k))
          /\ WF_vars(k \in cancelled /\ End(k))

FairSpec == Spec /\ Fairness

-----------------------------------------------------------------------------
\* Every variable has its type.
TypeOK ==
    /\ WheelsTypeOK
    /\ main \in {"ctor", "serve", "accept", "create", "print", "overflow"}
    /\ work \in BOOLEAN /\ timestr \in BOOLEAN /\ failed \in BOOLEAN
    /\ accepting \in Nat
    /\ wpc \in [Workers -> {"none", "start", "test", "wait", "busy", "exit", "cancel", "ended"}]
    /\ wheel \in [Workers -> {"none", "live", "leaked", "freed"}]
    /\ rec \in [Workers -> 1 .. ATSIZEA]
    /\ cancelled \subseteq Conns

\* The wheels that the next step of k's operation, or its timer, reads or writes.
Uses(k) ==
    CASE at[k] = "arm"                  -> {newtimer[k][dir[k]]}
      [] at[k] = "ready"                -> {oldtimer[k][dir[k]], timers[k]} \ {NoWheel}
      [] at[k] \in {"pending", "queued"} -> {timers[k]} \ {NoWheel}
      [] at[k] = "event"                -> {ot[k], timers[k]} \ {NoWheel}
      [] OTHER                          -> {}

\* Whatever workers a connection has been with, the wheels it is timed on are
\* allocated and have a callback: a worker that could not set its timer never
\* gets a connection, and a wheel is deleted under a connection, or under its
\* own callback, which never ends itself (mwheel.h:16), only after CreateThread
\* has failed (net2.cpp:1050).
WheelsOutliveUse ==
    /\ \A k \in Conns : \A v \in Uses(k) :
          wheel[v] = "live" \/ (failed /\ wheel[v] = "freed")
    /\ \A w \in Workers : wheel[w] = "freed" => failed

\* "stage timers cancel" of w has been at k's record, and k's operation is still
\* pending and not cancelled: nobody ends it but its peer, or an entry made after
\* "stage wheel clear".
Missed(k, w) ==
    at[k] = "pending" /\ On(k, w) /\ tid[k] < rec[w] /\ k \notin cancelled

\* A leaving worker takes the locks of its wheel one at a time while the others go
\* on posting on it (net2.cpp:876-892, worker.h:471).  An operation escapes its
\* CancelIoEx in two ways only: it is posted when the loop has been at its record,
\* or its record had come to name another operation, through an id given twice.
MissedWays ==
    [][\A k \in Conns : \A w \in Workers :
          ~Missed(k, w) /\ Missed(k, w)' =>
             \/ at[k] = "ready"
             \/ rec[w] = tid[k] /\ ioc[w][tid[k]] # k]_vars

\* A completion in the port is handled, however few of the workers could be set
\* up, unless work has been cleared.
Served == \A k \in Conns : at[k] = "queued" ~> (at[k] # "queued" \/ ~work)

\* A record of w's wheel names the pending operation of k.
Named(k, w) == at[k] = "pending" /\ On(k, w) /\ ioc[w][tid[k]] = k

\* An operation that is pending on the wheel of a leaving worker, at a record that
\* the loop has yet to visit, does not wait for a timer that is gone: it ends,
\* unless another operation is given its record first.
LeavingCancels ==
    \A k \in Conns : \A w \in Workers :
        (wpc[w] \in {"exit", "cancel"} /\ Named(k, w) /\ rec[w] <= tid[k]) ~> ~Named(k, w)

=============================================================================
