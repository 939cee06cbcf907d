# iocp-tcp: TLA+ specifications and proofs

The repository holds a small HTTP-like TCP server for Windows built on an I/O
completion port (`src/v2/problemiocpserver`), a load client for it
(`src/v2/ioclient`) and the skeleton of an earlier server (`src/main.cpp`,
`src/worker.h`). This directory specifies the two v2 programs and the skeleton in
TLA+, checks them with TLC on small instances and proves their safety properties
for every instance with TLAPS. Every definition is translated from the code; PROJECT.json
(`map`) names the lines.

Contents: [the system](#1-the-system) · [modules](#2-modules-and-how-they-correspond-to-the-code) ·
[runs](#3-runs) · [fairness](#4-fairness) · [proofs](#5-proofs) ·
[where the code departs from its comments](#6-where-the-code-departs-from-its-own-comments) ·
[not modelled](#7-not-modelled) · [plan](#8-plan)

## 1. The system

### Components, state, operations

| Component | State | Operations | Source |
|---|---|---|---|
| Timer wheel, one per server worker thread | `lst` (60000 slots of timer ids, a mutex each), `timers[]`, `freeids`, cursor `crs` | `maketimer`, `removetimerid`, `wheel_callback` (multimedia timer, 1 ms) | `wstruc.h`, `mwheel.h`, `typs.h` |
| Connections of the server | `ConnCtx` (reference count, phase `ps`, what is left to receive and send, thresholds), the `AcceptEx` pool, the registry `gt.conns` under `gt.mtx`, `concurrentClients`, `totalClients` | `post_accept`, `post_recv`, `post_send`, `handle_event` and its handlers, `freesock`, `addMe`/`removeMe`, the printing loop of `main` | `worker.h`, `timestruc.h`, `net2.cpp` |
| Server start and stop (`Light`) | `work`, `timestr`, the worker threads and the `whstruc` each allocates | the constructor (`clear`, `close`), `serve`, entry and exit of `worker` | `net2.cpp` |
| Load client | `ConnCtx`, `ctlist` under `tstr->mtx`, `work`, two counters | `serve`, `post_connect`, `post_recv`, `post_send`, `handle_event`, `freesock`, `timer_callback` | `ioclient/*` |
| v1 server skeleton | `ConnCtx`, the accepts | `post_*`, `handle_event`, empty handlers | `src/main.cpp`, `src/worker.h` |
| Request tables | `getpool`, `postpool` | `registerString`, `unregister`, hashing | `lights.h`, `hashcode.h`, `net2.cpp` |
| Socket helpers | none | wrappers of socket calls | `tcpcomponent.h` |

### How they interact

Six worker threads wait on one completion port. Whoever dequeues a completion
runs `handle_event` for it: it takes the operation's timer down, looks at the
result, runs a handler, and the handler posts the next operation or frees the
connection. Before an operation is posted, `maketimer` arms a timer on the wheel
of the posting worker; if the timer fires first, the callback cancels the
operation, whose completion then comes back through the port as an aborted one.
`main` prints all registered connections once a second under `gt.mtx`. The
client is the mirror image with one list of connections and one callback instead
of wheels; its connections start in detached caller threads.

A wheel belongs to a worker and a connection does not: whoever dequeues its next
completion takes the old timer down on the wheel where it was armed and arms the
next one on its own. `ConnCtx` carries four wheel pointers for that, the new and
the old one of each direction. `serve` makes the shared state and starts the
workers one by one; each sets up its wheel and its periodic callback, loops while
`work` is set, and then clears its wheel, cancels what is timed on it and deletes
it. The v1 skeleton has no timers and no reference count; its handlers are empty.

### What is hard

* **Hand-over.** From the moment `WSARecv` has been called its completion may be
  handled by another worker, to the end of the connection, while the posting
  worker still holds the `ConnCtx`. The server protects that window with
  `refcount`; the client does not protect it.
* **Giving up on a reference.** `freesock` returns when the count is not zero,
  and nobody calls it again.
* **Timers racing completions.** `maketimer` and `removetimerid` read the cursor,
  take a lock and use what they read; the callback moves in between. An entry the
  callback has swapped out is still addressed by its old index.
* **Moving between wheels.** Four pointers say which wheel to lock, which to write
  to and which to give an id back to; a failed post uses the old one for an id of
  the new one.
* **Coming and going.** A worker may end before its first completion, or leave with
  connections still timed on its wheel, while its callback runs on.
* **Partial failure.** A failed `WSARecv`, `AcceptEx`, `CreateThread`,
  `timeSetEvent`, an empty pool of timer ids.
* **Protocol phases.** Receive and send alternate by convention only, and a few
  requests (arguments, unknown types, very short names) leave the path the
  phases describe.
* **Endings.** A peer that closes early makes both programs post empty receives
  for ever.

The full list, each at its line and with the properties that watch it, is
`hazards` in PROJECT.json.

### What correctness means

* Timer wheel: an entry can be found where its record says; an id has one owner;
  nothing is cancelled before its time; only its own operation is cancelled;
  a pending operation does not lose its timer; ids do not leave the pool for good.
  What the operations are owed by all this together is the module `Timers`.
* Server connection: one driver at a time; an exact reference count; nothing used
  after delete; no operation in flight on freed memory; nothing left behind;
  exact registry, counters and accept pool; freed in the end, as far as its peer
  lets it (`Settles`).
* Wheels of several workers: the record and the lock of a timer are of one wheel
  (`OtIsTimers`), and an id is in one place however connections move
  (`OneOwnerBreaks` names the one exception).
* Start and stop: a wheel outlives the connections timed on it and its own
  callback (`WheelsOutliveUse`), a completion is handled whichever workers could be
  set up (`Served`), and what is timed on a wheel that goes away ends
  (`LeavingCancels`), unless it is posted too late for that (`MissedWays`).
* v1 skeleton: a worker is alone with a connection, on live memory
  (`AloneOnLiveMemory`); connections and accepts are lost in known ways only
  (`LostWays`, `AcceptPool`).
* Client connection: the same, with the list in place of the registry.

Where the code does not satisfy one of these in general, the property says
exactly when it fails (`StrayOnlyAfterFailedPost`, `LostOnlyByStaleUnlink`, `LeakWays`,
`AbandonedTwoWays`, `LiveUntilTail`, `OneOwnerBreaks`, `WheelsOutliveUse`,
`MissedWays`, `LostWays`, both `Settles`), so that a new way of failing would be seen.

## 2. Modules and how they correspond to the code

    Ownership                     who has a ConnCtx (abstract)
      instantiated by ConnServer, Client and V1Server, which each implement it

    Timers                        what timed operations are promised (abstract)
      instantiated by TimerWheel, which implements it

    TimerWheel                    one wheel, slot by slot
    ConnServer                    the connections of the server
    Client                        the load client
    Wheels <- Light               the wheels of all workers; start and stop around them
    V1Server                      the skeleton

`Light` extends `Wheels`: every step of a worker or of the I/O manager in `Light` is
a step of `Wheels` together with what start and stop add to it. For each of
TimerWheel, ConnServer, Client, Light and V1Server, the module `MC...` extends it
for TLC; `TimerWheelProofs`, `TimersProofs`, `ConnServerProofs`, `ClientProofs`,
`WheelsProofs`, `LightProofs` and `V1Proofs` hold the theorems about them, and
`TimersFacts` those about the contract `Timers`.

### TimerWheel

One wheel, the callback, and the operations timed on it. An element of `Ops` is
one overlapped-operation slot of a connection; its thread goes through

    idle -> alloc -> insert -> ready        maketimer's three critical sections
         -> posted -> done                  WSARecv/WSASend, the completion
         -> touched -> remove -> idle       handle_event, removetimerid

with `unpost` for a call that fails at once. `CbAdvance`, `CbSwap`, then one of
`CbDrop`, `CbFire`, `CbRequeue` per entry, and `CbDone` are the callback: it
moves the cursor without a lock, and holds the lock of one slot from `CbSwap` to
`CbDone`. Every other critical section of the source is one action. `SwapPop` is
the swap-with-last-and-pop of `removetimerid`, applied like the code does to
whatever stands at the index. Three ghosts: `left` (ticks until a timeout is due),
`cancelled` (which cancellation reached the operation) and `orphaned` (ids whose
post failed before there was an old wheel). `CancelIoEx` is external: it hits the
operation the timer was armed for if that is pending, and for a context that has
been freed it hits nothing or whatever is now pending at that address.

### Timers

What an operation can tell of the wheel: how long ago it asked for a timer
(`asked`), whether the timer is armed, gone, or being closed by a worker, in how
many ticks it is due, and what has become of the operation itself. There are no
slots, ids, cursor or locks. `Arm` chooses when the timer is due: with the
operation's timeout or one turn later, and freely only if the thread was held
up for the whole timeout between asking and arming. `Tick` does not pass over a
timer that is due; `CloseStale` is the late removal that takes another timer out,
and `Strike`, the cancellation of an operation by a timer that is not its own,
needs one that a failed post has forgotten. `TimerWheel` instantiates it
(`TimersKept`): a timer is armed while its id is in a slot or in the callback's
local vector and no worker has it, and it is due in
`WHLCST * rounds + Dist(wheelpos)` ticks, or `WHLCST * rounds` once the callback
has it. Running without a timer, because the pool is dry, is an operation that
never arms. Pool and leaks are below this contract; `LeakWays` is about them.

### ConnServer

The workers (`pc`, `c`, `op`, `after`), the connections, the port (`inflight`: the
operations of each connection that are posted or completed and not yet dequeued),
the accept pool as a counter, and `main`. A buffer is a number of `Pieces`, so
that complete, partial and empty transfers are told apart and their contents are
not. Actions are the pieces of the handlers between two points where another
thread can see a difference: `fetch_add`, the system call, `fetch_sub`, each
mutex, `delete`. `Results` is the I/O manager: any progress, failure or abort, and
a receive of zero bytes only after the peer's FIN. Aborts may come at any time,
which includes all that the timer wheel can do. `after` records what
`handle_event` still touches once its handler is back (`lastrecvamifree`,
`lastsendamifree`, the dump); `NoUseAfterFree` covers every access before that
point, and the accesses after it are listed as a hazard.

### Client

Workers and callers are threads with one program counter each (`Threads`).
`PostConnect`, `Link` and then `PostIssue` or `PostFail` are `post_connect`;
`Tail` stands for what `post_connect`, `post_recv` and `post_send` store in the
`ConnCtx` after the system call. `serve` may fail to create a worker
(`WorkerNotCreated`), upon which `work` is cleared and the others stop after one
completion each. The callback holds `tstr->mtx` from its first entry to its last
and, as no timeout is ever set, changes nothing. `pkt` is set when the connect
has succeeded and decides whether `freesock` counts the connection out.

### Wheels

Where TimerWheel follows one wheel through its slots, Wheels follows all of them,
as far as a connection that moves between them can tell: the pool of each wheel
(`freeids`, a list like the source's vector, whose end `maketimer` takes from and
whose front `removetimerid` gives to), the pointer from a timer record to the
`IoCtx` it is for (`ioc`), the four wheel pointers of a `ConnCtx` (`newtimer`,
`oldtimer`, per direction), the local `ot` of `handle_event`, and `timers`, `tid`
and `timed` of the operation's `IoCtx`. A worker names its wheel. A connection goes
through

    none -> arm -> ready -> pending -> queued -> event -> handle -> arm or gone

and `Accept`, `MakeTimer`, `PostOk`, `PostFail`, `Dequeue`, `TakeDown` are the steps
in which the code reads or replaces a wheel pointer. Slots are left out: whether a
removal meets the cursor, where it only marks the entry, is a choice, and so is
whether a pending operation completes by its peer or by its timer. TimerWheel has
the details and the two together cover `mwheel.h`.

### Light

`main` is the constructor, `serve` with each early return, and the printing of
`main()`; it posts an accept and creates a worker in turn. A worker (`wpc`) is
set up, tests `work`, waits for a completion, handles it and comes back to the
test; once `work` is false it goes through the exit stages. `wheel` is what becomes
of the `whstruc`: live, leaked (`timeSetEvent` failed and the thread ended) or freed.
`ExitClear` is the stage "wheel clear", whose effect is on slots, which Wheels leaves
out. `ExitCancel` is one turn of the stage "timers cancel": it takes one record under
its lock, cancels the operation the record names and moves `rec` on, so that the
other workers arm, post and complete between any two records, ahead of the loop and
behind it. `cancelled` remembers which pending operations `CancelIoEx` has hit.
`ExitDelete` frees the wheel when the loop is through; other workers may still be
using it then, and what they find there is taken to be what was there. The periodic
callback never ends by itself: `wheel_callback` tests a `bool` that `net2.cpp:1034`
fills with the address of `Light::work`. One ghost: `failed` (a `CreateThread` has
failed).

`MissedWays` is about a step: the one after which an operation is pending on the wheel
of a leaving worker, not cancelled, and the loop is past its record. It has just been
posted, or the loop has just been at its record and found another operation named
there (an id in two places, `OneOwnerBreaks`). `LeavingCancels` is its other half:
what is pending at a record ahead of the loop ends.

### V1Server

`src/worker.h` whole. The three handlers are empty in the source; the model lets
each end in every way a handler built from the file's own functions can
(`Handlers`: a receive, a send, `freesock`, or nothing), with one operation at
most, as the v2 server does, which is this skeleton filled in. The loop of the
worker threads is not in the repository and is taken to hand every completion
to `handle_event`. The model has no reference count because the code has
none: what keeps two workers apart is that `post_recv` and `post_send` touch
nothing after the system call.

### Ownership

The contract the three programs are shown to implement: a `ConnCtx` is owned by
nobody, a thread, the system, or is freed or lost; it passes from thread to
system with a post and back with a completion; only the thread that owns it
deletes it. `ConnServer`, `Client` and `V1Server` instantiate it with
`owner <- [k \in Conns |-> OwnerOf(k)]`, the server and the skeleton with
`MayLose = TRUE`, the client with `MayLose = FALSE`: the client, which has no
reference count, never leaves a connection behind; the server, which has one, does.

Operators whose comment begins with "Mutated" are wrong variants of the
definition that follows them. No specification uses them; replacing the
definition by its variant makes the property that PROJECT.json names fail, which
shows that the property can tell the difference.

## 3. Runs

`tlc -config <cfg> <MC module>`.

| Run | Config | Instance | Shows |
|---|---|---|---|
| wheel | MCTimerWheel.cfg | 3 slots, 2 ids, timeout 1, 2 operations | types, `BucketsIndexed`, `OneOwner`, `NeverEarly`, `StrayOnlyAfterFailedPost`, `LostOnlyByStaleUnlink`, `LeakWays`, `TimersKept` |
| wheel_live | MCTimerWheelLive.cfg | 3 slots, 1 id, 2 operations | `WatchedTimesOut` |
| wheel_on_time | MCTimerWheelScheduledOnTime.cfg | 4 slots, timeout 2 | violated: section 6 |
| wheel_unlink | MCTimerWheelRemovalUnlinksOwn.cfg | 4 slots, timeout 2 | violated: section 6 |
| server | MCConnServer.cfg | 2 workers, 1 connection, 2 accepts, 2 pieces | types, `OneDriver`, `RefCountExact`, `NoUseAfterFree`, `NoOrphanOperation`, `ArgumentsNeverPending`, `MonitorSafe`, `CounterExact`, `AcceptPool`, `AbandonedTwoWays`, `OwnershipKept`, `Settles` |
| server_arguments | MCConnServerArgumentsAreRead.cfg | 2 workers, 1 connection | violated: section 6 |
| server_reply | MCConnServerReplyIsSent.cfg | 2 workers, 1 connection | violated: section 6 |
| client | MCClient.cfg | 2 workers, 1 caller, 2 connections, 2 pieces | types, `OneDriver`, `LiveUntilTail`, `ListExact`, `CountersExact`, `OwnershipKept` |
| client_live | MCClientLive.cfg | 2 workers, 1 caller, 1 connection, 2 pieces | `Settles` |
| light | MCLight.cfg | 2 workers, 2 connections, 1 timer id per wheel, 2 accepts | types, `OtIsTimers`, `WheelsOutliveUse`, `OneOwnerBreaks` |
| light_live | MCLightLive.cfg | 3 workers, 1 connection, 1 timer id per wheel, 1 accept | `Served`, `MissedWays`, `LeavingCancels` |
| v1 | MCV1Server.cfg | 3 workers, 2 connections, 2 accepts, 3 pieces, all endings | types, `AloneOnLiveMemory`, `AcceptPool`, `LostWays`, `OwnershipKept` |

**Bounds.** On the wheel, 3 slots are the fewest that `WheelAssumption` admits
(`Timeout <= WHLCST - 2`) and already contain the wrap of the cursor, entries
with and without a round to wait, two entries in one slot and a slot locked by
the callback while it is wanted. Two ids let the pool run dry with two
operations; with one id (the liveness run) it is dry at once. Two workers on a
server connection are one that posts and one that handles the completion
meanwhile, down to `freesock`; the second accept lets the pool differ from the
number of connections. Two wheels are what a move between wheels needs, and with
`ATSIZEA = 2` a wheel has one id (id 0 is never handed out), so that its pool is
empty as soon as one connection is timed on it and an id in two places is met at
the next step. The exit stages need a third worker: `CreateThread` has to fail after
two workers have started, so that one of them leaves while the other handles a
completion it was waiting for and posts on the wheel of the first, as the operation's
direction still points there. `MaxAccepts` bounds the `AcceptEx` operations of Light;
their pool is ConnServer's subject, and one is enough for the one connection of the
liveness run. One connection cannot have its record overwritten by another; the
second of the `MissedWays` takes three, and is left to the proof. Three workers and
two connections of the skeleton put one worker in
each of posting, completing and accepting.
Two pieces give a first part, a rest and an empty transfer. Two connections are
needed where connections share something (the client's list and counters, a
wheel's pool, the workers of the skeleton). The server shares its registry,
counters and mutexes among connections too, and its run has one, for the sake of
two pieces, two accepts and liveness in the same instance: there one connection
meets `main`, and `MonitorSafe`, `CounterExact` and `AcceptPool` are proved for any
number. A `ConnCtx` serves one connection
in its life, so a run contains as many connections as `Conns` has elements;
`totalClients` and `totalServers` are bounded by that, without a cap of their
own. The proofs of section 5 do away with the bounds for every safety property of
the passing runs.

**Symmetry and views.** Workers, callers, connections and operations are
symmetric; symmetry is used in runs of safety properties only. `LiveView` in
the MC modules that need one identifies states that differ in dead fields: the record of a timer id
that nobody carries, the fields of a freed `ConnCtx`.

**Deadlock** is checked on the wheel (the callback always goes on) and on the server
(`main` always goes on). It is off for the client, which stops when its bounded
set of connections is used up, or when its workers have left after
`WorkerNotCreated`, for Light, where the constructor may never return (section 6),
workers leave and the connections are used up, and for the skeleton, where lost
accepts and used-up connections leave nothing to do.

## 4. Fairness

Liveness is stated under `FairSpec`, and each assumption is one the program's
scheduling gives:

* threads that can take a step take one (weak fairness of each worker's, caller's
  and `main`'s own steps);
* a thread that keeps asking for a mutex gets it (strong fairness of `AddMe`,
  `RemoveMe`, `Link`, `Unlink`): the other holder, `main` or the callback,
  releases it and then sleeps for a second or a millisecond;
* the completion port is first in, first out, so a completion is not passed over
  for ever (strong fairness of the dequeue, per connection);
* the multimedia timer keeps calling (`Callback`), and a cancelled operation
  completes (`Abort`);
* in `Light` each worker that has been started goes on with its own steps (`Run`),
  the dequeue of each connection's completion is strongly fair (the port again),
  and an operation that the exit stages have cancelled completes; nothing is
  assumed about any other operation, about `main`, or about workers waiting for
  accepts.

Nothing is assumed about peers, new connections, `CreateThread`, which of the possible
results an operation has, or that an operation ends at all. On the server it ends if
its timer stays in the wheel (`WatchedTimesOut`), but with an empty pool it has no
timer (`wstruc.h:28`), and a stale unlink may take the one it has (`wstruc.h:166`,
section 6). The client sets no timeout anywhere. A silent peer then keeps a connection
for ever, and `Settles` says so instead of assuming it away. It reads: a connection does not stay
allocated for ever, unless

* one and the same operation of it stays pending for ever (`<>[]Waiting(k)`);
* it goes round for ever in receives that bring nothing after the peer's FIN
  (`[]<>EmptyReceive(k)`), because neither program compares the byte count with zero
  (`worker.h:865`; the client's `worker.h:733`);
* on the server, it has been let go of (`Abandoned`, the two ways of
  `AbandonedTwoWays`);
* in the client, a thread could not be created, and all workers have stopped with its
  completion still in the port (`<>[]Unserved(k)`).

Each of these happens: without any one of them TLC finds `Settles` violated.
What is left for it to exclude is every other way of going round or standing still: a
handler that keeps receiving what it has, a worker that lets go of a connection
unnoticed, a mutex that is never released, a completion that nobody takes while
somebody could.

## 5. Proofs

`tlapm <module>`. All theorems hold for every value of the constants that satisfies
the assumption of the module: `WheelAssumption` (`1 <= Timeout <= WHLCST - 2`, a
pool size, a null pointer that is not an operation; the source has 50, 60000 and
its pool), `ServerAssumption` and `ClientAssumption` (finite sets of threads and
connections, a null pointer that is not a connection, at least one piece, and in
the client disjoint sets of workers and callers), `WheelsAssumption` (a size of
`timers[]` and two null pointers) and `V1Assumption` (finitely many workers, a null
pointer, natural numbers of accepts and pieces). TLC evaluates the assumptions
in the runs.

What TimersFacts proves is about a contract and has its hypotheses in the statement:
a turn longer than the timeout, as `WheelAssumption` has it.

**TimerWheelProofs.** `TypeOK` alone is not inductive: that a removal keeps the
indices in range depends on the indices being right, that they are right depends
on an id being listed once, and that depends on where the callback stands. The
invariant is `IInv == TypeOK /\ TidSet /\ PlaceInv /\ ScheduleInv`: each id is in
one place (pool, one slot, the callback's local vector, or nowhere), a slot's
entries are indexed, an operation's timer is where its program counter says
(`PlaceInv` with its parts `BucketsIndexed`, `CurvecInv`, `FreeInv`, `OpInv`), and
the distance of a timer's slot from the cursor, in ticks, plus the rounds still to
wait is never less than what is left of its timeout (`ScheduleInv`). The upper
bound on `Timeout` is what keeps the slot of a new timer away from the slot the
callback is about to lock. `LostOnlyByStaleUnlink` is proved as an action
property from it, with `LinkInv` for the entries of the operation that is watched.

**TimersProofs.** The inequality of `ScheduleInv` says that nothing is early; that
a timer is due exactly when `Timers` says needs equations. `ExactInv`: while an
operation has any of its timeout left, that is the distance of its slot from the
cursor, and its record has a round to go if and only if the slot is below
`Timeout`, which is where `maketimer`'s sum goes past the end. It holds only as
long as something is left, since a thread may be held up inside `maketimer` for
any number of turns. `LoopInv` places the cursor right behind the slot whose
entries the callback has in hand, so that an entry put back is one whole turn
away. `TInv` is the two together with `IInv` and `LinkInv`. From it:

* `LateExactlyPastTheEnd`: a linked timer whose operation has time left is due on
  time, or exactly `WHLCST` ticks late, the latter just for the slots below
  `Timeout`. It is what holds where `ScheduledOnTime` (section 6) fails.
* `IdsLeakThreeWaysOnly`: the action property `LeakWays`. An id in nobody's hands
  came from a post that failed before there was an old wheel, or from a removal
  that met the cursor, after the callback had fired the id or before it drops the
  marked entry.
* `WheelImplementsTimers`: the refinement, one lemma per action. Each says what the
  step does to the view of one operation (`OneView`) or of none (`NoView`);
  `ReadAsks`, `InsertArms`, `OkPosts`, `EndCompletes`, `TouchTakesDown`,
  `FailedPostLeaves`, `MarkCloses`, `UnlinkCloses`, `AdvanceTicks` and
  `FireExpires` say to which action of `Timers` their step maps (a failed post to
  `TakeDown` or `Forget`, a firing timer to `Expire`, `Strike` or a stutter);
  taking a slot's entries over and putting one back for its next round are
  stutters. The swap-and-pop is the hard step: it takes out one entry at most
  (`UnlinkTakesOne`), and either nobody counts on that entry, which is `Close`, or
  one other operation does, which is `CloseStale` (`UnlinkCloses`).

**TimersFacts.** `ContractHolds`: in every implementation of `Timers` with a turn
longer than the timeout, an operation that expired has had its whole timeout, a
timer whose operation has time left is due with it or a turn later, and an
operation is struck only once a timer has been forgotten.

**ConnServerProofs.** `IInv` adds to the checked invariants what they rest on: a
worker has a connection exactly when its program counter says it works on one,
and nobody holds a reference to a connection that is past `freesock`'s test
(`Control`); a connection past `removeMe` is not registered (`Registry`); no
completion carries more bytes than its buffer has room for (`Data`). `Control` is
the core: whoever frees drives, one worker drives, and a driver past the test saw
a count of zero, which is exact; the three only hold together. Counters are proved
with the cardinality lemmas of FiniteSetTheorems. `AbandonedInTwoWaysOnly` is an
action property: the step lemma says that a step after which nobody has the
connection is a `freesock` that met the poster's reference or `handle_packet` with
an unknown type.

`ArgumentsAreNeverReceived` has an invariant of its own (`Phases`): a
connection whose phase is one of the two argument phases has nothing left to
receive and no operation in flight, and its driver is in `freesock` or about to
call `post_recv` for nothing, which ends in `freesock`; it is shown to start when
the phase is entered (`LateStarts`) and to stay (`LateStays`).

**ClientProofs.** Without a count, `Control` is `OneDriver`, `NeverAbandoned`,
`LiveUntilTail` and the shape of the threads, and every step is one of: a driver
drives on, a bystander stands by, open, post, complete, dequeue, delete. The list
needs that the callback has nothing left to visit when it is outside the mutex
(`Listed`); the counters need that a connection has no `pkt` before its connect
has succeeded (`PktAfterConnect`).

**WheelsProofs.** `SameWheel` is what `OtIsTimers` rests on: an operation that is
timed has `timers` equal to the new wheel pointer of its direction until
`handle_event` moves that pointer to `ot`. `IdsBreakOneWayOnly` is proved for each
pair of wheels and each action, from what a pool without repetitions becomes when
its last id is taken (`PopSeq`) and an id is put in front (`PushSeq`).

**LightProofs.** `ServerRunsWheels` shows `Spec => WheelsSpec`: whatever start and
stop do, the wheels see only steps of Wheels, so its theorems hold for the server
as a whole (`ServerLocksItsWheel`, `ServerIdsBreakOneWayOnly`). The rest is from
`LightInv`: nobody works on a connection before `serve` has come up (`Started`),
each worker's place determines what its wheel is (`WheelLife`), and whichever wheel a
connection points to belongs to a worker that got past its set-up
(`PointersUsable`). The last is what makes `WheelsOutliveUse` inductive.
`MissedInTwoWaysOnly` proves `MissedWays` from two facts about a step: an operation
that is pending after it and was not posted by it was pending before, with the same
wheel and id (`PendingBefore`); and the loop moves on by one record only by being at
it, where it cancels what the record names, which stays cancelled as long as it is
pending (`PassingCancels`).

**V1Proofs.** `V1Inv` is the shape of the workers, `AloneOnLiveMemory`, that a
connection has one operation at most and is allocated, with its socket open, while
it has one (`Flight`), and the conservation of accepts with the workers that still
have one to post.

**Refinement.** `ServerImplementsOwnership`, `ClientImplementsOwnership` and
`SkeletonImplementsOwnership` prove `Spec => OwnershipKept` and
`WheelImplementsTimers` proves `Spec => TimersKept`, the initial state and every
step mapped as in section 2. That the client leaves no connection behind is the
same statement twice, as `MayLose = FALSE` in its `OwnershipKept`, which the run
checks, and as the invariant `NeverAbandoned` (`ClientAbandonsNothing`), on which
its proof rests.

Model-checked only: the liveness properties (`WatchedTimesOut`, both `Settles`,
`Served`, `LeavingCancels`), since liveness under fairness is out of reach of the
prover, and the four violated properties, where the counterexample is the result.

## 6. Where the code departs from its own comments

1. **A turn too many** (`wstruc.h:77`, `ScheduledOnTime`). `rounds` is
   `(cursor + timeout) / WHLCST`, so a timer armed within `timeout` ticks of the
   end of the wheel gets a round although its slot comes up in `timeout` ticks,
   and is due one whole turn (60000 ticks) late. The parameter is documented as
   a number of milliseconds (`worker.h:22`, `net2.cpp:831`).
2. **The wrong entry leaves** (`wstruc.h:166`, `RemovalUnlinksOwn`). When the
   callback has taken an entry out between the completion and `removetimerid`, and
   the slot is not empty, the swap-and-pop removes somebody else's entry;
   `wstruc.h:159` calls this branch "unlink, then add to the free list".
   `LostOnlyByStaleUnlink` shows that this is the only way to lose a timer.
3. **Arguments are never read** (`worker.h:135`, `ArgumentsAreRead`). The flag is
   tested before it is assigned, so the phases `typs.h:42-43` describe are reached
   with nothing to receive and the connection is closed.
4. **A POST has no reply** (`worker.h:283`, `ReplyIsSent`). The reply that
   `worker.h:270` asks for is built and then freed with the connection.

Beside these, writing the models brought out behaviour that no comment contradicts
and that the models therefore contain as it is:

* **The callback outlives its wheel** (`net2.cpp:1034`). `tstr->work`, which
  `wheel_callback` tests to end itself, is a `bool` that is given the address of
  `Light::work` and so is always true. A worker that leaves deletes its wheel under
  a callback that goes on; leaving happens after a failed `CreateThread` only, as
  the second half of `WheelsOutliveUse` says.
* **The constructor may not return** (`net2.cpp:971`). `clear` reads `work` before
  anything has set it and calls `close`, which calls `clear`.
* **A failed post mixes two wheels** (`worker.h:480`, `539`). The id just taken from
  the new wheel is given to the old one. `OneOwnerBreaks` shows that an id
  gets into two places in no other way.
* **`main` prints from nothing** (`net2.cpp:1231`) when `serve` has returned before
  `timestr` was made.
* **The skeleton forgets** connections whose operation fails (`src/worker.h`), and
  accepts that fail.

## 7. Not modelled

* Request tables (`lights.h`, `hashcode.h`) and the contents of packets: nothing
  calls `registerString` or `unregister` and no handler looks a request up, so the
  tables are empty in every run of the program and no state depends on them.
* `Light::close` beyond its call in the constructor: nothing else calls it.
* The worker loop of v1 and what surrounds it: `src/main.cpp` is a fragment.
* Socket helpers (`tcpcomponent.h`): wrappers of system calls without state.
  That opening the listening socket may fail is part of `ServeFails`.
* The keepalive and streaming branches of both programs: the flags are set to
  false for every connection and never changed.
* The counting branches of the client's callback: no timeout is ever set there.
* Memory of the individual buffers (a name of length 1 leads to a second `free`,
  length 0 wraps a `DWORD`): request `"noname"` follows the control flow of the
  first up to `freesock`, the buffers themselves are not state.
* The writes of `ov_recv`, `recvtio` and the like that no decision depends on;
  the client's are the step `Tail`, since they come after the hand-over.
* A `SwapPop` with an index past the end writes outside the vector; the model
  has the pop and leaves the stray write out, as what it hits is not state.

## 8. Plan

Done, in this order: TimerWheel, ConnServer and Client with their proofs, Ownership
and the first two refinements; then Wheels and Light (start and stop, connections
that move between wheels), V1Server, their proofs and the third refinement; then
Timers, shown to be implemented by TimerWheel, and the ways the pool loses ids.

Left:

1. **Timers with ConnServer**: aborts of ConnServer only when a timer expires or
   strikes, as a composition of ConnServer with Timers in place of the wheel (the
   product with TimerWheel itself is too large to check); shows that the `<>[]Waiting`
   of `Settles` is left only for operations without a timer or with a lost one.
2. **Stop in earnest**: `close`, once something calls it.
3. **Request tables**: `hashcode` with its 16-bit index against a 32-bit length,
   and the map under its mutex, once a handler looks something up.
