------------------------------ MODULE PoolStart ------------------------------
(***************************************************************************)
(* start_worker_clients: the pool is started worker by worker, all or none *)
(* of it. WorkerClient.start and shutdown are split where they wait, the   *)
(* children load, fail and die in between, and Ctrl-C may arrive at any    *)
(* wait. It ends where Scheduler's Init begins.                            *)
(***************************************************************************)
EXTENDS Naturals, Sequences, SequencesExt

CONSTANTS
    NumWorkers,    \* len(workers)
    StreamBuffer,  \* stream_buffer_chunks
    Mortal,        \* bound: the workers whose child may be killed from outside
    Interrupts     \* bound: how often Ctrl-C is pressed

Workers == 1..NumWorkers

ASSUME PoolAssumption ==
    /\ NumWorkers \in Nat \ {0}
    /\ StreamBuffer \in Nat \ {0}
    /\ Mortal \subseteq Workers
    /\ Interrupts \in Nat

VARIABLES
    wstate,      \* WorkerClient._state
    child,       \* the child process
    results,     \* the kinds of the messages in the result queue
    asked,       \* workers with a "shutdown" in the pipe
    cut,         \* workers whose transport is cleaned up
    pc,          \* where start_worker_clients is
    cursor,      \* the worker that is being started
    todo,        \* the workers still to be shut down
    interrupts,  \* Ctrl-C so far
    spared       \* history: workers whose shutdown was interrupted

clientVars == <<wstate, cut>>
childVars == <<child, results, asked>>
callVars == <<pc, cursor, todo, interrupts, spared>>
vars == <<clientVars, childVars, callVars>>

IsAlive(w) == child[w] \in {"loading", "serving", "exiting"}
Stopping == Head(todo)

Init ==
    /\ wstate = [w \in Workers |-> "created"]
    /\ child = [w \in Workers |-> "none"]
    /\ results = [w \in Workers |-> <<>>]
    /\ asked = {}
    /\ cut = {}
    /\ pc = "start"
    /\ cursor = 1
    /\ todo = <<>>
    /\ interrupts = 0
    /\ spared = {}

---------------------------------------------------------------------------
\* start()

\* Mutant: the worker that failed and those never started are left out.
CleanupOrderStarted == Reverse([i \in 1..(cursor - 1) |-> i])
\* The started ones, newest first, then the others.
CleanupOrder ==
    Reverse([i \in 1..(cursor - 1) |-> i]) \o [i \in 1..(NumWorkers + 1 - cursor) |-> cursor - 1 + i]

BeginCleanup == pc' = "clean" /\ todo' = CleanupOrder

Spawn ==
    /\ pc = "start"
    /\ wstate' = [wstate EXCEPT ![cursor] = "starting"]
    /\ child' = [child EXCEPT ![cursor] = "loading"]
    /\ pc' = "await"
    /\ UNCHANGED <<cut, results, asked, cursor, todo, interrupts, spared>>

\* process.start() raises, no WorkerError.
SpawnRaises ==
    /\ pc = "start"
    /\ wstate' = [wstate EXCEPT ![cursor] = "starting"]
    /\ BeginCleanup
    /\ UNCHANGED <<cut, childVars, cursor, interrupts, spared>>

\* Mutant: the last worker is not recognised.
AwaitReadyGoesOn ==
    /\ pc = "await"
    /\ results[cursor] # <<>>
    /\ Head(results[cursor]) = "ready"
    /\ results' = [results EXCEPT ![cursor] = Tail(@)]
    /\ wstate' = [wstate EXCEPT ![cursor] = "ready"]
    /\ pc' = "start"
    /\ cursor' = cursor + 1
    /\ UNCHANGED <<cut, child, asked, todo, interrupts, spared>>
AwaitReady ==
    /\ pc = "await"
    /\ results[cursor] # <<>>
    /\ Head(results[cursor]) = "ready"
    /\ results' = [results EXCEPT ![cursor] = Tail(@)]
    /\ wstate' = [wstate EXCEPT ![cursor] = "ready"]
    /\ pc' = IF cursor = NumWorkers THEN "running" ELSE "start"
    /\ cursor' = cursor + 1
    /\ UNCHANGED <<cut, child, asked, todo, interrupts, spared>>

AwaitError ==
    /\ pc = "await"
    /\ results[cursor] # <<>>
    /\ Head(results[cursor]) # "ready"
    /\ results' = [results EXCEPT ![cursor] = Tail(@)]
    /\ wstate' = [wstate EXCEPT ![cursor] = "failed"]
    /\ pc' = "abort"
    /\ UNCHANGED <<cut, child, asked, cursor, todo, interrupts, spared>>

\* Mutant: a worker that is late is taken for one that is ready.
AwaitNothingGoesOn ==
    /\ pc = "await"
    /\ results[cursor] = <<>>
    /\ wstate' = [wstate EXCEPT ![cursor] = "ready"]
    /\ pc' = IF cursor = NumWorkers THEN "running" ELSE "start"
    /\ cursor' = cursor + 1
    /\ UNCHANGED <<cut, childVars, todo, interrupts, spared>>

\* startup_timeout_seconds have passed: the child is late, or dead.
AwaitNothing ==
    /\ pc = "await"
    /\ results[cursor] = <<>>
    /\ wstate' = [wstate EXCEPT ![cursor] = "failed"]
    /\ pc' = "abort"
    /\ UNCHANGED <<cut, childVars, cursor, todo, interrupts, spared>>

\* _terminate_and_join: terminate, and kill what does not go.
Terminated(w) == child' = [child EXCEPT ![w] = IF @ = "none" THEN "none" ELSE "dead"]

Abort ==
    /\ pc = "abort"
    /\ Terminated(cursor)
    /\ BeginCleanup
    /\ UNCHANGED <<clientVars, results, asked, cursor, interrupts, spared>>

\* KeyboardInterrupt in start(): the state stays what it was.
StartInterrupted ==
    /\ pc \in {"start", "await", "abort"}
    /\ interrupts < Interrupts
    /\ interrupts' = interrupts + 1
    /\ BeginCleanup
    /\ UNCHANGED <<clientVars, childVars, cursor, spared>>

---------------------------------------------------------------------------
\* shutdown() of Head(todo); whatever it raises is swallowed.

StopAndCut(w) ==
    /\ wstate' = [wstate EXCEPT ![w] = "stopped"]
    /\ cut' = cut \cup {w}
    /\ todo' = Tail(todo)
    /\ pc' = "clean"

CleanCreated ==
    /\ pc = "clean"
    /\ todo # <<>>
    /\ wstate[Stopping] = "created"
    /\ wstate' = [wstate EXCEPT ![Stopping] = "stopped"]
    /\ todo' = Tail(todo)
    /\ UNCHANGED <<pc, cut, childVars, cursor, interrupts, spared>>

CleanFailed ==
    /\ pc = "clean"
    /\ todo # <<>>
    /\ wstate[Stopping] = "failed"
    /\ pc' = "terminate"
    /\ UNCHANGED <<clientVars, childVars, cursor, todo, interrupts, spared>>

\* The pipe of a child that is gone is broken; of one about to go perhaps.
AskToStop ==
    /\ pc = "clean"
    /\ todo # <<>>
    /\ wstate[Stopping] \in {"starting", "ready"}
    /\ child[Stopping] # "dead"
    /\ wstate' = [wstate EXCEPT ![Stopping] = "stopping"]
    /\ asked' = asked \cup {Stopping}
    /\ pc' = "ack"
    /\ UNCHANGED <<cut, child, results, cursor, todo, interrupts, spared>>

AskBroken ==
    /\ pc = "clean"
    /\ todo # <<>>
    /\ wstate[Stopping] \in {"starting", "ready"}
    /\ child[Stopping] \in {"exiting", "dead"}
    /\ StopAndCut(Stopping)
    /\ UNCHANGED <<childVars, cursor, interrupts, spared>>

\* What comes first is taken, the "ready" or the error of a child that was
\* interrupted in its start too.
AckTaken ==
    /\ pc = "ack"
    /\ results[Stopping] # <<>>
    /\ results' = [results EXCEPT ![Stopping] = Tail(@)]
    /\ pc' = IF Head(results[Stopping]) = "ack" THEN "join" ELSE "terminate"
    /\ UNCHANGED <<clientVars, child, asked, cursor, todo, interrupts, spared>>

AckNothing ==
    /\ pc = "ack"
    /\ results[Stopping] = <<>>
    /\ pc' = "terminate"
    /\ UNCHANGED <<clientVars, childVars, cursor, todo, interrupts, spared>>

Joined ==
    /\ pc = "join"
    /\ ~IsAlive(Stopping)
    /\ StopAndCut(Stopping)
    /\ UNCHANGED <<childVars, cursor, interrupts, spared>>

\* Mutant: join() without a timeout.
JoinWaits ==
    /\ pc = "join"
    /\ ~IsAlive(Stopping)
    /\ pc' = "terminate"
    /\ UNCHANGED <<clientVars, childVars, cursor, todo, interrupts, spared>>
JoinTimedOut ==
    /\ pc = "join"
    /\ IsAlive(Stopping)
    /\ pc' = "terminate"
    /\ UNCHANGED <<clientVars, childVars, cursor, todo, interrupts, spared>>

Terminate ==
    /\ pc = "terminate"
    /\ Terminated(Stopping)
    /\ StopAndCut(Stopping)
    /\ UNCHANGED <<results, asked, cursor, interrupts, spared>>

\* KeyboardInterrupt in shutdown(): its finally clause runs, except for a
\* failed client, which has none.
StopInterrupted ==
    /\ pc \in {"ack", "join", "terminate"}
    /\ interrupts < Interrupts
    /\ interrupts' = interrupts + 1
    /\ spared' = spared \cup {Stopping}
    /\ IF wstate[Stopping] = "failed"
       THEN todo' = Tail(todo) /\ pc' = "clean" /\ UNCHANGED clientVars
       ELSE StopAndCut(Stopping)
    /\ UNCHANGED <<childVars, cursor>>

CleanDone ==
    /\ pc = "clean"
    /\ todo = <<>>
    /\ pc' = "raised"
    /\ UNCHANGED <<clientVars, childVars, cursor, todo, interrupts, spared>>

\* The parent is killed from outside: every end it held is closed.
ParentKilled ==
    /\ pc # "killed"
    /\ pc' = "killed"
    /\ cut' = Workers
    /\ UNCHANGED <<wstate, childVars, cursor, todo, interrupts, spared>>

---------------------------------------------------------------------------
\* worker_process_main

Put(w, kind) ==
    /\ Len(results[w]) < StreamBuffer
    /\ results' = [results EXCEPT ![w] = Append(@, kind)]

ChildReady(w) ==
    /\ child[w] = "loading"
    /\ Put(w, "ready")
    /\ child' = [child EXCEPT ![w] = "serving"]
    /\ UNCHANGED <<clientVars, asked, callVars>>

\* load() or control.recv() raises.
ChildFault(w) ==
    /\ child[w] \in {"loading", "serving"}
    /\ Put(w, "error")
    /\ child' = [child EXCEPT ![w] = "exiting"]
    /\ UNCHANGED <<clientVars, asked, callVars>>

ChildStops(w) ==
    /\ child[w] = "serving"
    /\ w \in asked
    /\ Put(w, "ack")
    /\ asked' = asked \ {w}
    /\ child' = [child EXCEPT ![w] = "exiting"]
    /\ UNCHANGED <<clientVars, callVars>>

\* Mutant: recv() is tried again.
ChildRetries(w) ==
    /\ child[w] = "serving"
    /\ w \in cut \ asked
    /\ UNCHANGED vars
\* EOFError: the parent has closed its end.
ChildHangsUp(w) ==
    /\ child[w] = "serving"
    /\ w \in cut \ asked
    /\ child' = [child EXCEPT ![w] = "exiting"]
    /\ UNCHANGED <<clientVars, results, asked, callVars>>

ChildExit(w) ==
    /\ child[w] = "exiting"
    /\ child' = [child EXCEPT ![w] = "dead"]
    /\ UNCHANGED <<clientVars, results, asked, callVars>>

ChildCrash(w) ==
    /\ w \in Mortal
    /\ IsAlive(w)
    /\ child' = [child EXCEPT ![w] = "dead"]
    /\ UNCHANGED <<clientVars, results, asked, callVars>>

---------------------------------------------------------------------------
StartCall == Spawn \/ SpawnRaises \/ AwaitReady \/ AwaitError \/ AwaitNothing \/ Abort
CleanCall ==
    \/ CleanCreated \/ CleanFailed \/ AskToStop \/ AskBroken \/ AckTaken \/ AckNothing
    \/ Joined \/ JoinTimedOut \/ Terminate \/ CleanDone
ChildGoesOn(w) == ChildReady(w) \/ ChildStops(w) \/ ChildHangsUp(w) \/ ChildExit(w)

Next ==
    \/ StartCall \/ CleanCall \/ StartInterrupted \/ StopInterrupted
    \/ ParentKilled
    \/ \E w \in Workers : ChildGoesOn(w) \/ ChildFault(w) \/ ChildCrash(w)

Spec == Init /\ [][Next]_vars

\* The parent's thread runs and every wait of it is bounded. A child may hang
\* wherever it likes.
FairSpec == Spec /\ WF_vars(StartCall \/ CleanCall)

---------------------------------------------------------------------------
PoolTypeOK ==
    /\ wstate \in [Workers -> {"created", "starting", "ready", "stopping", "stopped", "failed"}]
    /\ child \in [Workers -> {"none", "loading", "serving", "exiting", "dead"}]
    /\ results \in [Workers -> Seq({"ready", "error", "ack"})]
    /\ asked \subseteq Workers /\ cut \subseteq Workers /\ spared \subseteq Workers
    /\ pc \in {"start", "await", "abort", "clean", "ack", "join", "terminate", "running", "raised", "killed"}
    /\ cursor \in 1..(NumWorkers + 1)
    /\ todo \in Seq(Workers)
    /\ interrupts \in 0..Interrupts
    /\ pc \in {"start", "await", "abort"} => cursor \in Workers
    /\ pc \in {"ack", "join", "terminate"} => todo # <<>>

\* tests/test_worker_factory.py "partial startup failure cleans up already
\* started workers", and the one that failed, and those never reached: when the
\* call has raised, no client is left in another state than STOPPED and no child
\* is left alive, whatever the children and Ctrl-C did; save a worker whose
\* own shutdown a Ctrl-C cut short.
NothingLeftBehind ==
    pc = "raised" =>
        \A w \in Workers \ spared :
            wstate[w] = "stopped" /\ (IsAlive(w) => child[w] = "exiting")

\* What start_worker_clients returns is what Scheduler's Init assumes: clients
\* that are READY, children in their request loop or fallen out of it since,
\* and nothing of the start-up left in a queue or a pipe.
HandsOver ==
    pc = "running" =>
        \A w \in Workers :
            /\ wstate[w] = "ready" /\ w \notin asked \cup cut
            /\ child[w] \in {"serving", "exiting", "dead"}
            /\ child[w] = "serving" => results[w] = <<>>
            /\ results[w] \in {<<>>, <<"error">>}

\* Start-up returns or raises in bounded time, wherever a child hangs.
StartReturns == <>(pc \in {"running", "raised", "killed"})

\* A child ends when its worker has been shut down, even if that was cut short,
\* and when its parent was killed, unless it hangs by itself: nothing else than
\* the end of its pipe tells it.
StoppedChildrenEnd ==
    \A w \in Workers :
        WF_vars(ChildGoesOn(w)) => (wstate[w] = "stopped" \/ pc = "killed" ~> ~IsAlive(w))
=============================================================================
