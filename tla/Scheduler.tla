------------------------------ MODULE Scheduler ------------------------------
(***************************************************************************)
(* scheduler.py: admission, the FIFO pending queue, dispatch to the lowest *)
(* ready worker, cancellation, the two timeouts and shutdown, on top of    *)
(* the clients and children of WorkerChannel.                              *)
(*                                                                         *)
(* ApiRuntime serialises every call with one lock, so at most one of       *)
(* submit, cancel, poll and close is in progress: pc says which step of a  *)
(* long call comes next, "idle" that the lock is free. The children run    *)
(* between any two steps.                                                  *)
(*                                                                         *)
(* Time is abstract: a request may be found past its limit at any check.   *)
(***************************************************************************)
EXTENDS WorkerChannel, SequencesExt

CONSTANTS
    MaxPending,      \* max_pending_requests
    MaxConcurrent,   \* max_concurrent_requests, NumWorkers for None
    InferenceLimit,  \* whether max_inference_seconds is set
    QueueLimit       \* whether queue_timeout_seconds is set

ASSUME SchedulerAssumption ==
    /\ MaxPending \in Nat \ {0}
    /\ MaxConcurrent \in Nat \ {0}
    /\ InferenceLimit \in BOOLEAN
    /\ QueueLimit \in BOOLEAN

VARIABLES
    pending,    \* _pending: the queued ids, oldest first
    active,     \* _active: the request each worker serves
    submitted,  \* _submitted_ids
    events,     \* _events, not yet returned by poll
    closed,     \* _closed
    pc,         \* the call in progress
    cursor,     \* its position in _workers
    answer,     \* history: the terminal code handed out for each id
    heard       \* history: chunks handed out for each id

callVars == <<pc, cursor>>
historyVars == <<answer, heard>>
vars == <<channelVars, pending, active, submitted, events, closed, callVars, historyVars>>

\* A terminal event is named by its kind, a scheduler error by its code.
Codes == (ChildCodes \ {"chunk"}) \cup
         {"inference_timeout", "queue_timeout", "worker_exited", "mismatch",
          "no_healthy_worker", "cancelled"}
Event == [req : OptRequest, what : Codes \cup {"chunk"}, n : 0..MaxChunks]

Calls == {"idle", "expire", "get", "check", "dispatch", "close"}

Terminal(e) == e.what # "chunk"

\* One event for each queued request of q.
EventsFor(q, code) == [i \in 1..Len(q) |-> Msg(q[i], code, 0)]

\* k is the first worker from `from` on with an active request, or past the end.
IsNextActive(from, k, act) ==
    /\ k \in from..(NumWorkers + 1)
    /\ k \in Workers => act[k] # NoReq
    /\ \A j \in from..(k - 1) : act[j] = NoReq

GoTo(call, from, act) ==
    /\ pc' = call
    /\ \E k \in 1..(NumWorkers + 1) : IsNextActive(from, k, act) /\ cursor' = k

ReturnCall == pc' = "idle" /\ cursor' = 1

\* Some event of evs is r's last one.
Ends(r, evs) == \E i \in 1..Len(evs) : evs[i].req = r /\ Terminal(evs[i])

\* The caller of poll is given the events evs.
HandOut(evs) ==
    /\ answer' = [r \in Requests |->
            IF Ends(r, evs)
            THEN evs[CHOOSE i \in 1..Len(evs) : evs[i].req = r /\ Terminal(evs[i])].what
            ELSE answer[r]]
    /\ heard' = [r \in Requests |-> heard[r] +
            Cardinality({i \in 1..Len(evs) : evs[i].req = r /\ ~Terminal(evs[i])})]

Init ==
    /\ ChannelInit
    /\ pending = <<>>
    /\ active = [w \in Workers |-> NoReq]
    /\ submitted = {}
    /\ events = <<>>
    /\ closed = FALSE
    /\ pc = "idle"
    /\ cursor = 1
    /\ answer = [r \in Requests |-> "none"]
    /\ heard = [r \in Requests |-> 0]

---------------------------------------------------------------------------
\* submit()

Busy == {w \in Workers : active[w] # NoReq}
\* Mutant: off by one.
CanDispatchOneMore == Cardinality(Busy) <= MaxConcurrent
CanDispatch == Cardinality(Busy) < MaxConcurrent
IsFirstReady(w) == w \in Ready /\ \A v \in Ready : w <= v

\* Mutant: no duplicate check.
AdmissibleAgain(r) == pc = "idle" /\ ~closed
Admissible(r) == pc = "idle" /\ ~closed /\ r \notin submitted

SubmitDispatch(r) ==
    /\ Admissible(r)
    /\ CanDispatch
    /\ \E w \in Workers :
        /\ IsFirstReady(w)
        /\ CanSend(w)
        /\ ClientSend(w, r)
        /\ active' = [active EXCEPT ![w] = r]
    /\ submitted' = submitted \cup {r}
    /\ UNCHANGED <<pending, events, closed, callVars, historyVars>>

\* The first ready worker's pipe is broken: WorkerExitedError, r not recorded.
SubmitToDead(r) ==
    /\ Admissible(r)
    /\ CanDispatch
    /\ \E w \in Workers : IsFirstReady(w) /\ ~CanSend(w) /\ ClientFail(w)
    /\ UNCHANGED <<pending, active, submitted, events, closed, callVars, historyVars>>

SubmitQueue(r) ==
    /\ Admissible(r)
    /\ Ready = {} \/ ~CanDispatch
    /\ Len(pending) < MaxPending
    /\ Healthy # {}
    /\ pending' = Append(pending, r)
    /\ submitted' = submitted \cup {r}
    /\ UNCHANGED <<channelVars, active, events, closed, callVars, historyVars>>

Submit(r) == SubmitDispatch(r) \/ SubmitToDead(r) \/ SubmitQueue(r)

---------------------------------------------------------------------------
\* cancel()

\* _fail_pending_without_healthy_workers: what it leaves queued, and what it
\* answers, when `healthy` are the healthy workers.
Kept(q, healthy) == IF healthy = {} THEN <<>> ELSE q
\* Mutant: the queue is cleared and nobody is told.
FailedSilently(q, healthy) == EventsFor(SubSeq(q, 1, 0), "no_healthy_worker")
Failed(q, healthy) == EventsFor(IF healthy = {} THEN q ELSE <<>>, "no_healthy_worker")

CancelPending(r) ==
    /\ pc = "idle"
    /\ \E i \in 1..Len(pending) :
        /\ pending[i] = r
        /\ pending' = RemoveAt(pending, i)
    /\ answer' = [answer EXCEPT ![r] = "cancelled"]
    /\ UNCHANGED <<channelVars, active, submitted, events, closed, callVars, heard>>

\* Mutant: _active is not popped.
CancelActiveKeepsSlot(r) ==
    /\ pc = "idle"
    /\ \E w \in Workers :
        /\ active[w] = r
        /\ wstate[w] = "busy"
        /\ ClientStop(w)
        /\ pending' = Kept(pending, Healthy \ {w})
        /\ events' = events \o Failed(pending, Healthy \ {w})
    /\ answer' = [answer EXCEPT ![r] = "cancelled"]
    /\ UNCHANGED <<active, submitted, closed, callVars, heard>>

\* After a close() that raised, a worker may be stopped and its request still
\* in _active: cancel_active() then raises and nothing changes.
CancelActive(r) ==
    /\ pc = "idle"
    /\ \E w \in Workers :
        /\ active[w] = r
        /\ wstate[w] = "busy"
        /\ ClientStop(w)
        /\ active' = [active EXCEPT ![w] = NoReq]
        /\ pending' = Kept(pending, Healthy \ {w})
        /\ events' = events \o Failed(pending, Healthy \ {w})
    /\ answer' = [answer EXCEPT ![r] = "cancelled"]
    /\ UNCHANGED <<submitted, closed, callVars, heard>>

Cancel(r) == CancelPending(r) \/ CancelActive(r)

---------------------------------------------------------------------------
\* poll(): _expire_active, one worker per step

\* Mutant: what a poll that raised left behind is cleared.
PollBeginAfresh ==
    /\ pc = "idle"
    /\ GoTo("expire", 1, active)
    /\ events' = <<>>
    /\ UNCHANGED <<channelVars, pending, active, submitted, closed, historyVars>>

PollBegin ==
    /\ pc = "idle"
    /\ GoTo("expire", 1, active)
    /\ UNCHANGED <<channelVars, pending, active, submitted, events, closed, historyVars>>

WithinLimit ==
    /\ pc = "expire"
    /\ cursor \in Workers
    /\ GoTo("expire", cursor + 1, active)
    /\ UNCHANGED <<channelVars, pending, active, submitted, events, closed, historyVars>>

\* Mutant: the worker is killed and its request is not answered.
ExpireActiveSilently ==
    /\ pc = "expire"
    /\ cursor \in Workers
    /\ InferenceLimit
    /\ IF wstate[cursor] = "busy" THEN ClientStop(cursor) ELSE UNCHANGED channelVars
    /\ active' = [active EXCEPT ![cursor] = NoReq]
    /\ GoTo("expire", cursor + 1, active')
    /\ UNCHANGED <<pending, submitted, events, closed, historyVars>>

\* The WorkerStateError of a client that is not BUSY is swallowed.
ExpireActive ==
    /\ pc = "expire"
    /\ cursor \in Workers
    /\ InferenceLimit
    /\ IF wstate[cursor] = "busy" THEN ClientStop(cursor) ELSE UNCHANGED channelVars
    /\ events' = Append(events, Msg(active[cursor], "inference_timeout", 0))
    /\ active' = [active EXCEPT ![cursor] = NoReq]
    /\ GoTo("expire", cursor + 1, active')
    /\ UNCHANGED <<pending, submitted, closed, historyVars>>

\* _expire_pending drops a prefix of the queue q: ids are queued in time order.
CanExpire(q, k) == k \in 0..Len(q) /\ (k > 0 => QueueLimit)
TimedOut(q, k) == EventsFor(SubSeq(q, 1, k), "queue_timeout")
Younger(q, k) == SubSeq(q, k + 1, Len(q))

\* Mutant: no early return, what a poll that raised left is returned with the rest.
PollExpiredGoesOn ==
    /\ pc = "expire"
    /\ cursor = NumWorkers + 1
    /\ LET healthy == IF InferenceLimit THEN Healthy ELSE Workers
           queue == Kept(pending, healthy)
       IN \E k \in 0..MaxPending :
            /\ CanExpire(queue, k)
            /\ pending' = Younger(queue, k)
            /\ events' = events \o Failed(pending, healthy) \o TimedOut(queue, k)
    /\ GoTo("get", 1, active)
    /\ UNCHANGED <<channelVars, active, submitted, closed, historyVars>>

\* The rest of the prologue: _fail_pending (only reached when an inference
\* limit is set), _expire_pending, and the early return if there are events.
PollExpired ==
    /\ pc = "expire"
    /\ cursor = NumWorkers + 1
    /\ LET healthy == IF InferenceLimit THEN Healthy ELSE Workers
           queue == Kept(pending, healthy)
       IN \E k \in 0..MaxPending :
            LET all == events \o Failed(pending, healthy) \o TimedOut(queue, k) IN
            /\ CanExpire(queue, k)
            /\ pending' = Younger(queue, k)
            /\ events' = <<>>
            /\ HandOut(all)
            /\ IF all = <<>> THEN GoTo("get", 1, active) ELSE ReturnCall
    /\ UNCHANGED <<channelVars, active, submitted, closed>>

---------------------------------------------------------------------------
\* poll(): one message from each active worker, in worker order

\* What results.get returns to receive(), for a client it does not refuse.
Inbox == Head(results[cursor])
CanReceive ==
    /\ pc = "get"
    /\ cursor \in Workers
    /\ wstate[cursor] = "busy"
    /\ results[cursor] # <<>>

\* Mutant: no _dispatch_pending.
ReceiveTerminalOnly ==
    /\ CanReceive
    /\ Terminal(Inbox)
    /\ ~IsMismatch(cursor, Inbox)
    /\ ClientReceive(cursor, Inbox)
    /\ active' = [active EXCEPT ![cursor] = NoReq]
    /\ events' = Append(events, Inbox)
    /\ GoTo("get", cursor + 1, active')
    /\ UNCHANGED <<pending, submitted, closed, historyVars>>

\* The request is over: its slot is freed and _dispatch_pending begins, with
\* another _expire_pending.
ReceiveTerminal ==
    /\ CanReceive
    /\ Terminal(Inbox)
    /\ ~IsMismatch(cursor, Inbox)
    /\ ClientReceive(cursor, Inbox)
    /\ active' = [active EXCEPT ![cursor] = NoReq]
    /\ \E k \in 0..MaxPending :
        /\ CanExpire(pending, k)
        /\ pending' = Younger(pending, k)
        /\ events' = Append(events, Inbox) \o TimedOut(pending, k)
    /\ pc' = "dispatch"
    /\ UNCHANGED <<submitted, closed, cursor, historyVars>>

\* A chunk is passed on and the request stays active; a message for another
\* request fails the client and, in _worker_failed, the request.
ReceiveOther ==
    /\ CanReceive
    /\ ~Terminal(Inbox) \/ IsMismatch(cursor, Inbox)
    /\ ClientReceive(cursor, Inbox)
    /\ IF IsMismatch(cursor, Inbox)
       THEN /\ active' = [active EXCEPT ![cursor] = NoReq]
            /\ events' = Append(events, Msg(active[cursor], "mismatch", 0))
       ELSE active' = active /\ events' = Append(events, Inbox)
    /\ GoTo("get", cursor + 1, active')
    /\ UNCHANGED <<pending, submitted, closed, historyVars>>

\* results.get timed out; whether the child still lives is asked next.
ReceiveNothing ==
    /\ pc = "get"
    /\ cursor \in Workers
    /\ wstate[cursor] = "busy"
    /\ results[cursor] = <<>>
    /\ pc' = "check"
    /\ UNCHANGED <<channelVars, pending, active, submitted, events, closed, cursor, historyVars>>

\* worker_receive_timeout: on to the next worker.
ReceiveTimeout ==
    /\ pc = "check"
    /\ cursor \in Workers
    /\ IsAlive(cursor)
    /\ GoTo("get", cursor + 1, active)
    /\ UNCHANGED <<channelVars, pending, active, submitted, events, closed, historyVars>>

\* WorkerExitedError, even if the child put an answer since the queue was
\* found empty: _worker_failed.
ReceiveExited ==
    /\ pc = "check"
    /\ cursor \in Workers
    /\ ~IsAlive(cursor)
    /\ ClientFail(cursor)
    /\ active' = [active EXCEPT ![cursor] = NoReq]
    /\ events' = Append(events, Msg(active[cursor], "worker_exited", 0))
    /\ GoTo("get", cursor + 1, active')
    /\ UNCHANGED <<pending, submitted, closed, historyVars>>

\* After a close() that raised, receive() refuses a client that is not BUSY
\* and its WorkerStateError ends the poll.
ReceiveRefused ==
    /\ pc = "get"
    /\ cursor \in Workers
    /\ wstate[cursor] # "busy"
    /\ ReturnCall
    /\ UNCHANGED <<channelVars, pending, active, submitted, events, closed, historyVars>>

---------------------------------------------------------------------------
\* poll(): _dispatch_pending, one iteration per step

\* A READY client accepts every request, so the WorkerStateError the loop
\* guards against cannot arise here.
Dispatchable == pc = "dispatch" /\ pending # <<>> /\ CanDispatch

\* Mutant: the newest request is taken.
DispatchNewest ==
    /\ Dispatchable
    /\ \E w \in Workers :
        /\ IsFirstReady(w)
        /\ CanSend(w)
        /\ ClientSend(w, pending[Len(pending)])
        /\ active' = [active EXCEPT ![w] = pending[Len(pending)]]
    /\ pending' = SubSeq(pending, 1, Len(pending) - 1)
    /\ UNCHANGED <<submitted, events, closed, callVars, historyVars>>

\* Mutant: the head of the queue is read and not removed.
DispatchPeeks ==
    /\ Dispatchable
    /\ \E w \in Workers :
        /\ IsFirstReady(w)
        /\ CanSend(w)
        /\ ClientSend(w, Head(pending))
        /\ active' = [active EXCEPT ![w] = Head(pending)]
    /\ UNCHANGED <<pending, submitted, events, closed, callVars, historyVars>>

DispatchNext ==
    /\ Dispatchable
    /\ \E w \in Workers :
        /\ IsFirstReady(w)
        /\ CanSend(w)
        /\ ClientSend(w, Head(pending))
        /\ active' = [active EXCEPT ![w] = Head(pending)]
    /\ pending' = Tail(pending)
    /\ UNCHANGED <<submitted, events, closed, callVars, historyVars>>

\* WorkerExitedError is not caught here: the popped request is in no
\* collection any more and poll raises, its events kept for the next one.
DispatchToDead ==
    /\ Dispatchable
    /\ \E w \in Workers : IsFirstReady(w) /\ ~CanSend(w) /\ ClientFail(w)
    /\ pending' = Tail(pending)
    /\ ReturnCall
    /\ UNCHANGED <<active, submitted, events, closed, historyVars>>

DispatchDone ==
    /\ pc = "dispatch"
    /\ pending = <<>> \/ ~CanDispatch \/ Ready = {}
    /\ GoTo("get", cursor + 1, active)
    /\ UNCHANGED <<channelVars, pending, active, submitted, events, closed, historyVars>>

\* Mutant: no _fail_pending.
PollEndKeepsQueue ==
    /\ pc = "get"
    /\ cursor = NumWorkers + 1
    /\ HandOut(events)
    /\ events' = <<>>
    /\ ReturnCall
    /\ UNCHANGED <<channelVars, pending, active, submitted, closed>>

\* Mutant: a BUSY worker is not counted as healthy.
PollEndCountsReady ==
    /\ pc = "get"
    /\ cursor = NumWorkers + 1
    /\ pending' = Kept(pending, Ready)
    /\ HandOut(events \o Failed(pending, Ready))
    /\ events' = <<>>
    /\ ReturnCall
    /\ UNCHANGED <<channelVars, active, submitted, closed>>

\* poll()'s last two lines: _fail_pending, then everything is returned.
PollEnd ==
    /\ pc = "get"
    /\ cursor = NumWorkers + 1
    /\ pending' = Kept(pending, Healthy)
    /\ HandOut(events \o Failed(pending, Healthy))
    /\ events' = <<>>
    /\ ReturnCall
    /\ UNCHANGED <<channelVars, active, submitted, closed>>

Poll ==
    \/ PollBegin \/ WithinLimit \/ ExpireActive \/ PollExpired
    \/ ReceiveTerminal \/ ReceiveOther \/ ReceiveNothing
    \/ ReceiveTimeout \/ ReceiveExited \/ ReceiveRefused
    \/ DispatchNext \/ DispatchToDead \/ DispatchDone \/ PollEnd

---------------------------------------------------------------------------
\* close()

CloseBegin ==
    /\ pc = "idle"
    /\ ~closed
    /\ closed' = TRUE
    /\ events' = events \o EventsFor(pending, "cancelled")
    /\ pending' = <<>>
    /\ pc' = "close"
    /\ cursor' = 1
    /\ UNCHANGED <<channelVars, active, submitted, historyVars>>

\* shutdown() sends "shutdown" to a READY client: into a broken pipe the send
\* raises BrokenPipeError, which close() does not catch.
ShutdownRaises(w) == wstate[w] = "ready" /\ ~CanSend(w)

\* Mutant: a BUSY client is left to finish.
CloseWorkerSparesBusy ==
    /\ pc = "close"
    /\ cursor \in Workers
    /\ ~ShutdownRaises(cursor)
    /\ IF wstate[cursor] \in {"stopped", "busy"} THEN UNCHANGED channelVars ELSE ClientStop(cursor)
    /\ cursor' = cursor + 1
    /\ UNCHANGED <<pending, active, submitted, events, closed, pc, historyVars>>

CloseWorker ==
    /\ pc = "close"
    /\ cursor \in Workers
    /\ ~ShutdownRaises(cursor)
    /\ IF wstate[cursor] = "stopped" THEN UNCHANGED channelVars ELSE ClientStop(cursor)
    /\ cursor' = cursor + 1
    /\ UNCHANGED <<pending, active, submitted, events, closed, pc, historyVars>>

CloseAborted ==
    /\ pc = "close"
    /\ cursor \in Workers
    /\ ShutdownRaises(cursor)
    /\ ClientCut(cursor)
    /\ ReturnCall
    /\ UNCHANGED <<pending, active, submitted, events, closed, historyVars>>

CloseEnd ==
    /\ pc = "close"
    /\ cursor = NumWorkers + 1
    /\ active' = [w \in Workers |-> NoReq]
    /\ ReturnCall
    /\ UNCHANGED <<channelVars, pending, submitted, events, closed, historyVars>>

Close == CloseBegin \/ CloseWorker \/ CloseAborted \/ CloseEnd

---------------------------------------------------------------------------
Child(w) ==
    /\ ChildServe(w) \/ ChildFault(w) \/ ChildExit(w) \/ ChildCrash(w)
    /\ UNCHANGED <<pending, active, submitted, events, closed, callVars, historyVars>>

Next ==
    \/ \E r \in Requests : Submit(r) \/ Cancel(r)
    \/ Poll
    \/ Close
    \/ \E w \in Workers : Child(w)

Spec == Init /\ [][Next]_vars

\* The dispatcher thread polls for ever, a call once begun goes on, and a
\* serving child goes on working. Callers, faults and crashes are not fair.
ChildFair(w) ==
    /\ WF_vars(ChildServe(w) /\ UNCHANGED <<pending, active, submitted, events, closed, callVars, historyVars>>)
    /\ WF_vars(ChildExit(w) /\ UNCHANGED <<pending, active, submitted, events, closed, callVars, historyVars>>)

FairSpec ==
    /\ Spec
    /\ WF_vars(Poll)
    /\ WF_vars(CloseWorker \/ CloseAborted \/ CloseEnd)
    /\ \A w \in Workers : ChildFair(w)

---------------------------------------------------------------------------
TypeOK ==
    /\ ChannelTypeOK
    /\ pending \in Seq(Requests)
    /\ active \in [Workers -> OptRequest]
    /\ submitted \subseteq Requests
    /\ events \in Seq(Event)
    /\ closed \in BOOLEAN
    /\ pc \in Calls
    /\ cursor \in 1..(NumWorkers + 1)
    /\ answer \in [Requests -> Codes \cup {"none"}]
    /\ heard \in [Requests -> Nat]

---------------------------------------------------------------------------
\* Where an id can be

InQueue(r, q) == \E i \in 1..Len(q) : q[i] = r
Queued(r) == InQueue(r, pending)
Serving(r) == \E w \in Workers : active[w] = r
Answering(r) == Ends(r, events)
Answered(r) == answer[r] # "none"
Forgotten(r) == r \in submitted /\ ~(Queued(r) \/ Serving(r) \/ Answering(r) \/ Answered(r))

\* The scheduler and its clients agree on who serves what: a BUSY client serves
\* exactly the request _active names, and only a close() that raised leaves an
\* _active entry at a client that is not BUSY.
Coupled ==
    \A w \in Workers :
        /\ wstate[w] = "busy" => active[w] = wactive[w] /\ active[w] # NoReq
        /\ active[w] # NoReq => wstate[w] = "busy" \/ (closed /\ wstate[w] = "stopped")

QueuedOnce(q) == \A i, j \in 1..Len(q) : q[i] = q[j] => i = j
ServedOnce == \A v, w \in Workers : active[v] = active[w] /\ active[v] # NoReq => v = w
EndsOnce(evs) ==
    \A i, j \in 1..Len(evs) :
        /\ Terminal(evs[i]) /\ Terminal(evs[j])
        /\ evs[i].req = evs[j].req /\ evs[i].req # NoReq
        => i = j

\* An id is never in two places, so it is never executed twice, never answered
\* twice and never answered while it is still queued or running, whatever mix
\* of answers, timeouts, cancellations, deaths and shutdown it meets.
OncePlaced ==
    /\ QueuedOnce(pending)
    /\ ServedOnce
    /\ EndsOnce(events)
    /\ \A r \in Requests :
        /\ Queued(r) => ~Serving(r) /\ ~Answering(r) /\ ~Answered(r)
        /\ Serving(r) => ~Answering(r) /\ ~Answered(r)
        /\ Answering(r) => ~Answered(r)
        /\ Queued(r) \/ Serving(r) \/ Answering(r) \/ Answered(r) => r \in submitted

\* docs/IPC.md "bounded max_pending_requests", and the configured concurrency:
\* neither admission nor the dispatch loop, entered after any of its callers,
\* exceeds its bound.
WithinBounds ==
    /\ Cardinality(Busy) <= MaxConcurrent
    /\ Len(pending) <= MaxPending

\* No client ever takes a message of another request for its own: what an
\* earlier request left in the queue is gone when the next one is sent.
NoForeignMessage ==
    \A w \in Workers :
        wstate[w] = "busy" /\ results[w] # <<>> => ~IsMismatch(w, Head(results[w]))

\* poll returns a stream's chunks 1, 2, ... without a gap, and its stream_end
\* after the last of them, although one poll takes one message per worker and
\* a poll that raised keeps its events for the next.
ChunksBefore(i) ==
    Cardinality({j \in 1..(i - 1) : events[j].req = events[i].req /\ events[j].what = "chunk"})
StreamInOrder ==
    \A i \in 1..Len(events) :
        LET e == events[i] IN
        /\ e.what = "chunk" => e.n = heard[e.req] + ChunksBefore(i) + 1
        /\ e.what = "end" => e.n = heard[e.req] + ChunksBefore(i)

\* What the dispatcher of api_runtime.py is handed: one poll returns at most one
\* chunk of a request, and nothing of it after its last event, although the events
\* of a poll that raised come with those of the next.
OneChunkAPoll ==
    \A i, j \in 1..Len(events) :
        events[i].what = "chunk" /\ events[j].req = events[i].req
        => IF Terminal(events[j]) THEN i < j ELSE i = j

\* "no_healthy_worker" is only ever said when no worker can serve any more.
NoHealthyIsTrue ==
    \A r \in Requests :
        answer[r] = "no_healthy_worker"
        \/ (\E i \in 1..Len(events) : events[i] = Msg(r, "no_healthy_worker", 0))
        => \A w \in Workers : wstate[w] \in {"failed", "stopped"}

\* A child that dies by itself costs its callers at most two answers: the one
\* its nameless error message ended, the one dispatched to it after that.
Deaths == {w \in Workers : child[w] \in {"exiting", "deaf", "dead"}}
BlastRadius ==
    ~closed => Cardinality({r \in Requests : Forgotten(r)}) <= 2 * Cardinality(Deaths)

\* While the scheduler is open every admitted id is queued, running or answered.
\* docs/IPC.md promises it of a dying worker too: "unexpected worker death
\* becomes worker_exited".
NothingForgotten == ~closed => \A r \in Requests : ~Forgotten(r)

\* With no concurrency limit a request only waits while no worker is idle.
NoIdleWorkerWhileQueued == pc = "idle" /\ pending # <<>> => Ready = {}

\* docs/IPC.md "FIFO pending queue": a worker that takes a request while others
\* wait takes the one that has waited longest.
Fifo ==
    [][\A w \in Workers :
        active[w] = NoReq /\ active'[w] # NoReq /\ pending # <<>>
        => active'[w] = Head(pending)]_vars

\* docs/IPC.md "shutdown explicitly joins/terminates children": when close()
\* has run, no child is left and no request is left active.
ClosedMeansStopped ==
    closed /\ pc # "close" =>
        \A w \in Workers : ~IsAlive(w) /\ wstate[w] = "stopped" /\ active[w] = NoReq

\* close() keeps that promise, whatever the workers are in the middle of, as
\* long as no child died by itself.
CloseIsComplete == Deaths = {} => ClosedMeansStopped

\* Once a request is admitted, it stops waiting and stops running: every
\* worker, limit and failure path ends it, unless a close() intervenes.
Settled ==
    \A r \in Requests :
        r \in submitted ~> closed \/ (~Queued(r) /\ ~Serving(r))

\* It is even answered, as long as no child dies by itself.
EveryoneAnswered ==
    \A r \in Requests : r \in submitted ~> closed \/ Answered(r) \/ Deaths # {}

\* /readyz answers 200 while snapshot() counts a READY or BUSY worker.
ReportsReady == \E w \in Workers : wstate[w] \in {"ready", "busy"}

\* docs/API.md "zero healthy workers -> 503": once no child is left, /readyz
\* comes to say so (when it is closed it says so at once).
DeadPoolReported == (\A w \in Workers : ~IsAlive(w)) ~> closed \/ ~ReportsReady

---------------------------------------------------------------------------
\* The scheduler as an implementation of RequestLifecycle

Phase(r) ==
    IF Answered(r) THEN "told"
    ELSE IF Answering(r) THEN "due"
    ELSE IF Serving(r) THEN "running"
    ELSE IF Queued(r) THEN "queued"
    ELSE IF r \in submitted THEN "lost"
    ELSE "new"

Lifecycle == INSTANCE RequestLifecycle
    WITH phase <- [r \in Requests |-> Phase(r)], open <- ~closed, Slots <- MaxConcurrent

\* An id is admitted once, never while closed; at most MaxConcurrent run; an
\* id that has ended never waits, runs or is answered again, and a cancelled
\* one is answered by cancel() alone.
KeepsLifecycle == Lifecycle!Spec
=============================================================================
