----------------------------- MODULE ApiRuntime -----------------------------
(***************************************************************************)
(* api_runtime.py and the two inference endpoints of api_app.py: the       *)
(* dispatcher thread that polls the scheduler and hands its events to      *)
(* futures and stream queues, the HTTP handlers that wait on them, their   *)
(* timeouts, disconnects and cancellations, and close().                   *)
(*                                                                         *)
(* The scheduler is known by its contract only, RequestLifecycle. Every    *)
(* call of it is made under ApiRuntime's lock, so a call is one step here. *)
(***************************************************************************)
EXTENDS Naturals, Sequences, FiniteSets, SequencesExt

CONSTANTS
    Requests,        \* request ids, one HTTP request each
    Streams,         \* the ids sent to /v1/tts/stream
    NoReq,           \* Python's None where a request id may stand
    Slots,           \* requests the scheduler may run at once
    MaxChunks,       \* bound: chunks one stream yields at most
    StreamQueue,     \* stream_queue_chunks
    RequestTimeout,  \* whether request_timeout_seconds is set
    Backpressure,    \* whether stream_backpressure_timeout_seconds is set
    Abortable        \* bound: the one-shot ids whose handler may be cancelled

OneShots == Requests \ Streams

\* Requests reach a process one after the other: finitely many in any run.
ASSUME ApiAssumption ==
    /\ IsFiniteSet(Requests)
    /\ Streams \subseteq Requests
    /\ NoReq \notin Requests
    /\ Slots \in Nat \ {0}
    /\ MaxChunks \in Nat
    /\ StreamQueue \in Nat \ {0}
    /\ RequestTimeout \in BOOLEAN
    /\ Backpressure \in BOOLEAN
    /\ Abortable \subseteq OneShots

VARIABLES
    phase, open,  \* the scheduler, as RequestLifecycle sees it
    sent,         \* chunks the scheduler has handed out for each id
    futures,      \* the ids in _futures
    fut,          \* the concurrent Future of each id
    streams,      \* the ids in _streams
    buffer,       \* the stream queue of each id
    closed,       \* _closed
    stop,         \* _stop is set
    closer,       \* how far close() has come
    dpc,          \* the dispatcher thread: its next step
    batch,        \* the events of its last poll it has not yet routed
    handler,      \* the HTTP handler of each id
    outcome,      \* how it comes to its end: "left" by way of runtime.cancel,
                  \* whatever made it leave, "forgotten" without
    got,          \* chunks it has received
    stray         \* ids whose get() thread outlived their handler

schedulerVars == <<phase, open, sent>>
tableVars == <<futures, fut, streams, buffer>>
closeVars == <<closed, stop, closer>>
threadVars == <<dpc, batch>>
httpVars == <<handler, outcome, got, stray>>
vars == <<schedulerVars, tableVars, closeVars, threadVars, httpVars>>

Scheduler == INSTANCE RequestLifecycle

\* "error" stands for "cancelled" too, which is routed and received alike.
Kinds == {"result", "chunk", "end", "error"}
Event == [req : Requests \cup {NoReq}, kind : Kinds, n : 0..MaxChunks]
Ev(r, kind, n) == [req |-> r, kind |-> kind, n |-> n]
IsLast(e) == e.kind # "chunk"

Init ==
    /\ Scheduler!Init
    /\ sent = [r \in Requests |-> 0]
    /\ futures = {}
    /\ fut = [r \in Requests |-> "none"]
    /\ streams = {}
    /\ buffer = [r \in Requests |-> <<>>]
    /\ closed = FALSE
    /\ stop = FALSE
    /\ closer = "none"
    /\ dpc = "poll"
    /\ batch = <<>>
    /\ handler = [r \in Requests |-> "idle"]
    /\ outcome = [r \in Requests |-> "none"]
    /\ got = [r \in Requests |-> 0]
    /\ stray = {}

---------------------------------------------------------------------------
\* The dispatcher thread

\* The while condition, tested when the last event has been routed.
BeginLoop == dpc' = IF stop THEN "ended" ELSE "poll"
Advance ==
    /\ batch' = Tail(batch)
    /\ IF Tail(batch) = <<>> THEN BeginLoop ELSE dpc' = "route"

NewlyTold == {r \in Requests : phase[r] # "told" /\ phase'[r] = "told"}

\* The chunks a poll may return: a stream that runs, or that ended in a poll
\* that raised, its chunk kept.
CanSpeak == {s \in Streams : phase[s] \in {"queued", "running", "due"} /\ sent[s] < MaxChunks}
Speaks(s) == phase[s] = "queued" => phase'[s] = "running"

LastKinds(r) == {IF r \in Streams THEN "end" ELSE "result", "error"}

\* A request's last event follows its chunk.
ChunksFirst(evs) ==
    \A i, j \in 1..Len(evs) : evs[i].req = evs[j].req /\ IsLast(evs[i]) => j <= i

\* Events that nobody waits for stand as one without a request id: the errors of
\* children that lost a request, and a chunk that a poll that raised kept of a
\* stream that has been cancelled since.
Unwanted(r) == phase'[r] = "lost" \/ (r \in Streams \ streams /\ phase[r] = "told")

\* One poll: each request it ends has its last event in the batch, after its only
\* chunk, as Scheduler's OneChunkAPoll says. A poll that raises returns nothing.
Poll ==
    /\ dpc = "poll"
    /\ Scheduler!Work
    /\ \E speaking \in SUBSET CanSpeak, lastKind \in [NewlyTold -> Kinds], nameless \in BOOLEAN :
        /\ \A s \in speaking : Speaks(s)
        /\ \A r \in NewlyTold : lastKind[r] \in LastKinds(r)
        /\ nameless => \E r \in Requests : Unwanted(r)
        /\ sent' = [r \in Requests |-> IF r \in speaking THEN sent[r] + 1 ELSE sent[r]]
        /\ LET events == {Ev(s, "chunk", sent'[s]) : s \in speaking}
                         \cup {Ev(r, lastKind[r], sent'[r]) : r \in NewlyTold}
                         \cup (IF nameless THEN {Ev(NoReq, "error", 0)} ELSE {})
           IN batch' \in {evs \in SetToSeqs(events) : ChunksFirst(evs)}
    /\ IF batch' = <<>> THEN BeginLoop ELSE dpc' = "route"
    /\ UNCHANGED <<tableVars, closeVars, httpVars>>

Current == Head(batch)
ToStream == Current.kind # "result" /\ Current.req \in streams

\* Mutant: "break" for "continue".
RouteNowhereBreaks ==
    /\ dpc = "route"
    /\ Current.req = NoReq \/ (~ToStream /\ Current.kind \in {"chunk", "end"})
    /\ BeginLoop
    /\ UNCHANGED <<schedulerVars, tableVars, closeVars, batch, httpVars>>

\* No request id, or a chunk or an end nobody has a queue for.
RouteNowhere ==
    /\ dpc = "route"
    /\ Current.req = NoReq \/ (~ToStream /\ Current.kind \in {"chunk", "end"})
    /\ Advance
    /\ UNCHANGED <<schedulerVars, tableVars, closeVars, httpVars>>

RouteToStream ==
    /\ dpc = "route"
    /\ ToStream
    /\ dpc' = "offer"
    /\ UNCHANGED <<schedulerVars, tableVars, closeVars, batch, httpVars>>

\* Mutant: the future of a failed request is popped and forgotten.
RouteToFutureResultsOnly ==
    /\ dpc = "route"
    /\ Current.req \in Requests
    /\ ~ToStream
    /\ Current.kind \in {"result", "error"}
    /\ futures' = futures \ {Current.req}
    /\ IF Current.req \in futures /\ fut[Current.req] = "pending" /\ Current.kind = "result"
       THEN dpc' = "resolve" /\ batch' = batch
       ELSE Advance
    /\ UNCHANGED <<schedulerVars, fut, streams, buffer, closeVars, httpVars>>

\* The future is popped under the lock, then asked whether it is done.
RouteToFuture ==
    /\ dpc = "route"
    /\ Current.req \in Requests
    /\ ~ToStream
    /\ Current.kind \in {"result", "error"}
    /\ futures' = futures \ {Current.req}
    /\ IF Current.req \in futures /\ fut[Current.req] = "pending"
       THEN dpc' = "resolve" /\ batch' = batch
       ELSE Advance
    /\ UNCHANGED <<schedulerVars, fut, streams, buffer, closeVars, httpVars>>

Resolve ==
    /\ dpc = "resolve"
    /\ fut[Current.req] = "pending"
    /\ fut' = [fut EXCEPT ![Current.req] = "set"]
    /\ Advance
    /\ UNCHANGED <<schedulerVars, futures, streams, buffer, closeVars, httpVars>>

\* set_result() on a future cancelled since: InvalidStateError ends the thread,
\* and what was left of its batch goes with it.
ResolveRaises ==
    /\ dpc = "resolve"
    /\ fut[Current.req] # "pending"
    /\ dpc' = "dead"
    /\ batch' = <<>>
    /\ UNCHANGED <<schedulerVars, tableVars, closeVars, httpVars>>

---------------------------------------------------------------------------
\* _route_stream_event: a turn of its loop is an "offer" and, for a stream that
\* is still in _streams, a "put", between which the stream may be cancelled.

PopIfLast == streams' = IF IsLast(Current) THEN streams \ {Current.req} ELSE streams

OfferStopped ==
    /\ dpc = "offer"
    /\ stop
    /\ PopIfLast
    /\ Advance
    /\ UNCHANGED <<schedulerVars, futures, fut, buffer, closeVars, httpVars>>

OfferGone ==
    /\ dpc = "offer"
    /\ ~stop
    /\ Current.req \notin streams
    /\ Advance
    /\ UNCHANGED <<schedulerVars, tableVars, closeVars, httpVars>>

OfferKnown ==
    /\ dpc = "offer"
    /\ ~stop
    /\ Current.req \in streams
    /\ dpc' = "put"
    /\ UNCHANGED <<schedulerVars, tableVars, closeVars, batch, httpVars>>

Put ==
    /\ dpc = "put"
    /\ Len(buffer[Current.req]) < StreamQueue
    /\ buffer' = [buffer EXCEPT ![Current.req] = Append(@, Current)]
    /\ PopIfLast
    /\ Advance
    /\ UNCHANGED <<schedulerVars, futures, fut, closeVars, httpVars>>

\* Mutants: a full queue loses the new event, or makes room for it.
PutFullDropsEvent ==
    /\ dpc = "put"
    /\ Len(buffer[Current.req]) >= StreamQueue
    /\ Advance
    /\ UNCHANGED <<schedulerVars, tableVars, closeVars, httpVars>>

PutFullDropsOldest ==
    /\ dpc = "put"
    /\ Len(buffer[Current.req]) >= StreamQueue
    /\ buffer' = [buffer EXCEPT ![Current.req] = Append(Tail(@), Current)]
    /\ PopIfLast
    /\ Advance
    /\ UNCHANGED <<schedulerVars, futures, fut, closeVars, httpVars>>

PutFull ==
    /\ dpc = "put"
    /\ Len(buffer[Current.req]) >= StreamQueue
    /\ dpc' = "offer"
    /\ UNCHANGED <<schedulerVars, tableVars, closeVars, batch, httpVars>>

\* Mutants: the slow consumer misses an event, or gets a new deadline.
PutExpiredSkips ==
    /\ dpc = "put"
    /\ Backpressure
    /\ Advance
    /\ UNCHANGED <<schedulerVars, tableVars, closeVars, httpVars>>

PutExpiredRenews ==
    /\ dpc = "put"
    /\ Backpressure
    /\ dpc' = "offer"
    /\ UNCHANGED <<schedulerVars, tableVars, closeVars, batch, httpVars>>

\* The deadline has passed: the stream is dropped and its queue emptied, one
\* get_nowait() per step, the consumer perhaps reading too.
PutExpired ==
    /\ dpc = "put"
    /\ Backpressure
    /\ streams' = streams \ {Current.req}
    /\ dpc' = "drain"
    /\ UNCHANGED <<schedulerVars, futures, fut, buffer, closeVars, batch, httpVars>>

Drain ==
    /\ dpc = "drain"
    /\ buffer[Current.req] # <<>>
    /\ buffer' = [buffer EXCEPT ![Current.req] = Tail(@)]
    /\ UNCHANGED <<schedulerVars, futures, fut, streams, closeVars, threadVars, httpVars>>

\* stream_backpressure_timeout, in place of what was in the queue.
DrainDone ==
    /\ dpc = "drain"
    /\ buffer[Current.req] = <<>>
    /\ buffer' = [buffer EXCEPT ![Current.req] = <<Ev(Current.req, "error", 0)>>]
    /\ Advance
    /\ UNCHANGED <<schedulerVars, futures, fut, streams, closeVars, httpVars>>

Route ==
    \/ RouteNowhere \/ RouteToStream \/ RouteToFuture \/ Resolve \/ ResolveRaises
    \/ OfferStopped \/ OfferGone \/ OfferKnown \/ Put \/ PutFull \/ PutExpired
    \/ Drain \/ DrainDone
---------------------------------------------------------------------------
\* HTTP handlers. "accepted": a stream's generator has not taken its first step;
\* "reading": a one-shot handler awaits its future, a streaming one a message;
\* "writing": it sends a chunk to its client; "leaving": its call of
\* runtime.cancel waits for a thread of the event loop's executor.

\* A submission that is refused changes nothing and is no step here.
Submit(r) ==
    /\ handler[r] = "idle"
    /\ ~closed
    /\ Scheduler!Admit(r)
    /\ IF r \in Streams
       THEN streams' = streams \cup {r} /\ UNCHANGED <<futures, fut>>
       ELSE /\ futures' = futures \cup {r}
            /\ fut' = [fut EXCEPT ![r] = "pending"]
            /\ streams' = streams
    /\ handler' = [handler EXCEPT ![r] = IF r \in Streams THEN "accepted" ELSE "reading"]
    /\ UNCHANGED <<sent, buffer, closeVars, threadVars, outcome, got, stray>>

Become(r, state, how) ==
    /\ handler' = [handler EXCEPT ![r] = state]
    /\ outcome' = [outcome EXCEPT ![r] = how]

Answered(r) ==
    /\ r \in OneShots
    /\ handler[r] = "reading"
    /\ fut[r] = "set"
    /\ Become(r, "done", "answered")
    /\ UNCHANGED <<schedulerVars, tableVars, closeVars, threadVars, got, stray>>

\* close() cancelled the future: CancelledError.
Dropped(r) ==
    /\ r \in OneShots
    /\ handler[r] = "reading"
    /\ fut[r] = "cancelled"
    /\ Become(r, "leaving", "left")
    /\ UNCHANGED <<schedulerVars, tableVars, closeVars, threadVars, got, stray>>

\* Mutants: no shield, or no timeout once the scheduler is done with r.
TimedOutUnshielded(r) ==
    /\ RequestTimeout
    /\ r \in OneShots
    /\ handler[r] = "reading"
    /\ Become(r, "leaving", "left")
    /\ fut' = [fut EXCEPT ![r] = IF @ = "pending" THEN "cancelled" ELSE @]
    /\ UNCHANGED <<schedulerVars, futures, streams, buffer, closeVars, threadVars, got, stray>>

TimedOutLive(r) ==
    /\ RequestTimeout
    /\ r \in OneShots
    /\ handler[r] = "reading"
    /\ phase[r] \in Scheduler!Live
    /\ Become(r, "leaving", "left")
    /\ UNCHANGED <<schedulerVars, tableVars, closeVars, threadVars, got, stray>>

\* wait_for gives up; shield keeps the future as it is.
TimedOut(r) ==
    /\ RequestTimeout
    /\ r \in OneShots
    /\ handler[r] = "reading"
    /\ Become(r, "leaving", "left")
    /\ UNCHANGED <<schedulerVars, tableVars, closeVars, threadVars, got, stray>>

\* The handler's task is cancelled: without a timeout it awaits the wrapped
\* future itself, whose cancellation reaches the concurrent Future.
Aborted(r) ==
    /\ r \in Abortable
    /\ handler[r] = "reading"
    /\ Become(r, "leaving", "left")
    /\ fut' = [fut EXCEPT ![r] = IF ~RequestTimeout /\ @ = "pending" THEN "cancelled" ELSE @]
    /\ UNCHANGED <<schedulerVars, futures, streams, buffer, closeVars, threadVars, got, stray>>

\* The response iterates audio_bytes() for the first time.
Starts(r) ==
    /\ r \in Streams
    /\ handler[r] = "accepted"
    /\ handler' = [handler EXCEPT ![r] = "reading"]
    /\ UNCHANGED <<schedulerVars, tableVars, closeVars, threadVars, outcome, got, stray>>

\* The client goes away before that: a generator that was never started has no
\* finally clause to run, and nobody cancels what was submitted for it.
NeverStarts(r) ==
    /\ r \in Streams
    /\ handler[r] = "accepted"
    /\ Become(r, "done", "forgotten")
    /\ UNCHANGED <<schedulerVars, tableVars, closeVars, threadVars, got, stray>>

\* stream_queue.get returns a chunk, the end, or an error to be raised.
GetMessage(r) ==
    /\ r \in Streams
    /\ handler[r] = "reading"
    /\ buffer[r] # <<>>
    /\ buffer' = [buffer EXCEPT ![r] = Tail(@)]
    /\ CASE Head(buffer[r]).kind = "chunk" ->
              /\ got' = [got EXCEPT ![r] = @ + 1]
              /\ Become(r, "writing", outcome[r])
         [] Head(buffer[r]).kind = "end" -> Become(r, "done", "ended") /\ got' = got
         [] OTHER -> Become(r, "leaving", "left") /\ got' = got
    /\ UNCHANGED <<schedulerVars, futures, fut, streams, closeVars, threadVars, stray>>

ChunkWritten(r) ==
    /\ r \in Streams
    /\ handler[r] = "writing"
    /\ handler' = [handler EXCEPT ![r] = "reading"]
    /\ UNCHANGED <<schedulerVars, tableVars, closeVars, threadVars, outcome, got, stray>>

\* Mutant: without the finally clause.
DisconnectForgets(r) ==
    /\ r \in Streams
    /\ handler[r] \in {"reading", "writing"}
    /\ Become(r, "done", "left")
    /\ stray' = IF handler[r] = "reading" THEN stray \cup {r} ELSE stray
    /\ UNCHANGED <<schedulerVars, tableVars, closeVars, threadVars, got>>

\* The client goes away. A thread that waits in get() stays there.
Disconnect(r) ==
    /\ r \in Streams
    /\ handler[r] \in {"reading", "writing"}
    /\ Become(r, "leaving", "left")
    /\ stray' = IF handler[r] = "reading" THEN stray \cup {r} ELSE stray
    /\ UNCHANGED <<schedulerVars, tableVars, closeVars, threadVars, got>>

StrayGets(r) ==
    /\ r \in stray
    /\ buffer[r] # <<>>
    /\ buffer' = [buffer EXCEPT ![r] = Tail(@)]
    /\ stray' = stray \ {r}
    /\ UNCHANGED <<schedulerVars, futures, fut, streams, closeVars, threadVars, handler, outcome, got>>

\* runtime.cancel of a request the scheduler still has.
CancelFound(r) ==
    /\ handler[r] = "leaving"
    /\ Scheduler!Withdraw(r)
    /\ futures' = futures \ {r}
    /\ streams' = streams \ {r}
    /\ fut' = [fut EXCEPT ![r] = IF r \in futures /\ @ = "pending" THEN "cancelled" ELSE @]
    /\ handler' = [handler EXCEPT ![r] = "done"]
    /\ UNCHANGED <<sent, buffer, closeVars, threadVars, outcome, got, stray>>

\* Of one it has not, or whose worker a close() that raised has stopped:
\* scheduler.cancel raises before anything is popped, and the handler goes on.
CancelMissed(r) ==
    /\ handler[r] = "leaving"
    /\ phase[r] \notin Scheduler!Live \/ ~open
    /\ handler' = [handler EXCEPT ![r] = "done"]
    /\ UNCHANGED <<schedulerVars, tableVars, closeVars, threadVars, outcome, got, stray>>

\* A second cancellation of the handler's task, before a thread has taken the
\* call: it is withdrawn, and CancelledError passes `except Exception`.
CancelCut(r) ==
    /\ handler[r] = "leaving"
    /\ r \in Streams \cup Abortable
    /\ Become(r, "done", "forgotten")
    /\ UNCHANGED <<schedulerVars, tableVars, closeVars, threadVars, got, stray>>

Leave(r) == CancelFound(r) \/ CancelMissed(r)
Read(r) == Starts(r) \/ GetMessage(r) \/ ChunkWritten(r)

---------------------------------------------------------------------------
\* close()

CloseBegin ==
    /\ ~closed
    /\ closed' = TRUE
    /\ closer' = "stopping"
    /\ UNCHANGED <<schedulerVars, tableVars, stop, threadVars, httpVars>>

CloseStop ==
    /\ closer = "stopping"
    /\ stop' = TRUE
    /\ closer' = "joining"
    /\ UNCHANGED <<schedulerVars, tableVars, closed, threadVars, httpVars>>

\* Mutant: the futures are dropped as they are.
CloseSchedulerClears ==
    /\ closer = "joining"
    /\ Scheduler!Shut
    /\ NewlyTold = {}
    /\ futures' = {}
    /\ streams' = {}
    /\ closer' = "closed"
    /\ UNCHANGED <<sent, fut, buffer, closed, stop, threadVars, httpVars>>

\* The join gives up after two seconds, so the dispatcher may be anywhere.
CloseScheduler ==
    /\ closer = "joining"
    /\ Scheduler!Shut
    /\ NewlyTold = {}
    /\ fut' = [r \in Requests |-> IF r \in futures /\ fut[r] = "pending" THEN "cancelled" ELSE fut[r]]
    /\ futures' = {}
    /\ streams' = {}
    /\ closer' = "closed"
    /\ UNCHANGED <<sent, buffer, closed, stop, threadVars, httpVars>>

\* scheduler.close raised (Scheduler's CloseAborted): nothing is dropped.
CloseRaises ==
    /\ closer = "joining"
    /\ Scheduler!Shut
    /\ NewlyTold = {}
    /\ closer' = "raised"
    /\ UNCHANGED <<sent, tableVars, closed, stop, threadVars, httpVars>>

---------------------------------------------------------------------------
Handle(r) ==
    \/ Submit(r) \/ Answered(r) \/ Dropped(r) \/ TimedOut(r) \/ Aborted(r)
    \/ Read(r) \/ NeverStarts(r) \/ Disconnect(r) \/ StrayGets(r) \/ Leave(r) \/ CancelCut(r)

Close == CloseBegin \/ CloseStop \/ CloseScheduler \/ CloseRaises

Next == Poll \/ Route \/ Close \/ \E r \in Requests : Handle(r)

Spec == Init /\ [][Next]_vars

\* The threads run, deadlines pass, a handler that is woken goes on and a close
\* that has begun ends. Whether a streaming client reads is up to the client.
FairSpec ==
    /\ Spec
    /\ WF_vars(Poll) /\ WF_vars(Route) /\ SF_vars(PutExpired)
    /\ WF_vars(CloseStop \/ CloseScheduler \/ CloseRaises)
    /\ \A r \in OneShots : WF_vars(Answered(r) \/ Dropped(r) \/ TimedOut(r))
    /\ \A r \in Requests : WF_vars(Leave(r))
    /\ \A s \in Streams : WF_vars(StrayGets(s))

\* Every client that is connected reads, too.
ReadingSpec == FairSpec /\ \A s \in Streams : WF_vars(Read(s))

---------------------------------------------------------------------------
ApiTypeOK ==
    /\ phase \in [Requests -> Scheduler!Phases]
    /\ open \in BOOLEAN
    /\ sent \in [Requests -> 0..MaxChunks]
    /\ futures \subseteq OneShots
    /\ fut \in [Requests -> {"none", "pending", "set", "cancelled"}]
    /\ streams \subseteq Streams
    /\ buffer \in [Requests -> Seq(Event)]
    /\ closed \in BOOLEAN /\ stop \in BOOLEAN
    /\ closer \in {"none", "stopping", "joining", "closed", "raised"}
    /\ dpc \in {"poll", "route", "resolve", "offer", "put", "drain", "ended", "dead"}
    /\ batch \in Seq(Event)
    /\ dpc \in {"route", "resolve", "offer", "put", "drain"} <=> batch # <<>>
    /\ handler \in [Requests -> {"idle", "accepted", "reading", "writing", "leaving", "done"}]
    /\ outcome \in [Requests -> {"none", "answered", "ended", "left", "forgotten"}]
    /\ got \in [Requests -> 0..MaxChunks]
    /\ stray \subseteq Streams

\* An answer the scheduler has given for a request somebody waits for is on its
\* way or in the future, whatever was cancelled, closed or timed out meanwhile. It
\* is lost with the dispatcher only, and that only to a cancelled handler that
\* had no time limit.
NoAnswerDropped ==
    \A r \in OneShots :
        handler[r] = "reading" /\ phase[r] = "told" =>
            \/ fut[r] \in {"set", "cancelled"}
            \/ /\ r \in futures \/ (dpc = "resolve" /\ Current.req = r)
               /\ \E i \in 1..Len(batch) : batch[i].req = r /\ IsLast(batch[i])
            \/ /\ dpc = "dead" /\ ~RequestTimeout
               /\ \E q \in Abortable : fut[q] = "cancelled"

\* No cancellation catches the dispatcher between done() and set_result(): the
\* shield that goes with a request timeout is what guarantees it.
DispatcherSurvives == dpc # "dead"

\* What a stream's client reads next is the chunk after the last one it read,
\* as long as its stream has not been dropped.
StreamContiguous ==
    \A s \in streams : handler[s] \in {"accepted", "reading", "writing"} =>
        \A i \in 1..Len(buffer[s]) : buffer[s][i].kind = "chunk" => buffer[s][i].n = got[s] + i

\* Every chunk the workers have produced for a stream that is still served is
\* with its client, in its queue or on its way there, once: neither the polling
\* between, nor other requests, nor a full queue lose or repeat one, as long as
\* the dispatcher lives.
Chunks(s, evs) == Cardinality({i \in 1..Len(evs) : evs[i].req = s /\ evs[i].kind = "chunk"})
StreamConserved ==
    \A s \in streams : handler[s] \in {"accepted", "reading", "writing"} /\ ~stop /\ dpc # "dead" =>
        sent[s] = got[s] + Chunks(s, buffer[s]) + Chunks(s, batch)

\* A stream that ends normally for its client was received completely.
StreamComplete == \A s \in Streams : outcome[s] = "ended" => got[s] = sent[s]

\* docs/SECURITY.md "cancels timed-out work": when a handler's call of
\* runtime.cancel has run, whether or not it raised, no worker is left working on
\* its request, and an entry that stays in _futures or _streams is waiting for an
\* event that removes it. Such an event can fail to come only where the scheduler
\* lost the request or the dispatcher died. NeverStarts and CancelCut make no call.
CancelClears ==
    \A r \in Requests :
        handler[r] = "done" /\ outcome[r] = "left" /\ open =>
            /\ phase[r] \notin Scheduler!Live
            /\ r \in futures \cup streams =>
                  \/ phase[r] \in {"due", "lost"}
                  \/ \E i \in 1..Len(batch) : batch[i].req = r /\ IsLast(batch[i])
                  \/ dpc = "dead"

\* docs/SECURITY.md "bounds one-shot HTTP waiting time": whatever becomes of the
\* scheduler, the workers and the dispatcher.
HandlersReturn == \A r \in OneShots : handler[r] = "reading" ~> handler[r] = "done"

\* A close() that has not raised leaves no one-shot handler waiting, even one
\* without a timeout and a dispatcher that has died.
CloseReleases == closer = "closed" ~> \A r \in OneShots : handler[r] # "reading"

\* docs/SECURITY.md "prevents a non-reading stream consumer from blocking the
\* dispatcher indefinitely": it always comes back to poll, or is told to stop.
DispatcherReturns == dpc \notin {"poll", "ended"} ~> dpc \in {"poll", "ended"}
=============================================================================
