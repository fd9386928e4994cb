--------------------------- MODULE WorkerChannel ---------------------------
(***************************************************************************)
(* One parent-side WorkerClient per worker, the spawned child process      *)
(* behind it and the two IPC objects between them: the control pipe and    *)
(* the bounded result queue (worker_client.py, worker_process.py).         *)
(*                                                                         *)
(* The clients belong to whoever holds the runtime lock and are driven by  *)
(* the operators under "Client calls"; the children run on their own (the  *)
(* actions under "Child process") and may fail between any two of them.    *)
(* A started pool is the initial state: ApiRuntime is built only after     *)
(* every client's start() has returned its ready message.                  *)
(***************************************************************************)
EXTENDS Naturals, Sequences, FiniteSets

CONSTANTS
    NumWorkers,    \* the workers are 1..NumWorkers, in worker_id order
    Requests,      \* request ids
    Streams,       \* the ids whose operation is "stream"
    NoReq,         \* Python's None where a request id may stand
    Mortal,        \* bound: the workers whose child may be killed from outside
    Faulty,        \* bound: the workers whose child may fail outside a request
    MaxChunks,     \* bound: chunks one stream yields at most
    StreamBuffer   \* stream_buffer_chunks, the result queue's maxsize

Workers == 1..NumWorkers

ASSUME ChannelAssumption ==
    /\ NumWorkers \in Nat \ {0}
    /\ Streams \subseteq Requests
    /\ NoReq \notin Requests
    /\ Mortal \subseteq Workers
    /\ Faulty \subseteq Workers
    /\ MaxChunks \in Nat
    /\ StreamBuffer \in Nat \ {0}

VARIABLES
    wstate,    \* WorkerClient._state
    wactive,   \* WorkerClient._active_request_id
    child,     \* the process: serving, exiting (past its loop), deaf (past
               \* the closing of its end of the pipe), dead, killed
    job,       \* the request in the control pipe or being executed
    made,      \* chunks already put for that request
    results    \* the result queue

channelVars == <<wstate, wactive, child, job, made, results>>

\* WorkerState without CREATED and STARTING, which start() has left behind.
\* STOPPING exists only inside shutdown(), which is one step here.
WorkerStates == {"ready", "busy", "stopped", "failed"}

\* "dead" died by itself, "killed" was terminated or told to shut down.
ChildStates == {"serving", "exiting", "deaf", "dead", "killed"}

OptRequest == Requests \cup {NoReq}

\* What the child may put: the request id is NoReq for an error raised outside
\* a request. n is a chunk's index, or the number of chunks before an end.
ChildCodes == {"chunk", "result", "end", "error"}
Message == [req : OptRequest, what : ChildCodes, n : 0..MaxChunks]

Msg(r, what, n) == [req |-> r, what |-> what, n |-> n]

ChannelInit ==
    /\ wstate = [w \in Workers |-> "ready"]
    /\ wactive = [w \in Workers |-> NoReq]
    /\ child = [w \in Workers |-> "serving"]
    /\ job = [w \in Workers |-> NoReq]
    /\ made = [w \in Workers |-> 0]
    /\ results = [w \in Workers |-> <<>>]

---------------------------------------------------------------------------
\* Client calls

Ready == {w \in Workers : wstate[w] = "ready"}
Healthy == {w \in Workers : wstate[w] \notin {"failed", "stopped"}}

\* Process.is_alive().
IsAlive(w) == child[w] \in {"serving", "exiting", "deaf"}

\* control.send reaches the child as long as its end of the pipe is open.
CanSend(w) == child[w] \in {"serving", "exiting"}

\* submit() on a READY client whose pipe is open.
ClientSend(w, r) ==
    /\ wstate' = [wstate EXCEPT ![w] = "busy"]
    /\ wactive' = [wactive EXCEPT ![w] = r]
    /\ job' = [job EXCEPT ![w] = r]
    /\ made' = [made EXCEPT ![w] = 0]
    /\ UNCHANGED <<child, results>>

\* submit() on a READY client whose pipe is broken, or receive() finding its
\* child gone: _mark_failed, and WorkerExitedError to the caller.
ClientFail(w) ==
    /\ wstate' = [wstate EXCEPT ![w] = "failed"]
    /\ UNCHANGED <<wactive, child, job, made, results>>

IsMismatch(w, m) == m.req # NoReq /\ wactive[w] # NoReq /\ m.req # wactive[w]

\* Mutant: a chunk frees the client as a terminal message does.
ClientReceiveFreesEarly(w, m) ==
    /\ results' = [results EXCEPT ![w] = Tail(@)]
    /\ wstate' = [wstate EXCEPT ![w] = IF IsMismatch(w, m) THEN "failed" ELSE "ready"]
    /\ wactive' = [wactive EXCEPT ![w] = IF IsMismatch(w, m) THEN @ ELSE NoReq]
    /\ UNCHANGED <<child, job, made>>

\* receive(), its message already taken from the queue: a foreign id fails the
\* client, a terminal message frees it, a chunk leaves it BUSY.
ClientReceive(w, m) ==
    /\ results' = [results EXCEPT ![w] = Tail(@)]
    /\ wstate' = [wstate EXCEPT ![w] = IF IsMismatch(w, m) THEN "failed"
                                       ELSE IF m.what = "chunk" THEN @ ELSE "ready"]
    /\ wactive' = [wactive EXCEPT ![w] = IF IsMismatch(w, m) \/ m.what = "chunk"
                                         THEN @ ELSE NoReq]
    /\ UNCHANGED <<child, job, made>>

\* Mutant: the state set on entry to shutdown() is never moved on.
ClientStopHalfway(w) ==
    /\ wstate' = [wstate EXCEPT ![w] = "stopping"]
    /\ wactive' = [wactive EXCEPT ![w] = IF wstate[w] = "busy" THEN NoReq ELSE @]
    /\ child' = [child EXCEPT ![w] = "killed"]
    /\ job' = [job EXCEPT ![w] = NoReq]
    /\ results' = [results EXCEPT ![w] = <<>>]
    /\ UNCHANGED made

\* _terminate_and_join then _cleanup_transport, the client ending STOPPED: a
\* BUSY client's cancel_active(), and what shutdown() comes to in every state
\* it does not return from at once (a READY child acknowledges and exits, or
\* is terminated for not doing so).
ClientStop(w) ==
    /\ wstate' = [wstate EXCEPT ![w] = "stopped"]
    /\ wactive' = [wactive EXCEPT ![w] = IF wstate[w] = "busy" THEN NoReq ELSE @]
    /\ child' = [child EXCEPT ![w] = IF @ = "serving" THEN "killed"
                                     ELSE IF IsAlive(w) THEN "dead" ELSE @]
    /\ job' = [job EXCEPT ![w] = NoReq]
    /\ results' = [results EXCEPT ![w] = <<>>]
    /\ UNCHANGED made

\* The send of shutdown() raises an OSError, which only its finally clause sees:
\* the child is neither terminated nor joined.
ClientCut(w) ==
    /\ wstate' = [wstate EXCEPT ![w] = "stopped"]
    /\ job' = [job EXCEPT ![w] = NoReq]
    /\ results' = [results EXCEPT ![w] = <<>>]
    /\ UNCHANGED <<wactive, child, made>>

---------------------------------------------------------------------------
\* Child process

\* Mutant: a message that does not fit is dropped.
PutDrops(w, m) ==
    results' = [results EXCEPT ![w] = IF Len(@) < StreamBuffer THEN Append(@, m) ELSE @]
\* _put_message blocks while the result queue is full.
Put(w, m) ==
    /\ Len(results[w]) < StreamBuffer
    /\ results' = [results EXCEPT ![w] = Append(@, m)]

ChildChunk(w) ==
    /\ child[w] = "serving"
    /\ job[w] \in Streams
    /\ made[w] < MaxChunks
    /\ Put(w, Msg(job[w], "chunk", made[w] + 1))
    /\ made' = [made EXCEPT ![w] = @ + 1]
    /\ UNCHANGED <<wstate, wactive, child, job>>

\* The request ends: its result or stream_end, or the error of an exception
\* caught around _execute_request.
ChildFinish(w) ==
    /\ child[w] = "serving"
    /\ job[w] # NoReq
    /\ \/ Put(w, IF job[w] \in Streams THEN Msg(job[w], "end", made[w])
                                       ELSE Msg(job[w], "result", 0))
       \/ Put(w, Msg(job[w], "error", 0))
    /\ job' = [job EXCEPT ![w] = NoReq]
    /\ UNCHANGED <<wstate, wactive, child, made>>

\* An exception outside a request (control.recv interrupted): an error message
\* that carries no request id, and the process leaves its loop.
ChildFault(w) ==
    /\ w \in Faulty
    /\ child[w] = "serving"
    /\ job[w] = NoReq
    /\ Put(w, Msg(NoReq, "error", 0))
    /\ child' = [child EXCEPT ![w] = "exiting"]
    /\ UNCHANGED <<wstate, wactive, job, made>>

\* worker_process_main's finally clause closes the pipe, then the process ends.
ChildExit(w) ==
    /\ child[w] \in {"exiting", "deaf"}
    /\ child' = [child EXCEPT ![w] = IF @ = "exiting" THEN "deaf" ELSE "dead"]
    /\ UNCHANGED <<wstate, wactive, job, made, results>>

\* Killed from outside (the OOM killer, a signal, a crash of the CUDA stack):
\* what it had put stays readable.
ChildCrash(w) ==
    /\ w \in Mortal
    /\ IsAlive(w)
    /\ child' = [child EXCEPT ![w] = "dead"]
    /\ job' = [job EXCEPT ![w] = NoReq]
    /\ UNCHANGED <<wstate, wactive, made, results>>

ChildServe(w) == ChildChunk(w) \/ ChildFinish(w)

---------------------------------------------------------------------------
ChannelTypeOK ==
    /\ wstate \in [Workers -> WorkerStates]
    /\ wactive \in [Workers -> OptRequest]
    /\ child \in [Workers -> ChildStates]
    /\ job \in [Workers -> OptRequest]
    /\ made \in [Workers -> 0..MaxChunks]
    /\ results \in [Workers -> Seq(Message)]
============================================================================
