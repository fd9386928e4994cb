# A verification project for VoxCPM2-Inference

TLA+ models of the serving runtime in `src/voxcpm_runtime`, checked by TLC on
small instances, and theorems about them, checked by TLAPS for every size.
`PROJECT.json` lists the runs, the correspondence of every definition to source
lines, the hazards, and what the checks found.

## 1. The system

An HTTP server for a text-to-speech model. One process serves HTTP and owns a
scheduler; each GPU has a worker process that holds the model. There is one
dispatcher thread, one lock, and for every worker a pipe and a bounded queue.

```
 HTTP handler --submit/cancel--> ApiRuntime --under _lock--> Scheduler --> WorkerClient ==pipe==> worker
 (asyncio)    <--Future/Queue--  dispatcher <---- poll ----             <--            <=queue== process
```

| Component | State it keeps | Operations | Made correct by |
|---|---|---|---|
| Scheduler (`scheduler.py`) | pending queue, active table, submitted ids, undelivered events, closed | submit, cancel, poll, close | an id is in one place at a time; bounds; FIFO; every admitted id ends |
| Worker client (`worker_client.py`) | a state of seven, the active id, pipe, result queue, process | start, submit, receive, cancel_active, shutdown; execute, stream for a single caller | agrees with the scheduler and the child; no message of one request is taken for another's; no child is left behind |
| Worker process (`worker_process.py`) | the backend, its position in the request loop | load, serve, fail, exit | one last message per request |
| Pool start-up (`worker_factory.py`) | the clients started so far | build, start all or none | a failed start leaves no process |
| API runtime (`api_runtime.py`) | futures, stream queues, closed, stop, the dispatcher's position | submit, submit_stream, cancel, close, dispatch | answers and chunks arrive once and in order; one client cannot stop the others |
| HTTP application (`api_app.py`) | one handler per request | tts, tts_stream, readyz, healthz, lifespan | nobody waits for ever; what a handler cancels is stopped |
| Backends (`pytorch_backend.py`, `fake_backend.py`) | lifecycle state, model, the generator of a stream | load, synthesize, clone, stream, close | a stream marks its last chunk and nothing else; upstream's generator is not left half read |
| Device plan (`device.py`, `profiles.py`) | none | detect, resolve in the parent, resolve in a worker | nobody who asked for a GPU gets the CPU; workers do not share one; parent and child agree |
| Model resolver (`model_resolver.py`), Kaggle adapter (`deploy/kaggle`) | files on disk | resolve, discover | order of sources; nothing sound is passed over, nothing unsound is accepted |
| Configuration (`config.py`) | none | from_env | fields agree with each other |
| WAV output (`wav_io.py`) | files on disk | write, validate | never half a file under the final name |
| Scripts (`generate.py`, `serve.py`, `verify_model.py`), `doctor.py` | exit status | run to the end | the status tells the truth; no model is left loaded |
| Metrics, benchmark, demo | none others depend on | sample, report | - |

What is hard here: children die between any two instructions of the parent, and
the parent learns of it only through the pipe, the queue or a liveness test;
answers race with two kinds of timeout, with cancellation and with shutdown;
`poll` may raise half way and must not lose what it has collected; handlers are
cancelled while the dispatcher is about to answer them; a slow reader of one
stream holds up the one dispatcher all requests share. Outside the server: a
stream's chunk is yielded one read late; two processes write one file; where a
worker runs is decided twice, by a parent that may not touch CUDA and by the worker,
from two numberings of the same GPUs.

## 2. The modules

| Module | Models | Remarks |
|---|---|---|
| `WorkerChannel` | a started `WorkerClient`, its pipe and queue, its child | one action per client method and per step of the child |
| `Scheduler` | `scheduler.py` over `WorkerChannel` | EXTENDS it; `submit`, `cancel` in one step, `poll` and `close` in as many as they touch workers |
| `RequestLifecycle` | what a caller of the scheduler may rely on | abstract: each id is new, queued, running, due, told or lost |
| `ApiRuntime` | `api_runtime.py`, the two handlers of `api_app.py` | INSTANCEs `RequestLifecycle` in place of the scheduler |
| `PoolStart` | `start_worker_clients`, with `start` and `shutdown` of its clients and the children's start | ends where `Scheduler`'s `Init` begins |
| `Placement` | `profiles.py`, the plan of `device.py`, `parent_execution_plan` and what a worker inherits | operators only: a plan is a function of settings and visible GPUs |
| `ModelSource` | `ModelResolver.resolve`, `KaggleModelMountAdapter.discover` | one step per directory visited and per candidate tried |
| `BackendContract` | what a caller of a backend may rely on | abstract: a life, and a stream with one marked last chunk |
| `Backend` | both backends and their generators | one step per call and per `next()` |
| `WavOutput` | `write_wav` in several processes | one step per system call that another process can see |
| `Launch` | the programs from command line to exit | EXTENDS the four before and sequences their steps as the scripts do |
| `MCScheduler`, `MCApiRuntime`, `MCLaunch` | the finite instances | `PoolStart`, whose constants are numbers, is its own |
| `SchedulerProofs`, `ChannelProofs`, `PlacesProofs`, `ApiProofs`, `PoolProofs`, `BackendProofs`, `WavProofs`, `LaunchProofs` | theorems | |

**WorkerChannel and Scheduler.** `wstate`, `wactive` are the client's `_state`
and `_active_request_id`; `results` is the bounded `multiprocessing.Queue`;
`child`, `job`, `made` are the other side. `pending`, `active`, `submitted`,
`events`, `closed` are the attributes of the same names. `ApiRuntime` calls the
scheduler under one lock, so one call is in progress at a time; `pc` and
`cursor` say how far `poll` or `close` has come in its loop over the workers,
and the children take steps in between. This is where liveness tests go stale:
`CanSend` is evaluated when the message is sent, not when the worker is chosen.
A child that leaves its loop is "exiting", then "deaf" (its end of the pipe is closed,
`is_alive()` still says yes), then dead: a send may fail on a process that lives.
`ClientStop` is a `shutdown` that comes to its end; `ClientCut` is one whose send
raises, of which only the `finally` clause is left: the child is not terminated.
A `poll` visits, in this order, expiry of running requests, expiry of queued
ones, one message per active worker, the dispatch loop (after a last message),
and the failure of a queue without healthy workers. If a call raises, what it
did before is kept, its events included. `answer` and `heard` are history
variables, what callers have been told.

**ApiRuntime.** Every `with self._lock` block is a step, and so is each of the
code's gaps between two of them: `done()` and `set_result()` (`RouteToFuture`,
`Resolve`), the look at `_streams` and the `put` (`OfferKnown`, `Put`), the
emptying of a dropped stream's queue (`Drain`, `DrainDone`). `batch` is the
dispatcher's local tuple of events; it is lost with the thread when `set_result`
raises (`ResolveRaises`). A streaming handler is accepted (submitted, its generator not
started), reading, writing, leaving (its `runtime.cancel` on the way) or done; a
one-shot handler begins with reading. Two ways out cancel nothing, and their `outcome`
is "forgotten": a client that goes away while its stream is accepted (`NeverStarts`; a
generator that was never started has no `finally` clause to run), and a second
cancellation before a thread has taken the call of `runtime.cancel` (`CancelCut`;
`CancelledError` passes `except Exception`). A thread that was waiting in
`stream_queue.get` when its handler was cancelled goes on waiting there
(`stray`) and may take a message later.

**PoolStart.** One thread, so `pc` is where `start_worker_clients` is; `start` and
`shutdown` are cut where they wait for a message or a process. `cursor` is
`len(started) + 1`, `todo` what the two loops of the `except` clause still have to
shut down. A Ctrl-C comes only at a wait. It unwinds `start` without a state
change, and `shutdown` through its `finally`, which a failed client's branch does
not have; `spared` remembers the worker it hit there. `HandsOver` is the joint with
the rest: what the start-up returns is an initial state of `Scheduler`, or that
state after faults and deaths of idle children.

**Backend.** `bstate` is `_state`; `gen` is where the generator of the last stream
is, "fresh" before its body has run, because `stream()` only makes it. The real one
asks upstream for a chunk more before it yields the one at hand (`Ahead`), so that a
failure loses a chunk that was complete, and `pulled` runs ahead of `sequence`. The
fake one slices a result it has. The `finally` clause calls upstream's `close()`, and
that may raise ("stuck"), at a failure, at a drop, and when the stream was to end
(`NextEndRaises`): an error then follows the chunk that was marked as the last, as
tests/test_pytorch_backend.py:1530-1549 asserts. `ContractKept` maps both backends to
`BackendContract`, whose `Fail` allows for it.

**WavOutput.** A file is written in two pieces and named after its creator; `target`
and `part` say which file has the final and the temporary name. The temporary's name
is made from the target's, so writers share it: `Open` truncates what is there,
`Replace` moves whatever is there, `Discard` unlinks it. `crossed` remembers that two
were between open and replace at once; the code has no lock against that.

**ModelSource.** What is on the disk is chosen when it is looked at and kept in
`facts`. A validator is its error code: which of its fifty tests refused a directory
is left open, in which order the codes can win is not.

**Launch.** `lpc` is where the program is, `program` which one. `serve` is
followed as parent until it has a plan, then as one of its workers, whose settings
and visible GPUs become `ChildSettings` and `ChildSees`. `settings`, `mask` and
`seen` are chosen at the step that looks at them and forgotten (`Unknown`) after the
last: what was chosen for the plan does not multiply the states of the stream.

**Composition.** The HTTP side over the full scheduler with its children has far
too many states to enumerate. The two halves meet in `RequestLifecycle`:
`Scheduler` is checked to implement it (`KeepsLifecycle`, by the mapping `Phase`),
and `ApiRuntime` is built on nothing else: it takes `RequestLifecycle`'s own actions for
the scheduler's calls, so that it uses the contract by construction. What it assumes
besides, the order of the events of a poll, `StreamInOrder` and `OneChunkAPoll` give. `Moves` is transitive, so that one
`Work` step covers a whole `poll`. "lost" is part of the contract because the
code has it: a request can end without an answer (finding `request_lost`), and
the HTTP side must, and does, survive that. In the same way `Launch` composes with
`Backend` and `WavOutput` by calling nothing but their steps, which is proved (`LaunchUsesBackend`,
`LaunchUsesOutput`), so what holds of the components holds in every program.

## 3. The runs

Each run's worst case is small on purpose: two workers and three requests are the
least with which a request waits while two others run, one worker dies and the
other goes on, or a later request overtakes an earlier one. One worker's state
does not depend on how many others there are; scheduler and clients are proved
to agree for any number (section 5). Bounds: `MaxChunks` cuts streams off after
so many chunks, `Mortal` and `Faulty` say which children may die or fail,
`Abortable` which handlers may be cancelled. A request id is used once, which the
scheduler enforces. `pool_start` has three workers, so that one is started, one
starting and one untouched when it fails; `Interrupts` is two, the second Ctrl-C for
the clean-up of the first. Its result queues hold two messages: with one, and two
Ctrl-C, a child that has said "ready" and is told to stop waits in its second `put`
for ever once nobody reads, the hazard listed at `worker_process.py:112`.

`limited` has one slot for two workers, so that requests wait while a worker is
ready, and streams of two chunks; both time limits are set, and both workers may die
and fail. `unlimited` has two slots, streams of two chunks and no limits: a second slot
is what lets a poll keep a chunk of one worker and raise at another. Both its workers
may die, and worker 1 may also fail between two requests; that both may is in `limited`.
`api_bounded` has one one-shot, which may be cancelled, and one stream of two chunks
over a queue of one, the least with which the queue is full while a chunk and the end
are still to come. `api_plain` has three one-shots and no stream: with two of them in one
batch, the cancellation of one can cost the other its answer.
`launch` has two GPUs, the four masks a parent can be started with, six GPU lists,
one of them naming a GPU that does not exist, and worker counts 0 (not given) to 2:
every branch of `Placement` is reached. `MaxDepth` is 2, with a directory below it;
`MaxEntries` 10 and `ManyFiles` 5 put the budget's end inside a directory in some runs
and beyond the mount in others; `MaxCandidates` 3 is less than the five directories.
`MaxChunks` 3 is the least with a first, a middle and a last chunk. Two writers are
enough for a crossing; `WavProofs` has any number.

| Run | Question | Properties |
|---|---|---|
| `limited` | both limits set, one slot, mortal and faulty workers | types; an id is never in two places; bounds; what a death costs; chunks in order; a close leaves nothing unless a child died; the lifecycle is implemented |
| `unlimited` | no limits, mortal and faulty workers | clients agree with the scheduler; no foreign message; chunks in order, one a poll; truth of `no_healthy_worker`; no idle worker while somebody waits; FIFO; requests stop waiting and running, and are answered unless a child died |
| `api_bounded` | a one-shot and a stream of two chunks, queue of one, both HTTP limits set | the dispatcher survives and comes back; handlers return; what a handler cancels is off its worker; chunks are neither lost, repeated nor reordered; a stream that ends normally was complete |
| `api_plain` | three one-shots, no limits, one handler cancelled | an answer is lost only with a dispatcher that a cancellation has killed; `close` releases those who wait |
| `pool_start` | three workers start; children hang, fail, die; two Ctrl-C; the parent is killed | a failed start leaves nothing behind; a good one hands over the scheduler's initial state; it returns; stopped children end |
| `launch` | every program, with any settings, GPUs, model directories, failures and a second writer | no silent CPU; workers apart; nothing hidden in a mount; the right model; the backend's contract; upstream released; the target whole; an honest exit |
| `fifo_overtaken`, `request_lost`, `child_orphaned`, `stale_ready`, `api_stuck`, `visible_gpu` | see section 4 | one documented promise each, violated |

Every property of a passing run has a mutant, a plausible wrong version of one
definition kept next to it, that makes TLC report it.

**Fairness.** Weak fairness of the dispatcher thread (`Poll`, `Route`) and of a
`close` that has begun: they are threads that run and block on nothing but
bounded waits, with the exceptions the model shows. Of a serving child
(`ChildServe`, `ChildExit`): inference ends. That is an assumption on the neural
model; without it only `InferenceLimit` ends a request. Of HTTP timeouts and of
the end of a handler: the event loop runs. `PutExpired` is strongly fair: it is
tested once a turn of the loop, and the deadline does pass. Callers, faults,
crashes, disconnects and a streaming client's reading are not fair, except in
`api_stuck`, where even clients that read as fast as they can do not help. `Leave` is
fair because `asyncio.to_thread` finds a thread: every stray `get()` holds one of the
event loop's executor, whose size is not modelled, so that enough of them would
take that fairness away (the hazard listed at `api_app.py:316`).

In `PoolStart` only the parent is fair: it blocks on nothing but waits with a
timeout. Children may hang; `StoppedChildrenEnd` states the fairness of the child it
speaks of as its own hypothesis.

`Launch` states no fairness: what it promises is about what an exit means, not that
one comes.

**Deadlock** is not checked in the `api_` runs and `pool_start`: when all ids have been
used and the runtime is closed, it stops; so does a pool that is up, or was given up. It
is checked in the scheduler's runs and in `launch`: no program gets stuck between its
command line and its exit (`Over` stutters there).

## 4. What the runs found

Six runs show promises of the documentation that the code does not keep. The
first five were reproduced with the real classes.

- `fifo_overtaken`: `submit` dispatches to a ready worker without looking at the
  queue, and freeing a slot by cancel, expiry or failure does not dispatch. With
  `max_concurrent_requests` below the number of workers a new request overtakes.
- `request_lost`: `_dispatch_pending` pops a request and submits it to a worker
  that turns out dead; `WorkerExitedError` is not handled there, and the request
  is in no collection any more.
- `child_orphaned`: `shutdown` of a ready client with a dead child raises
  `BrokenPipeError`; the loop in `close` does not catch it and leaves the
  remaining children running.
- `stale_ready`: readiness counts states no one refreshes; when all idle children
  have died, `/readyz` answers 200 until a request meets them.
- `api_stuck`: the only code that cancels a stream is the `finally` clause of
  `audio_bytes`, which does not run when the client is gone before the generator's
  first step. The request keeps its worker, its queue fills, and without a
  backpressure timeout (the default) the dispatcher offers the next message to it for
  ever; nobody else is answered. A second way to the same end needs no such client:
  `ApiRuntime.cancel` asks the scheduler first, which raises for a request that has
  ended, so that the stream stays in `_streams` while its end is offered to a full queue.
- `visible_gpu`: the parent numbers the GPUs it sees from 0, and the worker's
  `CUDA_VISIBLE_DEVICES` is that number, where CUDA counts the machine's. A server
  started with `CUDA_VISIBLE_DEVICES=1` runs its worker on GPU 0.

Smaller observations, which no run is spent on:

- Without a request timeout, the cancellation of one one-shot handler between `done()`
  and `set_result()` ends the dispatcher thread, and the answers left in its batch are
  lost. `NoAnswerDropped` names this as its only exception; `close` still releases the
  handlers that wait for them.
- A generator made before `close()` and read after it raises `backend_not_loaded`;
  docs/BACKENDS.md:56 says operations after close fail with `backend_closed`.
- A probe that times out looks like no GPU (`answered`): under `auto` the parent
  plans one CPU worker, and that worker, which looks for itself, runs on CUDA. This
  is why `NoSilentCpu` and `WorkersApart` speak of the probe's answer.
- `doctor` has a handler for `DeviceResolutionError` and none for
  `ProfileResolutionError`: a profile conflict is reported as an unexpected internal
  error with status 1. `generate.py` constructs the backend outside its `try`, so a
  plan the backend does not support ends in a traceback with status 1.
- An unreadable directory or too many candidates in a mount end the resolution with an
  error although the cache holds a sound model. The workers of the server never look
  at mounts, `generate.py` does.

`unlimited` includes `Fifo` because without the concurrency limit the promise holds.

## 5. What is proved

All theorems hold for every set of requests, number of workers, bound and limit.

- `SchedulerProofs`: `TypeCorrect`, `BoundsKept` and `SchedulerAndClientsAgree`.
  The last needs the strengthening `CoupledInv`: `Coupled` alone is not inductive
  because a close that raised has left some workers stopped, and only the workers
  before its cursor.
  `NoHealthyIsSaidTruly` rests on `NoHealthyInv`: the error is only ever produced when
  every worker is `Down`, and `Down` is for good (`DownStays`).
  `CloseLeavesNothing` rests on `CloseInv`: while no child has died by itself, a child
  that is not running belongs to a stopped client (`ChildrenInv`), and the cursor of
  `poll` rests on a worker that is active (`CursorInv`), so that no stop raises.
  `NobodyWaitsIdly` assumes `NumWorkers <= MaxConcurrent`, as in the run `unlimited`;
  `IdleInv` says that while anything is queued the only ready worker is the one the
  dispatch loop is at. The same invariant gives `QueueIsFifo`: `submit` can only overtake
  the queue when it finds a worker idle.
- `ChannelProofs`: `MessagesAreOwn`. Its invariant `QueuesInv` describes the whole
  result queue, not its head: everything in it belongs to the request the client
  serves, nothing follows a last message but a nameless error, and after that the
  child has left its loop.
- `PlacesProofs`: `PlacedOnce`, the exclusion of double execution and double
  answers. It is inductive on top of the two before: that a message taken from a
  queue ends the request recorded for that worker is `MessagesAreOwn`, and that
  this request is nowhere else is `OncePlaced` itself.
- `ApiProofs`: `DispatcherNeverDies` and `AnswersAreDelivered` from `ApiInv`: a popped
  future is the current event's and no longer in the table, and cancellation
  reaches futures only through the table or, without a request timeout, through
  the handler's task. `RequestTimeout` is therefore a hypothesis of the first. It is
  needed: without it `ResolveRaises` happens (run `api_plain` takes it), and the second
  theorem says that a dispatcher it has killed is the only thing an answer is lost with.
  `StreamIsContiguous`, `StreamIsConserved` and `StreamIsComplete` rest on `StreamsInv`:
  a batch holds at most one chunk of a stream, before its last event if it has one; the
  stream's queue is numbered from `got`; what was sent is what was read, is queued or is
  in hand; an end comes last. The two speak of streams that are still registered.
  `CancelIsFinal` follows each call of `runtime.cancel` to its end: what it finds is
  withdrawn, and what it does not find has ended, with the event that clears the tables
  on its way. It says nothing of `NeverStarts` and `CancelCut`, which make no call.
- `PlacesProofs`, second part: `SchedulerImplements`, the refinement. `OnlyOnward` says
  what a step may do to an id's place; it is shown for each action, and `OnwardMoves`
  turns it into one of `Moves`. It needs `OncePlaced` before and after the step,
  because `Phase` is an IF whose branches must exclude each other, and `WithinBounds`,
  because the requests that run are at most the workers that are busy (`ServedAreFew`).
- `PlacesProofs`, third part: `StreamsInOrder`, from the child that numbers the chunks to
  the caller of `poll`. `FlowInv` counts what of a request has left its worker's queue
  (`got`: in `events` or heard): the queue of a busy worker goes on from there, its child
  goes on where the queue ends, and an id that was not served yet has nothing. It needs
  `OncePlaced`, because a chunk moves the count of one worker's request only, and
  `QueuesInv`, because what a ready worker's queue still holds carries no id.
  `OneChunkEach` is the other thing `ApiRuntime` takes for granted of a poll: at most one
  chunk of a request, and nothing after its last event. `Polled` says that in the middle
  of a poll the requests with a chunk in `events` belong to workers before the cursor;
  it would not hold if `poll` asked the workers while events of a poll that raised are
  waiting, which its early return prevents. Stating it showed that `ApiRuntime`'s `Poll`
  left out a chunk that is kept so and whose stream is cancelled before it is returned;
  it is one of the events nobody waits for (`Unwanted`).
- `PlacesProofs`, fourth part: `DeathCostsTwo`, the bound behind `BlastRadius`. `CostInv`
  keeps an account: the ids lost while the scheduler is open are at most the dead whose
  nameless error is gone from their queue (`Struck`) plus the dead whose client is down
  (`Gone`). Both only grow; `poll` loses an id in two ways only (`Remains`), and each is
  that worker's first of its kind (`LossIsNew`), because a child puts one nameless error
  at most (`NamelessInv`) and a client that failed is never dispatched to again.
- `PoolProofs`: `PoolTypes`, `NothingIsLeft` and `PoolIsHandedOver`, for any number of workers.
  `CleanupInv` says that during a clean-up every worker is done, spared or still on
  the list, for which the list must name everybody (`CleanupOrderCovers`);
  `StartInv` says what may be in the queue of a worker behind, at and before the cursor.
- `BackendProofs`: `BackendReleases` and `BackendImplements`, from `BackendInv`: the real
  generator has read one chunk more than it gave until the marked one, the fake one's
  mark is the end of its result. A failing `close()` of upstream is covered: it ends the
  stream in an error, after the marked chunk too, and never as a normal end.
- `WavProofs`: `WavAtomic`, for any number of writers. `WavInv` says which file has which
  name: the one being written never has the target's, and while no two writers have
  crossed, the temporary is the only writer's own or gone.
- `LaunchProofs`: every step of a program is a step of its backend, of its file, or of
  neither (`ThreeKinds`), so that `LaunchReleases`, `LaunchImplements` and `LaunchAtomic`
  follow from the components. `LaunchNotSilent` and `LaunchApart` come from `PlaceInv`,
  which follows a plan from the parent to the worker: after the spawn the worker's
  settings are a function of its GPU alone, and lemmas on `Placement`'s operators
  (`CpuIsAsked`, `SpecsApart`, `ChildRunsAlone`) do the rest. `LaunchHonest`, from
  `ExitInv`, puts backend and file together: what status 0 says about the target
  rests on `WavInv`, what it says about the stream on `BackendInv`.

  `LaunchOnVisible` says how far the promise that `visible_gpu` refutes does hold: in
  every state where the parent was shown all GPUs. `Landed`, a worker's GPU is one of
  the machine, is all it takes.
- `LaunchProofs`, second part: `LaunchNothingHidden` and `LaunchRightModel`, for every
  tree of directories, depth and limit. `SearchInv` is about the depth-first search.
  `Covered`: of every way down from the root, either the end was looked at or one of
  its directories is still on the trail, high enough to reach the end from it. `OnceEach`:
  nothing is looked at twice, because a directory is listed in one place
  (`TreeAssumption`); a second, deeper visit would be one that reaches less. When the
  trail is empty, the end of every way was looked at. That ways end in all of
  `Reached` is the induction: `Reached` is defined by recursion, and
  `InSteps` does the induction once for a set of numbers, with a least counterexample
  (`WFMin`), because the library's theorem takes an operator. `RightModel` needs that
  candidates are offered in the order of their paths and that those before the current
  one were refused.
  `LaunchTypes` puts together what the components and `SearchInv` say of their variables,
  `Counted` (`BackendCounts`) among it, and adds where each program can be
  (`ControlTyped`) and what the settings and masks can be there (`PlaceTyped`).
- `ApiProofs`, second part: `ApiTypes`. All of it is typing but the bound on `got`, which
  is not inductive: it rests on the numbers of the chunks. `Bounded` says that
  the chunks in a stream's queue are numbered from what the client has to what was sent,
  and that while the stream still flows the one on its way has a number left.

The assumptions are `ChannelAssumption`, `SchedulerAssumption`, `ApiAssumption`,
`PoolAssumption`, `ModelAssumption`, `TreeAssumption`, `BackendAssumption`,
`WavAssumption` and `LaunchAssumption`: the ranges constructors enforce, distinct names
for distinct things, finitely many requests, and that directories form a tree.

Only model-checked is liveness, which is beyond the prover: `Settled`, `EveryoneAnswered`,
`HandlersReturn`, `DispatcherReturns`, `CloseReleases`, `StartReturns` and
`StoppedChildrenEnd`. Every other property of a passing run is a theorem, three of them
(`DispatcherSurvives`, `NoIdleWorkerWhileQueued`, `Fifo`) under the hypothesis named above.

## 6. What is left out

- The neural model, CUDA, HTTP parsing, authentication and the wording of errors.
- What a child does whose parent has died: its put to a full queue that nobody reads
  never returns (the hazard at `worker_process.py:112`), which `CloseIsComplete`, about
  a parent that calls `close`, does not speak of.
- Two writers of one file between open and replace at once: `TargetWhole` and
  `ExitHonest` exclude them (`crossed`), because nothing in the code or the documents
  promises anything for them.
- Directories below the depth limit of the mount walk, which the code leaves out
  silently: `NothingHidden` is about what is within reach of the limits.
- Exceptions of `generate.py` outside its handlers (what 482-498 observes of CUDA and
  the host): they end the process in a traceback, as a kill would, and no exit status
  of the program's own says anything; `ExitHonest` is about its own.
- `multiprocessing.Queue`'s feeder thread: a put is one step. A child killed inside
  a put can corrupt the pipe; that is a property of the library.
- Time: a limit that is set may be found exceeded at any test of it.
- In `ApiRuntime`, "cancelled" events are routed as errors, refused submissions
  change nothing and are no steps, and a stream dropped by `close` leaves its
  reader waiting (a hazard listed without a property).
- `execute` and `stream` of `WorkerClient`, an interface for a single caller that only
  tests use, and the lifespan of the HTTP application around start-up and close.
- The remote acquirer of the resolver, which no program passes. The parsing of the
  configuration fields that do not decide where inference runs: it keeps no state and
  ends in acceptance or `ConfigurationError` (`SettingsRefused`).
- `benchmark.py`, the Kaggle demo and the notebooks, which run the programs above and
  collect numbers; metrics and logging, which no decision depends on.
- Sample values, sizes and digests of audio. Of a WAV file the model keeps whose
  audio its two halves are: a header that names a length the file does not have is
  what `validate_wav` can tell, a mixture of two runs of one length is not.
- The operating system under `WavOutput`: rename is atomic, a killed process loses
  nothing it had written, a crash of the machine is not modelled.
- `PROJECT.json` says of every component whether it is modelled, partly or not.

## 7. Plan

Done, in the order in which the behaviour matters: the serving core and its
theorems; start-up; the refinement of `RequestLifecycle` and its proof; the
backends; the execution plan; the choice of a model; files; the programs around them.

Next:

1. The lifespan of the HTTP application: an `ApiRuntime` that cannot be constructed
   after the workers were started leaves them running (`api_app.py:159`).
2. The single-caller interface of `WorkerClient`, if a program comes to use it.
