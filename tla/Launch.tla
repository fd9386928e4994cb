------------------------------- MODULE Launch --------------------------------
(***************************************************************************)
(* The processes that load a model, from their command line to their exit: *)
(* generate.py, the API server (its parent as far as the plan, then one of *)
(* its workers), a worker on the fake backend, verify_model.py and doctor. *)
(* They share the model resolver, the execution plan, the backend and, for *)
(* generate.py, the WAV file, which other runs may write at the same time. *)
(* A choice is made where it is first looked at and forgotten where it is  *)
(* used for the last time.                                                 *)
(***************************************************************************)
EXTENDS Placement, ModelSource, Backend, WavOutput

CONSTANTS
    Installed,  \* the GPUs of the machine
    Masks,      \* what a process may see of them, in its numbering
    GpuLists,   \* bound: the values of VOXCPM_GPU_DEVICES
    Counts,     \* bound: the values of VOXCPM_WORKERS
    Main        \* the writer that is the process itself

ASSUME LaunchAssumption ==
    /\ Main \in Writers
    /\ Installed \subseteq Nat
    /\ Masks \subseteq Lists /\ \A m \in Masks : Range(m) \subseteq Installed
    /\ GpuLists \subseteq Lists
    /\ Counts \subseteq Nat
    /\ Unknown \notin {"load-only", "one-shot", "stream"}

VARIABLES
    program,   \* "generate", "serve", "worker", "verify", "doctor"
    lpc,       \* where it is
    mode,      \* generate: "load-only", "one-shot", "stream"
    settings,  \* its environment's settings, or Unknown
    mask,      \* what it saw when it was started, or Unknown
    seen,      \* what the process that plans sees
    answered,  \* the parent's probe gave an answer
    spec,      \* serve: the GPU of the worker, see WorkerSpecs
    plan,      \* the last execution plan
    exit       \* exit status, "startup" when a worker or the server never came up

placeVars == <<settings, mask, seen, answered, spec, plan>>
launchVars == <<program, lpc, mode, placeVars, exit>>
vars == <<launchVars, modelVars, backendVars, wavVars>>

Programs == {"generate", "serve", "worker", "verify", "doctor"}
Environments == [profile : Profiles, device : Devices, gpus : GpuLists, workers : Counts]

LaunchInit ==
    /\ program \in Programs
    /\ lpc = "start"
    /\ mode = Unknown
    /\ settings = Unknown /\ mask = Unknown /\ seen = Unknown /\ answered = TRUE
    /\ spec = <<>> /\ plan = NoPlan("unplanned")
    /\ exit = "none"
    /\ ModelInit /\ BackendInit /\ WavInit

Goes(from, to) == lpc = from /\ lpc' = to /\ UNCHANGED exit
Ends(from, code) == lpc = from /\ lpc' = "over" /\ exit' = code
Same == UNCHANGED <<program, mode>>

---------------------------------------------------------------------------
\* The command line and the environment

\* generate.py: no text or no output, or operations that cannot be combined.
ArgumentsRefused ==
    /\ program = "generate"
    /\ Ends("start", "2")
    /\ Same /\ UNCHANGED <<placeVars, modelVars, backendVars, wavVars>>

\* ConfigurationError of RuntimeConfig; the server does not catch it.
SettingsRefused ==
    /\ program # "worker"
    /\ Ends("start", IF program = "serve" THEN "1" ELSE "2")
    /\ Same /\ UNCHANGED <<placeVars, modelVars, backendVars, wavVars>>

\* generate.py and verify_model.py resolve the model first, with the adapter's
\* candidates unless a path is set.
Started ==
    /\ program \in {"generate", "verify"}
    /\ Goes("start", "model")
    /\ IF program = "generate" THEN mode' \in {"load-only", "one-shot", "stream"} ELSE UNCHANGED mode
    /\ ResolveDiscover \/ \E verdict \in Verdicts("explicit-path") : ResolveExplicit(verdict)
    /\ UNCHANGED <<program, placeVars, backendVars, wavVars>>

DoctorStarted ==
    /\ program = "doctor"
    /\ Goes("start", "plan")
    /\ Same /\ UNCHANGED <<placeVars, modelVars, backendVars, wavVars>>

\* worker_process_main with a fake specification, as the tests run it.
FakeWorkerStarted ==
    /\ program = "worker"
    /\ Goes("start", "load")
    /\ Construct("fake")
    /\ Same /\ UNCHANGED <<placeVars, modelVars, wavVars>>

---------------------------------------------------------------------------
\* The model

Resolving ==
    /\ lpc = "model"
    /\ ResolveStep
    /\ UNCHANGED <<launchVars, backendVars, wavVars>>

ModelFound ==
    /\ rpc = "resolved" /\ resolved.how \in Sources
    /\ \/ program = "verify" /\ Ends("model", "0")
       \/ program = "generate" /\ Goes("model", "plan")
       \/ program = "serve" /\ Goes("model", "construct")
    /\ ResolveTaken
    /\ Same /\ UNCHANGED <<placeVars, backendVars, wavVars>>

ModelMissing ==
    /\ rpc = "resolved" /\ resolved.how \notin Sources
    /\ Ends("model", IF program = "serve" THEN "startup" ELSE "2")
    /\ ResolveTaken
    /\ Same /\ UNCHANGED <<placeVars, backendVars, wavVars>>

---------------------------------------------------------------------------
\* The plan

\* Detection fails in a way nobody foresaw.
DetectFails ==
    /\ \/ program = "generate" /\ Ends("plan", "2")
       \/ program = "doctor" /\ Ends("plan", "1")
       \/ program = "serve" /\ Ends("spawned", "startup")
    /\ Same /\ UNCHANGED <<placeVars, modelVars, backendVars, wavVars>>

\* doctor has a handler for DeviceResolutionError, none for the profile's.
Plan(s, m) ==
    /\ lpc = "plan"
    /\ settings' = s /\ mask' = m /\ seen' = m
    /\ plan' = ResolvePlan(s, Len(m))
    /\ \/ program = "generate" /\ plan'.error = "none" /\ Goes("plan", "construct")
       \/ program = "generate" /\ plan'.error # "none" /\ Ends("plan", "2")
       \/ /\ program = "doctor"
          /\ Ends("plan", CASE plan'.error = "none" -> "0"
                            [] plan'.error = "device" -> "2"
                            [] OTHER -> "1")
    /\ Same /\ UNCHANGED <<answered, spec, modelVars, backendVars, wavVars>>

\* build_worker_clients in the lifespan of the server.
ParentPlans(s, m, heard) ==
    /\ program = "serve" /\ lpc = "start"
    /\ settings' = s /\ mask' = m /\ seen' = m /\ answered' = heard
    /\ plan' = ParentPlan(s, IF heard THEN Indices(Len(m)) ELSE <<>>)
    /\ IF plan'.error = "none" THEN Goes("start", "spawn") ELSE Ends("start", "startup")
    /\ Same /\ UNCHANGED <<spec, modelVars, backendVars, wavVars>>

\* One of the workers is followed.
Spawn ==
    /\ Goes("spawn", "spawned")
    /\ spec' \in Range(WorkerSpecs(plan))
    /\ settings' = ChildSettings(settings, spec')
    /\ seen' = ChildSees(seen, spec', Installed)
    /\ Same /\ UNCHANGED <<mask, answered, plan, modelVars, backendVars, wavVars>>

\* _create_real_backend, as far as the plan.
ChildPlans ==
    /\ lpc = "spawned"
    /\ plan' = ResolvePlan(settings, Len(seen))
    /\ IF plan'.error = "none" THEN Goes("spawned", "child") ELSE Ends("spawned", "startup")
    /\ Same /\ UNCHANGED <<settings, mask, seen, answered, spec, modelVars, backendVars, wavVars>>

Forget ==
    /\ settings' = Unknown /\ mask' = Unknown /\ seen' = Unknown /\ answered' = TRUE
    /\ spec' = <<>>

\* A worker has no adapter: the path or the cache.
ChildResolves ==
    /\ Goes("child", "model")
    /\ ResolvePlainly \/ \E verdict \in Verdicts("explicit-path") : ResolveExplicit(verdict)
    /\ Forget
    /\ Same /\ UNCHANGED <<plan, backendVars, wavVars>>

---------------------------------------------------------------------------
\* The backend

\* BackendUnsupportedError of the constructor is outside every try of
\* generate.py; a worker reports it.
Constructs ==
    /\ IF IsQualified(plan) THEN Goes("construct", "load")
       ELSE Ends("construct", IF program = "serve" THEN "startup" ELSE "1")
    /\ Construct("real")
    /\ Forget /\ plan' = NoPlan("unplanned")
    /\ Same /\ UNCHANGED <<modelVars, wavVars>>

Loads ==
    /\ LoadSucceeds
    /\ \/ mode = "load-only" /\ Goes("load", "finish")
       \/ mode \in {"one-shot", "stream"} /\ Goes("load", "run")
       \/ mode = Unknown /\ Goes("load", "serve")
    /\ Same /\ UNCHANGED <<placeVars, modelVars, wavVars>>

\* generate.py leaves the backend as it is; a worker's finally clause closes it.
LoadRaises ==
    /\ LoadFails
    /\ IF program = "generate" THEN Ends("load", "3") ELSE Goes("load", "leaving")
    /\ Same /\ UNCHANGED <<placeVars, modelVars, wavVars>>

---------------------------------------------------------------------------
\* generate.py

LoadOnly ==
    /\ Ends("finish", "0")
    /\ CloseSucceeds
    /\ Same /\ UNCHANGED <<placeVars, modelVars, wavVars>>

Generates ==
    /\ mode = "one-shot"
    /\ Goes("run", "writing")
    /\ OneShot
    /\ Same /\ UNCHANGED <<placeVars, modelVars, wavVars>>

GenerateStreams ==
    /\ mode = "stream"
    /\ Goes("run", "reading")
    /\ StreamBegins(MaxChunks)
    /\ Same /\ UNCHANGED <<placeVars, modelVars, wavVars>>

\* BackendError of the operation, of stream() or of its iterator.
GenerateFails ==
    /\ \E from \in {"run", "failed"} : Ends(from, "3")
    /\ CloseSucceeds
    /\ Same /\ UNCHANGED <<placeVars, modelVars, wavVars>>

GenerateReads ==
    /\ \/ NextYields /\ Goes("reading", "reading")
       \/ NextEnds /\ Goes("reading", "writing")
       \/ NextRaises /\ Goes("reading", "failed")
    /\ Same /\ UNCHANGED <<placeVars, modelVars, wavVars>>

GenerateWrites ==
    /\ lpc = "writing"
    /\ WavStep(Main)
    /\ UNCHANGED <<launchVars, modelVars, backendVars>>

\* Another generate.py with the same --output.
RivalWrites ==
    /\ lpc \in {"writing", "validating"}
    /\ \E w \in Writers \ {Main} : WavStep(w)
    /\ UNCHANGED <<launchVars, modelVars, backendVars>>

GenerateWrote ==
    /\ wpc[Main] = "written"
    /\ Goes("writing", "validating")
    /\ Same /\ UNCHANGED <<placeVars, modelVars, backendVars, wavVars>>

GenerateKilled ==
    /\ wpc[Main] = "dead"
    /\ Ends("writing", "killed")
    /\ Same /\ UNCHANGED <<placeVars, modelVars, backendVars, wavVars>>

\* Mutant: the error path does not close the backend.
WriteRaisesOpen ==
    /\ wpc[Main] = "failed"
    /\ Ends("writing", "4")
    /\ Same /\ UNCHANGED <<placeVars, modelVars, backendVars, wavVars>>
WriteRaises ==
    /\ wpc[Main] = "failed"
    /\ Ends("writing", "4")
    /\ CloseSucceeds
    /\ Same /\ UNCHANGED <<placeVars, modelVars, wavVars>>

Validates(valid) ==
    /\ MayValidate(valid)
    /\ Ends("validating", IF valid THEN "0" ELSE "4")
    /\ CloseSucceeds
    /\ Same /\ UNCHANGED <<placeVars, modelVars, wavVars>>

---------------------------------------------------------------------------
\* A worker, between "ready" and its end

Serves ==
    /\ Goes("serve", "serve")
    /\ \/ OneShot \/ StreamRefused
       \/ \E n \in 1..MaxChunks : StreamBegins(n)
       \/ NextYields \/ NextEnds \/ NextRaises \/ StreamForgotten
    /\ Same /\ UNCHANGED <<placeVars, modelVars, wavVars>>

\* SystemExit of _put_message passes the stream's finally clauses; it is caught,
\* and when the error can be put, the worker goes on.
PutBreaks ==
    /\ Goes("serve", "serve") \/ Goes("serve", "leaving")
    /\ gen = "suspended" /\ StreamDropped
    /\ Same /\ UNCHANGED <<placeVars, modelVars, wavVars>>

\* "shutdown" or the end of the control pipe, looked at between requests.
Dismissed ==
    /\ Goes("serve", "leaving")
    /\ Idle
    /\ Same /\ UNCHANGED <<placeVars, modelVars, backendVars, wavVars>>

Leaves ==
    /\ Ends("leaving", IF bstate = "created" THEN "startup" ELSE "0")
    /\ CloseSucceeds \/ CloseFails
    /\ Same /\ UNCHANGED <<placeVars, modelVars, wavVars>>

Over == lpc = "over" /\ UNCHANGED vars

---------------------------------------------------------------------------
LaunchNext ==
    \/ ArgumentsRefused \/ SettingsRefused \/ Started \/ DoctorStarted \/ FakeWorkerStarted
    \/ Resolving \/ ModelFound \/ ModelMissing
    \/ DetectFails \/ Spawn \/ ChildPlans \/ ChildResolves
    \/ \E s \in Environments, m \in Masks : Plan(s, m) \/ \E heard \in BOOLEAN : ParentPlans(s, m, heard)
    \/ Constructs \/ Loads \/ LoadRaises
    \/ LoadOnly \/ Generates \/ GenerateStreams \/ GenerateFails \/ GenerateReads
    \/ GenerateWrites \/ RivalWrites \/ GenerateWrote \/ GenerateKilled \/ WriteRaises
    \/ \E valid \in BOOLEAN : Validates(valid)
    \/ Serves \/ PutBreaks \/ Dismissed \/ Leaves
    \/ Over

LaunchSpec == LaunchInit /\ [][LaunchNext]_vars
---------------------------------------------------------------------------
LaunchTypeOK ==
    /\ program \in Programs
    /\ lpc \in {"start", "model", "plan", "spawn", "spawned", "child", "construct", "load", "finish",
               "run", "reading", "failed", "writing", "validating", "serve", "leaving", "over"}
    /\ mode \in {Unknown, "load-only", "one-shot", "stream"}
    /\ settings \in Environments \cup {Unknown, ChildSettings(settings, <<0>>)}
    /\ {mask, seen} \subseteq Masks \cup {<<g>> : g \in Installed} \cup {<<>>, Unknown}
    /\ exit \in {"none", "0", "1", "2", "3", "4", "startup", "killed"}
    /\ exit = "none" <=> lpc # "over"
    /\ Range(trail) \subseteq Dirs \X (0..MaxDepth)
    /\ claimed \subseteq Dirs /\ Range(offers) \subseteq claimed
    /\ bstate \in {"created", "loaded", "closed"} /\ model = (kind = "real" /\ bstate = "loaded")
    /\ sequence \in 0..pulled /\ pulled \in 0..MaxChunks

\* docs/EXECUTION-PROFILES.md, docs/BACKENDS.md: no process that was asked for a
\* GPU, by its device, its profile or a list of indices, ends up on the CPU
\* instead, whether it plans for itself, as the API parent or as a worker of it;
\* and one that was left the choice is on the CPU only if it saw no GPU.
NoSilentCpu ==
    settings # Unknown /\ plan.device = "cpu" =>
        /\ settings.device # "cuda"
        /\ settings.profile \notin {"cuda-single", "cuda-replica"}
        /\ settings.gpus = <<>>
        /\ "cpu" \in {settings.device, settings.profile} \/ seen = <<>> \/ ~answered

\* The workers of one parent never share a GPU, and a worker that gets as far as
\* its model is where the parent put it: on the GPU of its specification, alone,
\* or on the CPU if the parent's probe had its answer. A worker whose GPU exists
\* does get that far, whatever the settings it inherits.
WorkersApart ==
    /\ lpc = "spawn" => IsInjective(WorkerSpecs(plan))
    /\ lpc = "child" /\ spec # <<>> => IsQualified(plan) /\ RunsOn(plan, seen) = spec
    /\ lpc = "child" /\ spec = <<>> /\ answered => plan.device = "cpu"
    /\ lpc = "over" /\ spec # <<>> /\ seen # <<>> => plan.error = "none"

\* docs/EXECUTION-PROFILES.md, cuda-single and auto: the GPUs that are used are
\* those the runtime sees.
PlacedOnVisible == lpc = "child" /\ plan.device = "cuda" => Range(RunsOn(plan, seen)) \subseteq Range(mask)

\* discover(): when it ends without an error, whatever it met on the way, no
\* directory of the mounts within its depth was left out, below a model or not.
Reached[n \in Nat] ==
    IF n = 0 THEN {Root} ELSE Reached[n - 1] \cup UNION {Range(Subdirs[d]) : d \in Reached[n - 1]}
Discovered == rpc \in {"offer", "candidates", "cache"} \/ (rpc = "resolved" /\ resolved.how \in Sources)
NothingHidden ==
    asked = "mounts" /\ Discovered /\ entries > 0 => \A d \in Reached[MaxDepth] : facts[d].config # Unknown

\* resolve(): a path that is set decides, for better or worse, and nothing else's
\* faults are ever the caller's error. Without it the first
\* sound candidate in the order of the paths is taken, and the cache is looked at
\* only when every directory with a model was tried and refused.
RightModel ==
    rpc = "resolved" =>
        /\ asked = "path" <=> resolved.how \in {"explicit-path"} \cup PathErrors
        /\ resolved.how = "deployment-mount" =>
              /\ facts[resolved.dir] = [config |-> "good", sound |-> TRUE]
              /\ \A d \in Before(resolved.dir) : facts[d].sound = FALSE
        /\ resolved.how \in {"local-cache"} \cup NothingFound =>
              \A d \in Dirs : facts[d].config = "good" => facts[d].sound = FALSE

\* What the exit status of generate.py promises, whatever failed on the way and
\* whatever the other writers do. 0: the backend is closed and, if there was
\* something to write, the target has no hole, is the whole audio of one of the
\* runs unless two wrote at once, and is not the file of before; a stream was read
\* to its marked end. Any other status but that of a kill: no model is left loaded.
ExitHonest ==
    program = "generate" /\ lpc = "over" =>
        /\ exit # "killed" => bstate # "loaded" /\ ~model /\ Idle
        /\ exit = "0" /\ mode # "load-only" =>
              /\ bstate = "closed"
              /\ target # None /\ None \notin Range(data[target])
              /\ last # Old /\ (~crossed => data[target] = Whole(last))
              /\ mode = "stream" => gen = "ended" /\ final
        /\ exit = "0" => bstate = "closed"

=============================================================================
