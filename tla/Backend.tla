------------------------------- MODULE Backend -------------------------------
(***************************************************************************)
(* PytorchVoxCPMBackend and FakeVoxCPMBackend in the process that owns     *)
(* one. A stream is a generator: its body runs when the caller asks for    *)
(* the next chunk, and the real one reads ahead of the chunk it yields.    *)
(***************************************************************************)
EXTENDS Naturals

CONSTANT MaxChunks  \* bound: the chunks of a stream

ASSUME BackendAssumption == MaxChunks \in Nat \ {0}

VARIABLES
    kind,     \* "real" or "fake"
    bstate,   \* _state
    model,    \* _model is set; the fake one has none
    gen,      \* the generator: "none", "fresh", "suspended", "ended", "failed", "dropped"
    sequence, \* the chunks it has yielded
    final,    \* it has yielded one with is_final
    pulled,   \* the chunks taken from upstream, or that the fake result has
    upstream  \* the upstream generator: "none", "suspended", "over", or "stuck",
              \* when its close() raised

streamVars == <<gen, sequence, final, pulled, upstream>>
backendVars == <<kind, bstate, model, streamVars>>

BackendInit ==
    /\ kind = "real"
    /\ bstate = "created"
    /\ model = FALSE
    /\ gen = "none" /\ sequence = 0 /\ final = FALSE /\ pulled = 0 /\ upstream = "none"

Construct(k) ==
    /\ bstate = "created"
    /\ kind' = k
    /\ UNCHANGED <<bstate, model, streamVars>>

---------------------------------------------------------------------------
\* load, the one-shot operations, close

\* A second load() of a loaded backend answers again, without a change.
LoadSucceeds ==
    /\ bstate \in {"created", "loaded"}
    /\ bstate' = "loaded"
    /\ model' = (kind = "real")
    /\ UNCHANGED <<kind, streamVars>>

\* The import, from_pretrained or the injected failure: nothing is assigned.
LoadFails ==
    /\ bstate = "created"
    /\ UNCHANGED backendVars

\* synthesize, design, clone, continue_audio: a result or a BackendError.
OneShot == bstate = "loaded" /\ UNCHANGED backendVars

CloseSucceeds ==
    /\ bstate' = "closed"
    /\ model' = FALSE
    /\ UNCHANGED <<kind, streamVars>>

\* Only the fake one fails to close, and then it stays as it was.
CloseFails ==
    /\ kind = "fake"
    /\ bstate # "closed"
    /\ UNCHANGED backendVars

---------------------------------------------------------------------------
\* stream(): a generator that has not run yet, but for the fake one's result

Idle == gen \notin {"fresh", "suspended"}

StreamBegins(n) ==
    /\ bstate = "loaded"
    /\ Idle
    /\ gen' = "fresh" /\ sequence' = 0 /\ final' = FALSE
    /\ pulled' = IF kind = "fake" THEN n ELSE 0
    /\ upstream' = "none"
    /\ UNCHANGED <<kind, bstate, model>>

\* The request is refused: a missing reference file, an injected failure.
StreamRefused == bstate = "loaded" /\ Idle /\ UNCHANGED backendVars

---------------------------------------------------------------------------
\* next() on the real generator

\* The except and finally clauses: upstream is closed, and that may raise too.
StreamFails ==
    /\ gen' = "failed"
    /\ upstream' \in {"over", "stuck"}
    /\ UNCHANGED <<kind, bstate, model, sequence, final>>

\* _require_model, the sample rate and generate_streaming, on the first call.
NextRefused ==
    /\ kind = "real" /\ gen = "fresh"
    /\ gen' = "failed"
    /\ UNCHANGED <<kind, bstate, model, sequence, final, pulled, upstream>>

\* The first chunk is missing, or upstream raises instead.
NextEmpty ==
    /\ kind = "real" /\ gen = "fresh" /\ model
    /\ StreamFails /\ UNCHANGED pulled

\* What is left to read before a chunk can be yielded: on the first call two.
Ahead == IF gen = "fresh" THEN 2 ELSE 1
Resumes == kind = "real" /\ ~final /\ ((gen = "fresh" /\ model) \/ gen = "suspended")

\* Another chunk follows: the one at hand is yielded, not marked.
NextChunk ==
    /\ Resumes
    /\ pulled + Ahead <= MaxChunks
    /\ gen' = "suspended"
    /\ sequence' = sequence + 1
    /\ pulled' = pulled + Ahead
    /\ upstream' = "suspended"
    /\ UNCHANGED <<kind, bstate, model, final>>

\* Upstream stops: the one at hand is the last.
NextLast ==
    /\ Resumes
    /\ gen' = "suspended"
    /\ sequence' = sequence + 1
    /\ final' = TRUE
    /\ pulled' = pulled + Ahead - 1
    /\ upstream' = "over"
    /\ UNCHANGED <<kind, bstate, model>>

\* Mutant: the finally clause is missing.
NextFailsOpen ==
    /\ Resumes
    /\ gen' = "failed"
    /\ upstream' = "suspended"
    /\ UNCHANGED <<kind, bstate, model, sequence, final, pulled>>
\* Upstream raises: the chunk at hand is lost with it.
NextFails == Resumes /\ StreamFails /\ UNCHANGED pulled

\* _waveform_to_samples: the chunk at hand is empty, of a wrong shape or not
\* finite. Upstream was asked for the one after it by then.
NextNotAudio ==
    /\ Resumes
    /\ StreamFails
    /\ pulled' \in {pulled + Ahead - 1, pulled + Ahead} \cap 0..MaxChunks

\* Mutant: nothing looks ahead, and the end comes after a chunk like any other.
NextEndsUnmarked ==
    /\ gen = "suspended"
    /\ gen' = "ended"
    /\ UNCHANGED <<kind, bstate, model, sequence, final, pulled, upstream>>
\* The generator returns.
NextEnds ==
    /\ gen = "suspended" /\ final
    /\ gen' = "ended"
    /\ UNCHANGED <<kind, bstate, model, sequence, final, pulled, upstream>>

\* It would, but upstream's close() raises: the marked chunk is followed by an error.
NextEndRaises ==
    /\ kind = "real" /\ gen = "suspended" /\ final
    /\ gen' = "failed"
    /\ upstream' = "stuck"
    /\ UNCHANGED <<kind, bstate, model, sequence, final, pulled>>

\* next() on the fake generator: a slice of the result, marked at its end.
NextSlice ==
    /\ kind = "fake"
    /\ gen \in {"fresh", "suspended"}
    /\ sequence < pulled
    /\ gen' = "suspended"
    /\ sequence' = sequence + 1
    /\ final' = (sequence + 1 = pulled)
    /\ UNCHANGED <<kind, bstate, model, pulled, upstream>>

\* close() of the generator. What upstream's close() raises is the caller's, or
\* nobody's when the generator is only collected.
StreamDropped ==
    /\ gen \in {"fresh", "suspended"}
    /\ \/ /\ gen' = "dropped"
          /\ upstream' = IF upstream = "none" THEN "none" ELSE "over"
       \/ /\ upstream # "none"
          /\ gen' \in {"dropped", "failed"}
          /\ upstream' = "stuck"
    /\ UNCHANGED <<kind, bstate, model, sequence, final, pulled>>

NextYields == NextChunk \/ NextLast \/ NextSlice
NextRaises == NextRefused \/ NextEmpty \/ NextFails \/ NextNotAudio \/ NextEndRaises

\* The caller has what it wanted of a stream that is over.
StreamForgotten ==
    /\ Idle
    /\ gen' = "none" /\ sequence' = 0 /\ final' = FALSE /\ pulled' = 0 /\ upstream' = "none"
    /\ UNCHANGED <<kind, bstate, model>>

BackendNext ==
    \/ \E k \in {"real", "fake"} : Construct(k)
    \/ LoadSucceeds \/ LoadFails \/ OneShot \/ CloseSucceeds \/ CloseFails
    \/ StreamRefused \/ \E n \in 1..MaxChunks : StreamBegins(n)
    \/ NextYields \/ NextEnds \/ NextRaises \/ StreamDropped \/ StreamForgotten

BackendSpec == BackendInit /\ [][BackendNext]_backendVars

---------------------------------------------------------------------------
\* A generator that has not run yet has given nothing and is open.
StreamPhase == IF gen \in {"fresh", "suspended"} THEN "open" ELSE gen

Promised == INSTANCE BackendContract WITH
    life <- bstate, stream <- StreamPhase, given <- sequence, marked <- final

\* docs/BACKENDS.md, "Audio types" and "Lifecycle": whoever owns a backend, real
\* or fake, sees a legal life and streams in order with one last chunk; the chunk
\* that is marked is the last there was. Only an error can still follow it.
ContractKept == Promised!Contract

\* When no stream is being read, upstream is not left in the middle of one,
\* holding the model's state: it ran out, it was closed, or its close() raised,
\* which is never passed over in a stream that ends for its reader. Such a stream
\* had given all that upstream made.
UpstreamReleased ==
    /\ Idle => upstream # "suspended"
    /\ gen = "ended" => final /\ sequence = pulled /\ upstream # "stuck"
=============================================================================
