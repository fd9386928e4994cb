----------------------------- MODULE ModelSource -----------------------------
(***************************************************************************)
(* Which model directory is used: ModelResolver.resolve over an explicit   *)
(* path, the candidates of the Kaggle adapter, and the cache. What is on   *)
(* the disk is chosen when it is looked at, and remembered in facts.       *)
(***************************************************************************)
EXTENDS Naturals, Sequences, SequencesExt

CONSTANTS
    Dirs,           \* the directories below the mount root
    Root,
    Subdirs,        \* their subdirectories, in the order of their names
    PathOrder,      \* all of them in the order of their paths
    MaxDepth,       \* DEFAULT_MAX_DEPTH
    MaxEntries,     \* DEFAULT_MAX_ENTRIES
    MaxCandidates,  \* DEFAULT_MAX_DEPLOYMENT_CANDIDATES
    ManyFiles,      \* bound: the files of a directory that has many, else none
    Unknown

ASSUME ModelAssumption ==
    /\ Root \in Dirs
    /\ Subdirs \in [Dirs -> Seq(Dirs)]
    /\ PathOrder \in Seq(Dirs) /\ IsInjective(PathOrder) /\ Range(PathOrder) = Dirs
    /\ {MaxDepth, MaxEntries, MaxCandidates, ManyFiles} \subseteq Nat
    /\ Unknown \notin Dirs \cup {"none", "good", "spoiled"}

\* is_dir(follow_symlinks=False): a directory is listed in one place, once.
ASSUME TreeAssumption ==
    /\ \A d \in Dirs : IsInjective(Subdirs[d]) /\ Root \notin Range(Subdirs[d])
    /\ \A d, e \in Dirs : d # e => Range(Subdirs[d]) \cap Range(Subdirs[e]) = {}

VARIABLES
    rpc,       \* where resolve() is
    asked,     \* the sources it was given: "path", "mounts" or "none"
    trail,     \* directories to visit, <<directory, depth>>, next first
    entries,   \* budget[0] of the adapter
    facts,     \* what has been found in a directory
    claimed,   \* directories that became candidates
    spoiled,   \* a candidate's manifest was refused
    offers,    \* the candidates still to be tried
    resolved   \* the outcome: its source_kind or error code, and its directory

modelVars == <<rpc, asked, trail, entries, facts, claimed, spoiled, offers, resolved>>

Untouched == [config |-> Unknown, sound |-> Unknown]
Outcome(how, dir) == [how |-> how, dir |-> dir]
Sources == {"explicit-path", "deployment-mount", "local-cache"}

ModelInit ==
    /\ rpc = "idle"
    /\ asked = Unknown
    /\ trail = <<>>
    /\ entries = 0
    /\ facts = [d \in Dirs |-> Untouched]
    /\ claimed = {}
    /\ spoiled = FALSE
    /\ offers = <<>>
    /\ resolved = Outcome(Unknown, Unknown)

Resolved(how, dir) == rpc' = "resolved" /\ resolved' = Outcome(how, dir)

---------------------------------------------------------------------------
\* _resolve_path: its validators in the order they are called, each with the
\* codes of the errors it raises. What is wrong with a directory is chosen when
\* it is looked at: the code of the first validator that objects, or "none".

DirectoryErrors == {"model_not_found", "invalid_model_path"}
FileErrors == {"missing_model_artifact", "invalid_model_path"}
ConfigErrors == FileErrors \cup {"invalid_model_config", "unexpected_model_architecture"}
WeightErrors == {"missing_model_artifact", "invalid_model_path"}
TokenizerErrors == FileErrors \cup {"invalid_tokenizer_metadata"}
InventoryErrors == {"model_inventory_failed"}

PathErrors == DirectoryErrors \cup ConfigErrors \cup WeightErrors \cup TokenizerErrors \cup InventoryErrors

\* What a candidate claims to be is compared first, its hash after its config.
CandidateErrors == {"unexpected_model_architecture", "invalid_model_candidate", "invalid_model_config"}

Verdicts(source) ==
    {"none"} \cup PathErrors \cup (IF source = "deployment-mount" THEN CandidateErrors ELSE {})

---------------------------------------------------------------------------
\* resolve(), up to its candidates

\* Mutant: an explicit path that is refused gives way to the other sources.
ResolveExplicitLeniently(verdict) ==
    /\ rpc = "idle"
    /\ asked' = "path"
    /\ IF verdict = "none"
       THEN Resolved("explicit-path", Unknown)
       ELSE rpc' = "cache" /\ UNCHANGED resolved
    /\ UNCHANGED <<trail, entries, facts, claimed, spoiled, offers>>
\* VOXCPM_MODEL_PATH is set: it is used or the call fails.
ResolveExplicit(verdict) ==
    /\ rpc = "idle"
    /\ asked' = "path"
    /\ Resolved(IF verdict = "none" THEN "explicit-path" ELSE verdict, Unknown)
    /\ UNCHANGED <<trail, entries, facts, claimed, spoiled, offers>>

\* It is not: a program with the adapter discovers candidates first.
ResolveDiscover ==
    /\ rpc = "idle"
    /\ asked' = "mounts"
    /\ rpc' = "discover"
    /\ trail' = << <<Root, 0>> >>
    /\ UNCHANGED <<entries, facts, claimed, spoiled, offers, resolved>>

\* A worker process passes no candidates.
ResolvePlainly ==
    /\ rpc = "idle"
    /\ asked' = "none"
    /\ rpc' = "cache"
    /\ UNCHANGED <<trail, entries, facts, claimed, spoiled, offers, resolved>>

---------------------------------------------------------------------------
\* KaggleModelMountAdapter.discover

\* KaggleDiscoveryError leaves discover() from anywhere.
DiscoveryFails == Resolved("kaggle_discovery_error", Unknown)

Here == Head(trail)[1]
Depth == Head(trail)[2]
Below == [i \in 1..Len(Subdirs[Here]) |-> <<Subdirs[Here][i], Depth + 1>>]

\* The root does not exist.
DiscoverNothing ==
    /\ rpc = "discover"
    /\ entries = 0
    /\ trail' = <<>>
    /\ rpc' = "offer"
    /\ UNCHANGED <<asked, entries, facts, claimed, spoiled, offers, resolved>>

DiscoverAborts ==
    /\ rpc = "discover"
    /\ trail # <<>>
    /\ DiscoveryFails
    /\ UNCHANGED <<asked, trail, entries, facts, claimed, spoiled, offers>>

\* Mutant: one level too deep.
ListedDeeper(files) ==
    LET listed == Depth <= MaxDepth
    IN  /\ entries' = entries + 1 + (IF listed THEN files + Len(Below) ELSE 0)
        /\ IF entries' > MaxEntries
           THEN DiscoveryFails /\ UNCHANGED trail
           ELSE /\ trail' = (IF listed THEN Below ELSE <<>>) \o Tail(trail)
                /\ UNCHANGED <<rpc, resolved>>
\* The end of _visit: the directory itself is counted, and every entry of it
\* unless it is too deep to be listed.
Listed(files) ==
    LET listed == Depth < MaxDepth
    IN  /\ entries' = entries + 1 + (IF listed THEN files + Len(Below) ELSE 0)
        /\ IF entries' > MaxEntries
           THEN DiscoveryFails /\ UNCHANGED trail
           ELSE /\ trail' = (IF listed THEN Below ELSE <<>>) \o Tail(trail)
                /\ UNCHANGED <<rpc, resolved>>

\* Mutant: a directory with a model in it is not descended into.
VisitStopsAtModel(config, files) ==
    /\ rpc = "discover"
    /\ trail # <<>>
    /\ facts' = [facts EXCEPT ![Here].config = config]
    /\ claimed' = IF config = "good" THEN claimed \cup {Here} ELSE claimed
    /\ spoiled' = (spoiled \/ config = "spoiled")
    /\ IF config = "good"
       THEN trail' = Tail(trail) /\ entries' = entries + 1 /\ UNCHANGED <<rpc, resolved>>
       ELSE Listed(files)
    /\ UNCHANGED <<asked, offers>>
\* _visit: no config.json, one with a good manifest or none, or one whose
\* manifest is refused.
Visit(config, files) ==
    /\ rpc = "discover"
    /\ trail # <<>>
    /\ facts' = [facts EXCEPT ![Here].config = config]
    /\ claimed' = IF config = "good" THEN claimed \cup {Here} ELSE claimed
    /\ spoiled' = (spoiled \/ config = "spoiled")
    /\ Listed(files)
    /\ UNCHANGED <<asked, offers>>

\* A refused manifest counts only when there is no candidate.
DiscoverDone ==
    /\ rpc = "discover"
    /\ trail = <<>>
    /\ IF claimed = {} /\ spoiled
       THEN DiscoveryFails
       ELSE rpc' = "offer" /\ UNCHANGED resolved
    /\ UNCHANGED <<asked, trail, entries, facts, claimed, spoiled, offers>>

\* The candidates whose paths come before that of d.
Before(d) == {e \in claimed : \E i, j \in 1..Len(PathOrder) : i < j /\ PathOrder[i] = e /\ PathOrder[j] = d}

\* They are sorted by their paths.
OfferCandidates ==
    /\ rpc = "offer"
    /\ rpc' = "candidates"
    /\ offers' \in {q \in SetToSeqs(claimed) : \A i, j \in 1..Len(q) : i < j => q[i] \in Before(q[j])}
    /\ UNCHANGED <<asked, trail, entries, facts, claimed, spoiled, resolved>>

---------------------------------------------------------------------------
\* The rest of resolve()

Tried == Cardinality(claimed) - Len(offers)

\* Mutant: the first candidate decides.
TryCandidateOnce(verdict) ==
    /\ rpc = "candidates"
    /\ offers # <<>>
    /\ Tried < MaxCandidates
    /\ facts' = [facts EXCEPT ![Head(offers)].sound = verdict = "none"]
    /\ offers' = Tail(offers)
    /\ Resolved(IF verdict = "none" THEN "deployment-mount" ELSE verdict, Head(offers))
    /\ UNCHANGED <<asked, trail, entries, claimed, spoiled>>
\* _resolve_candidate; ModelResolutionError is one more failed attempt.
TryCandidate(verdict) ==
    /\ rpc = "candidates"
    /\ offers # <<>>
    /\ Tried < MaxCandidates
    /\ facts' = [facts EXCEPT ![Head(offers)].sound = verdict = "none"]
    /\ offers' = Tail(offers)
    /\ IF verdict = "none"
       THEN Resolved("deployment-mount", Head(offers))
       ELSE UNCHANGED <<rpc, resolved>>
    /\ UNCHANGED <<asked, trail, entries, claimed, spoiled>>

\* ModelCandidateError of the iterator is raised outside the try.
TooManyCandidates ==
    /\ rpc = "candidates"
    /\ offers # <<>>
    /\ Tried >= MaxCandidates
    /\ Resolved("invalid_model_candidate", Unknown)
    /\ UNCHANGED <<asked, trail, entries, facts, claimed, spoiled, offers>>

NoMoreCandidates ==
    /\ rpc = "candidates"
    /\ offers = <<>>
    /\ rpc' = "cache"
    /\ UNCHANGED <<asked, trail, entries, facts, claimed, spoiled, offers, resolved>>

\* The cache is not set or of no use: no program brings a remote acquirer.
NothingFound == {"offline_resolution_failed", "remote_acquisition_failed"}
TryCache(verdict) ==
    /\ rpc = "cache"
    /\ IF verdict = "none"
       THEN Resolved("local-cache", Unknown)
       ELSE \E error \in NothingFound : Resolved(error, Unknown)
    /\ UNCHANGED <<asked, trail, entries, facts, claimed, spoiled, offers>>

ResolveStep ==
    \/ \E config \in {"none", "good", "spoiled"}, files \in {0, ManyFiles} : Visit(config, files)
    \/ DiscoverNothing \/ DiscoverAborts \/ DiscoverDone \/ OfferCandidates
    \/ \E verdict \in Verdicts("deployment-mount") : TryCandidate(verdict)
    \/ \E verdict \in Verdicts("local-cache") : TryCache(verdict)
    \/ TooManyCandidates \/ NoMoreCandidates

\* The caller takes the outcome; nothing else is looked at again.
ResolveTaken ==
    /\ rpc = "resolved"
    /\ rpc' = "idle"
    /\ asked' = Unknown
    /\ trail' = <<>>
    /\ entries' = 0
    /\ facts' = [d \in Dirs |-> Untouched]
    /\ claimed' = {}
    /\ spoiled' = FALSE
    /\ offers' = <<>>
    /\ resolved' = Outcome(Unknown, Unknown)
=============================================================================
