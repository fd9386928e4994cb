---------------------------- MODULE LaunchProofs -----------------------------
(***************************************************************************)
(* Every program uses its backend and its output file as their modules     *)
(* say, so what is proved of those holds of it. On top of that: no process *)
(* ends up where it should not run, for any settings and any GPUs,         *)
(* generate.py's exit status tells the truth, and the search for a model   *)
(* leaves no directory out and takes the right one, for any tree of them.  *)
(***************************************************************************)
EXTENDS Launch, BackendProofs, WavProofs, FiniteSetTheorems, SequenceTheorems, WellFoundedInduction

\* The steps that leave the backend and the output file alone.
Elsewhere ==
    \/ ArgumentsRefused \/ SettingsRefused \/ Started \/ DoctorStarted
    \/ Resolving \/ ModelFound \/ ModelMissing
    \/ DetectFails \/ Spawn \/ ChildPlans \/ ChildResolves
    \/ \E s \in Environments, m \in Masks : Plan(s, m) \/ \E heard \in BOOLEAN : ParentPlans(s, m, heard)
    \/ GenerateWrote \/ GenerateKilled \/ Dismissed \/ Over

\* The steps that call the backend.
Calling ==
    \/ FakeWorkerStarted \/ Constructs \/ Loads \/ LoadRaises
    \/ LoadOnly \/ Generates \/ GenerateStreams \/ GenerateFails \/ GenerateReads \/ WriteRaises
    \/ \E valid \in BOOLEAN : Validates(valid)
    \/ Serves \/ PutBreaks \/ Leaves

LEMMA ThreeKinds == LaunchNext <=> Elsewhere \/ Calling \/ GenerateWrites \/ RivalWrites
  BY DEF LaunchNext, Elsewhere, Calling

LEMMA ElsewhereLeaves == Elsewhere => UNCHANGED <<backendVars, wavVars>>
<1> SUFFICES ASSUME Elsewhere PROVE UNCHANGED <<backendVars, wavVars>>
  OBVIOUS
<1>1. CASE Over
  BY <1>1 DEF Over, vars
<1>2. CASE \/ ArgumentsRefused \/ SettingsRefused \/ Started \/ DoctorStarted
           \/ Resolving \/ ModelFound \/ ModelMissing
           \/ DetectFails \/ Spawn \/ ChildPlans \/ ChildResolves
           \/ GenerateWrote \/ GenerateKilled \/ Dismissed
  BY <1>2 DEF ArgumentsRefused, SettingsRefused, Started, DoctorStarted,
       Resolving, ModelFound, ModelMissing, DetectFails, Spawn, ChildPlans, ChildResolves,
       GenerateWrote, GenerateKilled, Dismissed
<1>3. CASE \E s \in Environments, m \in Masks :
             Plan(s, m) \/ \E heard \in BOOLEAN : ParentPlans(s, m, heard)
  BY <1>3 DEF Plan, ParentPlans
<1> QED
  BY <1>1, <1>2, <1>3 DEF Elsewhere

LEMMA CallingCalls == Calling => BackendNext /\ UNCHANGED wavVars
<1> SUFFICES ASSUME Calling PROVE BackendNext /\ UNCHANGED wavVars
  OBVIOUS
<1> USE DEF BackendNext
<1>1. CASE FakeWorkerStarted \/ Constructs
  BY <1>1 DEF FakeWorkerStarted, Constructs
<1>2. CASE Loads \/ LoadRaises \/ LoadOnly \/ Generates
  BY <1>2 DEF Loads, LoadRaises, LoadOnly, Generates
<1>3. CASE GenerateStreams
  <2>1. MaxChunks \in 1..MaxChunks
    BY BackendAssumption
  <2> QED
    BY <1>3, <2>1 DEF GenerateStreams
<1>4. CASE GenerateFails \/ GenerateReads \/ WriteRaises
  BY <1>4 DEF GenerateFails, GenerateReads, WriteRaises
<1>5. CASE \E valid \in BOOLEAN : Validates(valid)
  BY <1>5 DEF Validates
<1>6. CASE Serves \/ PutBreaks \/ Leaves
  BY <1>6 DEF Serves, PutBreaks, Leaves
<1> QED
  BY <1>1, <1>2, <1>3, <1>4, <1>5, <1>6 DEF Calling

---------------------------------------------------------------------------
\* The programs as users of a backend and of an output file

LEMMA LaunchUses == [LaunchNext]_vars => /\ [BackendNext]_backendVars
                                         /\ [\E w \in Writers : WavStep(w)]_wavVars
<1> SUFFICES ASSUME [LaunchNext]_vars
             PROVE  [BackendNext]_backendVars /\ [\E w \in Writers : WavStep(w)]_wavVars
  OBVIOUS
<1>1. CASE Elsewhere
  BY <1>1, ElsewhereLeaves
<1>2. CASE Calling
  BY <1>2, CallingCalls
<1>3. CASE GenerateWrites \/ RivalWrites
  BY <1>3, LaunchAssumption DEF GenerateWrites, RivalWrites
<1>4. CASE UNCHANGED vars
  BY <1>4 DEF vars
<1> QED
  BY <1>1, <1>2, <1>3, <1>4, ThreeKinds

THEOREM LaunchUsesBackend == LaunchSpec => BackendSpec
  BY LaunchUses, PTL DEF LaunchSpec, LaunchInit, BackendSpec

THEOREM LaunchUsesOutput == LaunchSpec => WavSpec
  BY LaunchUses, PTL DEF LaunchSpec, LaunchInit, WavSpec

\* Every program: a stream that is not being read holds nothing open upstream.
THEOREM LaunchReleases == LaunchSpec => []UpstreamReleased
  BY LaunchUsesBackend, BackendReleases, PTL

\* Every program sees a backend that keeps the protocol of backend.py.
THEOREM LaunchImplements == LaunchSpec => ContractKept
  BY LaunchUsesBackend, BackendImplements, PTL

\* generate.py and its rivals: the output is one writer's whole audio.
THEOREM LaunchAtomic == LaunchSpec => []TargetWhole
  BY LaunchUsesOutput, WavAtomic, PTL

---------------------------------------------------------------------------
(* The plan                                                                *)

LEMMA DemandTyped ==
    ASSUME NEW s \in Settings, NEW v \in Seq(Nat), Materialize(s, v).error = "none"
    PROVE  Materialize(s, v).gpus \in Seq(Nat) /\ Materialize(s, v).workers \in Nat
<1> DEFINE d == Materialize(s, v)
<1>1. s.gpus \in Seq(Nat) /\ s.workers \in Nat /\ s.profile \in Profiles
  BY DEF Settings, Lists
<1>2. Prefix(v, 1) \in Seq(Nat)
  BY DEF Prefix
<1>3. Chosen(s, v) \in Seq(Nat)
  BY <1>1 DEF Chosen
<1> USE DEF Demand, Conflict
<1>4. CASE s.profile = "none"
  <2>1. d = Demand(s.device, s.gpus, s.workers)
    BY <1>4 DEF Materialize
  <2> QED
    BY <1>1, <2>1
<1>5. CpuDemand(s).error = "none" => CpuDemand(s).gpus \in Seq(Nat) /\ CpuDemand(s).workers \in Nat
  <2>1. CpuDemand(s).error = "none" => CpuDemand(s).gpus = <<>> /\ CpuDemand(s).workers = 1
    BY DEF CpuDemand
  <2>2. <<>> \in Seq(Nat) /\ 1 \in Nat
    OBVIOUS
  <2> QED
    BY <2>1, <2>2
<1>6. CASE s.profile = "auto"
  <2>1. d = AutoDemand(s, v)
    BY <1>6 DEF Materialize
  <2> QED
    BY <1>1, <1>3, <1>5, <2>1 DEF AutoDemand, WorkersOr
<1>7. CASE s.profile = "cpu"
  <2>1. d = IF s.device = "cuda" THEN Conflict ELSE CpuDemand(s)
    BY <1>7 DEF Materialize
  <2> QED
    BY <1>5, <2>1
<1>8. CASE s.profile = "cuda-single"
  <2>1. d = IF s.device = "cpu" THEN Conflict ELSE SingleDemand(s, v)
    BY <1>8 DEF Materialize
  <2> QED
    BY <1>1, <1>2, <2>1 DEF SingleDemand
<1>9. CASE s.profile = "cuda-replica"
  <2>1. d = IF s.device = "cpu" THEN Conflict ELSE ReplicaDemand(s, v)
    BY <1>9 DEF Materialize
  <2> QED
    BY <1>1, <1>3, <2>1 DEF ReplicaDemand
<1> QED
  BY <1>1, <1>4, <1>6, <1>7, <1>8, <1>9 DEF Profiles

\* A demand for the CPU is never made out of one for a GPU.
LEMMA CpuIsAsked ==
    ASSUME NEW s \in Settings, NEW v, Materialize(s, v).error = "none",
           \/ Materialize(s, v).device = "cpu"
           \/ Materialize(s, v).device = "auto" /\ v = <<>>
    PROVE  /\ s.device # "cuda"
           /\ s.profile \notin {"cuda-single", "cuda-replica"}
           /\ "cpu" \in {s.device, s.profile} \/ v = <<>>
           /\ Materialize(s, v).gpus = s.gpus \/ s.gpus = <<>>
<1> DEFINE d == Materialize(s, v)
<1>1. s.profile \in Profiles
  BY DEF Settings
<1>2. CpuDemand(s).error = "none" => s.gpus = <<>>
  BY DEF CpuDemand, Conflict
<1> USE DEF Demand, Conflict
<1>3. CASE s.profile = "none"
  <2>1. d = Demand(s.device, s.gpus, s.workers)
    BY <1>3 DEF Materialize
  <2> QED
    BY <1>3, <2>1
<1>4. CASE s.profile = "auto"
  <2>1. d = AutoDemand(s, v)
    BY <1>4 DEF Materialize
  <2> QED
    BY <1>2, <1>4, <2>1 DEF AutoDemand, Chosen
<1>5. CASE s.profile = "cpu"
  <2>1. d = IF s.device = "cuda" THEN Conflict ELSE CpuDemand(s)
    BY <1>5 DEF Materialize
  <2> QED
    BY <1>2, <1>5, <2>1
<1>6. CASE s.profile = "cuda-single"
  <2>1. d = IF s.device = "cpu" THEN Conflict ELSE SingleDemand(s, v)
    BY <1>6 DEF Materialize
  <2> QED
    BY <2>1 DEF SingleDemand
<1>7. CASE s.profile = "cuda-replica"
  <2>1. d = IF s.device = "cpu" THEN Conflict ELSE ReplicaDemand(s, v)
    BY <1>7 DEF Materialize
  <2> QED
    BY <2>1 DEF ReplicaDemand
<1> QED
  BY <1>1, <1>3, <1>4, <1>5, <1>6, <1>7 DEF Profiles

\* What a plan for the CPU says of the settings it was made from.
AskedForCpu(s, v) ==
    /\ s.device # "cuda"
    /\ s.profile \notin {"cuda-single", "cuda-replica"}
    /\ s.gpus = <<>>
    /\ "cpu" \in {s.device, s.profile} \/ v = <<>>

LEMMA CudaPlanIsCuda ==
    ASSUME NEW g, NEW n
    PROVE  CudaPlan(g, n).device # "cpu"
  BY DEF CudaPlan, NoPlan

LEMMA PlanNotSilent ==
    ASSUME NEW s \in Settings, NEW n \in Nat, ResolvePlan(s, n).device = "cpu"
    PROVE  AskedForCpu(s, Indices(n))
<1> DEFINE v == Indices(n)
           d == Materialize(s, v)
<1>1. d.error = "none" /\ ResolveValues(d, v).device = "cpu"
  BY DEF ResolvePlan, NoPlan
<1>2. (d.device = "cpu" \/ (d.device = "auto" /\ v = <<>>)) /\ d.gpus = <<>>
  BY <1>1, CudaPlanIsCuda DEF ResolveValues, NoPlan
<1> QED
  BY <1>1, <1>2, CpuIsAsked DEF AskedForCpu

LEMMA ParentNotSilent ==
    ASSUME NEW s \in Settings, NEW v, ParentPlan(s, v).device = "cpu"
    PROVE  AskedForCpu(s, v)
<1> DEFINE d == Materialize(s, v)
<1>1. d.error = "none" /\ d.device = "cpu" /\ d.gpus = <<>>
  BY CudaPlanIsCuda DEF ParentPlan, NoPlan
<1> QED
  BY <1>1, CpuIsAsked DEF AskedForCpu

\* parent_execution_plan: the workers have a GPU each, or there is one on the CPU.
LEMMA ParentPlanShape ==
    ASSUME NEW s \in Settings, NEW v \in Seq(Nat), ParentPlan(s, v).error = "none"
    PROVE  LET p == ParentPlan(s, v)
           IN  \/ p = CpuPlan
               \/ /\ p.device = "cuda"
                  /\ p.selected \in Seq(Nat) /\ IsInjective(p.selected)
                  /\ p.workers \in 1..Len(p.selected)
                  /\ p.gpus = Prefix(p.selected, p.workers)
<1> DEFINE d == Materialize(s, v)
           n == WorkersOr(d, Len(d.gpus))
<1>1. d.error = "none"
  BY DEF ParentPlan, NoPlan
<1>2. d.gpus \in Seq(Nat) /\ d.workers \in Nat
  BY <1>1, DemandTyped
<1>3. CASE d.device = "cpu"
  BY <1>1, <1>3 DEF ParentPlan, NoPlan
<1>4. CASE d.device # "cpu"
  <2>1. ParentPlan(s, v) = CudaPlan(d.gpus, n)
    BY <1>1, <1>4 DEF ParentPlan, NoPlan
  <2> HIDE DEF d, n
  <2>2. CudaPlan(d.gpus, n).error = "none"
    BY <2>1
  <2> QED
    BY <1>2, <2>1, <2>2 DEF CudaPlan, NoPlan
<1> QED
  BY <1>3, <1>4

LEMMA SpecsApart ==
    ASSUME NEW s \in Settings, NEW v \in Seq(Nat), ParentPlan(s, v).error = "none"
    PROVE  LET p == ParentPlan(s, v)
           IN  /\ IsInjective(WorkerSpecs(p))
               /\ \A q \in Range(WorkerSpecs(p)) :
                     \/ q = <<>> /\ p = CpuPlan
                     \/ p.device = "cuda" /\ \E g \in Nat : q = <<g>>
<1> DEFINE p == ParentPlan(s, v)
<1>1. CASE p = CpuPlan
  <2>1. WorkerSpecs(p) = << <<>> >>
    BY <1>1 DEF WorkerSpecs, CpuPlan
  <2> QED
    BY <1>1, <2>1 DEF IsInjective, Range
<1>2. CASE /\ p.device = "cuda"
           /\ p.selected \in Seq(Nat) /\ IsInjective(p.selected)
           /\ p.workers \in 1..Len(p.selected)
           /\ p.gpus = Prefix(p.selected, p.workers)
  <2> HIDE DEF p
  <2>1. WorkerSpecs(p) = [w \in 1..p.workers |-> <<p.gpus[w]>>]
    BY <1>2 DEF WorkerSpecs
  <2>2. \A w \in 1..p.workers : p.gpus[w] = p.selected[w] /\ p.selected[w] \in Nat
    BY <1>2 DEF Prefix
  <2>3. \A w \in 1..p.workers : WorkerSpecs(p)[w] = <<p.selected[w]>>
    BY <2>1, <2>2
  <2>4. ASSUME NEW w \in 1..p.workers, NEW x \in 1..p.workers, WorkerSpecs(p)[w] = WorkerSpecs(p)[x]
        PROVE  w = x
    <3>1. p.selected[w] = p.selected[x]
      BY <2>3, <2>4
    <3>2. w \in DOMAIN p.selected /\ x \in DOMAIN p.selected
      BY <1>2
    <3> QED
      BY <1>2, <3>1, <3>2 DEF IsInjective
  <2>5. IsInjective(WorkerSpecs(p))
    BY <2>1, <2>4 DEF IsInjective
  <2>6. \A q \in Range(WorkerSpecs(p)) : \E g \in Nat : q = <<g>>
    BY <2>1, <2>2, <2>3 DEF Range
  <2> QED
    BY <1>2, <2>5, <2>6 DEF p
<1> QED
  BY <1>1, <1>2, ParentPlanShape

\* child_cuda_environment: whatever the parent's settings were, the child's plan
\* is for the one GPU it sees, or it has none.
LEMMA ChildPlanShape ==
    ASSUME NEW s, NEW g \in Nat, NEW n \in {0, 1}
    PROVE  LET p == ResolvePlan(ChildSettings(s, <<g>>), n)
           IN  /\ p.device # "cpu"
               /\ n = 0 => p.error # "none"
               /\ n = 1 => p = CudaPlan(<<0>>, 1) /\ p.error = "none"
<1> DEFINE c == ChildSettings(s, <<g>>)
           v == Indices(n)
           d == Demand("cuda", <<0>>, 1)
<1>1. c = [profile |-> "none", device |-> "cuda", gpus |-> <<0>>, workers |-> 1]
  BY DEF ChildSettings
<1>2. Materialize(c, v) = d
  BY <1>1 DEF Materialize
<1>3. ResolvePlan(c, n) = ResolveValues(d, v)
  BY <1>2 DEF ResolvePlan, Demand
<1>4. /\ Len(v) = n /\ DOMAIN v = 1..n
      /\ n = 0 <=> v = <<>>
      /\ n = 1 => v[1] = 0
  BY DEF Indices
<1> HIDE DEF v, c
<1>5. CASE n = 0
  <2>1. ResolveValues(d, v) = NoPlan("device")
    BY <1>4, <1>5 DEF ResolveValues, Demand
  <2> QED
    BY <1>3, <1>5, <2>1 DEF NoPlan, c
<1>6. CASE n = 1
  <2>1. Range(<<0>>) \subseteq Range(v)
    BY <1>4, <1>6 DEF Range
  <2>2. Chosen(d, v) = <<0>> /\ WorkersOr(d, Len(<<0>>)) = 1
    BY DEF Chosen, WorkersOr, Demand
  <2>3. ResolveValues(d, v) = CudaPlan(<<0>>, 1)
    <3>1. d.device = "cuda" /\ d.workers <= Len(<<0>>) /\ v # <<>>
      BY <1>4, <1>6 DEF Demand
    <3> HIDE DEF d
    <3> QED
      BY <2>1, <2>2, <3>1 DEF ResolveValues
  <2>4. 1 \in 1..Len(<<0>>) /\ IsInjective(<<0>>)
    BY DEF IsInjective
  <2> QED
    BY <1>3, <1>6, <2>3, <2>4 DEF CudaPlan, c
<1> QED
  BY <1>5, <1>6

\* What the model runs on then: the GPU that the process sees first.
LEMMA ChildRunsAlone ==
    ASSUME NEW g
    PROVE  LET p == CudaPlan(<<0>>, 1)
           IN  p.device = "cuda" /\ IsQualified(p) /\ RunsOn(p, <<g>>) = <<g>>
<1>1. 1 \in 1..Len(<<0>>) /\ IsInjective(<<0>>)
  BY DEF IsInjective
<1> QED
  BY <1>1 DEF CudaPlan, IsQualified, RunsOn

\* A worker on the CPU plans as its parent did, if the parent saw what it sees.
LEMMA ChildAgrees ==
    ASSUME NEW s \in Settings, NEW n \in Nat, ParentPlan(s, Indices(n)) = CpuPlan
    PROVE  ResolvePlan(s, n) = CpuPlan
<1> DEFINE d == Materialize(s, Indices(n))
<1>1. d.error = "none" /\ d.device = "cpu" /\ d.gpus = <<>> /\ OneWorker(d)
  BY CudaPlanIsCuda DEF ParentPlan, NoPlan, CpuPlan
<1> QED
  BY <1>1 DEF ResolvePlan, ResolveValues

---------------------------------------------------------------------------
(* NoSilentCpu and WorkersApart                                            *)

Heard == IF answered THEN Indices(Len(mask)) ELSE <<>>

\* What the parent has decided before it spawns.
Decided ==
    /\ settings \in Environments /\ mask \in Masks /\ seen = mask
    /\ plan = ParentPlan(settings, Heard) /\ plan.error = "none"

\* A worker on a GPU does not know what its parent decided from.
HandedOver ==
    \E g \in Nat :
        /\ spec = <<g>>
        /\ settings = ChildSettings(settings, spec)
        /\ seen = IF g \in Installed THEN spec ELSE <<>>
        /\ plan.device = "cuda" /\ plan.error = "none"

PlaceInv ==
    /\ lpc \notin {"spawned", "child", "over"} => spec = <<>>
    /\ lpc = "spawn" => Decided
    /\ lpc = "spawned" => (spec = <<>> /\ Decided /\ plan = CpuPlan) \/ HandedOver
    /\ NoSilentCpu
    /\ WorkersApart

LEMMA EnvironmentsAreSettings == Environments \subseteq Settings
  BY LaunchAssumption DEF Environments, Settings

LEMMA MasksAreLists == \A m \in Masks : m \in Seq(Nat) /\ Len(m) \in Nat /\ (m = <<>> <=> Len(m) = 0)
  BY LaunchAssumption DEF Lists

LEMMA IndicesTyped ==
    ASSUME NEW n \in Nat
    PROVE  Indices(n) \in Seq(Nat) /\ (Indices(n) = <<>> <=> n = 0)
<1>1. Indices(n) \in Seq(Nat) /\ Len(Indices(n)) = n
  BY DEF Indices
<1> QED
  BY <1>1

LEMMA PlaceStarts == LaunchInit => PlaceInv
  BY DEF LaunchInit, PlaceInv, NoSilentCpu, WorkersApart

\* A step that goes on elsewhere without a look at the plan.
LEMMA PlaceStays ==
    ASSUME PlaceInv, UNCHANGED placeVars,
           \/ lpc' = lpc
           \/ /\ lpc' \notin {"spawn", "spawned", "child"}
              /\ lpc \notin {"spawned", "child", "over"} \/ (lpc = "spawned" /\ lpc' = "over")
    PROVE  PlaceInv'
<1> USE DEF PlaceInv, placeVars
<1>1. NoSilentCpu'
  BY DEF NoSilentCpu
<1>2. Decided' <=> Decided
  BY DEF Decided, Heard
<1>3. HandedOver' <=> HandedOver
  BY DEF HandedOver
<1>4. CASE lpc' = lpc
  <2>1. WorkersApart'
    BY <1>4 DEF WorkersApart
  <2> QED
    BY <1>1, <1>2, <1>3, <1>4, <2>1
<1>5. CASE lpc' # lpc
  <2>1. lpc = "spawned" => plan.error = "none"
    BY DEF Decided, HandedOver
  <2>2. WorkersApart'
    BY <1>5, <2>1 DEF WorkersApart
  <2> QED
    BY <1>1, <1>5, <2>2
<1> QED
  BY <1>4, <1>5

LEMMA PlanKeeps ==
    ASSUME PlaceInv, NEW s \in Environments, NEW m \in Masks, Plan(s, m)
    PROVE  PlaceInv'
<1>1. /\ lpc = "plan" /\ lpc' \in {"construct", "over"}
      /\ settings' = s /\ seen' = m /\ plan' = ResolvePlan(s, Len(m))
      /\ spec' = spec
  BY DEF Plan, Goes, Ends
<1>2. spec' = <<>>
  BY <1>1 DEF PlaceInv
<1>3. s \in Settings /\ Len(m) \in Nat /\ (m = <<>> <=> Indices(Len(m)) = <<>>)
  BY EnvironmentsAreSettings, MasksAreLists, IndicesTyped
<1>4. NoSilentCpu'
  BY <1>1, <1>3, PlanNotSilent DEF NoSilentCpu, AskedForCpu
<1>5. WorkersApart'
  BY <1>1, <1>2 DEF WorkersApart
<1> QED
  BY <1>1, <1>2, <1>4, <1>5 DEF PlaceInv

LEMMA ParentPlansKeeps ==
    ASSUME PlaceInv, NEW s \in Environments, NEW m \in Masks, NEW heard \in BOOLEAN,
           ParentPlans(s, m, heard)
    PROVE  PlaceInv'
<1> DEFINE v == IF heard THEN Indices(Len(m)) ELSE <<>>
<1>1. /\ lpc = "start"
      /\ settings' = s /\ mask' = m /\ seen' = m /\ answered' = heard
      /\ plan' = ParentPlan(s, v)
      /\ spec' = spec
      /\ lpc' = IF plan'.error = "none" THEN "spawn" ELSE "over"
  BY DEF ParentPlans, Goes, Ends
<1>2. spec' = <<>>
  BY <1>1 DEF PlaceInv
<1>3. s \in Settings /\ v \in Seq(Nat) /\ (heard => (m = <<>> <=> v = <<>>))
  BY EnvironmentsAreSettings, MasksAreLists, IndicesTyped
<1>4. NoSilentCpu'
  BY <1>1, <1>3, ParentNotSilent DEF NoSilentCpu, AskedForCpu
<1>5. lpc' = "spawn" => Decided'
  BY <1>1 DEF Decided, Heard
<1>6. WorkersApart'
  BY <1>1, <1>2, <1>3, SpecsApart DEF WorkersApart
<1> QED
  BY <1>1, <1>2, <1>4, <1>5, <1>6 DEF PlaceInv

LEMMA SpawnKeeps ==
    ASSUME PlaceInv, Spawn
    PROVE  PlaceInv'
<1>1. /\ lpc = "spawn" /\ lpc' = "spawned"
      /\ spec' \in Range(WorkerSpecs(plan))
      /\ settings' = ChildSettings(settings, spec')
      /\ seen' = ChildSees(seen, spec', Installed)
      /\ mask' = mask /\ answered' = answered /\ plan' = plan
  BY DEF Spawn, Goes
<1>2. Decided
  BY <1>1 DEF PlaceInv
<1>3. settings \in Settings /\ Heard \in Seq(Nat)
  BY <1>2, EnvironmentsAreSettings, MasksAreLists, IndicesTyped DEF Decided, Heard
<1>4. \/ spec' = <<>> /\ plan = CpuPlan
      \/ plan.device = "cuda" /\ \E g \in Nat : spec' = <<g>>
  BY <1>1, <1>2, <1>3, SpecsApart DEF Decided
<1>5. CASE spec' = <<>> /\ plan = CpuPlan
  <2>1. settings' = settings /\ seen' = seen
    BY <1>1, <1>5 DEF ChildSettings, ChildSees
  <2>2. Decided' /\ NoSilentCpu'
    BY <1>1, <1>2, <2>1 DEF Decided, Heard, PlaceInv, NoSilentCpu
  <2>3. WorkersApart'
    BY <1>1 DEF WorkersApart
  <2> QED
    BY <1>1, <1>5, <2>2, <2>3 DEF PlaceInv
<1>6. CASE plan.device = "cuda" /\ \E g \in Nat : spec' = <<g>>
  <2>1. PICK g \in Nat : spec' = <<g>>
    BY <1>6
  <2>2. spec' # <<>> /\ spec'[1] = g
    BY <2>1
  <2>3. seen' = IF g \in Installed THEN spec' ELSE <<>>
    BY <1>1, <2>2 DEF ChildSees
  <2>4. HandedOver'
    <3>1. settings' = ChildSettings(settings', spec')
      BY <1>1, <2>2 DEF ChildSettings
    <3> QED
      BY <1>1, <1>2, <1>6, <2>1, <2>3, <3>1 DEF HandedOver, Decided
  <2>5. NoSilentCpu' /\ WorkersApart'
    BY <1>1, <1>6 DEF NoSilentCpu, WorkersApart
  <2> QED
    BY <1>1, <2>4, <2>5 DEF PlaceInv
<1> QED
  BY <1>4, <1>5, <1>6

LEMMA ChildPlansKeeps ==
    ASSUME PlaceInv, ChildPlans
    PROVE  PlaceInv'
<1>1. /\ lpc = "spawned"
      /\ plan' = ResolvePlan(settings, Len(seen))
      /\ lpc' = IF plan'.error = "none" THEN "child" ELSE "over"
      /\ settings' = settings /\ mask' = mask /\ seen' = seen /\ answered' = answered /\ spec' = spec
  BY DEF ChildPlans, Goes, Ends
<1>2. CASE spec = <<>> /\ Decided /\ plan = CpuPlan
  <2>1. settings \in Settings /\ Len(seen) \in Nat /\ (seen = <<>> <=> Indices(Len(seen)) = <<>>)
    BY <1>2, EnvironmentsAreSettings, MasksAreLists, IndicesTyped DEF Decided
  <2>2. NoSilentCpu'
    BY <1>1, <2>1, PlanNotSilent DEF NoSilentCpu, AskedForCpu
  <2>3. answered => plan' = CpuPlan
    BY <1>1, <1>2, <2>1, ChildAgrees DEF Decided, Heard
  <2>4. WorkersApart'
    BY <1>1, <1>2, <2>3 DEF WorkersApart, CpuPlan
  <2> QED
    BY <1>1, <2>2, <2>4 DEF PlaceInv
<1>3. CASE HandedOver
  <2>1. PICK g \in Nat : /\ spec = <<g>>
                        /\ settings = ChildSettings(settings, <<g>>)
                        /\ seen = IF g \in Installed THEN <<g>> ELSE <<>>
    BY <1>3 DEF HandedOver
  <2>2. Len(seen) = IF g \in Installed THEN 1 ELSE 0
    BY <2>1
  <2>3. /\ plan'.device # "cpu"
        /\ g \notin Installed => plan'.error # "none"
        /\ g \in Installed => plan' = CudaPlan(<<0>>, 1) /\ plan'.error = "none"
    BY <1>1, <2>1, <2>2, ChildPlanShape
  <2>4. NoSilentCpu'
    BY <2>3 DEF NoSilentCpu
  <2>5. spec' # <<>>
    BY <1>1, <2>1
  <2>6. lpc' = "child" => IsQualified(plan') /\ RunsOn(plan', seen') = spec'
    BY <1>1, <2>1, <2>3, ChildRunsAlone
  <2>7. seen' # <<>> => plan'.error = "none"
    BY <1>1, <2>1, <2>3
  <2>8. WorkersApart'
    BY <1>1, <2>5, <2>6, <2>7 DEF WorkersApart
  <2> QED
    BY <1>1, <2>4, <2>8 DEF PlaceInv
<1> QED
  BY <1>1, <1>2, <1>3 DEF PlaceInv

LEMMA ForgetKeeps ==
    ASSUME PlaceInv, Forget, lpc' \notin {"spawn", "spawned", "child"}
    PROVE  PlaceInv'
  BY DEF PlaceInv, Forget, NoSilentCpu, WorkersApart

LEMMA PlaceKeeps == PlaceInv /\ [LaunchNext]_vars => PlaceInv'
<1> SUFFICES ASSUME PlaceInv, [LaunchNext]_vars PROVE PlaceInv'
  OBVIOUS
<1> DEFINE Stays ==
      /\ UNCHANGED placeVars
      /\ \/ lpc' = lpc
         \/ /\ lpc' \notin {"spawn", "spawned", "child"}
            /\ lpc \notin {"spawned", "child", "over"} \/ (lpc = "spawned" /\ lpc' = "over")
<1>1. Stays => PlaceInv'
  BY PlaceStays
<1>2. CASE ArgumentsRefused \/ SettingsRefused \/ Started \/ DoctorStarted \/ ModelFound \/ ModelMissing
  BY <1>1, <1>2 DEF ArgumentsRefused, SettingsRefused, Started, DoctorStarted, ModelFound,
       ModelMissing, Goes, Ends
<1>3. CASE Resolving \/ GenerateWrites \/ RivalWrites \/ Over \/ UNCHANGED vars
  BY <1>1, <1>3 DEF Resolving, GenerateWrites, RivalWrites, Over, vars, launchVars
<1>4. CASE DetectFails
  BY <1>1, <1>4 DEF DetectFails, Ends
<1>5. CASE \E s \in Environments, m \in Masks :
             Plan(s, m) \/ \E heard \in BOOLEAN : ParentPlans(s, m, heard)
  BY <1>5, PlanKeeps, ParentPlansKeeps
<1>6. CASE Spawn \/ ChildPlans
  BY <1>6, SpawnKeeps, ChildPlansKeeps
<1>7. CASE ChildResolves \/ Constructs
  BY <1>7, ForgetKeeps DEF ChildResolves, Constructs, Goes, Ends
<1>8. CASE FakeWorkerStarted \/ Loads \/ LoadRaises
  BY <1>1, <1>8 DEF FakeWorkerStarted, Loads, LoadRaises, Goes, Ends
<1>9. CASE LoadOnly \/ Generates \/ GenerateStreams \/ GenerateFails \/ GenerateReads
  BY <1>1, <1>9 DEF LoadOnly, Generates, GenerateStreams, GenerateFails, GenerateReads, Goes, Ends
<1>10. CASE GenerateWrote \/ GenerateKilled \/ WriteRaises \/ \E valid \in BOOLEAN : Validates(valid)
  BY <1>1, <1>10 DEF GenerateWrote, GenerateKilled, WriteRaises, Validates, Goes, Ends
<1>11. CASE Serves \/ PutBreaks \/ Dismissed \/ Leaves
  BY <1>1, <1>11 DEF Serves, PutBreaks, Dismissed, Leaves, Goes, Ends
<1> QED
  BY <1>2, <1>3, <1>4, <1>5, <1>6, <1>7, <1>8, <1>9, <1>10, <1>11 DEF LaunchNext

THEOREM PlaceInvariant == LaunchSpec => []PlaceInv
  BY PlaceStarts, PlaceKeeps, PTL DEF LaunchSpec

\* profiles.py, device.py: no process asked for a GPU ends up on the CPU, for any
\* settings, any masks and any number of GPUs.
THEOREM LaunchNotSilent == LaunchSpec => []NoSilentCpu
<1>1. PlaceInv => NoSilentCpu
  BY DEF PlaceInv
<1> QED
  BY <1>1, PlaceInvariant, PTL

\* worker_factory.py, worker_process.py: every worker of any number runs alone on
\* the GPU it was given.
THEOREM LaunchApart == LaunchSpec => []WorkersApart
<1>1. PlaceInv => WorkersApart
  BY DEF PlaceInv
<1> QED
  BY <1>1, PlaceInvariant, PTL

\* A worker that plans the GPU runs on a GPU of the machine.
Landed == lpc = "child" /\ plan.device = "cuda" => Range(RunsOn(plan, seen)) \subseteq Installed

LEMMA PlanSelects ==
    ASSUME NEW s \in Settings, NEW n \in Nat, ResolvePlan(s, n).device = "cuda"
    PROVE  LET first == ResolvePlan(s, n).selected[1] IN first \in Nat /\ first < n
<1> DEFINE d == Materialize(s, Indices(n))
           chosen == Chosen(d, Indices(n))
<1>1. d.error = "none" /\ ResolvePlan(s, n) = ResolveValues(d, Indices(n))
  BY DEF ResolvePlan, NoPlan
<1>2. Indices(n) \in Seq(Nat)
  BY IndicesTyped
<1>3. d.gpus \in Seq(Nat) /\ chosen \in Seq(Nat)
  BY <1>1, <1>2, DemandTyped DEF Chosen
<1>4. /\ Range(chosen) \subseteq Range(Indices(n))
      /\ ResolvePlan(s, n) = CudaPlan(chosen, WorkersOr(d, Len(chosen)))
  BY <1>1 DEF ResolveValues, CpuPlan, NoPlan
<1>5. Len(chosen) >= 1 /\ ResolvePlan(s, n).selected = chosen
  BY <1>3, <1>4 DEF CudaPlan, NoPlan
<1>6. chosen[1] \in Range(chosen)
  BY <1>3, <1>5 DEF Range
<1>7. \A i \in Range(Indices(n)) : i \in Nat /\ i < n
  BY DEF Range, Indices
<1> QED
  BY <1>4, <1>5, <1>6, <1>7

LEMMA LandedKeeps == PlaceInv /\ Landed /\ [LaunchNext]_vars => Landed'
<1> SUFFICES ASSUME PlaceInv, Landed, [LaunchNext]_vars PROVE Landed'
  OBVIOUS
<1>1. CASE ChildPlans
  <2>1. /\ lpc = "spawned" /\ seen' = seen
        /\ plan' = ResolvePlan(settings, Len(seen))
    BY <1>1 DEF ChildPlans, Goes, Ends
  <2>2. CASE Decided
    <3>1. settings \in Settings /\ seen \in Seq(Nat) /\ Len(seen) \in Nat /\ seen \in Masks
      BY <2>2, EnvironmentsAreSettings, MasksAreLists DEF Decided
    <3>2. \A i \in 1..Len(seen) : seen[i] \in Installed
      BY <3>1, LaunchAssumption DEF Range
    <3> SUFFICES ASSUME plan'.device = "cuda" PROVE Range(RunsOn(plan', seen')) \subseteq Installed
      BY DEF Landed
    <3>3. plan'.selected[1] \in Nat /\ plan'.selected[1] < Len(seen)
      BY <2>1, <3>1, PlanSelects
    <3>4. seen[plan'.selected[1] + 1] \in Installed
      BY <3>1, <3>2, <3>3
    <3> QED
      BY <2>1, <3>4 DEF RunsOn, Range
  <2>3. CASE HandedOver
    <3>1. PICK g \in Nat : /\ spec = <<g>>
                          /\ settings = ChildSettings(settings, <<g>>)
                          /\ seen = IF g \in Installed THEN <<g>> ELSE <<>>
      BY <2>3 DEF HandedOver
    <3>2. Len(seen) = IF g \in Installed THEN 1 ELSE 0
      BY <3>1
    <3>3. /\ g \notin Installed => plan'.error # "none"
          /\ g \in Installed => plan' = CudaPlan(<<0>>, 1)
      BY <2>1, <3>1, <3>2, ChildPlanShape
    <3>4. lpc' = "child" => g \in Installed /\ RunsOn(plan', seen') = <<g>>
      BY <1>1, <2>1, <3>1, <3>3, ChildRunsAlone DEF ChildPlans, Goes, Ends
    <3> QED
      BY <3>4 DEF Landed, Range
  <2> QED
    BY <2>1, <2>2, <2>3 DEF PlaceInv
<1>2. CASE lpc' # "child"
  BY <1>2 DEF Landed
<1>3. CASE lpc' = lpc /\ plan' = plan /\ seen' = seen
  BY <1>3 DEF Landed
<1>4. lpc' = "child" => ChildPlans \/ (lpc' = lpc /\ plan' = plan /\ seen' = seen)
  <2> USE DEF Goes, Ends
  <2>1. CASE Resolving \/ GenerateWrites \/ RivalWrites \/ Over \/ UNCHANGED vars
    BY <2>1 DEF Resolving, GenerateWrites, RivalWrites, Over, vars, launchVars, placeVars
  <2>2. CASE \E s \in Environments, m \in Masks :
               Plan(s, m) \/ \E heard \in BOOLEAN : ParentPlans(s, m, heard)
    BY <2>2 DEF Plan, ParentPlans
  <2>3. CASE ArgumentsRefused \/ SettingsRefused \/ Started \/ DoctorStarted \/ ModelFound \/ ModelMissing
             \/ DetectFails \/ Spawn \/ ChildResolves \/ Constructs
    BY <2>3 DEF ArgumentsRefused, SettingsRefused, Started, DoctorStarted, ModelFound, ModelMissing,
                DetectFails, Spawn, ChildResolves, Constructs
  <2>4. CASE FakeWorkerStarted \/ Loads \/ LoadRaises \/ LoadOnly \/ Generates \/ GenerateStreams
             \/ GenerateFails \/ GenerateReads \/ GenerateWrote \/ GenerateKilled \/ WriteRaises
             \/ \E valid \in BOOLEAN : Validates(valid)
    BY <2>4 DEF FakeWorkerStarted, Loads, LoadRaises, LoadOnly, Generates, GenerateStreams, GenerateFails,
                GenerateReads, GenerateWrote, GenerateKilled, WriteRaises, Validates
  <2>5. CASE Serves \/ PutBreaks \/ Dismissed \/ Leaves
    BY <2>5 DEF Serves, PutBreaks, Dismissed, Leaves
  <2> QED
    BY <2>1, <2>2, <2>3, <2>4, <2>5 DEF LaunchNext
<1> QED
  BY <1>1, <1>2, <1>3, <1>4

\* docs/CONFIGURATION.md "GPU indices use PyTorch's runtime-visible namespace" is
\* not true of a server that was shown a part of the machine; it is of one that
\* was shown all of it.
THEOREM LaunchOnVisible == LaunchSpec => [](Range(mask) = Installed => PlacedOnVisible)
<1>1. LaunchInit => Landed
  BY DEF LaunchInit, Landed
<1>2. Landed => (Range(mask) = Installed => PlacedOnVisible)
  BY DEF Landed, PlacedOnVisible
<1> QED
  BY <1>1, <1>2, LandedKeeps, PlaceInvariant, PTL DEF LaunchSpec

---------------------------------------------------------------------------
(* ExitHonest                                                              *)

Early == {"start", "model", "plan", "construct", "load"}
Busy == {"run", "reading", "failed", "writing", "validating"}

\* Where generate.py is, and what that says of its backend and its output.
OnItsWay ==
    program = "generate" =>
        /\ kind = "real"
        /\ lpc \in Early \cup Busy \cup {"finish", "over"}
        /\ lpc \notin {"start", "over"} => mode \in {"load-only", "one-shot", "stream"}
        /\ lpc \in Early => bstate = "created"
        /\ lpc \notin {"reading", "over"} => Idle
        /\ lpc = "finish" => mode = "load-only"
        /\ lpc \in {"writing", "validating"} /\ mode = "stream" => gen = "ended" /\ final
        /\ lpc = "validating" => wpc[Main] = "written"

\* Whoever has replaced the target made it another file than that of before.
Replaced == \A w \in Writers : wpc[w] \in {"placed", "written"} => last # Old

ExitInv == BackendInv /\ WavInv /\ OnItsWay /\ Replaced /\ ExitHonest

LEMMA ReplacedKeeps ==
    ASSUME WavInv, Replaced, [\E w \in Writers : WavStep(w)]_wavVars
    PROVE  Replaced'
<1>1. CASE UNCHANGED wavVars
  BY <1>1 DEF wavVars, Replaced
<1>2. ASSUME NEW w \in Writers, WavStep(w) PROVE Replaced'
  <2>1. wpc \in [Writers -> Places]
    BY DEF WavInv, WavTyped
  <2>2. CASE Replace(w)
    BY <2>1, <2>2, WavAssumption DEF Replace, Replaced
  <2>3. CASE Inspect(w)
    BY <2>1, <2>3 DEF Inspect, At, Replaced
  <2>4. CASE Refuse(w) \/ Open(w) \/ WriteHead(w) \/ WriteRest(w) \/ WriteFails(w)
             \/ ReplaceFails(w) \/ Kill(w)
    <3>1. last' = last /\ \E to \in {"failed", "opened", "begun", "closed", "dead"} :
                              wpc' = [wpc EXCEPT ![w] = to]
      BY <2>4 DEF Refuse, Open, WriteHead, WriteRest, WriteFails, ReplaceFails, Kill, At
    <3> QED
      BY <2>1, <3>1 DEF Replaced
  <2> QED
    BY <1>2, <2>2, <2>3, <2>4 DEF WavStep
<1> QED
  BY <1>1, <1>2

LEMMA ExitStarts == LaunchInit => ExitInv
<1>1. LaunchInit => BackendInv /\ WavInv
  BY BackendStarts, WavStarts DEF LaunchInit
<1>2. LaunchInit => OnItsWay /\ ExitHonest
  BY DEF LaunchInit, BackendInit, OnItsWay, ExitHonest, Early, Idle
<1>3. LaunchInit => Replaced
  BY DEF LaunchInit, WavInit, Replaced
<1> QED
  BY <1>1, <1>2, <1>3 DEF ExitInv

\* A process that ends before it has loaded a model has none.
LEMMA EndsEarly ==
    ASSUME ExitInv, lpc \in Early, lpc' = "over", exit' \notin {"0", "killed"},
           program' = program, UNCHANGED <<bstate, model, streamVars>>
    PROVE  ExitHonest'
<1>1. program = "generate" => bstate = "created" /\ model = FALSE /\ Idle
  BY DEF ExitInv, BackendInv, OnItsWay, Early
<1> QED
  BY <1>1 DEF ExitHonest, Idle, streamVars

\* One that is not over promises nothing yet.
LEMMA NotOver == lpc' # "over" => ExitHonest'
  BY DEF ExitHonest

LEMMA EarlyKeeps ==
    ASSUME ExitInv,
           \/ ArgumentsRefused \/ SettingsRefused \/ Started \/ DoctorStarted \/ FakeWorkerStarted
           \/ ModelFound \/ ModelMissing \/ DetectFails
           \/ \E s \in Environments, m \in Masks :
                 Plan(s, m) \/ \E heard \in BOOLEAN : ParentPlans(s, m, heard)
           \/ Spawn \/ ChildPlans \/ ChildResolves
    PROVE  OnItsWay' /\ ExitHonest'
<1> USE DEF Goes, Ends, Same
<1>1. OnItsWay
  BY DEF ExitInv
<1>2. CASE program # "generate"
  <2>1. program' = program
    BY DEF ArgumentsRefused, SettingsRefused, Started, DoctorStarted, FakeWorkerStarted,
       ModelFound, ModelMissing, DetectFails, Plan, ParentPlans, Spawn, ChildPlans, ChildResolves
  <2> QED
    BY <1>2, <2>1 DEF OnItsWay, ExitHonest
<1>3. CASE program = "generate"
  <2> DEFINE Unmoved == program' = program /\ UNCHANGED <<backendVars, wavVars>>
  <2>1. \/ lpc \in Early /\ lpc' = "over" /\ exit' = "2"
        \/ lpc = "start" /\ lpc' = "model" /\ mode' \in {"load-only", "one-shot", "stream"}
        \/ lpc = "model" /\ lpc' = "plan" /\ mode' = mode
        \/ lpc = "plan" /\ lpc' = "construct" /\ mode' = mode
    <3>1. CASE ArgumentsRefused \/ SettingsRefused \/ Started
      BY <1>3, <3>1 DEF ArgumentsRefused, SettingsRefused, Started, Early
    <3>2. CASE ModelFound \/ ModelMissing \/ DetectFails
      BY <1>3, <3>2 DEF ModelFound, ModelMissing, DetectFails, Early
    <3>3. CASE \E s \in Environments, m \in Masks :
                 Plan(s, m) \/ \E heard \in BOOLEAN : ParentPlans(s, m, heard)
      BY <1>3, <3>3 DEF Plan, ParentPlans, Early
    <3>4. CASE DoctorStarted \/ FakeWorkerStarted \/ Spawn \/ ChildPlans \/ ChildResolves
      BY <1>1, <1>3, <3>4 DEF DoctorStarted, FakeWorkerStarted, Spawn, ChildPlans, ChildResolves,
           OnItsWay, Early, Busy
    <3> QED
      BY <3>1, <3>2, <3>3, <3>4
  <2>2. Unmoved
    <3>1. ~FakeWorkerStarted
      BY <1>3 DEF FakeWorkerStarted
    <3>2. Elsewhere
      BY <3>1 DEF Elsewhere
    <3>3. program' = program
      BY DEF ArgumentsRefused, SettingsRefused, Started, DoctorStarted, FakeWorkerStarted,
         ModelFound, ModelMissing, DetectFails, Plan, ParentPlans, Spawn, ChildPlans, ChildResolves
    <3> QED
      BY <3>2, <3>3, ElsewhereLeaves
  <2>3. OnItsWay'
    BY <1>1, <1>3, <2>1, <2>2 DEF OnItsWay, Early, Busy, Idle, backendVars, streamVars, wavVars
  <2>4. ExitHonest'
    BY <2>1, <2>2, EndsEarly, NotOver DEF backendVars
  <2> QED
    BY <2>3, <2>4
<1> QED
  BY <1>2, <1>3

LEMMA LoadingKeeps ==
    ASSUME ExitInv, Constructs \/ Loads \/ LoadRaises
    PROVE  OnItsWay' /\ ExitHonest'
<1> USE DEF Goes, Ends, Same
<1>1. OnItsWay
  BY DEF ExitInv
<1>2. CASE Constructs
  <2>1. /\ lpc = "construct" /\ program' = program /\ mode' = mode
        /\ lpc' = "load" \/ (lpc' = "over" /\ exit' \notin {"0", "killed"})
        /\ kind' = "real" /\ UNCHANGED <<bstate, model, streamVars>>
        /\ UNCHANGED wavVars
    BY <1>2 DEF Constructs, Construct
  <2>2. OnItsWay'
    BY <1>1, <2>1 DEF OnItsWay, Early, Busy, Idle, streamVars, wavVars
  <2> QED
    BY <2>1, <2>2, EndsEarly, NotOver DEF Early
<1>3. CASE Loads
  <2>1. /\ lpc = "load" /\ program' = program /\ mode' = mode
        /\ \/ mode = "load-only" /\ lpc' = "finish"
           \/ mode \in {"one-shot", "stream"} /\ lpc' = "run"
           \/ mode = Unknown /\ lpc' = "serve"
        /\ kind' = kind /\ UNCHANGED <<streamVars, wavVars>>
    BY <1>3 DEF Loads, LoadSucceeds
  <2>2. OnItsWay'
    BY <1>1, <2>1, LaunchAssumption DEF OnItsWay, Early, Busy, Idle, streamVars, wavVars
  <2> QED
    BY <2>1, <2>2, NotOver
<1>4. CASE LoadRaises
  <2>1. /\ lpc = "load" /\ program' = program /\ mode' = mode
        /\ \/ program = "generate" /\ lpc' = "over" /\ exit' = "3"
           \/ program # "generate" /\ lpc' = "leaving"
        /\ UNCHANGED <<backendVars, wavVars>>
    BY <1>4 DEF LoadRaises, LoadFails
  <2>2. OnItsWay'
    BY <1>1, <2>1 DEF OnItsWay, Early, Busy, Idle, backendVars, streamVars, wavVars
  <2> QED
    BY <2>1, <2>2, EndsEarly, NotOver DEF Early, backendVars
<1> QED
  BY <1>2, <1>3, <1>4

\* Between the load and the end of the audio.
LEMMA RunningKeeps ==
    ASSUME ExitInv, LoadOnly \/ Generates \/ GenerateStreams \/ GenerateFails \/ GenerateReads
    PROVE  OnItsWay' /\ ExitHonest'
<1> USE DEF Goes, Ends, Same
<1>1. OnItsWay
  BY DEF ExitInv
<1>2. CASE LoadOnly \/ GenerateFails
  <2>1. /\ lpc \in {"finish", "run", "failed"} /\ lpc' = "over"
        /\ program' = program /\ mode' = mode
        /\ exit' = "0" => lpc = "finish"
        /\ kind' = kind /\ bstate' = "closed" /\ model' = FALSE /\ gen' = gen
    BY <1>2 DEF LoadOnly, GenerateFails, CloseSucceeds, streamVars
  <2>2. OnItsWay' /\ ExitHonest'
    BY <1>1, <2>1 DEF OnItsWay, ExitHonest, Early, Busy, Idle
  <2> QED
    BY <2>2
<1>3. CASE Generates
  <2>1. /\ lpc = "run" /\ lpc' = "writing" /\ mode = "one-shot" /\ mode' = mode
        /\ program' = program /\ UNCHANGED <<backendVars, wavVars>>
    BY <1>3 DEF Generates, OneShot
  <2>2. OnItsWay'
    BY <1>1, <2>1 DEF OnItsWay, Early, Busy, Idle, backendVars, streamVars
  <2> QED
    BY <2>1, <2>2, NotOver
<1>4. CASE GenerateStreams
  <2>1. /\ lpc = "run" /\ lpc' = "reading" /\ mode = "stream" /\ mode' = mode
        /\ program' = program /\ kind' = kind
    BY <1>4 DEF GenerateStreams, StreamBegins
  <2>2. OnItsWay'
    BY <1>1, <2>1 DEF OnItsWay, Early, Busy
  <2> QED
    BY <2>1, <2>2, NotOver
<1>5. CASE GenerateReads
  <2>1. /\ lpc = "reading" /\ program' = program /\ mode' = mode /\ kind' = kind
        /\ \/ lpc' = "reading"
           \/ lpc' = "writing" /\ gen' = "ended" /\ final' = final /\ final
           \/ lpc' = "failed" /\ gen' = "failed"
    BY <1>5 DEF GenerateReads, NextYields, NextChunk, NextLast, NextSlice, NextEnds, NextRaises,
         NextRefused, StreamFails, NextEmpty, NextFails, NextNotAudio, NextEndRaises
  <2>2. OnItsWay'
    BY <1>1, <2>1 DEF OnItsWay, Early, Busy, Idle
  <2> QED
    BY <2>1, <2>2, NotOver
<1> QED
  BY <1>2, <1>3, <1>4, <1>5

\* What the name holds when validate_wav accepts it.
LEMMA ValidIsWhole ==
    ASSUME ExitInv, MayValidate(TRUE), wpc[Main] = "written"
    PROVE  /\ target # None /\ None \notin Range(data[target])
           /\ last # Old
           /\ ~crossed => data[target] = Whole(last)
<1>1. target # None /\ None \notin {data[target][1], data[target][2]}
  BY DEF MayValidate
<1>2. target \in Files /\ data[target] \in (Files \cup {None}) \X (Files \cup {None})
  BY <1>1 DEF ExitInv, WavInv, WavTyped
<1>3. PICK a, b : data[target] = <<a, b>>
  BY <1>2
<1>4. Range(<<a, b>>) = {a, b} /\ <<a, b>>[1] = a /\ <<a, b>>[2] = b
  BY DEF Range
<1>5. None \notin Range(data[target])
  BY <1>1, <1>3, <1>4
<1>6. last # Old
  BY LaunchAssumption DEF ExitInv, Replaced
<1>7. ~crossed => data[target] = Whole(last)
  BY <1>1 DEF ExitInv, WavInv, TargetWhole
<1> QED
  BY <1>1, <1>5, <1>6, <1>7

LEMMA WritingKeeps ==
    ASSUME ExitInv,
           \/ GenerateWrites \/ RivalWrites \/ GenerateWrote \/ GenerateKilled \/ WriteRaises
           \/ \E valid \in BOOLEAN : Validates(valid)
    PROVE  OnItsWay' /\ ExitHonest'
<1> USE DEF Goes, Ends, Same
<1>1. OnItsWay
  BY DEF ExitInv
<1>2. CASE GenerateWrites \/ RivalWrites
  <2>1. /\ lpc \in {"writing", "validating"} /\ UNCHANGED <<launchVars, backendVars>>
        /\ lpc = "validating" => \E w \in Writers \ {Main} : WavStep(w)
    BY <1>2 DEF GenerateWrites, RivalWrites
  <2>2. ASSUME NEW w \in Writers \ {Main}, WavStep(w) PROVE wpc'[Main] = wpc[Main]
    <3>1. \E to \in Places : wpc' = [wpc EXCEPT ![w] = to]
      BY <2>2 DEF WavStep, Refuse, Open, WriteHead, WriteRest, WriteFails, Replace, ReplaceFails,
           Inspect, Kill, At, Places
    <3>2. wpc \in [Writers -> Places]
      BY DEF ExitInv, WavInv, WavTyped
    <3> QED
      BY <3>1, <3>2, LaunchAssumption
  <2>3. lpc = "validating" => wpc'[Main] = wpc[Main]
    BY <2>1, <2>2
  <2>4. OnItsWay'
    BY <1>1, <2>1, <2>3 DEF OnItsWay, Early, Busy, Idle, launchVars, backendVars, streamVars
  <2> QED
    BY <2>1, <2>4, NotOver DEF launchVars
<1>3. CASE GenerateWrote
  <2>1. /\ lpc = "writing" /\ lpc' = "validating" /\ wpc[Main] = "written"
        /\ program' = program /\ mode' = mode /\ UNCHANGED <<backendVars, wavVars>>
    BY <1>3 DEF GenerateWrote
  <2>2. OnItsWay'
    BY <1>1, <2>1 DEF OnItsWay, Early, Busy, Idle, backendVars, streamVars, wavVars
  <2> QED
    BY <2>1, <2>2, NotOver
<1>4. CASE GenerateKilled
  <2>1. /\ lpc' = "over" /\ exit' = "killed" /\ program' = program /\ kind' = kind
        /\ lpc = "writing"
    BY <1>4 DEF GenerateKilled, backendVars
  <2> QED
    BY <1>1, <2>1 DEF OnItsWay, ExitHonest, Early
<1>5. CASE WriteRaises
  <2>1. /\ lpc = "writing" /\ lpc' = "over" /\ exit' = "4" /\ program' = program
        /\ kind' = kind /\ bstate' = "closed" /\ model' = FALSE /\ gen' = gen
    BY <1>5 DEF WriteRaises, CloseSucceeds, streamVars
  <2> QED
    BY <1>1, <2>1 DEF OnItsWay, ExitHonest, Early, Idle
<1>6. CASE \E valid \in BOOLEAN : Validates(valid)
  <2>1. PICK valid \in BOOLEAN : Validates(valid)
    BY <1>6
  <2>2. /\ lpc = "validating" /\ lpc' = "over" /\ program' = program /\ mode' = mode
        /\ exit' = IF valid THEN "0" ELSE "4"
        /\ kind' = kind /\ bstate' = "closed" /\ model' = FALSE /\ gen' = gen /\ final' = final
        /\ UNCHANGED wavVars /\ MayValidate(valid)
    BY <2>1 DEF Validates, CloseSucceeds, streamVars
  <2>3. OnItsWay'
    BY <1>1, <2>2 DEF OnItsWay, Early
  <2>4. ASSUME program = "generate"
        PROVE  bstate' # "loaded" /\ ~model' /\ Idle' /\ (mode = "stream" => gen' = "ended" /\ final')
    BY <1>1, <2>2, <2>4 DEF OnItsWay, Idle
  <2>5. program = "generate" => wpc[Main] = "written"
    BY <1>1, <2>2 DEF OnItsWay
  <2>6. CASE valid = FALSE
    <3>1. exit' = "4"
      BY <2>2, <2>6
    <3> QED
      BY <2>2, <2>3, <2>4, <3>1 DEF ExitHonest
  <2>7. CASE valid = TRUE
    <3>1. ASSUME program = "generate"
          PROVE  /\ target' # None /\ None \notin Range(data'[target'])
                 /\ last' # Old
                 /\ ~crossed' => data'[target'] = Whole(last')
      BY <2>2, <2>5, <2>7, <3>1, ValidIsWhole DEF wavVars
    <3>2. program' = program /\ mode' = mode /\ bstate' = "closed"
      BY <2>2
    <3> QED
      BY <2>3, <2>4, <3>1, <3>2, Zenon DEF ExitHonest
  <2> QED
    BY <2>3, <2>6, <2>7
<1> QED
  BY <1>2, <1>3, <1>4, <1>5, <1>6

LEMMA ExitKeeps == ExitInv /\ [LaunchNext]_vars => ExitInv'
<1> SUFFICES ASSUME ExitInv, [LaunchNext]_vars PROVE ExitInv'
  OBVIOUS
<1>1. BackendInv' /\ WavInv' /\ Replaced'
  BY LaunchUses, BackendKeeps, WavStepKeeps, WavStutters, ReplacedKeeps DEF ExitInv
<1>2. OnItsWay' /\ ExitHonest'
  <2>1. CASE Serves \/ PutBreaks \/ Dismissed \/ Leaves
    <3>1. lpc \in {"serve", "leaving"} /\ program' = program
      BY <2>1 DEF Serves, PutBreaks, Dismissed, Leaves, Goes, Ends, Same
    <3>2. program # "generate"
      BY <3>1 DEF ExitInv, OnItsWay, Early, Busy
    <3> QED
      BY <3>1, <3>2 DEF OnItsWay, ExitHonest
  <2>2. CASE UNCHANGED <<launchVars, backendVars, wavVars>>
    BY <2>2 DEF ExitInv, OnItsWay, ExitHonest, Idle, launchVars, backendVars, streamVars, wavVars
  <2>3. CASE Resolving \/ Over \/ UNCHANGED vars
    BY <2>2, <2>3 DEF Resolving, Over, vars
  <2> QED
    BY <2>1, <2>3, EarlyKeeps, LoadingKeeps, RunningKeeps, WritingKeeps DEF LaunchNext
<1> QED
  BY <1>1, <1>2 DEF ExitInv

\* generate.py: a status of 0 means that the output is there and whole, and any
\* status but that of a kill that no model was left loaded, for any number of
\* processes that write the same output.
THEOREM LaunchHonest == LaunchSpec => []ExitHonest
<1>1. LaunchSpec => []ExitInv
  BY ExitStarts, ExitKeeps, PTL DEF LaunchSpec
<1>2. ExitInv => ExitHonest
  BY DEF ExitInv
<1> QED
  BY <1>1, <1>2, PTL

---------------------------------------------------------------------------
(* The search for a model                                                  *)

\* The steps of ModelResolver.resolve, and what its caller does with it.
ModelNext ==
    \/ ResolveDiscover \/ ResolvePlainly \/ ResolveStep \/ ResolveTaken
    \/ \E verdict \in Verdicts("explicit-path") : ResolveExplicit(verdict)

Configs == {Unknown, "none", "good", "spoiled"}
Looked(d) == facts[d].config # Unknown

ModelTyped ==
    /\ rpc \in {"idle", "discover", "offer", "candidates", "cache", "resolved"}
    /\ trail \in Seq(Dirs \X (0..MaxDepth))
    /\ entries \in Nat
    /\ facts \in [Dirs -> [config : Configs, sound : BOOLEAN \cup {Unknown}]]
    /\ offers \in Seq(claimed)

\* Nothing is looked at twice: what is still to be visited has not been looked
\* at, and the directory that lists it has.
OnceEach ==
    /\ \A i, j \in 1..Len(trail) : trail[i][1] = trail[j][1] => i = j
    /\ \A i \in 1..Len(trail) : ~Looked(trail[i][1])
    /\ \A d \in Dirs \ {Root} : Looked(d) \/ (\E i \in 1..Len(trail) : trail[i][1] = d)
          => \E e \in Dirs : Looked(e) /\ d \in Range(Subdirs[e])

\* The ways down from the root, of at most n steps.
Ways(n) == {p \in UNION {[1..k -> Dirs] : k \in 1..(n + 1)} :
                p[1] = Root /\ \A i \in 1..(Len(p) - 1) : p[i + 1] \in Range(Subdirs[p[i]])}
Paths == Ways(MaxDepth)
End(p) == p[Len(p)]

\* A way whose end has not been looked at will be gone down: one of its
\* directories is still to be visited, high enough to reach the end from it.
Covered ==
    \A p \in Paths : Looked(End(p)) \/
        \E i \in 1..Len(trail), j \in 1..Len(p) : trail[i][1] = p[j] /\ Len(p) - j <= MaxDepth - trail[i][2]

AllLooked == asked = "mounts" /\ Discovered /\ entries > 0 => \A p \in Paths : Looked(End(p))

\* The candidates that are left are in order, the others were refused.
InOrder ==
    /\ \A i, j \in 1..Len(offers) : i < j => offers[i] \in Before(offers[j])
    /\ \A d \in claimed \ Range(offers) : facts[d].sound = FALSE

SearchInv ==
    /\ ModelTyped
    /\ claimed = {d \in Dirs : facts[d].config = "good"}
    /\ rpc = "idle" => entries = 0 /\ claimed = {} /\ offers = <<>> /\ \A d \in Dirs : ~Looked(d)
    /\ rpc \in {"discover", "offer", "candidates"} => asked = "mounts"
    /\ rpc = "discover" => OnceEach /\ Covered
    /\ rpc = "candidates" => InOrder
    /\ rpc = "cache" => asked \in {"mounts", "none"} /\ \A d \in claimed : facts[d].sound = FALSE
    /\ AllLooked
    /\ RightModel

\* Induction, over a set of numbers instead of a predicate.
LEMMA InSteps ==
    ASSUME NEW S, 0 \in S, \A n \in Nat : n \in S => n + 1 \in S
    PROVE  Nat \subseteq S
<1> DEFINE Less == {ij \in Nat \X Nat : ij[1] < ij[2]}
           Left == Nat \ S
<1>1. IsWellFoundedOn(Less, Nat)
  <2>1. OpToRel(<, Nat) = Less
    BY DEF OpToRel
  <2> QED
    BY <2>1, NatLessThanWellFounded
<1> SUFFICES ASSUME Left # {} PROVE FALSE
  OBVIOUS
<1>2. PICK n \in Left : \A k \in Left : <<k, n>> \notin Less
  <2> HIDE DEF Less
  <2>1. Left \subseteq Nat
    OBVIOUS
  <2> QED
    BY <1>1, <2>1, WFMin
<1>3. n - 1 \in Nat /\ (n - 1) + 1 = n
  OBVIOUS
<1>4. n - 1 \in Left
  BY <1>3
<1>5. <<n - 1, n>> \in Nat \X Nat /\ <<n - 1, n>>[1] < <<n - 1, n>>[2]
  BY <1>3
<1> QED
  BY <1>2, <1>4, <1>5

\* What is listed in some directory of a set, and the set itself.
Deeper(S) == S \cup UNION {Range(Subdirs[d]) : d \in S}

\* The first n + 1 values of Reached.
Begins(f, n) == f \in [0..n -> SUBSET Dirs] /\ f[0] = {Root} /\ \A k \in 1..n : f[k] = Deeper(f[k - 1])

LEMMA DeeperTyped == ASSUME NEW S \in SUBSET Dirs PROVE Deeper(S) \in SUBSET Dirs
<1>1. \A d \in S : Range(Subdirs[d]) \subseteq Dirs
  <2> SUFFICES ASSUME NEW d \in S PROVE Range(Subdirs[d]) \subseteq Dirs
    OBVIOUS
  <2>1. Subdirs[d] \in Seq(Dirs)
    BY ModelAssumption
  <2> QED
    BY <2>1 DEF Range
<1> QED
  BY <1>1 DEF Deeper

LEMMA BeginningsExist == \A n \in Nat : \E f : Begins(f, n)
<1> DEFINE S == {n \in Nat : \E f : Begins(f, n)}
<1>1. 0 \in S
  <2> DEFINE f == [k \in 0..0 |-> {Root}]
  <2>1. f \in [0..0 -> SUBSET Dirs] /\ f[0] = {Root}
    BY ModelAssumption
  <2>2. Begins(f, 0)
    BY <2>1 DEF Begins
  <2> QED
    BY <2>2
<1>2. ASSUME NEW n \in Nat, n \in S PROVE n + 1 \in S
  <2>1. PICK f : Begins(f, n)
    BY <1>2
  <2> DEFINE g == [k \in 0..(n + 1) |-> IF k = n + 1 THEN Deeper(f[n]) ELSE f[k]]
  <2>2. f[n] \in SUBSET Dirs
    BY <2>1 DEF Begins
  <2>3. g \in [0..(n + 1) -> SUBSET Dirs]
    BY <2>1, <2>2, DeeperTyped DEF Begins
  <2>4. g[0] = {Root} /\ \A k \in 1..(n + 1) : g[k] = Deeper(g[k - 1])
    <3>1. g[0] = {Root}
      BY <2>1 DEF Begins
    <3>2. ASSUME NEW k \in 1..(n + 1) PROVE g[k] = Deeper(g[k - 1])
      <4>1. g[k - 1] = f[k - 1]
        OBVIOUS
      <4>2. CASE k = n + 1
        BY <4>1, <4>2
      <4>3. CASE k \in 1..n
        BY <2>1, <4>1, <4>3 DEF Begins
      <4> QED
        BY <4>2, <4>3
    <3> QED
      BY <3>1, <3>2
  <2>5. Begins(g, n + 1)
    BY <2>3, <2>4 DEF Begins
  <2> QED
    BY <2>5
<1> HIDE DEF S
<1>3. Nat \subseteq S
  BY <1>1, <1>2, InSteps
<1> QED
  BY <1>3 DEF S

LEMMA BeginningsAgree ==
    ASSUME NEW m \in Nat, NEW n \in Nat, NEW f, NEW g, Begins(f, m), Begins(g, n)
    PROVE  \A k \in Nat : k <= m /\ k <= n => f[k] = g[k]
<1> DEFINE S == {k \in Nat : k <= m /\ k <= n => f[k] = g[k]}
<1>1. 0 \in S
  BY DEF Begins
<1>2. ASSUME NEW k \in Nat, k \in S PROVE k + 1 \in S
  <2> SUFFICES ASSUME k + 1 <= m, k + 1 <= n PROVE f[k + 1] = g[k + 1]
    OBVIOUS
  <2>1. k + 1 \in 1..m /\ k + 1 \in 1..n /\ (k + 1) - 1 = k
    OBVIOUS
  <2>2. f[k + 1] = Deeper(f[k]) /\ g[k + 1] = Deeper(g[k])
    BY <2>1 DEF Begins
  <2>3. f[k] = g[k]
    BY <1>2
  <2> QED
    BY <2>2, <2>3
<1> HIDE DEF S
<1>3. Nat \subseteq S
  BY <1>1, <1>2, InSteps
<1> QED
  BY <1>3 DEF S

\* Reached is the function that its definition asks for.
LEMMA ReachedUnfolds ==
    Reached = [n \in Nat |-> IF n = 0 THEN {Root}
                             ELSE Reached[n - 1] \cup UNION {Range(Subdirs[d]) : d \in Reached[n - 1]}]
<1> DEFINE F == [n \in Nat |-> (CHOOSE f : Begins(f, n))[n]]
           G == [n \in Nat |-> IF n = 0 THEN {Root}
                               ELSE F[n - 1] \cup UNION {Range(Subdirs[d]) : d \in F[n - 1]}]
<1>1. ASSUME NEW n \in Nat PROVE F[n] = G[n]
  <2> DEFINE f == CHOOSE f : Begins(f, n)
  <2>1. Begins(f, n)
    BY BeginningsExist
  <2> HIDE DEF f
  <2>2. F[n] = f[n]
    BY DEF f
  <2>3. CASE n = 0
    BY <2>1, <2>2, <2>3 DEF Begins
  <2>4. CASE n # 0
    <3> DEFINE g == CHOOSE g : Begins(g, n - 1)
    <3>1. n - 1 \in Nat /\ n \in 1..n /\ n - 1 <= n
      BY <2>4
    <3>2. Begins(g, n - 1)
      BY <3>1, BeginningsExist
    <3> HIDE DEF g
    <3>3. F[n - 1] = g[n - 1]
      BY <3>1 DEF g
    <3>4. f[n - 1] = g[n - 1]
      BY <2>1, <3>1, <3>2, BeginningsAgree
    <3>5. f[n] = Deeper(f[n - 1])
      BY <2>1, <3>1 DEF Begins
    <3> HIDE DEF F
    <3>6. f[n] = F[n - 1] \cup UNION {Range(Subdirs[d]) : d \in F[n - 1]}
      BY <3>3, <3>4, <3>5 DEF Deeper
    <3> QED
      BY <2>2, <2>4, <3>6
  <2> QED
    BY <2>3, <2>4
<1>2. F = G
  <2>1. DOMAIN F = Nat /\ DOMAIN G = Nat /\ F = [n \in Nat |-> F[n]] /\ G = [n \in Nat |-> G[n]]
    OBVIOUS
  <2> HIDE DEF F, G
  <2>2. [n \in Nat |-> F[n]] = [n \in Nat |-> G[n]]
    BY <1>1
  <2> QED
    BY <2>1, <2>2
<1> HIDE DEF F
<1>3. \E h : h = [n \in Nat |-> IF n = 0 THEN {Root} ELSE h[n - 1] \cup UNION {Range(Subdirs[d]) : d \in h[n - 1]}]
  BY <1>2
<1> QED
  BY <1>3, Zenon DEF Reached

LEMMA ReachedStep ==
    ASSUME NEW n \in Nat
    PROVE  Reached[0] = {Root} /\ Reached[n + 1] = Deeper(Reached[n])
<1> DEFINE G == [k \in Nat |-> IF k = 0 THEN {Root}
                               ELSE Reached[k - 1] \cup UNION {Range(Subdirs[d]) : d \in Reached[k - 1]}]
<1>1. G[0] = {Root}
  OBVIOUS
<1>2. n + 1 \in Nat /\ n + 1 # 0 /\ (n + 1) - 1 = n
  OBVIOUS
<1>3. G[n + 1] = Reached[n] \cup UNION {Range(Subdirs[d]) : d \in Reached[n]}
  BY <1>2
<1>4. Reached = G
  BY ReachedUnfolds, Zenon
<1> HIDE DEF G
<1> QED
  BY <1>1, <1>3, <1>4 DEF Deeper

\* To what is reached in n steps there is a way of n steps.
LEMMA WayToReached ==
    ASSUME NEW n \in Nat, NEW d \in Reached[n]
    PROVE  \E p \in Ways(n) : End(p) = d
<1> DEFINE S == {k \in Nat : \A e \in Reached[k] : \E p \in Ways(k) : End(p) = e}
<1>1. 0 \in S
  <2> DEFINE p == [i \in 1..1 |-> Root]
  <2>1. p \in [1..1 -> Dirs] /\ p[1] = Root /\ Len(p) = 1
    BY ModelAssumption
  <2>2. p \in Ways(0)
    BY <2>1 DEF Ways
  <2> QED
    BY <2>1, <2>2, ReachedStep DEF End
<1>2. ASSUME NEW k \in Nat, k \in S PROVE k + 1 \in S
  <2> SUFFICES ASSUME NEW e \in Reached[k + 1] PROVE \E p \in Ways(k + 1) : End(p) = e
    OBVIOUS
  <2>1. e \in Deeper(Reached[k])
    BY ReachedStep
  <2>2. Ways(k) \subseteq Ways(k + 1)
    <3>1. 1..(k + 1) \subseteq 1..((k + 1) + 1)
      OBVIOUS
    <3> QED
      BY <3>1 DEF Ways
  <2>3. CASE e \in Reached[k]
    BY <1>2, <2>2, <2>3
  <2>4. ASSUME NEW c \in Reached[k], e \in Range(Subdirs[c]) PROVE \E p \in Ways(k + 1) : End(p) = e
    <3>1. PICK q \in Ways(k) : End(q) = c
      BY <1>2
    <3>2. PICK m \in 1..(k + 1) : q \in [1..m -> Dirs]
      BY DEF Ways
    <3>3. m \in Nat /\ m # 0 /\ q \in Seq(Dirs) /\ Len(q) = m
      BY <3>2
    <3>4. c \in Dirs /\ e \in Dirs
      <4>1. c \in Dirs
        BY <3>1, <3>2, <3>3 DEF End
      <4>2. Subdirs[c] \in Seq(Dirs)
        BY <4>1, ModelAssumption
      <4> QED
        BY <2>4, <4>1, <4>2 DEF Range
    <3> DEFINE p == [i \in 1..(m + 1) |-> IF i = m + 1 THEN e ELSE q[i]]
    <3>5. p \in [1..(m + 1) -> Dirs] /\ Len(p) = m + 1 /\ m + 1 \in 1..((k + 1) + 1)
      BY <3>2, <3>3, <3>4
    <3>6. p[1] = Root /\ p[m + 1] = e /\ \A i \in 1..m : p[i] = q[i]
      <4>1. q[1] = Root
        BY DEF Ways
      <4> QED
        BY <3>3, <4>1
    <3>7. ASSUME NEW i \in 1..m PROVE p[i + 1] \in Range(Subdirs[p[i]])
      <4>1. CASE i = m
        BY <2>4, <3>1, <3>3, <3>6, <4>1 DEF End
      <4>2. CASE i # m
        <5>1. i \in 1..(m - 1) /\ i + 1 \in 1..m
          BY <3>3, <4>2
        <5>2. q[i + 1] \in Range(Subdirs[q[i]])
          BY <3>3, <5>1 DEF Ways
        <5> QED
          BY <3>6, <5>1, <5>2
      <4> QED
        BY <4>1, <4>2
    <3> HIDE DEF p
    <3>8. p \in Ways(k + 1)
      <4>1. p \in UNION {[1..j -> Dirs] : j \in 1..((k + 1) + 1)}
        BY <3>5
      <4>2. Len(p) - 1 = m
        BY <3>3, <3>5
      <4> QED
        BY <3>6, <3>7, <4>1, <4>2 DEF Ways
    <3> QED
      BY <3>5, <3>6, <3>8 DEF End
  <2> QED
    BY <2>1, <2>3, <2>4 DEF Deeper
<1> HIDE DEF S
<1>3. Nat \subseteq S
  BY <1>1, <1>2, InSteps
<1> QED
  BY <1>3 DEF S

LEMMA DirsFinite == IsFiniteSet(Dirs)
<1> DEFINE n == Len(PathOrder)
<1>1. PathOrder \in Seq(Dirs) /\ Range(PathOrder) = Dirs
  BY ModelAssumption
<1>2. n \in Nat /\ PathOrder \in [1..n -> Dirs] /\ DOMAIN PathOrder = 1..n
  BY <1>1, LenProperties
<1>3. PathOrder \in Surjection(1..n, Dirs)
  BY <1>1, <1>2 DEF Surjection, Range
<1> QED
  BY <1>2, <1>3, FS_Surjection, FS_Interval

\* Where the directories of a path stand is a strict order.
LEMMA PathsAreOrdered ==
    ASSUME NEW d, NEW e, d \in Before(e)
    PROVE  d # e /\ e \notin Before(d)
<1>1. PathOrder \in Seq(Dirs) /\ IsInjective(PathOrder)
  BY ModelAssumption
<1>2. \A i, j \in 1..Len(PathOrder) : PathOrder[i] = PathOrder[j] => i = j
  BY <1>1, LenProperties DEF IsInjective
<1>3. Len(PathOrder) \in Nat
  BY <1>1, LenProperties
<1> QED
  BY <1>2, <1>3 DEF Before

\* The candidates that are offered are all there are, in order.
LEMMA AllOffered ==
    ASSUME claimed \subseteq Dirs, OfferCandidates
    PROVE  offers' \in Seq(claimed) /\ Range(offers') = claimed /\ InOrder'
<1> DEFINE n == Cardinality(claimed)
           q == offers'
<1>1. IsFiniteSet(claimed) /\ n \in Nat
  BY DirsFinite, FS_Subset, FS_CardinalityType
<1>2. /\ q \in [1..n -> claimed] /\ \A i, j \in 1..n : i # j => q[i] # q[j]
      /\ \A i, j \in 1..Len(q) : i < j => q[i] \in Before(q[j])
      /\ claimed' = claimed
  BY DEF OfferCandidates, SetToSeqs
<1>3. q \in Injection(1..n, claimed)
  BY <1>2 DEF Injection, IsInjective
<1>4. Cardinality(1..n) = n
  BY <1>1, FS_Interval
<1>5. q \in Surjection(1..n, claimed)
  BY <1>1, <1>3, <1>4, FS_Injection
<1>6. q \in Seq(claimed) /\ Len(q) = n /\ DOMAIN q = 1..n
  BY <1>1, <1>2
<1>7. Range(q) = claimed
  BY <1>5, <1>6 DEF Surjection, Range
<1>8. \A d : Before(d)' = Before(d)
  BY <1>2 DEF Before
<1> QED
  BY <1>2, <1>6, <1>7, <1>8 DEF InOrder
---------------------------------------------------------------------------
LEMMA SearchStarts == ModelInit => SearchInv
<1> SUFFICES ASSUME ModelInit PROVE SearchInv
  OBVIOUS
<1> USE DEF ModelInit
<1>1. facts \in [Dirs -> [config : Configs, sound : BOOLEAN \cup {Unknown}]]
      /\ \A d \in Dirs : facts[d].config = Unknown
  BY DEF Untouched, Configs
<1>2. ModelTyped
  BY <1>1 DEF ModelTyped
<1>3. claimed = {d \in Dirs : facts[d].config = "good"}
  BY <1>1, ModelAssumption
<1>4. AllLooked /\ RightModel
  BY DEF AllLooked, Discovered, RightModel
<1> QED
  BY <1>1, <1>2, <1>3, <1>4 DEF SearchInv, Looked

LEMMA SearchStutters == SearchInv /\ UNCHANGED modelVars => SearchInv'
  BY DEF SearchInv, ModelTyped, OnceEach, Covered, AllLooked, InOrder, RightModel, Discovered, Looked, Before, modelVars

\* The calls of resolve.
LEMMA CallKeeps ==
    ASSUME SearchInv,
           \/ ResolveDiscover \/ ResolvePlainly
           \/ \E verdict \in Verdicts("explicit-path") : ResolveExplicit(verdict)
    PROVE  SearchInv'
<1>1. /\ rpc = "idle" /\ claimed = {} /\ \A d \in Dirs : ~Looked(d)
      /\ ModelTyped /\ claimed = {d \in Dirs : facts[d].config = "good"} /\ entries = 0
      /\ offers = <<>>
  BY DEF SearchInv, ResolveDiscover, ResolvePlainly, ResolveExplicit
<1>2. CASE ResolveDiscover
  <2>1. trail' = << <<Root, 0>> >> /\ rpc' = "discover" /\ asked' = "mounts"
        /\ UNCHANGED <<entries, facts, claimed, spoiled, offers, resolved>>
    BY <1>2 DEF ResolveDiscover
  <2>2. trail' \in Seq(Dirs \X (0..MaxDepth)) /\ Len(trail') = 1 /\ trail'[1] = <<Root, 0>>
    BY <2>1, ModelAssumption
  <2>3. ModelTyped'
    BY <1>1, <2>1, <2>2 DEF ModelTyped
  <2>4. OnceEach'
    BY <1>1, <2>1, <2>2 DEF OnceEach, Looked
  <2>5. Covered'
    <3> SUFFICES ASSUME NEW p \in Paths
                 PROVE  \E i \in 1..Len(trail'), j \in 1..Len(p) :
                            trail'[i][1] = p[j] /\ Len(p) - j <= MaxDepth - trail'[i][2]
      BY DEF Covered
    <3>1. PICK m \in 1..(MaxDepth + 1) : p \in [1..m -> Dirs]
      BY DEF Paths, Ways
    <3>2. Len(p) = m /\ m - 1 <= MaxDepth - 0 /\ 1 \in 1..m /\ p[1] = Root
      BY <3>1, ModelAssumption DEF Paths, Ways
    <3> QED
      BY <2>2, <3>2
  <2>6. AllLooked' /\ RightModel'
    BY <2>1 DEF AllLooked, Discovered, RightModel
  <2> QED
    BY <1>1, <2>1, <2>3, <2>4, <2>5, <2>6 DEF SearchInv
<1>3. CASE ResolvePlainly
  <2>1. rpc' = "cache" /\ asked' = "none"
        /\ UNCHANGED <<trail, entries, facts, claimed, spoiled, offers, resolved>>
    BY <1>3 DEF ResolvePlainly
  <2>2. ModelTyped'
    BY <1>1, <2>1 DEF ModelTyped
  <2>3. AllLooked' /\ RightModel'
    BY <2>1 DEF AllLooked, RightModel
  <2> QED
    BY <1>1, <2>1, <2>2, <2>3 DEF SearchInv
<1>4. ASSUME NEW verdict \in Verdicts("explicit-path"), ResolveExplicit(verdict) PROVE SearchInv'
  <2>1. /\ rpc' = "resolved" /\ asked' = "path"
        /\ resolved'.how = IF verdict = "none" THEN "explicit-path" ELSE verdict
        /\ UNCHANGED <<trail, entries, facts, claimed, spoiled, offers>>
    BY <1>4 DEF ResolveExplicit, Resolved, Outcome
  <2>2. verdict = "none" \/ verdict \in PathErrors
    BY DEF Verdicts
  <2>3. ModelTyped'
    BY <1>1, <2>1 DEF ModelTyped
  <2>4. RightModel'
    BY <2>1, <2>2 DEF RightModel, PathErrors, DirectoryErrors, ConfigErrors, FileErrors, WeightErrors,
         TokenizerErrors, InventoryErrors, NothingFound
  <2>5. AllLooked'
    BY <2>1 DEF AllLooked
  <2> QED
    BY <1>1, <2>1, <2>3, <2>4, <2>5 DEF SearchInv
<1> QED
  BY <1>2, <1>3, <1>4

LEMMA TakenKeeps == ASSUME SearchInv, ResolveTaken PROVE SearchInv'
<1>1. facts' \in [Dirs -> [config : Configs, sound : BOOLEAN \cup {Unknown}]]
      /\ \A d \in Dirs : facts'[d].config = Unknown
  BY DEF ResolveTaken, Untouched, Configs
<1>2. ModelTyped'
  BY <1>1 DEF ResolveTaken, ModelTyped
<1>3. claimed' = {d \in Dirs : facts'[d].config = "good"}
  BY <1>1, ModelAssumption DEF ResolveTaken
<1>4. AllLooked' /\ RightModel'
  BY DEF ResolveTaken, AllLooked, Discovered, RightModel
<1> QED
  BY <1>1, <1>2, <1>3, <1>4 DEF ResolveTaken, SearchInv, Looked

\* The directories still to be visited, after one was.
LEMMA TrailAfter ==
    ASSUME ModelTyped, trail # <<>>, NEW files \in Nat, Listed(files), entries' <= MaxEntries
    PROVE  /\ Here \in Dirs /\ Depth \in 0..MaxDepth /\ Len(trail) \in Nat \ {0}
           /\ trail[1] = <<Here, Depth>> /\ Subdirs[Here] \in Seq(Dirs) /\ Len(Subdirs[Here]) \in Nat
           /\ rpc' = rpc /\ entries' \in Nat \ {0} /\ resolved' = resolved
           /\ trail' \in Seq(Dirs \X (0..MaxDepth))
           /\ LET n == IF Depth < MaxDepth THEN Len(Subdirs[Here]) ELSE 0
              IN  /\ Len(trail') = n + (Len(trail) - 1)
                  /\ \A i \in 1..n : i \in 1..Len(trail') /\ trail'[i] = <<Subdirs[Here][i], Depth + 1>>
                  /\ \A i \in 2..Len(trail) : n + (i - 1) \in 1..Len(trail') /\ trail'[n + (i - 1)] = trail[i]
                  /\ \A i \in 1..Len(trail') : i \in 1..n \/ (i - n) + 1 \in 2..Len(trail)
<1> DEFINE T == Dirs \X (0..MaxDepth)
           n == IF Depth < MaxDepth THEN Len(Subdirs[Here]) ELSE 0
           new == IF Depth < MaxDepth THEN Below ELSE <<>>
<1>1. trail \in Seq(T) /\ MaxDepth \in Nat /\ MaxEntries \in Nat /\ entries \in Nat
  BY ModelAssumption DEF ModelTyped
<1>2. /\ Len(trail) \in Nat \ {0} /\ trail[1] \in T /\ Head(trail) = trail[1]
      /\ Tail(trail) \in Seq(T) /\ Len(Tail(trail)) = Len(trail) - 1
      /\ \A i \in 1..Len(Tail(trail)) : Tail(trail)[i] = trail[i + 1]
  <2>1. Len(trail) \in Nat \ {0}
    BY <1>1, EmptySeq
  <2>2. 1 \in 1..Len(trail)
    BY <2>1
  <2>3. trail[1] \in T
    BY <1>1, <2>2, ElementOfSeq
  <2>4. Tail(trail) \in Seq(T) /\ Len(Tail(trail)) = Len(trail) - 1
        /\ \A i \in 1..Len(Tail(trail)) : Tail(trail)[i] = trail[i + 1]
    BY <1>1, HeadTailProperties
  <2>5. Head(trail) = trail[1]
    BY <1>1
  <2> QED
    BY <2>1, <2>3, <2>4, <2>5
<1>3. Here \in Dirs /\ Depth \in 0..MaxDepth /\ trail[1] = <<Here, Depth>>
  BY <1>2 DEF Here, Depth
<1>4. Subdirs[Here] \in Seq(Dirs) /\ Len(Subdirs[Here]) \in Nat
  BY <1>3, ModelAssumption, LenProperties
<1>5. new \in Seq(T) /\ Len(new) = n /\ \A i \in 1..n : new[i] = <<Subdirs[Here][i], Depth + 1>>
  <2>1. CASE Depth < MaxDepth
    <3>1. Depth + 1 \in 0..MaxDepth
      BY <1>1, <1>3, <2>1
    <3>2. \A i \in 1..Len(Subdirs[Here]) : <<Subdirs[Here][i], Depth + 1>> \in T
      BY <1>4, <3>1, ElementOfSeq
    <3>3. Below \in [1..Len(Subdirs[Here]) -> T]
      BY <3>2 DEF Below
    <3>4. Below \in Seq(T) /\ Len(Below) = Len(Subdirs[Here])
      BY <1>4, <3>3
    <3> QED
      BY <2>1, <3>4 DEF Below
  <2>2. CASE ~(Depth < MaxDepth)
    BY <2>2
  <2> QED
    BY <2>1, <2>2
<1>6. trail' = new \o Tail(trail) /\ rpc' = rpc /\ resolved' = resolved
  <2>1. ~(entries' > MaxEntries)
    <3>1. entries' \in Nat
      BY <1>1, <1>4 DEF Listed, Below
    <3> QED
      BY <1>1, <3>1
  <2> QED
    BY <2>1 DEF Listed
<1>7. entries' \in Nat \ {0}
  BY <1>1, <1>4, <1>5 DEF Listed, Below
<1>9. n \in Nat
  BY <1>4
<1> HIDE DEF new, n, T
<1>8. /\ trail' \in Seq(T) /\ Len(trail') = n + (Len(trail) - 1)
      /\ \A i \in 1..Len(trail') : trail'[i] = IF i <= n THEN new[i] ELSE Tail(trail)[i - n]
  <2>1. /\ new \o Tail(trail) \in Seq(T) /\ Len(new \o Tail(trail)) = Len(new) + Len(Tail(trail))
        /\ \A i \in 1..Len(new) + Len(Tail(trail)) :
              (new \o Tail(trail))[i] = IF i <= Len(new) THEN new[i] ELSE Tail(trail)[i - Len(new)]
    BY <1>2, <1>5, ConcatProperties
  <2>2. Len(new) = n /\ Len(Tail(trail)) = Len(trail) - 1 /\ trail' = new \o Tail(trail)
    BY <1>2, <1>5, <1>6
  <2> QED
    BY <2>1, <2>2
<1>10. \A i \in 1..n : i \in 1..Len(trail') /\ trail'[i] = <<Subdirs[Here][i], Depth + 1>>
  BY <1>2, <1>5, <1>8, <1>9
<1>11. ASSUME NEW i \in 2..Len(trail) PROVE n + (i - 1) \in 1..Len(trail') /\ trail'[n + (i - 1)] = trail[i]
  <2>1. n + (i - 1) \in 1..Len(trail') /\ ~(n + (i - 1) <= n) /\ (n + (i - 1)) - n = i - 1
    BY <1>2, <1>8, <1>9
  <2>2. i - 1 \in 1..Len(Tail(trail)) /\ (i - 1) + 1 = i
    BY <1>2
  <2> QED
    BY <1>2, <1>8, <2>1, <2>2
<1>12. \A i \in 1..Len(trail') : i \in 1..n \/ (i - n) + 1 \in 2..Len(trail)
  BY <1>2, <1>8, <1>9
<1> QED
  BY <1>2, <1>3, <1>4, <1>6, <1>7, <1>8, <1>10, <1>11, <1>12 DEF n, T

\* A directory is listed in one place only, so it is not visited a second time.
LEMMA VisitOnce ==
    ASSUME SearchInv, rpc = "discover", trail # <<>>, NEW files \in Nat, Listed(files), entries' <= MaxEntries,
           NEW config \in Configs \ {Unknown}, facts' = [facts EXCEPT ![Here].config = config]
    PROVE  OnceEach'
<1> DEFINE n == IF Depth < MaxDepth THEN Len(Subdirs[Here]) ELSE 0
<1>1. OnceEach /\ ModelTyped
  BY DEF SearchInv
<1>2. /\ Here \in Dirs /\ Depth \in 0..MaxDepth /\ Len(trail) \in Nat \ {0}
      /\ trail[1] = <<Here, Depth>> /\ Subdirs[Here] \in Seq(Dirs) /\ Len(Subdirs[Here]) \in Nat
      /\ Len(trail') = n + (Len(trail) - 1)
      /\ \A i \in 1..n : i \in 1..Len(trail') /\ trail'[i] = <<Subdirs[Here][i], Depth + 1>>
      /\ \A i \in 2..Len(trail) : n + (i - 1) \in 1..Len(trail') /\ trail'[n + (i - 1)] = trail[i]
      /\ \A i \in 1..Len(trail') : i \in 1..n \/ (i - n) + 1 \in 2..Len(trail)
  BY <1>1, TrailAfter
<1> HIDE DEF n
<1>3. n \in Nat /\ n <= Len(Subdirs[Here]) /\ 1 \in 1..Len(trail) /\ trail[1][1] = Here
  BY <1>2 DEF n
<1>4. \A d \in Dirs : facts'[d].config # Unknown <=> (Looked(d) \/ d = Here)
  BY <1>1, <1>2 DEF ModelTyped, Looked
<1>5. ~Looked(Here)
  BY <1>1, <1>3 DEF OnceEach
<1>6. \A i \in 1..n : Subdirs[Here][i] \in Dirs /\ Subdirs[Here][i] \in Range(Subdirs[Here])
  <2> SUFFICES ASSUME NEW i \in 1..n
               PROVE  Subdirs[Here][i] \in Dirs /\ Subdirs[Here][i] \in Range(Subdirs[Here])
    OBVIOUS
  <2>1. i \in 1..Len(Subdirs[Here]) /\ DOMAIN Subdirs[Here] = 1..Len(Subdirs[Here])
    BY <1>2, <1>3
  <2> QED
    BY <1>2, <2>1, ElementOfSeq DEF Range
\* What is listed here has been looked at nowhere, for it is listed here only.
<1>7. ASSUME NEW i \in 1..n
      PROVE  ~Looked(Subdirs[Here][i]) /\ \A k \in 1..Len(trail) : trail[k][1] # Subdirs[Here][i]
  <2> DEFINE c == Subdirs[Here][i]
  <2>1. c \in Dirs \ {Root} /\ c \in Range(Subdirs[Here])
    BY <1>2, <1>6, TreeAssumption
  <2>2. \A e \in Dirs : c \in Range(Subdirs[e]) => e = Here
    BY <1>2, <2>1, TreeAssumption
  <2> QED
    BY <1>1, <1>5, <2>1, <2>2 DEF OnceEach
<1>8. \A i, k \in 1..n : Subdirs[Here][i] = Subdirs[Here][k] => i = k
  <2>1. DOMAIN Subdirs[Here] = 1..Len(Subdirs[Here]) /\ 1..n \subseteq 1..Len(Subdirs[Here])
    BY <1>2, <1>3
  <2> QED
    BY <1>2, <2>1, TreeAssumption DEF IsInjective
<1>9. \A i \in 2..Len(trail) : i \in 1..Len(trail) /\ trail[i][1] # Here
  <2>1. \A i \in 2..Len(trail) : i \in 1..Len(trail) /\ i # 1
    BY <1>2
  <2> QED
    BY <1>1, <1>3, <2>1 DEF OnceEach
<1>10. \A i \in 1..Len(trail') :
         \/ i \in 1..n /\ trail'[i][1] = Subdirs[Here][i]
         \/ \E k \in 2..Len(trail) : i = n + (k - 1) /\ trail'[i] = trail[k]
  <2> SUFFICES ASSUME NEW i \in 1..Len(trail'), i \notin 1..n
               PROVE  \E k \in 2..Len(trail) : i = n + (k - 1) /\ trail'[i] = trail[k]
    BY <1>2
  <2>1. (i - n) + 1 \in 2..Len(trail) /\ i = n + (((i - n) + 1) - 1)
    BY <1>2, <1>3
  <2>2. trail'[n + (((i - n) + 1) - 1)] = trail[(i - n) + 1]
    BY <1>2, <2>1
  <2> QED
    BY <2>1, <2>2
<1>11. ASSUME NEW i \in 1..Len(trail'), NEW k \in 1..Len(trail'), trail'[i][1] = trail'[k][1] PROVE i = k
  <2>1. CASE i \in 1..n /\ k \in 1..n
    <3>1. trail'[i][1] = Subdirs[Here][i] /\ trail'[k][1] = Subdirs[Here][k]
      BY <1>2, <2>1
    <3> QED
      BY <1>8, <1>11, <2>1, <3>1
  <2>2. ASSUME NEW l \in 2..Len(trail), i = n + (l - 1), trail'[i] = trail[l] PROVE i = k
    <3>1. CASE k \in 1..n
      <4>1. trail'[k][1] = Subdirs[Here][k] /\ l \in 1..Len(trail)
        BY <1>2, <1>9, <3>1
      <4> QED
        BY <1>7, <1>11, <2>2, <3>1, <4>1
    <3>2. ASSUME NEW m \in 2..Len(trail), k = n + (m - 1), trail'[k] = trail[m] PROVE i = k
      <4>1. l = m
        BY <1>1, <1>9, <1>11, <2>2, <3>2 DEF OnceEach
      <4> QED
        BY <2>2, <3>2, <4>1
    <3> QED
      BY <1>10, <3>1, <3>2
  <2>3. ASSUME i \in 1..n, NEW m \in 2..Len(trail), trail'[k] = trail[m] PROVE i = k
    <3>1. trail'[i][1] = Subdirs[Here][i] /\ m \in 1..Len(trail)
      BY <1>2, <1>9, <2>3
    <3> QED
      BY <1>7, <1>11, <2>3, <3>1
  <2> QED
    BY <1>10, <2>1, <2>2, <2>3
<1>12. ASSUME NEW i \in 1..Len(trail') PROVE facts'[trail'[i][1]].config = Unknown
  <2>1. CASE i \in 1..n
    <3>1. trail'[i][1] = Subdirs[Here][i] /\ Subdirs[Here][i] \in Dirs
      BY <1>2, <1>6, <2>1
    <3>2. Subdirs[Here][i] # Here /\ ~Looked(Subdirs[Here][i])
      BY <1>3, <1>7, <2>1
    <3> QED
      BY <1>4, <3>1, <3>2
  <2>2. ASSUME NEW k \in 2..Len(trail), trail'[i] = trail[k] PROVE facts'[trail'[i][1]].config = Unknown
    <3>1. trail[k] \in Dirs \X (0..MaxDepth)
      BY <1>1, <1>9, ElementOfSeq DEF ModelTyped
    <3>2. trail[k][1] \in Dirs /\ trail[k][1] # Here /\ ~Looked(trail[k][1])
      BY <1>1, <1>9, <3>1 DEF OnceEach
    <3> QED
      BY <1>4, <2>2, <3>2
  <2> QED
    BY <1>10, <2>1, <2>2
<1>13. ASSUME NEW d \in Dirs \ {Root}, Looked(d)' \/ \E i \in 1..Len(trail') : trail'[i][1] = d
       PROVE  \E e \in Dirs : Looked(e)' /\ d \in Range(Subdirs[e])
  <2>1. CASE Looked(d) \/ \E i \in 1..Len(trail) : trail[i][1] = d
    BY <1>1, <1>4, <2>1 DEF OnceEach, Looked
  <2>2. CASE \E i \in 1..n : d = Subdirs[Here][i]
    BY <1>2, <1>4, <1>6, <2>2 DEF Looked
  <2>3. Looked(d)' => Looked(d) \/ \E i \in 1..Len(trail) : trail[i][1] = d
    BY <1>3, <1>4 DEF Looked
  <2>4. ASSUME NEW i \in 1..Len(trail'), trail'[i][1] = d
        PROVE  (\E k \in 1..Len(trail) : trail[k][1] = d) \/ \E k \in 1..n : d = Subdirs[Here][k]
    BY <1>9, <1>10, <2>4
  <2> QED
    BY <1>13, <2>1, <2>2, <2>3, <2>4
<1> QED
  BY <1>11, <1>12, <1>13 DEF OnceEach, Looked

\* A way that is still to be gone down from here is still to be gone down from
\* what is listed here.
LEMMA VisitCovers ==
    ASSUME SearchInv, rpc = "discover", trail # <<>>, NEW files \in Nat, Listed(files), entries' <= MaxEntries,
           NEW config \in Configs \ {Unknown}, facts' = [facts EXCEPT ![Here].config = config]
    PROVE  Covered'
<1> DEFINE n == IF Depth < MaxDepth THEN Len(Subdirs[Here]) ELSE 0
<1>1. Covered /\ ModelTyped
  BY DEF SearchInv
<1>2. /\ Here \in Dirs /\ Depth \in 0..MaxDepth /\ Len(trail) \in Nat \ {0}
      /\ trail[1] = <<Here, Depth>> /\ Subdirs[Here] \in Seq(Dirs) /\ Len(Subdirs[Here]) \in Nat
      /\ \A i \in 1..n : i \in 1..Len(trail') /\ trail'[i] = <<Subdirs[Here][i], Depth + 1>>
      /\ \A i \in 2..Len(trail) : n + (i - 1) \in 1..Len(trail') /\ trail'[n + (i - 1)] = trail[i]
  BY <1>1, TrailAfter
<1>3. MaxDepth \in Nat /\ (Depth < MaxDepth => n = Len(Subdirs[Here]))
  BY ModelAssumption
<1> HIDE DEF n
<1>4. \A d \in Dirs : facts'[d].config # Unknown <=> (Looked(d) \/ d = Here)
  BY <1>1, <1>2 DEF ModelTyped, Looked
<1> DEFINE ToCome(p) == \E i \in 1..Len(trail'), j \in 1..Len(p) :
                            trail'[i][1] = p[j] /\ Len(p) - j <= MaxDepth - trail'[i][2]
<1>5. ASSUME NEW p \in Paths PROVE facts'[End(p)].config # Unknown \/ ToCome(p)
  <2>1. PICK m \in 1..(MaxDepth + 1) : p \in [1..m -> Dirs]
    BY DEF Paths, Ways
  <2>2. m \in Nat /\ m # 0 /\ Len(p) = m /\ \A i \in 1..m : p[i] \in Dirs
    BY <1>3, <2>1
  <2>3. End(p) \in Dirs /\ End(p) = p[m]
    BY <2>2 DEF End
  <2>4. CASE Looked(End(p))
    BY <1>4, <2>3, <2>4
  <2>5. ASSUME NEW i \in 1..Len(trail), NEW j \in 1..Len(p), trail[i][1] = p[j], Len(p) - j <= MaxDepth - trail[i][2]
        PROVE  facts'[End(p)].config # Unknown \/ ToCome(p)
    <3>1. CASE i # 1
      <4>1. i \in 2..Len(trail)
        BY <1>2, <3>1
      <4>2. n + (i - 1) \in 1..Len(trail') /\ trail'[n + (i - 1)] = trail[i]
        BY <1>2, <4>1
      <4> QED
        BY <2>5, <4>2
    <3>2. CASE i = 1 /\ j = m
      BY <1>2, <1>4, <2>3, <2>5, <3>2
    <3>3. CASE i = 1 /\ j # m
      <4>1. p[j] = Here /\ m - j <= MaxDepth - Depth /\ j \in 1..(m - 1)
        BY <1>2, <2>2, <2>5, <3>3
      <4>2. p[j + 1] \in Range(Subdirs[Here])
        BY <2>2, <4>1 DEF Paths, Ways
      <4>3. PICK k \in 1..Len(Subdirs[Here]) : Subdirs[Here][k] = p[j + 1]
        BY <1>2, <4>2, LenProperties DEF Range
      <4>4. Depth < MaxDepth
        BY <1>2, <1>3, <2>2, <4>1
      <4>5. k \in 1..n
        BY <1>3, <4>4
      <4>6. k \in 1..Len(trail') /\ trail'[k] = <<p[j + 1], Depth + 1>>
        BY <1>2, <4>3, <4>5
      <4>7. j + 1 \in 1..Len(p) /\ Len(p) - (j + 1) <= MaxDepth - (Depth + 1)
        <5>1. MaxDepth \in Nat /\ Depth \in Nat /\ m \in Nat /\ j \in Nat /\ j + 1 \in 1..m
          <6>1. MaxDepth \in Nat /\ m \in Nat
            BY <1>3, <2>2
          <6>2. Depth \in Nat
            BY <1>2, <1>3
          <6> QED
            BY <4>1, <6>1, <6>2
        <5>2. m - (j + 1) <= MaxDepth - (Depth + 1)
          BY <4>1, <5>1
        <5> QED
          BY <2>2, <5>1, <5>2
      <4> QED
        BY <4>6, <4>7
    <3> QED
      BY <3>1, <3>2, <3>3
  <2> QED
    BY <1>1, <2>4, <2>5 DEF Covered
<1> QED
  BY <1>5 DEF Covered, Looked

LEMMA VisitKeeps ==
    ASSUME SearchInv, NEW config \in {"none", "good", "spoiled"}, NEW files \in {0, ManyFiles}, Visit(config, files)
    PROVE  SearchInv'
<1>1. /\ rpc = "discover" /\ trail # <<>> /\ asked' = "mounts" /\ offers' = offers /\ Listed(files)
      /\ facts' = [facts EXCEPT ![Here].config = config]
      /\ claimed' = IF config = "good" THEN claimed \cup {Here} ELSE claimed
  BY DEF Visit, SearchInv
<1>2. /\ ModelTyped /\ OnceEach /\ claimed = {d \in Dirs : facts[d].config = "good"}
      /\ config \in Configs \ {Unknown} /\ files \in Nat
  BY <1>1, ModelAssumption DEF SearchInv, Configs
<1>3. Here \in Dirs /\ ~Looked(Here)
  <2>1. trail \in Seq(Dirs \X (0..MaxDepth)) /\ Len(trail) \in Nat \ {0}
    BY <1>1, <1>2, EmptySeq DEF ModelTyped
  <2>2. 1 \in 1..Len(trail) /\ Head(trail) = trail[1]
    BY <2>1
  <2>3. trail[1] \in Dirs \X (0..MaxDepth)
    BY <2>1, <2>2, ElementOfSeq
  <2> QED
    BY <1>2, <2>2, <2>3 DEF OnceEach, Here
<1>4. facts' \in [Dirs -> [config : Configs, sound : BOOLEAN \cup {Unknown}]]
      /\ \A d \in Dirs : facts'[d].config = IF d = Here THEN config ELSE facts[d].config
  BY <1>1, <1>2, <1>3 DEF ModelTyped
<1>5. claimed' = {d \in Dirs : facts'[d].config = "good"}
  <2>1. Unknown # "good"
    BY ModelAssumption
  <2> QED
    BY <1>1, <1>2, <1>3, <1>4, <2>1 DEF Looked
<1>6. offers' \in Seq(claimed')
  <2>1. claimed \subseteq claimed' /\ offers \in Seq(claimed)
    BY <1>1, <1>2 DEF ModelTyped
  <2> QED
    BY <1>1, <2>1
<1>7. CASE entries' > MaxEntries
  <2>1. trail' = trail /\ rpc' = "resolved" /\ resolved'.how = "kaggle_discovery_error"
    BY <1>1, <1>7 DEF Listed, DiscoveryFails, Resolved, Outcome
  <2>2. entries' \in Nat
    <3>1. Len(Below) \in Nat /\ entries \in Nat
      <4>1. Subdirs[Here] \in Seq(Dirs) /\ Len(Subdirs[Here]) \in Nat
        BY <1>3, ModelAssumption, LenProperties
      <4> QED
        BY <1>2, <4>1 DEF Below, ModelTyped
    <3> QED
      BY <1>1, <1>2, <3>1 DEF Listed
  <2>3. ModelTyped'
    BY <1>2, <1>4, <1>6, <2>1, <2>2 DEF ModelTyped
  <2>4. AllLooked' /\ RightModel'
    BY <1>1, <2>1 DEF AllLooked, RightModel, Discovered, Sources, PathErrors, DirectoryErrors, ConfigErrors, FileErrors,
         WeightErrors, TokenizerErrors, InventoryErrors, NothingFound
  <2> QED
    BY <1>5, <2>1, <2>3, <2>4 DEF SearchInv
<1>8. CASE ~(entries' > MaxEntries)
  <2>1. trail' \in Seq(Dirs \X (0..MaxDepth)) /\ rpc' = rpc /\ entries' \in Nat /\ entries' <= MaxEntries
    <3>1. entries' \in Nat /\ MaxEntries \in Nat
      <4>1. Subdirs[Here] \in Seq(Dirs) /\ Len(Subdirs[Here]) \in Nat
        BY <1>3, ModelAssumption, LenProperties
      <4>2. Len(Below) \in Nat /\ entries \in Nat
        BY <1>2, <4>1 DEF Below, ModelTyped
      <4> QED
        BY <1>1, <1>2, <4>2, ModelAssumption DEF Listed
    <3>2. entries' <= MaxEntries
      BY <1>8, <3>1
    <3> QED
      BY <1>1, <1>2, <3>1, <3>2, TrailAfter
  <2>2. OnceEach' /\ Covered'
    BY <1>1, <1>2, <2>1, VisitOnce, VisitCovers
  <2>3. ModelTyped'
    BY <1>1, <1>4, <1>6, <2>1 DEF ModelTyped
  <2>4. AllLooked' /\ RightModel'
    BY <1>1, <2>1 DEF AllLooked, RightModel, Discovered
  <2> QED
    BY <1>1, <1>5, <2>1, <2>2, <2>3, <2>4 DEF SearchInv
<1> QED
  BY <1>7, <1>8

\* The root does not exist: nothing was there to be left out.
LEMMA NothingKeeps == ASSUME SearchInv, DiscoverNothing PROVE SearchInv'
<1>1. /\ rpc = "discover" /\ asked = "mounts" /\ entries = 0 /\ trail' = <<>> /\ rpc' = "offer"
      /\ UNCHANGED <<asked, entries, facts, claimed, spoiled, offers, resolved>>
  BY DEF SearchInv, DiscoverNothing
<1>2. ModelTyped /\ claimed = {d \in Dirs : facts[d].config = "good"}
  BY DEF SearchInv
<1>3. ModelTyped'
  BY <1>1, <1>2, EmptySeq DEF ModelTyped
<1>4. AllLooked' /\ RightModel'
  BY <1>1 DEF AllLooked, RightModel
<1> QED
  BY <1>1, <1>2, <1>3, <1>4 DEF SearchInv

LEMMA AbortKeeps ==
    ASSUME SearchInv, rpc = "discover", DiscoveryFails,
           UNCHANGED <<asked, trail, entries, facts, claimed, spoiled, offers>>
    PROVE  SearchInv'
<1>1. rpc' = "resolved" /\ resolved'.how = "kaggle_discovery_error" /\ asked' = "mounts"
  BY DEF SearchInv, DiscoveryFails, Resolved, Outcome
<1>2. ModelTyped /\ claimed = {d \in Dirs : facts[d].config = "good"}
  BY DEF SearchInv
<1>3. ModelTyped'
  BY <1>1, <1>2 DEF ModelTyped
<1>4. AllLooked' /\ RightModel'
  BY <1>1 DEF AllLooked, RightModel, Discovered, Sources, PathErrors, DirectoryErrors, ConfigErrors, FileErrors,
     WeightErrors, TokenizerErrors, InventoryErrors, NothingFound
<1> QED
  BY <1>1, <1>2, <1>3, <1>4 DEF SearchInv

\* Nothing is left to be visited, so that every way has been gone down.
LEMMA DoneKeeps == ASSUME SearchInv, DiscoverDone PROVE SearchInv'
<1>1. /\ rpc = "discover" /\ trail = <<>> /\ asked = "mounts"
      /\ UNCHANGED <<asked, trail, entries, facts, claimed, spoiled, offers>>
  BY DEF SearchInv, DiscoverDone
<1>2. CASE claimed = {} /\ spoiled
  BY <1>1, <1>2, AbortKeeps DEF DiscoverDone
<1>3. CASE ~(claimed = {} /\ spoiled)
  <2>1. rpc' = "offer" /\ resolved' = resolved
    BY <1>3 DEF DiscoverDone
  <2>2. ModelTyped /\ Covered /\ claimed = {d \in Dirs : facts[d].config = "good"}
    BY <1>1 DEF SearchInv
  <2>3. ModelTyped'
    BY <1>1, <2>1, <2>2 DEF ModelTyped
  <2>4. 1..Len(trail) = {}
    BY <1>1, EmptySeq
  <2>5. AllLooked' /\ RightModel'
    BY <1>1, <2>1, <2>2, <2>4 DEF AllLooked, RightModel, Covered, Looked
  <2> QED
    BY <1>1, <2>1, <2>2, <2>3, <2>5 DEF SearchInv
<1> QED
  BY <1>2, <1>3

LEMMA OfferKeeps == ASSUME SearchInv, OfferCandidates PROVE SearchInv'
<1>1. /\ rpc = "offer" /\ asked = "mounts" /\ rpc' = "candidates"
      /\ UNCHANGED <<asked, trail, entries, facts, claimed, spoiled, resolved>>
  BY DEF SearchInv, OfferCandidates
<1>2. ModelTyped /\ AllLooked /\ claimed = {d \in Dirs : facts[d].config = "good"}
  BY DEF SearchInv
<1>3. offers' \in Seq(claimed) /\ InOrder'
  BY <1>2, AllOffered
<1>4. ModelTyped'
  BY <1>1, <1>2, <1>3 DEF ModelTyped
<1>5. AllLooked' /\ RightModel'
  BY <1>1, <1>2 DEF AllLooked, RightModel, Discovered, Looked
<1> QED
  BY <1>1, <1>2, <1>3, <1>4, <1>5 DEF SearchInv

\* The first of the candidates that are left is tried: those before it in the
\* order of the paths are not among them, so they were refused.
LEMMA TryKeeps ==
    ASSUME SearchInv, NEW verdict \in Verdicts("deployment-mount"), TryCandidate(verdict)
    PROVE  SearchInv'
<1> DEFINE d == Head(offers)
<1>1. /\ rpc = "candidates" /\ asked = "mounts" /\ offers # <<>>
      /\ facts' = [facts EXCEPT ![d].sound = verdict = "none"] /\ offers' = Tail(offers)
      /\ IF verdict = "none" THEN Resolved("deployment-mount", d) ELSE UNCHANGED <<rpc, resolved>>
      /\ UNCHANGED <<asked, trail, entries, claimed, spoiled>>
  BY DEF SearchInv, TryCandidate
<1>2. ModelTyped /\ AllLooked /\ InOrder /\ claimed = {e \in Dirs : facts[e].config = "good"}
  BY <1>1 DEF SearchInv
<1>3. /\ offers \in Seq(claimed) /\ Len(offers) \in Nat \ {0} /\ 1 \in 1..Len(offers) /\ d = offers[1]
      /\ DOMAIN offers = 1..Len(offers)
      /\ Tail(offers) \in Seq(claimed) /\ Len(Tail(offers)) = Len(offers) - 1
      /\ DOMAIN Tail(offers) = 1..Len(Tail(offers))
      /\ \A i \in 1..Len(Tail(offers)) : Tail(offers)[i] = offers[i + 1]
  <2>1. offers \in Seq(claimed) /\ Len(offers) \in Nat \ {0} /\ DOMAIN offers = 1..Len(offers)
    BY <1>1, <1>2, EmptySeq, LenProperties DEF ModelTyped
  <2>2. Tail(offers) \in Seq(claimed) /\ Len(Tail(offers)) = Len(offers) - 1
        /\ \A i \in 1..Len(Tail(offers)) : Tail(offers)[i] = offers[i + 1]
    BY <1>1, <2>1, HeadTailProperties
  <2>3. d = offers[1]
    BY <2>1
  <2> QED
    BY <2>1, <2>2, <2>3, LenProperties
<1>4. d \in claimed /\ d \in Dirs /\ facts[d].config = "good"
  BY <1>2, <1>3, ElementOfSeq
<1> HIDE DEF d
<1>5. /\ facts' \in [Dirs -> [config : Configs, sound : BOOLEAN \cup {Unknown}]]
      /\ \A e \in Dirs : facts'[e].config = facts[e].config
      /\ \A e \in Dirs : facts'[e].sound = IF e = d THEN verdict = "none" ELSE facts[e].sound
  BY <1>1, <1>2, <1>4 DEF ModelTyped
<1>6. claimed' = {e \in Dirs : facts'[e].config = "good"}
  BY <1>1, <1>2, <1>5
<1>7. Range(offers) \subseteq Range(offers') \cup {d}
  <2> SUFFICES ASSUME NEW i \in 1..Len(offers), i # 1 PROVE offers[i] \in Range(offers')
    BY <1>3 DEF Range
  <2>1. i - 1 \in 1..Len(Tail(offers)) /\ (i - 1) + 1 = i
    BY <1>3
  <2> QED
    BY <1>1, <1>3, <2>1 DEF Range
<1>8. ModelTyped'
  <2>1. rpc' \in {rpc, "resolved"}
    BY <1>1 DEF Resolved
  <2> QED
    BY <1>1, <1>2, <1>3, <1>5, <2>1 DEF ModelTyped
<1>9. AllLooked'
  <2>1. \A p \in Paths : End(p) \in Dirs
    <3> SUFFICES ASSUME NEW p \in Paths PROVE End(p) \in Dirs
      OBVIOUS
    <3>1. PICK m \in 1..(MaxDepth + 1) : p \in [1..m -> Dirs]
      BY DEF Paths, Ways
    <3>2. Len(p) = m /\ m \in 1..m
      BY <3>1, ModelAssumption
    <3> QED
      BY <3>1, <3>2 DEF End
  <2>2. Discovered
    BY <1>1 DEF Discovered
  <2> QED
    BY <1>1, <1>2, <1>5, <2>1, <2>2 DEF AllLooked, Looked
\* What was offered before it.
<1>10. ASSUME NEW e \in Before(d) PROVE e \in Dirs /\ e # d /\ facts[e].sound = FALSE
  <2>1. e \in claimed /\ e \in Dirs
    BY <1>2 DEF Before
  <2>2. e \notin Range(offers)
    <3> SUFFICES ASSUME NEW i \in 1..Len(offers), offers[i] = e PROVE FALSE
      BY <1>3 DEF Range
    <3>1. CASE i = 1
      BY <1>3, <3>1, PathsAreOrdered
    <3>2. CASE i # 1
      <4>1. d \in Before(e)
        BY <1>2, <1>3, <3>2 DEF InOrder
      <4> QED
        BY <4>1, PathsAreOrdered
    <3> QED
      BY <3>1, <3>2
  <2> QED
    BY <1>2, <2>1, <2>2, PathsAreOrdered DEF InOrder
<1>11. CASE verdict = "none"
  <2>1. rpc' = "resolved" /\ resolved'.how = "deployment-mount" /\ resolved'.dir = d
    BY <1>1, <1>11 DEF Resolved, Outcome
  <2>2. facts'[d] = [config |-> "good", sound |-> TRUE]
    BY <1>4, <1>5, <1>11
  <2>4. \A e \in Before(d) : facts'[e].sound = FALSE
    BY <1>5, <1>10
  <2>5. RightModel'
    BY <1>1, <2>1, <2>2, <2>4 DEF RightModel, PathErrors, DirectoryErrors, ConfigErrors, FileErrors,
       WeightErrors, TokenizerErrors, InventoryErrors, NothingFound, Before
  <2> QED
    BY <1>6, <1>8, <1>9, <2>1, <2>5 DEF SearchInv
<1>12. CASE verdict # "none"
  <2>1. rpc' = rpc /\ resolved' = resolved
    BY <1>1, <1>12
  <2>2. \A i, j \in 1..Len(offers') : i < j => offers'[i] \in Before(offers'[j])
    <3> SUFFICES ASSUME NEW i \in 1..Len(offers'), NEW j \in 1..Len(offers'), i < j
                 PROVE  offers'[i] \in Before(offers'[j])
      OBVIOUS
    <3>1. i + 1 \in 1..Len(offers) /\ j + 1 \in 1..Len(offers) /\ i + 1 < j + 1
      BY <1>1, <1>3
    <3> QED
      BY <1>1, <1>2, <1>3, <3>1 DEF InOrder
  <2>3. \A e \in claimed' \ Range(offers') : facts'[e].sound = FALSE
    BY <1>1, <1>2, <1>5, <1>7, <1>12 DEF InOrder
  <2>4. InOrder' /\ RightModel'
    BY <1>1, <2>1, <2>2, <2>3 DEF InOrder, RightModel, Before
  <2> QED
    BY <1>1, <1>6, <1>8, <1>9, <2>1, <2>4 DEF SearchInv
<1> QED
  BY <1>11, <1>12

LEMMA TooManyKeeps == ASSUME SearchInv, TooManyCandidates PROVE SearchInv'
<1>1. /\ rpc = "candidates" /\ asked = "mounts" /\ rpc' = "resolved" /\ resolved'.how = "invalid_model_candidate"
      /\ UNCHANGED <<asked, trail, entries, facts, claimed, spoiled, offers>>
  BY DEF SearchInv, TooManyCandidates, Resolved, Outcome
<1>2. ModelTyped /\ claimed = {d \in Dirs : facts[d].config = "good"}
  BY DEF SearchInv
<1>3. ModelTyped'
  BY <1>1, <1>2 DEF ModelTyped
<1>4. AllLooked' /\ RightModel'
  BY <1>1 DEF AllLooked, RightModel, Discovered, Sources, PathErrors, DirectoryErrors, ConfigErrors, FileErrors,
     WeightErrors, TokenizerErrors, InventoryErrors, NothingFound
<1> QED
  BY <1>1, <1>2, <1>3, <1>4 DEF SearchInv

\* None is left, so that all of them were refused.
LEMMA NoMoreKeeps == ASSUME SearchInv, NoMoreCandidates PROVE SearchInv'
<1>1. /\ rpc = "candidates" /\ asked = "mounts" /\ rpc' = "cache" /\ offers = <<>>
      /\ UNCHANGED <<asked, trail, entries, facts, claimed, spoiled, offers, resolved>>
  BY DEF SearchInv, NoMoreCandidates
<1>2. ModelTyped /\ AllLooked /\ InOrder /\ claimed = {d \in Dirs : facts[d].config = "good"}
  BY <1>1 DEF SearchInv
<1>3. ModelTyped'
  BY <1>1, <1>2 DEF ModelTyped
<1>4. Range(offers) = {}
  BY <1>1 DEF Range
<1>5. \A d \in claimed : facts[d].sound = FALSE
  BY <1>2, <1>4 DEF InOrder
<1>6. AllLooked' /\ RightModel'
  BY <1>1, <1>2 DEF AllLooked, RightModel, Discovered, Looked
<1> QED
  BY <1>1, <1>2, <1>3, <1>5, <1>6 DEF SearchInv

LEMMA CacheKeeps == ASSUME SearchInv, NEW verdict, TryCache(verdict) PROVE SearchInv'
<1>1. /\ rpc = "cache" /\ rpc' = "resolved" /\ resolved'.how \in {"local-cache"} \cup NothingFound
      /\ UNCHANGED <<asked, trail, entries, facts, claimed, spoiled, offers>>
  BY DEF TryCache, Resolved, Outcome
<1>2. /\ ModelTyped /\ AllLooked /\ claimed = {d \in Dirs : facts[d].config = "good"}
      /\ asked \in {"mounts", "none"} /\ \A d \in claimed : facts[d].sound = FALSE
  BY <1>1 DEF SearchInv
<1>3. ModelTyped'
  BY <1>1, <1>2 DEF ModelTyped
<1>4. AllLooked' /\ RightModel'
  BY <1>1, <1>2 DEF AllLooked, RightModel, Discovered, Looked, PathErrors, DirectoryErrors, ConfigErrors, FileErrors,
     WeightErrors, TokenizerErrors, InventoryErrors, NothingFound
<1> QED
  BY <1>1, <1>2, <1>3, <1>4 DEF SearchInv

LEMMA SearchKeeps == SearchInv /\ [ModelNext]_modelVars => SearchInv'
<1> SUFFICES ASSUME SearchInv, [ModelNext]_modelVars PROVE SearchInv'
  OBVIOUS
<1>1. CASE ResolveDiscover \/ ResolvePlainly \/ \E verdict \in Verdicts("explicit-path") : ResolveExplicit(verdict)
  BY <1>1, CallKeeps
<1>2. CASE ResolveStep
  <2>1. CASE \E config \in {"none", "good", "spoiled"}, files \in {0, ManyFiles} : Visit(config, files)
    BY <2>1, VisitKeeps
  <2>2. CASE DiscoverNothing
    BY <2>2, NothingKeeps
  <2>3. CASE DiscoverAborts
    BY <2>3, AbortKeeps DEF DiscoverAborts
  <2>4. CASE DiscoverDone
    BY <2>4, DoneKeeps
  <2>5. CASE OfferCandidates
    BY <2>5, OfferKeeps
  <2>6. CASE \E verdict \in Verdicts("deployment-mount") : TryCandidate(verdict)
    BY <2>6, TryKeeps
  <2>7. CASE \E verdict \in Verdicts("local-cache") : TryCache(verdict)
    BY <2>7, CacheKeeps
  <2>8. CASE TooManyCandidates
    BY <2>8, TooManyKeeps
  <2>9. CASE NoMoreCandidates
    BY <2>9, NoMoreKeeps
  <2> QED
    BY <1>2, <2>1, <2>2, <2>3, <2>4, <2>5, <2>6, <2>7, <2>8, <2>9 DEF ResolveStep
<1>3. CASE ResolveTaken
  BY <1>3, TakenKeeps
<1>4. CASE UNCHANGED modelVars
  BY <1>4, SearchStutters
<1> QED
  BY <1>1, <1>2, <1>3, <1>4 DEF ModelNext

\* A process looks for its model as the resolver does, and leaves its state alone
\* at every other step.
LEMMA LaunchResolves == [LaunchNext]_vars => [ModelNext]_modelVars
<1> SUFFICES ASSUME [LaunchNext]_vars PROVE [ModelNext]_modelVars
  OBVIOUS
<1>1. CASE UNCHANGED vars
  BY <1>1 DEF vars
<1>2. CASE Started
  BY <1>2 DEF Started, ModelNext
<1>3. CASE ChildResolves
  BY <1>3 DEF ChildResolves, ModelNext
<1>4. CASE Resolving
  BY <1>4 DEF Resolving, ModelNext
<1>5. CASE ModelFound \/ ModelMissing
  BY <1>5 DEF ModelFound, ModelMissing, ModelNext
<1>6. CASE ArgumentsRefused \/ SettingsRefused \/ DoctorStarted \/ FakeWorkerStarted
  BY <1>6 DEF ArgumentsRefused, SettingsRefused, DoctorStarted, FakeWorkerStarted
<1>7. CASE DetectFails \/ Spawn \/ ChildPlans \/ Constructs
  BY <1>7 DEF DetectFails, Spawn, ChildPlans, Constructs
<1>8. CASE \E s \in Environments, m \in Masks : Plan(s, m) \/ \E heard \in BOOLEAN : ParentPlans(s, m, heard)
  BY <1>8 DEF Plan, ParentPlans
<1>9. CASE Loads \/ LoadRaises \/ LoadOnly \/ Generates \/ GenerateStreams \/ GenerateFails \/ GenerateReads
  BY <1>9 DEF Loads, LoadRaises, LoadOnly, Generates, GenerateStreams, GenerateFails, GenerateReads
<1>10. CASE GenerateWrites \/ RivalWrites \/ GenerateWrote \/ GenerateKilled \/ WriteRaises
            \/ \E valid \in BOOLEAN : Validates(valid)
  BY <1>10 DEF GenerateWrites, RivalWrites, GenerateWrote, GenerateKilled, WriteRaises, Validates
<1>11. CASE Serves \/ PutBreaks \/ Dismissed \/ Leaves \/ Over
  BY <1>11 DEF Serves, PutBreaks, Dismissed, Leaves, Over, vars
<1> QED
  BY <1>1, <1>2, <1>3, <1>4, <1>5, <1>6, <1>7, <1>8, <1>9, <1>10, <1>11 DEF LaunchNext

LEMMA SearchInvariant == LaunchSpec => []SearchInv
<1>1. LaunchInit => SearchInv
  BY SearchStarts DEF LaunchInit
<1>2. SearchInv /\ [LaunchNext]_vars => SearchInv'
  BY SearchKeeps, LaunchResolves
<1> QED
  BY <1>1, <1>2, PTL DEF LaunchSpec

\* discover(): when it ends without an error, no directory of the mounts within
\* its depth was left out, for any tree of directories and any depth.
THEOREM LaunchNothingHidden == LaunchSpec => []NothingHidden
<1>1. SearchInv => NothingHidden
  <2> SUFFICES ASSUME SearchInv, asked = "mounts", Discovered, entries > 0, NEW d \in Reached[MaxDepth]
               PROVE  facts[d].config # Unknown
    BY DEF NothingHidden
  <2>1. PICK p \in Paths : End(p) = d
    BY WayToReached, ModelAssumption DEF Paths
  <2> QED
    BY <2>1 DEF SearchInv, AllLooked, Looked
<1> QED
  BY <1>1, SearchInvariant, PTL

\* resolve(): a path that is set decides; otherwise the first sound candidate in
\* the order of the paths is taken, and the cache only when every directory with
\* a model was refused, for any tree of directories.
THEOREM LaunchRightModel == LaunchSpec => []RightModel
<1>1. SearchInv => RightModel
  BY DEF SearchInv
<1> QED
  BY <1>1, SearchInvariant, PTL

---------------------------------------------------------------------------
(* LaunchTypeOK                                                            *)

ControlTyped ==
    /\ program \in Programs
    /\ lpc \in {"start", "model", "plan", "spawn", "spawned", "child", "construct", "load", "finish",
               "run", "reading", "failed", "writing", "validating", "serve", "leaving", "over"}
    /\ mode \in {Unknown, "load-only", "one-shot", "stream"}
    /\ exit \in {"none", "0", "1", "2", "3", "4", "startup", "killed"}
    /\ exit = "none" <=> lpc # "over"

PlaceTyped ==
    /\ settings \in Environments \cup {Unknown, ChildSettings(settings, <<0>>)}
    /\ {mask, seen} \subseteq Masks \cup {<<g>> : g \in Installed} \cup {<<>>, Unknown}

LEMMA ControlKeeps == ControlTyped /\ [LaunchNext]_vars => ControlTyped'
<1> SUFFICES ASSUME ControlTyped, [LaunchNext]_vars PROVE ControlTyped'
  OBVIOUS
<1> USE DEF ControlTyped, Goes, Ends, Same
<1>1. CASE UNCHANGED launchVars
  BY <1>1 DEF launchVars
<1>2. CASE Resolving \/ GenerateWrites \/ RivalWrites \/ Over \/ UNCHANGED vars
  BY <1>1, <1>2 DEF Resolving, GenerateWrites, RivalWrites, Over, vars
<1>3. CASE ArgumentsRefused \/ SettingsRefused \/ Started \/ DoctorStarted \/ FakeWorkerStarted
  BY <1>3 DEF ArgumentsRefused, SettingsRefused, Started, DoctorStarted, FakeWorkerStarted
<1>4. CASE ModelFound \/ ModelMissing \/ DetectFails
  BY <1>4 DEF ModelFound, ModelMissing, DetectFails
<1>5. CASE \E s \in Environments, m \in Masks : Plan(s, m) \/ \E heard \in BOOLEAN : ParentPlans(s, m, heard)
  BY <1>5 DEF Plan, ParentPlans
<1>6. CASE Spawn \/ ChildPlans \/ ChildResolves \/ Constructs
  BY <1>6 DEF Spawn, ChildPlans, ChildResolves, Constructs
<1>7. CASE Loads \/ LoadRaises \/ LoadOnly \/ Generates \/ GenerateStreams \/ GenerateFails \/ GenerateReads
  BY <1>7 DEF Loads, LoadRaises, LoadOnly, Generates, GenerateStreams, GenerateFails, GenerateReads
<1>8. CASE GenerateWrote \/ GenerateKilled \/ WriteRaises \/ \E valid \in BOOLEAN : Validates(valid)
  BY <1>8 DEF GenerateWrote, GenerateKilled, WriteRaises, Validates
<1>9. CASE Serves \/ PutBreaks \/ Dismissed \/ Leaves
  BY <1>9 DEF Serves, PutBreaks, Dismissed, Leaves
<1> QED
  BY <1>2, <1>3, <1>4, <1>5, <1>6, <1>7, <1>8, <1>9 DEF LaunchNext

LEMMA PlaceTypeKeeps == PlaceInv /\ PlaceTyped /\ [LaunchNext]_vars => PlaceTyped'
<1> SUFFICES ASSUME PlaceInv, PlaceTyped, [LaunchNext]_vars PROVE PlaceTyped'
  OBVIOUS
<1>1. CASE UNCHANGED <<settings, mask, seen>>
  BY <1>1 DEF PlaceTyped, ChildSettings
<1>2. CASE Forget
  BY <1>2 DEF Forget, PlaceTyped
<1>3. CASE \/ Resolving \/ GenerateWrites \/ RivalWrites \/ Over \/ UNCHANGED vars
           \/ ArgumentsRefused \/ SettingsRefused \/ Started \/ DoctorStarted \/ FakeWorkerStarted
           \/ ModelFound \/ ModelMissing \/ DetectFails \/ ChildPlans
  BY <1>1, <1>3 DEF Resolving, GenerateWrites, RivalWrites, Over, vars, launchVars, placeVars,
       ArgumentsRefused, SettingsRefused, Started, DoctorStarted, FakeWorkerStarted, ModelFound, ModelMissing,
       DetectFails, ChildPlans
<1>4. CASE \E s \in Environments, m \in Masks : Plan(s, m) \/ \E heard \in BOOLEAN : ParentPlans(s, m, heard)
  BY <1>4 DEF Plan, ParentPlans, PlaceTyped
<1>5. CASE ChildResolves \/ Constructs
  BY <1>2, <1>5 DEF ChildResolves, Constructs
<1>6. CASE Spawn
  <2>1. /\ lpc = "spawn" /\ spec' \in Range(WorkerSpecs(plan)) /\ mask' = mask
        /\ settings' = ChildSettings(settings, spec') /\ seen' = ChildSees(seen, spec', Installed)
    BY <1>6 DEF Spawn, Goes
  <2>2. Decided
    BY <2>1 DEF PlaceInv
  <2>3. settings \in Settings /\ Heard \in Seq(Nat)
    BY <2>2, EnvironmentsAreSettings, MasksAreLists, IndicesTyped DEF Decided, Heard
  <2>4. spec' = <<>> \/ \E g \in Nat : spec' = <<g>>
    BY <2>1, <2>2, <2>3, SpecsApart DEF Decided
  <2>5. CASE spec' = <<>>
    BY <1>1, <2>1, <2>5 DEF ChildSettings, ChildSees
  <2>6. ASSUME NEW g \in Nat, spec' = <<g>> PROVE PlaceTyped'
    <3>1. spec' # <<>> /\ spec'[1] = g
      BY <2>6
    <3>2. settings' = ChildSettings(settings', <<0>>)
      BY <2>1, <3>1 DEF ChildSettings
    <3>3. seen' = IF g \in Installed THEN <<g>> ELSE <<>>
      BY <2>1, <2>6, <3>1 DEF ChildSees
    <3> QED
      BY <2>1, <3>2, <3>3 DEF PlaceTyped
  <2> QED
    BY <2>4, <2>5, <2>6
<1>7. CASE \/ Loads \/ LoadRaises \/ LoadOnly \/ Generates \/ GenerateStreams \/ GenerateFails \/ GenerateReads
           \/ GenerateWrote \/ GenerateKilled \/ WriteRaises \/ \E valid \in BOOLEAN : Validates(valid)
           \/ Serves \/ PutBreaks \/ Dismissed \/ Leaves
  BY <1>1, <1>7 DEF placeVars, Loads, LoadRaises, LoadOnly, Generates, GenerateStreams, GenerateFails, GenerateReads,
       GenerateWrote, GenerateKilled, WriteRaises, Validates, Serves, PutBreaks, Dismissed, Leaves
<1> QED
  BY <1>3, <1>4, <1>5, <1>6, <1>7 DEF LaunchNext

\* Every program of any machine: what its variables can be.
THEOREM LaunchTypes == LaunchSpec => []LaunchTypeOK
<1>1. LaunchInit => ControlTyped /\ PlaceTyped
  BY DEF LaunchInit, ControlTyped, PlaceTyped
<1>2. ControlTyped /\ PlaceTyped /\ SearchInv /\ BackendInv /\ Counted => LaunchTypeOK
  <2> SUFFICES ASSUME ControlTyped, PlaceTyped, SearchInv, BackendInv, Counted PROVE LaunchTypeOK
    OBVIOUS
  <2>1. trail \in Seq(Dirs \X (0..MaxDepth)) /\ offers \in Seq(claimed) /\ claimed \subseteq Dirs
    BY DEF SearchInv, ModelTyped
  <2>2. Range(trail) \subseteq Dirs \X (0..MaxDepth) /\ Range(offers) \subseteq claimed
    BY <2>1, LenProperties, ElementOfSeq DEF Range
  <2>3. bstate \in {"created", "loaded", "closed"} /\ model = (kind = "real" /\ bstate = "loaded")
        /\ sequence \in 0..pulled /\ pulled \in 0..MaxChunks
    BY DEF BackendInv, BackendTyped, Counted
  <2> QED
    BY <2>1, <2>2, <2>3 DEF LaunchTypeOK, ControlTyped, PlaceTyped
<1>3. LaunchSpec => []Counted /\ []BackendInv
  BY LaunchUsesBackend, BackendCounts, BackendInvariant, PTL
<1>4. LaunchSpec => []ControlTyped
  BY <1>1, ControlKeeps, PTL DEF LaunchSpec
<1>5. LaunchSpec => []PlaceTyped
  BY <1>1, PlaceTypeKeeps, PlaceInvariant, PTL DEF LaunchSpec
<1> QED
  BY <1>2, <1>3, <1>4, <1>5, SearchInvariant, PTL

=============================================================================
