------------------------------ MODULE Placement ------------------------------
(***************************************************************************)
(* Where inference runs. A profile becomes a device, a list of GPUs and a  *)
(* number of workers (profiles.py); those and the GPUs a process sees      *)
(* become an execution plan (device.py). The API parent plans without CUDA *)
(* and hands every worker one GPU in its environment (worker_factory.py,   *)
(* worker_process.py), and the worker plans again for itself. An empty     *)
(* sequence is a list that is not given, 0 a number that is not given.     *)
(***************************************************************************)
EXTENDS Naturals, Sequences, Functions

Profiles == {"none", "auto", "cpu", "cuda-single", "cuda-replica"}
Devices == {"auto", "cpu", "cuda"}

\* RuntimeConfig: its constructor refuses a list that repeats an index.
Lists == {g \in Seq(Nat) : IsInjective(g)}
Settings == [profile : Profiles, device : Devices, gpus : Lists, workers : Nat]

Prefix(s, n) == [i \in 1..(IF n < Len(s) THEN n ELSE Len(s)) |-> s[i]]

\* range(count): how a process numbers the GPUs it sees.
Indices(n) == [i \in 1..n |-> i - 1]

---------------------------------------------------------------------------
\* materialize_execution_profile

Demand(device, gpus, workers) ==
    [error |-> "none", device |-> device, gpus |-> gpus, workers |-> workers]
Conflict == [error |-> "profile", device |-> "none", gpus |-> <<>>, workers |-> 0]

Chosen(s, probed) == IF s.gpus = <<>> THEN probed ELSE s.gpus
OneWorker(s) == s.workers \in {0, 1}
WorkersOr(s, n) == IF s.workers = 0 THEN n ELSE s.workers

CpuDemand(s) ==
    IF s.gpus = <<>> /\ OneWorker(s) THEN Demand("cpu", <<>>, 1) ELSE Conflict

SingleDemand(s, probed) ==
    LET chosen == IF s.gpus = <<>> THEN Prefix(probed, 1) ELSE s.gpus
    IN  IF Len(chosen) = 1 /\ OneWorker(s) THEN Demand("cuda", chosen, 1) ELSE Conflict

ReplicaDemand(s, probed) ==
    LET chosen == Chosen(s, probed)
    IN  IF Len(chosen) >= 2 /\ s.workers \in {0, Len(chosen)}
        THEN Demand("cuda", chosen, Len(chosen))
        ELSE Conflict

\* Mutant: a constraint to CUDA is forgotten when there is none.
AutoDemandForgets(s, probed) ==
    LET chosen == Chosen(s, probed)
    IN  IF s.device = "cpu" \/ chosen = <<>> THEN CpuDemand(s)
        ELSE IF s.workers <= Len(chosen) THEN Demand("cuda", chosen, WorkersOr(s, Len(chosen)))
        ELSE Conflict
AutoDemand(s, probed) ==
    LET chosen == Chosen(s, probed)
    IN  IF s.device = "cpu" THEN CpuDemand(s)
        ELSE IF chosen = <<>> THEN IF s.device = "cuda" THEN Conflict ELSE CpuDemand(s)
        ELSE IF s.workers <= Len(chosen) THEN Demand("cuda", chosen, WorkersOr(s, Len(chosen)))
        ELSE Conflict

\* _compatible_device comes first in the three profiles that name a device.
Materialize(s, probed) ==
    CASE s.profile = "none" -> Demand(s.device, s.gpus, s.workers)
      [] s.profile = "auto" -> AutoDemand(s, probed)
      [] s.profile = "cpu" -> IF s.device = "cuda" THEN Conflict ELSE CpuDemand(s)
      [] s.profile = "cuda-single" -> IF s.device = "cpu" THEN Conflict ELSE SingleDemand(s, probed)
      [] s.profile = "cuda-replica" -> IF s.device = "cpu" THEN Conflict ELSE ReplicaDemand(s, probed)

---------------------------------------------------------------------------
\* ExecutionPlan, and the two ways to one

NoPlan(error) == [error |-> error, device |-> "none", selected |-> <<>>, workers |-> 0, gpus |-> <<>>]
CpuPlan == [error |-> "none", device |-> "cpu", selected |-> <<>>, workers |-> 1, gpus |-> <<>>]

\* ExecutionPlan(cuda, selected, workers, selected[:workers]): the constructor
\* raises ValueError unless every worker has a GPU of its own.
CudaPlan(selected, workers) ==
    IF workers \in 1..Len(selected) /\ IsInjective(selected)
    THEN [error |-> "none", device |-> "cuda", selected |-> selected, workers |-> workers,
          gpus |-> Prefix(selected, workers)]
    ELSE NoPlan("topology")

\* _resolve_values: visible is the inventory's list, empty without usable CUDA.
ResolveValues(d, visible) ==
    IF d.device = "cpu" \/ (d.device = "auto" /\ visible = <<>>)
    THEN IF d.gpus = <<>> /\ OneWorker(d) THEN CpuPlan ELSE NoPlan("device")
    ELSE LET chosen == Chosen(d, visible)
         IN  IF /\ visible # <<>>
                /\ Range(chosen) \subseteq Range(visible)
                /\ d.workers <= Len(chosen)
             THEN CudaPlan(chosen, WorkersOr(d, Len(chosen)))
             ELSE NoPlan("device")

\* resolve_execution_plan in a process that sees n GPUs.
ResolvePlan(s, n) ==
    LET d == Materialize(s, Indices(n))
    IN  IF d.error # "none" THEN NoPlan(d.error) ELSE ResolveValues(d, Indices(n))

\* parent_execution_plan: the probe may have failed, which looks like no GPU.
ParentPlan(s, probed) ==
    LET d == Materialize(s, probed)
    IN  IF d.error # "none" THEN NoPlan(d.error)
        ELSE IF d.device = "cpu"
        THEN IF d.gpus = <<>> /\ OneWorker(d) THEN CpuPlan ELSE NoPlan("parent")
        ELSE IF d.gpus = <<>> THEN NoPlan("parent")
        ELSE CudaPlan(d.gpus, WorkersOr(d, Len(d.gpus)))

---------------------------------------------------------------------------
\* The workers of a plan. physical_gpu_index is <<>> for None, <<g>> for g.

WorkerSpecs(plan) ==
    IF plan.device = "cpu" THEN << <<>> >> ELSE [w \in 1..plan.workers |-> <<plan.gpus[w]>>]

\* Mutant: the profile is not popped from the environment.
ChildSettingsKeepsProfile(s, spec) ==
    IF spec = <<>> THEN s
    ELSE [profile |-> s.profile, device |-> "cuda", gpus |-> <<0>>, workers |-> 1]
\* child_cuda_environment, and the profile that is popped with it.
ChildSettings(s, spec) ==
    IF spec = <<>> THEN s
    ELSE [profile |-> "none", device |-> "cuda", gpus |-> <<0>>, workers |-> 1]

\* CUDA_VISIBLE_DEVICES counts the machine's GPUs, not those of the parent:
\* the child sees the one it names, if there is one.
ChildSees(seen, spec, installed) ==
    IF spec = <<>> THEN seen ELSE IF spec[1] \in installed THEN spec ELSE <<>>

\* resolve_upstream_device: one CPU or one GPU, or BackendUnsupportedError.
IsQualified(plan) == plan.device = "cuda" => Len(plan.selected) = 1 /\ plan.workers = 1

\* The GPU "cuda:i" is to a process that sees these, <<>> for the CPU.
RunsOn(plan, seen) == IF plan.device = "cpu" THEN <<>> ELSE <<seen[plan.selected[1] + 1]>>
=============================================================================
