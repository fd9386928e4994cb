-------------------------- MODULE RequestLifecycle --------------------------
(***************************************************************************)
(* What the scheduler promises its caller for every request id, whatever   *)
(* the clients and the children do: an id is admitted once, waits or runs, *)
(* and ends once. ApiRuntime is written against this module; Scheduler is  *)
(* checked to implement it.                                                *)
(***************************************************************************)
EXTENDS Naturals, FiniteSets

CONSTANTS
    Requests,   \* request ids
    Slots       \* requests that may run at once

VARIABLES phase, open

\* A request that has ended is "due", its answer not yet fetched by the caller,
\* "told", or "lost", with no answer to come.
Live == {"queued", "running"}
Phases == Live \cup {"new", "due", "told", "lost"}

\* What may happen to a request the caller does not name. Transitive, so that
\* several steps of the scheduler may be seen as one.
Moves == {<<"queued", "running">>, <<"queued", "due">>, <<"queued", "told">>,
          <<"queued", "lost">>, <<"running", "due">>, <<"running", "told">>,
          <<"running", "lost">>, <<"due", "told">>}

In(p) == {r \in Requests : phase[r] = p}

MayMove(r) == phase'[r] = phase[r] \/ <<phase[r], phase'[r]>> \in Moves
RoomToRun == Cardinality(In("running")') <= Slots

Init ==
    /\ phase = [r \in Requests |-> "new"]
    /\ open = TRUE

Admit(r) ==
    /\ open
    /\ phase[r] = "new"
    /\ \E p \in Live : phase' = [phase EXCEPT ![r] = p]
    /\ RoomToRun
    /\ open' = open

\* The caller cancels r. That may leave no worker for those that wait.
Withdraw(r) ==
    /\ phase[r] \in Live
    /\ phase' \in [Requests -> Phases]
    /\ phase'[r] = "told"
    /\ \A q \in Requests \ {r} :
        phase'[q] = phase[q] \/ (phase[q] = "queued" /\ phase'[q] = "due")
    /\ open' = open

Work ==
    /\ phase' \in [Requests -> Phases]
    /\ \A r \in Requests : MayMove(r)
    /\ RoomToRun
    /\ open' = open

Shut ==
    /\ phase' \in [Requests -> Phases]
    /\ \A r \in Requests : MayMove(r)
    /\ RoomToRun
    /\ open
    /\ open' = FALSE

Next == (\E r \in Requests : Admit(r) \/ Withdraw(r)) \/ Work \/ Shut

Spec == Init /\ [][Next]_<<phase, open>>
=============================================================================
