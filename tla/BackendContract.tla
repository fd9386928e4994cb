--------------------------- MODULE BackendContract ---------------------------
(***************************************************************************)
(* What a caller of an InferenceBackend may rely on (backend.py): a life   *)
(* of three states, and streams whose chunks are numbered from 0, of which *)
(* the last one is marked, once, and is followed by the end or an error.   *)
(***************************************************************************)
EXTENDS Naturals

VARIABLES
    life,    \* "created", "loaded", "closed"
    stream,  \* the last stream: "none", "open", "ended", "failed", "dropped"
    given,   \* its chunks so far; the next one has this sequence number
    marked   \* is_final has been given

contractVars == <<life, stream, given, marked>>

ContractInit == life = "created" /\ stream = "none" /\ given = 0 /\ marked = FALSE

Load == life = "created" /\ life' = "loaded" /\ UNCHANGED <<stream, given, marked>>

\* A stream that was begun goes on when its backend is closed.
Close == life # "closed" /\ life' = "closed" /\ UNCHANGED <<stream, given, marked>>

Begin ==
    /\ life = "loaded" /\ stream # "open"
    /\ stream' = "open" /\ given' = 0 /\ marked' = FALSE
    /\ UNCHANGED life

Give ==
    /\ stream = "open" /\ ~marked
    /\ given' = given + 1
    /\ marked' \in BOOLEAN
    /\ UNCHANGED <<life, stream>>

End == stream = "open" /\ marked /\ stream' = "ended" /\ UNCHANGED <<life, given, marked>>

\* Even after its marked chunk: what it held could not be let go.
Fail == stream = "open" /\ stream' = "failed" /\ UNCHANGED <<life, given, marked>>

Drop == stream = "open" /\ stream' = "dropped" /\ UNCHANGED <<life, given, marked>>

Forget ==
    /\ stream \in {"ended", "failed", "dropped"}
    /\ stream' = "none" /\ given' = 0 /\ marked' = FALSE
    /\ UNCHANGED life

Contract ==
    ContractInit /\ [][Load \/ Close \/ Begin \/ Give \/ End \/ Fail \/ Drop \/ Forget]_contractVars
=============================================================================
