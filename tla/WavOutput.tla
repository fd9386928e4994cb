------------------------------ MODULE WavOutput ------------------------------
(***************************************************************************)
(* write_wav: several processes that write audio under one name. Each has  *)
(* one result; it opens the temporary sibling, writes it in two pieces (a  *)
(* buffer that is flushed, and the rest at close) and moves it over the    *)
(* target. The temporary's name is made from the target's alone, so the    *)
(* writers share it. A file is named after the writer that created it.     *)
(***************************************************************************)
EXTENDS Naturals

CONSTANTS Writers, Old, None

ASSUME WavAssumption == Old \notin Writers /\ None \notin Writers /\ Old # None

VARIABLES
    wpc,      \* where each write_wav is
    fd,       \* the file it writes to
    target,   \* the file with the target's name, or None
    part,     \* the file with the temporary's name, or None
    data,     \* whose audio the two pieces of each file are
    last,     \* the last writer that moved a file over the target
    crossed   \* a write began while another one was between open and replace

wavVars == <<wpc, fd, target, part, data, last, crossed>>

Files == Writers \cup {Old}
Whole(w) == <<w, w>>
Empty == <<None, None>>

WavInit ==
    /\ wpc = [w \in Writers |-> "idle"]
    /\ fd = [w \in Writers |-> None]
    /\ target \in {None, Old}
    /\ part = None
    /\ data = [f \in Files |-> IF f = Old THEN Whole(Old) ELSE Empty]
    /\ last = Old
    /\ crossed = FALSE

IsWriting(w) == wpc[w] \in {"opened", "begun", "closed"}
At(w, from, to) == wpc[w] = from /\ wpc' = [wpc EXCEPT ![w] = to]

\* Nothing to write, or nowhere to write it: WavWriteError before any file.
Refuse(w) == At(w, "idle", "failed") /\ UNCHANGED <<fd, target, part, data, last, crossed>>

\* Mutant: the file is written in its place.
OpenInPlace(w) ==
    LET file == IF target = None THEN w ELSE target
    IN  /\ At(w, "idle", "opened")
        /\ fd' = [fd EXCEPT ![w] = file]
        /\ target' = file
        /\ data' = [data EXCEPT ![file] = Empty]
        /\ UNCHANGED <<part, last, crossed>>
\* wave.open(temporary, "wb"): a file that is there is truncated.
Open(w) ==
    LET file == IF part = None THEN w ELSE part
    IN  /\ At(w, "idle", "opened")
        /\ fd' = [fd EXCEPT ![w] = file]
        /\ part' = file
        /\ data' = [data EXCEPT ![file] = Empty]
        /\ crossed' = (crossed \/ \E v \in Writers : IsWriting(v))
        /\ UNCHANGED <<target, last>>

WriteHead(w) ==
    /\ At(w, "opened", "begun")
    /\ data' = [data EXCEPT ![fd[w]][1] = w]
    /\ UNCHANGED <<fd, target, part, last, crossed>>

WriteRest(w) ==
    /\ At(w, "begun", "closed")
    /\ data' = [data EXCEPT ![fd[w]][2] = w]
    /\ UNCHANGED <<fd, target, part, last, crossed>>

\* _discard: whatever has the temporary's name, or nothing if unlink fails.
Discard == part' \in {None, part}

\* Opening, writing or closing fails.
WriteFails(w) ==
    /\ \E from \in {"idle", "opened", "begun"} : At(w, from, "failed")
    /\ Discard
    /\ UNCHANGED <<fd, target, data, last, crossed>>

\* os.replace
Replace(w) ==
    /\ At(w, "closed", "placed")
    /\ part # None
    /\ target' = part
    /\ part' = None
    /\ last' = w
    /\ UNCHANGED <<fd, data, crossed>>

\* It fails, as it must when the temporary is gone.
ReplaceFails(w) ==
    /\ At(w, "closed", "failed")
    /\ Discard
    /\ UNCHANGED <<fd, target, data, last, crossed>>

\* Its size and digest, or an OSError: WavWriteError with the target in place.
Inspect(w) ==
    /\ \E to \in {"written", "failed"} : At(w, "placed", to)
    /\ UNCHANGED <<fd, target, part, data, last, crossed>>

\* The process dies; the temporary stays.
Kill(w) ==
    /\ \E from \in {"opened", "begun", "closed", "placed"} : At(w, from, "dead")
    /\ UNCHANGED <<fd, target, part, data, last, crossed>>

WavStep(w) ==
    \/ Refuse(w) \/ Open(w) \/ WriteHead(w) \/ WriteRest(w) \/ WriteFails(w)
    \/ Replace(w) \/ ReplaceFails(w) \/ Inspect(w) \/ Kill(w)

WavSpec == WavInit /\ [][\E w \in Writers : WavStep(w)]_wavVars

\* validate_wav reads what has the name now. A file that is cut short has a
\* header that says so; one mixed from two of a length passes.
MayValidate(valid) == valid => target # None /\ None \notin {data[target][1], data[target][2]}

---------------------------------------------------------------------------
\* write_wav, "atomically": the target holds the audio that was there before, or
\* all of the audio of the last writer that replaced it, whoever else failed or
\* was killed at whatever point, and whatever temporary was left by it. Only two
\* writers that are between open and replace at the same time share a temporary,
\* and then nothing is promised.
TargetWhole ==
    ~crossed => \/ target = None /\ last = Old
                \/ target # None /\ data[target] = Whole(last)
=============================================================================
