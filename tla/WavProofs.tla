------------------------------ MODULE WavProofs ------------------------------
(***************************************************************************)
(* TargetWhole for any number of writers. What makes it true is which file *)
(* has which name: the one being written never has the target's, a writer  *)
(* that has not begun has left no file anywhere, and while at most one     *)
(* writer is between open and replace the temporary is its own or gone.    *)
(***************************************************************************)
EXTENDS WavOutput, TLAPS

Places == {"idle", "opened", "begun", "closed", "placed", "written", "failed", "dead"}

WavTyped ==
    /\ wpc \in [Writers -> Places]
    /\ fd \in [Writers -> Writers \cup {None}]
    /\ target \in Files \cup {None}
    /\ part \in Writers \cup {None}
    /\ data \in [Files -> (Files \cup {None}) \X (Files \cup {None})]
    /\ last \in Files
    /\ crossed \in BOOLEAN

\* A file is named after the writer that made it, so there is none yet.
NotMade(w) == target # w /\ part # w /\ \A v \in Writers : fd[v] # w

\* What of w's audio is in its file.
Matches(w) ==
    /\ wpc[w] = "begun" => data[fd[w]][1] = w
    /\ wpc[w] = "closed" => data[fd[w]] = Whole(w)

OwnTemporary(w) ==
    /\ part \in {None, fd[w]}
    /\ fd[w] # target
    /\ Matches(w)

Alone == \A v, w \in Writers : IsWriting(v) /\ IsWriting(w) => v = w

WavInv ==
    /\ WavTyped
    /\ \A w \in Writers : wpc[w] = "idle" => NotMade(w)
    /\ \A w \in Writers : IsWriting(w) => fd[w] \in Writers
    /\ ~crossed =>
        /\ Alone
        /\ \A w \in Writers : IsWriting(w) => OwnTemporary(w)
        /\ part # None => part # target
    /\ TargetWhole

---------------------------------------------------------------------------
\* Before anything is written the target is what was there, or nothing.
LEMMA WavStarts == WavInit => WavInv
<1> SUFFICES ASSUME WavInit PROVE WavInv
  OBVIOUS
<1> USE WavAssumption DEF WavInit
<1>1. WavTyped
  BY DEF WavTyped, Places, Files, Whole, Empty
<1>2. \A w \in Writers : wpc[w] = "idle" /\ NotMade(w) /\ ~IsWriting(w)
  BY DEF NotMade, IsWriting
<1>3. TargetWhole
  BY DEF TargetWhole, Files
<1> QED
  BY <1>1, <1>2, <1>3 DEF WavInv, Alone

\* A writer that stops before it has replaced anything leaves the target alone,
\* and at most takes the temporary away.
LEMMA StopKeeps ==
    ASSUME WavInv, NEW w \in Writers, NEW to \in {"failed", "dead", "written"},
           wpc' = [wpc EXCEPT ![w] = to], part' \in {None, part},
           UNCHANGED <<fd, target, data, last, crossed>>
    PROVE  WavInv'
<1> USE DEF WavInv
<1>1. WavTyped'
  BY DEF WavTyped, Places
<1>2. \A v \in Writers : wpc'[v] = "idle" => NotMade(v)'
  BY WavAssumption DEF WavTyped, NotMade
<1>3. \A v \in Writers : IsWriting(v)' => v # w /\ IsWriting(v) /\ wpc'[v] = wpc[v]
  BY DEF WavTyped, IsWriting
<1>4. \A v \in Writers : IsWriting(v)' => fd'[v] \in Writers
  BY <1>3
<1>5. ASSUME ~crossed'
      PROVE  /\ Alone'
             /\ \A v \in Writers : IsWriting(v)' => OwnTemporary(v)'
             /\ part' # None => part' # target'
  BY <1>3, <1>5 DEF Alone, OwnTemporary, Matches
<1>6. TargetWhole'
  BY DEF TargetWhole
<1> QED
  BY <1>1, <1>2, <1>4, <1>5, <1>6

\* Opening takes a file that has not the target's name.
LEMMA OpenKeeps ==
    ASSUME WavInv, NEW w \in Writers, Open(w)
    PROVE  WavInv'
<1> DEFINE file == IF part = None THEN w ELSE part
<1>1. /\ wpc[w] = "idle" /\ wpc' = [wpc EXCEPT ![w] = "opened"]
      /\ fd' = [fd EXCEPT ![w] = file]
      /\ part' = file
      /\ data' = [data EXCEPT ![file] = Empty]
      /\ crossed' = (crossed \/ \E v \in Writers : IsWriting(v))
      /\ target' = target /\ last' = last
  BY DEF Open, At
<1>2. NotMade(w) /\ WavTyped
  BY <1>1 DEF WavInv
<1>3. file \in Writers /\ file # None
  BY <1>2, WavAssumption DEF WavTyped
<1> HIDE DEF file
<1>4. WavTyped'
  BY <1>1, <1>2, <1>3, WavAssumption DEF WavTyped, Places, Files, Empty
<1>5. ASSUME NEW v \in Writers, wpc'[v] = "idle"
      PROVE  NotMade(v)'
  <2>1. v # w /\ wpc[v] = "idle"
    BY <1>1, <1>2, <1>5 DEF WavTyped
  <2>2. NotMade(v) /\ v # file
    BY <2>1 DEF WavInv, NotMade, file
  <2> QED
    BY <1>1, <1>2, <2>1, <2>2 DEF NotMade, WavTyped
<1>6. \A v \in Writers : IsWriting(v)' => fd'[v] \in Writers
  BY <1>1, <1>2, <1>3 DEF WavInv, WavTyped, IsWriting
<1>7. ASSUME ~crossed'
      PROVE  /\ Alone'
             /\ \A v \in Writers : IsWriting(v)' => OwnTemporary(v)'
             /\ part' # None => part' # target'
             /\ TargetWhole'
  <2>1. ~crossed /\ \A v \in Writers : ~IsWriting(v)
    BY <1>1, <1>7, <1>2 DEF WavTyped
  <2>2. \A v \in Writers : IsWriting(v)' => v = w
    BY <1>1, <1>2, <2>1 DEF WavTyped, IsWriting
  <2>3. file # target
    BY <1>2, <2>1 DEF WavInv, NotMade, file
  <2>4. OwnTemporary(w)'
    BY <1>1, <1>2, <2>3 DEF OwnTemporary, Matches, WavTyped
  <2>5. TargetWhole'
    BY <1>1, <1>2, <2>1, <2>3 DEF WavInv, TargetWhole, WavTyped
  <2> QED
    BY <1>1, <2>2, <2>3, <2>4, <2>5 DEF Alone
<1>8. crossed' => TargetWhole'
  BY DEF TargetWhole
<1> QED
  BY <1>4, <1>5, <1>6, <1>7, <1>8 DEF WavInv, TargetWhole

\* Writing goes to a file that has not the target's name.
LEMMA WriteKeeps ==
    ASSUME WavInv, NEW w \in Writers, WriteHead(w) \/ WriteRest(w)
    PROVE  WavInv'
<1>1. /\ wpc[w] \in {"opened", "begun"}
      /\ wpc' = [wpc EXCEPT ![w] = IF wpc[w] = "opened" THEN "begun" ELSE "closed"]
      /\ data' = [data EXCEPT ![fd[w]] =
                    IF wpc[w] = "opened" THEN <<w, data[fd[w]][2]>> ELSE <<data[fd[w]][1], w>>]
      /\ UNCHANGED <<fd, target, part, last, crossed>>
  <2>1. fd[w] \in Files /\ data \in [Files -> (Files \cup {None}) \X (Files \cup {None})]
    BY DEF WavInv, WavTyped, IsWriting, WriteHead, WriteRest, At, Files
  <2>2. PICK a, b : data[fd[w]] = <<a, b>>
    BY <2>1
  <2>3. /\ [<<a, b>> EXCEPT ![1] = w] = <<w, b>>
        /\ [<<a, b>> EXCEPT ![2] = w] = <<a, w>>
        /\ <<a, b>>[1] = a /\ <<a, b>>[2] = b
    OBVIOUS
  <2>4. CASE WriteHead(w)
    <3>1. data' = [data EXCEPT ![fd[w]] = [data[fd[w]] EXCEPT ![1] = w]]
      BY <2>4 DEF WriteHead
    <3>2. [data[fd[w]] EXCEPT ![1] = w] = <<w, data[fd[w]][2]>>
      BY <2>2, <2>3, Zenon
    <3> QED
      BY <2>4, <3>1, <3>2 DEF WriteHead, At
  <2>5. CASE WriteRest(w)
    <3>1. data' = [data EXCEPT ![fd[w]] = [data[fd[w]] EXCEPT ![2] = w]]
      BY <2>5 DEF WriteRest
    <3>2. [data[fd[w]] EXCEPT ![2] = w] = <<data[fd[w]][1], w>>
      BY <2>2, <2>3, Zenon
    <3> QED
      BY <2>5, <3>1, <3>2 DEF WriteRest, At
  <2> QED
    BY <2>4, <2>5
<1>2. WavTyped /\ IsWriting(w) /\ fd[w] \in Writers
  BY <1>1 DEF WavInv, IsWriting
<1>3. WavTyped'
  BY <1>1, <1>2 DEF WavTyped, Places, Files
<1>4. \A v \in Writers : wpc'[v] = "idle" => NotMade(v)'
  BY <1>1, <1>2 DEF WavInv, NotMade, WavTyped
<1>5. \A v \in Writers : IsWriting(v)' <=> IsWriting(v)
  BY <1>1, <1>2 DEF WavTyped, IsWriting
<1>6. \A v \in Writers : IsWriting(v)' => fd'[v] \in Writers
  BY <1>1, <1>5 DEF WavInv
<1>7. ASSUME ~crossed'
      PROVE  /\ Alone'
             /\ \A v \in Writers : IsWriting(v)' => OwnTemporary(v)'
             /\ part' # None => part' # target'
             /\ TargetWhole'
  <2>1. \A v \in Writers : IsWriting(v) => v = w
    BY <1>1, <1>2, <1>7 DEF WavInv, Alone
  <2>2. OwnTemporary(w)
    BY <1>1, <1>2, <1>7 DEF WavInv
  <2>3. OwnTemporary(w)'
    BY <1>1, <1>2, <2>2 DEF OwnTemporary, Matches, WavTyped, Whole, Files
  <2>4. TargetWhole'
    BY <1>1, <1>2, <1>7, <2>2 DEF WavInv, TargetWhole, OwnTemporary, WavTyped, Files
  <2>5. part' # None => part' # target'
    BY <1>1, <1>7 DEF WavInv
  <2> QED
    BY <1>5, <2>1, <2>3, <2>4, <2>5 DEF Alone
<1>8. crossed' => TargetWhole'
  BY DEF TargetWhole
<1> QED
  BY <1>3, <1>4, <1>6, <1>7, <1>8 DEF WavInv, TargetWhole

\* What is moved over the target is the writer's own file, and it is whole.
LEMMA ReplaceKeeps ==
    ASSUME WavInv, NEW w \in Writers, Replace(w)
    PROVE  WavInv'
<1>1. /\ wpc[w] = "closed" /\ wpc' = [wpc EXCEPT ![w] = "placed"]
      /\ part # None /\ target' = part /\ part' = None /\ last' = w
      /\ fd' = fd /\ data' = data /\ crossed' = crossed
  BY DEF Replace, At
<1>2. WavTyped /\ IsWriting(w)
  BY <1>1 DEF WavInv, IsWriting
<1>3. WavTyped'
  BY <1>1, <1>2 DEF WavTyped, Places, Files
<1>4. \A v \in Writers : wpc'[v] = "idle" => NotMade(v)'
  BY <1>1, <1>2, WavAssumption DEF WavInv, NotMade, WavTyped
<1>5. \A v \in Writers : IsWriting(v)' => v # w /\ IsWriting(v)
  BY <1>1, <1>2 DEF WavTyped, IsWriting
<1>6. ASSUME ~crossed'
      PROVE  /\ \A v \in Writers : ~IsWriting(v)'
             /\ TargetWhole'
  <2>1. \A v \in Writers : ~IsWriting(v)'
    BY <1>1, <1>2, <1>5, <1>6 DEF WavInv, Alone
  <2>2. part = fd[w] /\ data[part] = Whole(w)
    BY <1>1, <1>2, <1>6 DEF WavInv, OwnTemporary, Matches
  <2> QED
    BY <1>1, <2>1, <2>2 DEF TargetWhole
<1>7. crossed' => TargetWhole'
  BY DEF TargetWhole
<1>8. \A v \in Writers : IsWriting(v)' => fd'[v] \in Writers
  BY <1>1, <1>5 DEF WavInv
<1> QED
  BY <1>1, <1>3, <1>4, <1>6, <1>7, <1>8 DEF WavInv, Alone

---------------------------------------------------------------------------
LEMMA WavStepKeeps ==
    ASSUME WavInv, NEW w \in Writers, WavStep(w)
    PROVE  WavInv'
<1>1. CASE Refuse(w)
  BY <1>1, StopKeeps DEF Refuse, At
<1>2. CASE Open(w)
  BY <1>2, OpenKeeps
<1>3. CASE WriteHead(w) \/ WriteRest(w)
  BY <1>3, WriteKeeps
<1>4. CASE WriteFails(w) \/ ReplaceFails(w)
  BY <1>4, StopKeeps DEF WriteFails, ReplaceFails, At, Discard
<1>5. CASE Replace(w)
  BY <1>5, ReplaceKeeps
<1>6. CASE Inspect(w) \/ Kill(w)
  BY <1>6, StopKeeps DEF Inspect, Kill, At
<1> QED
  BY <1>1, <1>2, <1>3, <1>4, <1>5, <1>6 DEF WavStep

LEMMA WavStutters ==
    ASSUME WavInv, UNCHANGED wavVars
    PROVE  WavInv'
<1> USE DEF wavVars
<1>1. WavTyped' /\ TargetWhole'
  BY DEF WavInv, WavTyped, TargetWhole
<1>2. \A w \in Writers : /\ NotMade(w)' <=> NotMade(w)
                         /\ IsWriting(w)' <=> IsWriting(w)
                         /\ OwnTemporary(w)' <=> OwnTemporary(w)
  BY DEF NotMade, IsWriting, OwnTemporary, Matches
<1> QED
  BY <1>1, <1>2 DEF WavInv, Alone

THEOREM WavInvariant == WavSpec => []WavInv
<1>1. WavInit => WavInv
  BY WavStarts
<1>2. WavInv /\ [\E w \in Writers : WavStep(w)]_wavVars => WavInv'
  BY WavStepKeeps, WavStutters
<1> QED
  BY <1>1, <1>2, PTL DEF WavSpec

\* write_wav: as long as no two writers were between open and replace at a time,
\* the name holds what was there or one writer's whole audio, for any number of
\* writers, failures and kills.
THEOREM WavAtomic == WavSpec => []TargetWhole
<1>1. WavInv => TargetWhole
  BY DEF WavInv
<1> QED
  BY <1>1, WavInvariant, PTL
=============================================================================
