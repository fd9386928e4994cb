---------------------------- MODULE BackendProofs ----------------------------
(***************************************************************************)
(* Both backends keep the contract, and neither leaves upstream half read, *)
(* for any number of chunks and any order of calls. What makes it true is  *)
(* how far the real generator is ahead: by one chunk until it has yielded  *)
(* the last, and then not at all.                                          *)
(***************************************************************************)
EXTENDS Backend, TLAPS

BackendTyped ==
    /\ kind \in {"real", "fake"}
    /\ bstate \in {"created", "loaded", "closed"}
    /\ model \in BOOLEAN
    /\ gen \in {"none", "fresh", "suspended", "ended", "failed", "dropped"}
    /\ sequence \in Nat /\ pulled \in Nat
    /\ final \in BOOLEAN
    /\ upstream \in {"none", "suspended", "over", "stuck"}

\* What has not begun has done nothing.
Fresh ==
    /\ bstate = "created" => gen = "none"
    /\ gen \in {"none", "fresh"} => sequence = 0 /\ final = FALSE /\ upstream = "none"
    /\ gen = "fresh" => pulled = 0 <=> kind = "real"

\* The real generator has read one chunk more than it gave, up to the last.
AheadByOne ==
    kind = "real" /\ gen = "suspended" =>
        /\ pulled = sequence + (IF final THEN 0 ELSE 1)
        /\ upstream = IF final THEN "over" ELSE "suspended"

\* The fake one marks the chunk that ends its result.
InResult ==
    kind = "fake" =>
        /\ upstream = "none"
        /\ gen = "suspended" => sequence <= pulled /\ (final <=> sequence = pulled)

BackendInv ==
    /\ BackendTyped
    /\ model = (kind = "real" /\ bstate = "loaded")
    /\ Fresh
    /\ AheadByOne
    /\ InResult
    /\ UpstreamReleased

USE BackendAssumption

---------------------------------------------------------------------------
LEMMA BackendStarts == BackendInit => BackendInv
<1> SUFFICES ASSUME BackendInit PROVE BackendInv
  OBVIOUS
<1>1. BackendTyped /\ model = (kind = "real" /\ bstate = "loaded")
  BY DEF BackendInit, BackendTyped
<1>2. Fresh /\ AheadByOne /\ InResult /\ UpstreamReleased
  BY DEF BackendInit, Fresh, AheadByOne, InResult, UpstreamReleased, Idle
<1> QED
  BY <1>1, <1>2 DEF BackendInv

LEMMA BackendStutters == BackendInv /\ UNCHANGED backendVars => BackendInv'
  BY DEF BackendInv, BackendTyped, Fresh, AheadByOne, InResult, UpstreamReleased, Idle,
         backendVars, streamVars

\* load, close and the one-shot operations do not touch the stream.
LEMMA LifeKeeps ==
    ASSUME BackendInv,
           \/ \E k \in {"real", "fake"} : Construct(k)
           \/ LoadSucceeds \/ LoadFails \/ OneShot \/ CloseSucceeds \/ CloseFails \/ StreamRefused
    PROVE  BackendInv'
<1>1. CASE LoadFails \/ OneShot \/ CloseFails \/ StreamRefused
  <2>1. UNCHANGED backendVars
    BY <1>1 DEF LoadFails, OneShot, CloseFails, StreamRefused
  <2> QED
    BY <2>1, BackendStutters
<1> USE DEF BackendInv, BackendTyped, Fresh, AheadByOne, InResult, UpstreamReleased, Idle, streamVars
<1>2. CASE \E k \in {"real", "fake"} : Construct(k)
  BY <1>2 DEF Construct
<1>3. CASE LoadSucceeds
  BY <1>3 DEF LoadSucceeds
<1>4. CASE CloseSucceeds
  BY <1>4 DEF CloseSucceeds
<1> QED
  BY <1>1, <1>2, <1>3, <1>4

\* The calls of the generator, and what begins and ends it.
LEMMA StreamKeeps ==
    ASSUME BackendInv,
           \/ \E n \in 1..MaxChunks : StreamBegins(n)
           \/ NextYields \/ NextEnds \/ NextRaises \/ StreamDropped \/ StreamForgotten
    PROVE  BackendInv'
<1> USE DEF BackendInv, BackendTyped, Fresh, AheadByOne, InResult, UpstreamReleased, Idle
<1>1. CASE \E n \in 1..MaxChunks : StreamBegins(n)
  <2>1. PICK n \in 1..MaxChunks : StreamBegins(n)
    BY <1>1
  <2>2. n \in Nat /\ n # 0
    OBVIOUS
  <2>3. BackendTyped' /\ model' = (kind' = "real" /\ bstate' = "loaded")
    BY <2>1, <2>2 DEF StreamBegins
  <2>4. Fresh' /\ AheadByOne' /\ InResult' /\ UpstreamReleased'
    BY <2>1, <2>2 DEF StreamBegins
  <2> QED
    BY <2>3, <2>4
<1>2. CASE NextChunk
  BY <1>2 DEF NextChunk, Resumes, Ahead
<1>3. CASE NextLast
  BY <1>3 DEF NextLast, Resumes, Ahead
<1>4. CASE NextSlice
  <2>1. final' \in BOOLEAN /\ (final' <=> sequence' = pulled')
    BY <1>4 DEF NextSlice
  <2> QED
    BY <1>4, <2>1 DEF NextSlice
<1>5. CASE NextEnds
  BY <1>5 DEF NextEnds
<1>6. CASE NextRefused \/ NextEmpty \/ NextEndRaises
  BY <1>6 DEF NextRefused, StreamFails, NextEmpty, NextEndRaises
<1>7. CASE NextFails
  BY <1>7 DEF NextFails, StreamFails, Resumes
<1>8. CASE NextNotAudio
  BY <1>8 DEF NextNotAudio, StreamFails, Resumes
<1>9. CASE StreamDropped
  BY <1>9 DEF StreamDropped
<1>10. CASE StreamForgotten
  BY <1>10 DEF StreamForgotten
<1> QED
  BY <1>1, <1>2, <1>3, <1>4, <1>5, <1>6, <1>7, <1>8, <1>9, <1>10 DEF NextYields, NextRaises

LEMMA BackendKeeps == BackendInv /\ [BackendNext]_backendVars => BackendInv'
<1>1. BackendInv /\ BackendNext => BackendInv'
  BY LifeKeeps, StreamKeeps DEF BackendNext
<1> QED
  BY <1>1, BackendStutters

THEOREM BackendInvariant == BackendSpec => []BackendInv
  BY BackendStarts, BackendKeeps, PTL DEF BackendSpec

\* _iterate_stream and its finally clause: whatever was called and whatever
\* failed, a stream that is not being read holds nothing open upstream.
THEOREM BackendReleases == BackendSpec => []UpstreamReleased
<1>1. BackendInv => UpstreamReleased
  BY DEF BackendInv
<1> QED
  BY <1>1, BackendInvariant, PTL

\* No more is yielded than was taken, and no more is taken than there is.
Counted == sequence <= pulled /\ pulled <= MaxChunks

LEMMA CountedKeeps == BackendInv /\ Counted /\ [BackendNext]_backendVars => Counted'
<1> SUFFICES ASSUME BackendInv, Counted, [BackendNext]_backendVars PROVE Counted'
  OBVIOUS
<1>1. sequence \in Nat /\ pulled \in Nat /\ MaxChunks \in Nat \ {0}
  BY DEF BackendInv, BackendTyped
<1>2. CASE sequence' = sequence /\ pulled' = pulled
  BY <1>2 DEF Counted
<1>3. CASE \E n \in 1..MaxChunks : StreamBegins(n)
  BY <1>1, <1>3 DEF StreamBegins, Counted
<1>4. CASE NextChunk \/ NextLast
  BY <1>1, <1>4 DEF NextChunk, NextLast, Resumes, Ahead, Counted, BackendInv, Fresh, AheadByOne
<1>5. CASE NextSlice
  BY <1>1, <1>5 DEF NextSlice, Counted
<1>6. CASE NextNotAudio
  BY <1>1, <1>6 DEF NextNotAudio, StreamFails, Ahead, Counted
<1>7. CASE StreamForgotten
  BY <1>1, <1>7 DEF StreamForgotten, Counted
<1>8. CASE \/ \E k \in {"real", "fake"} : Construct(k)
           \/ LoadSucceeds \/ LoadFails \/ OneShot \/ CloseSucceeds \/ CloseFails \/ StreamRefused
           \/ NextEnds \/ NextEndRaises \/ NextRefused \/ NextEmpty \/ NextFails \/ StreamDropped
           \/ UNCHANGED backendVars
  BY <1>2, <1>8 DEF Construct, LoadSucceeds, LoadFails, OneShot, CloseSucceeds, CloseFails, StreamRefused,
       NextEnds, NextEndRaises, NextRefused, StreamFails, NextEmpty, NextFails, StreamDropped,
       backendVars, streamVars
<1> QED
  BY <1>3, <1>4, <1>5, <1>6, <1>7, <1>8 DEF BackendNext, NextYields, NextRaises

\* No chunk is given that upstream did not make, for streams of any length.
THEOREM BackendCounts == BackendSpec => []Counted
<1>1. BackendInit => Counted
  BY DEF BackendInit, Counted
<1> QED
  BY <1>1, CountedKeeps, BackendInvariant, PTL DEF BackendSpec

---------------------------------------------------------------------------
\* Every step of a backend is one of the contract, or changes nothing in it.
LEMMA BackendRefines ==
    BackendInv /\ [BackendNext]_backendVars =>
        [Promised!Load \/ Promised!Close \/ Promised!Begin \/ Promised!Give \/ Promised!End
            \/ Promised!Fail \/ Promised!Drop \/ Promised!Forget]_(Promised!contractVars)
<1> DEFINE Kept ==
      [Promised!Load \/ Promised!Close \/ Promised!Begin \/ Promised!Give \/ Promised!End
          \/ Promised!Fail \/ Promised!Drop \/ Promised!Forget]_(Promised!contractVars)
<1> SUFFICES ASSUME BackendInv, [BackendNext]_backendVars PROVE Kept
  OBVIOUS
<1> USE DEF BackendInv, BackendTyped, StreamPhase, Promised!contractVars
<1>1. CASE \/ \E k \in {"real", "fake"} : Construct(k)
           \/ LoadFails \/ OneShot \/ CloseFails \/ StreamRefused
           \/ UNCHANGED backendVars
  BY <1>1 DEF Construct, LoadFails, OneShot, CloseFails, StreamRefused, backendVars, streamVars
<1>2. CASE LoadSucceeds
  BY <1>2 DEF LoadSucceeds, streamVars, Promised!Load
<1>3. CASE CloseSucceeds
  BY <1>3 DEF CloseSucceeds, streamVars, Promised!Close
<1>4. CASE \E n \in 1..MaxChunks : StreamBegins(n)
  BY <1>4 DEF StreamBegins, Idle, Promised!Begin
<1>5. CASE NextYields
  <2>1. CASE NextChunk
    BY <2>1 DEF NextChunk, Resumes, Promised!Give
  <2>2. CASE NextLast
    BY <2>2 DEF NextLast, Resumes, Promised!Give
  <2>3. CASE NextSlice
    <3>1. final = FALSE /\ final' \in BOOLEAN
      BY <2>3 DEF NextSlice, Fresh, InResult
    <3> QED
      BY <2>3, <3>1 DEF NextSlice, Promised!Give
  <2> QED
    BY <1>5, <2>1, <2>2, <2>3 DEF NextYields
<1>6. CASE NextEnds
  BY <1>6 DEF NextEnds, Promised!End
<1>7. CASE NextRaises
  BY <1>7 DEF NextRaises, NextRefused, StreamFails, NextEmpty, NextFails, NextNotAudio, NextEndRaises,
              Resumes, Fresh, Promised!Fail
<1>8. CASE StreamDropped
  BY <1>8 DEF StreamDropped, Promised!Drop, Promised!Fail
<1>9. CASE StreamForgotten
  BY <1>9 DEF StreamForgotten, Idle, Fresh, Promised!Forget
<1> QED
  BY <1>1, <1>2, <1>3, <1>4, <1>5, <1>6, <1>7, <1>8, <1>9 DEF BackendNext

\* docs/BACKENDS.md: PytorchVoxCPMBackend and FakeVoxCPMBackend implement the
\* protocol of backend.py, for streams of any length.
THEOREM BackendImplements == BackendSpec => ContractKept
<1>1. BackendInit => Promised!ContractInit
  BY DEF BackendInit, Promised!ContractInit, StreamPhase
<1> QED
  BY <1>1, BackendRefines, BackendInvariant, PTL DEF BackendSpec, ContractKept, Promised!Contract
=============================================================================
