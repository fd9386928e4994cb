------------------------------ MODULE PoolProofs ------------------------------
(***************************************************************************)
(* Start-up of a pool of any size: it hands over what the scheduler        *)
(* assumes, or leaves nothing behind.                                      *)
(***************************************************************************)
EXTENDS PoolStart, SequenceTheorems, TLAPS

USE PoolAssumption

LEMMA InitPoolType == Init => PoolTypeOK
  BY DEF Init, PoolTypeOK, Workers

LEMMA CleanupOrderCovers ==
    ASSUME cursor \in Workers
    PROVE  /\ CleanupOrder \in Seq(Workers)
           /\ \A w \in Workers : \E i \in 1..Len(CleanupOrder) : CleanupOrder[i] = w
  <1> DEFINE before == [i \in 1..(cursor - 1) |-> i]
             after == [i \in 1..(NumWorkers + 1 - cursor) |-> cursor - 1 + i]
  <1>1. /\ before \in Seq(Workers) /\ Len(before) = cursor - 1
        /\ after \in Seq(Workers) /\ Len(after) = NumWorkers + 1 - cursor
    BY DEF Workers
  <1>2. /\ Reverse(before) \in Seq(Workers) /\ Len(Reverse(before)) = cursor - 1
        /\ \A i \in 1..(cursor - 1) : Reverse(before)[i] = cursor - i
    BY <1>1 DEF Reverse, Workers
  <1>3. /\ CleanupOrder \in Seq(Workers) /\ Len(CleanupOrder) = NumWorkers
        /\ \A i \in 1..(cursor - 1) : CleanupOrder[i] = cursor - i
        /\ \A i \in cursor..NumWorkers : CleanupOrder[i] = i
    <2> DEFINE newest == Reverse(before)
    <2>1. CleanupOrder = newest \o after
      BY DEF CleanupOrder
    <2>2. \A i \in 1..(NumWorkers + 1 - cursor) : after[i] = cursor - 1 + i
      OBVIOUS
    <2>3. newest \in Seq(Workers) /\ Len(newest) = cursor - 1
      BY <1>2
    <2>4. \A i \in 1..(cursor - 1) : newest[i] = cursor - i
      BY <1>2
    <2> HIDE DEF before, after, newest
    <2>5. /\ newest \o after \in Seq(Workers)
          /\ Len(newest \o after) = Len(newest) + Len(after)
          /\ \A i \in 1..(Len(newest) + Len(after)) : (newest \o after)[i] =
                IF i <= Len(newest) THEN newest[i] ELSE after[i - Len(newest)]
      BY <1>1, <2>3, ConcatProperties, Zenon
    <2>6. Len(newest) + Len(after) = NumWorkers
      BY <1>1, <2>3 DEF Workers
    <2>7. CleanupOrder \in Seq(Workers) /\ Len(CleanupOrder) = NumWorkers
      BY <2>1, <2>5, <2>6
    <2>8. \A i \in 1..NumWorkers : CleanupOrder[i] =
             IF i <= cursor - 1 THEN newest[i] ELSE after[i - (cursor - 1)]
      BY <2>1, <2>5, <2>6, <2>3
    <2>9. ASSUME NEW i \in 1..(cursor - 1) PROVE CleanupOrder[i] = cursor - i
      BY <2>4, <2>8 DEF Workers
    <2>10. ASSUME NEW i \in cursor..NumWorkers PROVE CleanupOrder[i] = i
      <3>1. i - (cursor - 1) \in 1..(NumWorkers + 1 - cursor) /\ i \in 1..NumWorkers /\ ~(i <= cursor - 1)
        BY DEF Workers
      <3>2. after[i - (cursor - 1)] = cursor - 1 + (i - (cursor - 1))
        BY <2>2, <3>1
      <3> QED BY <2>8, <3>1, <3>2 DEF Workers
    <2> QED BY <2>7, <2>9, <2>10
  <1>4. ASSUME NEW w \in Workers PROVE \E i \in 1..Len(CleanupOrder) : CleanupOrder[i] = w
    <2>1. CASE w < cursor
      <3>1. cursor - w \in 1..(cursor - 1) /\ cursor - (cursor - w) = w
        BY <2>1 DEF Workers
      <3> QED BY <1>3, <3>1 DEF Workers
    <2>2. CASE w >= cursor
      BY <1>3, <2>2 DEF Workers
    <2> QED BY <2>1, <2>2 DEF Workers
  <1> QED BY <1>3, <1>4

\* What is taken off the queue and off the list of those to shut down.
LEMMA Popped ==
    ASSUME NEW S, NEW s \in Seq(S), s # <<>>
    PROVE  /\ Head(s) \in S /\ Head(s) = s[1] /\ Tail(s) \in Seq(S)
           /\ Len(s) \in Nat /\ Len(s) >= 1 /\ Len(Tail(s)) = Len(s) - 1
           /\ \A i \in 1..Len(Tail(s)) : Tail(s)[i] = s[i + 1]
  <1>1. Len(s) \in Nat /\ Len(s) >= 1
    BY EmptySeq, LenProperties
  <1> QED BY <1>1, HeadTailProperties, ElementOfSeq

LEMMA StepPoolType == PoolTypeOK /\ [Next]_vars => PoolTypeOK'
  <1> SUFFICES ASSUME PoolTypeOK, [Next]_vars PROVE PoolTypeOK'
    OBVIOUS
  <1> USE DEF PoolTypeOK, clientVars, childVars, callVars
  <1>1. pc \in {"start", "await", "abort"} => CleanupOrder \in Seq(Workers)
    BY CleanupOrderCovers
  <1>2. /\ todo # <<>> => Stopping \in Workers /\ Tail(todo) \in Seq(Workers)
        /\ \A w \in Workers : results[w] # <<>> => Tail(results[w]) \in Seq({"ready", "error", "ack"})
    BY Popped DEF Stopping
  <1>3. CASE Spawn \/ SpawnRaises
    BY <1>1, <1>3 DEF Spawn, SpawnRaises, BeginCleanup
  <1>4. CASE AwaitReady
    <2>1. cursor \in Workers /\ cursor \in 1..NumWorkers /\ cursor \in Nat
      BY <1>4 DEF AwaitReady, Workers
    <2>2. cursor' \in 1..(NumWorkers + 1)
      BY <1>4, <2>1 DEF AwaitReady
    <2>3. cursor # NumWorkers => cursor' \in Workers
      BY <1>4, <2>1 DEF AwaitReady, Workers
    <2>4. /\ wstate' \in [Workers -> {"created", "starting", "ready", "stopping", "stopped", "failed"}]
          /\ results' \in [Workers -> Seq({"ready", "error", "ack"})]
      BY <1>2, <1>4, <2>1 DEF AwaitReady
    <2> QED BY <1>4, <2>1, <2>2, <2>3, <2>4 DEF AwaitReady
  <1>5. CASE AwaitError \/ AwaitNothing
    BY <1>2, <1>5 DEF AwaitError, AwaitNothing
  <1>6. CASE Abort \/ StartInterrupted
    <2>1. CASE Abort
      BY <1>1, <2>1 DEF Abort, Terminated, BeginCleanup
    <2>2. CASE StartInterrupted
      BY <1>1, <2>2 DEF StartInterrupted, BeginCleanup
    <2> QED BY <1>6, <2>1, <2>2
  <1>7. CASE CleanCreated \/ CleanFailed \/ CleanDone
    BY <1>2, <1>7 DEF CleanCreated, CleanFailed, CleanDone
  <1>8. CASE AskToStop \/ AskBroken
    BY <1>2, <1>8 DEF AskToStop, AskBroken, StopAndCut
  <1>9. CASE AckTaken \/ AckNothing
    BY <1>2, <1>9 DEF AckTaken, AckNothing
  <1>10. CASE Joined \/ JoinTimedOut
    BY <1>2, <1>10 DEF Joined, JoinTimedOut, StopAndCut
  <1>11. CASE Terminate
    BY <1>2, <1>11 DEF Terminate, Terminated, StopAndCut
  <1>12. CASE StopInterrupted
    <2>1. Stopping \in Workers /\ Tail(todo) \in Seq(Workers) /\ interrupts' \in 0..Interrupts
      BY <1>2, <1>12 DEF StopInterrupted
    <2>2. CASE wstate[Stopping] = "failed"
      BY <1>12, <2>1, <2>2 DEF StopInterrupted
    <2>3. CASE wstate[Stopping] # "failed"
      BY <1>12, <2>1, <2>3 DEF StopInterrupted, StopAndCut
    <2> QED BY <2>2, <2>3
  <1>13. CASE ParentKilled
    BY <1>13 DEF ParentKilled
  <1>14. ASSUME NEW w \in Workers, ChildGoesOn(w) \/ ChildFault(w) \/ ChildCrash(w)
         PROVE  PoolTypeOK'
    <2>1. ASSUME NEW kind \in {"ready", "error", "ack"}, Put(w, kind)
          PROVE  results' \in [Workers -> Seq({"ready", "error", "ack"})]
      BY <2>1, AppendProperties DEF Put
    <2> QED BY <1>14, <2>1 DEF ChildGoesOn, ChildReady, ChildStops, ChildHangsUp, ChildExit, ChildFault, ChildCrash
  <1>15. CASE UNCHANGED vars
    BY <1>15 DEF vars
  <1> QED BY <1>3, <1>4, <1>5, <1>6, <1>7, <1>8, <1>9, <1>10, <1>11, <1>12, <1>13, <1>14, <1>15
       DEF Next, StartCall, CleanCall

\* Every variable of the start-up keeps its type, for any number of workers.
THEOREM PoolTypes == Spec => []PoolTypeOK
  BY InitPoolType, StepPoolType, PTL DEF Spec

---------------------------------------------------------------------------
\* Clean-up: every worker is done, spared, or still on the list.

Done(w) == wstate[w] = "stopped" /\ child[w] \in {"none", "exiting", "dead"}
Listed(w) == \E i \in 1..Len(todo) : todo[i] = w

CreatedHasNoChild == \A w \in Workers : wstate[w] = "created" => child[w] = "none"
CleanupIsComplete ==
    /\ pc \in {"clean", "ack", "join", "terminate"} =>
          \A w \in Workers : Done(w) \/ w \in spared \/ Listed(w)
    /\ pc = "raised" => \A w \in Workers : Done(w) \/ w \in spared
CleanupInv == PoolTypeOK /\ CreatedHasNoChild /\ CleanupIsComplete

\* One worker of the list has been dealt with, nothing happened to the others.
LEMMA OneLess ==
    ASSUME CleanupInv, todo # <<>>, pc \in {"clean", "ack", "join", "terminate"},
           todo' = Tail(todo), spared \subseteq spared',
           \A w \in Workers \ {Stopping} : wstate'[w] = wstate[w] /\ child'[w] = child[w],
           NEW s \in Workers, s = Stopping, Done(s)' \/ s \in spared'
    PROVE  \A w \in Workers : Done(w)' \/ w \in spared' \/ Listed(w)'
  <1> SUFFICES ASSUME NEW w \in Workers, w # Stopping
               PROVE  Done(w)' \/ w \in spared' \/ Listed(w)'
    OBVIOUS
  <1>1. Done(w) \/ w \in spared \/ Listed(w)
    BY DEF CleanupInv, CleanupIsComplete
  <1>2. CASE Done(w) \/ w \in spared
    BY <1>2 DEF Done
  <1>3. CASE Listed(w)
    <2>1. PICK i \in 1..Len(todo) : todo[i] = w
      BY <1>3 DEF Listed
    <2>2. /\ Len(todo) \in Nat /\ Len(Tail(todo)) = Len(todo) - 1
          /\ Stopping = todo[1]
          /\ \A j \in 1..Len(Tail(todo)) : Tail(todo)[j] = todo[j + 1]
      BY Popped DEF CleanupInv, PoolTypeOK, Stopping
    <2>3. i # 1
      BY <2>1, <2>2
    <2>4. i - 1 \in 1..Len(Tail(todo)) /\ Tail(todo)[i - 1] = w
      BY <2>1, <2>2, <2>3
    <2> QED BY <2>4 DEF Listed
  <1> QED BY <1>1, <1>2, <1>3

\* The list with which the clean-up starts names everybody.
LEMMA BeginCleanupLists ==
    ASSUME PoolTypeOK, pc \in {"start", "await", "abort"}, BeginCleanup
    PROVE  CleanupIsComplete'
  <1>1. \A w \in Workers : \E i \in 1..Len(CleanupOrder) : CleanupOrder[i] = w
    BY CleanupOrderCovers DEF PoolTypeOK
  <1> QED BY <1>1 DEF BeginCleanup, CleanupIsComplete, Listed

LEMMA StepCleanupInv == CleanupInv /\ [Next]_vars => CleanupInv'
  <1> SUFFICES ASSUME CleanupInv, [Next]_vars PROVE CreatedHasNoChild' /\ CleanupIsComplete'
    BY StepPoolType DEF CleanupInv
  <1> USE DEF CleanupInv, clientVars, childVars, callVars
  <1>1. todo # <<>> => Stopping \in Workers
    BY Popped DEF Stopping, PoolTypeOK
  <1>2. CASE Spawn
    BY <1>2 DEF Spawn, PoolTypeOK, CreatedHasNoChild, CleanupIsComplete
  <1>3. CASE SpawnRaises
    <2>1. CleanupIsComplete'
      BY <1>3, BeginCleanupLists DEF SpawnRaises
    <2> QED BY <1>3, <2>1 DEF SpawnRaises, PoolTypeOK, CreatedHasNoChild
  <1>4. CASE AwaitReady \/ AwaitError \/ AwaitNothing
    BY <1>4 DEF AwaitReady, AwaitError, AwaitNothing, PoolTypeOK, CreatedHasNoChild, CleanupIsComplete
  <1>5. CASE Abort
    <2>1. CleanupIsComplete'
      BY <1>5, BeginCleanupLists DEF Abort
    <2> QED BY <1>5, <2>1 DEF Abort, Terminated, PoolTypeOK, CreatedHasNoChild
  <1>6. CASE StartInterrupted
    <2>1. CleanupIsComplete'
      BY <1>6, BeginCleanupLists DEF StartInterrupted
    <2> QED BY <1>6, <2>1 DEF StartInterrupted, CreatedHasNoChild
  <1>7. CASE CleanCreated
    <2>1. PICK s \in Workers : s = Stopping
      BY <1>1, <1>7 DEF CleanCreated
    <2>2. /\ Done(s)' /\ todo' = Tail(todo) /\ spared' = spared /\ pc' = "clean"
          /\ \A w \in Workers \ {Stopping} : wstate'[w] = wstate[w] /\ child'[w] = child[w]
      BY <1>7, <2>1 DEF CleanCreated, Done, CreatedHasNoChild, PoolTypeOK
    <2>3. \A w \in Workers : Done(w)' \/ w \in spared' \/ Listed(w)'
      BY <1>7, <2>1, <2>2, OneLess DEF CleanCreated
    <2> QED BY <1>7, <2>1, <2>2, <2>3 DEF CleanCreated, CreatedHasNoChild, CleanupIsComplete, PoolTypeOK
  <1>8. CASE CleanFailed \/ AckTaken \/ AckNothing \/ JoinTimedOut
    BY <1>8 DEF CleanFailed, AckTaken, AckNothing, JoinTimedOut, CreatedHasNoChild, CleanupIsComplete, Done, Listed
  <1>9. CASE AskToStop
    <2>1. \A w \in Workers : Done(w) => Done(w)'
      BY <1>1, <1>9 DEF AskToStop, Done, PoolTypeOK
    <2> QED BY <1>1, <1>9, <2>1 DEF AskToStop, CreatedHasNoChild, CleanupIsComplete, Listed, PoolTypeOK
  <1>10. CASE AskBroken \/ Joined \/ Terminate
    <2>1. PICK s \in Workers : s = Stopping
      BY <1>1, <1>10 DEF AskBroken, Joined, Terminate, PoolTypeOK
    <2>2. /\ pc \in {"clean", "join", "terminate"} /\ todo # <<>>
          /\ wstate' = [wstate EXCEPT ![s] = "stopped"]
          /\ todo' = Tail(todo) /\ pc' = "clean" /\ spared' = spared
      BY <1>10, <2>1 DEF AskBroken, Joined, Terminate, StopAndCut, PoolTypeOK
    <2>3. /\ child'[s] \in {"none", "exiting", "dead"}
          /\ \A w \in Workers \ {s} : child'[w] = child[w]
      BY <1>10, <2>1 DEF AskBroken, Joined, Terminate, Terminated, IsAlive, PoolTypeOK
    <2>4. /\ Done(s)'
          /\ \A w \in Workers \ {Stopping} : wstate'[w] = wstate[w] /\ child'[w] = child[w]
      BY <2>1, <2>2, <2>3 DEF Done, PoolTypeOK
    <2>5. \A w \in Workers : Done(w)' \/ w \in spared' \/ Listed(w)'
      BY <2>1, <2>2, <2>4, OneLess
    <2>6. CreatedHasNoChild'
      BY <2>1, <2>2, <2>3 DEF CreatedHasNoChild, PoolTypeOK
    <2> QED BY <2>2, <2>5, <2>6 DEF CleanupIsComplete
  <1>11. CASE StopInterrupted
    <2>1. PICK s \in Workers : s = Stopping
      BY <1>1, <1>11 DEF StopInterrupted, PoolTypeOK
    <2>2. /\ pc \in {"ack", "join", "terminate"} /\ todo # <<>>
          /\ todo' = Tail(todo) /\ pc' = "clean"
          /\ spared' = spared \cup {s} /\ child' = child
      BY <1>11, <2>1 DEF StopInterrupted, StopAndCut, PoolTypeOK
    <2>3. wstate' = wstate \/ wstate' = [wstate EXCEPT ![s] = "stopped"]
      BY <1>11, <2>1 DEF StopInterrupted, StopAndCut
    <2>4. \A w \in Workers \ {Stopping} : wstate'[w] = wstate[w] /\ child'[w] = child[w]
      BY <2>1, <2>2, <2>3 DEF PoolTypeOK
    <2>5. \A w \in Workers : Done(w)' \/ w \in spared' \/ Listed(w)'
      BY <2>1, <2>2, <2>4, OneLess
    <2>6. CreatedHasNoChild'
      BY <2>1, <2>2, <2>3 DEF CreatedHasNoChild, PoolTypeOK
    <2> QED BY <2>2, <2>5, <2>6 DEF CleanupIsComplete
  <1>12. CASE CleanDone
    <2>1. \A w \in Workers : ~Listed(w)
      BY <1>12 DEF CleanDone, Listed
    <2> QED BY <1>12, <2>1 DEF CleanDone, CleanupIsComplete, CreatedHasNoChild, Done
  <1>13. CASE ParentKilled
    BY <1>13 DEF ParentKilled, CleanupIsComplete, CreatedHasNoChild
  <1>14. ASSUME NEW w \in Workers, ChildGoesOn(w) \/ ChildFault(w) \/ ChildCrash(w)
         PROVE  CreatedHasNoChild' /\ CleanupIsComplete'
    <2>1. /\ child[w] \in {"loading", "serving", "exiting"}
          /\ child' = [child EXCEPT ![w] = child'[w]]
          /\ child[w] = "exiting" => child'[w] = "dead"
          /\ UNCHANGED <<wstate, pc, todo, spared>>
      BY <1>14 DEF ChildGoesOn, ChildReady, ChildStops, ChildHangsUp, ChildExit, ChildFault, ChildCrash, IsAlive, PoolTypeOK
    <2>2. \A v \in Workers : Done(v) => Done(v)'
      BY <2>1 DEF Done, PoolTypeOK
    <2> QED BY <2>1, <2>2 DEF CreatedHasNoChild, CleanupIsComplete, Listed, PoolTypeOK
  <1>15. CASE UNCHANGED vars
    BY <1>15 DEF vars, CreatedHasNoChild, CleanupIsComplete, Done, Listed
  <1> QED BY <1>2, <1>3, <1>4, <1>5, <1>6, <1>7, <1>8, <1>9, <1>10, <1>11, <1>12, <1>13, <1>14, <1>15
       DEF Next, StartCall, CleanCall

\* A start-up that raises has stopped every client and left no child alive, for
\* any number of workers, any crashes and any number of Ctrl-C.
THEOREM NothingIsLeft == Spec => []NothingLeftBehind
  <1>1. Init => CleanupInv
    BY InitPoolType DEF CleanupInv, Init, CreatedHasNoChild, CleanupIsComplete
  <1>2. CleanupInv => NothingLeftBehind
    BY DEF CleanupInv, CleanupIsComplete, NothingLeftBehind, Done, IsAlive
  <1> QED BY <1>1, <1>2, StepCleanupInv, PTL DEF Spec

---------------------------------------------------------------------------
\* Start-up: those behind the cursor are up, those before it untouched.

Fresh(w) == child[w] = "none" /\ results[w] = <<>>
Loading(w) ==
    /\ wstate[w] = "starting"
    /\ \/ child[w] = "loading" /\ results[w] = <<>>
       \/ child[w] = "serving" /\ results[w] = <<"ready">>
       \/ child[w] \in {"exiting", "dead"} /\ results[w] \in {<<>>, <<"ready">>, <<"error">>, <<"ready", "error">>}
Up(w) ==
    /\ wstate[w] = "ready"
    /\ \/ child[w] = "serving" /\ results[w] = <<>>
       \/ child[w] \in {"exiting", "dead"} /\ results[w] \in {<<>>, <<"error">>}

InOrder ==
    pc \in {"start", "await", "running"} =>
        /\ asked = {} /\ cut = {}
        /\ \A w \in Workers :
              /\ w < cursor => Up(w)
              /\ w = cursor => IF pc = "await" THEN Loading(w) ELSE Fresh(w)
              /\ w > cursor => Fresh(w)
        /\ pc = "running" => cursor = NumWorkers + 1
StartInv == PoolTypeOK /\ InOrder

LEMMA AppendSecond == ASSUME NEW a, NEW b PROVE Append(<<a>>, b) = <<a, b>>
  <1> DEFINE S == {a, b}
  <1>1. \A s \in Seq(S) : Len(s) = 1 =>
           /\ Append(s, b) \in Seq(S) /\ Len(Append(s, b)) = 2
           /\ Append(s, b)[1] = s[1] /\ Append(s, b)[2] = b
    <2> SUFFICES ASSUME NEW s \in Seq(S), Len(s) = 1
                 PROVE  /\ Append(s, b) \in Seq(S) /\ Len(Append(s, b)) = 2
                        /\ Append(s, b)[1] = s[1] /\ Append(s, b)[2] = b
      OBVIOUS
    <2>1. b \in S
      OBVIOUS
    <2> HIDE DEF S
    <2>2. Append(s, b) \in Seq(S)
      BY <2>1
    <2>3. Len(Append(s, b)) = Len(s) + 1
      BY <2>1, AppendProperties
    <2>4. Append(s, b)[1] = s[1]
      BY <2>1
    <2>5. Append(s, b)[Len(s) + 1] = b
      BY <2>1, AppendProperties
    <2> QED BY <2>2, <2>3, <2>4, <2>5
  <1>2. <<a>> \in Seq(S) /\ Len(<<a>>) = 1 /\ <<a>>[1] = a
    OBVIOUS
  <1>3. <<a, b>> \in Seq(S) /\ Len(<<a, b>>) = 2 /\ <<a, b>>[1] = a /\ <<a, b>>[2] = b
    OBVIOUS
  <1> HIDE DEF S
  <1>4. \A s, t \in Seq(S) : Len(s) = 2 /\ Len(t) = 2 /\ s[1] = t[1] /\ s[2] = t[2] => s = t
    <2> SUFFICES ASSUME NEW s \in Seq(S), NEW t \in Seq(S),
                        Len(s) = 2, Len(t) = 2, s[1] = t[1], s[2] = t[2]
                 PROVE  s = t
      OBVIOUS
    <2>1. \A i \in 1..Len(s) : s[i] = t[i]
      OBVIOUS
    <2> QED BY <2>1, SeqEqual
  <1> QED BY <1>1, <1>2, <1>3, <1>4

\* What the two messages of a loading child come to.
LEMMA Words ==
    /\ Append(<<>>, "ready") = <<"ready">> /\ Append(<<>>, "error") = <<"error">>
    /\ Append(<<"ready">>, "error") = <<"ready", "error">>
    /\ Head(<<"ready">>) = "ready" /\ Tail(<<"ready">>) = <<>>
    /\ Head(<<"error">>) = "error" /\ Tail(<<"error">>) = <<>>
    /\ Head(<<"ready", "error">>) = "ready" /\ Tail(<<"ready", "error">>) = <<"error">>
    /\ <<"ready">> # <<>> /\ <<"error">> # <<>>
  <1>1. Append(<<>>, "ready") = <<"ready">>
    OBVIOUS
  <1>2. Append(<<>>, "error") = <<"error">>
    OBVIOUS
  <1>3. Append(<<"ready">>, "error") = <<"ready", "error">>
    BY AppendSecond
  <1>4. Head(<<"ready">>) = "ready"
    OBVIOUS
  <1>5. Tail(<<"ready">>) = <<>>
    OBVIOUS
  <1>6. Head(<<"error">>) = "error"
    OBVIOUS
  <1>7. Tail(<<"error">>) = <<>>
    OBVIOUS
  <1>8. Head(<<"ready", "error">>) = "ready"
    OBVIOUS
  <1>9. Tail(<<"ready", "error">>) = <<"error">>
    OBVIOUS
  <1>10. <<"ready">> # <<>> /\ <<"error">> # <<>>
    OBVIOUS
  <1> QED BY <1>1, <1>2, <1>3, <1>4, <1>5, <1>6, <1>7, <1>8, <1>9, <1>10

LEMMA ChildKeepsOrder ==
    ASSUME NEW w \in Workers, StartInv, asked = {}, cut = {},
           ChildGoesOn(w) \/ ChildFault(w) \/ ChildCrash(w)
    PROVE  /\ Up(w) => Up(w)'
           /\ Loading(w) => Loading(w)'
           /\ Fresh(w) => Fresh(w)'
  <1> USE DEF StartInv, PoolTypeOK, clientVars, childVars, callVars
  <1>1. CASE ChildReady(w)
    BY <1>1, Words DEF ChildReady, Put, Up, Loading, Fresh
  <1>2. CASE ChildStops(w) \/ ChildHangsUp(w)
    BY <1>2 DEF ChildStops, ChildHangsUp
  <1>3. CASE ChildExit(w)
    BY <1>3 DEF ChildExit, Up, Loading, Fresh
  <1>4. CASE ChildFault(w)
    BY <1>4, Words DEF ChildFault, Put, Up, Loading, Fresh
  <1>5. CASE ChildCrash(w)
    BY <1>5 DEF ChildCrash, IsAlive, Up, Loading, Fresh
  <1> QED BY <1>1, <1>2, <1>3, <1>4, <1>5 DEF ChildGoesOn

LEMMA StepStartInv == StartInv /\ [Next]_vars => StartInv'
  <1> SUFFICES ASSUME StartInv, [Next]_vars PROVE InOrder'
    BY StepPoolType DEF StartInv
  <1> USE DEF StartInv, clientVars, childVars, callVars
  <1>1. CASE Spawn
    BY <1>1 DEF Spawn, PoolTypeOK, InOrder, Up, Loading, Fresh
  <1>2. CASE AwaitReady
    <2>1. PICK c \in Workers : c = cursor
      BY <1>2 DEF AwaitReady, PoolTypeOK
    <2>2. Loading(c) /\ results[c] # <<>> /\ Head(results[c]) = "ready"
      BY <1>2, <2>1 DEF AwaitReady, InOrder
    <2>3. \/ child[c] = "serving" /\ Tail(results[c]) = <<>>
          \/ child[c] \in {"exiting", "dead"} /\ Tail(results[c]) \in {<<>>, <<"error">>}
      BY <2>2, Words DEF Loading
    <2>4. Up(c)'
      BY <1>2, <2>1, <2>3 DEF AwaitReady, Up, PoolTypeOK
    <2>5. ASSUME NEW w \in Workers, w # c
          PROVE  (Up(w) => Up(w)') /\ (Fresh(w) => Fresh(w)')
      BY <1>2, <2>1, <2>5 DEF AwaitReady, Up, Fresh, PoolTypeOK
    <2>6. cursor' = c + 1 /\ asked' = {} /\ cut' = {}
      BY <1>2, <2>1 DEF AwaitReady, InOrder
    <2>7. pc' = IF c = NumWorkers THEN "running" ELSE "start"
      BY <1>2, <2>1 DEF AwaitReady
    <2>8. ASSUME NEW w \in Workers
          PROVE  (w < c + 1 => Up(w)') /\ (w >= c + 1 => Fresh(w)')
      BY <1>2, <2>1, <2>4, <2>5 DEF AwaitReady, InOrder, Workers
    <2> QED BY <2>6, <2>7, <2>8 DEF InOrder, Workers
  <1>3. CASE pc' \notin {"start", "await", "running"}
    BY <1>3 DEF InOrder
  <1>4. ASSUME NEW w \in Workers, ChildGoesOn(w) \/ ChildFault(w) \/ ChildCrash(w)
         PROVE  InOrder'
    <2>1. UNCHANGED callVars
      BY <1>4 DEF ChildGoesOn, ChildReady, ChildStops, ChildHangsUp, ChildExit, ChildFault, ChildCrash
    <2> SUFFICES ASSUME pc \in {"start", "await", "running"} PROVE InOrder'
      BY <2>1 DEF InOrder
    <2>2. asked = {} /\ cut = {}
      BY DEF InOrder
    <2>3. UNCHANGED clientVars /\ asked' = {}
      BY <1>4, <2>2 DEF ChildGoesOn, ChildReady, ChildStops, ChildHangsUp, ChildExit, ChildFault, ChildCrash
    <2>4. ASSUME NEW v \in Workers, v # w
          PROVE  child'[v] = child[v] /\ results'[v] = results[v] /\ wstate'[v] = wstate[v]
      BY <1>4, <2>3, <2>4 DEF ChildGoesOn, ChildReady, ChildStops, ChildHangsUp, ChildExit, ChildFault, ChildCrash, Put, PoolTypeOK
    <2>5. \A v \in Workers : (Up(v) => Up(v)') /\ (Loading(v) => Loading(v)') /\ (Fresh(v) => Fresh(v)')
      BY <1>4, <2>2, <2>4, ChildKeepsOrder DEF Up, Loading, Fresh
    <2> QED BY <2>1, <2>2, <2>3, <2>5 DEF InOrder
  <1>5. CASE UNCHANGED vars
    BY <1>5 DEF vars, InOrder, Up, Loading, Fresh
  <1>6. CASE StartInterrupted \/ StopInterrupted \/ ParentKilled \/ SpawnRaises \/ AwaitError \/ AwaitNothing \/ Abort \/ CleanCall
    <2>1. pc' \notin {"start", "await", "running"}
      BY <1>6 DEF StartInterrupted, StopInterrupted, ParentKilled, SpawnRaises, AwaitError, AwaitNothing, Abort, BeginCleanup,
                  CleanCall, CleanCreated, CleanFailed, AskToStop, AskBroken, AckTaken, AckNothing, Joined, JoinTimedOut, Terminate, CleanDone, StopAndCut
    <2> QED BY <1>3, <2>1
  <1> QED BY <1>1, <1>2, <1>4, <1>5, <1>6 DEF Next, StartCall

\* A start-up that returns has handed over a pool in the scheduler's initial
\* state, or fallen out of it since, for any number of workers.
THEOREM PoolIsHandedOver == Spec => []HandsOver
  <1>1. Init => StartInv
    BY InitPoolType DEF StartInv, Init, InOrder, Fresh, Workers
  <1>2. StartInv => HandsOver
    <2> SUFFICES ASSUME StartInv, pc = "running", NEW w \in Workers
                 PROVE  /\ wstate[w] = "ready" /\ w \notin asked \cup cut
                        /\ child[w] \in {"serving", "exiting", "dead"}
                        /\ child[w] = "serving" => results[w] = <<>>
                        /\ results[w] \in {<<>>, <<"error">>}
      BY DEF HandsOver
    <2>1. w < cursor
      BY DEF StartInv, InOrder, Workers
    <2> QED BY <2>1 DEF StartInv, InOrder, Up
  <1> QED BY <1>1, <1>2, StepStartInv, PTL DEF Spec
=============================================================================
