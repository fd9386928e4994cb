--------------------------- MODULE SchedulerProofs ---------------------------
(***************************************************************************)
(* Theorems about Scheduler for every number of workers, every set of      *)
(* requests and every bound.                                               *)
(***************************************************************************)
EXTENDS Scheduler, FiniteSetTheorems, SequenceTheorems, TLAPS

USE ChannelAssumption, SchedulerAssumption

---------------------------------------------------------------------------
\* Lemmas about the operators

LEMMA WorkersFinite == IsFiniteSet(Workers) /\ Cardinality(Workers) = NumWorkers
  BY FS_Interval DEF Workers

LEMMA GoToType ==
    ASSUME NEW call \in Calls, NEW from, NEW act, GoTo(call, from, act)
    PROVE  pc' \in Calls /\ cursor' \in 1..(NumWorkers + 1)
  BY DEF GoTo

LEMMA MessagesAreEvents == Message \subseteq Event
  BY DEF Message, Event, Codes, ChildCodes

LEMMA MsgType ==
    ASSUME NEW r \in OptRequest, NEW code \in Codes
    PROVE  Msg(r, code, 0) \in Event
  BY DEF Msg, Event

LEMMA EventsForType ==
    ASSUME NEW q \in Seq(Requests), NEW code \in Codes
    PROVE  EventsFor(q, code) \in Seq(Event) /\ Len(EventsFor(q, code)) = Len(q)
  <1>1. \A i \in 1..Len(q) : Msg(q[i], code, 0) \in Event
    BY MsgType DEF OptRequest
  <1> QED BY <1>1 DEF EventsFor

LEMMA RemoveAtProperties ==
    ASSUME NEW q \in Seq(Requests), NEW i \in 1..Len(q)
    PROVE  /\ RemoveAt(q, i) \in Seq(Requests)
           /\ Len(RemoveAt(q, i)) = Len(q) - 1
           /\ \A j \in 1..(Len(q) - 1) :
                RemoveAt(q, i)[j] = IF j < i THEN q[j] ELSE q[j + 1]
  <1> DEFINE s == SubSeq(q, 1, i - 1)
             t == SubSeq(q, i + 1, Len(q))
  <1>1. /\ s \in Seq(Requests) /\ Len(s) = i - 1
        /\ \A j \in 1..(i - 1) : s[j] = q[j]
    BY SubSeqProperties, LenProperties
  <1>2. /\ t \in Seq(Requests) /\ Len(t) = Len(q) - i
        /\ \A j \in 1..(Len(q) - i) : t[j] = q[i + j]
    BY SubSeqProperties, LenProperties
  <1>3. RemoveAt(q, i) = s \o t
    BY DEF RemoveAt
  <1> HIDE DEF s, t
  <1>4. /\ s \o t \in Seq(Requests)
        /\ Len(s \o t) = Len(s) + Len(t)
        /\ \A j \in 1..(Len(s) + Len(t)) :
             (s \o t)[j] = IF j <= Len(s) THEN s[j] ELSE t[j - Len(s)]
    BY <1>1, <1>2, ConcatProperties
  <1> QED BY <1>1, <1>2, <1>3, <1>4, LenProperties

LEMMA KeptType ==
    ASSUME NEW q \in Seq(Requests), NEW healthy
    PROVE  Kept(q, healthy) \in Seq(Requests) /\ Failed(q, healthy) \in Seq(Event)
  <1>1. "no_healthy_worker" \in Codes
    BY DEF Codes
  <1>2. <<>> \in Seq(Requests)
    OBVIOUS
  <1>3. (IF healthy = {} THEN q ELSE <<>>) \in Seq(Requests)
    BY <1>2
  <1> QED BY <1>1, <1>2, <1>3, EventsForType DEF Kept, Failed

LEMMA ExpiryType ==
    ASSUME NEW q \in Seq(Requests), NEW k, CanExpire(q, k)
    PROVE  /\ Younger(q, k) \in Seq(Requests)
           /\ TimedOut(q, k) \in Seq(Event)
  <1>1. SubSeq(q, 1, k) \in Seq(Requests) /\ SubSeq(q, k + 1, Len(q)) \in Seq(Requests)
    BY SubSeqProperties DEF CanExpire
  <1>2. "queue_timeout" \in Codes
    BY DEF Codes
  <1> QED BY <1>1, <1>2, EventsForType DEF Younger, TimedOut

LEMMA HandOutType ==
    ASSUME NEW evs \in Seq(Event), HandOut(evs),
           answer \in [Requests -> Codes \cup {"none"}],
           heard \in [Requests -> Nat]
    PROVE  /\ answer' \in [Requests -> Codes \cup {"none"}]
           /\ heard' \in [Requests -> Nat]
  <1>1. ASSUME NEW r \in Requests PROVE answer'[r] \in Codes \cup {"none"}
    <2> DEFINE T(i) == evs[i].req = r /\ Terminal(evs[i])
               j == CHOOSE i \in 1..Len(evs) : T(i)
    <2> USE DEF Ends
    <2>1. CASE \E i \in 1..Len(evs) : T(i)
      <3>1. j \in 1..Len(evs) /\ T(j)
        BY <2>1
      <3>2. evs[j] \in Event
        BY <3>1
      <3>3. evs[j].what \in Codes
        BY <3>1, <3>2 DEF Terminal, Event
      <3>4. answer'[r] = evs[j].what
        BY <2>1 DEF HandOut
      <3> QED BY <3>3, <3>4
    <2>2. CASE ~ \E i \in 1..Len(evs) : T(i)
      BY <2>2 DEF HandOut
    <2> QED BY <2>1, <2>2
  <1>2. ASSUME NEW r \in Requests PROVE heard'[r] \in Nat
    <2> DEFINE C == {i \in 1..Len(evs) : evs[i].req = r /\ ~Terminal(evs[i])}
    <2>1. IsFiniteSet(1..Len(evs))
      BY FS_Interval
    <2>2. Cardinality(C) \in Nat
      BY <2>1, FS_Subset, FS_CardinalityType
    <2> QED BY <2>2 DEF HandOut
  <1> QED BY <1>1, <1>2 DEF HandOut

---------------------------------------------------------------------------
\* Type correctness, client by client

LEMMA ClientSendType ==
    ASSUME ChannelTypeOK, NEW w \in Workers, NEW r \in Requests, ClientSend(w, r)
    PROVE  ChannelTypeOK'
  BY DEF ChannelTypeOK, ClientSend, WorkerStates, OptRequest

LEMMA ClientFailType ==
    ASSUME ChannelTypeOK, NEW w \in Workers, ClientFail(w)
    PROVE  ChannelTypeOK'
  BY DEF ChannelTypeOK, ClientFail, WorkerStates

LEMMA ClientStopType ==
    ASSUME ChannelTypeOK, NEW w \in Workers, ClientStop(w) \/ ClientCut(w)
    PROVE  ChannelTypeOK'
  <1>1. CASE ClientStop(w)
    BY <1>1 DEF ChannelTypeOK, ClientStop, WorkerStates, ChildStates, OptRequest, IsAlive
  <1>2. CASE ClientCut(w)
    BY <1>2 DEF ChannelTypeOK, ClientCut, WorkerStates, OptRequest
  <1> QED BY <1>1, <1>2

LEMMA ClientReceiveType ==
    ASSUME ChannelTypeOK, NEW w \in Workers, results[w] # <<>>,
           ClientReceive(w, Head(results[w]))
    PROVE  ChannelTypeOK' /\ Head(results[w]) \in Event
  <1>1. results[w] \in Seq(Message)
    BY DEF ChannelTypeOK
  <1>2. Tail(results[w]) \in Seq(Message) /\ Head(results[w]) \in Message
    BY <1>1
  <1> QED BY <1>2, MessagesAreEvents DEF ChannelTypeOK, ClientReceive, WorkerStates, OptRequest

LEMMA PutType ==
    ASSUME ChannelTypeOK, NEW w \in Workers, NEW m \in Message, Put(w, m)
    PROVE  results' \in [Workers -> Seq(Message)]
  <1>1. Append(results[w], m) \in Seq(Message)
    BY DEF ChannelTypeOK
  <1> QED BY <1>1 DEF ChannelTypeOK, Put

LEMMA ChildType ==
    ASSUME ChannelTypeOK, NEW w \in Workers,
           ChildServe(w) \/ ChildFault(w) \/ ChildExit(w) \/ ChildCrash(w)
    PROVE  ChannelTypeOK'
  <1>1. CASE ChildChunk(w)
    <2>1. Msg(job[w], "chunk", made[w] + 1) \in Message
      BY <1>1 DEF ChildChunk, Msg, Message, ChildCodes, ChannelTypeOK, OptRequest
    <2>2. made' \in [Workers -> 0..MaxChunks]
      BY <1>1 DEF ChildChunk, ChannelTypeOK
    <2> QED BY <1>1, <2>1, <2>2, PutType DEF ChildChunk, ChannelTypeOK
  <1>2. CASE ChildFinish(w)
    <2>1. /\ Msg(job[w], "end", made[w]) \in Message
          /\ Msg(job[w], "result", 0) \in Message
          /\ Msg(job[w], "error", 0) \in Message
      BY DEF Msg, Message, ChildCodes, ChannelTypeOK
    <2>2. results' \in [Workers -> Seq(Message)]
      BY <1>2, <2>1, PutType DEF ChildFinish
    <2> QED BY <1>2, <2>2 DEF ChildFinish, ChannelTypeOK, OptRequest
  <1>3. CASE ChildFault(w)
    <2>1. Msg(NoReq, "error", 0) \in Message
      BY DEF Msg, Message, ChildCodes, OptRequest
    <2> QED BY <1>3, <2>1, PutType DEF ChildFault, ChannelTypeOK, ChildStates
  <1>4. CASE ChildExit(w)
    BY <1>4 DEF ChildExit, ChannelTypeOK, ChildStates
  <1>5. CASE ChildCrash(w)
    BY <1>5 DEF ChildCrash, ChannelTypeOK, ChildStates, OptRequest
  <1> QED BY <1>1, <1>2, <1>3, <1>4, <1>5 DEF ChildServe

---------------------------------------------------------------------------
LEMMA InitType == Init => TypeOK
  <1> SUFFICES ASSUME Init PROVE TypeOK
    OBVIOUS
  <1>1. ChannelTypeOK
    BY EmptySeq DEF Init, ChannelInit, ChannelTypeOK, WorkerStates, ChildStates, OptRequest
  <1>2. pending \in Seq(Requests) /\ events \in Seq(Event)
    BY EmptySeq DEF Init
  <1>3. active \in [Workers -> OptRequest] /\ cursor \in 1..(NumWorkers + 1)
    BY DEF Init, OptRequest
  <1>4. answer \in [Requests -> Codes \cup {"none"}] /\ heard \in [Requests -> Nat]
    BY DEF Init
  <1>5. submitted \subseteq Requests /\ closed \in BOOLEAN /\ pc \in Calls
    BY DEF Init, Calls
  <1> QED BY <1>1, <1>2, <1>3, <1>4, <1>5 DEF TypeOK

LEMMA StepType == TypeOK /\ [Next]_vars => TypeOK'
  <1> SUFFICES ASSUME TypeOK, [Next]_vars PROVE TypeOK'
    OBVIOUS
  <1> USE DEF TypeOK
  <1>1. ASSUME NEW r \in Requests, SubmitDispatch(r) PROVE TypeOK'
    <2>1. PICK w \in Workers : ClientSend(w, r) /\ active' = [active EXCEPT ![w] = r]
      BY <1>1 DEF SubmitDispatch
    <2>2. ChannelTypeOK'
      BY <2>1, ClientSendType
    <2> QED BY <1>1, <2>1, <2>2 DEF SubmitDispatch, OptRequest, callVars, historyVars
  <1>2. ASSUME NEW r \in Requests, SubmitToDead(r) PROVE TypeOK'
    <2>1. ChannelTypeOK'
      BY <1>2, ClientFailType DEF SubmitToDead
    <2> QED BY <1>2, <2>1 DEF SubmitToDead, callVars, historyVars
  <1>3. ASSUME NEW r \in Requests, SubmitQueue(r) PROVE TypeOK'
    BY <1>3, AppendProperties DEF SubmitQueue, channelVars, ChannelTypeOK, callVars, historyVars
  <1>4. ASSUME NEW r \in Requests, CancelPending(r) PROVE TypeOK'
    <2>1. PICK i \in 1..Len(pending) : pending' = RemoveAt(pending, i)
      BY <1>4 DEF CancelPending
    <2>2. pending' \in Seq(Requests)
      BY <2>1, RemoveAtProperties
    <2> QED BY <1>4, <2>2 DEF CancelPending, Codes, channelVars, ChannelTypeOK, callVars
  <1>5. ASSUME NEW r \in Requests, CancelActive(r) PROVE TypeOK'
    <2>1. PICK w \in Workers :
            /\ ClientStop(w)
            /\ active' = [active EXCEPT ![w] = NoReq]
            /\ pending' = Kept(pending, Healthy \ {w})
            /\ events' = events \o Failed(pending, Healthy \ {w})
      BY <1>5 DEF CancelActive
    <2>2. ChannelTypeOK'
      BY <2>1, ClientStopType
    <2>3. pending' \in Seq(Requests) /\ events' \in Seq(Event)
      BY <2>1, KeptType, ConcatProperties
    <2> QED BY <1>5, <2>1, <2>2, <2>3 DEF CancelActive, Codes, OptRequest, callVars
  <1>6. CASE PollBegin
    BY <1>6, GoToType DEF PollBegin, Calls, channelVars, ChannelTypeOK, historyVars
  <1>7. CASE WithinLimit
    BY <1>7, GoToType DEF WithinLimit, Calls, Workers, channelVars, ChannelTypeOK, historyVars
  <1>8. CASE ExpireActive
    <2>1. ChannelTypeOK'
      BY <1>8, ClientStopType DEF ExpireActive, channelVars, ChannelTypeOK
    <2>2. Msg(active[cursor], "inference_timeout", 0) \in Event
      BY <1>8, MsgType DEF ExpireActive, Codes
    <2>3. events' \in Seq(Event) /\ active' \in [Workers -> OptRequest]
      BY <1>8, <2>2, AppendProperties DEF ExpireActive, OptRequest
    <2>4. pc' \in Calls /\ cursor' \in 1..(NumWorkers + 1)
      BY <1>8, GoToType DEF ExpireActive, Calls, Workers
    <2> QED BY <1>8, <2>1, <2>3, <2>4 DEF ExpireActive, historyVars
  <1>9. CASE PollExpired
    <2> DEFINE healthy == IF InferenceLimit THEN Healthy ELSE Workers
               queue == Kept(pending, healthy)
               all(k) == events \o Failed(pending, healthy) \o TimedOut(queue, k)
    <2>1. PICK k \in 0..MaxPending :
            /\ CanExpire(queue, k)
            /\ pending' = Younger(queue, k)
            /\ events' = <<>>
            /\ HandOut(all(k))
            /\ IF all(k) = <<>> THEN GoTo("get", 1, active) ELSE ReturnCall
      BY <1>9 DEF PollExpired
    <2>2. queue \in Seq(Requests) /\ Failed(pending, healthy) \in Seq(Event)
      BY KeptType
    <2>3. pending' \in Seq(Requests) /\ TimedOut(queue, k) \in Seq(Event)
      BY <2>1, <2>2, ExpiryType
    <2>4. all(k) \in Seq(Event)
      BY <2>2, <2>3, ConcatProperties
    <2>5. /\ answer' \in [Requests -> Codes \cup {"none"}]
          /\ heard' \in [Requests -> Nat]
      BY <2>1, <2>4, HandOutType
    <2>6. pc' \in Calls /\ cursor' \in 1..(NumWorkers + 1)
      BY <2>1, GoToType DEF ReturnCall, Calls
    <2> QED BY <1>9, <2>1, <2>3, <2>5, <2>6, EmptySeq
            DEF PollExpired, channelVars, ChannelTypeOK
  <1>10. CASE ReceiveTerminal
    <2>1. ChannelTypeOK' /\ Inbox \in Event
      BY <1>10, ClientReceiveType DEF ReceiveTerminal, CanReceive, Inbox
    <2>2. PICK k \in 0..MaxPending :
            /\ CanExpire(pending, k)
            /\ pending' = Younger(pending, k)
            /\ events' = Append(events, Inbox) \o TimedOut(pending, k)
      BY <1>10 DEF ReceiveTerminal
    <2>3. Append(events, Inbox) \in Seq(Event)
      BY <2>1, AppendProperties
    <2>4. pending' \in Seq(Requests) /\ events' \in Seq(Event)
      BY <2>2, <2>3, ExpiryType, ConcatProperties
    <2>5. active' \in [Workers -> OptRequest]
      BY <1>10 DEF ReceiveTerminal, OptRequest
    <2>6. /\ pc' \in Calls
          /\ UNCHANGED <<submitted, closed, cursor, answer, heard>>
      BY <1>10 DEF ReceiveTerminal, Calls, historyVars
    <2> QED BY <2>1, <2>4, <2>5, <2>6
  <1>11. CASE ReceiveOther
    <2>1. ChannelTypeOK' /\ Inbox \in Event /\ cursor \in Workers
      BY <1>11, ClientReceiveType DEF ReceiveOther, CanReceive, Inbox
    <2>2. Msg(active[cursor], "mismatch", 0) \in Event
      BY <2>1, MsgType DEF Codes
    <2>3. active' \in [Workers -> OptRequest]
      BY <1>11 DEF ReceiveOther, OptRequest
    <2>5. events' = Append(events, Msg(active[cursor], "mismatch", 0))
          \/ events' = Append(events, Inbox)
      BY <1>11 DEF ReceiveOther
    <2>6. events' \in Seq(Event)
      <3>1. Append(events, Inbox) \in Seq(Event)
        BY <2>1, AppendProperties
      <3>2. Append(events, Msg(active[cursor], "mismatch", 0)) \in Seq(Event)
        BY <2>2, AppendProperties
      <3> QED BY <2>5, <3>1, <3>2
    <2>4. pc' \in Calls /\ cursor' \in 1..(NumWorkers + 1)
      BY <1>11, GoToType DEF ReceiveOther, Calls
    <2> QED BY <1>11, <2>1, <2>3, <2>4, <2>6 DEF ReceiveOther, historyVars
  <1>12. CASE ReceiveNothing
    BY <1>12 DEF ReceiveNothing, Calls, channelVars, ChannelTypeOK, historyVars
  <1>13. CASE ReceiveTimeout
    BY <1>13, GoToType DEF ReceiveTimeout, Calls, channelVars, ChannelTypeOK, historyVars
  <1>14. CASE ReceiveExited
    <2>1. ChannelTypeOK' /\ cursor \in Workers
      BY <1>14, ClientFailType DEF ReceiveExited
    <2>2. Msg(active[cursor], "worker_exited", 0) \in Event
      BY <2>1, MsgType DEF Codes
    <2>3. events' \in Seq(Event) /\ active' \in [Workers -> OptRequest]
      BY <1>14, <2>2, AppendProperties DEF ReceiveExited, OptRequest
    <2>4. pc' \in Calls /\ cursor' \in 1..(NumWorkers + 1)
      BY <1>14, GoToType DEF ReceiveExited, Calls
    <2> QED BY <1>14, <2>1, <2>3, <2>4 DEF ReceiveExited, historyVars
  <1>15. CASE ReceiveRefused
    BY <1>15 DEF ReceiveRefused, ReturnCall, Calls, channelVars, ChannelTypeOK, historyVars
  <1>16. CASE DispatchNext
    <2>1. Head(pending) \in Requests /\ Tail(pending) \in Seq(Requests)
      BY <1>16, HeadTailProperties DEF DispatchNext, Dispatchable
    <2>2. PICK w \in Workers :
            ClientSend(w, Head(pending)) /\ active' = [active EXCEPT ![w] = Head(pending)]
      BY <1>16 DEF DispatchNext
    <2>3. ChannelTypeOK'
      BY <2>1, <2>2, ClientSendType
    <2>4. active' \in [Workers -> OptRequest]
      BY <2>1, <2>2 DEF OptRequest
    <2> QED BY <1>16, <2>1, <2>3, <2>4 DEF DispatchNext, callVars, historyVars
  <1>17. CASE DispatchToDead
    <2>1. Tail(pending) \in Seq(Requests)
      BY <1>17, HeadTailProperties DEF DispatchToDead, Dispatchable
    <2>2. ChannelTypeOK'
      BY <1>17, ClientFailType DEF DispatchToDead
    <2> QED BY <1>17, <2>1, <2>2 DEF DispatchToDead, ReturnCall, Calls, historyVars
  <1>18. CASE DispatchDone
    BY <1>18, GoToType DEF DispatchDone, Calls, channelVars, ChannelTypeOK, historyVars
  <1>19. CASE PollEnd
    <2>1. pending' \in Seq(Requests) /\ Failed(pending, Healthy) \in Seq(Event)
      BY <1>19, KeptType DEF PollEnd
    <2>2. events \o Failed(pending, Healthy) \in Seq(Event)
      BY <2>1, ConcatProperties
    <2>3. /\ answer' \in [Requests -> Codes \cup {"none"}]
          /\ heard' \in [Requests -> Nat]
      BY <1>19, <2>2, HandOutType DEF PollEnd
    <2> QED BY <1>19, <2>1, <2>3, EmptySeq
            DEF PollEnd, ReturnCall, Calls, channelVars, ChannelTypeOK
  <1>20. CASE CloseBegin
    <2>1. EventsFor(pending, "cancelled") \in Seq(Event)
      BY EventsForType DEF Codes
    <2>2. events' \in Seq(Event) /\ pending' \in Seq(Requests)
      BY <1>20, <2>1, ConcatProperties, EmptySeq DEF CloseBegin
    <2> QED BY <1>20, <2>2 DEF CloseBegin, Calls, channelVars, ChannelTypeOK, historyVars
  <1>21. CASE CloseWorker
    <2>1. ChannelTypeOK'
      BY <1>21, ClientStopType DEF CloseWorker, channelVars, ChannelTypeOK
    <2> QED BY <1>21, <2>1 DEF CloseWorker, Workers, historyVars
  <1>22. CASE CloseAborted
    BY <1>22, ClientStopType DEF CloseAborted, ReturnCall, Calls, historyVars
  <1>23. CASE CloseEnd
    BY <1>23 DEF CloseEnd, ReturnCall, Calls, OptRequest, channelVars, ChannelTypeOK, historyVars
  <1>24. ASSUME NEW w \in Workers, Child(w) PROVE TypeOK'
    <2>1. ChannelTypeOK'
      BY <1>24, ChildType DEF Child
    <2> QED BY <1>24, <2>1 DEF Child, callVars, historyVars
  <1>25. CASE UNCHANGED vars
    BY <1>25 DEF vars, channelVars, ChannelTypeOK, callVars, historyVars
  <1> QED
    BY <1>1, <1>2, <1>3, <1>4, <1>5, <1>6, <1>7, <1>8, <1>9, <1>10, <1>11, <1>12, <1>13,
       <1>14, <1>15, <1>16, <1>17, <1>18, <1>19, <1>20, <1>21, <1>22, <1>23, <1>24, <1>25
    DEF Next, Submit, Cancel, Poll, Close

\* Every reachable state is well typed: in particular no client ever leaves the
\* states of WorkerState that a started client can be in, and every event the
\* scheduler holds or hands out names a request or nobody.
THEOREM TypeCorrect == Spec => []TypeOK
  <1>1. Init => TypeOK
    BY InitType
  <1>2. TypeOK /\ [Next]_vars => TypeOK'
    BY StepType
  <1> QED BY <1>1, <1>2, PTL DEF Spec

---------------------------------------------------------------------------
\* The scheduler and its clients agree

\* Coupled is not inductive alone: that the last step of close() may clear
\* _active rests on the loop before it having stopped every worker.
CoupledInv ==
    /\ Coupled
    /\ pc = "close" => closed /\ \A w \in Workers : w < cursor => wstate[w] = "stopped"

LEMMA InitCoupled == Init => CoupledInv
  BY DEF Init, ChannelInit, CoupledInv, Coupled

LEMMA StepCoupled == TypeOK /\ CoupledInv /\ [Next]_vars => CoupledInv'
  <1> SUFFICES ASSUME TypeOK, CoupledInv, [Next]_vars PROVE CoupledInv'
    OBVIOUS
  <1> USE DEF CoupledInv, Coupled, TypeOK, ChannelTypeOK
  <1>1. ASSUME NEW r \in Requests, Submit(r) PROVE CoupledInv'
    BY <1>1 DEF Submit, SubmitDispatch, SubmitToDead, SubmitQueue, Admissible, IsFirstReady,
                Ready, ClientSend, ClientFail, channelVars, callVars
  <1>2. ASSUME NEW r \in Requests, Cancel(r) PROVE CoupledInv'
    <2>1. CASE CancelPending(r)
      BY <2>1 DEF CancelPending, channelVars, callVars
    <2>2. CASE CancelActive(r)
      <3>1. PICK w \in Workers : ClientStop(w) /\ active' = [active EXCEPT ![w] = NoReq]
        BY <2>2 DEF CancelActive
      <3>2. UNCHANGED <<closed, pc, cursor>>
        BY <2>2 DEF CancelActive, callVars
      <3> QED BY <3>1, <3>2 DEF ClientStop
    <2> QED BY <1>2, <2>1, <2>2 DEF Cancel
  <1>3. CASE PollBegin \/ WithinLimit \/ DispatchDone \/ ReceiveTimeout
    BY <1>3 DEF PollBegin, WithinLimit, DispatchDone, ReceiveTimeout, GoTo, channelVars
  <1>4. CASE ExpireActive
    BY <1>4 DEF ExpireActive, GoTo, ClientStop, channelVars
  <1>5. CASE PollExpired
    BY <1>5 DEF PollExpired, GoTo, ReturnCall, channelVars
  <1>6. CASE ReceiveTerminal
    BY <1>6 DEF ReceiveTerminal, CanReceive, ClientReceive, Terminal
  <1>7. CASE ReceiveOther
    BY <1>7 DEF ReceiveOther, CanReceive, ClientReceive, Terminal, GoTo
  <1>8. CASE ReceiveNothing \/ ReceiveRefused
    BY <1>8 DEF ReceiveNothing, ReceiveRefused, ReturnCall, channelVars
  <1>9. CASE ReceiveExited
    BY <1>9 DEF ReceiveExited, ClientFail, GoTo
  <1>10. CASE DispatchNext
    <2>1. Head(pending) \in Requests
      BY <1>10, HeadTailProperties DEF DispatchNext, Dispatchable
    <2> QED BY <1>10, <2>1 DEF DispatchNext, Dispatchable, IsFirstReady, Ready, ClientSend, callVars
  <1>11. CASE DispatchToDead
    BY <1>11 DEF DispatchToDead, IsFirstReady, Ready, ClientFail, ReturnCall
  <1>12. CASE PollEnd
    BY <1>12 DEF PollEnd, ReturnCall, channelVars
  <1>13. CASE CloseBegin
    BY <1>13 DEF CloseBegin, channelVars, Workers
  <1>14. CASE CloseWorker
    <2>1. /\ cursor \in Workers /\ cursor' = cursor + 1
          /\ UNCHANGED <<active, closed, pc>>
      BY <1>14 DEF CloseWorker
    <2>2. CASE wstate[cursor] = "stopped" /\ UNCHANGED channelVars
      BY <2>1, <2>2 DEF channelVars, Workers
    <2>3. CASE ClientStop(cursor)
      <3>1. /\ wstate' = [wstate EXCEPT ![cursor] = "stopped"]
            /\ \A w \in Workers \ {cursor} : wactive'[w] = wactive[w]
        BY <2>1, <2>3 DEF ClientStop
      <3>2. pc = "close" /\ closed
        BY <1>14 DEF CloseWorker
      <3>3. \A w \in Workers : w < cursor' => w < cursor \/ w = cursor
        BY <2>1 DEF Workers
      <3> QED BY <2>1, <3>1, <3>2, <3>3
    <2> QED BY <1>14, <2>2, <2>3 DEF CloseWorker
  <1>15. CASE CloseAborted
    BY <1>15 DEF CloseAborted, ShutdownRaises, ClientCut, ReturnCall
  <1>16. CASE CloseEnd
    BY <1>16 DEF CloseEnd, ReturnCall, channelVars, Workers
  <1>17. ASSUME NEW w \in Workers, Child(w) PROVE CoupledInv'
    BY <1>17 DEF Child, ChildServe, ChildChunk, ChildFinish, ChildFault, ChildExit, ChildCrash, callVars
  <1>18. CASE UNCHANGED vars
    BY <1>18 DEF vars, channelVars, callVars
  <1> QED
    BY <1>1, <1>2, <1>3, <1>4, <1>5, <1>6, <1>7, <1>8, <1>9, <1>10, <1>11, <1>12, <1>13,
       <1>14, <1>15, <1>16, <1>17, <1>18
    DEF Next, Poll, Close

LEMMA SpecCoupledInv == Spec => []CoupledInv
  <1>1. TypeOK /\ CoupledInv /\ [Next]_vars => CoupledInv'
    BY StepCoupled
  <1> QED BY <1>1, InitCoupled, TypeCorrect, PTL DEF Spec

\* A BUSY client serves exactly the request the scheduler has recorded for it,
\* through every timeout, cancellation, death and shutdown.
THEOREM SchedulerAndClientsAgree == Spec => []Coupled
  <1>1. CoupledInv => Coupled
    BY DEF CoupledInv
  <1> QED BY <1>1, SpecCoupledInv, PTL

---------------------------------------------------------------------------
\* Admission and dispatch stay within their bounds

LEMMA BusyFinite ==
    /\ IsFiniteSet(Busy) /\ Cardinality(Busy) \in Nat
    /\ IsFiniteSet(Busy') /\ Cardinality(Busy') \in Nat
  <1>1. Busy \subseteq Workers /\ Busy' \subseteq Workers
    BY DEF Busy
  <1> QED BY <1>1, WorkersFinite, FS_Subset, FS_CardinalityType

LEMMA SlotTaken ==
    ASSUME TypeOK, CanDispatch, NEW w \in Workers, NEW r, active' = [active EXCEPT ![w] = r]
    PROVE  Cardinality(Busy') <= MaxConcurrent
  <1>1. Busy' \subseteq Busy \cup {w}
    BY DEF Busy, TypeOK
  <1>2. /\ IsFiniteSet(Busy \cup {w})
        /\ Cardinality(Busy \cup {w}) <= Cardinality(Busy) + 1
    <2>1. IsFiniteSet(Busy) /\ Cardinality(Busy) \in Nat
      BY BusyFinite
    <2>2. /\ IsFiniteSet(Busy \cup {w})
          /\ Cardinality(Busy \cup {w}) =
               IF w \in Busy THEN Cardinality(Busy) ELSE Cardinality(Busy) + 1
      BY <2>1, FS_AddElement
    <2> QED BY <2>1, <2>2
  <1>3. Cardinality(Busy') <= Cardinality(Busy \cup {w})
    BY <1>1, <1>2, FS_Subset
  <1>4. Cardinality(Busy \cup {w}) \in Nat
    BY <1>2, FS_CardinalityType
  <1> QED BY <1>2, <1>3, <1>4, BusyFinite DEF CanDispatch

LEMMA SlotsFreed ==
    ASSUME \A w \in Workers : active'[w] # NoReq => active[w] # NoReq
    PROVE  Cardinality(Busy') <= Cardinality(Busy)
  <1>1. Busy' \subseteq Busy
    BY DEF Busy
  <1> QED BY <1>1, BusyFinite, FS_Subset

\* No step but the queuing submit makes the queue longer.
LEMMA QueueShrinks ==
    ASSUME TypeOK, [Next]_vars, \A r \in Requests : ~SubmitQueue(r)
    PROVE  Len(pending') <= Len(pending)
  <1> USE DEF TypeOK
  <1>1. ASSUME NEW q \in Seq(Requests), NEW k, CanExpire(q, k)
        PROVE  Len(Younger(q, k)) <= Len(q)
    BY <1>1, SubSeqProperties DEF CanExpire, Younger
  <1>2. ASSUME NEW healthy PROVE Len(Kept(pending, healthy)) <= Len(pending)
    BY EmptySeq, LenProperties DEF Kept
  <1>3. ASSUME NEW r \in Requests, CancelPending(r) PROVE Len(pending') <= Len(pending)
    <2>1. PICK i \in 1..Len(pending) : pending' = RemoveAt(pending, i)
      BY <1>3 DEF CancelPending
    <2> QED BY <2>1, RemoveAtProperties
  <1>4. CASE PollExpired
    <2> DEFINE healthy == IF InferenceLimit THEN Healthy ELSE Workers
    <2>1. PICK k \in 0..MaxPending :
            /\ CanExpire(Kept(pending, healthy), k)
            /\ pending' = Younger(Kept(pending, healthy), k)
      BY <1>4 DEF PollExpired
    <2> HIDE DEF healthy
    <2>2. /\ Kept(pending, healthy) \in Seq(Requests)
          /\ Len(Kept(pending, healthy)) \in Nat /\ Len(pending) \in Nat
          /\ Len(Younger(Kept(pending, healthy), k)) \in Nat
      BY <2>1, KeptType, ExpiryType, LenProperties
    <2> QED BY <2>1, <2>2, <1>1, <1>2
  <1>5. CASE ReceiveTerminal
    BY <1>5, <1>1 DEF ReceiveTerminal
  <1>6. CASE DispatchNext \/ DispatchToDead
    BY <1>6, HeadTailProperties, LenProperties DEF DispatchNext, DispatchToDead, Dispatchable
  <1>7. CASE CloseBegin
    BY <1>7, LenProperties, EmptySeq DEF CloseBegin
  <1>8. ASSUME NEW r \in Requests, CancelActive(r) PROVE Len(pending') <= Len(pending)
    BY <1>8, <1>2 DEF CancelActive
  <1>9. CASE PollEnd
    BY <1>9, <1>2 DEF PollEnd
  <1>10. CASE pending' = pending
    BY <1>10, LenProperties
  <1>11. \/ \E r \in Requests : SubmitDispatch(r) \/ SubmitToDead(r)
         \/ PollBegin \/ WithinLimit \/ ExpireActive \/ ReceiveOther \/ ReceiveNothing
         \/ ReceiveTimeout \/ ReceiveExited \/ ReceiveRefused \/ DispatchDone
         \/ CloseWorker \/ CloseAborted \/ CloseEnd
         \/ \E w \in Workers : Child(w)
         \/ UNCHANGED vars
         => pending' = pending
    BY DEF SubmitDispatch, SubmitToDead, PollBegin, WithinLimit, ExpireActive, ReceiveOther,
           ReceiveNothing, ReceiveTimeout, ReceiveExited, ReceiveRefused, DispatchDone,
           CloseWorker, CloseAborted, CloseEnd, Child, vars
  <1> QED
    BY <1>3, <1>4, <1>5, <1>6, <1>7, <1>8, <1>9, <1>10, <1>11
    DEF Next, Submit, Cancel, Poll, Close

\* No step but a dispatch occupies a worker.
LEMMA OnlyDispatchOccupies ==
    ASSUME TypeOK, [Next]_vars, ~DispatchNext, \A r \in Requests : ~SubmitDispatch(r)
    PROVE  \A w \in Workers : active'[w] # NoReq => active[w] # NoReq
  BY DEF TypeOK, Next, Submit, Cancel, Poll, Close, Child, vars,
         SubmitToDead, SubmitQueue, CancelPending, CancelActive, PollBegin, WithinLimit,
         ExpireActive, PollExpired, ReceiveTerminal, ReceiveOther, ReceiveNothing,
         ReceiveTimeout, ReceiveExited, ReceiveRefused, DispatchToDead, DispatchDone, PollEnd,
         CloseBegin, CloseWorker, CloseAborted, CloseEnd

LEMMA StepBounds == TypeOK /\ WithinBounds /\ [Next]_vars => WithinBounds'
  <1> SUFFICES ASSUME TypeOK, WithinBounds, [Next]_vars PROVE WithinBounds'
    OBVIOUS
  <1>1. Cardinality(Busy') <= MaxConcurrent
    <2>1. CASE DispatchNext \/ \E r \in Requests : SubmitDispatch(r)
      <3>1. PICK w \in Workers, r \in Requests : CanDispatch /\ active' = [active EXCEPT ![w] = r]
        <4>1. pending # <<>> => Head(pending) \in Requests
          BY HeadTailProperties DEF TypeOK
        <4> QED BY <2>1, <4>1 DEF DispatchNext, Dispatchable, SubmitDispatch
      <3> QED BY <3>1, SlotTaken
    <2>2. CASE ~DispatchNext /\ \A r \in Requests : ~SubmitDispatch(r)
      BY <2>2, OnlyDispatchOccupies, SlotsFreed, BusyFinite DEF WithinBounds
    <2> QED BY <2>1, <2>2
  <1>2. Len(pending') <= MaxPending
    <2>1. CASE \E r \in Requests : SubmitQueue(r)
      BY <2>1, AppendProperties, LenProperties DEF SubmitQueue, TypeOK
    <2>2. CASE \A r \in Requests : ~SubmitQueue(r)
      <3>1. pending \in Seq(Requests) /\ pending' \in Seq(Requests)
        BY StepType DEF TypeOK
      <3> QED BY <2>2, <3>1, QueueShrinks, LenProperties DEF WithinBounds
    <2> QED BY <2>1, <2>2
  <1> QED BY <1>1, <1>2 DEF WithinBounds

\* The queue never exceeds max_pending_requests nor the active requests
\* max_concurrent_requests, on any path into the dispatch loop.
THEOREM BoundsKept == Spec => []WithinBounds
  <1>1. Init => WithinBounds
    <2> SUFFICES ASSUME Init PROVE WithinBounds
      OBVIOUS
    <2>1. Busy = {}
      BY DEF Init, Busy
    <2> QED BY <2>1, FS_EmptySet, EmptySeq, LenProperties DEF Init, WithinBounds
  <1>2. TypeOK /\ WithinBounds /\ [Next]_vars => WithinBounds'
    BY StepBounds
  <1> QED BY <1>1, <1>2, TypeCorrect, PTL DEF Spec

---------------------------------------------------------------------------
\* "no_healthy_worker" is true when it is said, and stays true

Says(evs) == \E i \in 1..Len(evs) : evs[i].what = "no_healthy_worker"
Said == Says(events) \/ \E r \in Requests : answer[r] = "no_healthy_worker"
Down(w) == wstate[w] \in {"failed", "stopped"}

NoHealthyInv == Said => \A w \in Workers : Down(w)

LEMMA SaysNothing ==
    /\ ~Says(<<>>)
    /\ \A q \in Seq(Requests), code \in Codes \ {"no_healthy_worker"} : ~Says(EventsFor(q, code))
  <1>1. ~Says(<<>>)
    BY EmptySeq DEF Says
  <1>2. ASSUME NEW q \in Seq(Requests), NEW code \in Codes \ {"no_healthy_worker"}
        PROVE  ~Says(EventsFor(q, code))
    <2>1. \A i \in 1..Len(q) : EventsFor(q, code)[i].what = code
      BY DEF EventsFor, Msg
    <2>2. Len(EventsFor(q, code)) = Len(q)
      BY EventsForType
    <2> QED BY <2>1, <2>2 DEF Says
  <1> QED BY <1>1, <1>2

LEMMA SaysConcat ==
    ASSUME NEW a \in Seq(Event), NEW b \in Seq(Event), Says(a \o b)
    PROVE  Says(a) \/ Says(b)
  <1>1. /\ Len(a) \in Nat /\ Len(b) \in Nat /\ Len(a \o b) = Len(a) + Len(b)
        /\ \A i \in 1..(Len(a) + Len(b)) : (a \o b)[i] = IF i <= Len(a) THEN a[i] ELSE b[i - Len(a)]
    BY ConcatProperties, LenProperties
  <1>2. PICK i \in 1..Len(a \o b) : (a \o b)[i].what = "no_healthy_worker"
    BY DEF Says
  <1>3. CASE i <= Len(a)
    BY <1>1, <1>2, <1>3 DEF Says
  <1>4. CASE ~(i <= Len(a))
    <2>1. i - Len(a) \in 1..Len(b) /\ b[i - Len(a)].what = "no_healthy_worker"
      BY <1>1, <1>2, <1>4
    <2> QED BY <2>1 DEF Says
  <1> QED BY <1>3, <1>4

LEMMA SaysAppend ==
    ASSUME NEW a \in Seq(Event), NEW e \in Event, Says(Append(a, e))
    PROVE  Says(a) \/ e.what = "no_healthy_worker"
  BY AppendProperties, LenProperties DEF Says

LEMMA SaysFailed ==
    ASSUME NEW q \in Seq(Requests), NEW healthy, Says(Failed(q, healthy))
    PROVE  healthy = {}
  <1>1. CASE healthy # {}
    <2>1. Failed(q, healthy) = EventsFor(<<>>, "no_healthy_worker")
      BY <1>1 DEF Failed
    <2>2. EventsFor(<<>>, "no_healthy_worker") = <<>>
      BY DEF EventsFor
    <2> QED BY <2>1, <2>2, SaysNothing
  <1> QED BY <1>1

\* What poll returns was among its events.
LEMMA SaysHandOut ==
    ASSUME NEW evs \in Seq(Event), HandOut(evs), NEW r \in Requests,
           answer'[r] = "no_healthy_worker"
    PROVE  answer[r] = "no_healthy_worker" \/ Says(evs)
  <1> DEFINE T(i) == evs[i].req = r /\ Terminal(evs[i])
             j == CHOOSE i \in 1..Len(evs) : T(i)
  <1>1. CASE Ends(r, evs)
    <2>1. j \in 1..Len(evs) /\ T(j)
      BY <1>1 DEF Ends
    <2>2. answer'[r] = evs[j].what
      BY <1>1 DEF HandOut
    <2> QED BY <2>1, <2>2 DEF Says
  <1>2. CASE ~Ends(r, evs)
    BY <1>2 DEF HandOut
  <1> QED BY <1>1, <1>2

LEMMA InboxIsMessage ==
    ASSUME TypeOK, CanReceive
    PROVE  Inbox \in Event /\ Inbox.what \in ChildCodes
  <1>1. results[cursor] \in Seq(Message) /\ results[cursor] # <<>>
    BY DEF TypeOK, ChannelTypeOK, CanReceive
  <1>2. Inbox \in Message
    BY <1>1, HeadTailProperties DEF Inbox
  <1> QED BY <1>2, MessagesAreEvents DEF Message

\* A worker that is down is never used again.
LEMMA DownStays ==
    ASSUME TypeOK, CoupledInv, [Next]_vars, NEW w \in Workers, Down(w)
    PROVE  Down(w)'
  <1> USE DEF TypeOK, ChannelTypeOK, Down
  <1>1. ASSUME NEW v \in Workers,
               \/ ClientFail(v) \/ ClientStop(v) \/ ClientCut(v)
               \/ \E r : wstate[v] = "ready" /\ ClientSend(v, r)
               \/ \E m : wstate[v] = "busy" /\ ClientReceive(v, m)
        PROVE  Down(w)'
    BY <1>1 DEF ClientFail, ClientStop, ClientCut, ClientSend, ClientReceive
  <1>2. CASE wstate' = wstate
    BY <1>2
  <1>3. ASSUME NEW r \in Requests, Submit(r) PROVE Down(w)'
    BY <1>1, <1>2, <1>3 DEF Submit, SubmitDispatch, SubmitToDead, SubmitQueue, IsFirstReady, Ready, channelVars
  <1>4. ASSUME NEW r \in Requests, Cancel(r) PROVE Down(w)'
    BY <1>1, <1>2, <1>4 DEF Cancel, CancelPending, CancelActive, channelVars
  <1>5. CASE Poll
    <2>1. CASE ExpireActive \/ ReceiveExited
      BY <1>1, <1>2, <2>1 DEF ExpireActive, ReceiveExited, channelVars
    <2>2. CASE ReceiveTerminal \/ ReceiveOther
      BY <1>1, <2>2 DEF ReceiveTerminal, ReceiveOther, CanReceive
    <2>3. CASE DispatchNext \/ DispatchToDead
      BY <1>1, <2>3 DEF DispatchNext, DispatchToDead, IsFirstReady, Ready
    <2>4. CASE \/ PollBegin \/ WithinLimit \/ PollExpired \/ ReceiveNothing \/ ReceiveTimeout
               \/ ReceiveRefused \/ DispatchDone \/ PollEnd
      BY <1>2, <2>4 DEF PollBegin, WithinLimit, PollExpired, ReceiveNothing, ReceiveTimeout,
                        ReceiveRefused, DispatchDone, PollEnd, channelVars
    <2> QED BY <1>5, <2>1, <2>2, <2>3, <2>4 DEF Poll
  <1>6. CASE Close
    BY <1>1, <1>2, <1>6 DEF Close, CloseBegin, CloseWorker, CloseAborted, CloseEnd, channelVars
  <1>7. CASE (\E v \in Workers : Child(v)) \/ UNCHANGED vars
    BY <1>2, <1>7 DEF Child, ChildServe, ChildChunk, ChildFinish, ChildFault, ChildExit, ChildCrash,
                      vars, channelVars
  <1> QED BY <1>3, <1>4, <1>5, <1>6, <1>7 DEF Next

\* Only _fail_pending_without_healthy_workers says it, when nobody is healthy.
LEMMA SayingStep ==
    ASSUME TypeOK, CoupledInv, [Next]_vars, Said'
    PROVE  Said \/ \A w \in Workers : Down(w)'
  <1>a. /\ pending \in Seq(Requests) /\ events \in Seq(Event)
        /\ answer \in [Requests -> Codes \cup {"none"}]
    BY DEF TypeOK
  <1>b. 1 \in Workers
    BY DEF Workers
  <1>c. ASSUME UNCHANGED <<events, answer>> PROVE Said
    BY <1>c DEF Said
  <1>1. ASSUME NEW r \in Requests, Cancel(r) PROVE Said \/ \A w \in Workers : Down(w)'
    <2>1. answer' = [answer EXCEPT ![r] = "cancelled"]
      BY <1>1 DEF Cancel, CancelPending, CancelActive
    <2>2. CASE events' = events
      BY <1>a, <2>1, <2>2 DEF Said
    <2>3. CASE CancelActive(r)
      <3>1. PICK w \in Workers : ClientStop(w) /\ events' = events \o Failed(pending, Healthy \ {w})
        BY <2>3 DEF CancelActive
      <3>2. Said \/ Says(events')
        BY <1>a, <2>1 DEF Said
      <3>3. Says(events') => Says(events) \/ Healthy \ {w} = {}
        BY <1>a, <3>1, KeptType, SaysConcat, SaysFailed
      <3>4. Healthy \ {w} = {} => \A v \in Workers : Down(v)'
        BY <3>1 DEF ClientStop, Healthy, Down, TypeOK, ChannelTypeOK
      <3> QED BY <3>2, <3>3, <3>4 DEF Said
    <2> QED BY <1>1, <2>2, <2>3 DEF Cancel, CancelPending
  <1>2. CASE ExpireActive \/ ReceiveExited
    <2>1. PICK code \in {"inference_timeout", "worker_exited"} :
            events' = Append(events, Msg(active[cursor], code, 0)) /\ cursor \in Workers
      BY <1>2 DEF ExpireActive, ReceiveExited
    <2>2. answer' = answer
      BY <1>2 DEF ExpireActive, ReceiveExited, historyVars
    <2>3. Msg(active[cursor], code, 0) \in Event /\ Msg(active[cursor], code, 0).what = code
      BY <2>1, MsgType DEF TypeOK, Codes, Msg
    <2> QED BY <1>a, <2>1, <2>2, <2>3, SaysAppend DEF Said
  <1>3. CASE ReceiveOther
    <2>1. /\ answer' = answer /\ cursor \in Workers
          /\ events' = Append(events, Inbox) \/ events' = Append(events, Msg(active[cursor], "mismatch", 0))
      BY <1>3 DEF ReceiveOther, CanReceive, historyVars
    <2>2. Inbox \in Event /\ Inbox.what # "no_healthy_worker"
      BY <1>3, InboxIsMessage DEF ReceiveOther, ChildCodes
    <2>3. LET m == Msg(active[cursor], "mismatch", 0) IN m \in Event /\ m.what = "mismatch"
      BY <2>1, MsgType DEF TypeOK, Codes, Msg
    <2>4. Says(events') => Says(events)
      <3>1. CASE events' = Append(events, Inbox)
        BY <1>a, <2>2, <3>1, SaysAppend
      <3>2. CASE events' = Append(events, Msg(active[cursor], "mismatch", 0))
        BY <1>a, <2>3, <3>2, SaysAppend
      <3> QED BY <2>1, <3>1, <3>2
    <2> QED BY <2>1, <2>4 DEF Said
  <1>4. CASE ReceiveTerminal
    <2>1. PICK k \in 0..MaxPending :
            CanExpire(pending, k) /\ events' = Append(events, Inbox) \o TimedOut(pending, k)
      BY <1>4 DEF ReceiveTerminal
    <2>2. Inbox \in Event /\ Inbox.what # "no_healthy_worker" /\ answer' = answer
      BY <1>4, InboxIsMessage DEF ReceiveTerminal, ChildCodes, historyVars
    <2>3. TimedOut(pending, k) \in Seq(Event) /\ ~Says(TimedOut(pending, k))
      <3>1. SubSeq(pending, 1, k) \in Seq(Requests) /\ "queue_timeout" \in Codes \ {"no_healthy_worker"}
        BY <1>a, <2>1, SubSeqProperties DEF CanExpire, Codes
      <3> QED BY <1>a, <2>1, <3>1, ExpiryType, SaysNothing DEF TimedOut
    <2>4. Append(events, Inbox) \in Seq(Event)
      BY <1>a, <2>2, AppendProperties
    <2> QED BY <1>a, <2>1, <2>2, <2>3, <2>4, SaysAppend, SaysConcat DEF Said
  <1>5. CASE PollExpired
    <2> DEFINE healthy == IF InferenceLimit THEN Healthy ELSE Workers
               queue == Kept(pending, healthy)
               f == Failed(pending, healthy)
    <2>1. PICK k \in 0..MaxPending :
            CanExpire(queue, k) /\ events' = <<>> /\ HandOut(events \o f \o TimedOut(queue, k))
      BY <1>5 DEF PollExpired
    <2> DEFINE t == TimedOut(queue, k)
    <2>2. queue \in Seq(Requests) /\ f \in Seq(Event)
      BY <1>a, KeptType
    <2>3. t \in Seq(Event) /\ ~Says(t)
      <3>1. SubSeq(queue, 1, k) \in Seq(Requests) /\ "queue_timeout" \in Codes \ {"no_healthy_worker"}
        BY <2>1, <2>2, SubSeqProperties DEF CanExpire, Codes
      <3> QED BY <2>1, <2>2, <3>1, ExpiryType, SaysNothing DEF TimedOut
    <2>4. Says(f) => \A w \in Workers : Down(w)'
      <3>1. Says(f) => Healthy = {}
        BY <1>a, <1>b, SaysFailed
      <3>2. wstate' = wstate
        BY <1>5 DEF PollExpired, channelVars
      <3> QED BY <3>1, <3>2 DEF Healthy, Down
    <2> HIDE DEF f, t
    <2>5. events \o f \in Seq(Event) /\ (events \o f) \o t \in Seq(Event)
      BY <1>a, <2>2, <2>3, ConcatProperties
    <2>6. Says((events \o f) \o t) => Says(events) \/ Says(f)
      BY <1>a, <2>2, <2>3, <2>5, SaysConcat
    <2>7. HandOut((events \o f) \o t) /\ ~Says(events')
      BY <2>1, SaysNothing DEF t, f
    <2> QED BY <2>4, <2>5, <2>6, <2>7, SaysHandOut DEF Said
  <1>6. CASE PollEnd
    <2> DEFINE f == Failed(pending, Healthy)
    <2>1. events' = <<>> /\ HandOut(events \o f) /\ wstate' = wstate
      BY <1>6 DEF PollEnd, channelVars
    <2>2. f \in Seq(Event) /\ (Says(f) => Healthy = {})
      BY <1>a, KeptType, SaysFailed
    <2> HIDE DEF f
    <2>3. events \o f \in Seq(Event)
      BY <1>a, <2>2, ConcatProperties
    <2>4. Says(events) \/ (\E r \in Requests : answer[r] = "no_healthy_worker") \/ Says(f)
      BY <1>a, <2>1, <2>2, <2>3, SaysNothing, SaysConcat, SaysHandOut DEF Said
    <2>5. Says(f) => \A w \in Workers : Down(w)'
      BY <2>1, <2>2 DEF Healthy, Down
    <2> QED BY <2>4, <2>5 DEF Said
  <1>7. CASE CloseBegin
    <2>1. events' = events \o EventsFor(pending, "cancelled") /\ answer' = answer
      BY <1>7 DEF CloseBegin, historyVars
    <2>2. "cancelled" \in Codes \ {"no_healthy_worker"}
      BY DEF Codes
    <2> QED BY <1>a, <2>1, <2>2, EventsForType, SaysNothing, SaysConcat DEF Said
  <1>8. CASE \/ \E r \in Requests : Submit(r)
             \/ PollBegin \/ WithinLimit \/ ReceiveNothing \/ ReceiveTimeout \/ ReceiveRefused
             \/ DispatchNext \/ DispatchToDead \/ DispatchDone
             \/ CloseWorker \/ CloseAborted \/ CloseEnd
             \/ \E w \in Workers : Child(w)
             \/ UNCHANGED vars
    <2>1. UNCHANGED <<events, answer>>
      BY <1>8 DEF Submit, SubmitDispatch, SubmitToDead, SubmitQueue, PollBegin, WithinLimit,
                  ReceiveNothing, ReceiveTimeout, ReceiveRefused, DispatchNext, DispatchToDead,
                  DispatchDone, CloseWorker, CloseAborted, CloseEnd, Child, vars, historyVars
    <2> QED BY <1>c, <2>1
  <1> QED
    BY <1>1, <1>2, <1>3, <1>4, <1>5, <1>6, <1>7, <1>8 DEF Next, Poll, Close

\* A caller is told that no worker is healthy only when none can serve any more,
\* and none comes back: the answer is as true when it arrives as when it was made.
THEOREM NoHealthyIsSaidTruly == Spec => []NoHealthyIsTrue
  <1>1. Init => NoHealthyInv
    BY SaysNothing DEF Init, NoHealthyInv, Said
  <1>2. TypeOK /\ CoupledInv /\ NoHealthyInv /\ [Next]_vars => NoHealthyInv'
    BY SayingStep, DownStays DEF NoHealthyInv
  <1>3. NoHealthyInv => NoHealthyIsTrue
    BY DEF NoHealthyInv, NoHealthyIsTrue, Said, Says, Down, Msg
  <1> QED BY <1>1, <1>2, <1>3, TypeCorrect, SpecCoupledInv, PTL DEF Spec

---------------------------------------------------------------------------
\* close() leaves nothing behind unless a child died by itself

\* A child is killed by its own client alone, which is then stopped. What poll
\* looks at next is an active worker: none is left once close() has run.
ChildrenInv ==
    \A w \in Workers :
        /\ wstate[w] = "stopped" => child[w] \in {"deaf", "dead", "killed"}
        /\ child[w] = "killed" => wstate[w] = "stopped"
CursorInv ==
    /\ pc \in {"expire", "get", "check"} /\ cursor \in Workers => active[cursor] # NoReq
    /\ pc = "check" => cursor \in Workers /\ wstate[cursor] = "busy"
AllStopped == \A w \in Workers : wstate[w] = "stopped" /\ active[w] = NoReq

CloseInv ==
    /\ ChildrenInv
    /\ CursorInv
    /\ Deaths = {} /\ closed /\ pc # "close" => AllStopped

LEMMA GoToActive ==
    ASSUME NEW call, NEW from, NEW act, GoTo(call, from, act), cursor' \in Workers
    PROVE  act[cursor'] # NoReq
  BY DEF GoTo, IsNextActive

LEMMA StepCursor == TypeOK /\ CursorInv /\ [Next]_vars => CursorInv'
  <1> SUFFICES ASSUME TypeOK, CursorInv, [Next]_vars PROVE CursorInv'
    OBVIOUS
  <1>1. CASE \/ PollBegin \/ WithinLimit \/ ReceiveTimeout \/ DispatchDone
    <2>1. (\E call \in {"expire", "get"} : \E from : GoTo(call, from, active)) /\ active' = active
      BY <1>1 DEF PollBegin, WithinLimit, ReceiveTimeout, DispatchDone
    <2> QED BY <2>1, GoToActive DEF CursorInv, GoTo
  <1>2. CASE ExpireActive \/ ReceiveOther \/ ReceiveExited
    <2>1. \E call \in {"expire", "get"} : \E from : GoTo(call, from, active')
      BY <1>2 DEF ExpireActive, ReceiveOther, ReceiveExited
    <2> QED BY <2>1, GoToActive DEF CursorInv, GoTo
  <1>3. CASE PollExpired
    <2>1. active' = active /\ ((\E from : GoTo("get", from, active)) \/ ReturnCall)
      BY <1>3 DEF PollExpired
    <2> QED BY <2>1, GoToActive DEF CursorInv, GoTo, ReturnCall
  <1>4. CASE \/ \E r \in Requests : Submit(r) \/ Cancel(r)
             \/ ReceiveTerminal \/ DispatchNext \/ DispatchToDead \/ ReceiveRefused \/ PollEnd
             \/ Close
    <2>1. pc' \in {"idle", "dispatch", "close"}
      BY <1>4 DEF Submit, SubmitDispatch, SubmitToDead, SubmitQueue, Admissible, Cancel, CancelPending,
                  CancelActive, ReceiveTerminal, DispatchNext, DispatchToDead, Dispatchable,
                  ReceiveRefused, PollEnd, ReturnCall, Close, CloseBegin, CloseWorker, CloseAborted,
                  CloseEnd, callVars
    <2> QED BY <2>1 DEF CursorInv
  <1>5. CASE ReceiveNothing \/ (\E w \in Workers : Child(w)) \/ UNCHANGED vars
    <2>1. UNCHANGED <<active, cursor, wstate>>
      BY <1>5 DEF ReceiveNothing, Child, ChildServe, ChildChunk, ChildFinish, ChildFault, ChildExit,
                  ChildCrash, vars, callVars, channelVars
    <2>2. pc' = pc \/ (pc = "get" /\ pc' = "check" /\ cursor \in Workers /\ wstate[cursor] = "busy")
      BY <1>5 DEF ReceiveNothing, Child, vars, callVars
    <2> QED BY <2>1, <2>2 DEF CursorInv
  <1> QED
    BY <1>1, <1>2, <1>3, <1>4, <1>5 DEF Next, Poll, Close

\* What a step may do to one client and its child.
Touched(w) ==
    \/ wstate[w] \in {"ready", "busy"} /\ ClientFail(w)
    \/ ClientStop(w)
    \/ ~CanSend(w) /\ ClientCut(w)
    \/ wstate[w] = "ready" /\ \E r : ClientSend(w, r)
    \/ wstate[w] = "busy" /\ results[w] # <<>> /\ \E m : ClientReceive(w, m)
    \/ ChildServe(w) \/ ChildFault(w) \/ ChildExit(w) \/ ChildCrash(w)

LEMMA StepTouches ==
    ASSUME CursorInv, [Next]_vars
    PROVE  UNCHANGED channelVars \/ \E w \in Workers : Touched(w)
  <1> USE DEF Touched
  <1>1. ASSUME NEW r \in Requests, Submit(r) \/ Cancel(r)
        PROVE  UNCHANGED channelVars \/ \E w \in Workers : Touched(w)
    BY <1>1 DEF Submit, SubmitDispatch, SubmitToDead, SubmitQueue, IsFirstReady, Ready,
                Cancel, CancelPending, CancelActive
  <1>2. CASE Poll
    <2>1. CASE ExpireActive \/ ReceiveTerminal \/ ReceiveOther
      BY <2>1 DEF ExpireActive, ReceiveTerminal, ReceiveOther, CanReceive
    <2>2. CASE ReceiveExited
      BY <2>2 DEF ReceiveExited, CursorInv
    <2>3. CASE DispatchNext \/ DispatchToDead
      BY <2>3 DEF DispatchNext, DispatchToDead, IsFirstReady, Ready
    <2>4. CASE \/ PollBegin \/ WithinLimit \/ PollExpired \/ ReceiveNothing \/ ReceiveTimeout
               \/ ReceiveRefused \/ DispatchDone \/ PollEnd
      BY <2>4 DEF PollBegin, WithinLimit, PollExpired, ReceiveNothing, ReceiveTimeout,
                  ReceiveRefused, DispatchDone, PollEnd
    <2> QED BY <1>2, <2>1, <2>2, <2>3, <2>4 DEF Poll
  <1>3. CASE Close
    BY <1>3 DEF Close, CloseBegin, CloseWorker, CloseAborted, ShutdownRaises, CloseEnd
  <1>4. CASE (\E w \in Workers : Child(w)) \/ UNCHANGED vars
    BY <1>4 DEF Child, vars
  <1> QED BY <1>1, <1>2, <1>3, <1>4 DEF Next

LEMMA StepChildren ==
    ASSUME TypeOK, CursorInv, ChildrenInv, [Next]_vars
    PROVE  /\ ChildrenInv'
           /\ Deaths \subseteq Deaths'
           /\ \A w \in Workers : wstate[w] = "stopped" => wstate'[w] = "stopped"
  <1> USE DEF TypeOK, ChannelTypeOK, ChildrenInv, Deaths, IsAlive
  <1>1. CASE UNCHANGED channelVars
    BY <1>1 DEF channelVars
  <1>2. ASSUME NEW w \in Workers, Touched(w)
        PROVE  /\ ChildrenInv'
               /\ Deaths \subseteq Deaths'
               /\ \A v \in Workers : wstate[v] = "stopped" => wstate'[v] = "stopped"
    <2>1. CASE wstate[w] \in {"ready", "busy"} /\ ClientFail(w)
      BY <2>1 DEF ClientFail
    <2>2. CASE ClientStop(w)
      BY <2>2 DEF ClientStop, ChildStates
    <2>6. CASE ~CanSend(w) /\ ClientCut(w)
      BY <2>6 DEF CanSend, ClientCut, ChildStates
    <2>3. CASE wstate[w] = "ready" /\ \E r : ClientSend(w, r)
      BY <2>3 DEF ClientSend
    <2>4. CASE wstate[w] = "busy" /\ results[w] # <<>> /\ \E m : ClientReceive(w, m)
      BY <2>4 DEF ClientReceive
    <2>5. CASE ChildServe(w) \/ ChildFault(w) \/ ChildExit(w) \/ ChildCrash(w)
      BY <2>5 DEF ChildServe, ChildChunk, ChildFinish, ChildFault, ChildExit, ChildCrash
    <2> QED BY <1>2, <2>1, <2>2, <2>3, <2>4, <2>5, <2>6 DEF Touched
  <1> QED BY <1>1, <1>2, StepTouches

LEMMA StepClose == TypeOK /\ CoupledInv /\ CloseInv /\ [Next]_vars => CloseInv'
  <1> SUFFICES ASSUME TypeOK, CoupledInv, CloseInv, [Next]_vars PROVE CloseInv'
    OBVIOUS
  <1>1. ChildrenInv /\ CursorInv /\ ChildrenInv' /\ CursorInv' /\ Deaths \subseteq Deaths'
    BY StepChildren, StepCursor DEF CloseInv
  <1> SUFFICES ASSUME Deaths' = {}, closed', pc' # "close" PROVE AllStopped'
    BY <1>1 DEF CloseInv
  <1>2. Deaths = {}
    BY <1>1
  <1>3. CASE closed /\ pc # "close"
    <2>1. AllStopped
      BY <1>2, <1>3 DEF CloseInv
    <2>2. \A w \in Workers : wstate'[w] = "stopped"
      BY <1>1, <2>1, StepChildren DEF AllStopped
    <2>3. ~DispatchNext /\ \A r \in Requests : ~SubmitDispatch(r)
      BY <2>1, <1>3 DEF AllStopped, DispatchNext, SubmitDispatch, Admissible, IsFirstReady, Ready
    <2> QED BY <2>1, <2>2, <2>3, OnlyDispatchOccupies DEF AllStopped
  <1>4. CASE closed /\ pc = "close"
    <2>1. CloseAborted \/ CloseEnd
      BY <1>4 DEF Next, Submit, SubmitDispatch, SubmitToDead, SubmitQueue, Admissible, Cancel,
                  CancelPending, CancelActive, Poll, PollBegin, WithinLimit, ExpireActive, PollExpired,
                  ReceiveTerminal, ReceiveOther, CanReceive, ReceiveNothing, ReceiveTimeout,
                  ReceiveExited, ReceiveRefused, DispatchNext, DispatchToDead, Dispatchable,
                  DispatchDone, PollEnd, Close, CloseBegin, CloseWorker, Child, vars, callVars
    <2>2. CASE CloseAborted
      <3>1. cursor \in Workers /\ wstate[cursor] = "ready" /\ ~CanSend(cursor)
        BY <2>2 DEF CloseAborted, ShutdownRaises
      <3>2. child[cursor] \in {"deaf", "dead"}
        BY <1>1, <3>1 DEF ChildrenInv, CanSend, TypeOK, ChannelTypeOK, ChildStates
      <3> QED BY <1>2, <3>1, <3>2 DEF Deaths
    <2>3. CASE CloseEnd
      BY <1>4, <2>3 DEF CloseEnd, CoupledInv, AllStopped, Workers, channelVars
    <2> QED BY <2>1, <2>2, <2>3
  <1>5. CASE ~closed
    <2>1. CloseBegin
      BY <1>5 DEF Next, Submit, SubmitDispatch, SubmitToDead, SubmitQueue, Cancel,
                  CancelPending, CancelActive, Poll, PollBegin, WithinLimit, ExpireActive, PollExpired,
                  ReceiveTerminal, ReceiveOther, ReceiveNothing, ReceiveTimeout,
                  ReceiveExited, ReceiveRefused, DispatchNext, DispatchToDead,
                  DispatchDone, PollEnd, Close, CloseWorker, CloseAborted, CloseEnd, Child, vars
    <2> QED BY <2>1 DEF CloseBegin
  <1> QED BY <1>3, <1>4, <1>5 DEF TypeOK

\* When close() has run, no child is left and no request is active, in every
\* state the workers may be in, unless a child had died by itself.
THEOREM CloseLeavesNothing == Spec => []CloseIsComplete
  <1>1. Init => CloseInv
    BY DEF Init, ChannelInit, CloseInv, ChildrenInv, CursorInv, Workers, IsAlive
  <1>2. TypeOK /\ CoupledInv /\ CloseInv /\ [Next]_vars => CloseInv'
    BY StepClose
  <1>3. CloseInv => CloseIsComplete
    BY DEF CloseInv, ChildrenInv, AllStopped, CloseIsComplete, ClosedMeansStopped,
           Deaths, IsAlive
  <1> QED BY <1>1, <1>2, <1>3, TypeCorrect, SpecCoupledInv, PTL DEF Spec

---------------------------------------------------------------------------
\* Nobody waits beside an idle worker

\* A worker becomes ready when its request ends, and the dispatch loop that
\* follows at once is left only when it is taken or nobody waits.
IdleInv == pending # <<>> => Ready \subseteq (IF pc = "dispatch" THEN {cursor} ELSE {})

LEMMA NoSlotNoReady ==
    ASSUME NumWorkers <= MaxConcurrent, TypeOK, CoupledInv, ~CanDispatch
    PROVE  Ready = {}
  <1>1. Busy \subseteq Workers
    BY DEF Busy
  <1>2. Cardinality(Busy) <= NumWorkers
    BY <1>1, WorkersFinite, FS_Subset
  <1>3. Cardinality(Busy) = NumWorkers
    BY <1>2, BusyFinite DEF CanDispatch
  <1>4. Busy = Workers
    BY <1>1, <1>3, WorkersFinite, FS_Subset
  <1> QED BY <1>4 DEF Busy, Ready, CoupledInv, Coupled

LEMMA StepIdle ==
    ASSUME NumWorkers <= MaxConcurrent, TypeOK, CoupledInv, IdleInv, [Next]_vars
    PROVE  IdleInv'
  <1>a. pending \in Seq(Requests) /\ wstate \in [Workers -> WorkerStates]
    BY DEF TypeOK, ChannelTypeOK
  <1>b. ASSUME pc # "dispatch", pc' # "dispatch", Ready' \subseteq Ready,
               pending' # <<>> => pending # <<>>
        PROVE  IdleInv'
    BY <1>b DEF IdleInv
  <1>c. ASSUME NEW q \in Seq(Requests), NEW k, CanExpire(q, k), Younger(q, k) # <<>>
        PROVE  q # <<>>
    BY <1>c, EmptySeq, LenProperties DEF Younger, CanExpire
  <1>d. ASSUME NEW w \in Workers, ClientStop(w) \/ ClientCut(w) \/ ClientFail(w) \/ \E r : ClientSend(w, r)
        PROVE  Ready' = Ready \ {w}
    BY <1>a, <1>d DEF ClientStop, ClientCut, ClientFail, ClientSend, Ready
  <1>1. ASSUME NEW r \in Requests, SubmitDispatch(r) \/ SubmitToDead(r) PROVE IdleInv'
    <2>1. pc = "idle" /\ Ready # {} /\ pending' = pending
      BY <1>1 DEF SubmitDispatch, SubmitToDead, Admissible, IsFirstReady
    <2> QED BY <2>1 DEF IdleInv
  <1>2. ASSUME NEW r \in Requests, SubmitQueue(r) PROVE IdleInv'
    <2>1. Ready = {} /\ Ready' = Ready
      BY <1>2, NoSlotNoReady DEF SubmitQueue, channelVars, Ready
    <2> QED BY <2>1 DEF IdleInv
  <1>3. ASSUME NEW r \in Requests, Cancel(r) PROVE IdleInv'
    <2>1. CASE CancelPending(r)
      <3>1. pc = "idle" /\ pc' = pc /\ Ready' = Ready /\ pending # <<>>
        BY <1>a, <2>1, EmptySeq DEF CancelPending, channelVars, callVars, Ready
      <3> QED BY <1>b, <3>1
    <2>2. CASE CancelActive(r)
      <3>1. pc = "idle" /\ pc' = pc /\ Ready' \subseteq Ready /\ (pending' # <<>> => pending # <<>>)
        BY <1>d, <2>2 DEF CancelActive, callVars, Kept
      <3> QED BY <1>b, <3>1
    <2> QED BY <1>3, <2>1, <2>2 DEF Cancel
  <1>4. CASE \/ PollBegin \/ WithinLimit \/ ReceiveNothing \/ ReceiveTimeout \/ ReceiveRefused
             \/ CloseEnd
    <2>1. pc # "dispatch" /\ pc' # "dispatch" /\ Ready' = Ready /\ pending' = pending
      BY <1>4 DEF PollBegin, WithinLimit, ReceiveNothing, ReceiveTimeout, ReceiveRefused, CloseEnd,
                  GoTo, ReturnCall, channelVars, Ready
    <2> QED BY <1>b, <2>1
  <1>5. CASE ExpireActive \/ ReceiveExited \/ CloseWorker \/ CloseAborted
    <2>1. pc # "dispatch" /\ pc' # "dispatch" /\ pending' = pending
      BY <1>5 DEF ExpireActive, ReceiveExited, CloseWorker, CloseAborted, GoTo, ReturnCall
    <2>2. UNCHANGED channelVars \/ \E w \in Workers : ClientStop(w) \/ ClientCut(w) \/ ClientFail(w)
      BY <1>5 DEF ExpireActive, ReceiveExited, CloseWorker, CloseAborted
    <2>3. Ready' \subseteq Ready
      BY <1>d, <2>2 DEF channelVars, Ready
    <2> QED BY <1>b, <2>1, <2>3
  <1>6. CASE ReceiveOther
    <2>1. pc = "get" /\ pc' # "dispatch" /\ pending' = pending
      BY <1>6 DEF ReceiveOther, CanReceive, GoTo
    <2>2. Ready' \subseteq Ready
      BY <1>6 DEF ReceiveOther, CanReceive, ClientReceive, Terminal, Ready, TypeOK, ChannelTypeOK
    <2> QED BY <1>b, <2>1, <2>2
  <1>7. CASE PollExpired
    <2>1. pc # "dispatch" /\ pc' # "dispatch" /\ Ready' = Ready
      BY <1>7 DEF PollExpired, GoTo, ReturnCall, channelVars, Ready
    <2>2. PICK healthy, k :
            CanExpire(Kept(pending, healthy), k) /\ pending' = Younger(Kept(pending, healthy), k)
      BY <1>7 DEF PollExpired
    <2>3. pending' # <<>> => pending # <<>>
      BY <1>a, <1>c, <2>2, KeptType DEF Kept
    <2> QED BY <1>b, <2>1, <2>3
  <1>8. CASE ReceiveTerminal
    <2>1. pc = "get" /\ pc' = "dispatch" /\ cursor' = cursor /\ Ready' \subseteq Ready \cup {cursor}
      BY <1>8 DEF ReceiveTerminal, CanReceive, ClientReceive, Ready, TypeOK, ChannelTypeOK
    <2>2. pending' # <<>> => pending # <<>>
      BY <1>a, <1>c, <1>8 DEF ReceiveTerminal
    <2> QED BY <2>1, <2>2 DEF IdleInv
  <1>9. CASE DispatchNext \/ DispatchToDead
    <2>1. PICK w \in Workers : w \in Ready /\ Ready' = Ready \ {w}
      BY <1>9, <1>d DEF DispatchNext, DispatchToDead, IsFirstReady
    <2>2. pc = "dispatch" /\ pending # <<>>
      BY <1>9 DEF DispatchNext, DispatchToDead, Dispatchable
    <2>3. Ready' = {}
      BY <2>1, <2>2 DEF IdleInv
    <2> QED BY <2>3 DEF IdleInv
  <1>10. CASE DispatchDone
    <2>1. (pending = <<>> \/ Ready = {}) /\ pending' = pending /\ Ready' = Ready
      BY <1>10, NoSlotNoReady DEF DispatchDone, channelVars, Ready
    <2> QED BY <2>1 DEF IdleInv
  <1>11. CASE PollEnd
    <2>1. pc # "dispatch" /\ pc' # "dispatch" /\ Ready' = Ready /\ (pending' # <<>> => pending # <<>>)
      BY <1>11 DEF PollEnd, ReturnCall, channelVars, Ready, Kept
    <2> QED BY <1>b, <2>1
  <1>12. CASE CloseBegin
    BY <1>12 DEF CloseBegin, IdleInv
  <1>13. CASE (\E w \in Workers : Child(w)) \/ UNCHANGED vars
    <2>1. UNCHANGED <<wstate, pending, pc, cursor>>
      BY <1>13 DEF Child, ChildServe, ChildChunk, ChildFinish, ChildFault, ChildExit, ChildCrash,
                   callVars, vars, channelVars
    <2> QED BY <2>1 DEF IdleInv, Ready
  <1> QED
    BY <1>1, <1>2, <1>3, <1>4, <1>5, <1>6, <1>7, <1>8, <1>9, <1>10, <1>11, <1>12, <1>13
    DEF Next, Submit, Poll, Close

\* Without a limit below the number of workers, a request waits between calls
\* only while every worker is busy or gone.
THEOREM NobodyWaitsIdly ==
    ASSUME NumWorkers <= MaxConcurrent
    PROVE  Spec => []NoIdleWorkerWhileQueued
  <1>1. Init => IdleInv
    BY DEF Init, IdleInv
  <1>2. TypeOK /\ CoupledInv /\ IdleInv /\ [Next]_vars => IdleInv'
    BY StepIdle
  <1>3. IdleInv => NoIdleWorkerWhileQueued
    BY DEF IdleInv, NoIdleWorkerWhileQueued
  <1> QED BY <1>1, <1>2, <1>3, TypeCorrect, SpecCoupledInv, PTL DEF Spec

\* With as many slots as workers nobody waits beside an idle worker, so that a
\* new request cannot overtake the queue, and the dispatch loop takes its head.
THEOREM QueueIsFifo ==
    ASSUME NumWorkers <= MaxConcurrent
    PROVE  Spec => Fifo
  <1> DEFINE TakesHead ==
        \A w \in Workers :
            active[w] = NoReq /\ active'[w] # NoReq /\ pending # <<>> => active'[w] = Head(pending)
  <1>1. Init => IdleInv
    BY DEF Init, IdleInv
  <1>2. TypeOK /\ CoupledInv /\ IdleInv /\ [Next]_vars => IdleInv'
    BY StepIdle
  <1>3. TypeOK /\ IdleInv /\ [Next]_vars => TakesHead
    <2> SUFFICES ASSUME TypeOK, IdleInv, [Next]_vars PROVE TakesHead
      OBVIOUS
    <2>1. CASE DispatchNext
      BY <2>1 DEF DispatchNext, TypeOK
    <2>2. CASE \E r \in Requests : SubmitDispatch(r)
      BY <2>2 DEF SubmitDispatch, Admissible, IsFirstReady, IdleInv
    <2>3. CASE ~DispatchNext /\ \A r \in Requests : ~SubmitDispatch(r)
      BY <2>3, OnlyDispatchOccupies
    <2> QED BY <2>1, <2>2, <2>3
  <1>4. TypeOK /\ IdleInv /\ [Next]_vars => [TakesHead]_vars
    BY <1>3
  <1> QED BY <1>1, <1>2, <1>4, TypeCorrect, SpecCoupledInv, PTL DEF Spec, Fifo
=============================================================================
