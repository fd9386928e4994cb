---------------------------- MODULE ChannelProofs ----------------------------
(***************************************************************************)
(* The parent's WorkerClient and its child, under every use the scheduler  *)
(* makes of them: the request ids of the result queue.                     *)
(***************************************************************************)
EXTENDS SchedulerProofs

USE ChannelAssumption, SchedulerAssumption

\* What the result queue of w may hold: messages of the request its client is
\* busy with, nothing of it after its last one, and after an error without a
\* request id nothing at all, for the child has left its loop.
QueueOf(w) ==
    /\ \A i \in 1..Len(results[w]) : results[w][i].req # NoReq =>
        wstate[w] = "failed" \/ (wstate[w] = "busy" /\ results[w][i].req = wactive[w])
    /\ \A i, j \in 1..Len(results[w]) : i < j /\ Terminal(results[w][i]) => results[w][j].req = NoReq
    /\ \A i \in 1..Len(results[w]) : Terminal(results[w][i]) =>
        child[w] # "serving" \/ job[w] = NoReq
    /\ \A i \in 1..Len(results[w]) : results[w][i].req = NoReq =>
        child[w] # "serving" /\ Terminal(results[w][i])

\* What a serving child works on is what its client was given.
JobOf(w) ==
    child[w] = "serving" /\ job[w] # NoReq =>
        wstate[w] = "failed" \/ (wstate[w] = "busy" /\ job[w] = wactive[w])

QueuesInv == \A w \in Workers : QueueOf(w) /\ JobOf(w)

LEMMA NoMismatch ==
    ASSUME ChannelTypeOK, QueuesInv, NEW w \in Workers, wstate[w] = "busy", results[w] # <<>>
    PROVE  ~IsMismatch(w, Head(results[w]))
  <1>1. results[w] \in Seq(Message) /\ 1 \in 1..Len(results[w])
    BY EmptySeq, LenProperties DEF ChannelTypeOK
  <1>2. Head(results[w]) = results[w][1]
    BY <1>1
  <1> QED BY <1>1, <1>2 DEF QueuesInv, QueueOf, IsMismatch

\* A step that touches worker w only.
LEMMA OneWorker ==
    ASSUME QueuesInv, ChannelTypeOK, NEW w \in Workers,
           \A v \in Workers \ {w} :
              /\ wstate'[v] = wstate[v] /\ wactive'[v] = wactive[v] /\ child'[v] = child[v]
              /\ job'[v] = job[v] /\ results'[v] = results[v],
           QueueOf(w)', JobOf(w)'
    PROVE  QueuesInv'
  <1>1. ASSUME NEW v \in Workers \ {w} PROVE QueueOf(v)' /\ JobOf(v)'
    BY DEF QueuesInv, QueueOf, JobOf
  <1> QED BY <1>1 DEF QueuesInv

LEMMA SendKeepsQueues ==
    ASSUME ChannelTypeOK, QueuesInv, NEW w \in Workers, NEW r \in Requests,
           wstate[w] = "ready", ClientSend(w, r)
    PROVE  QueuesInv'
  <1> USE DEF ChannelTypeOK, ClientSend
  <1>1. QueueOf(w)'
    BY DEF QueuesInv, QueueOf
  <1>2. JobOf(w)'
    BY DEF JobOf
  <1> QED BY <1>1, <1>2, OneWorker

LEMMA FailKeepsQueues ==
    ASSUME ChannelTypeOK, QueuesInv, NEW w \in Workers, ClientFail(w)
    PROVE  QueuesInv'
  <1> USE DEF ChannelTypeOK, ClientFail
  <1>1. QueueOf(w)' /\ JobOf(w)'
    BY DEF QueuesInv, QueueOf, JobOf
  <1> QED BY <1>1, OneWorker

LEMMA StopKeepsQueues ==
    ASSUME ChannelTypeOK, QueuesInv, NEW w \in Workers, ClientStop(w) \/ ClientCut(w)
    PROVE  QueuesInv'
  <1> USE DEF ChannelTypeOK, ClientStop, ClientCut
  <1>1. results'[w] = <<>> /\ job'[w] = NoReq
    OBVIOUS
  <1>2. QueueOf(w)' /\ JobOf(w)'
    BY <1>1, EmptySeq DEF QueueOf, JobOf
  <1> QED BY <1>2, OneWorker

LEMMA ReceiveKeepsQueues ==
    ASSUME ChannelTypeOK, QueuesInv, NEW w \in Workers, wstate[w] = "busy",
           results[w] # <<>>, ClientReceive(w, Head(results[w]))
    PROVE  QueuesInv'
  <1> DEFINE q == results[w]
             m == Head(results[w])
  <1>1. /\ q \in Seq(Message) /\ 1 \in 1..Len(q) /\ m = q[1]
        /\ Len(Tail(q)) = Len(q) - 1
        /\ \A i \in 1..(Len(q) - 1) : Tail(q)[i] = q[i + 1]
    BY EmptySeq, LenProperties, HeadTailProperties DEF ChannelTypeOK
  <1>2. ~IsMismatch(w, m)
    BY NoMismatch
  <1>3. /\ results'[w] = Tail(q)
        /\ wstate'[w] = IF Terminal(m) THEN "ready" ELSE wstate[w]
        /\ wactive'[w] = IF Terminal(m) THEN NoReq ELSE wactive[w]
        /\ child'[w] = child[w] /\ job'[w] = job[w]
    BY <1>2 DEF ClientReceive, ChannelTypeOK, Terminal
  <1>4. \A i \in 1..Len(Tail(q)) : i + 1 \in 1..Len(q) /\ 1 < i + 1 /\ Tail(q)[i] = q[i + 1]
    BY <1>1, LenProperties
  <1>5. QueueOf(w)'
    BY <1>1, <1>3, <1>4 DEF QueuesInv, QueueOf, Terminal
  <1>6. JobOf(w)'
    <2>1. Terminal(m) => child[w] # "serving" \/ job[w] = NoReq
      BY <1>1 DEF QueuesInv, QueueOf
    <2> QED BY <1>3, <2>1 DEF QueuesInv, JobOf
  <1> QED BY <1>5, <1>6, OneWorker DEF ClientReceive, ChannelTypeOK

LEMMA MsgParts ==
    ASSUME NEW r \in OptRequest, NEW code \in ChildCodes, NEW n \in 0..MaxChunks
    PROVE  /\ Msg(r, code, n) \in Message
           /\ Msg(r, code, n).req = r
           /\ Terminal(Msg(r, code, n)) <=> code # "chunk"
  BY DEF Msg, Message, Terminal

LEMMA PutProperties ==
    ASSUME ChannelTypeOK, NEW w \in Workers, NEW m \in Message, Put(w, m)
    PROVE  /\ Len(results'[w]) = Len(results[w]) + 1
           /\ \A i \in 1..Len(results[w]) : results'[w][i] = results[w][i]
           /\ results'[w][Len(results[w]) + 1] = m
           /\ Len(results[w]) \in Nat
  BY AppendProperties, LenProperties DEF Put, ChannelTypeOK

\* What the child may add to its queue.
LEMMA PutKeepsQueue ==
    ASSUME ChannelTypeOK, NEW w \in Workers, QueueOf(w), NEW m \in Message, Put(w, m),
           wstate' = wstate, wactive' = wactive,
           child[w] # "serving" => child'[w] # "serving",
           job[w] = NoReq => job'[w] = NoReq,
           m.req # NoReq => wstate[w] = "failed" \/ (wstate[w] = "busy" /\ m.req = wactive[w]),
           \A i \in 1..Len(results[w]) : Terminal(results[w][i]) => m.req = NoReq,
           Terminal(m) => child'[w] # "serving" \/ job'[w] = NoReq,
           m.req = NoReq => child'[w] # "serving" /\ Terminal(m)
    PROVE  QueueOf(w)'
  <1> DEFINE n == Len(results[w])
             q == results'[w]
  <1>1. /\ Len(q) = n + 1 /\ n \in Nat
        /\ \A i \in 1..n : q[i] = results[w][i]
        /\ q[n + 1] = m
    BY PutProperties
  <1>2. \A i \in 1..Len(q) : i \in 1..n \/ i = n + 1
    BY <1>1
  <1>3. \A i, j \in 1..Len(q) : i < j => i \in 1..n
    BY <1>1
  <1> HIDE DEF n, q
  <1> USE DEF QueueOf
  <1>4. \A i \in 1..Len(q) : q[i].req # NoReq =>
          wstate'[w] = "failed" \/ (wstate'[w] = "busy" /\ q[i].req = wactive'[w])
    BY <1>1, <1>2 DEF n
  <1>5. \A i, j \in 1..Len(q) : i < j /\ Terminal(q[i]) => q[j].req = NoReq
    BY <1>1, <1>2, <1>3 DEF n
  <1>6. \A i \in 1..Len(q) : Terminal(q[i]) => child'[w] # "serving" \/ job'[w] = NoReq
    BY <1>1, <1>2 DEF n
  <1>7. \A i \in 1..Len(q) : q[i].req = NoReq => child'[w] # "serving" /\ Terminal(q[i])
    BY <1>1, <1>2 DEF n
  <1> QED BY <1>4, <1>5, <1>6, <1>7 DEF q, Terminal

LEMMA ChildKeepsQueues ==
    ASSUME ChannelTypeOK, QueuesInv, NEW w \in Workers,
           ChildServe(w) \/ ChildFault(w) \/ ChildExit(w) \/ ChildCrash(w)
    PROVE  QueuesInv'
  <1> USE DEF ChannelTypeOK
  <1>0. QueueOf(w) /\ JobOf(w)
    BY DEF QueuesInv
  <1>1. CASE ChildChunk(w)
    <2> DEFINE m == Msg(job[w], "chunk", made[w] + 1)
    <2>1. /\ child[w] = "serving" /\ job[w] \in Streams /\ made[w] < MaxChunks
          /\ Put(w, m) /\ UNCHANGED <<wstate, wactive, child, job>>
      BY <1>1 DEF ChildChunk
    <2>2. job[w] \in OptRequest /\ job[w] # NoReq /\ made[w] + 1 \in 0..MaxChunks
      BY <2>1 DEF OptRequest
    <2>3. m \in Message /\ m.req = job[w] /\ ~Terminal(m)
      BY <2>2, MsgParts DEF ChildCodes
    <2> HIDE DEF m
    <2>4. QueueOf(w)'
      BY <1>0, <2>1, <2>2, <2>3, PutKeepsQueue DEF QueueOf, JobOf
    <2>5. JobOf(w)'
      BY <1>0, <2>1 DEF JobOf
    <2> QED BY <2>1, <2>4, <2>5, OneWorker DEF Put
  <1>2. CASE ChildFinish(w)
    <2>1. /\ child[w] = "serving" /\ job[w] # NoReq /\ job' = [job EXCEPT ![w] = NoReq]
          /\ UNCHANGED <<wstate, wactive, child>>
      BY <1>2 DEF ChildFinish
    <2>2. PICK code \in ChildCodes, n \in 0..MaxChunks : Put(w, Msg(job[w], code, n))
      BY <1>2 DEF ChildFinish, ChildCodes
    <2> DEFINE m == Msg(job[w], code, n)
    <2>3. m \in Message /\ Put(w, m) /\ m.req = job[w]
      BY <2>2, MsgParts
    <2> HIDE DEF m
    <2>4. /\ wstate[w] = "failed" \/ (wstate[w] = "busy" /\ m.req = wactive[w])
          /\ m.req # NoReq /\ job'[w] = NoReq
      BY <1>0, <2>1, <2>3 DEF JobOf
    <2>5. \A i \in 1..Len(results[w]) : ~Terminal(results[w][i])
      BY <1>0, <2>1 DEF QueueOf
    <2>6. QueueOf(w)'
      BY <1>0, <2>1, <2>3, <2>4, <2>5, PutKeepsQueue
    <2>7. JobOf(w)'
      BY <2>4 DEF JobOf
    <2> QED BY <2>1, <2>3, <2>6, <2>7, OneWorker DEF Put
  <1>3. CASE ChildFault(w)
    <2> DEFINE m == Msg(NoReq, "error", 0)
    <2>1. /\ Put(w, m) /\ UNCHANGED <<wstate, wactive, job>>
          /\ child' = [child EXCEPT ![w] = "exiting"]
      BY <1>3 DEF ChildFault
    <2>2. m \in Message /\ m.req = NoReq /\ Terminal(m)
      BY MsgParts DEF ChildCodes, OptRequest
    <2> HIDE DEF m
    <2>4. QueueOf(w)'
      BY <1>0, <2>1, <2>2, PutKeepsQueue
    <2>5. JobOf(w)'
      BY <2>1 DEF JobOf
    <2> QED BY <2>1, <2>4, <2>5, OneWorker DEF Put
  <1>4. CASE ChildExit(w) \/ ChildCrash(w)
    <2>1. child'[w] \in {"deaf", "dead"}
      BY <1>4 DEF ChildExit, ChildCrash
    <2>2. QueueOf(w)' /\ JobOf(w)'
      BY <1>4, <2>1 DEF ChildExit, ChildCrash, QueuesInv, QueueOf, JobOf
    <2> QED BY <1>4, <2>2, OneWorker DEF ChildExit, ChildCrash
  <1> QED BY <1>1, <1>2, <1>3, <1>4 DEF ChildServe

LEMMA UnchangedKeepsQueues ==
    ASSUME QueuesInv, UNCHANGED channelVars
    PROVE  QueuesInv'
  BY DEF QueuesInv, QueueOf, JobOf, channelVars, Terminal

---------------------------------------------------------------------------
LEMMA StepQueues == TypeOK /\ QueuesInv /\ [Next]_vars => QueuesInv'
  <1> SUFFICES ASSUME TypeOK, QueuesInv, [Next]_vars PROVE QueuesInv'
    OBVIOUS
  <1> USE UnchangedKeepsQueues DEF TypeOK
  <1>1. ASSUME NEW r \in Requests, Submit(r) PROVE QueuesInv'
    BY <1>1, SendKeepsQueues, FailKeepsQueues
    DEF Submit, SubmitDispatch, SubmitToDead, SubmitQueue, IsFirstReady, Ready
  <1>2. ASSUME NEW r \in Requests, Cancel(r) PROVE QueuesInv'
    BY <1>2, StopKeepsQueues DEF Cancel, CancelPending, CancelActive
  <1>3. CASE PollBegin \/ WithinLimit \/ PollExpired \/ ReceiveNothing \/ ReceiveTimeout
             \/ ReceiveRefused \/ DispatchDone \/ PollEnd
    BY <1>3 DEF PollBegin, WithinLimit, PollExpired, ReceiveNothing, ReceiveTimeout,
                ReceiveRefused, DispatchDone, PollEnd
  <1>4. CASE ExpireActive
    BY <1>4, StopKeepsQueues DEF ExpireActive
  <1>5. CASE ReceiveTerminal \/ ReceiveOther
    BY <1>5, ReceiveKeepsQueues DEF ReceiveTerminal, ReceiveOther, CanReceive, Inbox
  <1>6. CASE ReceiveExited
    BY <1>6, FailKeepsQueues DEF ReceiveExited
  <1>7. CASE DispatchNext
    <2>1. Head(pending) \in Requests
      BY <1>7, HeadTailProperties DEF DispatchNext, Dispatchable
    <2> QED BY <1>7, <2>1, SendKeepsQueues DEF DispatchNext, IsFirstReady, Ready
  <1>8. CASE DispatchToDead
    BY <1>8, FailKeepsQueues DEF DispatchToDead
  <1>9. CASE Close
    BY <1>9, StopKeepsQueues DEF Close, CloseBegin, CloseWorker, CloseAborted, CloseEnd
  <1>10. ASSUME NEW w \in Workers, Child(w) PROVE QueuesInv'
    BY <1>10, ChildKeepsQueues DEF Child
  <1>11. CASE UNCHANGED vars
    BY <1>11 DEF vars
  <1> QED
    BY <1>1, <1>2, <1>3, <1>4, <1>5, <1>6, <1>7, <1>8, <1>9, <1>10, <1>11 DEF Next, Poll

LEMMA SpecQueues == Spec => []QueuesInv
  <1>1. Init => QueuesInv
    <2> SUFFICES ASSUME Init, NEW w \in Workers PROVE QueueOf(w) /\ JobOf(w)
      BY DEF QueuesInv
    <2>1. results[w] = <<>> /\ job[w] = NoReq
      BY DEF Init, ChannelInit
    <2> QED BY <2>1, EmptySeq DEF QueueOf, JobOf
  <1>2. TypeOK /\ QueuesInv /\ [Next]_vars => QueuesInv'
    BY StepQueues
  <1> QED BY <1>1, <1>2, TypeCorrect, PTL DEF Spec

\* No client ever takes another request's message for its own: the
\* request_id_mismatch branch of WorkerClient.receive is never taken, even
\* after a child failed between two requests.
THEOREM MessagesAreOwn == Spec => []NoForeignMessage
  <1>1. TypeOK /\ QueuesInv => NoForeignMessage
    BY NoMismatch DEF TypeOK, NoForeignMessage
  <1> QED BY <1>1, TypeCorrect, SpecQueues, PTL
=============================================================================
