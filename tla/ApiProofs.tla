------------------------------ MODULE ApiProofs ------------------------------
(***************************************************************************)
(* What is proved of the dispatcher thread and the handlers: that it hands *)
(* an answer to the handler that waits for it, and that it survives; that  *)
(* a client receives its stream complete and in order; that a cancellation *)
(* is final; and what its variables can be.                                *)
(***************************************************************************)
EXTENDS ApiRuntime, FiniteSetTheorems, SequenceTheorems, TLAPS

USE ApiAssumption

FutureStates == {"none", "pending", "set", "cancelled"}
Routing == {"route", "resolve", "offer", "put", "drain"}
HandlerStates == {"idle", "accepted", "reading", "writing", "leaving", "done"}
Message == [req : Requests \cup {NoReq}, kind : Kinds, n : Nat]

Typed ==
    /\ phase \in [Requests -> Scheduler!Phases]
    /\ sent \in [Requests -> Nat]
    /\ futures \subseteq OneShots
    /\ fut \in [Requests -> FutureStates]
    /\ streams \subseteq Streams
    /\ handler \in [Requests -> HandlerStates]
    /\ dpc \in Routing \cup {"poll", "ended", "dead"}
    /\ batch \in Seq(Message)
    /\ dpc \in Routing <=> batch # <<>>

\* The events in the dispatcher's hands are of admitted requests, and what is
\* of a one-shot is its answer; a stream has no result.
InHand(e) ==
    e.req # NoReq =>
        /\ phase[e.req] # "new"
        /\ e.req \in OneShots => e.kind \in {"result", "error"}
        /\ e.req \in Streams => e.kind # "result"

\* A future that has been popped and not been set is the current event's.
Resolving ==
    dpc = "resolve" =>
        /\ Current.req \in OneShots \ futures
        /\ fut[Current.req] \in {"pending", "cancelled"}
        /\ fut[Current.req] = "cancelled" => Current.req \in Abortable /\ ~RequestTimeout

\* Every handler that waits has a future, which is done, or will be: it is in
\* the dispatcher's table or hands, and so is its answer, once there is one. All
\* that ends with the dispatcher.
Waiting(r) ==
    handler[r] = "reading" =>
        \/ fut[r] \in {"set", "cancelled"}
        \/ /\ fut[r] = "pending"
           /\ r \in futures \/ (dpc = "resolve" /\ Current.req = r)
           /\ phase[r] = "told" => \E i \in 1..Len(batch) : batch[i].req = r
        \/ dpc = "dead"

\* What the dispatcher dies of.
Fallen == dpc = "dead" =>
    ~RequestTimeout /\ \E q \in Abortable : fut[q] = "cancelled" /\ phase[q] # "new"

ApiInv ==
    /\ Typed
    /\ \A i \in 1..Len(batch) : InHand(batch[i])
    /\ dpc \in {"offer", "put", "drain"} => Current.req \in Streams
    /\ Resolving
    /\ \A r \in OneShots : Waiting(r)
    /\ Fallen

---------------------------------------------------------------------------
\* An enumeration of a finite set is a sequence that reaches every element.
LEMMA Enumeration ==
    ASSUME NEW S, IsFiniteSet(S), NEW q \in SetToSeqs(S)
    PROVE  q \in Seq(S) /\ \A e \in S : \E i \in 1..Len(q) : q[i] = e
  <1> DEFINE n == Cardinality(S)
  <1>1. n \in Nat
    BY FS_CardinalityType
  <1>2. q \in [1..n -> S] /\ \A i, j \in 1..n : i # j => q[i] # q[j]
    BY DEF SetToSeqs
  <1>3. q \in Injection(1..n, S)
    BY <1>2 DEF Injection, IsInjective
  <1>4. Cardinality(1..n) = n
    BY <1>1, FS_Interval
  <1>5. q \in Surjection(1..n, S)
    BY <1>3, <1>4, FS_Injection
  <1>6. q \in Seq(S) /\ Len(q) = n
    BY <1>1, <1>2
  <1> QED BY <1>5, <1>6 DEF Surjection

\* What the head and the tail of the batch are.
LEMMA HeadOfBatch ==
    ASSUME Typed, dpc \in Routing
    PROVE  /\ Len(batch) \in Nat /\ Len(batch) >= 1
           /\ Current = batch[1] /\ Current \in Message
           /\ Tail(batch) \in Seq(Message) /\ Len(Tail(batch)) = Len(batch) - 1
           /\ \A i \in 1..Len(Tail(batch)) : Tail(batch)[i] = batch[i + 1]
  <1>1. batch \in Seq(Message) /\ batch # <<>>
    BY DEF Typed
  <1>2. Len(batch) \in Nat /\ Len(batch) >= 1
    BY <1>1, EmptySeq, LenProperties
  <1>3. batch[1] \in Message
    BY <1>1, <1>2, ElementOfSeq
  <1>4. Current = batch[1]
    BY <1>1, <1>2 DEF Current
  <1>5. Tail(batch) \in Seq(Message) /\ Len(Tail(batch)) = Len(batch) - 1
        /\ \A i \in 1..Len(Tail(batch)) : Tail(batch)[i] = batch[i + 1]
    BY <1>1, HeadTailProperties
  <1> QED BY <1>2, <1>3, <1>4, <1>5

\* When the dispatcher is done with the current event.
LEMMA AdvanceKeeps ==
    ASSUME ApiInv, dpc \in Routing, Advance, phase' = phase
    PROVE  /\ batch' \in Seq(Message)
           /\ dpc' \in {"poll", "ended", "route"}
           /\ dpc' = "route" <=> batch' # <<>>
           /\ \A i \in 1..Len(batch') : InHand(batch[i])'
           /\ \A r : r # Current.req /\ (\E i \in 1..Len(batch) : batch[i].req = r)
                        => \E i \in 1..Len(batch') : batch'[i].req = r
  <1>1. batch' = Tail(batch)
    BY DEF Advance
  <1>2. dpc' \in {"poll", "ended", "route"} /\ (dpc' = "route" <=> batch' # <<>>)
    BY DEF Advance, BeginLoop
  <1>3. Typed
    BY DEF ApiInv
  <1>4. ASSUME NEW i \in 1..Len(batch') PROVE InHand(batch[i])'
    <2>1. i + 1 \in 1..Len(batch) /\ batch'[i] = batch[i + 1]
      BY <1>1, <1>3, <1>4, HeadOfBatch
    <2>2. InHand(batch[i + 1])
      BY <2>1 DEF ApiInv
    <2> QED BY <2>1, <2>2 DEF InHand
  <1>5. ASSUME NEW r, r # Current.req, NEW i \in 1..Len(batch), batch[i].req = r
        PROVE  \E j \in 1..Len(batch') : batch'[j].req = r
    <2>1. i # 1
      BY <1>3, <1>5, HeadOfBatch
    <2>2. i - 1 \in 1..Len(batch') /\ batch'[i - 1] = batch[i]
      BY <2>1, <1>1, <1>3, HeadOfBatch
    <2> QED BY <2>2, <1>5
  <1> QED BY <1>1, <1>2, <1>3, <1>4, <1>5, HeadOfBatch

\* Waiting depends on nothing but these.
LEMMA SameWaiting ==
    ASSUME NEW r, Waiting(r), fut'[r] = fut[r], handler'[r] = handler[r],
           r \in futures => r \in futures', dpc \in {"resolve", "dead"} => dpc' = dpc,
           phase'[r] = "told" => phase[r] = "told", batch' = batch
    PROVE  Waiting(r)'
  BY DEF Waiting, Current

---------------------------------------------------------------------------
LEMMA InitApi == Init => ApiInv
  <1> SUFFICES ASSUME Init PROVE ApiInv
    OBVIOUS
  <1>1. batch \in Seq(Message) /\ batch = <<>> /\ Len(batch) = 0
    BY EmptySeq DEF Init
  <1>2. Typed
    BY <1>1 DEF Init, Typed, Scheduler!Init, Scheduler!Phases, FutureStates, Routing, HandlerStates
  <1>3. \A i \in 1..Len(batch) : InHand(batch[i])
    BY <1>1
  <1>4. Resolving /\ Fallen /\ \A r \in OneShots : Waiting(r)
    BY DEF Init, Resolving, Fallen, Waiting, OneShots
  <1> QED BY <1>2, <1>3, <1>4 DEF ApiInv, Init

---------------------------------------------------------------------------
\* The dispatcher routes.

LEMMA NowhereKeeps ==
    ASSUME ApiInv, RouteNowhere
    PROVE  ApiInv'
  <1> USE DEF RouteNowhere
  <1>1. Typed /\ dpc \in Routing /\ phase' = phase
    BY DEF ApiInv, Routing, schedulerVars
  <1>2. Current.req \notin OneShots
    <2>1. 1 \in 1..Len(batch) /\ Current = batch[1]
      BY <1>1, HeadOfBatch
    <2> QED BY <2>1 DEF ApiInv, InHand, OneShots
  <1>3. Typed'
    BY <1>1, AdvanceKeeps DEF Typed, Routing, schedulerVars, tableVars, httpVars
  <1>4. ASSUME NEW r \in OneShots PROVE Waiting(r)'
    BY <1>1, <1>2, AdvanceKeeps DEF ApiInv, Waiting, tableVars, httpVars
  <1> QED BY <1>1, <1>3, <1>4, AdvanceKeeps DEF ApiInv, Resolving, Fallen

LEMMA ToFutureKeeps ==
    ASSUME ApiInv, RouteToFuture
    PROVE  ApiInv'
  <1> USE DEF RouteToFuture
  <1>1. Typed /\ dpc \in Routing /\ phase' = phase /\ fut' = fut /\ handler' = handler
    BY DEF ApiInv, Routing, schedulerVars, httpVars
  <1>2. CASE Current.req \in futures /\ fut[Current.req] = "pending"
    <2>1. dpc' = "resolve" /\ batch' = batch /\ Current' = Current
      BY <1>2 DEF Current
    <2>2. Typed'
      BY <1>1, <2>1 DEF Typed, Routing, schedulerVars, httpVars
    <2>3. Resolving'
      BY <1>1, <1>2, <2>1 DEF Resolving, Typed
    <2>4. ASSUME NEW r \in OneShots PROVE Waiting(r)'
      BY <1>1, <2>1 DEF ApiInv, Waiting
    <2> QED BY <1>1, <2>1, <2>2, <2>3, <2>4 DEF ApiInv, InHand, Fallen
  <1>3. CASE ~(Current.req \in futures /\ fut[Current.req] = "pending")
    <2>1. Advance
      BY <1>3
    <2>2. Typed'
      BY <1>1, <2>1, AdvanceKeeps DEF Typed, Routing, schedulerVars, httpVars
    <2>3. ASSUME NEW r \in OneShots PROVE Waiting(r)'
      <3>1. CASE r = Current.req
        <4>1. handler[r] = "reading" => fut[r] \in {"set", "cancelled"}
          BY <1>3, <3>1 DEF ApiInv, Waiting
        <4> QED BY <1>1, <4>1 DEF Waiting
      <3>2. CASE r # Current.req
        BY <1>1, <2>1, <3>2, AdvanceKeeps DEF ApiInv, Waiting
      <3> QED BY <3>1, <3>2
    <2> QED BY <1>1, <2>1, <2>2, <2>3, AdvanceKeeps DEF ApiInv, Resolving, Fallen
  <1> QED BY <1>2, <1>3

LEMMA ResolveKeeps ==
    ASSUME ApiInv, Resolve
    PROVE  ApiInv'
  <1> USE DEF Resolve
  <1>1. Typed /\ dpc \in Routing /\ phase' = phase /\ futures' = futures /\ handler' = handler
    BY DEF ApiInv, Routing, schedulerVars, httpVars
  <1>2. Current.req \in OneShots
    BY DEF ApiInv, Resolving
  <1>3. Typed'
    BY <1>1, AdvanceKeeps DEF Typed, Routing, FutureStates, schedulerVars, httpVars
  <1>4. ASSUME NEW r \in OneShots PROVE Waiting(r)'
    <2>1. CASE r = Current.req
      BY <1>1, <2>1 DEF Waiting, Typed, OneShots
    <2>2. CASE r # Current.req
      <3>1. fut'[r] = fut[r]
        BY <1>1, <2>2 DEF Typed, OneShots
      <3> QED BY <1>1, <2>2, <3>1, AdvanceKeeps DEF ApiInv, Waiting
    <2> QED BY <2>1, <2>2
  <1> QED BY <1>1, <1>3, <1>4, AdvanceKeeps DEF ApiInv, Resolving, Fallen

\* The one place where the dispatcher may die.
LEMMA RaisesKeeps ==
    ASSUME ApiInv, ResolveRaises
    PROVE  ApiInv'
  <1> USE DEF ResolveRaises
  <1>1. /\ Current.req \in OneShots /\ Current.req \in Abortable
        /\ fut[Current.req] = "cancelled" /\ ~RequestTimeout
    BY DEF ApiInv, Resolving
  <1>2. phase[Current.req] # "new"
    <2>1. 1 \in 1..Len(batch) /\ Current = batch[1]
      BY HeadOfBatch DEF ApiInv, Routing
    <2> QED BY <1>1, <2>1 DEF ApiInv, InHand, OneShots
  <1>3. Typed'
    BY EmptySeq DEF ApiInv, Typed, Routing, schedulerVars, tableVars, httpVars
  <1>4. Fallen'
    BY <1>1, <1>2 DEF Fallen, schedulerVars, tableVars
  <1>5. \A r \in OneShots : Waiting(r)'
    BY DEF Waiting
  <1>6. Len(batch') = 0
    BY EmptySeq
  <1> QED BY <1>3, <1>4, <1>5, <1>6 DEF ApiInv, Resolving

---------------------------------------------------------------------------
\* The dispatcher serves a stream: no future is touched.

LEMMA StreamStep ==
    ASSUME ApiInv, dpc \in {"route", "offer", "put", "drain"}, Current.req \in Streams,
           UNCHANGED <<phase, sent, futures, fut, handler>>, streams' \subseteq Streams,
           \/ Advance
           \/ batch' = batch /\ dpc' \in {"offer", "put", "drain"}
    PROVE  ApiInv'
  <1>1. Typed /\ dpc \in Routing /\ dpc # "resolve"
    BY DEF ApiInv, Routing
  <1>2. Current.req \notin OneShots
    BY DEF OneShots
  <1>3. CASE Advance
    <2>1. Typed'
      BY <1>1, <1>3, AdvanceKeeps DEF Typed, Routing
    <2>2. ASSUME NEW r \in OneShots PROVE Waiting(r)'
      BY <1>1, <1>2, <1>3, AdvanceKeeps DEF ApiInv, Waiting
    <2> QED BY <1>1, <1>3, <2>1, <2>2, AdvanceKeeps DEF ApiInv, Resolving, Fallen
  <1>4. CASE batch' = batch /\ dpc' \in {"offer", "put", "drain"}
    <2>1. Typed'
      BY <1>1, <1>4 DEF Typed, Routing
    <2>2. ASSUME NEW r \in OneShots PROVE Waiting(r)'
      BY <1>1, <1>4 DEF ApiInv, Waiting
    <2>3. \A i \in 1..Len(batch) : InHand(batch[i])'
      BY <1>4 DEF ApiInv, InHand
    <2>4. Current' = Current
      BY <1>4 DEF Current
    <2> QED BY <1>4, <2>1, <2>2, <2>3, <2>4 DEF ApiInv, Resolving, Fallen
  <1> QED BY <1>3, <1>4

LEMMA StreamStepsKeep ==
    ASSUME ApiInv,
           \/ RouteToStream \/ OfferStopped \/ OfferGone \/ OfferKnown
           \/ Put \/ PutFull \/ PutExpired \/ Drain \/ DrainDone
    PROVE  ApiInv'
  <1> USE DEF schedulerVars, tableVars, threadVars, httpVars
  <1>1. streams \subseteq Streams
    BY DEF ApiInv, Typed
  <1>2. CASE RouteToStream
    BY <1>1, <1>2, StreamStep DEF RouteToStream, ToStream
  <1>3. dpc \in {"offer", "put", "drain"} => Current.req \in Streams
    BY DEF ApiInv
  <1>4. PopIfLast => streams' \subseteq Streams
    BY <1>1 DEF PopIfLast
  <1>5. CASE OfferStopped
    BY <1>3, <1>4, <1>5, StreamStep DEF OfferStopped
  <1>6. CASE OfferGone
    BY <1>1, <1>3, <1>6, StreamStep DEF OfferGone
  <1>7. CASE OfferKnown
    BY <1>1, <1>3, <1>7, StreamStep DEF OfferKnown
  <1>8. CASE Put
    BY <1>3, <1>4, <1>8, StreamStep DEF Put
  <1>9. CASE PutFull
    BY <1>1, <1>3, <1>9, StreamStep DEF PutFull
  <1>10. CASE PutExpired
    BY <1>1, <1>3, <1>10, StreamStep DEF PutExpired
  <1>11. CASE Drain
    BY <1>1, <1>3, <1>11, StreamStep DEF Drain
  <1>12. CASE DrainDone
    BY <1>1, <1>3, <1>12, StreamStep DEF DrainDone
  <1> QED BY <1>2, <1>5, <1>6, <1>7, <1>8, <1>9, <1>10, <1>11, <1>12

---------------------------------------------------------------------------
\* Steps of the handlers and of close() leave the dispatcher's batch alone.

LEMMA ElsewhereKeeps ==
    ASSUME ApiInv, Typed', UNCHANGED <<dpc, batch>>,
           \A r \in Requests : phase[r] # "new" => phase'[r] # "new",
           \A r \in OneShots : Waiting(r)',
           \A r \in Abortable : phase[r] # "new" /\ fut[r] = "cancelled" => fut'[r] = "cancelled",
           dpc = "resolve" => /\ Current.req \notin futures'
                              /\ \/ fut'[Current.req] = fut[Current.req]
                                 \/ fut'[Current.req] = "cancelled" /\ Current.req \in Abortable /\ ~RequestTimeout
    PROVE  ApiInv'
  <1>1. Current' = Current
    BY DEF Current
  <1>2. ASSUME NEW i \in 1..Len(batch) PROVE InHand(batch[i])'
    <2>1. InHand(batch[i]) /\ batch[i] \in Message
      BY ElementOfSeq DEF ApiInv, Typed
    <2> QED BY <2>1 DEF InHand, Message
  <1>3. Resolving'
    BY <1>1 DEF ApiInv, Resolving
  <1>4. Fallen'
    BY DEF ApiInv, Fallen, OneShots
  <1> QED BY <1>1, <1>2, <1>3, <1>4 DEF ApiInv

LEMMA SubmitKeeps ==
    ASSUME ApiInv, NEW r \in Requests, Submit(r)
    PROVE  ApiInv'
  <1> USE DEF Submit
  <1>1. /\ phase[r] = "new"
        /\ \E p \in Scheduler!Live : phase' = [phase EXCEPT ![r] = p]
    BY DEF Scheduler!Admit
  <1>2. /\ phase' \in [Requests -> Scheduler!Phases]
        /\ phase'[r] \in Scheduler!Live
        /\ \A q \in Requests \ {r} : phase'[q] = phase[q]
    BY <1>1 DEF ApiInv, Typed, Scheduler!Live, Scheduler!Phases
  <1>3. Typed'
    <2>1. futures' \subseteq OneShots /\ streams' \subseteq Streams
      BY DEF ApiInv, Typed, OneShots
    <2>2. fut' \in [Requests -> FutureStates]
      BY DEF ApiInv, Typed, FutureStates
    <2>3. UNCHANGED <<sent, dpc, batch>> /\ handler' \in [Requests -> HandlerStates]
      BY DEF threadVars, ApiInv, Typed, HandlerStates
    <2> QED BY <1>2, <2>1, <2>2, <2>3 DEF ApiInv, Typed
  <1>4. dpc = "resolve" => Current.req # r
    <2>1. dpc = "resolve" => 1 \in 1..Len(batch) /\ Current = batch[1]
      BY HeadOfBatch DEF ApiInv, Routing
    <2> QED BY <1>1, <2>1 DEF ApiInv, InHand, Resolving, OneShots
  <1>5. ASSUME NEW q \in OneShots PROVE Waiting(q)'
    <2>1. CASE q = r
      BY <1>2, <2>1 DEF Waiting, ApiInv, Typed, OneShots, Scheduler!Live
    <2>2. CASE q # r
      <3>1. Waiting(q) /\ q \in Requests
        BY DEF ApiInv, OneShots
      <3> QED BY <1>2, <2>2, <3>1 DEF ApiInv, Typed, Waiting, Current, threadVars
    <2> QED BY <2>1, <2>2
  <1>6. dpc = "resolve" => Current.req \notin futures' /\ fut'[Current.req] = fut[Current.req]
    BY <1>4 DEF ApiInv, Typed, Resolving, OneShots
  <1>7. \A q \in Abortable : phase[q] # "new" => fut'[q] = fut[q]
    BY <1>1 DEF ApiInv, Typed, OneShots
  <1>8. \A q \in Requests : phase[q] # "new" => phase'[q] # "new"
    BY <1>1, <1>2
  <1> QED BY <1>3, <1>5, <1>6, <1>7, <1>8, ElsewhereKeeps DEF threadVars

\* A handler goes on, its future as it is.
LEMMA HandlerKeeps ==
    ASSUME ApiInv, NEW r \in Requests,
           UNCHANGED <<phase, sent, futures, fut, streams, threadVars>>,
           \/ \E h \in {"reading", "writing", "leaving", "done"} :
                /\ handler' = [handler EXCEPT ![r] = h]
                /\ h = "reading" => r \in Streams
           \/ handler' = handler
    PROVE  ApiInv'
  <1>1. Typed'
    <2>1. CASE handler' = handler
      BY <2>1 DEF ApiInv, Typed, threadVars
    <2>2. ASSUME NEW h \in {"reading", "writing", "leaving", "done"},
                 handler' = [handler EXCEPT ![r] = h], h = "reading" => r \in Streams
          PROVE  Typed'
      <3>1. handler' \in [Requests -> HandlerStates]
        BY <2>2 DEF ApiInv, Typed, HandlerStates
      <3> QED BY <3>1 DEF ApiInv, Typed, threadVars
    <2> QED BY <2>1, <2>2
  <1>2. ASSUME NEW q \in OneShots PROVE Waiting(q)'
    BY DEF ApiInv, Typed, Waiting, Current, threadVars, OneShots
  <1> QED BY <1>1, <1>2, ElsewhereKeeps DEF ApiInv, Resolving, threadVars

LEMMA AbortedKeeps ==
    ASSUME ApiInv, NEW r \in Requests, Aborted(r)
    PROVE  ApiInv'
  <1> USE DEF Aborted, Become, schedulerVars, threadVars, HandlerStates
  <1>1. Typed'
    BY DEF ApiInv, Typed, FutureStates
  <1>2. ASSUME NEW q \in OneShots PROVE Waiting(q)'
    <2>1. Waiting(q) /\ q \in Requests
      BY DEF ApiInv, OneShots
    <2> QED BY <2>1 DEF ApiInv, Typed, Waiting, Current
  <1>3. dpc = "resolve" => \/ fut'[Current.req] = fut[Current.req]
                           \/ fut'[Current.req] = "cancelled" /\ Current.req \in Abortable /\ ~RequestTimeout
    BY DEF ApiInv, Typed, Resolving, OneShots
  <1>4. /\ dpc = "resolve" => Current.req \notin futures'
        /\ \A q \in Abortable : fut[q] = "cancelled" => fut'[q] = "cancelled"
    BY DEF ApiInv, Resolving, Typed, OneShots
  <1> QED BY <1>1, <1>2, <1>3, <1>4, ElsewhereKeeps

LEMMA CancelKeeps ==
    ASSUME ApiInv, NEW r \in Requests, CancelFound(r)
    PROVE  ApiInv'
  <1> USE DEF CancelFound, threadVars, HandlerStates
  <1>1. /\ phase' \in [Requests -> Scheduler!Phases]
        /\ phase'[r] = "told"
        /\ \A q \in Requests \ {r} : phase'[q] = phase[q] \/ phase'[q] = "due"
    BY DEF Scheduler!Withdraw
  <1>2. Typed'
    BY <1>1 DEF ApiInv, Typed, FutureStates
  <1>3. ASSUME NEW q \in OneShots PROVE Waiting(q)'
    <2>1. Waiting(q) /\ q \in Requests
      BY DEF ApiInv, OneShots
    <2>2. CASE q = r
      BY <2>2 DEF ApiInv, Typed, Waiting, OneShots
    <2>3. CASE q # r
      BY <1>1, <2>1, <2>3 DEF ApiInv, Typed, Waiting, Current
    <2> QED BY <2>2, <2>3
  <1>4. dpc = "resolve" => fut'[Current.req] = fut[Current.req] /\ Current.req \notin futures'
    BY DEF ApiInv, Typed, Resolving, OneShots
  <1>5. \A q \in Abortable : fut[q] = "cancelled" => fut'[q] = "cancelled"
    BY DEF ApiInv, Typed, OneShots
  <1>6. \A q \in Requests : phase[q] # "new" => phase'[q] # "new"
    BY <1>1
  <1> QED BY <1>2, <1>3, <1>4, <1>5, <1>6, ElsewhereKeeps

---------------------------------------------------------------------------
\* close() only cancels what it finds in the table.

LEMMA ShutKeeps ==
    ASSUME ApiInv, CloseScheduler \/ CloseRaises
    PROVE  ApiInv'
  <1> USE DEF threadVars, tableVars, httpVars
  <1>1. /\ phase' \in [Requests -> Scheduler!Phases]
        /\ \A q \in Requests : phase[q] # "new" => phase'[q] # "new"
        /\ \A q \in Requests : phase'[q] = "told" => phase[q] = "told"
    <2>1. Scheduler!Shut /\ NewlyTold = {}
      BY DEF CloseScheduler, CloseRaises
    <2>2. \A q \in Requests : phase[q] # "new" => phase'[q] # "new"
      BY <2>1 DEF Scheduler!Shut, Scheduler!MayMove, Scheduler!Moves
    <2> QED BY <2>1, <2>2 DEF Scheduler!Shut, NewlyTold
  <1>2. CASE CloseScheduler
    <2> USE <1>2 DEF CloseScheduler
    <2>1. fut' \in [Requests -> FutureStates]
      BY DEF ApiInv, Typed, FutureStates
    <2>2. Typed'
      BY <1>1, <2>1 DEF ApiInv, Typed
    <2>3. ASSUME NEW q \in OneShots PROVE Waiting(q)'
      <3>1. Waiting(q) /\ q \in Requests
        BY DEF ApiInv, OneShots
      <3> QED BY <1>1, <3>1 DEF Waiting, Current
    <2>4. /\ dpc = "resolve" => Current.req \notin futures' /\ fut'[Current.req] = fut[Current.req]
          /\ \A q \in Abortable : fut[q] = "cancelled" => fut'[q] = "cancelled"
      BY DEF ApiInv, Resolving, OneShots
    <2> QED BY <1>1, <2>2, <2>3, <2>4, ElsewhereKeeps
  <1>3. CASE CloseRaises
    <2> USE <1>3 DEF CloseRaises
    <2>1. Typed'
      BY <1>1 DEF ApiInv, Typed
    <2>2. ASSUME NEW q \in OneShots PROVE Waiting(q)'
      <3>1. Waiting(q) /\ q \in Requests
        BY DEF ApiInv, OneShots
      <3> QED BY <1>1, <3>1 DEF Waiting, Current
    <2>3. dpc = "resolve" => Current.req \notin futures' /\ fut'[Current.req] = fut[Current.req]
      BY DEF ApiInv, Resolving
    <2> QED BY <1>1, <2>1, <2>2, <2>3, ElsewhereKeeps
  <1> QED BY <1>2, <1>3

---------------------------------------------------------------------------
\* What a poll returns: each event once.

PollEvents(speaking, lastKind, nameless) ==
    {Ev(s, "chunk", sent'[s]) : s \in speaking}
    \cup {Ev(r, lastKind[r], sent'[r]) : r \in NewlyTold}
    \cup (IF nameless THEN {Ev(NoReq, "error", 0)} ELSE {})

LEMMA OnlyOnce ==
    ASSUME NEW S, IsFiniteSet(S), NEW q \in SetToSeqs(S)
    PROVE  \A i, j \in 1..Len(q) : q[i] = q[j] => i = j
  <1> DEFINE n == Cardinality(S)
  <1>1. n \in Nat
    BY FS_CardinalityType
  <1>2. q \in [1..n -> S] /\ \A i, j \in 1..n : i # j => q[i] # q[j]
    BY DEF SetToSeqs
  <1>3. Len(q) = n
    BY <1>1, <1>2
  <1> QED BY <1>2, <1>3

LEMMA PollBatch ==
    ASSUME Poll
    PROVE  \E speaking \in SUBSET CanSpeak, lastKind \in [NewlyTold -> Kinds], nameless \in BOOLEAN :
              /\ \A r \in NewlyTold : lastKind[r] \in LastKinds(r)
              /\ sent' = [r \in Requests |-> IF r \in speaking THEN sent[r] + 1 ELSE sent[r]]
              /\ batch' \in Seq(PollEvents(speaking, lastKind, nameless))
              /\ \A e \in PollEvents(speaking, lastKind, nameless) : \E i \in 1..Len(batch') : batch'[i] = e
              /\ \A i, j \in 1..Len(batch') : batch'[i] = batch'[j] => i = j
              /\ ChunksFirst(batch')
  <1>1. PICK speaking \in SUBSET CanSpeak, lastKind \in [NewlyTold -> Kinds], nameless \in BOOLEAN :
          /\ \A r \in NewlyTold : lastKind[r] \in LastKinds(r)
          /\ sent' = [r \in Requests |-> IF r \in speaking THEN sent[r] + 1 ELSE sent[r]]
          /\ batch' \in SetToSeqs(PollEvents(speaking, lastKind, nameless))
          /\ ChunksFirst(batch')
    BY DEF Poll, PollEvents
  <1> DEFINE chunks == {Ev(s, "chunk", sent'[s]) : s \in speaking}
             lasts == {Ev(r, lastKind[r], sent'[r]) : r \in NewlyTold}
             others == IF nameless THEN {Ev(NoReq, "error", 0)} ELSE {}
             events == PollEvents(speaking, lastKind, nameless)
  <1>2. IsFiniteSet(speaking) /\ IsFiniteSet(NewlyTold)
    BY FS_Subset DEF CanSpeak, NewlyTold
  <1>3. IsFiniteSet(chunks)
    <2> DEFINE f == [s \in speaking |-> Ev(s, "chunk", sent'[s])]
    <2>1. f \in Surjection(speaking, chunks)
      BY DEF Surjection
    <2> QED BY <1>2, <2>1, FS_Surjection
  <1>4. IsFiniteSet(lasts)
    <2> DEFINE f == [r \in NewlyTold |-> Ev(r, lastKind[r], sent'[r])]
    <2>1. f \in Surjection(NewlyTold, lasts)
      BY DEF Surjection
    <2> QED BY <1>2, <2>1, FS_Surjection
  <1>5. IsFiniteSet(events)
    <2>1. IsFiniteSet(others)
      BY FS_EmptySet, FS_Singleton
    <2> QED BY <1>3, <1>4, <2>1, FS_Union DEF PollEvents
  <1> HIDE DEF events
  <1>6. batch' \in SetToSeqs(events)
    BY <1>1 DEF events
  <1>7. batch' \in Seq(events) /\ \A e \in events : \E i \in 1..Len(batch') : batch'[i] = e
    BY <1>5, <1>6, Enumeration
  <1>8. \A i, j \in 1..Len(batch') : batch'[i] = batch'[j] => i = j
    BY <1>5, <1>6, OnlyOnce
  <1> QED BY <1>1, <1>7, <1>8 DEF events

---------------------------------------------------------------------------
\* A poll hands over one last event for every request it ends.

LEMMA PollKeeps ==
    ASSUME ApiInv, Poll
    PROVE  ApiInv'
  <1>1. /\ phase' \in [Requests -> Scheduler!Phases]
        /\ \A r \in Requests : Scheduler!MayMove(r)
    BY DEF Poll, Scheduler!Work
  <1>2. batch = <<>> /\ dpc = "poll"
    BY DEF Poll, ApiInv, Typed, Routing
  <1>3. PICK speaking \in SUBSET CanSpeak, lastKind \in [NewlyTold -> Kinds], nameless \in BOOLEAN :
          /\ \A r \in NewlyTold : lastKind[r] \in LastKinds(r)
          /\ sent' = [r \in Requests |-> IF r \in speaking THEN sent[r] + 1 ELSE sent[r]]
          /\ batch' \in Seq(PollEvents(speaking, lastKind, nameless))
          /\ \A e \in PollEvents(speaking, lastKind, nameless) : \E i \in 1..Len(batch') : batch'[i] = e
    BY PollBatch
  <1> DEFINE chunks == {Ev(s, "chunk", sent'[s]) : s \in speaking}
             lasts == {Ev(r, lastKind[r], sent'[r]) : r \in NewlyTold}
             others == IF nameless THEN {Ev(NoReq, "error", 0)} ELSE {}
  <1>4. speaking \subseteq Streams /\ speaking \subseteq Requests /\ NewlyTold \subseteq Requests
    BY DEF CanSpeak, NewlyTold
  <1>6. sent' \in [Requests -> Nat]
    BY <1>3 DEF ApiInv, Typed
  <1>7. ASSUME NEW e \in chunks \cup lasts \cup others
        PROVE  e \in Message /\ InHand(e)'
    <2>1. CASE e \in chunks
      <3>1. PICK s \in speaking : e = Ev(s, "chunk", sent'[s])
        BY <2>1
      <3>2. phase[s] # "new" /\ Scheduler!MayMove(s)
        BY <1>1, <1>4 DEF CanSpeak
      <3>3. phase'[s] # "new"
        BY <3>2 DEF Scheduler!MayMove, Scheduler!Moves
      <3> QED BY <1>4, <1>6, <3>1, <3>3 DEF Ev, Message, Kinds, InHand, OneShots
    <2>2. CASE e \in lasts
      <3>1. PICK r \in NewlyTold : e = Ev(r, lastKind[r], sent'[r])
        BY <2>2
      <3>2. /\ r \in OneShots => lastKind[r] \in {"result", "error"}
            /\ r \in Streams => lastKind[r] # "result"
        BY <1>3 DEF LastKinds, OneShots
      <3>3. phase'[r] = "told" /\ r \in Requests /\ lastKind[r] \in Kinds
        BY DEF NewlyTold
      <3> QED BY <1>6, <3>1, <3>2, <3>3 DEF Ev, Message, InHand
    <2>3. CASE e \in others
      BY <2>3 DEF Ev, Message, Kinds, InHand
    <2> QED BY <2>1, <2>2, <2>3
  <1>8. /\ batch' \in Seq(chunks \cup lasts \cup others)
        /\ \A e \in chunks \cup lasts \cup others : \E i \in 1..Len(batch') : batch'[i] = e
    BY <1>3 DEF PollEvents
  <1>9. /\ Len(batch') \in Nat
        /\ \A i \in 1..Len(batch') : batch'[i] \in chunks \cup lasts \cup others
    BY <1>8, LenProperties, ElementOfSeq
  <1>10. batch' \in Seq(Message)
    BY <1>7, <1>8, <1>9, SeqDef
  <1>11. \A i \in 1..Len(batch') : InHand(batch[i])'
    BY <1>7, <1>9 DEF InHand
  <1>12. dpc' \in {"poll", "ended", "route"} /\ (dpc' = "route" <=> batch' # <<>>)
    BY DEF Poll, BeginLoop
  <1>13. UNCHANGED <<futures, fut, streams, handler>>
    BY DEF Poll, tableVars, httpVars
  <1>14. Typed'
    BY <1>1, <1>6, <1>10, <1>12, <1>13 DEF ApiInv, Typed, Routing
  <1>15. ASSUME NEW r \in OneShots, r \in NewlyTold
         PROVE  \E i \in 1..Len(batch') : batch'[i].req = r
    <2>1. Ev(r, lastKind[r], sent'[r]) \in lasts
      BY <1>15
    <2>2. Ev(r, lastKind[r], sent'[r]) \in chunks \cup lasts \cup others
      BY <2>1
    <2>3. Ev(r, lastKind[r], sent'[r]).req = r
      BY DEF Ev
    <2> HIDE DEF chunks, lasts, others
    <2> QED BY <2>2, <2>3, <1>8
  <1>16. ASSUME NEW r \in OneShots PROVE Waiting(r)'
    <2>1. Waiting(r) /\ r \in Requests
      BY DEF ApiInv, OneShots
    <2>2. handler[r] = "reading" => fut[r] \in {"set", "cancelled"} \/ phase[r] # "told"
      BY <1>2, <2>1 DEF Waiting
    <2>3. phase'[r] = "told" /\ phase[r] # "told" => r \in NewlyTold
      BY <2>1 DEF NewlyTold
    <2> QED BY <1>2, <1>13, <1>15, <2>1, <2>2, <2>3 DEF Waiting
  <1> QED BY <1>11, <1>12, <1>14, <1>16 DEF ApiInv, Resolving, Fallen

---------------------------------------------------------------------------
LEMMA HandleKeeps ==
    ASSUME ApiInv, NEW r \in Requests, Handle(r)
    PROVE  ApiInv'
  <1> USE DEF schedulerVars, tableVars
  <1>1. CASE Submit(r)
    BY <1>1, SubmitKeeps
  <1>2. CASE Answered(r) \/ Dropped(r) \/ TimedOut(r)
    BY <1>2, HandlerKeeps DEF Answered, Dropped, TimedOut, Become
  <1>3. CASE Aborted(r)
    BY <1>3, AbortedKeeps
  <1>4. CASE GetMessage(r)
    <2>1. UNCHANGED <<phase, sent, futures, fut, streams, threadVars>>
      BY <1>4 DEF GetMessage
    <2>2. \E h \in {"writing", "leaving", "done"} : handler' = [handler EXCEPT ![r] = h]
      BY <1>4 DEF GetMessage, Become
    <2> QED BY <2>1, <2>2, HandlerKeeps
  <1>5. CASE ChunkWritten(r)
    BY <1>5, HandlerKeeps DEF ChunkWritten
  <1>6. CASE Starts(r) \/ NeverStarts(r) \/ Disconnect(r) \/ CancelCut(r)
    BY <1>6, HandlerKeeps DEF Starts, NeverStarts, Disconnect, CancelCut, Become
  <1>7. CASE StrayGets(r)
    BY <1>7, HandlerKeeps DEF StrayGets
  <1>8. CASE CancelFound(r)
    BY <1>8, CancelKeeps
  <1>9. CASE CancelMissed(r)
    BY <1>9, HandlerKeeps DEF CancelMissed
  <1> QED BY <1>1, <1>2, <1>3, <1>4, <1>5, <1>6, <1>7, <1>8, <1>9 DEF Handle, Read, Leave

LEMMA StepApi == ApiInv /\ [Next]_vars => ApiInv'
  <1> SUFFICES ASSUME ApiInv, [Next]_vars PROVE ApiInv'
    OBVIOUS
  <1>1. CASE Poll
    BY <1>1, PollKeeps
  <1>2. CASE Route
    BY <1>2, NowhereKeeps, ToFutureKeeps, ResolveKeeps, RaisesKeeps, StreamStepsKeep DEF Route
  <1>3. CASE CloseBegin \/ CloseStop
    <2>1. UNCHANGED <<phase, sent, futures, fut, streams, threadVars, handler>>
      BY <1>3 DEF CloseBegin, CloseStop, schedulerVars, tableVars, httpVars
    <2>2. Typed' /\ \A q \in OneShots : Waiting(q)'
      BY <2>1 DEF ApiInv, Typed, Waiting, Current, threadVars
    <2> QED BY <2>1, <2>2, ElsewhereKeeps DEF ApiInv, Resolving, threadVars
  <1>4. CASE CloseScheduler \/ CloseRaises
    BY <1>4, ShutKeeps
  <1>5. CASE \E r \in Requests : Handle(r)
    BY <1>5, HandleKeeps
  <1>6. CASE UNCHANGED vars
    <2>1. UNCHANGED <<phase, sent, futures, fut, streams, dpc, batch, handler>>
      BY <1>6 DEF vars, schedulerVars, tableVars, threadVars, httpVars
    <2>2. Typed' /\ \A q \in OneShots : Waiting(q)'
      BY <2>1 DEF ApiInv, Typed, Waiting, Current
    <2> QED BY <2>1, <2>2, ElsewhereKeeps DEF ApiInv, Resolving
  <1> QED BY <1>1, <1>2, <1>3, <1>4, <1>5, <1>6 DEF Next, Close

\* With a request timeout, no schedule of cancellations, timeouts, disconnects,
\* answers and a close makes set_result raise in the dispatcher.
THEOREM DispatcherNeverDies ==
    ASSUME RequestTimeout
    PROVE  Spec => []DispatcherSurvives
  <1>1. Init => ApiInv
    BY InitApi
  <1>2. ApiInv /\ [Next]_vars => ApiInv'
    BY StepApi
  <1>3. ApiInv => DispatcherSurvives
    BY DEF ApiInv, Fallen, DispatcherSurvives
  <1> QED BY <1>1, <1>2, <1>3, PTL DEF Spec

\* The answer to a request that somebody waits for stays in the future or in
\* the dispatcher's hands, its future with it, for any requests and limits; what
\* is lost with a dispatcher that has died is owed to a cancelled handler.
THEOREM AnswersAreDelivered == Spec => []NoAnswerDropped
  <1>1. Init => ApiInv
    BY InitApi
  <1>2. ApiInv /\ [Next]_vars => ApiInv'
    BY StepApi
  <1>3. ApiInv => NoAnswerDropped
    <2> SUFFICES ASSUME ApiInv, NEW r \in OneShots, handler[r] = "reading", phase[r] = "told",
                        fut[r] \notin {"set", "cancelled"}, dpc # "dead"
                 PROVE  /\ r \in futures \/ (dpc = "resolve" /\ Current.req = r)
                        /\ \E i \in 1..Len(batch) : batch[i].req = r /\ IsLast(batch[i])
      BY DEF NoAnswerDropped, ApiInv, Fallen
    <2>1. Waiting(r) /\ r \in Requests /\ r # NoReq
      BY DEF ApiInv, OneShots
    <2>2. PICK i \in 1..Len(batch) : batch[i].req = r
      BY <2>1 DEF Waiting
    <2>3. InHand(batch[i])
      BY DEF ApiInv
    <2>4. IsLast(batch[i])
      BY <2>1, <2>2, <2>3 DEF InHand, IsLast
    <2> QED BY <2>1, <2>2, <2>4 DEF Waiting
  <1> QED BY <1>1, <1>2, <1>3, PTL DEF Spec

---------------------------------------------------------------------------
\* A stream, from the events of a poll to the client

Outcomes == {"none", "answered", "ended", "left", "forgotten"}

StreamTyped ==
    /\ buffer \in [Requests -> Seq(Message)]
    /\ got \in [Requests -> Nat]
    /\ outcome \in [Requests -> Outcomes]

Listening(s) == handler[s] \in {"accepted", "reading", "writing"}

\* The chunk of s that the dispatcher still has to route, if there is one.
Coming(s) == {i \in 1..Len(batch) : batch[i].req = s /\ batch[i].kind = "chunk"}
Left(s) == IF Coming(s) = {} THEN 0 ELSE 1

\* Of one stream a batch has at most a chunk and, after it, its last event.
BatchOf(s) ==
    \A i \in 1..Len(batch) : batch[i].req = s =>
        /\ batch[i].n = sent[s]
        /\ IsLast(batch[i]) => phase[s] = "told"
        /\ \A j \in 1..Len(batch) : batch[j].req = s =>
            /\ IsLast(batch[i]) => j <= i
            /\ i \in Coming(s) /\ j \in Coming(s) => i = j

\* Nothing of s has been dropped so far.
Flowing(s) == (s \in streams /\ ~stop /\ dpc # "dead") \/ (dpc = "put" /\ Current.req = s)

Numbered(s) ==
    \A i \in 1..Len(buffer[s]) :
        buffer[s][i].req = s /\ buffer[s][i].kind = "chunk" /\ buffer[s][i].n = got[s] + i

\* The end of s is in its queue: it comes last, and it is all there.
Ending(s) ==
    \A i \in 1..Len(buffer[s]) : buffer[s][i].kind = "end" =>
        /\ i = Len(buffer[s])
        /\ sent[s] = got[s] + Len(buffer[s]) - 1
        /\ phase[s] = "told" /\ s \notin streams
        /\ ~(dpc \in {"put", "drain"} /\ Current.req = s)

StreamOf(s) ==
    /\ BatchOf(s)
    /\ phase[s] = "new" => sent[s] = 0 /\ got[s] = 0 /\ buffer[s] = <<>> /\ handler[s] = "idle"
    /\ s \in stray => handler[s] \in {"leaving", "done"}
    /\ dpc = "drain" /\ Current.req = s => s \notin streams
    /\ Listening(s) /\ (s \in streams \/ Flowing(s)) => Numbered(s)
    /\ Listening(s) /\ Flowing(s) => sent[s] = got[s] + Len(buffer[s]) + Left(s)
    /\ Listening(s) => Ending(s)
    /\ outcome[s] = "ended" => handler[s] = "done" /\ phase[s] = "told" /\ sent[s] = got[s]

StreamsInv == StreamTyped /\ \A s \in Streams : StreamOf(s)

\* What the current event and a stream's id are.
LEMMA CurrentIs ==
    ASSUME ApiInv, dpc \in Routing
    PROVE  /\ 1 \in 1..Len(batch) /\ Current = batch[1] /\ Current \in Message /\ InHand(Current)
           /\ Current.req \in Requests => phase[Current.req] # "new"
  <1>1. Typed
    BY DEF ApiInv
  <1>2. /\ Len(batch) \in Nat /\ Len(batch) >= 1
        /\ Current = batch[1] /\ Current \in Message
    BY <1>1, HeadOfBatch
  <1>3. 1 \in 1..Len(batch)
    BY <1>2
  <1>4. InHand(Current)
    BY <1>2, <1>3 DEF ApiInv
  <1>5. Current.req \in Requests => Current.req # NoReq
    OBVIOUS
  <1> QED BY <1>2, <1>3, <1>4, <1>5 DEF InHand

LEMMA StreamIds == ASSUME NEW s \in Streams PROVE s \in Requests /\ s # NoReq /\ s \notin OneShots
  BY DEF OneShots

\* When the dispatcher is done with the current event.
LEMMA AdvanceBatch ==
    ASSUME ApiInv, dpc \in Routing, Advance, NEW s \in Streams, BatchOf(s),
           sent'[s] = sent[s], phase[s] = "told" => phase'[s] = "told"
    PROVE  /\ BatchOf(s)'
           /\ Current.req = s /\ Current.kind = "chunk" => Left(s) = 1 /\ Left(s)' = 0
           /\ ~(Current.req = s /\ Current.kind = "chunk") => Left(s)' = Left(s)
           /\ Current.req = s /\ IsLast(Current) => Left(s) = 0
  <1>1. /\ Len(batch) \in Nat /\ Len(batch) >= 1 /\ Current = batch[1]
        /\ Len(batch') = Len(batch) - 1
        /\ \A i \in 1..Len(batch') : batch'[i] = batch[i + 1]
    BY HeadOfBatch DEF Advance, ApiInv
  <1>2. \A i \in 1..Len(batch') : i + 1 \in 1..Len(batch) /\ i + 1 # 1
    BY <1>1
  <1>3. \A i \in 1..Len(batch) : i # 1 => i - 1 \in 1..Len(batch') /\ (i - 1) + 1 = i
    BY <1>1
  <1>4. \A i \in 1..Len(batch') : i \in Coming(s)' <=> i + 1 \in Coming(s)
    BY <1>1, <1>2 DEF Coming
  <1>5. BatchOf(s)'
    <2> SUFFICES ASSUME NEW i \in 1..Len(batch'), batch'[i].req = s
                 PROVE  /\ batch'[i].n = sent'[s]
                        /\ IsLast(batch'[i]) => phase'[s] = "told"
                        /\ \A j \in 1..Len(batch') : batch'[j].req = s =>
                            /\ IsLast(batch'[i]) => j <= i
                            /\ i \in Coming(s)' /\ j \in Coming(s)' => i = j
      BY DEF BatchOf, IsLast
    <2>1. i + 1 \in 1..Len(batch) /\ batch'[i] = batch[i + 1] /\ batch[i + 1].req = s
      BY <1>1, <1>2
    <2>2. batch'[i].n = sent'[s] /\ (IsLast(batch'[i]) => phase'[s] = "told")
      BY <2>1 DEF BatchOf
    <2>3. ASSUME NEW j \in 1..Len(batch'), batch'[j].req = s
          PROVE  /\ IsLast(batch'[i]) => j <= i
                 /\ i \in Coming(s)' /\ j \in Coming(s)' => i = j
      <3>1. j + 1 \in 1..Len(batch) /\ batch[j + 1].req = s
        BY <1>1, <1>2, <2>3
      <3>2. /\ IsLast(batch[i + 1]) => j + 1 <= i + 1
            /\ i + 1 \in Coming(s) /\ j + 1 \in Coming(s) => i + 1 = j + 1
        BY <2>1, <3>1 DEF BatchOf
      <3> QED BY <1>4, <2>1, <3>2
    <2> QED BY <2>2, <2>3
  <1>6. 1 \in Coming(s) <=> Current.req = s /\ Current.kind = "chunk"
    BY <1>1 DEF Coming
  <1>7. Coming(s) \subseteq 1..Len(batch) /\ Coming(s)' \subseteq 1..Len(batch')
    BY DEF Coming
  <1>8. ASSUME 1 \in Coming(s) PROVE Left(s) = 1 /\ Left(s)' = 0
    <2>1. ASSUME NEW i \in Coming(s)' PROVE FALSE
      <3>1. i \in 1..Len(batch') /\ i + 1 \in Coming(s) /\ i + 1 # 1
        BY <1>2, <1>4, <1>7, <2>1
      <3>2. batch[1].req = s /\ batch[i + 1].req = s /\ 1 \in 1..Len(batch) /\ i + 1 \in 1..Len(batch)
        BY <1>8, <3>1 DEF Coming
      <3> QED BY <1>8, <3>1, <3>2 DEF BatchOf
    <2>2. Coming(s)' = {}
      BY <2>1
    <2> QED BY <1>8, <2>2 DEF Left
  <1>9. ASSUME 1 \notin Coming(s) PROVE Left(s)' = Left(s)
    <2>1. Coming(s)' # {} => Coming(s) # {}
      BY <1>4, <1>7
    <2>2. ASSUME NEW i \in Coming(s) PROVE Coming(s)' # {}
      <3>1. i \in 1..Len(batch) /\ i # 1
        BY <1>7, <1>9, <2>2
      <3> QED BY <1>3, <1>4, <2>2, <3>1
    <2> QED BY <2>1, <2>2 DEF Left
  <1>10. ASSUME Current.req = s, IsLast(Current) PROVE Left(s) = 0
    <2>1. ASSUME NEW i \in Coming(s) PROVE FALSE
      <3>1. i \in 1..Len(batch) /\ batch[i].req = s /\ batch[i].kind = "chunk"
        BY <2>1 DEF Coming
      <3>2. 1 \in 1..Len(batch) /\ batch[1].req = s /\ IsLast(batch[1])
        BY <1>1, <1>10
      <3>3. i <= 1
        BY <3>1, <3>2 DEF BatchOf
      <3>4. i = 1
        BY <3>1, <3>3
      <3> QED BY <3>1, <3>2, <3>4 DEF IsLast
    <2> QED BY <2>1 DEF Left
  <1> QED BY <1>5, <1>6, <1>8, <1>9, <1>10

\* A step that does not read, write or drop anything of s.
LEMMA StreamFrame ==
    ASSUME ApiInv, NEW s \in Streams, StreamOf(s),
           buffer'[s] = buffer[s], got'[s] = got[s], sent'[s] = sent[s],
           s \in streams' => s \in streams, stop => stop',
           phase'[s] = "new" => phase[s] = "new" /\ handler'[s] = handler[s],
           phase[s] = "told" => phase'[s] = "told",
           Listening(s)' => Listening(s),
           s \in stray' => handler'[s] \in {"leaving", "done"},
           outcome'[s] = "ended" => outcome[s] = "ended" /\ (handler[s] = "done" => handler'[s] = "done"),
           \/ /\ batch' = batch /\ (dpc = "dead" => dpc' = "dead")
              /\ dpc' = "put" /\ Current.req = s => Flowing(s)
              /\ dpc' \in {"put", "drain"} /\ Current.req = s => dpc' = dpc \/ s \in streams
              /\ dpc' = "drain" /\ Current.req = s => dpc = "drain"
           \/ /\ Advance /\ dpc \in Routing
              /\ Current.req = s /\ Current.kind = "chunk" => s \notin streams \/ stop \/ ~Listening(s)
           \/ batch' = <<>> /\ dpc' = "dead"
    PROVE  StreamOf(s)'
  <1>1. /\ BatchOf(s)'
        /\ Listening(s)' /\ Flowing(s)' => Flowing(s) /\ Left(s)' = Left(s)
        /\ dpc' = "drain" /\ (Current.req)' = s => dpc = "drain" /\ Current.req = s
        /\ dpc' \in {"put", "drain"} /\ (Current.req)' = s
             => (dpc' = dpc \/ s \in streams) /\ Current.req = s
    <2>1. CASE batch' = batch /\ (dpc = "dead" => dpc' = "dead") /\ (dpc' = "put" /\ Current.req = s => Flowing(s))
                /\ (dpc' \in {"put", "drain"} /\ Current.req = s => dpc' = dpc \/ s \in streams)
                /\ (dpc' = "drain" /\ Current.req = s => dpc = "drain")
      <3>1. BatchOf(s)' /\ Left(s)' = Left(s) /\ Current' = Current
        BY <2>1 DEF StreamOf, BatchOf, Coming, Left, Current, IsLast
      <3>2. Flowing(s)' => Flowing(s)
        BY <2>1, <3>1 DEF Flowing
      <3> QED BY <2>1, <3>1, <3>2
    <2>2. CASE /\ Advance /\ dpc \in Routing
               /\ Current.req = s /\ Current.kind = "chunk" => s \notin streams \/ stop \/ ~Listening(s)
      <3>1. dpc' \in {"poll", "ended", "route"}
        BY <2>2 DEF Advance, BeginLoop
      <3>2. BatchOf(s)' /\ (~(Current.req = s /\ Current.kind = "chunk") => Left(s)' = Left(s))
        BY <2>2, AdvanceBatch DEF StreamOf
      <3>3. Flowing(s)' => s \in streams /\ ~stop
        BY <3>1 DEF Flowing
      <3> QED BY <2>2, <3>1, <3>2, <3>3 DEF Flowing, Routing
    <2>3. CASE batch' = <<>> /\ dpc' = "dead"
      <3>1. Len(batch') = 0
        BY <2>3, EmptySeq
      <3> QED BY <2>3, <3>1 DEF BatchOf, Flowing
    <2> QED BY <2>1, <2>2, <2>3
  <1>2. Numbered(s) => Numbered(s)'
    BY DEF Numbered
  <1>3. Ending(s) => Ending(s)'
    BY <1>1 DEF Ending
  <1> QED BY <1>1, <1>2, <1>3 DEF StreamOf

---------------------------------------------------------------------------
LEMMA StepStreamTyped == ApiInv /\ StreamTyped /\ [Next]_vars => StreamTyped'
  <1> SUFFICES ASSUME ApiInv, StreamTyped, [Next]_vars PROVE StreamTyped'
    OBVIOUS
  <1> USE DEF StreamTyped
  <1>1. CASE Poll \/ Close \/ UNCHANGED vars
    BY <1>1 DEF Poll, Close, CloseBegin, CloseStop, CloseScheduler, CloseRaises, vars, tableVars, httpVars
  <1>2. CASE Route
    <2>1. UNCHANGED <<got, outcome>>
      BY <1>2 DEF Route, RouteNowhere, RouteToStream, RouteToFuture, Resolve, ResolveRaises, OfferStopped,
                  OfferGone, OfferKnown, Put, PutFull, PutExpired, Drain, DrainDone, httpVars
    <2>2. dpc \in {"put", "drain"} => Current \in Message /\ Current.req \in Requests
      <3>1. dpc \in {"put", "drain"} => dpc \in Routing /\ Current.req \in Streams
        BY DEF ApiInv, Routing
      <3> QED BY <3>1, CurrentIs, StreamIds
    <2>3. \/ buffer' = buffer
          \/ dpc = "put" /\ buffer' = [buffer EXCEPT ![Current.req] = Append(@, Current)]
          \/ /\ dpc = "drain" /\ buffer[Current.req] # <<>>
             /\ buffer' = [buffer EXCEPT ![Current.req] = Tail(@)]
          \/ dpc = "drain" /\ buffer' = [buffer EXCEPT ![Current.req] = <<Ev(Current.req, "error", 0)>>]
      BY <1>2 DEF Route, RouteNowhere, RouteToStream, RouteToFuture, Resolve, ResolveRaises, OfferStopped,
                  OfferGone, OfferKnown, Put, PutFull, PutExpired, Drain, DrainDone, tableVars
    <2>4. dpc \in {"put", "drain"} =>
            /\ Append(buffer[Current.req], Current) \in Seq(Message)
            /\ buffer[Current.req] # <<>> => Tail(buffer[Current.req]) \in Seq(Message)
            /\ <<Ev(Current.req, "error", 0)>> \in Seq(Message)
      <3>1. dpc \in {"put", "drain"} => Ev(Current.req, "error", 0) \in Message
        BY <2>2 DEF Ev, Message, Kinds
      <3> QED BY <2>2, <3>1, AppendProperties, HeadTailProperties
    <2>5. buffer' \in [Requests -> Seq(Message)]
      BY <2>3, <2>4
    <2> QED BY <2>1, <2>5
  <1>3. ASSUME NEW r \in Requests, Handle(r) PROVE StreamTyped'
    <2>1. CASE GetMessage(r)
      <3>1. Tail(buffer[r]) \in Seq(Message)
        BY <2>1, HeadTailProperties DEF GetMessage
      <3>2. buffer' \in [Requests -> Seq(Message)]
        BY <2>1, <3>1 DEF GetMessage
      <3>3. /\ got' = got \/ got' = [got EXCEPT ![r] = @ + 1]
            /\ \E how \in Outcomes : outcome' = [outcome EXCEPT ![r] = how]
        BY <2>1 DEF GetMessage, Become, Outcomes
      <3> QED BY <3>2, <3>3
    <2>2. CASE StrayGets(r)
      <3>1. Tail(buffer[r]) \in Seq(Message)
        BY <2>2, HeadTailProperties DEF StrayGets
      <3> QED BY <2>2, <3>1 DEF StrayGets
    <2>3. CASE Submit(r) \/ Starts(r) \/ ChunkWritten(r) \/ Leave(r)
      BY <2>3 DEF Submit, Starts, ChunkWritten, Leave, CancelFound, CancelMissed, tableVars
    <2>4. CASE \/ Answered(r) \/ Dropped(r) \/ TimedOut(r) \/ Aborted(r)
               \/ NeverStarts(r) \/ Disconnect(r) \/ CancelCut(r)
      <3>1. UNCHANGED <<buffer, got>> /\ \E how \in Outcomes : outcome' = [outcome EXCEPT ![r] = how]
        BY <2>4 DEF Answered, Dropped, TimedOut, Aborted, NeverStarts, Disconnect, CancelCut, Become, Outcomes,
                    tableVars
      <3> QED BY <3>1
    <2> QED BY <1>3, <2>1, <2>2, <2>3, <2>4 DEF Handle, Read
  <1> QED BY <1>1, <1>2, <1>3 DEF Next

---------------------------------------------------------------------------
\* The dispatcher's steps

LEMMA PutOf ==
    ASSUME ApiInv, StreamTyped, Put, NEW s \in Streams, StreamOf(s), Current.req = s
    PROVE  StreamOf(s)'
  <1> DEFINE q == buffer[s]
             n == Len(q)
  <1>0. /\ s \in Requests /\ dpc = "put" /\ dpc \in Routing
    BY StreamIds DEF Put, Routing
  <1>1. q \in Seq(Message) /\ n \in Nat /\ sent[s] \in Nat /\ got[s] \in Nat
    <2>1. q \in Seq(Message) /\ got[s] \in Nat
      BY <1>0 DEF StreamTyped
    <2>2. sent[s] \in Nat
      BY <1>0 DEF ApiInv, Typed
    <2> QED BY <2>1, <2>2, LenProperties
  <1>2. /\ UNCHANGED <<phase, sent, handler, outcome, got, stray, stop>> /\ Advance
        /\ buffer'[s] = Append(q, Current)
        /\ streams' = IF IsLast(Current) THEN streams \ {s} ELSE streams
    BY <1>0 DEF Put, PopIfLast, schedulerVars, closeVars, httpVars, StreamTyped
  <1>3. /\ 1 \in 1..Len(batch) /\ Current = batch[1] /\ Current \in Message
    BY <1>0, CurrentIs
  <1>4. /\ Len(buffer'[s]) = n + 1 /\ buffer'[s][n + 1] = Current
        /\ \A i \in 1..n : buffer'[s][i] = q[i]
    BY <1>1, <1>2, <1>3, AppendProperties
  <1>5. /\ Current.n = sent[s] /\ (IsLast(Current) => phase[s] = "told") /\ phase[s] # "new"
    <2>1. BatchOf(s)
      BY DEF StreamOf
    <2>2. batch[1].n = sent[s] /\ (IsLast(batch[1]) => phase[s] = "told")
      BY <1>3, <2>1 DEF BatchOf
    <2> QED BY <1>0, <1>3, <2>2, CurrentIs
  <1>6. /\ BatchOf(s)'
        /\ ~IsLast(Current) => Left(s) = 1 /\ Left(s)' = 0
        /\ IsLast(Current) => Left(s) = 0
    BY <1>0, <1>2, AdvanceBatch DEF StreamOf, IsLast
  <1>7. dpc' \in {"poll", "ended", "route"}
    BY <1>2 DEF Advance, BeginLoop
  <1>8. Flowing(s)
    BY <1>0 DEF Flowing
  <1>9. Listening(s) => Numbered(s) /\ sent[s] = got[s] + n + Left(s) /\ \A i \in 1..n : q[i].kind # "end"
    BY <1>8 DEF StreamOf, Numbered
  <1>10. ASSUME Listening(s)', (s \in streams \/ Flowing(s))'
         PROVE  Numbered(s)' /\ (sent[s] = got[s] + Len(buffer[s]) + Left(s))'
    <2>1. Listening(s) /\ ~IsLast(Current)
      BY <1>2, <1>7, <1>10 DEF Listening, Flowing
    <2>2. sent[s] = got[s] + n + 1 /\ Left(s)' = 0 /\ Current.kind = "chunk"
      BY <1>6, <1>9, <2>1 DEF IsLast
    <2>3. \A i \in 1..(n + 1) :
            buffer'[s][i].req = s /\ buffer'[s][i].kind = "chunk" /\ buffer'[s][i].n = got[s] + i
      <3>1. \A i \in 1..(n + 1) : i \in 1..n \/ i = n + 1
        BY <1>1
      <3>2. Current.n = got[s] + (n + 1)
        BY <1>1, <1>5, <2>2
      <3> QED BY <1>4, <1>9, <2>1, <2>2, <3>1, <3>2 DEF Numbered
    <2>4. Numbered(s)'
      BY <1>2, <1>4, <2>3 DEF Numbered
    <2>5. sent'[s] = got'[s] + Len(buffer'[s]) + Left(s)'
      BY <1>1, <1>2, <1>4, <2>2
    <2> QED BY <2>4, <2>5
  <1>11. ASSUME Listening(s)' PROVE Ending(s)'
    <2> SUFFICES ASSUME NEW i \in 1..(n + 1), buffer'[s][i].kind = "end"
                 PROVE  /\ i = n + 1 /\ sent[s] = got[s] + (n + 1) - 1
                        /\ phase[s] = "told" /\ s \notin streams'
      BY <1>2, <1>4, <1>7 DEF Ending
    <2>1. Listening(s)
      BY <1>2, <1>11 DEF Listening
    <2>2. i = n + 1 /\ Current.kind = "end"
      <3>1. i \in 1..n \/ i = n + 1
        BY <1>1
      <3>2. i \notin 1..n
        BY <1>4, <1>9, <2>1
      <3> QED BY <1>4, <3>1, <3>2
    <2>3. IsLast(Current) /\ sent[s] = got[s] + n
      BY <1>1, <1>6, <1>9, <2>1, <2>2 DEF IsLast
    <2> QED BY <1>1, <1>2, <1>5, <2>2, <2>3
  <1>12. outcome[s] = "ended" => handler[s] = "done" /\ phase[s] = "told" /\ sent[s] = got[s]
    BY DEF StreamOf
  <1>13. s \in stray => handler[s] \in {"leaving", "done"}
    BY DEF StreamOf
  <1> QED BY <1>2, <1>5, <1>6, <1>7, <1>10, <1>11, <1>12, <1>13 DEF StreamOf

LEMMA ExpiredOf ==
    ASSUME ApiInv, PutExpired, NEW s \in Streams, StreamOf(s)
    PROVE  StreamOf(s)'
  <1> USE DEF PutExpired, schedulerVars, closeVars, threadVars, httpVars
  <1>1. /\ UNCHANGED <<phase, sent, buffer, handler, outcome, got, stray, stop, batch>>
        /\ dpc = "put" /\ dpc' = "drain" /\ streams' = streams \ {Current.req} /\ Current' = Current
    BY DEF Current
  <1>2. BatchOf(s)'
    BY <1>1 DEF StreamOf, BatchOf, Coming, IsLast
  <1>3. Flowing(s)' => s \in streams /\ ~stop
    BY <1>1 DEF Flowing
  <1>4. (Listening(s)' <=> Listening(s)) /\ (Numbered(s) => Numbered(s)') /\ Left(s)' = Left(s)
    BY <1>1 DEF Listening, Numbered, Left, Coming
  <1>5. Ending(s) => Ending(s)'
    BY <1>1 DEF Ending
  <1> QED BY <1>1, <1>2, <1>3, <1>4, <1>5 DEF StreamOf, Flowing

\* What is dropped is a stream nobody puts anything into any more.
LEMMA DrainOf ==
    ASSUME ApiInv, StreamTyped, Drain \/ DrainDone, NEW s \in Streams, StreamOf(s), Current.req = s
    PROVE  StreamOf(s)'
  <1>1. /\ s \in Requests /\ buffer[s] \in Seq(Message) /\ dpc = "drain" /\ dpc \in Routing
        /\ UNCHANGED <<phase, sent, streams, handler, outcome, got, stray, stop>>
        /\ s \notin streams
    <2>1. s \in Requests /\ buffer[s] \in Seq(Message)
      BY StreamIds DEF StreamTyped
    <2>2. dpc = "drain" /\ dpc \in Routing
      BY DEF Drain, DrainDone, Routing
    <2>3. UNCHANGED <<phase, sent, streams, handler, outcome, got, stray, stop>>
      BY DEF Drain, DrainDone, schedulerVars, closeVars, httpVars
    <2>4. s \notin streams
      BY <2>2 DEF StreamOf
    <2> QED BY <2>1, <2>2, <2>3, <2>4
  <1>2. phase[s] # "new"
    BY <1>1, CurrentIs
  <1>3. /\ BatchOf(s)' /\ ~Flowing(s)'
        /\ dpc' \in {"poll", "ended", "route", "drain"}
    <2>1. CASE Drain
      <3>1. batch' = batch /\ dpc' = dpc
        BY <2>1 DEF Drain, threadVars
      <3> QED BY <1>1, <3>1 DEF StreamOf, BatchOf, Coming, IsLast, Flowing
    <2>2. CASE DrainDone
      <3>1. Advance
        BY <2>2 DEF DrainDone
      <3>2. dpc' \in {"poll", "ended", "route"}
        BY <3>1 DEF Advance, BeginLoop
      <3> QED BY <1>1, <3>1, <3>2, AdvanceBatch DEF StreamOf, Flowing
    <2> QED BY <2>1, <2>2
  <1>4. Listening(s) => \A i \in 1..Len(buffer[s]) : buffer[s][i].kind # "end"
    BY <1>1 DEF StreamOf, Ending
  <1>5. Listening(s) => \A i \in 1..Len(buffer'[s]) : buffer'[s][i].kind # "end"
    <2>1. CASE Drain
      <3>1. buffer'[s] = Tail(buffer[s]) /\ buffer[s] # <<>>
        BY <1>1, <2>1 DEF Drain, StreamTyped
      <3>2. /\ Len(buffer[s]) \in Nat /\ Len(Tail(buffer[s])) = Len(buffer[s]) - 1
            /\ \A i \in 1..(Len(buffer[s]) - 1) : Tail(buffer[s])[i] = buffer[s][i + 1]
        BY <1>1, <3>1, HeadTailProperties, LenProperties
      <3>3. \A i \in 1..Len(buffer'[s]) : i + 1 \in 1..Len(buffer[s]) /\ buffer'[s][i] = buffer[s][i + 1]
        BY <3>1, <3>2
      <3> QED BY <1>4, <3>3
    <2>2. CASE DrainDone
      <3>1. buffer'[s] = <<Ev(s, "error", 0)>>
        BY <1>1, <2>2 DEF DrainDone, StreamTyped
      <3>2. \A i \in 1..Len(buffer'[s]) : buffer'[s][i] = Ev(s, "error", 0)
        BY <3>1
      <3> QED BY <3>2 DEF Ev
    <2> QED BY <2>1, <2>2
  <1>6. Listening(s)' => Ending(s)'
    BY <1>1, <1>5 DEF Ending, Listening
  <1> QED BY <1>1, <1>2, <1>3, <1>6 DEF StreamOf, Listening

LEMMA RouteOf ==
    ASSUME ApiInv, StreamTyped, Route, NEW s \in Streams, StreamOf(s)
    PROVE  StreamOf(s)'
  <1> USE DEF schedulerVars, tableVars, closeVars, threadVars, httpVars, Routing, Listening
  <1>0. /\ s \in Requests /\ s # NoReq /\ s \notin OneShots
        /\ s \in stray => handler[s] \in {"leaving", "done"}
        /\ outcome[s] = "ended" => handler[s] = "done"
    <2>1. s \in stray => handler[s] \in {"leaving", "done"}
      BY DEF StreamOf
    <2>2. outcome[s] = "ended" => handler[s] = "done"
      BY DEF StreamOf
    <2> QED BY <2>1, <2>2, StreamIds
  <1>1. CASE RouteNowhere
    <2>1. Current.req = s /\ Current.kind = "chunk" => s \notin streams
      BY <1>0, <1>1 DEF RouteNowhere, ToStream
    <2> QED BY <1>0, <1>1, <2>1, StreamFrame DEF RouteNowhere
  <1>2. CASE RouteToStream
    BY <1>0, <1>2, StreamFrame DEF RouteToStream
  <1>3. CASE RouteToFuture
    BY <1>0, <1>3, StreamFrame DEF RouteToFuture
  <1>4. CASE Resolve
    <2>1. Current.req # s
      BY <1>0, <1>4 DEF ApiInv, Resolving, Resolve
    <2> QED BY <1>0, <1>4, <2>1, StreamFrame DEF Resolve
  <1>5. CASE ResolveRaises
    BY <1>0, <1>5, StreamFrame DEF ResolveRaises
  <1>6. CASE OfferStopped
    <2>1. s \in streams' => s \in streams
      BY <1>6 DEF OfferStopped, PopIfLast
    <2> QED BY <1>0, <1>6, <2>1, StreamFrame DEF OfferStopped
  <1>7. CASE OfferGone
    BY <1>0, <1>7, StreamFrame DEF OfferGone
  <1>8. CASE OfferKnown
    <2>1. Current.req = s => Flowing(s) /\ s \in streams
      BY <1>8 DEF OfferKnown, Flowing
    <2> QED BY <1>0, <1>8, <2>1, StreamFrame DEF OfferKnown
  <1>9. CASE Put
    <2>1. s \in streams' => s \in streams
      BY <1>9 DEF Put, PopIfLast
    <2>2. CASE Current.req # s
      <3>1. buffer'[s] = buffer[s]
        BY <1>0, <1>9, <2>2 DEF Put, StreamTyped
      <3> QED BY <1>0, <1>9, <2>1, <2>2, <3>1, StreamFrame DEF Put
    <2>3. CASE Current.req = s
      BY <1>9, <2>3, PutOf
    <2> QED BY <2>2, <2>3
  <1>10. CASE PutFull
    BY <1>0, <1>10, StreamFrame DEF PutFull
  <1>11. CASE PutExpired
    BY <1>11, ExpiredOf
  <1>12. CASE Drain \/ DrainDone
    <2>1. CASE Current.req # s
      <3>1. buffer'[s] = buffer[s]
        BY <1>0, <1>12, <2>1 DEF Drain, DrainDone, StreamTyped
      <3> QED BY <1>0, <1>12, <2>1, <3>1, StreamFrame DEF Drain, DrainDone
    <2>2. CASE Current.req = s
      BY <1>12, <2>2, DrainOf
    <2> QED BY <2>1, <2>2
  <1> QED BY <1>1, <1>2, <1>3, <1>4, <1>5, <1>6, <1>7, <1>8, <1>9, <1>10, <1>11, <1>12 DEF Route

---------------------------------------------------------------------------
\* The polls

\* A poll adds at most a chunk to a stream, before the event that ends it.
LEMMA PollOf ==
    ASSUME ApiInv, Poll, NEW s \in Streams
    PROVE  /\ BatchOf(s)'
           /\ sent'[s] = sent[s] + Left(s)'
           /\ sent'[s] # sent[s] => phase[s] \in {"queued", "running", "due"}
  <1>1. PICK speaking \in SUBSET CanSpeak, lastKind \in [NewlyTold -> Kinds], nameless \in BOOLEAN :
          /\ \A r \in NewlyTold : lastKind[r] \in LastKinds(r)
          /\ sent' = [r \in Requests |-> IF r \in speaking THEN sent[r] + 1 ELSE sent[r]]
          /\ batch' \in Seq(PollEvents(speaking, lastKind, nameless))
          /\ \A e \in PollEvents(speaking, lastKind, nameless) : \E i \in 1..Len(batch') : batch'[i] = e
          /\ \A i, j \in 1..Len(batch') : batch'[i] = batch'[j] => i = j
          /\ ChunksFirst(batch')
    BY PollBatch
  <1> DEFINE events == PollEvents(speaking, lastKind, nameless)
             chunk == Ev(s, "chunk", sent'[s])
  <1>2. s \in Requests /\ s # NoReq /\ sent[s] \in Nat
    BY StreamIds DEF ApiInv, Typed
  <1>3. sent'[s] = IF s \in speaking THEN sent[s] + 1 ELSE sent[s]
    BY <1>1, <1>2
  <1>4. ASSUME NEW e \in events, e.req = s
        PROVE  /\ e.n = sent'[s]
               /\ e.kind = "chunk" => e = chunk /\ s \in speaking
               /\ IsLast(e) => phase'[s] = "told"
    <2>1. CASE \E r \in speaking : e = Ev(r, "chunk", sent'[r])
      BY <1>4, <2>1 DEF Ev, IsLast
    <2>2. CASE \E r \in NewlyTold : e = Ev(r, lastKind[r], sent'[r])
      <3>1. s \in NewlyTold /\ e = Ev(s, lastKind[s], sent'[s])
        BY <1>4, <2>2 DEF Ev
      <3>2. lastKind[s] \in {"end", "error"}
        BY <1>1, <3>1 DEF LastKinds
      <3> QED BY <3>1, <3>2 DEF Ev, NewlyTold
    <2>3. e # Ev(NoReq, "error", 0)
      BY <1>2, <1>4 DEF Ev
    <2> QED BY <2>1, <2>2, <2>3 DEF PollEvents
  <1>5. \A i \in 1..Len(batch') : batch'[i] \in events
    BY <1>1, ElementOfSeq
  <1>6. BatchOf(s)'
    <2> SUFFICES ASSUME NEW i \in 1..Len(batch'), batch'[i].req = s
                 PROVE  /\ batch'[i].n = sent'[s]
                        /\ IsLast(batch'[i]) => phase'[s] = "told"
                        /\ \A j \in 1..Len(batch') : batch'[j].req = s =>
                            /\ IsLast(batch'[i]) => j <= i
                            /\ i \in Coming(s)' /\ j \in Coming(s)' => i = j
      BY DEF BatchOf, IsLast
    <2>1. batch'[i].n = sent'[s] /\ (IsLast(batch'[i]) => phase'[s] = "told")
      BY <1>4, <1>5
    <2>2. ASSUME NEW j \in 1..Len(batch'), batch'[j].req = s, IsLast(batch'[i])
          PROVE  j <= i
      BY <1>1, <2>2 DEF ChunksFirst
    <2>3. ASSUME NEW j \in 1..Len(batch'), i \in Coming(s)', j \in Coming(s)'
          PROVE  i = j
      <3>1. batch'[i] = chunk /\ batch'[j] = chunk
        BY <1>4, <1>5, <2>3 DEF Coming
      <3> QED BY <1>1, <3>1
    <2> QED BY <2>1, <2>2, <2>3
  <1>7. s \in speaking <=> Coming(s)' # {}
    <2>1. ASSUME s \in speaking PROVE Coming(s)' # {}
      <3>1. chunk \in events
        BY <2>1 DEF PollEvents
      <3>2. PICK i \in 1..Len(batch') : batch'[i] = chunk
        BY <1>1, <3>1
      <3>3. i \in Coming(s)'
        BY <3>2 DEF Coming, Ev
      <3> QED BY <3>3
    <2>2. ASSUME NEW i \in Coming(s)' PROVE s \in speaking
      <3>1. i \in 1..Len(batch') /\ batch'[i].req = s /\ batch'[i].kind = "chunk"
        BY <2>2 DEF Coming
      <3> QED BY <1>4, <1>5, <3>1
    <2> QED BY <2>1, <2>2
  <1>8. s \in speaking => phase[s] \in {"queued", "running", "due"}
    BY DEF CanSpeak
  <1> QED BY <1>2, <1>3, <1>6, <1>7, <1>8 DEF Left

LEMMA PollKeepsStream ==
    ASSUME ApiInv, StreamTyped, Poll, NEW s \in Streams, StreamOf(s)
    PROVE  StreamOf(s)'
  <1>1. /\ UNCHANGED <<streams, buffer, stop, handler, outcome, got, stray>>
        /\ dpc = "poll" /\ dpc' \in {"poll", "ended", "route"}
    BY DEF Poll, BeginLoop, tableVars, closeVars, httpVars
  <1>2. /\ phase'[s] = "new" => phase[s] = "new"
        /\ phase[s] = "told" => phase'[s] = "told"
    <2>1. Scheduler!MayMove(s)
      BY StreamIds DEF Poll, Scheduler!Work
    <2> QED BY <2>1 DEF Scheduler!MayMove, Scheduler!Moves
  <1>3. Left(s) = 0
    <2>1. batch = <<>>
      BY <1>1 DEF ApiInv, Typed, Routing
    <2>2. Coming(s) = {}
      BY <2>1 DEF Coming
    <2> QED BY <2>2 DEF Left
  <1>4. /\ BatchOf(s)' /\ sent'[s] = sent[s] + Left(s)'
        /\ sent'[s] # sent[s] => phase[s] \in {"queued", "running", "due"}
    BY PollOf
  <1>5. sent[s] \in Nat /\ got[s] \in Nat /\ Len(buffer[s]) \in Nat /\ Left(s)' \in Nat
    BY StreamIds, LenProperties DEF ApiInv, Typed, StreamTyped, Left
  <1>6. Flowing(s)' => Flowing(s)
    BY <1>1 DEF Flowing
  <1>7. (Listening(s)' <=> Listening(s)) /\ (Numbered(s) => Numbered(s)')
    BY <1>1 DEF Listening, Numbered
  <1>8. Ending(s) => Ending(s)'
    BY <1>1, <1>2, <1>4 DEF Ending
  <1>9. phase'[s] = "new" => sent'[s] = sent[s]
    BY <1>2, <1>4
  <1>10. outcome[s] = "ended" => sent'[s] = sent[s]
    BY <1>4 DEF StreamOf
  <1>11. Listening(s)' /\ (s \in streams \/ Flowing(s))' => Numbered(s)'
    BY <1>1, <1>6, <1>7 DEF StreamOf
  <1>12. Listening(s)' /\ Flowing(s)' => (sent[s] = got[s] + Len(buffer[s]) + Left(s))'
    <2> SUFFICES ASSUME Listening(s)', Flowing(s)'
                 PROVE  sent'[s] = got[s] + Len(buffer[s]) + Left(s)'
      BY <1>1
    <2>1. sent[s] = got[s] + Len(buffer[s])
      BY <1>3, <1>5, <1>6, <1>7 DEF StreamOf
    <2> QED BY <1>4, <1>5, <2>1
  <1>13. Listening(s)' => Ending(s)'
    BY <1>7, <1>8 DEF StreamOf
  <1>14. outcome'[s] = "ended" => handler'[s] = "done" /\ phase'[s] = "told" /\ sent'[s] = got'[s]
    BY <1>1, <1>2, <1>10 DEF StreamOf
  <1>15. phase'[s] = "new" => sent'[s] = 0 /\ got'[s] = 0 /\ buffer'[s] = <<>> /\ handler'[s] = "idle"
    BY <1>1, <1>2, <1>9 DEF StreamOf
  <1>16. s \in stray' => handler'[s] \in {"leaving", "done"}
    BY <1>1 DEF StreamOf
  <1> QED BY <1>1, <1>4, <1>11, <1>12, <1>13, <1>14, <1>15, <1>16 DEF StreamOf

---------------------------------------------------------------------------
\* The handlers' steps

LEMMA GetOf ==
    ASSUME ApiInv, StreamTyped, NEW s \in Streams, StreamOf(s), GetMessage(s)
    PROVE  StreamOf(s)'
  <1> DEFINE q == buffer[s]
             n == Len(q)
  <1>1. /\ q \in Seq(Message) /\ q # <<>> /\ got[s] \in Nat /\ sent[s] \in Nat /\ Left(s) \in Nat
        /\ handler[s] = "reading" /\ Listening(s)
    BY StreamIds DEF GetMessage, StreamTyped, ApiInv, Typed, Left, Listening
  <1>2. /\ n \in Nat /\ n >= 1 /\ Head(q) = q[1]
        /\ Len(Tail(q)) = n - 1 /\ \A i \in 1..(n - 1) : Tail(q)[i] = q[i + 1]
    BY <1>1, HeadTailProperties, LenProperties, EmptySeq
  <1>0. got[s] \in Nat /\ sent[s] \in Nat /\ n \in Nat
    BY <1>1, <1>2
  <1>3. /\ UNCHANGED <<phase, sent, streams, stop, dpc, batch, stray>>
        /\ buffer'[s] = Tail(q) /\ Current' = Current
    BY StreamIds DEF GetMessage, StreamTyped, schedulerVars, closeVars, threadVars, Current
  <1>4. phase[s] # "new" /\ s \notin stray /\ outcome[s] # "ended"
    BY <1>1 DEF StreamOf
  <1>5. BatchOf(s)' /\ Left(s)' = Left(s) /\ (Flowing(s)' <=> Flowing(s))
    BY <1>3 DEF StreamOf, BatchOf, Coming, IsLast, Left, Flowing
  <1>6. CASE Head(q).kind = "chunk"
    <2>1. got'[s] = got[s] + 1 /\ handler'[s] = "writing" /\ outcome'[s] = outcome[s]
      BY <1>6, StreamIds DEF GetMessage, Become, StreamTyped, ApiInv, Typed
    <2>2. Numbered(s) => Numbered(s)'
      <3> SUFFICES ASSUME Numbered(s), NEW i \in 1..(n - 1)
                   PROVE  Tail(q)[i].req = s /\ Tail(q)[i].kind = "chunk" /\ Tail(q)[i].n = got[s] + 1 + i
        BY <1>2, <1>3, <2>1 DEF Numbered
      <3>1. i + 1 \in 1..n
        BY <1>2
      <3>2. q[i + 1].req = s /\ q[i + 1].kind = "chunk" /\ q[i + 1].n = got[s] + (i + 1)
        BY <3>1 DEF Numbered
      <3>3. got[s] + (i + 1) = got[s] + 1 + i
        BY <1>0
      <3> QED BY <1>2, <3>2, <3>3
    <2>3. Flowing(s) => sent[s] = (got[s] + 1) + (n - 1) + Left(s)
      BY <1>1, <1>2 DEF StreamOf
    <2>4. Ending(s)'
      <3> SUFFICES ASSUME NEW i \in 1..(n - 1), Tail(q)[i].kind = "end"
                   PROVE  /\ i = n - 1 /\ sent[s] = (got[s] + 1) + (n - 1) - 1
                          /\ phase[s] = "told" /\ s \notin streams
                          /\ ~(dpc \in {"put", "drain"} /\ Current.req = s)
        BY <1>2, <1>3, <2>1 DEF Ending
      <3>1. i + 1 \in 1..n /\ q[i + 1].kind = "end"
        BY <1>2
      <3>2. /\ i + 1 = n /\ sent[s] = got[s] + n - 1
            /\ phase[s] = "told" /\ s \notin streams
            /\ ~(dpc \in {"put", "drain"} /\ Current.req = s)
        BY <1>1, <3>1 DEF StreamOf, Ending
      <3>3. i = n - 1 /\ sent[s] = (got[s] + 1) + (n - 1) - 1
        BY <1>0, <3>2
      <3> QED BY <3>2, <3>3
    <2>5. Listening(s)' /\ (s \in streams \/ Flowing(s))' => Numbered(s)'
      BY <1>1, <1>3, <1>5, <2>2 DEF StreamOf
    <2>6. Flowing(s)' => (sent[s] = got[s] + Len(buffer[s]) + Left(s))'
      BY <1>2, <1>3, <1>5, <2>1, <2>3
    <2>7. dpc' = "drain" /\ (Current.req)' = s => s \notin streams'
      BY <1>3 DEF StreamOf
    <2> QED BY <1>3, <1>4, <1>5, <2>1, <2>4, <2>5, <2>6, <2>7 DEF StreamOf
  <1>7. CASE Head(q).kind = "end"
    <2>1. got' = got /\ handler'[s] = "done" /\ outcome'[s] = "ended"
      BY <1>7, StreamIds DEF GetMessage, Become, StreamTyped, ApiInv, Typed
    <2>2. 1 \in 1..n /\ q[1].kind = "end"
      BY <1>2, <1>7
    <2>3. 1 = n /\ sent[s] = got[s] + n - 1 /\ phase[s] = "told"
      BY <1>1, <2>2 DEF StreamOf, Ending
    <2>4. sent[s] = got[s]
      <3>1. sent[s] = got[s] + 1 - 1
        BY <2>3
      <3> QED BY <1>0, <3>1
    <2>5. dpc' = "drain" /\ (Current.req)' = s => s \notin streams'
      BY <1>3 DEF StreamOf
    <2> QED BY <1>3, <1>4, <1>5, <2>1, <2>3, <2>4, <2>5 DEF StreamOf, Listening
  <1>8. CASE Head(q).kind \notin {"chunk", "end"}
    <2>1. got' = got /\ handler'[s] = "leaving" /\ outcome'[s] = "left"
      BY <1>8, StreamIds DEF GetMessage, Become, StreamTyped, ApiInv, Typed
    <2>2. dpc' = "drain" /\ (Current.req)' = s => s \notin streams'
      BY <1>3 DEF StreamOf
    <2> QED BY <1>3, <1>4, <1>5, <2>1, <2>2 DEF StreamOf, Listening
  <1> QED BY <1>6, <1>7, <1>8

\* Nobody has spoken of a request that has not been submitted.
LEMMA SubmitOf ==
    ASSUME ApiInv, StreamTyped, NEW s \in Streams, StreamOf(s), Submit(s)
    PROVE  StreamOf(s)'
  <1>1. /\ s \in Requests /\ phase[s] = "new" /\ handler[s] = "idle" /\ phase'[s] \in Scheduler!Live
        /\ UNCHANGED <<sent, buffer, stop, dpc, batch, outcome, got, stray>> /\ Current' = Current
    BY StreamIds DEF Submit, Scheduler!Admit, ApiInv, Typed, closeVars, threadVars, Current
  <1>2. phase'[s] # "told" /\ phase'[s] # "new"
    BY <1>1 DEF Scheduler!Live
  <1>3. ASSUME NEW i \in 1..Len(batch) PROVE batch[i].req # s
    BY <1>1, StreamIds DEF ApiInv, InHand
  <1>4. ~(dpc \in Routing /\ Current.req = s)
    BY <1>1, CurrentIs
  <1>5. BatchOf(s)' /\ Left(s)' = 0
    <2>1. Coming(s)' = {}
      BY <1>1, <1>3 DEF Coming
    <2> QED BY <1>1, <1>3, <2>1 DEF BatchOf, Left
  <1>6. sent[s] = 0 /\ got[s] = 0 /\ buffer[s] = <<>> /\ s \notin stray /\ outcome[s] # "ended"
    BY <1>1 DEF StreamOf
  <1>7. Len(buffer[s]) = 0
    BY <1>6
  <1>8. Numbered(s)' /\ Ending(s)'
    BY <1>1, <1>6, <1>7 DEF Numbered, Ending
  <1>9. (sent[s] = got[s] + Len(buffer[s]) + Left(s))'
    BY <1>1, <1>5, <1>6, <1>7
  <1>10. dpc # "drain" \/ Current.req # s
    BY <1>4 DEF Routing
  <1> QED BY <1>1, <1>2, <1>5, <1>6, <1>8, <1>9, <1>10 DEF StreamOf

\* What the thread left behind in get() takes, nobody will miss.
LEMMA StrayOf ==
    ASSUME ApiInv, NEW s \in Streams, StreamOf(s), StrayGets(s)
    PROVE  StreamOf(s)'
  <1>1. /\ UNCHANGED <<phase, sent, streams, stop, dpc, batch, handler, outcome, got>>
        /\ Current' = Current
        /\ s \in stray /\ stray' = stray \ {s}
    BY DEF StrayGets, schedulerVars, closeVars, threadVars, Current
  <1>2. handler[s] \in {"leaving", "done"} /\ phase[s] # "new"
    BY <1>1 DEF StreamOf
  <1>3. BatchOf(s)'
    BY <1>1 DEF StreamOf, BatchOf, Coming, IsLast
  <1>4. ~Listening(s)'
    BY <1>1, <1>2 DEF Listening
  <1>5. /\ dpc = "drain" /\ Current.req = s => s \notin streams
        /\ outcome[s] = "ended" => handler[s] = "done" /\ phase[s] = "told" /\ sent[s] = got[s]
    BY DEF StreamOf
  <1> QED BY <1>1, <1>2, <1>3, <1>4, <1>5 DEF StreamOf

\* A step of a handler or of close() that gives s nothing and takes nothing
\* from it but, at most, its place in the table.
LEMMA AsideOf ==
    ASSUME ApiInv, NEW s \in Streams, StreamOf(s),
           UNCHANGED <<sent, dpc, batch>>, buffer'[s] = buffer[s], got'[s] = got[s],
           s \in streams' => s \in streams, stop => stop',
           phase'[s] = "new" => phase[s] = "new", phase[s] = "told" => phase'[s] = "told",
           \/ handler'[s] = handler[s] /\ outcome'[s] = outcome[s] /\ (s \in stray' => s \in stray)
           \/ /\ handler[s] \notin {"idle", "done"} /\ handler'[s] \notin {"accepted", "writing"}
              /\ handler'[s] = "reading" => handler[s] \in {"accepted", "writing"}
              /\ outcome'[s] # "ended"
              /\ s \in stray' => handler'[s] \in {"leaving", "done"}
    PROVE  StreamOf(s)'
  <1>1. /\ s \in stray => handler[s] \in {"leaving", "done"}
        /\ phase[s] = "new" => handler[s] = "idle"
        /\ dpc = "drain" /\ Current.req = s => s \notin streams
    BY DEF StreamOf
  <1>2. /\ Listening(s)' => Listening(s)
        /\ phase'[s] = "new" => phase[s] = "new" /\ handler'[s] = handler[s]
        /\ s \in stray' => handler'[s] \in {"leaving", "done"}
        /\ outcome'[s] = "ended" => outcome[s] = "ended" /\ (handler[s] = "done" => handler'[s] = "done")
    BY <1>1 DEF Listening
  <1>3. /\ dpc' = "put" /\ Current.req = s => Flowing(s)
        /\ dpc' \in {"put", "drain"} /\ Current.req = s => dpc' = dpc \/ s \in streams
        /\ dpc' = "drain" /\ Current.req = s => dpc = "drain"
    BY DEF Flowing
  <1> QED BY <1>2, <1>3, StreamFrame

LEMMA HandleOf ==
    ASSUME ApiInv, StreamTyped, NEW s \in Streams, StreamOf(s), NEW r \in Requests, Handle(r)
    PROVE  StreamOf(s)'
  <1> USE DEF schedulerVars, tableVars, closeVars, threadVars
  <1>0. s \in Requests /\ s \notin OneShots
    BY StreamIds
  <1>1. phase \in [Requests -> Scheduler!Phases] /\ handler[s] \in HandlerStates
    BY <1>0 DEF ApiInv, Typed
  <1>2. outcome[s] = "ended" => handler[s] = "done"
    BY DEF StreamOf
  <1>3. CASE Submit(r)
    <2>1. CASE r # s
      <3>1. phase'[s] = phase[s]
        BY <1>0, <1>1, <1>3, <2>1 DEF Submit, Scheduler!Admit
      <3>2. handler'[s] = handler[s] /\ (s \in streams' => s \in streams)
        BY <1>0, <1>3, <2>1 DEF Submit, ApiInv, Typed
      <3> QED BY <1>3, <3>1, <3>2, AsideOf DEF Submit
    <2> QED BY <1>3, <2>1, SubmitOf
  <1>4. CASE Answered(r) \/ Dropped(r) \/ TimedOut(r) \/ Aborted(r)
    <2>1. r # s
      BY <1>0, <1>4 DEF Answered, Dropped, TimedOut, Aborted
    <2>2. handler'[s] = handler[s] /\ outcome'[s] = outcome[s]
      BY <1>0, <1>4, <2>1 DEF Answered, Dropped, TimedOut, Aborted, Become, ApiInv, Typed, StreamTyped
    <2> QED BY <1>4, <2>2, AsideOf DEF Answered, Dropped, TimedOut, Aborted
  <1>5. CASE GetMessage(r)
    <2>1. CASE r # s
      <3>1. buffer'[s] = buffer[s]
        BY <1>0, <1>5, <2>1 DEF GetMessage, StreamTyped
      <3>2. got'[s] = got[s] /\ handler'[s] = handler[s] /\ outcome'[s] = outcome[s]
        BY <1>0, <1>5, <2>1 DEF GetMessage, Become, ApiInv, Typed, StreamTyped
      <3> QED BY <1>5, <3>1, <3>2, AsideOf DEF GetMessage
    <2> QED BY <1>5, <2>1, GetOf
  <1>6. CASE Starts(r) \/ ChunkWritten(r)
    <2>1. \/ handler'[s] = handler[s]
          \/ handler[s] \in {"accepted", "writing"} /\ handler'[s] = "reading"
      BY <1>0, <1>6 DEF Starts, ChunkWritten, ApiInv, Typed
    <2>2. handler[s] \in {"accepted", "writing"} => s \notin stray
      BY DEF StreamOf
    <2> QED BY <1>2, <1>6, <2>1, <2>2, AsideOf DEF Starts, ChunkWritten
  <1>7. CASE Disconnect(r)
    <2>1. CASE r = s
      <3>1. handler[s] \in {"reading", "writing"} /\ handler'[s] = "leaving" /\ outcome'[s] = "left"
        BY <1>0, <1>7, <2>1 DEF Disconnect, Become, ApiInv, Typed, StreamTyped
      <3> QED BY <1>7, <3>1, AsideOf DEF Disconnect
    <2>2. CASE r # s
      <3>1. handler'[s] = handler[s] /\ outcome'[s] = outcome[s] /\ (s \in stray' => s \in stray)
        BY <1>0, <1>7, <2>2 DEF Disconnect, Become, ApiInv, Typed, StreamTyped
      <3> QED BY <1>7, <3>1, AsideOf DEF Disconnect
    <2> QED BY <2>1, <2>2
  <1>8. CASE StrayGets(r)
    <2>1. CASE r # s
      <3>1. buffer'[s] = buffer[s] /\ (s \in stray' => s \in stray)
        BY <1>0, <1>8, <2>1 DEF StrayGets, StreamTyped
      <3> QED BY <1>8, <3>1, AsideOf DEF StrayGets
    <2> QED BY <1>8, <2>1, StrayOf
  <1>9. CASE CancelFound(r)
    <2>1. \/ handler'[s] = handler[s]
          \/ handler[s] = "leaving" /\ handler'[s] = "done"
      BY <1>0, <1>9 DEF CancelFound, ApiInv, Typed
    <2>2. /\ phase'[s] = "new" => phase[s] = "new"
          /\ phase[s] = "told" => phase'[s] = "told"
      BY <1>0, <1>9 DEF CancelFound, Scheduler!Withdraw
    <2> QED BY <1>2, <1>9, <2>1, <2>2, AsideOf DEF CancelFound
  <1>10. CASE CancelMissed(r)
    <2>1. \/ handler'[s] = handler[s]
          \/ handler[s] = "leaving" /\ handler'[s] = "done"
      BY <1>0, <1>10 DEF CancelMissed, ApiInv, Typed
    <2> QED BY <1>2, <1>10, <2>1, AsideOf DEF CancelMissed
  <1>11. CASE NeverStarts(r) \/ CancelCut(r)
    <2>1. \/ handler'[s] = handler[s] /\ outcome'[s] = outcome[s]
          \/ handler[s] \in {"accepted", "leaving"} /\ handler'[s] = "done" /\ outcome'[s] = "forgotten"
      BY <1>0, <1>11 DEF NeverStarts, CancelCut, Become, ApiInv, Typed, StreamTyped
    <2> QED BY <1>11, <2>1, AsideOf DEF NeverStarts, CancelCut
  <1> QED BY <1>3, <1>4, <1>5, <1>6, <1>7, <1>8, <1>9, <1>10, <1>11 DEF Handle, Read, Leave

LEMMA CloseOf ==
    ASSUME ApiInv, NEW s \in Streams, StreamOf(s), Close \/ UNCHANGED vars
    PROVE  StreamOf(s)'
  <1> USE DEF schedulerVars, tableVars, closeVars, threadVars, httpVars
  <1>1. CASE CloseBegin \/ CloseStop \/ UNCHANGED vars
    BY <1>1, AsideOf DEF CloseBegin, CloseStop, vars
  <1>2. CASE CloseScheduler \/ CloseRaises
    <2>1. Scheduler!Shut
      BY <1>2 DEF CloseScheduler, CloseRaises
    <2>2. Scheduler!MayMove(s)
      BY <2>1, StreamIds DEF Scheduler!Shut
    <2>3. /\ phase'[s] = "new" => phase[s] = "new"
          /\ phase[s] = "told" => phase'[s] = "told"
      BY <2>2 DEF Scheduler!MayMove, Scheduler!Moves
    <2> QED BY <1>2, <2>3, AsideOf DEF CloseScheduler, CloseRaises
  <1> QED BY <1>1, <1>2 DEF Close

LEMMA InitStreams == Init => StreamsInv
  <1> SUFFICES ASSUME Init PROVE StreamsInv
    OBVIOUS
  <1>1. <<>> \in Seq(Message) /\ Len(<<>>) = 0
    BY EmptySeq
  <1>2. StreamTyped
    BY <1>1 DEF Init, StreamTyped, Outcomes
  <1>3. ASSUME NEW s \in Streams PROVE StreamOf(s)
    <2>1. BatchOf(s) /\ ~Flowing(s)
      BY <1>1 DEF Init, BatchOf, Flowing
    <2>2. /\ sent[s] = 0 /\ got[s] = 0 /\ buffer[s] = <<>> /\ handler[s] = "idle" /\ outcome[s] = "none"
          /\ stray = {} /\ dpc = "poll"
      BY StreamIds DEF Init
    <2> QED BY <2>1, <2>2 DEF StreamOf, Listening
  <1> QED BY <1>2, <1>3 DEF StreamsInv

LEMMA StepStreams == ApiInv /\ StreamsInv /\ [Next]_vars => StreamsInv'
  <1> SUFFICES ASSUME ApiInv, StreamsInv, [Next]_vars PROVE StreamsInv'
    OBVIOUS
  <1>1. StreamTyped /\ \A s \in Streams : StreamOf(s)
    BY DEF StreamsInv
  <1>2. StreamTyped'
    BY <1>1, StepStreamTyped
  <1>3. ASSUME NEW s \in Streams PROVE StreamOf(s)'
    BY <1>1, PollKeepsStream, RouteOf, CloseOf, HandleOf DEF Next
  <1> QED BY <1>2, <1>3 DEF StreamsInv

\* What a stream's client reads next is the next chunk, however its stream is
\* polled, buffered, timed out, cancelled or closed meanwhile.
THEOREM StreamIsContiguous == Spec => []StreamContiguous
  <1>1. Init => ApiInv /\ StreamsInv
    BY InitApi, InitStreams
  <1>2. ApiInv /\ StreamsInv /\ [Next]_vars => (ApiInv /\ StreamsInv)'
    BY StepApi, StepStreams
  <1>3. ApiInv /\ StreamsInv => StreamContiguous
    <2> SUFFICES ASSUME ApiInv, StreamsInv, NEW s \in streams, Listening(s)
                 PROVE  Numbered(s)
      BY DEF StreamContiguous, Listening, Numbered
    <2>1. s \in Streams
      BY DEF ApiInv, Typed
    <2> QED BY <2>1 DEF StreamsInv, StreamOf
  <1> QED BY <1>1, <1>2, <1>3, PTL DEF Spec

\* No chunk of a stream that is served is lost or repeated on its way from the
\* scheduler to the client, whatever the size of its queue.
THEOREM StreamIsConserved == Spec => []StreamConserved
  <1>1. Init => ApiInv /\ StreamsInv
    BY InitApi, InitStreams
  <1>2. ApiInv /\ StreamsInv /\ [Next]_vars => (ApiInv /\ StreamsInv)'
    BY StepApi, StepStreams
  <1>3. ApiInv /\ StreamsInv => StreamConserved
    <2> SUFFICES ASSUME ApiInv, StreamsInv, NEW s \in streams, Listening(s), ~stop, dpc # "dead"
                 PROVE  sent[s] = got[s] + Chunks(s, buffer[s]) + Chunks(s, batch)
      BY DEF StreamConserved, Listening
    <2>1. s \in Streams /\ Flowing(s) /\ StreamOf(s)
      BY DEF ApiInv, Typed, StreamsInv, Flowing
    <2>2. buffer[s] \in Seq(Message) /\ Len(buffer[s]) \in Nat
      BY <2>1, StreamIds, LenProperties DEF StreamsInv, StreamTyped
    <2>3. Chunks(s, buffer[s]) = Len(buffer[s])
      <3>1. \A i \in 1..Len(buffer[s]) : buffer[s][i].kind = "chunk" /\ buffer[s][i].req = s
        BY <2>1 DEF StreamOf, Numbered
      <3>2. {i \in 1..Len(buffer[s]) : buffer[s][i].req = s /\ buffer[s][i].kind = "chunk"} = 1..Len(buffer[s])
        BY <3>1
      <3>3. Cardinality(1..Len(buffer[s])) = Len(buffer[s])
        BY <2>2, FS_Interval
      <3> QED BY <3>2, <3>3 DEF Chunks
    <2>4. Chunks(s, batch) = Left(s)
      <3>1. Chunks(s, batch) = Cardinality(Coming(s))
        BY DEF Chunks, Coming
      <3>2. CASE Coming(s) = {}
        BY <3>1, <3>2, FS_EmptySet DEF Left
      <3>3. CASE Coming(s) # {}
        <4>1. PICK i : Coming(s) = {i}
          <5>1. PICK i : i \in Coming(s)
            BY <3>3
          <5>2. \A j \in Coming(s) : i = j
            BY <2>1, <5>1 DEF StreamOf, BatchOf, Coming
          <5> QED BY <5>1, <5>2
        <4> QED BY <3>1, <3>3, <4>1, FS_Singleton DEF Left
      <3> QED BY <3>2, <3>3
    <2> QED BY <2>1, <2>3, <2>4 DEF StreamOf
  <1> QED BY <1>1, <1>2, <1>3, PTL DEF Spec

\* A client whose stream ends normally has received every chunk of it.
THEOREM StreamIsComplete == Spec => []StreamComplete
  <1>1. Init => ApiInv /\ StreamsInv
    BY InitApi, InitStreams
  <1>2. ApiInv /\ StreamsInv /\ [Next]_vars => (ApiInv /\ StreamsInv)'
    BY StepApi, StepStreams
  <1>3. StreamsInv => StreamComplete
    BY DEF StreamsInv, StreamOf, StreamComplete
  <1> QED BY <1>1, <1>2, <1>3, PTL DEF Spec

---------------------------------------------------------------------------
\* A handler's call of runtime.cancel

GivenUp(r) == handler[r] = "done" /\ outcome[r] = "left" /\ open => phase[r] \notin Scheduler!Live

\* A request nobody names never comes back to life.
LEMMA UnnamedGivenUp ==
    ASSUME NEW r \in Requests, GivenUp(r), handler'[r] = handler[r], outcome'[r] = outcome[r],
           open' => open, phase'[r] = phase[r] \/ phase'[r] = "due" \/ Scheduler!MayMove(r)
    PROVE  GivenUp(r)'
  BY DEF GivenUp, Scheduler!MayMove, Scheduler!Moves, Scheduler!Live

LEMMA HandleGivenUp ==
    ASSUME ApiInv, StreamTyped, NEW r \in Requests, GivenUp(r), NEW q \in Requests, Handle(q)
    PROVE  GivenUp(r)'
  <1> USE DEF schedulerVars
  <1>1. /\ phase \in [Requests -> Scheduler!Phases]
        /\ handler \in [Requests -> HandlerStates]
        /\ outcome \in [Requests -> Outcomes]
    BY DEF ApiInv, Typed, StreamTyped
  <1>2. ASSUME q # r PROVE GivenUp(r)'
    <2>1. handler'[r] = handler[r] /\ outcome'[r] = outcome[r]
      BY <1>1, <1>2 DEF Handle, Submit, Answered, Dropped, TimedOut, Aborted, Read, GetMessage, Starts, NeverStarts, CancelCut, ChunkWritten,
                        Disconnect, StrayGets, Leave, CancelFound, CancelMissed, Become
    <2>2. CASE Submit(q)
      <3>1. phase'[r] = phase[r] /\ open' = open
        BY <1>1, <1>2, <2>2 DEF Submit, Scheduler!Admit
      <3> QED BY <2>1, <3>1, UnnamedGivenUp
    <2>3. CASE CancelFound(q)
      <3>1. (phase'[r] = phase[r] \/ phase'[r] = "due") /\ open' = open
        BY <1>2, <2>3 DEF CancelFound, Scheduler!Withdraw
      <3> QED BY <2>1, <3>1, UnnamedGivenUp
    <2>4. CASE UNCHANGED <<phase, open>>
      BY <2>1, <2>4, UnnamedGivenUp
    <2> QED BY <2>2, <2>3, <2>4 DEF Handle, Answered, Dropped, TimedOut, Aborted, Read, GetMessage,
                                    Starts, NeverStarts, CancelCut, ChunkWritten, Disconnect, StrayGets, Leave,
                                    CancelMissed
  <1>3. ASSUME q = r PROVE GivenUp(r)'
    <2>1. CASE CancelFound(r)
      <3>1. phase'[r] = "told"
        BY <2>1 DEF CancelFound, Scheduler!Withdraw
      <3> QED BY <3>1 DEF GivenUp, Scheduler!Live
    <2>2. CASE CancelMissed(r)
      BY <2>2 DEF CancelMissed, GivenUp
    <2>3. CASE StrayGets(r)
      BY <2>3 DEF StrayGets, GivenUp
    <2>4. CASE GetMessage(r)
      <3>1. \/ handler'[r] \in {"writing", "leaving"}
            \/ handler'[r] = "done" /\ outcome'[r] = "ended"
        BY <1>1, <2>4 DEF GetMessage, Become
      <3> QED BY <3>1 DEF GivenUp
    <2>5. CASE Submit(r) \/ Starts(r) \/ ChunkWritten(r)
      <3>1. handler'[r] \in {"accepted", "reading"}
        BY <1>1, <2>5 DEF Submit, Starts, ChunkWritten
      <3> QED BY <3>1 DEF GivenUp
    <2>6. CASE Answered(r) \/ NeverStarts(r) \/ CancelCut(r)
      <3>1. outcome'[r] \in {"answered", "forgotten"}
        BY <1>1, <2>6 DEF Answered, NeverStarts, CancelCut, Become
      <3> QED BY <3>1 DEF GivenUp
    <2>7. CASE Dropped(r) \/ TimedOut(r) \/ Aborted(r) \/ Disconnect(r)
      <3>1. handler'[r] = "leaving"
        BY <1>1, <2>7 DEF Dropped, TimedOut, Aborted, Disconnect, Become
      <3> QED BY <3>1 DEF GivenUp
    <2> QED BY <1>3, <2>1, <2>2, <2>3, <2>4, <2>5, <2>6, <2>7 DEF Handle, Read, Leave
  <1> QED BY <1>2, <1>3

LEMMA StepGivenUp ==
    ASSUME ApiInv, StreamTyped, [Next]_vars, NEW r \in Requests, GivenUp(r)
    PROVE  GivenUp(r)'
  <1> USE DEF schedulerVars, httpVars
  <1>1. CASE Poll
    <2>1. Scheduler!MayMove(r) /\ open' = open
      BY <1>1 DEF Poll, Scheduler!Work
    <2> QED BY <1>1, <2>1, UnnamedGivenUp DEF Poll
  <1>2. CASE Route \/ CloseBegin \/ CloseStop \/ UNCHANGED vars
    <2>1. UNCHANGED <<schedulerVars, httpVars>>
      BY <1>2 DEF vars, Route, RouteNowhere, RouteToStream, RouteToFuture, Resolve, ResolveRaises, OfferStopped,
                  OfferGone, OfferKnown, Put, PutFull, PutExpired, Drain, DrainDone, CloseBegin, CloseStop
    <2> QED BY <2>1, UnnamedGivenUp
  <1>3. CASE CloseScheduler \/ CloseRaises
    BY <1>3 DEF CloseScheduler, CloseRaises, Scheduler!Shut, GivenUp
  <1>4. CASE \E q \in Requests : Handle(q)
    BY <1>4, HandleGivenUp
  <1> QED BY <1>1, <1>2, <1>3, <1>4 DEF Next, Close

\* The event that ends r is in the dispatcher's hands.
LastIn(r) == \E i \in 1..Len(batch) : batch[i].req = r /\ IsLast(batch[i])

\* An entry of the tables is of an admitted request; once its last event has been
\* handed out, the dispatcher has it, or has died.
Tabled(r) ==
    open /\ r \in futures \cup streams =>
        phase[r] # "new" /\ (phase[r] = "told" => LastIn(r) \/ dpc = "dead")

LEMMA LastStays ==
    ASSUME ApiInv, Advance, dpc \in Routing, NEW r, LastIn(r), Current.req # r \/ ~IsLast(Current)
    PROVE  LastIn(r)'
  <1>1. PICK i \in 1..Len(batch) : batch[i].req = r /\ IsLast(batch[i])
    BY DEF LastIn
  <1>2. /\ Len(batch) \in Nat /\ Current = batch[1] /\ batch' = Tail(batch)
        /\ Len(batch') = Len(batch) - 1
        /\ \A j \in 1..Len(batch') : batch'[j] = batch[j + 1]
    BY HeadOfBatch DEF Advance, ApiInv
  <1>3. i # 1
    BY <1>1, <1>2
  <1>4. i - 1 \in 1..Len(batch') /\ batch'[i - 1] = batch[i]
    BY <1>2, <1>3
  <1> QED BY <1>1, <1>4 DEF LastIn, IsLast

\* A step that leaves the dispatcher and the ends of requests alone.
LEMMA TabledElsewhere ==
    ASSUME NEW r, Tabled(r), UNCHANGED <<dpc, batch>>,
           open' => open, r \in (futures \cup streams)' => r \in futures \cup streams,
           phase'[r] = "new" => phase[r] = "new", phase'[r] = "told" => phase[r] = "told"
    PROVE  Tabled(r)'
  BY DEF Tabled, LastIn, IsLast

LEMMA RouteTabled ==
    ASSUME ApiInv, StreamsInv, Route, NEW r \in Requests, Tabled(r)
    PROVE  Tabled(r)'
  <1> USE DEF schedulerVars, tableVars, closeVars, threadVars, httpVars
  <1>1. UNCHANGED <<phase, open>> /\ futures' \subseteq futures /\ streams' \subseteq streams
    BY DEF Route, RouteNowhere, RouteToStream, RouteToFuture, Resolve, ResolveRaises, OfferStopped,
           OfferGone, OfferKnown, Put, PutFull, PutExpired, Drain, DrainDone, PopIfLast
  <1>2. dpc \in Routing /\ dpc # "dead"
    BY DEF Route, RouteNowhere, RouteToStream, RouteToFuture, Resolve, ResolveRaises, OfferStopped,
           OfferGone, OfferKnown, Put, PutFull, PutExpired, Drain, DrainDone, Routing
  <1>3. CASE dpc' = "dead"
    BY <1>1, <1>3 DEF Tabled
  <1>4. CASE batch' = batch
    BY <1>1, <1>2, <1>4 DEF Tabled, LastIn, IsLast
  <1>5. CASE Advance /\ (Current.req # r \/ ~IsLast(Current))
    BY <1>1, <1>2, <1>5, LastStays DEF Tabled
  <1>6. CASE Advance /\ Current.req = r /\ IsLast(Current)
    <2>1. /\ r # NoReq /\ InHand(Current) /\ Current.kind \in {"result", "end", "error"}
          /\ futures \subseteq OneShots /\ streams \subseteq Streams
      BY <1>2, <1>6, CurrentIs DEF IsLast, Message, Kinds, ApiInv, Typed
    <2>2. /\ r \in OneShots => r \notin streams /\ Current.kind # "end"
          /\ r \in Streams => r \notin futures /\ Current.kind # "result"
      BY <1>6, <2>1 DEF InHand, OneShots
    <2>3. r \in OneShots \/ r \in Streams
      BY DEF OneShots
    <2>4. CASE RouteNowhere
      BY <1>6, <2>1, <2>2, <2>3, <2>4 DEF RouteNowhere, ToStream, Tabled
    <2>5. CASE RouteToFuture
      BY <1>6, <2>2, <2>3, <2>5 DEF RouteToFuture, ToStream, Tabled
    <2>6. CASE Resolve
      BY <1>1, <1>6, <2>2, <2>6 DEF Resolve, ApiInv, Resolving, Tabled
    <2>7. CASE OfferStopped \/ OfferGone \/ Put \/ DrainDone
      <3>1. r \in Streams
        BY <1>6, <2>7 DEF OfferStopped, OfferGone, Put, DrainDone, ApiInv
      <3>2. dpc = "drain" => r \notin streams
        BY <1>6, <3>1 DEF StreamsInv, StreamOf
      <3> QED BY <1>6, <2>2, <2>7, <3>1, <3>2 DEF OfferStopped, OfferGone, Put, DrainDone, PopIfLast, Tabled
    <2>8. Len(batch) \in Nat /\ Len(Tail(batch)) = Len(batch) - 1
      BY <1>2, HeadOfBatch DEF ApiInv
    <2>9. Tail(batch) # batch
      <3>1. Len(batch) - 1 # Len(batch)
        BY ONLY <2>8
      <3> QED BY <2>8, <3>1
    <2>10. ~(RouteToStream \/ OfferKnown \/ PutFull \/ PutExpired \/ Drain)
      BY <1>6, <2>9 DEF RouteToStream, OfferKnown, PutFull, PutExpired, Drain, Advance
    <2>11. CASE ResolveRaises
      BY <1>3, <2>11 DEF ResolveRaises
    <2> QED BY <2>4, <2>5, <2>6, <2>7, <2>10, <2>11 DEF Route
  <1>7. dpc' = "dead" \/ batch' = batch \/ Advance
    BY DEF Route, RouteNowhere, RouteToStream, RouteToFuture, Resolve, ResolveRaises, OfferStopped,
           OfferGone, OfferKnown, Put, PutFull, PutExpired, Drain, DrainDone
  <1> QED BY <1>3, <1>4, <1>5, <1>6, <1>7

LEMMA PollTabled ==
    ASSUME ApiInv, Poll, NEW r \in Requests, Tabled(r)
    PROVE  Tabled(r)'
  <1>1. /\ UNCHANGED <<open, futures, streams>> /\ dpc = "poll"
        /\ Scheduler!MayMove(r)
    BY DEF Poll, Scheduler!Work, tableVars
  <1>2. phase'[r] = "new" => phase[r] = "new"
    BY <1>1 DEF Scheduler!MayMove, Scheduler!Moves
  <1>3. Len(batch) = 0
    BY <1>1, EmptySeq DEF ApiInv, Typed, Routing
  <1>4. ~LastIn(r)
    BY <1>3 DEF LastIn
  <1>5. ASSUME r \in NewlyTold PROVE LastIn(r)'
    <2>1. PICK speaking \in SUBSET CanSpeak, lastKind \in [NewlyTold -> Kinds], nameless \in BOOLEAN :
            /\ \A q \in NewlyTold : lastKind[q] \in LastKinds(q)
            /\ \A e \in PollEvents(speaking, lastKind, nameless) : \E i \in 1..Len(batch') : batch'[i] = e
      BY PollBatch
    <2>2. Ev(r, lastKind[r], sent'[r]) \in PollEvents(speaking, lastKind, nameless)
      BY <1>5 DEF PollEvents
    <2>3. PICK i \in 1..Len(batch') : batch'[i] = Ev(r, lastKind[r], sent'[r])
      BY <2>1, <2>2
    <2>4. lastKind[r] # "chunk"
      BY <1>5, <2>1 DEF LastKinds
    <2>5. batch'[i].req = r /\ batch'[i].kind # "chunk"
      BY <2>3, <2>4 DEF Ev
    <2> QED BY <2>5 DEF LastIn, IsLast
  <1>6. phase[r] # "told" /\ phase'[r] = "told" => LastIn(r)'
    BY <1>5 DEF NewlyTold
  <1> QED BY <1>1, <1>2, <1>4, <1>6 DEF Tabled

LEMMA StepTabled ==
    ASSUME ApiInv, StreamsInv, [Next]_vars, NEW r \in Requests, Tabled(r)
    PROVE  Tabled(r)'
  <1> USE DEF schedulerVars, tableVars, closeVars, threadVars, httpVars
  <1>1. CASE CloseBegin \/ CloseStop \/ UNCHANGED vars
    BY <1>1, TabledElsewhere DEF CloseBegin, CloseStop, vars
  <1>2. CASE CloseScheduler \/ CloseRaises
    BY <1>2 DEF CloseScheduler, CloseRaises, Scheduler!Shut, Tabled
  <1>3. ASSUME NEW q \in Requests, Handle(q) PROVE Tabled(r)'
    <2>1. CASE Submit(q)
      <3>1. UNCHANGED <<dpc, batch, open>> /\ (\E p \in Scheduler!Live : phase' = [phase EXCEPT ![q] = p])
        BY <2>1 DEF Submit, Scheduler!Admit
      <3>2. CASE q = r
        <4>1. phase'[r] \in Scheduler!Live
          BY <3>1, <3>2 DEF ApiInv, Typed
        <4> QED BY <4>1 DEF Tabled, Scheduler!Live
      <3>3. CASE q # r
        <4>1. phase'[r] = phase[r] /\ (r \in (futures \cup streams)' => r \in futures \cup streams)
          BY <2>1, <3>1, <3>3 DEF Submit, ApiInv, Typed
        <4> QED BY <3>1, <4>1, TabledElsewhere
      <3> QED BY <3>2, <3>3
    <2>2. CASE CancelFound(q)
      <3>1. CASE q = r
        BY <2>2, <3>1 DEF CancelFound, Tabled
      <3>2. CASE q # r
        <4>1. (phase'[r] = phase[r] \/ phase'[r] = "due") /\ open' = open
          BY <2>2, <3>2 DEF CancelFound, Scheduler!Withdraw
        <4> QED BY <2>2, <4>1, TabledElsewhere DEF CancelFound
      <3> QED BY <3>1, <3>2
    <2>3. CASE UNCHANGED <<phase, open, futures, streams, dpc, batch>>
      BY <2>3, TabledElsewhere
    <2> QED BY <1>3, <2>1, <2>2, <2>3
              DEF Handle, Read, Leave, Answered, Dropped, TimedOut, Aborted, GetMessage, Starts, NeverStarts, CancelCut,
                  ChunkWritten, Disconnect, StrayGets, CancelMissed
  <1> QED BY <1>1, <1>2, <1>3, PollTabled, RouteTabled DEF Next, Close

\* When a handler's call of runtime.cancel has run, no worker works on its request
\* any more, and no entry of the tables stays for ever but for the two disclosed
\* reasons: the scheduler lost the request, or the dispatcher died.
THEOREM CancelIsFinal == Spec => []CancelClears
  <1> DEFINE Inv == ApiInv /\ StreamsInv /\ \A r \in Requests : GivenUp(r) /\ Tabled(r)
  <1>1. Init => Inv
    <2>1. Init => \A r \in Requests : GivenUp(r) /\ Tabled(r)
      BY DEF Init, GivenUp, Tabled
    <2> QED BY <2>1, InitApi, InitStreams
  <1>2. Inv /\ [Next]_vars => Inv'
    <2> SUFFICES ASSUME Inv, [Next]_vars PROVE Inv'
      OBVIOUS
    <2>1. ASSUME NEW r \in Requests PROVE GivenUp(r)' /\ Tabled(r)'
      BY StepGivenUp, StepTabled DEF StreamsInv
    <2> QED BY <2>1, StepApi, StepStreams
  <1>3. Inv => CancelClears
    <2> SUFFICES ASSUME Inv, NEW r \in Requests, handler[r] = "done", outcome[r] = "left", open
                 PROVE  /\ phase[r] \notin Scheduler!Live
                        /\ r \in futures \cup streams =>
                              phase[r] \in {"due", "lost"} \/ LastIn(r) \/ dpc = "dead"
      BY DEF CancelClears, LastIn
    <2>1. phase[r] \in Scheduler!Phases /\ phase[r] \notin Scheduler!Live
      BY DEF ApiInv, Typed, GivenUp
    <2> QED BY <2>1 DEF Tabled, Scheduler!Phases
  <1> QED BY <1>1, <1>2, <1>3, PTL DEF Spec

-----------------------------------------------------------------------------
\* ApiTypeOK. All of it is typing but for one bound: no client is given more
\* chunks than its stream has. That one rests on the numbers the chunks carry.

\* The events are events, and a stream has sent no more chunks than it may have.
EventsTyped ==
    /\ sent \in [Requests -> 0..MaxChunks]
    /\ batch \in Seq(Event)
    /\ buffer \in [Requests -> Seq(Event)]

RestTyped ==
    /\ open \in BOOLEAN /\ closed \in BOOLEAN /\ stop \in BOOLEAN
    /\ closer \in {"none", "stopping", "joining", "closed", "raised"}
    /\ stray \subseteq Streams
    /\ \A r \in OneShots : got[r] = 0

\* A client has not got more than was sent, nor will it: the chunks in its queue
\* are numbered from where it is to what was sent, and there is a number left for
\* the one that is on its way.
Bounded(s) ==
    /\ got[s] <= sent[s]
    /\ \A i \in 1..Len(buffer[s]) : buffer[s][i].kind = "chunk" =>
          got[s] + i <= buffer[s][i].n /\ buffer[s][i].n <= sent[s]
    /\ Flowing(s) => got[s] + Len(buffer[s]) + Left(s) <= sent[s]

LEMMA EventsKeep == ApiInv /\ EventsTyped /\ [Next]_vars => EventsTyped'
  <1> SUFFICES ASSUME ApiInv, EventsTyped, [Next]_vars PROVE EventsTyped'
    OBVIOUS
  <1> USE DEF EventsTyped, schedulerVars, tableVars, closeVars, threadVars, httpVars
  <1>1. CASE Close \/ UNCHANGED vars
    BY <1>1 DEF Close, CloseBegin, CloseStop, CloseScheduler, CloseRaises, vars
  <1>2. CASE Poll
    <2>1. buffer' = buffer
      BY <1>2 DEF Poll
    <2>2. PICK speaking \in SUBSET CanSpeak, lastKind \in [NewlyTold -> Kinds], nameless \in BOOLEAN :
            /\ sent' = [r \in Requests |-> IF r \in speaking THEN sent[r] + 1 ELSE sent[r]]
            /\ batch' \in Seq(PollEvents(speaking, lastKind, nameless))
      BY <1>2, PollBatch
    <2>3. \A r \in speaking : r \in Requests /\ sent[r] < MaxChunks
      BY StreamIds DEF CanSpeak
    <2>4. sent' \in [Requests -> 0..MaxChunks]
      BY <2>2, <2>3
    <2>5. PollEvents(speaking, lastKind, nameless) \subseteq Event
      <3>1. \A r \in Requests, kind \in Kinds : Ev(r, kind, sent'[r]) \in Event
        BY <2>4 DEF Ev, Event
      <3>2. \A s \in speaking : Ev(s, "chunk", sent'[s]) \in Event
        BY <2>3, <3>1 DEF Kinds
      <3>3. \A r \in NewlyTold : Ev(r, lastKind[r], sent'[r]) \in Event
        BY <3>1 DEF NewlyTold
      <3>4. Ev(NoReq, "error", 0) \in Event
        BY DEF Ev, Event, Kinds
      <3> QED BY <3>2, <3>3, <3>4 DEF PollEvents
    <2> QED BY <2>1, <2>2, <2>4, <2>5
  <1>3. CASE Route
    <2>1. sent' = sent
      BY <1>3 DEF Route, RouteNowhere, RouteToStream, RouteToFuture, Resolve, ResolveRaises, OfferStopped,
                  OfferGone, OfferKnown, Put, PutFull, PutExpired, Drain, DrainDone
    <2>2. batch' \in {batch, <<>>} \/ (batch # <<>> /\ batch' = Tail(batch))
      <3>1. dpc \in Routing => batch # <<>>
        BY DEF ApiInv, Typed
      <3> QED BY <1>3, <3>1 DEF Route, RouteNowhere, RouteToStream, RouteToFuture, Resolve, ResolveRaises, OfferStopped,
                  OfferGone, OfferKnown, Put, PutFull, PutExpired, Drain, DrainDone, Advance, Routing
    <2>3. batch' \in Seq(Event)
      <3>1. CASE batch' \in {batch, <<>>}
        BY <3>1, EmptySeq
      <3>2. CASE batch # <<>> /\ batch' = Tail(batch)
        <4>1. batch \in Seq(Event) /\ batch # <<>>
          BY <3>2
        <4>2. Tail(batch) \in Seq(Event)
          BY ONLY <4>1, HeadTailProperties
        <4> QED BY <3>2, <4>2
      <3> QED BY <2>2, <3>1, <3>2
    <2>4. dpc \in {"put", "drain"} => Current \in Event /\ Current.req \in Requests
      <3>1. dpc \in {"put", "drain"} => dpc \in Routing /\ Current.req \in Streams
        BY DEF ApiInv, Routing
      <3>2. dpc \in {"put", "drain"} => Current \in Event
        BY <3>1, CurrentIs, ElementOfSeq
      <3> QED BY <3>1, <3>2, StreamIds
    <2>5. \/ buffer' = buffer
          \/ dpc = "put" /\ buffer' = [buffer EXCEPT ![Current.req] = Append(@, Current)]
          \/ /\ dpc = "drain" /\ buffer[Current.req] # <<>>
             /\ buffer' = [buffer EXCEPT ![Current.req] = Tail(@)]
          \/ dpc = "drain" /\ buffer' = [buffer EXCEPT ![Current.req] = <<Ev(Current.req, "error", 0)>>]
      BY <1>3 DEF Route, RouteNowhere, RouteToStream, RouteToFuture, Resolve, ResolveRaises, OfferStopped,
                  OfferGone, OfferKnown, Put, PutFull, PutExpired, Drain, DrainDone
    <2>6. dpc \in {"put", "drain"} =>
            /\ Append(buffer[Current.req], Current) \in Seq(Event)
            /\ buffer[Current.req] # <<>> => Tail(buffer[Current.req]) \in Seq(Event)
            /\ <<Ev(Current.req, "error", 0)>> \in Seq(Event)
      <3>1. dpc \in {"put", "drain"} => Ev(Current.req, "error", 0) \in Event
        BY <2>4 DEF Ev, Event, Kinds
      <3> QED BY <2>4, <3>1, AppendProperties, HeadTailProperties
    <2>7. buffer' \in [Requests -> Seq(Event)]
      BY <2>5, <2>6
    <2> QED BY <2>1, <2>3, <2>7
  <1>4. ASSUME NEW r \in Requests, Handle(r) PROVE EventsTyped'
    <2>1. CASE GetMessage(r) \/ StrayGets(r)
      <3>1. Tail(buffer[r]) \in Seq(Event)
        BY <2>1, HeadTailProperties DEF GetMessage, StrayGets
      <3> QED BY <2>1, <3>1 DEF GetMessage, StrayGets
    <2>2. CASE Submit(r) \/ Starts(r) \/ ChunkWritten(r) \/ Leave(r)
      BY <2>2 DEF Submit, Starts, ChunkWritten, Leave, CancelFound, CancelMissed
    <2>3. CASE \/ Answered(r) \/ Dropped(r) \/ TimedOut(r) \/ Aborted(r)
               \/ NeverStarts(r) \/ Disconnect(r) \/ CancelCut(r)
      BY <2>3 DEF Answered, Dropped, TimedOut, Aborted, NeverStarts, Disconnect, CancelCut
    <2> QED BY <1>4, <2>1, <2>2, <2>3 DEF Handle, Read
  <1> QED BY <1>1, <1>2, <1>3, <1>4 DEF Next

LEMMA RestKeeps == ApiInv /\ StreamTyped /\ RestTyped /\ [Next]_vars => RestTyped'
  <1> SUFFICES ASSUME ApiInv, StreamTyped, RestTyped, [Next]_vars PROVE RestTyped'
    OBVIOUS
  <1> USE DEF RestTyped, schedulerVars, tableVars, closeVars, threadVars, httpVars
  <1>1. CASE Poll \/ UNCHANGED vars
    BY <1>1 DEF Poll, Scheduler!Work, vars
  <1>2. CASE Route
    BY <1>2 DEF Route, RouteNowhere, RouteToStream, RouteToFuture, Resolve, ResolveRaises, OfferStopped,
                OfferGone, OfferKnown, Put, PutFull, PutExpired, Drain, DrainDone
  <1>3. CASE Close
    BY <1>3 DEF Close, CloseBegin, CloseStop, CloseScheduler, CloseRaises, Scheduler!Shut
  <1>4. ASSUME NEW r \in Requests, Handle(r) PROVE RestTyped'
    <2>1. CASE GetMessage(r)
      <3>1. \A q \in OneShots : q # r /\ q \in Requests
        BY <2>1 DEF GetMessage, OneShots
      <3>2. \A q \in OneShots : got'[q] = got[q]
        BY <2>1, <3>1 DEF GetMessage, StreamTyped
      <3>3. UNCHANGED <<open, closed, stop, closer, stray>>
        BY <2>1 DEF GetMessage
      <3> QED BY <3>2, <3>3
    <2>2. CASE \/ Submit(r) \/ Starts(r) \/ ChunkWritten(r)
               \/ CancelMissed(r) \/ CancelFound(r) \/ StrayGets(r)
      BY <2>2 DEF Submit, Starts, ChunkWritten, CancelFound, CancelMissed, StrayGets, Scheduler!Admit, Scheduler!Withdraw
    <2>3. CASE \/ Answered(r) \/ Dropped(r) \/ TimedOut(r) \/ Aborted(r)
               \/ NeverStarts(r) \/ Disconnect(r) \/ CancelCut(r)
      BY <2>3 DEF Answered, Dropped, TimedOut, Aborted, NeverStarts, Disconnect, CancelCut
    <2> QED BY <1>4, <2>1, <2>2, <2>3 DEF Handle, Read, Leave
  <1> QED BY <1>1, <1>2, <1>3, <1>4 DEF Next

\* What a step can do to the events of a stream: nothing, add those of a poll,
\* put one in its queue, take one from it, or leave an error in it.
Rests(s) ==
    buffer'[s] = buffer[s] /\ got'[s] = got[s] /\ sent'[s] = sent[s] /\ (Left(s)' = 0 \/ Left(s)' = Left(s))
Receives(s) ==
    buffer'[s] = buffer[s] /\ got'[s] = got[s] /\ Left(s) = 0 /\ sent'[s] = sent[s] + Left(s)'
Fills(s) ==
    /\ dpc = "put" /\ Current.req = s
    /\ buffer'[s] = Append(buffer[s], Current) /\ got'[s] = got[s] /\ sent'[s] = sent[s]
    /\ IF Current.kind = "chunk" THEN Current.n = sent[s] /\ Left(s) = 1 /\ Left(s)' = 0 ELSE ~Flowing(s)'
Empties(s) ==
    /\ buffer[s] # <<>> /\ buffer'[s] = Tail(buffer[s]) /\ sent'[s] = sent[s] /\ Left(s)' = Left(s)
    /\ got'[s] = got[s] \/ (got'[s] = got[s] + 1 /\ buffer[s][1].kind = "chunk")
Clears(s) ==
    buffer'[s] = <<Ev(s, "error", 0)>> /\ got'[s] = got[s] /\ sent'[s] = sent[s] /\ ~Flowing(s)'

LEMMA FlowsOn ==
    ASSUME ApiInv, [Next]_vars, NEW s \in Streams, Flowing(s)'
    PROVE  Flowing(s) \/ phase[s] = "new"
  <1> USE DEF Flowing, schedulerVars, tableVars, closeVars, threadVars, httpVars
  <1>0. s \in Requests
    BY StreamIds
  <1>1. CASE Close \/ Poll \/ UNCHANGED vars
    BY <1>1 DEF Close, CloseBegin, CloseStop, CloseScheduler, CloseRaises, Poll, BeginLoop, Current, vars
  <1>2. CASE Route
    <2>1. stop' = stop /\ (s \in streams' => s \in streams)
      BY <1>2 DEF Route, RouteNowhere, RouteToStream, RouteToFuture, Resolve, ResolveRaises, OfferStopped,
                  OfferGone, OfferKnown, Put, PutFull, PutExpired, Drain, DrainDone, PopIfLast
    <2>2. dpc' # "put" \/ OfferKnown
      BY <1>2 DEF Route, RouteNowhere, RouteToStream, RouteToFuture, Resolve, ResolveRaises, OfferStopped,
                  OfferGone, Put, PutFull, PutExpired, Drain, DrainDone, Advance, BeginLoop
    <2>3. dpc # "dead"
      BY <1>2 DEF Route, RouteNowhere, RouteToStream, RouteToFuture, Resolve, ResolveRaises, OfferStopped,
                  OfferGone, OfferKnown, Put, PutFull, PutExpired, Drain, DrainDone
    <2>4. CASE OfferKnown
      BY <2>1, <2>4 DEF OfferKnown, Current
    <2> QED BY <2>1, <2>2, <2>3, <2>4
  <1>3. ASSUME NEW r \in Requests, Handle(r) PROVE Flowing(s) \/ phase[s] = "new"
    <2>1. stop' = stop /\ dpc' = dpc /\ Current' = Current
      BY <1>3 DEF Handle, Read, Leave, Submit, Answered, Dropped, TimedOut, Aborted, GetMessage, Starts, NeverStarts, CancelCut, ChunkWritten,
                  Disconnect, StrayGets, CancelFound, CancelMissed, Current
    <2>2. (s \in streams' => s \in streams) \/ (Submit(r) /\ r = s)
      BY <1>3 DEF Handle, Read, Leave, Submit, Answered, Dropped, TimedOut, Aborted, GetMessage, Starts, NeverStarts, CancelCut, ChunkWritten,
                  Disconnect, StrayGets, CancelFound, CancelMissed
    <2> QED BY <2>1, <2>2 DEF Submit, Scheduler!Admit
  <1> QED BY <1>1, <1>2, <1>3 DEF Next

LEMMA RouteMoves ==
    ASSUME ApiInv, StreamTyped, Route, NEW s \in Streams, StreamOf(s)
    PROVE  Rests(s) \/ Fills(s) \/ Empties(s) \/ Clears(s)
  <1> USE DEF schedulerVars, tableVars, closeVars, threadVars, httpVars
  <1>0. s \in Requests /\ BatchOf(s)
    BY StreamIds DEF StreamOf
  <1>1. sent' = sent /\ got' = got /\ phase' = phase
    BY DEF Route, RouteNowhere, RouteToStream, RouteToFuture, Resolve, ResolveRaises, OfferStopped,
           OfferGone, OfferKnown, Put, PutFull, PutExpired, Drain, DrainDone
  <1>2. batch' \in {batch, <<>>} \/ (Advance /\ dpc \in Routing)
    BY DEF Route, RouteNowhere, RouteToStream, RouteToFuture, Resolve, ResolveRaises, OfferStopped,
           OfferGone, OfferKnown, Put, PutFull, PutExpired, Drain, DrainDone, Routing
  <1>3. Left(s)' = 0 \/ Left(s)' = Left(s)
    BY <1>0, <1>1, <1>2, EmptySeq, AdvanceBatch DEF Left, Coming
  <1>4. CASE buffer'[s] = buffer[s]
    BY <1>1, <1>3, <1>4 DEF Rests
  <1>5. CASE Put /\ Current.req = s
    <2>1. Advance /\ dpc \in Routing /\ dpc = "put"
      BY <1>5 DEF Put, Routing
    <2>2. buffer'[s] = Append(buffer[s], Current) /\ streams' = IF IsLast(Current) THEN streams \ {s} ELSE streams
      BY <1>0, <1>5 DEF Put, PopIfLast, StreamTyped
    <2>3. 1 \in 1..Len(batch) /\ Current = batch[1]
      BY <2>1, CurrentIs
    <2>4. Current.n = sent[s]
      BY <1>0, <1>5, <2>3 DEF BatchOf
    <2>5. Current.kind = "chunk" => Left(s) = 1 /\ Left(s)' = 0
      BY <1>0, <1>1, <1>5, <2>1, AdvanceBatch
    <2>6. Current.kind # "chunk" => ~Flowing(s)'
      BY <2>1, <2>2 DEF IsLast, Flowing, Advance, BeginLoop
    <2> QED BY <1>1, <1>5, <2>1, <2>2, <2>4, <2>5, <2>6 DEF Fills
  <1>6. CASE Drain /\ Current.req = s
    BY <1>0, <1>1, <1>6 DEF Drain, Empties, StreamTyped, Left, Coming
  <1>7. CASE DrainDone /\ Current.req = s
    <2>1. s \notin streams /\ streams' = streams
      BY <1>7 DEF DrainDone, StreamOf
    <2>2. ~Flowing(s)'
      BY <1>7, <2>1 DEF DrainDone, Flowing, Advance, BeginLoop
    <2> QED BY <1>0, <1>1, <1>7, <2>2 DEF DrainDone, Clears, StreamTyped
  <1>8. \/ buffer'[s] = buffer[s]
        \/ Current.req = s /\ (Put \/ Drain \/ DrainDone)
    BY <1>0 DEF Route, RouteNowhere, RouteToStream, RouteToFuture, Resolve, ResolveRaises, OfferStopped,
           OfferGone, OfferKnown, Put, PutFull, PutExpired, Drain, DrainDone, StreamTyped
  <1> QED BY <1>4, <1>5, <1>6, <1>7, <1>8

LEMMA HandleMoves ==
    ASSUME ApiInv, StreamTyped, NEW r \in Requests, Handle(r), NEW s \in Streams
    PROVE  Rests(s) \/ Empties(s)
  <1> USE DEF schedulerVars, tableVars, closeVars, threadVars, httpVars
  <1>0. s \in Requests
    BY StreamIds
  <1>1. sent' = sent /\ batch' = batch
    BY DEF Handle, Read, Leave, Submit, Answered, Dropped, TimedOut, Aborted, GetMessage, Starts, NeverStarts, CancelCut, ChunkWritten,
           Disconnect, StrayGets, CancelFound, CancelMissed
  <1>2. Left(s)' = Left(s)
    BY <1>1 DEF Left, Coming
  <1>3. CASE GetMessage(s)
    <2>1. buffer[s] # <<>> /\ buffer'[s] = Tail(buffer[s]) /\ buffer[s] \in Seq(Message)
      BY <1>0, <1>3 DEF GetMessage, StreamTyped
    <2>2. Head(buffer[s]) = buffer[s][1]
      BY <2>1
    <2>3. got'[s] = got[s] \/ (got'[s] = got[s] + 1 /\ buffer[s][1].kind = "chunk")
      BY <1>0, <1>3, <2>2 DEF GetMessage, StreamTyped
    <2> QED BY <1>1, <1>2, <2>1, <2>3 DEF Empties
  <1>4. CASE StrayGets(s)
    BY <1>0, <1>1, <1>2, <1>4 DEF StrayGets, StreamTyped, Empties
  <1>5. CASE r # s \/ ~(GetMessage(r) \/ StrayGets(r))
    <2>1. buffer'[s] = buffer[s] /\ got'[s] = got[s]
      BY <1>0, <1>5 DEF Handle, Read, Leave, Submit, Answered, Dropped, TimedOut, Aborted, GetMessage, Starts, NeverStarts, CancelCut, ChunkWritten,
           Disconnect, StrayGets, CancelFound, CancelMissed, StreamTyped
    <2> QED BY <1>1, <1>2, <2>1 DEF Rests
  <1> QED BY <1>3, <1>4, <1>5

LEMMA StreamMoves ==
    ASSUME ApiInv, StreamTyped, [Next]_vars, NEW s \in Streams, StreamOf(s)
    PROVE  Rests(s) \/ Receives(s) \/ Fills(s) \/ Empties(s) \/ Clears(s)
  <1>1. CASE Close \/ UNCHANGED vars
    BY <1>1 DEF Close, CloseBegin, CloseStop, CloseScheduler, CloseRaises, vars, Rests, Left, Coming,
                schedulerVars, tableVars, closeVars, threadVars, httpVars
  <1>2. CASE Poll
    <2>1. buffer' = buffer /\ got' = got /\ dpc = "poll"
      BY <1>2 DEF Poll, tableVars, httpVars
    <2>2. batch = <<>>
      BY <2>1 DEF ApiInv, Typed, Routing
    <2>3. Coming(s) = {}
      BY <2>2, EmptySeq DEF Coming
    <2> QED BY <1>2, <2>1, <2>3, PollOf DEF Receives, Left
  <1> QED BY <1>1, <1>2, RouteMoves, HandleMoves DEF Next

LEMMA BoundedKeeps ==
    ASSUME ApiInv, StreamTyped, [Next]_vars, NEW s \in Streams, StreamOf(s), Bounded(s)
    PROVE  Bounded(s)'
  <1> DEFINE q == buffer[s]
             n == Len(q)
  <1>1. /\ s \in Requests /\ sent[s] \in Nat /\ got[s] \in Nat /\ q \in Seq(Message) /\ n \in Nat
        /\ Left(s) \in {0, 1} /\ Left(s)' \in {0, 1}
    BY StreamIds, LenProperties DEF ApiInv, Typed, StreamTyped, Left
  <1>2. Flowing(s)' => got[s] + n + Left(s) <= sent[s]
    <2>1. CASE phase[s] = "new"
      <3>1. sent[s] = 0 /\ got[s] = 0 /\ n = 0
        BY <2>1, EmptySeq DEF StreamOf
      <3>2. Left(s) = 0
        <4>1. \A i \in 1..Len(batch) : batch[i].req # s
          BY <2>1, StreamIds DEF ApiInv, InHand
        <4> QED BY <4>1 DEF Left, Coming
      <3> QED BY <3>1, <3>2
    <2> QED BY <2>1, FlowsOn DEF Bounded
  <1>3. got[s] <= sent[s] /\ \A i \in 1..n : q[i].kind = "chunk" => got[s] + i <= q[i].n /\ q[i].n <= sent[s]
    BY DEF Bounded
  <1>4. \A i \in 1..n : q[i] \in Message /\ q[i].n \in Nat
    <2>1. \A i \in 1..n : q[i] \in Message
      <3>1. q \in Seq(Message)
        BY <1>1
      <3> HIDE DEF q
      <3> QED BY ONLY <3>1, ElementOfSeq DEF n
    <2>2. \A m \in Message : m.n \in Nat
      BY DEF Message
    <2> HIDE DEF q, n
    <2> QED BY <2>1, <2>2
  <1> HIDE DEF q, n
  <1>5. CASE Rests(s)
    <2>1. got'[s] = got[s] /\ sent'[s] = sent[s] /\ buffer'[s] = q /\ Len(buffer'[s]) = n
      BY <1>5 DEF Rests, q, n
    <2>2. Flowing(s)' => got[s] + n + Left(s)' <= sent[s]
      BY <1>1, <1>2, <1>5 DEF Rests
    <2> QED BY <1>3, <2>1, <2>2 DEF Bounded
  <1>6. CASE Receives(s)
    <2>1. got'[s] = got[s] /\ Left(s) = 0 /\ sent'[s] = sent[s] + Left(s)' /\ buffer'[s] = q /\ Len(buffer'[s]) = n
      BY <1>6 DEF Receives, q, n
    <2>2. Flowing(s)' => got[s] + n + Left(s)' <= sent'[s]
      BY <1>1, <1>2, <2>1
    <2>3. got[s] <= sent'[s] /\ \A i \in 1..n : q[i].kind = "chunk" => got[s] + i <= q[i].n /\ q[i].n <= sent'[s]
      BY <1>1, <1>3, <1>4, <2>1
    <2> QED BY <2>1, <2>2, <2>3 DEF Bounded
  <1>7. CASE Fills(s)
    <2>1. /\ Flowing(s) /\ got'[s] = got[s] /\ sent'[s] = sent[s]
          /\ dpc \in Routing
      BY <1>7 DEF Fills, Flowing, Routing
    <2>2. Current \in Message
      BY <2>1, CurrentIs
    <2>3. /\ Len(buffer'[s]) = n + 1 /\ buffer'[s][n + 1] = Current
          /\ \A i \in 1..n : buffer'[s][i] = q[i]
      BY <1>1, <1>7, <2>2, AppendProperties DEF Fills, q, n
    <2>4. got[s] + n + Left(s) <= sent[s]
      BY <2>1 DEF Bounded, q, n
    <2>5. Current.kind = "chunk" => Current.n = sent[s] /\ got[s] + (n + 1) <= sent[s] /\ Left(s)' = 0
      BY <1>1, <1>7, <2>4 DEF Fills
    <2>6. ASSUME NEW i \in 1..(n + 1), buffer'[s][i].kind = "chunk"
          PROVE  got[s] + i <= buffer'[s][i].n /\ buffer'[s][i].n <= sent[s]
      <3>1. CASE i \in 1..n
        BY <1>3, <2>3, <2>6, <3>1
      <3>2. CASE i = n + 1
        BY <1>1, <2>3, <2>5, <2>6, <3>2
      <3> QED BY <1>1, <3>1, <3>2
    <2>7. Flowing(s)' => got[s] + (n + 1) + Left(s)' <= sent[s]
      BY <1>1, <1>7, <2>5 DEF Fills
    <2> QED BY <1>3, <2>1, <2>3, <2>6, <2>7 DEF Bounded
  <1>8. CASE Empties(s)
    <2>1. /\ q # <<>> /\ buffer'[s] = Tail(q) /\ sent'[s] = sent[s] /\ Left(s)' = Left(s)
          /\ got'[s] = got[s] \/ (got'[s] = got[s] + 1 /\ q[1].kind = "chunk")
      BY <1>8 DEF Empties, q
    <2>2. n >= 1 /\ Len(Tail(q)) = n - 1 /\ \A i \in 1..(n - 1) : Tail(q)[i] = q[i + 1]
      BY <1>1, <2>1, HeadTailProperties, EmptySeq DEF n
    <2>3. got'[s] <= sent[s]
      <3>1. 1 \in 1..n
        BY <1>1, <2>2
      <3>2. q[1].kind = "chunk" => got[s] + 1 <= q[1].n /\ q[1].n <= sent[s] /\ q[1].n \in Nat
        BY <1>3, <1>4, <3>1
      <3> QED BY <1>1, <1>3, <2>1, <3>2
    <2>4. ASSUME NEW i \in 1..(n - 1), Tail(q)[i].kind = "chunk"
          PROVE  got'[s] + i <= Tail(q)[i].n /\ Tail(q)[i].n <= sent[s]
      <3>1. i + 1 \in 1..n /\ Tail(q)[i] = q[i + 1]
        BY <1>1, <2>2
      <3>2. got[s] + (i + 1) <= q[i + 1].n /\ q[i + 1].n <= sent[s] /\ q[i + 1].n \in Nat
        BY <1>3, <1>4, <2>4, <3>1
      <3>3. got'[s] + i <= got[s] + (i + 1)
        BY <1>1, <2>1
      <3>4. got[s] \in Nat /\ got'[s] \in Nat /\ i \in Nat
        BY <1>1, <2>1, <2>4
      <3>5. got'[s] + i <= q[i + 1].n
        BY ONLY <3>2, <3>3, <3>4
      <3> QED BY <2>1, <3>1, <3>2, <3>5
    <2>5. Flowing(s)' => got'[s] + (n - 1) + Left(s)' <= sent[s]
      BY <1>1, <1>2, <2>1
    <2> QED BY <2>1, <2>2, <2>3, <2>4, <2>5 DEF Bounded
  <1>9. CASE Clears(s)
    <2>1. got'[s] = got[s] /\ sent'[s] = sent[s] /\ buffer'[s] = <<Ev(s, "error", 0)>> /\ ~Flowing(s)'
      BY <1>9 DEF Clears
    <2>2. Len(buffer'[s]) = 1 /\ \A i \in 1..1 : buffer'[s][i].kind # "chunk"
      BY <2>1 DEF Ev
    <2> QED BY <1>3, <2>1, <2>2 DEF Bounded
  <1> QED BY <1>5, <1>6, <1>7, <1>8, <1>9, StreamMoves

\* What the variables of the API's process can be, for any number of requests and
\* chunks: no client is given a chunk more than its stream has.
THEOREM ApiTypes == Spec => []ApiTypeOK
  <1> DEFINE AllBounded == \A s \in Streams : Bounded(s)
             Inv == ApiInv /\ StreamsInv /\ EventsTyped /\ RestTyped /\ AllBounded
  <1>1. Init => Inv
    <2> SUFFICES ASSUME Init PROVE EventsTyped /\ RestTyped /\ AllBounded
      BY InitApi, InitStreams
    <2>1. EventsTyped
      BY EmptySeq DEF Init, EventsTyped
    <2>2. RestTyped
      BY DEF Init, RestTyped, OneShots, Scheduler!Init
    <2>3. ASSUME NEW s \in Streams PROVE Bounded(s)
      BY StreamIds, EmptySeq DEF Init, Bounded, Flowing
    <2> QED BY <2>1, <2>2, <2>3
  <1>2. Inv /\ [Next]_vars => Inv'
    <2> SUFFICES ASSUME Inv, [Next]_vars PROVE Inv'
      OBVIOUS
    <2>1. StreamTyped /\ \A s \in Streams : StreamOf(s)
      BY DEF StreamsInv
    <2>2. AllBounded'
      BY <2>1, BoundedKeeps
    <2> QED BY <2>1, <2>2, StepApi, StepStreams, EventsKeep, RestKeeps
  <1>3. Inv => ApiTypeOK
    <2> SUFFICES ASSUME Inv PROVE ApiTypeOK
      OBVIOUS
    <2>1. got \in [Requests -> 0..MaxChunks]
      <3> SUFFICES ASSUME NEW r \in Requests PROVE got[r] \in 0..MaxChunks
        BY DEF StreamsInv, StreamTyped
      <3>1. CASE r \in Streams
        <4>1. got[r] <= sent[r] /\ got[r] \in Nat /\ sent[r] \in 0..MaxChunks
          BY <3>1 DEF Bounded, EventsTyped, StreamsInv, StreamTyped
        <4> QED BY <4>1
      <3>2. CASE r \in OneShots
        BY <3>2 DEF RestTyped
      <3> QED BY <3>1, <3>2 DEF OneShots
    <2> QED BY <2>1 DEF ApiTypeOK, ApiInv, Typed, FutureStates, HandlerStates, Routing, StreamsInv, StreamTyped, Outcomes,
                        EventsTyped, RestTyped
  <1> QED BY <1>1, <1>2, <1>3, PTL DEF Spec

=============================================================================
