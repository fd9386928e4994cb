---------------------------- MODULE PlacesProofs ----------------------------
(***************************************************************************)
(* Every request id is in at most one place: queued, served, about to be   *)
(* answered or answered. It moves through them in one direction only, so   *)
(* that the scheduler implements RequestLifecycle; and because a request   *)
(* has one place, the numbers of its stream stay consecutive to the caller.*)
(* A dying child takes two ids out of their place at most.                 *)
(***************************************************************************)
EXTENDS ChannelProofs

USE ChannelAssumption, SchedulerAssumption

---------------------------------------------------------------------------
\* What each operation on the queue and on the events does to the places

LEMMA EventsForEnds ==
    ASSUME NEW q \in Seq(Requests), NEW code \in Codes
    PROVE  /\ \A r \in Requests : Ends(r, EventsFor(q, code)) <=> InQueue(r, q)
           /\ QueuedOnce(q) => EndsOnce(EventsFor(q, code))
  <1> DEFINE e == EventsFor(q, code)
  <1>1. /\ Len(e) = Len(q) /\ Len(q) \in Nat
        /\ \A i \in 1..Len(q) : e[i].req = q[i] /\ e[i].what = code
    BY EventsForType, LenProperties DEF EventsFor, Msg
  <1>2. code # "chunk"
    BY DEF Codes, ChildCodes
  <1> HIDE DEF e
  <1>3. \A r \in Requests : Ends(r, e) <=> InQueue(r, q)
    BY <1>1, <1>2 DEF Ends, InQueue, Terminal
  <1>4. QueuedOnce(q) => EndsOnce(e)
    BY <1>1 DEF QueuedOnce, EndsOnce
  <1> QED BY <1>3, <1>4 DEF e

LEMMA ConcatEnds ==
    ASSUME NEW a \in Seq(Event), NEW b \in Seq(Event)
    PROVE  /\ a \o b \in Seq(Event)
           /\ \A r \in Requests : Ends(r, a \o b) <=> Ends(r, a) \/ Ends(r, b)
           /\ EndsOnce(a) /\ EndsOnce(b) /\ (\A r \in Requests : ~(Ends(r, a) /\ Ends(r, b)))
              => EndsOnce(a \o b)
  <1> DEFINE c == a \o b
             m == Len(a)
             n == Len(b)
  <1>1. /\ c \in Seq(Event) /\ Len(c) = m + n /\ m \in Nat /\ n \in Nat
        /\ \A i \in 1..(m + n) : c[i] = IF i <= m THEN a[i] ELSE b[i - m]
    BY ConcatProperties, LenProperties
  <1>2. /\ \A i \in 1..m : i \in 1..Len(c) /\ c[i] = a[i]
        /\ \A i \in 1..n : m + i \in 1..Len(c) /\ c[m + i] = b[i]
    BY <1>1
  <1>3. \A i \in 1..Len(c) : (i \in 1..m /\ c[i] = a[i]) \/ (i - m \in 1..n /\ c[i] = b[i - m])
    BY <1>1
  <1>4. \A i \in 1..Len(c) : c[i].req \in OptRequest
    <2> TAKE i \in 1..Len(c)
    <2>1. c[i] \in Event
      BY <1>1, ElementOfSeq
    <2> QED BY <2>1 DEF Event
  <1> HIDE DEF c, m, n
  <1>5. \A r \in Requests : Ends(r, c) <=> Ends(r, a) \/ Ends(r, b)
    BY <1>2, <1>3 DEF Ends, m, n
  <1>6. ASSUME EndsOnce(a), EndsOnce(b), \A r \in Requests : ~(Ends(r, a) /\ Ends(r, b)),
               NEW i \in 1..Len(c), NEW j \in 1..Len(c), Terminal(c[i]), Terminal(c[j]),
               c[i].req = c[j].req, c[i].req # NoReq
        PROVE  i = j
    <2>1. c[i].req \in Requests
      BY <1>4, <1>6 DEF OptRequest
    <2>2. CASE i \in 1..m /\ c[i] = a[i] /\ j \in 1..m /\ c[j] = a[j]
      BY <1>6, <2>2 DEF EndsOnce, m
    <2>3. CASE i - m \in 1..n /\ c[i] = b[i - m] /\ j - m \in 1..n /\ c[j] = b[j - m]
      <3>1. i - m = j - m
        BY <1>6, <2>3 DEF EndsOnce, n
      <3>2. i \in Int /\ j \in Int /\ m \in Int
        BY <1>1
      <3> QED BY <3>1, <3>2
    <2>4. CASE i \in 1..m /\ c[i] = a[i] /\ j - m \in 1..n /\ c[j] = b[j - m]
      BY <1>6, <2>1, <2>4 DEF Ends, m, n
    <2>5. CASE i - m \in 1..n /\ c[i] = b[i - m] /\ j \in 1..m /\ c[j] = a[j]
      BY <1>6, <2>1, <2>5 DEF Ends, m, n
    <2> QED BY <1>3, <2>2, <2>3, <2>4, <2>5
  <1> QED BY <1>1, <1>5, <1>6 DEF c, EndsOnce

LEMMA AppendEnds ==
    ASSUME NEW a \in Seq(Event), NEW e \in Event
    PROVE  /\ Append(a, e) \in Seq(Event)
           /\ \A r \in Requests : Ends(r, Append(a, e)) <=> Ends(r, a) \/ (e.req = r /\ Terminal(e))
           /\ EndsOnce(a) /\ (Terminal(e) /\ e.req # NoReq => ~Ends(e.req, a))
              => EndsOnce(Append(a, e))
  <1> DEFINE d == <<e>>
  <1>1. d \in Seq(Event) /\ Append(a, e) = a \o d
    BY AppendIsConcat
  <1>2. \A r \in Requests : Ends(r, d) <=> e.req = r /\ Terminal(e)
    BY DEF Ends
  <1>3. EndsOnce(d)
    BY DEF EndsOnce
  <1> HIDE DEF d
  <1>4. \A r \in Requests : Ends(r, a \o d) <=> Ends(r, a) \/ Ends(r, d)
    BY <1>1, ConcatEnds
  <1>5. ASSUME EndsOnce(a), Terminal(e) /\ e.req # NoReq => ~Ends(e.req, a)
        PROVE  EndsOnce(a \o d)
    <2>1. \A r \in Requests : ~(Ends(r, a) /\ Ends(r, d))
      BY <1>2, <1>5
    <2> QED BY <1>1, <1>3, <1>5, <2>1, ConcatEnds
  <1> QED BY <1>1, <1>2, <1>4, <1>5, AppendProperties

LEMMA AppendQueue ==
    ASSUME NEW q \in Seq(Requests), NEW x \in Requests
    PROVE  /\ \A r \in Requests : InQueue(r, Append(q, x)) <=> InQueue(r, q) \/ r = x
           /\ QueuedOnce(q) /\ ~InQueue(x, q) => QueuedOnce(Append(q, x))
  <1>1. /\ Len(Append(q, x)) = Len(q) + 1 /\ Len(q) \in Nat
        /\ \A i \in 1..Len(q) : Append(q, x)[i] = q[i]
        /\ Append(q, x)[Len(q) + 1] = x
    BY AppendProperties, LenProperties
  <1>2. \A i \in 1..Len(Append(q, x)) : i \in 1..Len(q) \/ i = Len(q) + 1
    BY <1>1
  <1>3. \A r \in Requests : InQueue(r, Append(q, x)) <=> InQueue(r, q) \/ r = x
    BY <1>1, <1>2 DEF InQueue
  <1>4. QueuedOnce(q) /\ ~InQueue(x, q) => QueuedOnce(Append(q, x))
    BY <1>1, <1>2 DEF InQueue, QueuedOnce
  <1> QED BY <1>3, <1>4

LEMMA RemoveAtQueue ==
    ASSUME NEW q \in Seq(Requests), QueuedOnce(q), NEW i \in 1..Len(q)
    PROVE  /\ \A r \in Requests : InQueue(r, RemoveAt(q, i)) <=> InQueue(r, q) /\ r # q[i]
           /\ QueuedOnce(RemoveAt(q, i))
  <1> DEFINE s == RemoveAt(q, i)
             n == Len(q)
  <1>1. /\ n \in Nat /\ i \in 1..n /\ Len(s) = n - 1
        /\ \A j \in 1..(n - 1) : s[j] = IF j < i THEN q[j] ELSE q[j + 1]
    BY RemoveAtProperties, LenProperties
  <1> HIDE DEF s, n
  <1>2. \A j \in 1..Len(s) : \E k \in 1..n \ {i} : s[j] = q[k] /\ k = IF j < i THEN j ELSE j + 1
    BY <1>1
  <1>3. \A k \in 1..n \ {i} : \E j \in 1..Len(s) : s[j] = q[k]
    <2> TAKE k \in 1..n \ {i}
    <2>1. CASE k < i
      <3>1. k \in 1..Len(s) /\ s[k] = q[k]
        BY <1>1, <2>1
      <3> QED BY <3>1
    <2>2. CASE ~(k < i)
      <3>1. k - 1 \in 1..Len(s) /\ s[k - 1] = q[k]
        BY <1>1, <2>2
      <3> QED BY <3>1
    <2> QED BY <2>1, <2>2
  <1>4. \A r \in Requests : InQueue(r, s) <=> InQueue(r, q) /\ r # q[i]
    <2> TAKE r \in Requests
    <2>1. ASSUME InQueue(r, s) PROVE InQueue(r, q) /\ r # q[i]
      <3>1. PICK j \in 1..Len(s) : s[j] = r
        BY <2>1 DEF InQueue
      <3>2. PICK k \in 1..n \ {i} : q[k] = r
        BY <1>2, <3>1
      <3> QED BY <1>1, <3>2 DEF InQueue, QueuedOnce, n
    <2>2. ASSUME InQueue(r, q), r # q[i] PROVE InQueue(r, s)
      <3>1. PICK k \in 1..n \ {i} : q[k] = r
        BY <2>2 DEF InQueue, n
      <3> QED BY <1>3, <3>1 DEF InQueue
    <2> QED BY <2>1, <2>2
  <1>5. QueuedOnce(s)
    BY <1>1, <1>2 DEF QueuedOnce, n
  <1> QED BY <1>4, <1>5 DEF s

\* Cutting the queue after its k oldest.
LEMMA CutQueue ==
    ASSUME NEW q \in Seq(Requests), QueuedOnce(q), NEW k, CanExpire(q, k)
    PROVE  /\ Younger(q, k) \in Seq(Requests) /\ TimedOut(q, k) \in Seq(Event)
           /\ QueuedOnce(Younger(q, k)) /\ EndsOnce(TimedOut(q, k))
           /\ \A r \in Requests :
                /\ InQueue(r, q) <=> InQueue(r, Younger(q, k)) \/ Ends(r, TimedOut(q, k))
                /\ ~(InQueue(r, Younger(q, k)) /\ Ends(r, TimedOut(q, k)))
  <1> DEFINE s == SubSeq(q, 1, k)
             t == SubSeq(q, k + 1, Len(q))
             n == Len(q)
  <1>1. n \in Nat /\ k \in 0..n
    BY LenProperties DEF CanExpire
  <1>2. /\ s \in Seq(Requests) /\ Len(s) = k
        /\ \A i \in 1..k : s[i] = q[i]
    BY <1>1, SubSeqProperties
  <1>3. /\ t \in Seq(Requests) /\ Len(t) = n - k
        /\ \A i \in 1..(n - k) : t[i] = q[k + i]
    BY <1>1, SubSeqProperties
  <1> HIDE DEF s, t, n
  <1>4. \A i \in 1..n : (i \in 1..Len(s) /\ q[i] = s[i]) \/ (i - k \in 1..Len(t) /\ q[i] = t[i - k])
    BY <1>1, <1>2, <1>3
  <1>40. /\ \A i \in 1..Len(s) : i \in 1..n /\ i <= k /\ s[i] = q[i]
        /\ \A i \in 1..Len(t) : k + i \in 1..n /\ ~(k + i <= k) /\ t[i] = q[k + i]
    BY <1>1, <1>2, <1>3
  <1>5. \A r \in Requests : InQueue(r, q) <=> InQueue(r, s) \/ InQueue(r, t)
    BY <1>4, <1>40 DEF InQueue, n
  <1>6. ASSUME NEW r \in Requests, InQueue(r, s), InQueue(r, t) PROVE FALSE
    <2>1. PICK i \in 1..Len(s) : s[i] = r
      BY <1>6 DEF InQueue
    <2>2. PICK j \in 1..Len(t) : t[j] = r
      BY <1>6 DEF InQueue
    <2>3. i = k + j
      BY <1>40, <2>1, <2>2 DEF QueuedOnce, n
    <2> QED BY <1>40, <2>3
  <1>7. QueuedOnce(s) /\ QueuedOnce(t)
    <2>1. QueuedOnce(s)
      BY <1>40 DEF QueuedOnce, n
    <2>2. ASSUME NEW i \in 1..Len(t), NEW j \in 1..Len(t), t[i] = t[j] PROVE i = j
      <3>1. k + i = k + j
        BY <1>40, <2>2 DEF QueuedOnce, n
      <3> QED BY <1>1, <1>3, <3>1
    <2> QED BY <2>1, <2>2 DEF QueuedOnce
  <1>8. "queue_timeout" \in Codes
    BY DEF Codes
  <1> QED BY <1>2, <1>3, <1>5, <1>6, <1>7, <1>8, EventsForEnds, EventsForType
          DEF Younger, TimedOut, s, t

LEMMA TailQueue ==
    ASSUME NEW q \in Seq(Requests), QueuedOnce(q), q # <<>>
    PROVE  /\ Head(q) \in Requests /\ InQueue(Head(q), q)
           /\ QueuedOnce(Tail(q))
           /\ \A r \in Requests : InQueue(r, Tail(q)) <=> InQueue(r, q) /\ r # Head(q)
  <1>1. /\ Head(q) \in Requests /\ Tail(q) \in Seq(Requests) /\ Len(Tail(q)) = Len(q) - 1
        /\ \A i \in 1..(Len(q) - 1) : Tail(q)[i] = q[i + 1]
        /\ Len(q) \in Nat /\ 1 \in 1..Len(q) /\ Head(q) = q[1]
    BY HeadTailProperties, LenProperties, EmptySeq
  <1>2. \A i \in 1..Len(q) : i = 1 \/ (i - 1 \in 1..(Len(q) - 1) /\ q[i] = Tail(q)[i - 1])
    BY <1>1
  <1>3. \A r \in Requests : InQueue(r, Tail(q)) <=> InQueue(r, q) /\ r # Head(q)
    BY <1>1, <1>2 DEF InQueue, QueuedOnce
  <1>4. QueuedOnce(Tail(q))
    BY <1>1 DEF QueuedOnce
  <1> QED BY <1>1, <1>3, <1>4 DEF InQueue

LEMMA EmptyPlaces == QueuedOnce(<<>>) /\ EndsOnce(<<>>) /\ \A r : ~InQueue(r, <<>>) /\ ~Ends(r, <<>>)
  BY LenProperties DEF QueuedOnce, EndsOnce, InQueue, Ends

\* _fail_pending_without_healthy_workers keeps each id queued or ends it.
LEMMA KeptQueue ==
    ASSUME NEW q \in Seq(Requests), QueuedOnce(q), NEW healthy
    PROVE  /\ Kept(q, healthy) \in Seq(Requests) /\ Failed(q, healthy) \in Seq(Event)
           /\ QueuedOnce(Kept(q, healthy)) /\ EndsOnce(Failed(q, healthy))
           /\ \A r \in Requests :
                /\ InQueue(r, q) <=> InQueue(r, Kept(q, healthy)) \/ Ends(r, Failed(q, healthy))
                /\ ~(InQueue(r, Kept(q, healthy)) /\ Ends(r, Failed(q, healthy)))
  <1>1. "no_healthy_worker" \in Codes /\ <<>> \in Seq(Requests)
    BY EmptySeq DEF Codes
  <1>2. CASE healthy = {}
    BY <1>1, <1>2, EmptyPlaces, EventsForEnds, KeptType DEF Kept, Failed
  <1>3. CASE healthy # {}
    BY <1>1, <1>3, EmptyPlaces, EventsForEnds, KeptType DEF Kept, Failed
  <1> QED BY <1>2, <1>3

LEMMA HandOutAnswers ==
    ASSUME NEW evs \in Seq(Event), HandOut(evs)
    PROVE  \A r \in Requests : (Answered(r))' <=> Answered(r) \/ Ends(r, evs)
  <1> TAKE r \in Requests
  <1> DEFINE T(i) == evs[i].req = r /\ Terminal(evs[i])
             j == CHOOSE i \in 1..Len(evs) : T(i)
  <1>1. CASE Ends(r, evs)
    <2>1. j \in 1..Len(evs) /\ T(j)
      BY <1>1 DEF Ends
    <2>5. evs[j] \in Event
      BY <2>1
    <2>2. evs[j].what \in Codes
      BY <2>1, <2>5 DEF Terminal, Event
    <2>3. answer'[r] = evs[j].what
      BY <1>1 DEF HandOut
    <2>4. answer'[r] # "none"
      BY <2>2, <2>3 DEF Codes, ChildCodes
    <2> QED BY <1>1, <2>4 DEF Answered
  <1>2. CASE ~Ends(r, evs)
    BY <1>2 DEF HandOut, Answered
  <1> QED BY <1>1, <1>2

LEMMA SlotFreed ==
    ASSUME TypeOK, ServedOnce, NEW w \in Workers, active' = [active EXCEPT ![w] = NoReq]
    PROVE  /\ ServedOnce'
           /\ \A r \in Requests : (Serving(r))' <=> Serving(r) /\ r # active[w]
  BY DEF TypeOK, ServedOnce, Serving

LEMMA SlotFilled ==
    ASSUME TypeOK, ServedOnce, NEW w \in Workers, active[w] = NoReq,
           NEW x \in Requests, ~Serving(x), active' = [active EXCEPT ![w] = x]
    PROVE  /\ ServedOnce'
           /\ \A r \in Requests : (Serving(r))' <=> Serving(r) \/ r = x
  BY DEF TypeOK, ServedOnce, Serving

LEMMA PlacesOf ==
    \A r \in Requests :
        /\ pending' = pending => ((Queued(r))' <=> Queued(r))
        /\ active' = active => ((Serving(r))' <=> Serving(r))
        /\ events' = events => ((Answering(r))' <=> Answering(r))
        /\ answer' = answer => ((Answered(r))' <=> Answered(r))
        /\ Queued(r) <=> InQueue(r, pending)
        /\ (Queued(r))' <=> InQueue(r, pending')
        /\ Answering(r) <=> Ends(r, events)
        /\ (Answering(r))' <=> Ends(r, events')
  BY DEF Queued, InQueue, Serving, Answering, Ends, Answered, Terminal

\* A step that leaves every id where it is.
LEMMA PlacesUnchanged ==
    ASSUME OncePlaced, UNCHANGED <<pending, active, submitted, events, answer>>
    PROVE  OncePlaced'
  BY PlacesOf DEF OncePlaced, QueuedOnce, ServedOnce, EndsOnce, Terminal

\* cancel() answers its caller at once.
LEMMA CancelAnswers ==
    ASSUME TypeOK, NEW r \in Requests, answer' = [answer EXCEPT ![r] = "cancelled"]
    PROVE  \A q \in Requests : (Answered(q))' <=> Answered(q) \/ q = r
  BY DEF TypeOK, Answered

\* A ready worker serves nobody, a busy one only what its messages name.
LEMMA IdleWorker ==
    ASSUME CoupledInv, NEW w \in Workers, wstate[w] = "ready"
    PROVE  active[w] = NoReq
  BY DEF CoupledInv, Coupled

LEMMA InboxNames ==
    ASSUME TypeOK, CoupledInv, QueuesInv, CanReceive
    PROVE  /\ Inbox \in Event /\ ~IsMismatch(cursor, Inbox)
           /\ Inbox.req # NoReq => Inbox.req = active[cursor]
  <1>1. ~IsMismatch(cursor, Inbox)
    BY NoMismatch DEF TypeOK, CanReceive, Inbox
  <1>2. results[cursor] \in Seq(Message) /\ results[cursor] # <<>>
    BY DEF TypeOK, ChannelTypeOK, CanReceive
  <1>3. Inbox \in Event
    BY <1>2, MessagesAreEvents, HeadTailProperties DEF Inbox
  <1>4. wactive[cursor] = active[cursor] /\ active[cursor] # NoReq
    BY DEF CoupledInv, Coupled, CanReceive
  <1> QED BY <1>1, <1>3, <1>4 DEF IsMismatch

---------------------------------------------------------------------------
\* The places before and after a step, one conjunct at a time.
Exclusive(r) ==
    /\ Queued(r) => ~Serving(r) /\ ~Answering(r) /\ ~Answered(r)
    /\ Serving(r) => ~Answering(r) /\ ~Answered(r)
    /\ Answering(r) => ~Answered(r)
    /\ Queued(r) \/ Serving(r) \/ Answering(r) \/ Answered(r) => r \in submitted

\* The request of worker w ends with the event e, or e is nobody's last event.
LEMMA EndedByEvent ==
    ASSUME TypeOK, OncePlaced, NEW w \in Workers, NEW e \in Event,
           Terminal(e) => e.req = active[w],
           active' = [active EXCEPT ![w] = NoReq] \/ (~Terminal(e) /\ active' = active),
           events' = Append(events, e), UNCHANGED <<pending, submitted, answer>>
    PROVE  OncePlaced'
  <1>a. events \in Seq(Event) /\ active \in [Workers -> OptRequest]
    BY DEF TypeOK
  <1>b. /\ QueuedOnce(pending) /\ ServedOnce /\ EndsOnce(events)
        /\ \A r \in Requests : Exclusive(r)
    BY DEF OncePlaced, Exclusive
  <1>1. Terminal(e) /\ e.req # NoReq => Serving(e.req) /\ e.req \in Requests
    BY <1>a DEF Serving, OptRequest
  <1>2. /\ EndsOnce(events')
        /\ \A r \in Requests : (Answering(r))' <=> Answering(r) \/ (e.req = r /\ Terminal(e))
    <2>1. Terminal(e) /\ e.req # NoReq => ~Ends(e.req, events)
      BY <1>b, <1>1, PlacesOf DEF Exclusive
    <2> QED BY <1>a, <1>b, <2>1, AppendEnds, PlacesOf
  <1>3. /\ ServedOnce'
        /\ \A r \in Requests : /\ (Serving(r))' => Serving(r)
                               /\ e.req = r /\ Terminal(e) => ~(Serving(r))'
    <2>1. CASE active' = [active EXCEPT ![w] = NoReq]
      BY <1>b, <2>1, SlotFreed
    <2>2. CASE ~Terminal(e) /\ active' = active
      BY <1>b, <2>2, PlacesOf DEF ServedOnce
    <2> QED BY <2>1, <2>2
  <1>4. \A r \in Requests : Exclusive(r)'
    BY <1>b, <1>1, <1>2, <1>3, PlacesOf DEF Exclusive
  <1> QED BY <1>b, <1>2, <1>3, <1>4 DEF OncePlaced, Exclusive, QueuedOnce

LEMMA StepPlaces == TypeOK /\ CoupledInv /\ QueuesInv /\ OncePlaced /\ [Next]_vars => OncePlaced'
  <1> SUFFICES ASSUME TypeOK, CoupledInv, QueuesInv, OncePlaced, [Next]_vars PROVE OncePlaced'
    OBVIOUS
  <1>a. /\ pending \in Seq(Requests) /\ events \in Seq(Event)
        /\ active \in [Workers -> OptRequest] /\ submitted \subseteq Requests
    BY DEF TypeOK
  <1>b. /\ QueuedOnce(pending) /\ ServedOnce /\ EndsOnce(events)
        /\ \A r \in Requests : Exclusive(r)
    BY DEF OncePlaced, Exclusive
  <1>c. QueuedOnce(pending') /\ ServedOnce' /\ EndsOnce(events') /\ (\A r \in Requests : Exclusive(r)')
        => OncePlaced'
    BY DEF OncePlaced, Exclusive, QueuedOnce, EndsOnce, Terminal
  <1>1. ASSUME NEW r \in Requests, SubmitDispatch(r) PROVE OncePlaced'
    <2>1. PICK w \in Workers : wstate[w] = "ready" /\ active' = [active EXCEPT ![w] = r]
      BY <1>1 DEF SubmitDispatch, IsFirstReady, Ready
    <2>2. r \notin submitted /\ submitted' = submitted \cup {r} /\ UNCHANGED <<pending, events, answer>>
      BY <1>1 DEF SubmitDispatch, Admissible, historyVars
    <2>3. ServedOnce' /\ \A q \in Requests : (Serving(q))' <=> Serving(q) \/ q = r
      BY <1>b, <2>1, <2>2, IdleWorker, SlotFilled DEF Exclusive
    <2>4. \A q \in Requests : Exclusive(q)'
      BY <1>b, <2>2, <2>3, PlacesOf DEF Exclusive
    <2> QED BY <1>b, <1>c, <2>2, <2>3, <2>4
  <1>2. ASSUME NEW r \in Requests, SubmitToDead(r) PROVE OncePlaced'
    BY <1>2, PlacesUnchanged DEF SubmitToDead, historyVars
  <1>3. ASSUME NEW r \in Requests, SubmitQueue(r) PROVE OncePlaced'
    <2>1. /\ r \notin submitted /\ submitted' = submitted \cup {r}
          /\ pending' = Append(pending, r) /\ UNCHANGED <<active, events, answer>>
      BY <1>3 DEF SubmitQueue, Admissible, historyVars
    <2>2. /\ QueuedOnce(pending')
          /\ \A q \in Requests : (Queued(q))' <=> Queued(q) \/ q = r
      BY <1>a, <1>b, <2>1, AppendQueue, PlacesOf DEF Exclusive
    <2>3. \A q \in Requests : Exclusive(q)'
      BY <1>b, <2>1, <2>2, PlacesOf DEF Exclusive
    <2>4. ServedOnce'
      BY <1>b, <2>1 DEF ServedOnce
    <2> QED BY <1>b, <1>c, <2>1, <2>2, <2>3, <2>4
  <1>4. ASSUME NEW r \in Requests, CancelPending(r) PROVE OncePlaced'
    <2>1. PICK i \in 1..Len(pending) : pending[i] = r /\ pending' = RemoveAt(pending, i)
      BY <1>4 DEF CancelPending
    <2>2. /\ answer' = [answer EXCEPT ![r] = "cancelled"]
          /\ UNCHANGED <<active, submitted, events>>
      BY <1>4 DEF CancelPending
    <2>3. /\ QueuedOnce(pending') /\ Queued(r)
          /\ \A q \in Requests : (Queued(q))' <=> Queued(q) /\ q # r
      BY <1>a, <1>b, <2>1, RemoveAtQueue, PlacesOf DEF Queued, InQueue
    <2>4. \A q \in Requests : Exclusive(q)'
      BY <1>b, <2>2, <2>3, CancelAnswers, PlacesOf DEF Exclusive
    <2>5. ServedOnce'
      BY <1>b, <2>2 DEF ServedOnce
    <2> QED BY <1>b, <1>c, <2>2, <2>3, <2>4, <2>5
  <1>5. ASSUME NEW r \in Requests, CancelActive(r) PROVE OncePlaced'
    <2>1. PICK w \in Workers :
            /\ active[w] = r
            /\ active' = [active EXCEPT ![w] = NoReq]
            /\ pending' = Kept(pending, Healthy \ {w})
            /\ events' = events \o Failed(pending, Healthy \ {w})
      BY <1>5 DEF CancelActive
    <2> DEFINE healthy == Healthy \ {w}
               f == Failed(pending, healthy)
    <2>2. answer' = [answer EXCEPT ![r] = "cancelled"] /\ submitted' = submitted
      BY <1>5 DEF CancelActive
    <2>3. /\ QueuedOnce(pending') /\ f \in Seq(Event) /\ EndsOnce(f)
          /\ \A q \in Requests : /\ Queued(q) <=> (Queued(q))' \/ Ends(q, f)
                                 /\ ~((Queued(q))' /\ Ends(q, f))
      BY <1>a, <1>b, <2>1, KeptQueue, PlacesOf
    <2>4. ServedOnce' /\ Serving(r) /\ \A q \in Requests : (Serving(q))' <=> Serving(q) /\ q # r
      BY <1>b, <2>1, SlotFreed DEF Serving
    <2> HIDE DEF f
    <2>5. /\ EndsOnce(events')
          /\ \A q \in Requests : (Answering(q))' <=> Answering(q) \/ Ends(q, f)
      <3>1. \A q \in Requests : ~(Ends(q, events) /\ Ends(q, f))
        BY <1>b, <2>3, PlacesOf DEF Exclusive
      <3> QED BY <1>a, <1>b, <2>1, <2>3, <3>1, ConcatEnds, PlacesOf DEF f
    <2>6. \A q \in Requests : Exclusive(q)'
      BY <1>b, <2>2, <2>3, <2>4, <2>5, CancelAnswers DEF Exclusive
    <2> QED BY <1>c, <2>3, <2>4, <2>5, <2>6
  <1>6. CASE PollBegin \/ WithinLimit \/ ReceiveNothing \/ ReceiveTimeout \/ ReceiveRefused
             \/ DispatchDone \/ CloseWorker \/ CloseAborted \/ (\E w \in Workers : Child(w))
             \/ UNCHANGED vars
    <2>1. UNCHANGED <<pending, active, submitted, events, answer>>
      BY <1>6 DEF PollBegin, WithinLimit, ReceiveNothing, ReceiveTimeout, ReceiveRefused,
                  DispatchDone, CloseWorker, CloseAborted, Child, vars, historyVars
    <2> QED BY <2>1, PlacesUnchanged
  <1>7. CASE ExpireActive
    <2> DEFINE e == Msg(active[cursor], "inference_timeout", 0)
    <2>1. /\ cursor \in Workers /\ events' = Append(events, e)
          /\ active' = [active EXCEPT ![cursor] = NoReq]
          /\ UNCHANGED <<pending, submitted, answer>>
      BY <1>7 DEF ExpireActive, historyVars
    <2>2. e \in Event /\ e.req = active[cursor]
      BY <2>1, MsgType DEF TypeOK, Codes, Msg
    <2> QED BY <2>1, <2>2, EndedByEvent
  <1>8. CASE ReceiveExited
    <2> DEFINE e == Msg(active[cursor], "worker_exited", 0)
    <2>1. /\ cursor \in Workers /\ events' = Append(events, e)
          /\ active' = [active EXCEPT ![cursor] = NoReq]
          /\ UNCHANGED <<pending, submitted, answer>>
      BY <1>8 DEF ReceiveExited, historyVars
    <2>2. e \in Event /\ e.req = active[cursor]
      BY <2>1, MsgType DEF TypeOK, Codes, Msg
    <2> QED BY <2>1, <2>2, EndedByEvent
  <1>9. CASE ReceiveOther
    <2>1. /\ CanReceive /\ cursor \in Workers
          /\ UNCHANGED <<pending, submitted, answer>>
      BY <1>9 DEF ReceiveOther, CanReceive, historyVars
    <2>2. Inbox \in Event /\ ~IsMismatch(cursor, Inbox)
      BY <2>1, InboxNames
    <2>3. ~Terminal(Inbox) /\ active' = active /\ events' = Append(events, Inbox)
      BY <1>9, <2>2 DEF ReceiveOther
    <2> QED BY <2>1, <2>2, <2>3, EndedByEvent
  <1>10. CASE ReceiveTerminal
    <2>1. /\ CanReceive /\ cursor \in Workers /\ Terminal(Inbox)
          /\ active' = [active EXCEPT ![cursor] = NoReq]
          /\ UNCHANGED <<submitted, answer>>
      BY <1>10 DEF ReceiveTerminal, CanReceive, historyVars
    <2>2. PICK k \in 0..MaxPending :
            /\ CanExpire(pending, k)
            /\ pending' = Younger(pending, k)
            /\ events' = Append(events, Inbox) \o TimedOut(pending, k)
      BY <1>10 DEF ReceiveTerminal
    <2> DEFINE a == Append(events, Inbox)
               t == TimedOut(pending, k)
    <2>3. /\ Inbox \in Event
          /\ Inbox.req = NoReq \/ Inbox.req = active[cursor]
      BY <2>1, InboxNames
    <2>4. /\ a \in Seq(Event) /\ EndsOnce(a)
          /\ \A r \in Requests : Ends(r, a) <=> Answering(r) \/ Inbox.req = r
      <3>1. Inbox.req # NoReq => Inbox.req \in Requests /\ Serving(Inbox.req)
        BY <2>1, <2>3 DEF Serving, TypeOK, OptRequest
      <3>2. Inbox.req # NoReq => ~Ends(Inbox.req, events)
        BY <1>b, <3>1, PlacesOf DEF Exclusive
      <3> QED BY <1>a, <1>b, <2>1, <2>3, <3>2, AppendEnds, PlacesOf
    <2>5. /\ QueuedOnce(pending') /\ t \in Seq(Event) /\ EndsOnce(t)
          /\ \A r \in Requests : /\ Queued(r) <=> (Queued(r))' \/ Ends(r, t)
                                 /\ ~((Queued(r))' /\ Ends(r, t))
      BY <1>a, <1>b, <2>2, CutQueue, PlacesOf
    <2>6. ServedOnce' /\ \A r \in Requests : (Serving(r))' <=> Serving(r) /\ r # active[cursor]
      BY <1>b, <2>1, SlotFreed
    <2>7. \A r \in Requests : Inbox.req = r => Serving(r) /\ r = active[cursor]
      BY <2>1, <2>3 DEF Serving
    <2> HIDE DEF a, t
    <2>8. /\ EndsOnce(events')
          /\ \A r \in Requests : (Answering(r))' <=> Answering(r) \/ Inbox.req = r \/ Ends(r, t)
      <3>1. \A r \in Requests : ~(Ends(r, a) /\ Ends(r, t))
        BY <1>b, <2>4, <2>5, <2>7 DEF Exclusive
      <3>2. events' = a \o t
        BY <2>2 DEF a, t
      <3> QED BY <2>4, <2>5, <3>1, <3>2, ConcatEnds, PlacesOf
    <2>9. \A r \in Requests : Exclusive(r)'
      BY <1>b, <2>1, <2>5, <2>6, <2>7, <2>8, PlacesOf DEF Exclusive
    <2> QED BY <1>c, <2>5, <2>6, <2>8, <2>9
  <1>11. CASE DispatchNext
    <2> DEFINE r == Head(pending)
    <2>1. PICK w \in Workers : wstate[w] = "ready" /\ active' = [active EXCEPT ![w] = r]
      BY <1>11 DEF DispatchNext, IsFirstReady, Ready
    <2>2. /\ pending # <<>> /\ pending' = Tail(pending)
          /\ UNCHANGED <<submitted, events, answer>>
      BY <1>11 DEF DispatchNext, Dispatchable, historyVars
    <2>3. /\ r \in Requests /\ Queued(r) /\ QueuedOnce(pending')
          /\ \A q \in Requests : (Queued(q))' <=> Queued(q) /\ q # r
      BY <1>a, <1>b, <2>2, TailQueue, PlacesOf
    <2> HIDE DEF r
    <2>4. ServedOnce' /\ \A q \in Requests : (Serving(q))' <=> Serving(q) \/ q = r
      BY <1>b, <2>1, <2>3, IdleWorker, SlotFilled DEF Exclusive
    <2>5. \A q \in Requests : Exclusive(q)'
      BY <1>b, <2>2, <2>3, <2>4, PlacesOf DEF Exclusive
    <2> QED BY <1>b, <1>c, <2>2, <2>3, <2>4, <2>5
  <1>12. CASE DispatchToDead
    <2>1. /\ pending # <<>> /\ pending' = Tail(pending)
          /\ UNCHANGED <<active, submitted, events, answer>>
      BY <1>12 DEF DispatchToDead, Dispatchable, historyVars
    <2>2. /\ QueuedOnce(pending')
          /\ \A q \in Requests : (Queued(q))' => Queued(q)
      BY <1>a, <1>b, <2>1, TailQueue, PlacesOf
    <2>3. \A q \in Requests : Exclusive(q)'
      BY <1>b, <2>1, <2>2, PlacesOf DEF Exclusive
    <2>4. ServedOnce'
      BY <1>b, <2>1 DEF ServedOnce
    <2> QED BY <1>b, <1>c, <2>1, <2>2, <2>3, <2>4
  <1>13. CASE PollExpired
    <2> DEFINE healthy == IF InferenceLimit THEN Healthy ELSE Workers
               queue == Kept(pending, healthy)
               f == Failed(pending, healthy)
    <2>1. PICK k \in 0..MaxPending :
            /\ CanExpire(queue, k)
            /\ pending' = Younger(queue, k)
            /\ events' = <<>>
            /\ HandOut(events \o f \o TimedOut(queue, k))
      BY <1>13 DEF PollExpired
    <2> DEFINE t == TimedOut(queue, k)
    <2>2. UNCHANGED <<active, submitted>>
      BY <1>13 DEF PollExpired
    <2>3. /\ queue \in Seq(Requests) /\ QueuedOnce(queue) /\ f \in Seq(Event)
          /\ \A r \in Requests : /\ Queued(r) <=> InQueue(r, queue) \/ Ends(r, f)
                                 /\ ~(InQueue(r, queue) /\ Ends(r, f))
      BY <1>a, <1>b, KeptQueue, PlacesOf
    <2> HIDE DEF queue, f
    <2>4. /\ QueuedOnce(pending') /\ t \in Seq(Event)
          /\ \A r \in Requests : /\ InQueue(r, queue) <=> (Queued(r))' \/ Ends(r, t)
                                 /\ ~((Queued(r))' /\ Ends(r, t))
      BY <2>1, <2>3, CutQueue, PlacesOf
    <2> HIDE DEF t
    <2>5. /\ events \o f \o t \in Seq(Event)
          /\ \A r \in Requests : Ends(r, events \o f \o t) <=> Answering(r) \/ Ends(r, f) \/ Ends(r, t)
      <3>1. /\ events \o f \in Seq(Event)
            /\ \A r \in Requests : Ends(r, events \o f) <=> Ends(r, events) \/ Ends(r, f)
        BY <1>a, <2>3, ConcatEnds
      <3>2. /\ (events \o f) \o t \in Seq(Event)
            /\ \A r \in Requests : Ends(r, (events \o f) \o t) <=> Ends(r, events \o f) \/ Ends(r, t)
        BY <2>4, <3>1, ConcatEnds
      <3> QED BY <3>1, <3>2, PlacesOf
    <2>6. \A r \in Requests : (Answered(r))' <=> Answered(r) \/ Answering(r) \/ Ends(r, f) \/ Ends(r, t)
      BY <2>1, <2>5, HandOutAnswers DEF t
    <2>7. ASSUME NEW r \in Requests PROVE Exclusive(r)'
      <3>1. /\ (Serving(r))' <=> Serving(r)
            /\ ~(Answering(r))'
            /\ submitted' = submitted
        BY <2>1, <2>2, EmptyPlaces, PlacesOf
      <3>2. /\ Queued(r) <=> (Queued(r))' \/ Ends(r, t) \/ Ends(r, f)
            /\ (Queued(r))' => ~Ends(r, t) /\ ~Ends(r, f)
        BY <2>3, <2>4
      <3>3. (Answered(r))' <=> Answered(r) \/ Answering(r) \/ Ends(r, f) \/ Ends(r, t)
        BY <2>6
      <3>4. Exclusive(r)
        BY <1>b
      <3> QED BY <3>1, <3>2, <3>3, <3>4 DEF Exclusive
    <2>8. ServedOnce' /\ EndsOnce(events')
      BY <1>b, <2>1, <2>2, EmptyPlaces DEF ServedOnce
    <2> QED BY <1>c, <2>4, <2>7, <2>8
  <1>14. CASE PollEnd
    <2> DEFINE f == Failed(pending, Healthy)
    <2>1. /\ pending' = Kept(pending, Healthy) /\ HandOut(events \o f) /\ events' = <<>>
          /\ UNCHANGED <<active, submitted>>
      BY <1>14 DEF PollEnd
    <2>2. /\ QueuedOnce(pending') /\ f \in Seq(Event)
          /\ \A r \in Requests : /\ Queued(r) <=> (Queued(r))' \/ Ends(r, f)
                                 /\ ~((Queued(r))' /\ Ends(r, f))
      BY <1>a, <1>b, <2>1, KeptQueue, PlacesOf
    <2> HIDE DEF f
    <2>3. /\ events \o f \in Seq(Event)
          /\ \A r \in Requests : Ends(r, events \o f) <=> Answering(r) \/ Ends(r, f)
      BY <1>a, <2>2, ConcatEnds, PlacesOf
    <2>4. \A r \in Requests : (Answered(r))' <=> Answered(r) \/ Answering(r) \/ Ends(r, f)
      BY <2>1, <2>3, HandOutAnswers
    <2>5. \A r \in Requests : Exclusive(r)'
      BY <1>b, <2>1, <2>2, <2>4, EmptyPlaces, PlacesOf DEF Exclusive
    <2>6. ServedOnce' /\ EndsOnce(events')
      BY <1>b, <2>1, EmptyPlaces DEF ServedOnce
    <2> QED BY <1>c, <2>2, <2>5, <2>6
  <1>15. CASE CloseBegin
    <2> DEFINE c == EventsFor(pending, "cancelled")
    <2>1. /\ events' = events \o c /\ pending' = <<>>
          /\ UNCHANGED <<active, submitted, answer>>
      BY <1>15 DEF CloseBegin, historyVars
    <2>2. /\ c \in Seq(Event) /\ EndsOnce(c)
          /\ \A r \in Requests : Ends(r, c) <=> Queued(r)
      BY <1>a, <1>b, EventsForType, EventsForEnds, PlacesOf DEF Codes
    <2> HIDE DEF c
    <2>3. /\ EndsOnce(events')
          /\ \A r \in Requests : (Answering(r))' <=> Answering(r) \/ Queued(r)
      <3>1. \A r \in Requests : ~(Ends(r, events) /\ Ends(r, c))
        BY <1>b, <2>2, PlacesOf DEF Exclusive
      <3> QED BY <1>a, <1>b, <2>1, <2>2, <3>1, ConcatEnds, PlacesOf
    <2>4. QueuedOnce(pending') /\ \A r \in Requests : ~(Queued(r))'
      BY <2>1, EmptyPlaces, PlacesOf
    <2>5. \A r \in Requests : Exclusive(r)'
      BY <1>b, <2>1, <2>3, <2>4, PlacesOf DEF Exclusive
    <2>6. ServedOnce'
      BY <1>b, <2>1 DEF ServedOnce
    <2> QED BY <1>c, <2>3, <2>4, <2>5, <2>6
  <1>16. CASE CloseEnd
    <2>1. /\ active' = [w \in Workers |-> NoReq]
          /\ UNCHANGED <<pending, submitted, events, answer>>
      BY <1>16 DEF CloseEnd, historyVars
    <2>2. ServedOnce' /\ \A r \in Requests : ~(Serving(r))'
      BY <2>1 DEF ServedOnce, Serving
    <2>3. \A r \in Requests : Exclusive(r)'
      BY <1>b, <2>1, <2>2, PlacesOf DEF Exclusive
    <2> QED BY <1>b, <1>c, <2>1, <2>2, <2>3
  <1> QED
    BY <1>1, <1>2, <1>3, <1>4, <1>5, <1>6, <1>7, <1>8, <1>9, <1>10, <1>11, <1>12, <1>13,
       <1>14, <1>15, <1>16
    DEF Next, Submit, Cancel, Poll, Close

\* An id is in one place at most, so it is executed once and answered once.
THEOREM PlacedOnce == Spec => []OncePlaced
  <1>1. Init => OncePlaced
    <2> SUFFICES ASSUME Init PROVE OncePlaced
      OBVIOUS
    <2>1. /\ \A r \in Requests : ~Queued(r) /\ ~Serving(r) /\ ~Answering(r) /\ ~Answered(r)
          /\ ServedOnce /\ pending = <<>> /\ events = <<>>
      BY EmptyPlaces, PlacesOf DEF Init, Serving, Answered, ServedOnce
    <2> QED BY <2>1, EmptyPlaces DEF OncePlaced
  <1>2. TypeOK /\ CoupledInv /\ QueuesInv /\ OncePlaced /\ [Next]_vars => OncePlaced'
    BY StepPlaces
  <1> QED BY <1>1, <1>2, TypeCorrect, SpecCoupledInv, SpecQueues, PTL DEF Spec

---------------------------------------------------------------------------
(* The scheduler implements RequestLifecycle                               *)

Somewhere(r) == Queued(r) \/ Serving(r) \/ Answering(r) \/ Answered(r)

\* An id goes from the queue to a worker to its answer and never back.
OnlyOnward(r) ==
    /\ Somewhere(r)' => Somewhere(r)
    /\ Queued(r)' => Queued(r)
    /\ Serving(r)' => Queued(r) \/ Serving(r)
    /\ Answering(r) => Answering(r)' \/ Answered(r)'
    /\ Answered(r) => Answered(r)'

\* poll() loses an id in two ways only: an error that names no request ends the
\* one a worker has, and the one dispatched to a dead child is popped for good.
LosesTo(r, w) ==
    \/ ReceiveTerminal /\ w = cursor /\ Inbox.req = NoReq /\ r = active[w]
    \/ DispatchToDead /\ IsFirstReady(w) /\ ~CanSend(w) /\ ClientFail(w) /\ r = Head(pending)
Remains(r) == Somewhere(r) => Somewhere(r)' \/ \E w \in Workers : LosesTo(r, w)

LEMMA PhaseOf ==
    ASSUME NEW r \in Requests, Exclusive(r)
    PROVE  /\ Phase(r) \in {"new", "queued", "running", "due", "told", "lost"}
           /\ Phase(r) = "told" <=> Answered(r)
           /\ Phase(r) = "due" <=> Answering(r)
           /\ Phase(r) = "running" <=> Serving(r)
           /\ Phase(r) = "queued" <=> Queued(r)
           /\ Phase(r) = "lost" <=> ~Somewhere(r) /\ r \in submitted
           /\ Phase(r) = "new" <=> ~Somewhere(r) /\ r \notin submitted
  BY DEF Exclusive, Phase, Somewhere

LEMMA PhaseOfNext ==
    ASSUME NEW r \in Requests, Exclusive(r)'
    PROVE  /\ Phase(r)' \in {"new", "queued", "running", "due", "told", "lost"}
           /\ Phase(r)' = "told" <=> Answered(r)'
           /\ Phase(r)' = "due" <=> Answering(r)'
           /\ Phase(r)' = "running" <=> Serving(r)'
           /\ Phase(r)' = "queued" <=> Queued(r)'
           /\ Phase(r)' = "lost" <=> ~Somewhere(r)' /\ r \in submitted'
           /\ Phase(r)' = "new" <=> ~Somewhere(r)' /\ r \notin submitted'
  BY DEF Exclusive, Phase, Somewhere

LEMMA OnwardMoves ==
    ASSUME NEW r \in Requests, Exclusive(r), Exclusive(r)', OnlyOnward(r), submitted' = submitted
    PROVE  Phase(r)' = Phase(r) \/ <<Phase(r), Phase(r)'>> \in Lifecycle!Moves
  <1>1. CASE Answered(r)
    BY <1>1, PhaseOf, PhaseOfNext DEF OnlyOnward
  <1>2. CASE Answering(r)
    BY <1>2, PhaseOf, PhaseOfNext DEF OnlyOnward, Lifecycle!Moves
  <1>3. CASE Serving(r)
    <2>1. ~Queued(r) /\ r \in submitted
      BY <1>3 DEF Exclusive
    <2>2. Phase(r) = "running" /\ Phase(r)' \in {"running", "due", "told", "lost"}
      BY <1>3, <2>1, PhaseOf, PhaseOfNext DEF OnlyOnward
    <2> QED BY <2>2 DEF Lifecycle!Moves
  <1>4. CASE Queued(r)
    <2>1. r \in submitted
      BY <1>4 DEF Exclusive
    <2>2. Phase(r) = "queued" /\ Phase(r)' \in {"queued", "running", "due", "told", "lost"}
      BY <1>4, <2>1, PhaseOf, PhaseOfNext
    <2> QED BY <2>2 DEF Lifecycle!Moves
  <1>5. CASE ~Somewhere(r)
    <2>1. ~Somewhere(r)'
      BY <1>5 DEF OnlyOnward
    <2> QED BY <1>5, <2>1, PhaseOf, PhaseOfNext
  <1> QED BY <1>1, <1>2, <1>3, <1>4, <1>5 DEF Somewhere

\* A worker that ends its request with the event e, or passes on e.
LEMMA EventOnward ==
    ASSUME TypeOK, NEW w \in Workers, NEW e \in Event,
           \/ Terminal(e) /\ e.req = active[w] /\ active' = [active EXCEPT ![w] = NoReq]
           \/ ~Terminal(e) /\ active' = active,
           events' = Append(events, e), UNCHANGED <<pending, submitted, answer>>
    PROVE  \A r \in Requests : OnlyOnward(r) /\ Remains(r)
  <1> TAKE r \in Requests
  <1>1. Answering(r)' <=> Answering(r) \/ (e.req = r /\ Terminal(e))
    BY AppendEnds, PlacesOf DEF TypeOK
  <1>2. Serving(r)' => Serving(r)
    BY DEF TypeOK, Serving
  <1>3. e.req = r /\ Terminal(e) => Serving(r)
    BY DEF Serving
  <1>4. Serving(r) => Serving(r)' \/ (e.req = r /\ Terminal(e))
    BY DEF TypeOK, Serving
  <1> QED BY <1>1, <1>2, <1>3, <1>4, PlacesOf DEF OnlyOnward, Remains, Somewhere

\* What poll returns is answered, and nothing else is.
LEMMA HandedOnward ==
    ASSUME TypeOK, NEW evs \in Seq(Event), HandOut(evs), events' = <<>>,
           UNCHANGED <<active, submitted>>, NEW r \in Requests,
           Queued(r)' => Queued(r),
           Queued(r) => Queued(r)' \/ Ends(r, evs),
           Answering(r) => Ends(r, evs),
           Ends(r, evs) => Answering(r) \/ Queued(r)
    PROVE  OnlyOnward(r) /\ Remains(r)
  <1>1. Answered(r)' <=> Answered(r) \/ Ends(r, evs)
    BY HandOutAnswers
  <1>2. ~Answering(r)' /\ (Serving(r)' <=> Serving(r))
    BY EmptyPlaces, PlacesOf
  <1> QED BY <1>1, <1>2 DEF OnlyOnward, Remains, Somewhere

LEMMA PollOnward ==
    ASSUME TypeOK, CoupledInv, QueuesInv, OncePlaced, Poll
    PROVE  /\ submitted' = submitted /\ closed' = closed
           /\ \A r \in Requests : OnlyOnward(r) /\ Remains(r)
  <1>a. /\ pending \in Seq(Requests) /\ events \in Seq(Event)
        /\ active \in [Workers -> OptRequest] /\ QueuedOnce(pending)
    BY DEF TypeOK, OncePlaced
  <1>0. submitted' = submitted /\ closed' = closed
    BY DEF Poll, PollBegin, WithinLimit, ExpireActive, PollExpired, ReceiveTerminal, ReceiveOther,
           ReceiveNothing, ReceiveTimeout, ReceiveExited, ReceiveRefused, DispatchNext,
           DispatchToDead, DispatchDone, PollEnd
  <1> SUFFICES \A r \in Requests : OnlyOnward(r) /\ Remains(r)
    BY <1>0
  <1>1. CASE PollBegin \/ WithinLimit \/ ReceiveNothing \/ ReceiveTimeout \/ ReceiveRefused \/ DispatchDone
    <2>1. UNCHANGED <<pending, active, submitted, events, answer>>
      BY <1>1 DEF PollBegin, WithinLimit, ReceiveNothing, ReceiveTimeout, ReceiveRefused,
                  DispatchDone, historyVars
    <2> QED BY <2>1, PlacesOf DEF OnlyOnward, Remains, Somewhere
  <1>2. CASE ExpireActive \/ ReceiveExited
    <2>1. PICK code \in {"inference_timeout", "worker_exited"} :
            events' = Append(events, Msg(active[cursor], code, 0))
      BY <1>2 DEF ExpireActive, ReceiveExited
    <2>2. /\ cursor \in Workers /\ active' = [active EXCEPT ![cursor] = NoReq]
          /\ UNCHANGED <<pending, submitted, answer>>
      BY <1>2 DEF ExpireActive, ReceiveExited, historyVars
    <2>3. /\ Msg(active[cursor], code, 0) \in Event
          /\ Msg(active[cursor], code, 0).req = active[cursor]
          /\ Terminal(Msg(active[cursor], code, 0))
      BY <2>2, MsgType DEF TypeOK, Codes, Msg, Terminal
    <2> QED BY <2>1, <2>2, <2>3, EventOnward
  <1>3. CASE ReceiveOther
    <2>1. /\ CanReceive /\ cursor \in Workers
          /\ UNCHANGED <<pending, submitted, answer>>
      BY <1>3 DEF ReceiveOther, CanReceive, historyVars
    <2>2. Inbox \in Event /\ ~IsMismatch(cursor, Inbox)
      BY <2>1, InboxNames
    <2>3. ~Terminal(Inbox) /\ active' = active /\ events' = Append(events, Inbox)
      BY <1>3, <2>2 DEF ReceiveOther
    <2> QED BY <2>1, <2>2, <2>3, EventOnward
  <1>4. CASE ReceiveTerminal
    <2>1. /\ CanReceive /\ cursor \in Workers
          /\ active' = [active EXCEPT ![cursor] = NoReq]
          /\ answer' = answer
      BY <1>4 DEF ReceiveTerminal, CanReceive, historyVars
    <2>2. PICK k \in 0..MaxPending :
            /\ CanExpire(pending, k)
            /\ pending' = Younger(pending, k)
            /\ events' = Append(events, Inbox) \o TimedOut(pending, k)
      BY <1>4 DEF ReceiveTerminal
    <2> DEFINE a == Append(events, Inbox)
               t == TimedOut(pending, k)
    <2>3. Inbox \in Event /\ (Inbox.req # NoReq => Inbox.req = active[cursor])
      BY <2>1, InboxNames
    <2>4. a \in Seq(Event) /\ \A r \in Requests : Ends(r, a) <=> Answering(r) \/ (Inbox.req = r /\ Terminal(Inbox))
      BY <1>a, <2>3, AppendEnds, PlacesOf
    <2>5. /\ t \in Seq(Event)
          /\ \A r \in Requests : Queued(r) <=> Queued(r)' \/ Ends(r, t)
      BY <1>a, <2>2, CutQueue, PlacesOf
    <2> HIDE DEF a, t
    <2>6. \A r \in Requests : Answering(r)' <=> Ends(r, a) \/ Ends(r, t)
      <3>1. events' = a \o t
        BY <2>2 DEF a, t
      <3> QED BY <2>4, <2>5, <3>1, ConcatEnds, PlacesOf
    <2>7. \A r \in Requests : Serving(r)' => Serving(r)
      BY <1>a, <2>1 DEF Serving
    <2>8. \A r \in Requests : Inbox.req = r => Serving(r)
      BY <2>1, <2>3 DEF Serving
    <2>9. ASSUME NEW r \in Requests PROVE Remains(r)
      <3>1. CASE Serving(r) /\ ~Serving(r)'
        <4>1. r = active[cursor] /\ Terminal(Inbox)
          BY <1>a, <1>4, <2>1, <3>1 DEF Serving, ReceiveTerminal
        <4>2. CASE Inbox.req = NoReq
          BY <1>4, <2>1, <4>1, <4>2 DEF Remains, LosesTo
        <4>3. CASE Inbox.req # NoReq
          BY <2>3, <2>4, <2>6, <4>1, <4>3 DEF Remains, Somewhere
        <4> QED BY <4>2, <4>3
      <3>2. CASE ~(Serving(r) /\ ~Serving(r)')
        BY <2>1, <2>4, <2>5, <2>6, <3>2, PlacesOf DEF Remains, Somewhere
      <3> QED BY <3>1, <3>2
    <2> QED BY <2>1, <2>4, <2>5, <2>6, <2>7, <2>8, <2>9, PlacesOf DEF OnlyOnward, Somewhere
  <1>5. CASE DispatchNext
    <2>1. /\ pending # <<>> /\ pending' = Tail(pending)
          /\ UNCHANGED <<events, answer>>
          /\ \E w \in Workers : active[w] = NoReq /\ active' = [active EXCEPT ![w] = Head(pending)]
      BY <1>5, IdleWorker DEF DispatchNext, Dispatchable, IsFirstReady, Ready, historyVars
    <2>2. /\ Head(pending) \in Requests /\ Queued(Head(pending))
          /\ \A r \in Requests : Queued(r)' <=> Queued(r) /\ r # Head(pending)
      BY <1>a, <2>1, TailQueue, PlacesOf
    <2>3. \A r \in Requests : Serving(r)' <=> Serving(r) \/ r = Head(pending)
      BY <1>a, <2>1 DEF Serving
    <2> QED BY <2>1, <2>2, <2>3, PlacesOf DEF OnlyOnward, Remains, Somewhere
  <1>6. CASE DispatchToDead
    <2>1. /\ pending # <<>> /\ pending' = Tail(pending)
          /\ UNCHANGED <<active, events, answer>>
      BY <1>6 DEF DispatchToDead, Dispatchable, historyVars
    <2>2. \A r \in Requests : Queued(r)' <=> Queued(r) /\ r # Head(pending)
      BY <1>a, <2>1, TailQueue, PlacesOf
    <2>3. \E w \in Workers : LosesTo(Head(pending), w)
      BY <1>6 DEF DispatchToDead, LosesTo
    <2> QED BY <2>1, <2>2, <2>3, PlacesOf DEF OnlyOnward, Remains, Somewhere
  <1>7. CASE PollExpired
    <2> DEFINE healthy == IF InferenceLimit THEN Healthy ELSE Workers
               queue == Kept(pending, healthy)
               f == Failed(pending, healthy)
    <2>1. PICK k \in 0..MaxPending :
            /\ CanExpire(queue, k)
            /\ pending' = Younger(queue, k)
            /\ events' = <<>>
            /\ HandOut(events \o f \o TimedOut(queue, k))
      BY <1>7 DEF PollExpired
    <2> DEFINE t == TimedOut(queue, k)
    <2>2. UNCHANGED <<active, submitted>>
      BY <1>7 DEF PollExpired
    <2>3. /\ queue \in Seq(Requests) /\ QueuedOnce(queue) /\ f \in Seq(Event)
          /\ \A r \in Requests : Queued(r) <=> InQueue(r, queue) \/ Ends(r, f)
      BY <1>a, KeptQueue, PlacesOf
    <2> HIDE DEF queue, f
    <2>4. /\ t \in Seq(Event)
          /\ \A r \in Requests : InQueue(r, queue) <=> Queued(r)' \/ Ends(r, t)
      BY <2>1, <2>3, CutQueue, PlacesOf
    <2> HIDE DEF t
    <2>5. /\ events \o f \in Seq(Event)
          /\ \A r \in Requests : Ends(r, events \o f) <=> Answering(r) \/ Ends(r, f)
      BY <1>a, <2>3, ConcatEnds, PlacesOf
    <2>6. /\ (events \o f) \o t \in Seq(Event)
          /\ \A r \in Requests : Ends(r, (events \o f) \o t) <=> Ends(r, events \o f) \/ Ends(r, t)
      BY <2>4, <2>5, ConcatEnds
    <2>7. HandOut((events \o f) \o t) /\ events' = <<>>
      BY <2>1 DEF t
    <2> QED BY <2>2, <2>3, <2>4, <2>5, <2>6, <2>7, HandedOnward
  <1>8. CASE PollEnd
    <2> DEFINE f == Failed(pending, Healthy)
    <2>1. /\ pending' = Kept(pending, Healthy) /\ HandOut(events \o f) /\ events' = <<>>
          /\ UNCHANGED <<active, submitted>>
      BY <1>8 DEF PollEnd
    <2>2. /\ f \in Seq(Event)
          /\ \A r \in Requests : Queued(r) <=> Queued(r)' \/ Ends(r, f)
      BY <1>a, <2>1, KeptQueue, PlacesOf
    <2> HIDE DEF f
    <2>3. /\ events \o f \in Seq(Event)
          /\ \A r \in Requests : Ends(r, events \o f) <=> Answering(r) \/ Ends(r, f)
      BY <1>a, <2>2, ConcatEnds, PlacesOf
    <2> QED BY <2>1, <2>2, <2>3, HandedOnward
  <1> QED
    BY <1>1, <1>2, <1>3, <1>4, <1>5, <1>6, <1>7, <1>8 DEF Poll

LEMMA CloseOnward ==
    ASSUME TypeOK, OncePlaced, Close
    PROVE  submitted' = submitted /\ \A r \in Requests : OnlyOnward(r)
  <1>1. CASE CloseWorker \/ CloseAborted
    <2>1. UNCHANGED <<pending, active, submitted, events, answer>>
      BY <1>1 DEF CloseWorker, CloseAborted, historyVars
    <2> QED BY <2>1, PlacesOf DEF OnlyOnward, Somewhere
  <1>2. CASE CloseBegin
    <2> DEFINE c == EventsFor(pending, "cancelled")
    <2>1. /\ events' = events \o c /\ pending' = <<>>
          /\ UNCHANGED <<active, submitted, answer>>
      BY <1>2 DEF CloseBegin, historyVars
    <2>2. c \in Seq(Event) /\ events \in Seq(Event) /\ \A r \in Requests : Ends(r, c) <=> Queued(r)
      BY EventsForType, EventsForEnds, PlacesOf DEF TypeOK, Codes
    <2> HIDE DEF c
    <2>3. \A r \in Requests : Answering(r)' <=> Answering(r) \/ Queued(r)
      BY <2>1, <2>2, ConcatEnds, PlacesOf
    <2>4. \A r \in Requests : ~Queued(r)'
      BY <2>1, EmptyPlaces, PlacesOf
    <2> QED BY <2>1, <2>3, <2>4, PlacesOf DEF OnlyOnward, Somewhere
  <1>3. CASE CloseEnd
    <2>1. /\ active' = [w \in Workers |-> NoReq]
          /\ UNCHANGED <<pending, submitted, events, answer>>
      BY <1>3 DEF CloseEnd, historyVars
    <2>2. \A r \in Requests : ~Serving(r)'
      BY <2>1 DEF Serving
    <2> QED BY <2>1, <2>2, PlacesOf DEF OnlyOnward, Somewhere
  <1> QED BY <1>1, <1>2, <1>3 DEF Close

LEMMA ExclusiveOf ==
    /\ OncePlaced => \A r \in Requests : Exclusive(r)
    /\ OncePlaced' => \A r \in Requests : Exclusive(r)'
  BY DEF OncePlaced, Exclusive

\* No more requests are served than workers are busy.
LEMMA ServedAreFew ==
    ASSUME NEW act \in [Workers -> OptRequest], NEW S \in SUBSET Requests,
           \A r \in S : \E w \in Workers : act[w] = r,
           Cardinality({w \in Workers : act[w] # NoReq}) <= MaxConcurrent
    PROVE  Cardinality(S) <= MaxConcurrent
  <1> DEFINE B == {w \in Workers : act[w] # NoReq}
             D == {w \in Workers : act[w] \in S}
             f == [w \in D |-> act[w]]
  <1>1. IsFiniteSet(B) /\ IsFiniteSet(D) /\ Cardinality(B) \in Nat /\ Cardinality(D) \in Nat
    BY WorkersFinite, FS_Subset, FS_CardinalityType
  <1>2. D \subseteq B
    OBVIOUS
  <1>3. Cardinality(D) <= Cardinality(B)
    BY <1>1, <1>2, FS_Subset
  <1>4. f \in Surjection(D, S)
    BY DEF Surjection
  <1>5. IsFiniteSet(S) /\ Cardinality(S) <= Cardinality(D)
    BY <1>1, <1>4, FS_Surjection
  <1>6. Cardinality(S) \in Nat
    BY <1>5, FS_CardinalityType
  <1> QED BY <1>1, <1>3, <1>5, <1>6

\* The refinement mapping.
Phased == [r \in Requests |-> Phase(r)]

LEMMA SameCardinality == \A S : Lifecycle!Cardinality(S) = Cardinality(S)
  BY DEF Lifecycle!Cardinality, Cardinality

LEMMA RunningFits ==
    ASSUME TypeOK', WithinBounds', OncePlaced'
    PROVE  Lifecycle!RoomToRun
  <1> DEFINE S == {r \in Requests : Phased'[r] = "running"}
  <1>1. \A r \in S : \E w \in Workers : active'[w] = r
    <2> TAKE r \in S
    <2>1. r \in Requests /\ Phase(r)' = "running"
      BY DEF Phased
    <2>2. Serving(r)'
      BY <2>1, ExclusiveOf, PhaseOfNext
    <2> QED BY <2>2 DEF Serving
  <1>2. active' \in [Workers -> OptRequest] /\ Cardinality({w \in Workers : active'[w] # NoReq}) <= MaxConcurrent
    BY DEF TypeOK, WithinBounds, Busy
  <1>3. Cardinality(S) <= MaxConcurrent
    BY <1>1, <1>2, ServedAreFew
  <1> QED BY <1>3, SameCardinality DEF Lifecycle!RoomToRun, Lifecycle!In, Phased

\* What holds before and after every step of the scheduler.
BothSides == /\ TypeOK /\ TypeOK' /\ OncePlaced /\ OncePlaced' /\ WithinBounds'
            /\ CoupledInv /\ QueuesInv

LEMMA PhasedTyped == OncePlaced' => Phased' \in [Requests -> Lifecycle!Phases]
  BY ExclusiveOf, PhaseOfNext DEF Phased, Lifecycle!Phases, Lifecycle!Live

LEMMA SubmitPlaces ==
    ASSUME TypeOK, CoupledInv, OncePlaced, NEW r \in Requests, SubmitDispatch(r) \/ SubmitQueue(r)
    PROVE  /\ (Queued(r) \/ Serving(r))'
           /\ \A q \in Requests \ {r} : (Queued(q)' <=> Queued(q)) /\ (Serving(q)' <=> Serving(q))
  <1>1. CASE SubmitDispatch(r)
    <2>1. PICK w \in Workers : wstate[w] = "ready" /\ active' = [active EXCEPT ![w] = r]
      BY <1>1 DEF SubmitDispatch, IsFirstReady, Ready
    <2>2. active[w] = NoReq /\ active \in [Workers -> OptRequest] /\ pending' = pending
      BY <1>1, <2>1, IdleWorker DEF TypeOK, SubmitDispatch
    <2>3. Serving(r)' /\ \A q \in Requests \ {r} : Serving(q)' <=> Serving(q)
      BY <2>1, <2>2 DEF Serving
    <2> QED BY <2>2, <2>3, PlacesOf
  <1>2. CASE SubmitQueue(r)
    <2>1. /\ pending' = Append(pending, r) /\ active' = active /\ pending \in Seq(Requests)
          /\ r \notin submitted
      BY <1>2 DEF SubmitQueue, Admissible, TypeOK
    <2>2. \A q \in Requests : (Queued(q))' <=> Queued(q) \/ q = r
      BY <2>1, AppendQueue, PlacesOf
    <2> QED BY <2>1, <2>2, PlacesOf
  <1> QED BY <1>1, <1>2

LEMMA AdmitStep ==
    ASSUME BothSides, NEW r \in Requests, Submit(r)
    PROVE  [Lifecycle!Next]_<<Phased, ~closed>>
  <1>0. TypeOK /\ OncePlaced /\ OncePlaced' /\ TypeOK' /\ WithinBounds' /\ CoupledInv
    BY DEF BothSides
  <1>1. CASE SubmitToDead(r)
    <2>1. UNCHANGED <<pending, active, submitted, events, answer, closed>>
      BY <1>1 DEF SubmitToDead, historyVars
    <2>2. \A q \in Requests : Phase(q)' = Phase(q)
      BY <2>1, PlacesOf DEF Phase
    <2> QED BY <2>1, <2>2 DEF Phased
  <1>2. CASE SubmitDispatch(r) \/ SubmitQueue(r)
    <2>1. /\ r \notin submitted /\ ~closed /\ closed' = closed
          /\ submitted' = submitted \cup {r} /\ UNCHANGED <<events, answer>>
      BY <1>2 DEF SubmitDispatch, SubmitQueue, Admissible, historyVars
    <2>2. Exclusive(r) /\ \A q \in Requests : Exclusive(q) /\ Exclusive(q)'
      BY <1>0, ExclusiveOf
    <2>3. Phase(r) = "new"
      BY <2>1, <2>2, PhaseOf DEF Exclusive, Somewhere
    <2>4. /\ (Queued(r) \/ Serving(r))'
          /\ \A q \in Requests \ {r} : (Queued(q)' <=> Queued(q)) /\ (Serving(q)' <=> Serving(q))
      BY <1>0, <1>2, SubmitPlaces
    <2>5. \A q \in Requests : (Answering(q)' <=> Answering(q)) /\ (Answered(q)' <=> Answered(q))
      BY <2>1, PlacesOf
    <2>6. \A q \in Requests \ {r} : Phase(q)' = Phase(q)
      BY <2>1, <2>4, <2>5 DEF Phase
    <2>7. Phase(r)' \in Lifecycle!Live
      BY <2>2, <2>4, PhaseOfNext DEF Lifecycle!Live
    <2>8. Phased' = [Phased EXCEPT ![r] = Phase(r)']
      BY <2>6 DEF Phased
    <2>9. Lifecycle!Admit(r)
      BY <1>0, <2>1, <2>3, <2>7, <2>8, RunningFits DEF Lifecycle!Admit, Phased
    <2> QED BY <2>9 DEF Lifecycle!Next
  <1> QED BY <1>1, <1>2 DEF Submit

\* Cancelling a request leaves q where it is, or ends it in the queue.
Bystander(q) ==
    /\ Serving(q)' <=> Serving(q)
    /\ Answering(q) => Answering(q)'
    /\ \/ (Queued(q)' <=> Queued(q)) /\ (Answering(q)' <=> Answering(q))
       \/ Queued(q) /\ Answering(q)'

LEMMA CancelPlaces ==
    ASSUME TypeOK, OncePlaced, NEW r \in Requests, Cancel(r)
    PROVE  /\ \A q \in Requests : (Answered(q))' <=> Answered(q) \/ q = r
           /\ Queued(r) \/ Serving(r)
           /\ \A q \in Requests \ {r} : Bystander(q)
  <1>0. pending \in Seq(Requests) /\ events \in Seq(Event) /\ QueuedOnce(pending) /\ ServedOnce
    BY DEF TypeOK, OncePlaced
  <1>1. \A q \in Requests : (Answered(q))' <=> Answered(q) \/ q = r
    BY CancelAnswers DEF Cancel, CancelPending, CancelActive
  <1>2. ASSUME CancelPending(r) PROVE (Queued(r) \/ Serving(r)) /\ \A q \in Requests \ {r} : Bystander(q)
    <2>1. PICK i \in 1..Len(pending) : pending[i] = r /\ pending' = RemoveAt(pending, i)
      BY <1>2 DEF CancelPending
    <2>2. Queued(r) /\ \A q \in Requests : (Queued(q))' <=> Queued(q) /\ q # r
      BY <1>0, <2>1, RemoveAtQueue, PlacesOf DEF Queued, InQueue
    <2>3. UNCHANGED <<active, events>>
      BY <1>2 DEF CancelPending
    <2> QED BY <2>2, <2>3, PlacesOf DEF Bystander
  <1>3. ASSUME CancelActive(r) PROVE (Queued(r) \/ Serving(r)) /\ \A q \in Requests \ {r} : Bystander(q)
    <2>1. PICK w \in Workers :
            /\ active[w] = r
            /\ active' = [active EXCEPT ![w] = NoReq]
            /\ pending' = Kept(pending, Healthy \ {w})
            /\ events' = events \o Failed(pending, Healthy \ {w})
      BY <1>3 DEF CancelActive
    <2> DEFINE f == Failed(pending, Healthy \ {w})
    <2>2. Serving(r) /\ \A q \in Requests : (Serving(q))' <=> Serving(q) /\ q # r
      BY <1>0, <2>1, SlotFreed DEF Serving
    <2>3. f \in Seq(Event) /\ \A q \in Requests : Queued(q) <=> Queued(q)' \/ Ends(q, f)
      BY <1>0, <2>1, KeptQueue, PlacesOf
    <2>4. events' = events \o f
      BY <2>1
    <2> HIDE DEF f
    <2>5. \A q \in Requests : Answering(q)' <=> Answering(q) \/ Ends(q, f)
      BY <1>0, <2>3, <2>4, ConcatEnds, PlacesOf
    <2> QED BY <2>2, <2>3, <2>5 DEF Bystander
  <1> QED BY <1>1, <1>2, <1>3 DEF Cancel

LEMMA WithdrawStep ==
    ASSUME BothSides, NEW r \in Requests, Cancel(r)
    PROVE  [Lifecycle!Next]_<<Phased, ~closed>>
  <1>0. /\ TypeOK /\ OncePlaced /\ OncePlaced'
        /\ \A q \in Requests : Exclusive(q) /\ Exclusive(q)'
    BY ExclusiveOf DEF BothSides
  <1>1. /\ closed' = closed /\ submitted' = submitted
        /\ answer' = [answer EXCEPT ![r] = "cancelled"]
    BY DEF Cancel, CancelPending, CancelActive
  <1>2. \A q \in Requests : (Answered(q))' <=> Answered(q) \/ q = r
    BY <1>0, CancelPlaces
  <1>3. (Queued(r) \/ Serving(r)) /\ \A q \in Requests \ {r} : Bystander(q)
    BY <1>0, CancelPlaces
  <1>4. Phase(r) \in Lifecycle!Live
    BY <1>0, <1>3, PhaseOf DEF Lifecycle!Live
  <1>5. Phase(r)' = "told"
    BY <1>2 DEF Phase
  <1>6. ASSUME NEW q \in Requests \ {r}
        PROVE  Phase(q)' = Phase(q) \/ (Phase(q) = "queued" /\ Phase(q)' = "due")
    <2>1. CASE (Queued(q)' <=> Queued(q)) /\ (Answering(q)' <=> Answering(q))
      BY <1>1, <1>2, <1>3, <2>1 DEF Bystander, Phase
    <2>2. CASE Queued(q) /\ Answering(q)'
      <3>1. Exclusive(q) /\ Exclusive(q)'
        BY <1>0
      <3> QED BY <2>2, <3>1, PhaseOf, PhaseOfNext
    <2> QED BY <1>3, <2>1, <2>2 DEF Bystander
  <1>7. Lifecycle!Withdraw(r)
    BY <1>0, <1>1, <1>4, <1>5, <1>6, PhasedTyped DEF Lifecycle!Withdraw, Phased
  <1> QED BY <1>7 DEF Lifecycle!Next

\* A step that names no request: a poll, a close, a child's.
LEMMA WorkStep ==
    ASSUME BothSides, submitted' = submitted, \A r \in Requests : OnlyOnward(r),
           closed' = closed \/ (~closed /\ closed')
    PROVE  [Lifecycle!Next]_<<Phased, ~closed>>
  <1>1. \A r \in Requests : Exclusive(r) /\ Exclusive(r)'
    BY ExclusiveOf DEF BothSides
  <1>2. \A r \in Requests : Lifecycle!MayMove(r)
    BY <1>1, OnwardMoves DEF Lifecycle!MayMove, Phased
  <1>3. Lifecycle!RoomToRun /\ Phased' \in [Requests -> Lifecycle!Phases]
    BY RunningFits, PhasedTyped DEF BothSides
  <1>4. Lifecycle!Work \/ Lifecycle!Shut
    BY <1>2, <1>3 DEF Lifecycle!Work, Lifecycle!Shut, Phased
  <1> QED BY <1>4 DEF Lifecycle!Next

LEMMA LifecycleStep == BothSides /\ [Next]_vars => [Lifecycle!Next]_<<Phased, ~closed>>
  <1> SUFFICES ASSUME BothSides, [Next]_vars PROVE [Lifecycle!Next]_<<Phased, ~closed>>
    OBVIOUS
  <1>0. TypeOK /\ CoupledInv /\ QueuesInv /\ OncePlaced
    BY DEF BothSides
  <1>1. ASSUME NEW r \in Requests, Submit(r) PROVE [Lifecycle!Next]_<<Phased, ~closed>>
    BY <1>1, AdmitStep
  <1>2. ASSUME NEW r \in Requests, Cancel(r) PROVE [Lifecycle!Next]_<<Phased, ~closed>>
    BY <1>2, WithdrawStep
  <1>3. CASE Poll
    BY <1>0, <1>3, PollOnward, WorkStep
  <1>4. CASE Close
    <2>1. closed' = closed \/ (~closed /\ closed')
      BY <1>4 DEF Close, CloseBegin, CloseWorker, CloseAborted, CloseEnd
    <2> QED BY <1>0, <1>4, <2>1, CloseOnward, WorkStep
  <1>5. CASE (\E w \in Workers : Child(w)) \/ UNCHANGED vars
    <2>1. UNCHANGED <<pending, active, submitted, events, closed, answer>>
      BY <1>5 DEF Child, vars, historyVars
    <2>2. \A r \in Requests : OnlyOnward(r)
      BY <2>1, PlacesOf DEF OnlyOnward, Somewhere
    <2> QED BY <2>1, <2>2, WorkStep
  <1> QED BY <1>1, <1>2, <1>3, <1>4, <1>5 DEF Next

\* For every pool size, queue and limit: the scheduler keeps the promise
\* ApiRuntime is written against. An id is admitted once and never after
\* close(), at most MaxConcurrent run, and an id that has ended stays so.
THEOREM SchedulerImplements == Spec => KeepsLifecycle
  <1>1. Init => Lifecycle!Init
    <2> SUFFICES ASSUME Init PROVE Lifecycle!Init
      OBVIOUS
    <2>1. \A r \in Requests : Phase(r) = "new"
      BY EmptyPlaces, PlacesOf DEF Init, Phase, Serving, Answered
    <2> QED BY <2>1 DEF Init, Lifecycle!Init
  <1>2. BothSides /\ [Next]_vars => [Lifecycle!Next]_<<Phased, ~closed>>
    BY LifecycleStep
  <1>3. [Lifecycle!Next]_<<Phased, ~closed>>
        <=> [Lifecycle!Next]_<<[r \in Requests |-> Phase(r)], ~closed>>
    BY DEF Phased
  <1> QED BY <1>1, <1>2, <1>3, TypeCorrect, SpecCoupledInv, SpecQueues, PlacedOnce, BoundsKept, PTL
      DEF Spec, KeepsLifecycle, Lifecycle!Spec, BothSides

---------------------------------------------------------------------------
\* A stream's chunks, from the child that numbers them to the caller of poll

ChunksOf(r, evs) == {i \in 1..Len(evs) : evs[i].req = r /\ ~Terminal(evs[i])}

\* The chunks of each request that have left its worker's queue, in events or
\* already with the caller.
got == [r \in Requests |-> heard[r] + Cardinality(ChunksOf(r, events))]

\* m is numbered as the message of a stream after k chunks is.
Fits(m, k) == (m.what = "chunk" => m.n = k + 1) /\ (m.what = "end" => m.n = k)

\* The queue of a busy worker goes on where its request's chunks have got to,
\* and its child goes on where the queue ends.
FlowOf(w) ==
    /\ \A i \in 1..Len(results[w]) : results[w][i].req = NoReq => results[w][i].what = "error"
    /\ wstate[w] = "busy" =>
        /\ \A i \in 1..Len(results[w]) : Fits(results[w][i], got[wactive[w]] + i - 1)
        /\ child[w] = "serving" /\ job[w] # NoReq => made[w] = got[wactive[w]] + Len(results[w])

FlowsInv == \A w \in Workers : FlowOf(w)

UnservedInv == \A r \in Requests : r \notin submitted \/ Queued(r) => got[r] = 0

FlowInv == StreamInOrder /\ UnservedInv /\ FlowsInv

LEMMA ChunksFinite ==
    ASSUME NEW evs \in Seq(Event), NEW r
    PROVE  IsFiniteSet(ChunksOf(r, evs)) /\ Cardinality(ChunksOf(r, evs)) \in Nat
  <1>1. IsFiniteSet(1..Len(evs)) /\ ChunksOf(r, evs) \in SUBSET (1..Len(evs))
    BY FS_Interval, LenProperties DEF ChunksOf
  <1> QED BY <1>1, FS_Subset, FS_CardinalityType

LEMMA GotType ==
    ASSUME TypeOK
    PROVE  got \in [Requests -> Nat]
  BY ChunksFinite DEF TypeOK, got

LEMMA ChunksAppend ==
    ASSUME NEW evs \in Seq(Event), NEW e \in Event, NEW r
    PROVE  Cardinality(ChunksOf(r, Append(evs, e))) =
             Cardinality(ChunksOf(r, evs)) + (IF e.req = r /\ ~Terminal(e) THEN 1 ELSE 0)
  <1> DEFINE n == Len(evs) + 1
             es == Append(evs, e)
  <1>1. /\ Len(evs) \in Nat /\ Len(es) = n /\ es[n] = e
        /\ \A i \in 1..Len(evs) : es[i] = evs[i]
    BY AppendProperties, LenProperties
  <1> HIDE DEF es
  <1>2. CASE e.req = r /\ ~Terminal(e)
    <2>1. ChunksOf(r, es) = ChunksOf(r, evs) \cup {n} /\ n \notin ChunksOf(r, evs)
      BY <1>1, <1>2 DEF ChunksOf
    <2> QED BY <1>2, <2>1, ChunksFinite, FS_AddElement DEF es
  <1>3. CASE ~(e.req = r /\ ~Terminal(e))
    <2>1. ChunksOf(r, es) = ChunksOf(r, evs)
      BY <1>1, <1>3 DEF ChunksOf
    <2> QED BY <1>3, <2>1, ChunksFinite DEF es
  <1> QED BY <1>2, <1>3

\* Events that are neither chunks nor the end of a stream.
Mute(evs) == \A i \in 1..Len(evs) : evs[i].what \notin {"chunk", "end"}

LEMMA ChunksConcat ==
    ASSUME NEW a \in Seq(Event), NEW b \in Seq(Event), Mute(b), NEW r
    PROVE  ChunksOf(r, a \o b) = ChunksOf(r, a)
  <1>1. /\ Len(a) \in Nat /\ Len(b) \in Nat /\ Len(a \o b) = Len(a) + Len(b)
        /\ \A i \in 1..(Len(a) + Len(b)) : (a \o b)[i] = IF i <= Len(a) THEN a[i] ELSE b[i - Len(a)]
    BY ConcatProperties, LenProperties
  <1>2. ASSUME NEW i \in 1..(Len(a) + Len(b)), ~(i <= Len(a)) PROVE Terminal((a \o b)[i])
    <2>1. i - Len(a) \in 1..Len(b) /\ (a \o b)[i] = b[i - Len(a)]
      BY <1>1, <1>2
    <2> QED BY <2>1 DEF Mute, Terminal
  <1>3. \A i \in 1..Len(a) : i \in 1..(Len(a) + Len(b)) /\ i <= Len(a) /\ (a \o b)[i] = a[i]
    BY <1>1
  <1>4. ChunksOf(r, a \o b) \subseteq ChunksOf(r, a)
    BY <1>1, <1>2 DEF ChunksOf
  <1>5. ChunksOf(r, a) \subseteq ChunksOf(r, a \o b)
    BY <1>1, <1>3 DEF ChunksOf
  <1> QED BY <1>4, <1>5

LEMMA MuteConcat ==
    ASSUME NEW a \in Seq(Event), NEW b \in Seq(Event), Mute(a), Mute(b)
    PROVE  a \o b \in Seq(Event) /\ Mute(a \o b)
  <1>1. /\ a \o b \in Seq(Event) /\ Len(a) \in Nat /\ Len(b) \in Nat /\ Len(a \o b) = Len(a) + Len(b)
        /\ \A i \in 1..(Len(a) + Len(b)) : (a \o b)[i] = IF i <= Len(a) THEN a[i] ELSE b[i - Len(a)]
    BY ConcatProperties, LenProperties
  <1>2. ASSUME NEW i \in 1..Len(a \o b) PROVE (a \o b)[i].what \notin {"chunk", "end"}
    <2>1. CASE i <= Len(a)
      BY <1>1, <2>1 DEF Mute
    <2>2. CASE ~(i <= Len(a))
      <3>1. i - Len(a) \in 1..Len(b) /\ (a \o b)[i] = b[i - Len(a)]
        BY <1>1, <2>2
      <3> QED BY <3>1 DEF Mute
    <2> QED BY <2>1, <2>2
  <1> QED BY <1>1, <1>2 DEF Mute

LEMMA MuteEvents ==
    /\ \A q \in Seq(Requests), code \in Codes \ {"chunk", "end"} : Mute(EventsFor(q, code))
    /\ \A q \in Seq(Requests) : \A healthy : Mute(Failed(q, healthy))
    /\ \A q \in Seq(Requests) : \A k : CanExpire(q, k) => Mute(TimedOut(q, k))
  <1>1. ASSUME NEW q \in Seq(Requests), NEW code \in Codes \ {"chunk", "end"}
        PROVE  Mute(EventsFor(q, code))
    <2>1. \A i \in 1..Len(q) : EventsFor(q, code)[i].what = code
      BY DEF EventsFor, Msg
    <2>2. Len(EventsFor(q, code)) = Len(q)
      BY EventsForType
    <2> QED BY <2>1, <2>2 DEF Mute
  <1>2. {"no_healthy_worker", "queue_timeout"} \subseteq Codes \ {"chunk", "end"}
    BY DEF Codes
  <1>3. ASSUME NEW q \in Seq(Requests), NEW healthy PROVE Mute(Failed(q, healthy))
    <2>1. (IF healthy = {} THEN q ELSE <<>>) \in Seq(Requests)
      OBVIOUS
    <2> QED BY <1>1, <1>2, <2>1 DEF Failed
  <1>4. ASSUME NEW q \in Seq(Requests), NEW k, CanExpire(q, k) PROVE Mute(TimedOut(q, k))
    <2>1. SubSeq(q, 1, k) \in Seq(Requests)
      BY <1>4, SubSeqProperties DEF CanExpire
    <2> QED BY <1>1, <1>2, <2>1 DEF TimedOut
  <1> QED BY <1>1, <1>3, <1>4

---------------------------------------------------------------------------
\* What a step may do to the events, and what that leaves of the order

LEMMA OrderConcat ==
    ASSUME TypeOK, StreamInOrder, NEW b \in Seq(Event), Mute(b),
           events' = events \o b, heard' = heard
    PROVE  StreamInOrder' /\ got' = got
  <1>0. events \in Seq(Event)
    BY DEF TypeOK
  <1>1. /\ Len(events) \in Nat /\ Len(b) \in Nat /\ Len(events') = Len(events) + Len(b)
        /\ \A i \in 1..(Len(events) + Len(b)) :
             events'[i] = IF i <= Len(events) THEN events[i] ELSE b[i - Len(events)]
    BY <1>0, ConcatProperties, LenProperties
  <1>2. got' = got
    BY <1>0, ChunksConcat DEF got
  <1>3. ASSUME NEW i \in 1..Len(events')
        PROVE  LET e == events'[i] IN
               /\ e.what = "chunk" => e.n = heard'[e.req] + ChunksBefore(i)' + 1
               /\ e.what = "end" => e.n = heard'[e.req] + ChunksBefore(i)'
    <2>1. CASE i <= Len(events)
      <3>1. i \in 1..Len(events) /\ events'[i] = events[i]
            /\ \A j \in 1..(i - 1) : j \in 1..Len(events) /\ events'[j] = events[j]
        BY <1>1, <2>1
      <3>2. ChunksBefore(i)' = ChunksBefore(i)
        <4>1. {j \in 1..(i - 1) : events'[j].req = events'[i].req /\ events'[j].what = "chunk"}
              = {j \in 1..(i - 1) : events[j].req = events[i].req /\ events[j].what = "chunk"}
          BY <3>1
        <4> QED BY <4>1 DEF ChunksBefore
      <3> QED BY <3>1, <3>2 DEF StreamInOrder
    <2>2. CASE ~(i <= Len(events))
      <3>1. i - Len(events) \in 1..Len(b) /\ events'[i] = b[i - Len(events)]
        BY <1>1, <2>2
      <3> QED BY <3>1 DEF Mute
    <2> QED BY <2>1, <2>2
  <1>4. StreamInOrder'
    BY <1>3 DEF StreamInOrder
  <1> QED BY <1>2, <1>4

LEMMA OrderAppend ==
    ASSUME TypeOK, StreamInOrder, NEW e \in Event,
           e.what \in {"chunk", "end"} => e.req # NoReq /\ Fits(e, got[e.req]),
           NEW b \in Seq(Event), Mute(b), events' = Append(events, e) \o b, heard' = heard
    PROVE  /\ StreamInOrder'
           /\ \A r \in Requests : got'[r] = got[r] + (IF e.req = r /\ ~Terminal(e) THEN 1 ELSE 0)
  <1> DEFINE n == Len(events) + 1
             evs == Append(events, e)
  <1>0. events \in Seq(Event) /\ heard \in [Requests -> Nat]
    BY DEF TypeOK
  <1>1. /\ Len(events) \in Nat /\ evs \in Seq(Event) /\ Len(evs) = n /\ evs[n] = e
        /\ \A i \in 1..Len(events) : evs[i] = events[i]
    BY <1>0, AppendProperties, LenProperties
  <1>2. /\ Len(b) \in Nat /\ Len(events') = n + Len(b)
        /\ \A i \in 1..(n + Len(b)) : events'[i] = IF i <= n THEN evs[i] ELSE b[i - n]
    <2> HIDE DEF evs
    <2> QED BY <1>1, ConcatProperties, LenProperties DEF evs
  <1>3. \A i \in 1..Len(events) : events'[i] = events[i]
    BY <1>1, <1>2
  <1>4. events'[n] = e
    BY <1>1, <1>2
  <1>5. ASSUME NEW r \in Requests
        PROVE  got'[r] = got[r] + (IF e.req = r /\ ~Terminal(e) THEN 1 ELSE 0)
    <2> DEFINE d == IF e.req = r /\ ~Terminal(e) THEN 1 ELSE 0
    <2>1. ChunksOf(r, events') = ChunksOf(r, evs)
      BY <1>1, ChunksConcat
    <2>2. Cardinality(ChunksOf(r, evs)) = Cardinality(ChunksOf(r, events)) + d
      BY <1>0, ChunksAppend
    <2>3. Cardinality(ChunksOf(r, events)) \in Nat /\ heard[r] \in Nat /\ d \in {0, 1}
      BY <1>0, ChunksFinite
    <2>4. /\ got[r] = heard[r] + Cardinality(ChunksOf(r, events))
          /\ got'[r] = heard[r] + Cardinality(ChunksOf(r, events'))
      BY DEF got
    <2>5. \A h, c \in Nat, x \in {0, 1} : h + (c + x) = (h + c) + x
      OBVIOUS
    <2>6. got'[r] = got[r] + d
      <3> HIDE DEF d, evs
      <3> QED BY <2>1, <2>2, <2>3, <2>4, <2>5
    <2> QED BY <2>6
  <1>6. ASSUME NEW i \in 1..Len(events')
        PROVE  LET x == events'[i] IN
               /\ x.what = "chunk" => x.n = heard'[x.req] + ChunksBefore(i)' + 1
               /\ x.what = "end" => x.n = heard'[x.req] + ChunksBefore(i)'
    <2>1. CASE i \in 1..Len(events)
      <3>1. events'[i] = events[i]
            /\ \A j \in 1..(i - 1) : j \in 1..Len(events) /\ events'[j] = events[j]
        BY <1>1, <1>3, <2>1
      <3>2. {j \in 1..(i - 1) : events'[j].req = events'[i].req /\ events'[j].what = "chunk"}
            = {j \in 1..(i - 1) : events[j].req = events[i].req /\ events[j].what = "chunk"}
        BY <3>1
      <3>3. ChunksBefore(i)' = ChunksBefore(i)
        BY <3>2 DEF ChunksBefore
      <3> QED BY <2>1, <3>1, <3>3 DEF StreamInOrder
    <2>2. CASE i = n /\ e.what \in {"chunk", "end"}
      <3>1. events'[i] = e /\ i - 1 = Len(events) /\ \A j \in 1..(i - 1) : events'[j] = events[j]
        BY <1>1, <1>3, <1>4, <2>2
      <3>2. {j \in 1..(i - 1) : events'[j].req = events'[i].req /\ events'[j].what = "chunk"}
            = ChunksOf(e.req, events)
        BY <3>1 DEF ChunksOf, Terminal
      <3>3. ChunksBefore(i)' = Cardinality(ChunksOf(e.req, events))
        BY <3>2 DEF ChunksBefore
      <3>4. e.req \in Requests
        BY <2>2 DEF Event, OptRequest
      <3>5. got[e.req] = heard[e.req] + Cardinality(ChunksOf(e.req, events))
        BY <3>4 DEF got
      <3> QED BY <2>2, <3>1, <3>3, <3>5 DEF Fits
    <2>3. CASE i = n /\ e.what \notin {"chunk", "end"}
      BY <1>4, <2>3
    <2>4. CASE ~(i <= n)
      <3>1. i - n \in 1..Len(b) /\ events'[i] = b[i - n]
        BY <1>1, <1>2, <2>4
      <3> QED BY <3>1 DEF Mute
    <2> QED BY <1>1, <1>2, <2>1, <2>2, <2>3, <2>4
  <1>7. StreamInOrder'
    BY <1>6 DEF StreamInOrder
  <1> QED BY <1>5, <1>7

\* What poll returns is heard.
LEMMA OrderHandOut ==
    ASSUME TypeOK, NEW b \in Seq(Event), Mute(b), HandOut(events \o b), events' = <<>>
    PROVE  StreamInOrder' /\ got' = got
  <1>0. events \in Seq(Event) /\ heard \in [Requests -> Nat]
    BY DEF TypeOK
  <1>1. StreamInOrder'
    <2>1. Len(events') = 0
      BY EmptySeq
    <2> QED BY <2>1 DEF StreamInOrder
  <1>2. ASSUME NEW r \in Requests PROVE got'[r] = got[r]
    <2>1. heard'[r] = heard[r] + Cardinality(ChunksOf(r, events \o b))
      BY DEF HandOut, ChunksOf
    <2>2. ChunksOf(r, events \o b) = ChunksOf(r, events)
      BY <1>0, ChunksConcat
    <2>3. ChunksOf(r, events') = {}
      BY EmptySeq DEF ChunksOf
    <2>4. Cardinality(ChunksOf(r, events)) \in Nat
      BY <1>0, ChunksFinite
    <2>5. heard'[r] + Cardinality(ChunksOf(r, events')) = heard[r] + Cardinality(ChunksOf(r, events))
      <3>1. Cardinality(ChunksOf(r, events')) = 0
        BY <2>3, FS_EmptySet
      <3>2. heard'[r] = heard[r] + Cardinality(ChunksOf(r, events))
        BY <2>1, <2>2
      <3> QED BY <1>0, <2>4, <3>1, <3>2
    <2> QED BY <2>5 DEF got
  <1>3. got' = got
    BY <1>2 DEF got
  <1> QED BY <1>1, <1>3

---------------------------------------------------------------------------
\* What a step may do to the queues

\* A step that touches worker w only.
LEMMA OneFlow ==
    ASSUME FlowsInv, NEW w \in Workers, FlowOf(w)',
           \A v \in Workers \ {w} :
              /\ wstate'[v] = wstate[v] /\ wactive'[v] = wactive[v] /\ child'[v] = child[v]
              /\ job'[v] = job[v] /\ made'[v] = made[v] /\ results'[v] = results[v]
              /\ wstate[v] = "busy" => got'[wactive[v]] = got[wactive[v]]
    PROVE  FlowsInv'
  <1>1. ASSUME NEW v \in Workers \ {w} PROVE FlowOf(v)'
    BY DEF FlowsInv, FlowOf
  <1> QED BY <1>1 DEF FlowsInv

LEMMA SendFlow ==
    ASSUME ChannelTypeOK, QueuesInv, FlowsInv, NEW w \in Workers, NEW r \in Requests,
           wstate[w] = "ready", ClientSend(w, r), got[r] = 0, got' = got
    PROVE  FlowsInv'
  <1> USE DEF ChannelTypeOK, ClientSend
  <1>1. \A i \in 1..Len(results[w]) : results[w][i].req = NoReq
    BY DEF QueuesInv, QueueOf
  <1>2. child[w] = "serving" => Len(results[w]) = 0
    <2>1. Len(results[w]) \in Nat /\ (Len(results[w]) # 0 => 1 \in 1..Len(results[w]))
      BY LenProperties
    <2> QED BY <1>1, <2>1 DEF QueuesInv, QueueOf
  <1>3. \A i \in 1..Len(results[w]) : results[w][i].what = "error"
    BY <1>1 DEF FlowsInv, FlowOf
  <1>4. FlowOf(w)'
    BY <1>1, <1>2, <1>3 DEF FlowOf, Fits
  <1> QED BY <1>4, OneFlow

LEMMA FailFlow ==
    ASSUME ChannelTypeOK, FlowsInv, NEW w \in Workers, ClientFail(w), got' = got
    PROVE  FlowsInv'
  <1>1. FlowOf(w)'
    BY DEF FlowsInv, FlowOf, ClientFail, ChannelTypeOK
  <1> QED BY <1>1, OneFlow DEF ClientFail, ChannelTypeOK

LEMMA StopFlow ==
    ASSUME ChannelTypeOK, FlowsInv, NEW w \in Workers, ClientStop(w) \/ ClientCut(w), got' = got
    PROVE  FlowsInv'
  <1>1. results'[w] = <<>> /\ wstate'[w] = "stopped"
    BY DEF ClientStop, ClientCut, ChannelTypeOK
  <1>2. FlowOf(w)'
    BY <1>1, EmptySeq DEF FlowOf
  <1> QED BY <1>2, OneFlow DEF ClientStop, ClientCut, ChannelTypeOK

LEMMA UnchangedFlow ==
    ASSUME FlowsInv, UNCHANGED channelVars, got' = got
    PROVE  FlowsInv'
  BY DEF FlowsInv, FlowOf, channelVars

\* A child's message m follows what is in the queue.

\* A child's message m follows what is in the queue.
LEMMA PutFlow ==
    ASSUME ChannelTypeOK, NEW w \in Workers, FlowOf(w), NEW m \in Message, Put(w, m),
           wstate' = wstate, wactive' = wactive, got' = got,
           wstate[w] = "busy" => got[wactive[w]] \in Nat,
           m.req = NoReq => m.what = "error",
           wstate[w] = "busy" => Fits(m, got[wactive[w]] + Len(results[w])),
           wstate[w] = "busy" /\ child'[w] = "serving" /\ job'[w] # NoReq
             => made'[w] = got[wactive[w]] + Len(results[w]) + 1
    PROVE  FlowOf(w)'
  <1> DEFINE n == Len(results[w])
             q == results'[w]
  <1>1. /\ n \in Nat /\ Len(q) = n + 1 /\ q[n + 1] = m
        /\ \A i \in 1..n : q[i] = results[w][i]
    BY PutProperties
  <1>2. \A i \in 1..Len(q) : i \in 1..n \/ i = n + 1
    BY <1>1
  <1>3. \A i \in 1..Len(q) : q[i].req = NoReq => q[i].what = "error"
    BY <1>1, <1>2 DEF FlowOf
  <1>4. ASSUME wstate[w] = "busy"
        PROVE  /\ \A i \in 1..Len(q) : Fits(q[i], got[wactive[w]] + i - 1)
               /\ child'[w] = "serving" /\ job'[w] # NoReq => made'[w] = got[wactive[w]] + Len(q)
    <2>1. got[wactive[w]] + (n + 1) - 1 = got[wactive[w]] + n
      BY <1>1, <1>4
    <2>2. Fits(q[n + 1], got[wactive[w]] + (n + 1) - 1)
      BY <1>1, <1>4, <2>1
    <2>3. \A i \in 1..n : Fits(q[i], got[wactive[w]] + i - 1)
      BY <1>1, <1>4 DEF FlowOf
    <2>4. got[wactive[w]] + n + 1 = got[wactive[w]] + Len(q)
      BY <1>1, <1>4
    <2> QED BY <1>2, <1>4, <2>2, <2>3, <2>4
  <1> QED BY <1>3, <1>4 DEF FlowOf

LEMMA ChildFlow ==
    ASSUME ChannelTypeOK, QueuesInv, FlowsInv, got' = got, NEW w \in Workers,
           wstate[w] = "busy" => got[wactive[w]] \in Nat,
           ChildServe(w) \/ ChildFault(w) \/ ChildExit(w) \/ ChildCrash(w)
    PROVE  FlowsInv'
  <1> USE DEF ChannelTypeOK
  <1>0. FlowOf(w) /\ JobOf(w) /\ Len(results[w]) \in Nat
    BY LenProperties DEF FlowsInv, QueuesInv
  <1>1. CASE ChildChunk(w)
    <2> DEFINE m == Msg(job[w], "chunk", made[w] + 1)
    <2>1. /\ child[w] = "serving" /\ job[w] \in Requests /\ job[w] # NoReq /\ made[w] < MaxChunks
          /\ made' = [made EXCEPT ![w] = @ + 1]
          /\ Put(w, m) /\ UNCHANGED <<wstate, wactive, child, job>>
      BY <1>1 DEF ChildChunk
    <2>2. made[w] + 1 \in 0..MaxChunks
      BY <2>1
    <2>3. m \in Message /\ m.req = job[w] /\ m.what = "chunk" /\ m.n = made[w] + 1
      BY <2>1, <2>2, MsgParts DEF ChildCodes, OptRequest, Msg
    <2> HIDE DEF m
    <2>4. wstate[w] = "busy" => made[w] = got[wactive[w]] + Len(results[w])
      BY <1>0, <2>1 DEF FlowOf
    <2>5. wstate[w] = "busy" => Fits(m, got[wactive[w]] + Len(results[w]))
      BY <2>3, <2>4 DEF Fits
    <2>6. wstate[w] = "busy" => made'[w] = got[wactive[w]] + Len(results[w]) + 1
      BY <2>1, <2>4
    <2>7. FlowOf(w)'
      BY <1>0, <2>1, <2>3, <2>5, <2>6, PutFlow
    <2> QED BY <2>1, <2>7, OneFlow DEF Put
  <1>2. CASE ChildFinish(w)
    <2>1. /\ child[w] = "serving" /\ job[w] \in Requests /\ job[w] # NoReq
          /\ job' = [job EXCEPT ![w] = NoReq] /\ UNCHANGED <<wstate, wactive, child, made>>
      BY <1>2 DEF ChildFinish, OptRequest
    <2>2. PICK code \in ChildCodes \ {"chunk"}, n \in 0..MaxChunks :
            Put(w, Msg(job[w], code, n)) /\ (code = "end" => n = made[w])
      BY <1>2 DEF ChildFinish, ChildCodes
    <2> DEFINE m == Msg(job[w], code, n)
    <2>3. /\ m \in Message /\ m.req = job[w] /\ Put(w, m) /\ m.what # "chunk"
          /\ m.what = "end" => m.n = made[w]
      BY <2>1, <2>2, MsgParts DEF OptRequest, Msg
    <2> HIDE DEF m
    <2>4. wstate[w] = "busy" => made[w] = got[wactive[w]] + Len(results[w])
      BY <1>0, <2>1 DEF FlowOf
    <2>5. wstate[w] = "busy" => Fits(m, got[wactive[w]] + Len(results[w]))
      BY <2>3, <2>4 DEF Fits
    <2>6. job'[w] = NoReq
      BY <2>1
    <2>7. FlowOf(w)'
      BY <1>0, <2>1, <2>3, <2>5, <2>6, PutFlow
    <2> QED BY <2>1, <2>3, <2>7, OneFlow DEF Put
  <1>3. CASE ChildFault(w)
    <2> DEFINE m == Msg(NoReq, "error", 0)
    <2>1. /\ Put(w, m) /\ UNCHANGED <<wstate, wactive, job, made>>
          /\ child' = [child EXCEPT ![w] = "exiting"]
      BY <1>3 DEF ChildFault
    <2>2. m \in Message /\ m.what = "error"
      <3>1. NoReq \in OptRequest /\ "error" \in ChildCodes /\ 0 \in 0..MaxChunks
        BY DEF ChildCodes, OptRequest
      <3> QED BY <3>1, MsgParts DEF Msg
    <2> HIDE DEF m
    <2>3. child'[w] # "serving" /\ \A k : Fits(m, k)
      BY <2>1, <2>2 DEF Fits
    <2>4. FlowOf(w)'
      BY <1>0, <2>1, <2>2, <2>3, PutFlow
    <2> QED BY <2>1, <2>4, OneFlow DEF Put
  <1>4. CASE ChildExit(w) \/ ChildCrash(w)
    <2>1. child'[w] \in {"deaf", "dead"}
      BY <1>4 DEF ChildExit, ChildCrash, ChannelTypeOK
    <2>2. FlowOf(w)'
      BY <1>0, <1>4, <2>1 DEF ChildExit, ChildCrash, FlowOf
    <2> QED BY <1>4, <2>2, OneFlow DEF ChildExit, ChildCrash
  <1> QED BY <1>1, <1>2, <1>3, <1>4 DEF ChildServe

\* A message that is taken moves the numbers of its own request only.
LEMMA ReceiveFlow ==
    ASSUME TypeOK, CoupledInv, QueuesInv, ServedOnce, FlowsInv, CanReceive,
           NEW w \in Workers, w = cursor, ClientReceive(w, Inbox), got \in [Requests -> Nat],
           \A r \in Requests :
             got'[r] = got[r] + (IF Inbox.req = r /\ ~Terminal(Inbox) THEN 1 ELSE 0)
    PROVE  FlowsInv'
  <1> DEFINE q == results[w]
             m == Inbox
  <1>1. /\ w \in Workers /\ wstate[w] = "busy" /\ q # <<>> /\ q \in Seq(Message)
        /\ wactive[w] = active[w] /\ active[w] \in Requests /\ ChannelTypeOK
    BY DEF CanReceive, TypeOK, ChannelTypeOK, CoupledInv, Coupled, OptRequest
  <1>2. /\ 1 \in 1..Len(q) /\ m = q[1] /\ Len(q) \in Nat
        /\ Len(Tail(q)) = Len(q) - 1
        /\ \A i \in 1..(Len(q) - 1) : Tail(q)[i] = q[i + 1]
    BY <1>1, EmptySeq, LenProperties, HeadTailProperties DEF Inbox
  <1>3. ~IsMismatch(w, m) /\ (m.req # NoReq => m.req = active[w])
    BY InboxNames
  <1>4. /\ results' = [results EXCEPT ![w] = Tail(@)]
        /\ wstate' = [wstate EXCEPT ![w] = IF Terminal(m) THEN "ready" ELSE @]
        /\ wactive' = [wactive EXCEPT ![w] = IF Terminal(m) THEN NoReq ELSE @]
        /\ UNCHANGED <<child, job, made>>
    BY <1>3 DEF ClientReceive, Terminal
  <1>5. FlowOf(w)
    BY <1>1 DEF FlowsInv
  <1>6. \A i \in 1..Len(Tail(q)) : i + 1 \in 1..Len(q) /\ Tail(q)[i] = q[i + 1]
    BY <1>2
  <1>7. \A i \in 1..Len(Tail(q)) : Tail(q)[i].req = NoReq => Tail(q)[i].what = "error"
    BY <1>5, <1>6 DEF FlowOf
  <1>8. results'[w] = Tail(q)
    BY <1>1, <1>4 DEF ChannelTypeOK
  <1>9. FlowOf(w)'
    <2>1. CASE Terminal(m)
      <3>1. wstate'[w] = "ready"
        BY <1>1, <1>4, <2>1 DEF ChannelTypeOK
      <3> QED BY <1>7, <1>8, <3>1 DEF FlowOf
    <2>2. CASE ~Terminal(m)
      <3>1. m.req = wactive[w]
        BY <1>1, <1>2, <1>3, <1>5, <2>2 DEF FlowOf, Terminal
      <3>2. wactive'[w] = wactive[w] /\ got'[wactive[w]] = got[wactive[w]] + 1
        BY <1>1, <1>4, <2>2, <3>1 DEF ChannelTypeOK
      <3>3. got[wactive[w]] \in Nat
        BY <1>1
      <3>4. ASSUME NEW i \in 1..Len(Tail(q))
            PROVE  Fits(Tail(q)[i], got'[wactive[w]] + i - 1)
        <4>1. Fits(q[i + 1], got[wactive[w]] + (i + 1) - 1)
          BY <1>1, <1>5, <1>6 DEF FlowOf
        <4>2. got[wactive[w]] + (i + 1) - 1 = got'[wactive[w]] + i - 1
          BY <1>2, <3>2, <3>3
        <4> QED BY <1>6, <4>1, <4>2
      <3>5. child[w] = "serving" /\ job[w] # NoReq => made[w] = got'[wactive[w]] + Len(Tail(q))
        <4>1. child[w] = "serving" /\ job[w] # NoReq => made[w] = got[wactive[w]] + Len(q)
          BY <1>1, <1>5 DEF FlowOf
        <4> QED BY <1>2, <3>2, <3>3, <4>1
      <3> QED BY <1>4, <1>7, <1>8, <3>2, <3>4, <3>5 DEF FlowOf
    <2> QED BY <2>1, <2>2
  <1>10. ASSUME NEW v \in Workers \ {w}, wstate[v] = "busy"
         PROVE  got'[wactive[v]] = got[wactive[v]]
    <2>1. wactive[v] = active[v] /\ active[v] \in Requests
      BY <1>10 DEF TypeOK, CoupledInv, Coupled, OptRequest
    <2>2. active[v] # active[w]
      BY <1>1, <2>1 DEF ServedOnce
    <2>3. ~(m.req = active[v] /\ ~Terminal(m))
      BY <1>3, <2>1, <2>2
    <2> QED BY <2>1, <2>3
  <1> QED BY <1>1, <1>4, <1>9, <1>10, OneFlow DEF ChannelTypeOK

---------------------------------------------------------------------------
\* Every step

\* Only an id that was never submitted joins the queue.
LEMMA QueuedFrom ==
    ASSUME TypeOK, CoupledInv, QueuesInv, OncePlaced, [Next]_vars
    PROVE  /\ submitted \subseteq submitted'
           /\ \A r \in Requests : Queued(r)' => Queued(r) \/ r \notin submitted
  <1>a. pending \in Seq(Requests) /\ QueuedOnce(pending)
    BY DEF TypeOK, OncePlaced
  <1>1. ASSUME NEW r \in Requests, Submit(r)
        PROVE  /\ submitted \subseteq submitted'
               /\ \A q \in Requests : Queued(q)' => Queued(q) \/ q \notin submitted
    <2>1. CASE SubmitDispatch(r) \/ SubmitToDead(r)
      <3>1. pending' = pending /\ submitted \subseteq submitted'
        BY <2>1 DEF SubmitDispatch, SubmitToDead
      <3> QED BY <3>1, PlacesOf
    <2>2. CASE SubmitQueue(r)
      <3>1. pending' = Append(pending, r) /\ r \notin submitted /\ submitted \subseteq submitted'
        BY <2>2 DEF SubmitQueue, Admissible
      <3> QED BY <1>a, <3>1, AppendQueue, PlacesOf
    <2> QED BY <1>1, <2>1, <2>2 DEF Submit
  <1>2. ASSUME NEW r \in Requests, Cancel(r)
        PROVE  submitted' = submitted /\ \A q \in Requests : Queued(q)' => Queued(q)
    <2>1. CASE CancelPending(r)
      <3>1. PICK i \in 1..Len(pending) : pending' = RemoveAt(pending, i) /\ submitted' = submitted
        BY <2>1 DEF CancelPending
      <3> QED BY <1>a, <3>1, RemoveAtQueue, PlacesOf
    <2>2. CASE CancelActive(r)
      <3>1. PICK w \in Workers : pending' = Kept(pending, Healthy \ {w}) /\ submitted' = submitted
        BY <2>2 DEF CancelActive
      <3> QED BY <1>a, <3>1, KeptQueue, PlacesOf
    <2> QED BY <1>2, <2>1, <2>2 DEF Cancel
  <1>3. CASE Poll \/ Close
    BY <1>3, PollOnward, CloseOnward DEF OnlyOnward
  <1>4. CASE (\E w \in Workers : Child(w)) \/ UNCHANGED vars
    <2>1. UNCHANGED <<pending, submitted>>
      BY <1>4 DEF Child, vars
    <2> QED BY <2>1, PlacesOf
  <1> QED BY <1>1, <1>2, <1>3, <1>4 DEF Next

\* Nothing but a message that is taken moves the numbers.
LEMMA StepOrder ==
    ASSUME TypeOK, StreamInOrder, [Next]_vars, ~ReceiveTerminal, ~ReceiveOther
    PROVE  StreamInOrder' /\ got' = got
  <1>a. pending \in Seq(Requests) /\ events \in Seq(Event) /\ active \in [Workers -> OptRequest]
    BY DEF TypeOK
  <1>b. {"cancelled", "no_healthy_worker", "queue_timeout", "inference_timeout", "worker_exited"}
        \subseteq Codes \ {"chunk", "end"}
    BY DEF Codes
  <1>1. ASSUME NEW r \in Requests, CancelActive(r) PROVE StreamInOrder' /\ got' = got
    <2>1. PICK w \in Workers : events' = events \o Failed(pending, Healthy \ {w}) /\ heard' = heard
      BY <1>1 DEF CancelActive
    <2> QED BY <1>a, <2>1, KeptType, MuteEvents, OrderConcat
  <1>2. CASE ExpireActive \/ ReceiveExited
    <2>1. PICK code \in {"inference_timeout", "worker_exited"} :
            events' = Append(events, Msg(active[cursor], code, 0)) /\ heard' = heard /\ cursor \in Workers
      BY <1>2 DEF ExpireActive, ReceiveExited, historyVars
    <2> DEFINE e == Msg(active[cursor], code, 0)
    <2>2. e \in Event /\ e.what = code
      BY <1>a, <1>b, <2>1, MsgType DEF Msg
    <2>3. events' = Append(events, e)
      BY <2>1
    <2> HIDE DEF e
    <2>4. events' = events \o <<e>> /\ <<e>> \in Seq(Event)
      BY <1>a, <2>2, <2>3, AppendIsConcat
    <2>5. Mute(<<e>>)
      BY <2>2 DEF Mute
    <2> QED BY <2>1, <2>4, <2>5, OrderConcat
  <1>3. CASE PollExpired
    <2> DEFINE healthy == IF InferenceLimit THEN Healthy ELSE Workers
               queue == Kept(pending, healthy)
               f == Failed(pending, healthy)
    <2>1. PICK k \in 0..MaxPending :
            CanExpire(queue, k) /\ events' = <<>> /\ HandOut(events \o f \o TimedOut(queue, k))
      BY <1>3 DEF PollExpired
    <2> DEFINE t == TimedOut(queue, k)
    <2>2. queue \in Seq(Requests) /\ f \in Seq(Event) /\ Mute(f)
      BY <1>a, KeptType, MuteEvents
    <2>3. t \in Seq(Event) /\ Mute(t)
      BY <2>1, <2>2, ExpiryType, MuteEvents
    <2>4. HandOut((events \o f) \o t)
      BY <2>1
    <2> HIDE DEF f, t
    <2>5. (events \o f) \o t = events \o (f \o t)
      BY <1>a, <2>2, <2>3, ConcatAssociative
    <2>6. f \o t \in Seq(Event) /\ Mute(f \o t)
      BY <2>2, <2>3, MuteConcat
    <2> QED BY <2>1, <2>4, <2>5, <2>6, OrderHandOut
  <1>4. CASE PollEnd
    BY <1>a, <1>4, KeptType, MuteEvents, OrderHandOut DEF PollEnd
  <1>5. CASE CloseBegin
    <2>1. events' = events \o EventsFor(pending, "cancelled") /\ heard' = heard
      BY <1>5 DEF CloseBegin, historyVars
    <2> QED BY <1>a, <1>b, <2>1, EventsForType, MuteEvents, OrderConcat
  <1>6. CASE \/ \E r \in Requests : Submit(r) \/ CancelPending(r)
             \/ PollBegin \/ WithinLimit \/ ReceiveNothing \/ ReceiveTimeout \/ ReceiveRefused
             \/ DispatchNext \/ DispatchToDead \/ DispatchDone
             \/ CloseWorker \/ CloseAborted \/ CloseEnd
             \/ \E w \in Workers : Child(w)
             \/ UNCHANGED vars
    <2>1. UNCHANGED <<events, heard>>
      BY <1>6 DEF Submit, SubmitDispatch, SubmitToDead, SubmitQueue, CancelPending, PollBegin,
                  WithinLimit, ReceiveNothing, ReceiveTimeout, ReceiveRefused, DispatchNext,
                  DispatchToDead, DispatchDone, CloseWorker, CloseAborted, CloseEnd, Child, vars,
                  historyVars
    <2> QED BY <2>1 DEF StreamInOrder, ChunksBefore, got
  <1> QED BY <1>1, <1>2, <1>3, <1>4, <1>5, <1>6 DEF Next, Poll, Close, Cancel

LEMMA StepFlows ==
    ASSUME TypeOK, CoupledInv, QueuesInv, FlowInv, got' = got, [Next]_vars,
           ~ReceiveTerminal, ~ReceiveOther
    PROVE  FlowsInv'
  <1>a. ChannelTypeOK /\ FlowsInv /\ UnservedInv /\ got \in [Requests -> Nat]
    BY GotType DEF TypeOK, FlowInv
  <1>1. ASSUME NEW r \in Requests, Submit(r) PROVE FlowsInv'
    <2>1. CASE SubmitDispatch(r)
      <3>1. PICK w \in Workers : wstate[w] = "ready" /\ ClientSend(w, r)
        BY <2>1 DEF SubmitDispatch, IsFirstReady, Ready
      <3>2. got[r] = 0
        BY <1>a, <2>1 DEF UnservedInv, SubmitDispatch, Admissible
      <3> QED BY <1>a, <3>1, <3>2, SendFlow
    <2>2. CASE SubmitToDead(r) \/ SubmitQueue(r)
      BY <1>a, <2>2, FailFlow, UnchangedFlow DEF SubmitToDead, SubmitQueue
    <2> QED BY <1>1, <2>1, <2>2 DEF Submit
  <1>2. ASSUME NEW r \in Requests, Cancel(r) PROVE FlowsInv'
    BY <1>a, <1>2, StopFlow, UnchangedFlow DEF Cancel, CancelPending, CancelActive
  <1>3. CASE \/ PollBegin \/ WithinLimit \/ PollExpired \/ ReceiveNothing \/ ReceiveTimeout
             \/ ReceiveRefused \/ DispatchDone \/ PollEnd \/ UNCHANGED vars
    <2>1. UNCHANGED channelVars
      BY <1>3 DEF PollBegin, WithinLimit, PollExpired, ReceiveNothing, ReceiveTimeout,
                  ReceiveRefused, DispatchDone, PollEnd, vars
    <2> QED BY <1>a, <2>1, UnchangedFlow
  <1>4. CASE ExpireActive
    BY <1>a, <1>4, StopFlow, UnchangedFlow DEF ExpireActive
  <1>5. CASE ReceiveExited \/ DispatchToDead
    BY <1>a, <1>5, FailFlow DEF ReceiveExited, DispatchToDead
  <1>6. CASE DispatchNext
    <2>1. PICK w \in Workers : wstate[w] = "ready" /\ ClientSend(w, Head(pending))
      BY <1>6 DEF DispatchNext, IsFirstReady, Ready
    <2>2. Head(pending) \in Requests /\ Queued(Head(pending))
      <3>1. pending \in Seq(Requests) /\ pending # <<>>
        BY <1>6 DEF TypeOK, DispatchNext, Dispatchable
      <3>2. 1 \in 1..Len(pending) /\ Head(pending) = pending[1] /\ Head(pending) \in Requests
        BY <3>1, EmptySeq, LenProperties, HeadTailProperties
      <3> QED BY <3>2 DEF Queued, InQueue
    <2>3. got[Head(pending)] = 0
      BY <1>a, <2>2 DEF UnservedInv
    <2> QED BY <1>a, <2>1, <2>2, <2>3, SendFlow
  <1>7. CASE Close
    BY <1>a, <1>7, StopFlow, UnchangedFlow DEF Close, CloseBegin, CloseWorker, CloseAborted, CloseEnd
  <1>8. ASSUME NEW w \in Workers, Child(w) PROVE FlowsInv'
    <2>1. wstate[w] = "busy" => wactive[w] \in Requests
      BY DEF CoupledInv, Coupled, TypeOK, OptRequest
    <2> QED BY <1>a, <1>8, <2>1, ChildFlow DEF Child
  <1> QED BY <1>1, <1>2, <1>3, <1>4, <1>5, <1>6, <1>7, <1>8 DEF Next, Poll

LEMMA ReceiveStep ==
    ASSUME TypeOK, CoupledInv, QueuesInv, OncePlaced, FlowInv, ReceiveTerminal \/ ReceiveOther
    PROVE  /\ StreamInOrder' /\ FlowsInv'
           /\ \A r \in Requests : got'[r] = got[r] \/ Serving(r)
  <1>1. PICK w \in Workers : w = cursor /\ CanReceive /\ ClientReceive(w, Inbox) /\ heard' = heard
    BY DEF ReceiveTerminal, ReceiveOther, CanReceive, historyVars
  <1>2. /\ Inbox \in Event /\ ~IsMismatch(cursor, Inbox)
        /\ Inbox.req # NoReq => Inbox.req = active[w]
    BY <1>1, InboxNames
  <1>3. PICK b \in Seq(Event) : Mute(b) /\ events' = Append(events, Inbox) \o b
    <2>a. pending \in Seq(Requests) /\ events \in Seq(Event) /\ Append(events, Inbox) \in Seq(Event)
      BY <1>2, AppendProperties DEF TypeOK
    <2>1. CASE ReceiveTerminal
      <3>1. PICK k \in 0..MaxPending :
              CanExpire(pending, k) /\ events' = Append(events, Inbox) \o TimedOut(pending, k)
        BY <2>1 DEF ReceiveTerminal
      <3> QED BY <2>a, <3>1, ExpiryType, MuteEvents
    <2>2. CASE ReceiveOther
      <3>1. events' = Append(events, Inbox)
        BY <1>2, <2>2 DEF ReceiveOther
      <3>2. <<>> \in Seq(Event) /\ Mute(<<>>) /\ events' = Append(events, Inbox) \o <<>>
        BY <2>a, <3>1, ConcatEmptySeq, EmptySeq DEF Mute
      <3> QED BY <3>2
    <2> QED BY <2>1, <2>2
  <1>4. Inbox.what \in {"chunk", "end"} => Inbox.req # NoReq /\ Fits(Inbox, got[Inbox.req])
    <2>1. /\ FlowOf(w) /\ wstate[w] = "busy" /\ wactive[w] = active[w]
          /\ results[w] \in Seq(Message) /\ results[w] # <<>>
      BY <1>1 DEF FlowInv, FlowsInv, CanReceive, CoupledInv, Coupled, TypeOK, ChannelTypeOK
    <2>2. 1 \in 1..Len(results[w]) /\ Inbox = results[w][1]
      BY <1>1, <2>1, EmptySeq, LenProperties, HeadTailProperties DEF Inbox
    <2>3. got[active[w]] \in Nat
      BY <1>1, GotType DEF CanReceive, CoupledInv, Coupled, TypeOK, OptRequest
    <2>4. Fits(Inbox, got[active[w]] + 1 - 1)
      BY <2>1, <2>2 DEF FlowOf
    <2>5. got[active[w]] + 1 - 1 = got[active[w]]
      BY <2>3
    <2> QED BY <1>2, <2>1, <2>2, <2>4, <2>5 DEF FlowOf
  <1>5. /\ StreamInOrder'
        /\ \A r \in Requests :
             got'[r] = got[r] + (IF Inbox.req = r /\ ~Terminal(Inbox) THEN 1 ELSE 0)
    BY <1>1, <1>2, <1>3, <1>4, OrderAppend DEF FlowInv
  <1>6. FlowsInv'
    BY <1>1, <1>5, GotType, ReceiveFlow DEF FlowInv, OncePlaced
  <1>7. ASSUME NEW r \in Requests PROVE got'[r] = got[r] \/ Serving(r)
    <2>1. CASE Inbox.req = r
      BY <1>1, <1>2, <2>1 DEF Serving
    <2>2. CASE Inbox.req # r
      BY <1>5, <2>2, GotType
    <2> QED BY <2>1, <2>2
  <1> QED BY <1>5, <1>6, <1>7

LEMMA StepFlow == TypeOK /\ CoupledInv /\ QueuesInv /\ OncePlaced /\ FlowInv /\ [Next]_vars => FlowInv'
  <1> SUFFICES ASSUME TypeOK, CoupledInv, QueuesInv, OncePlaced, FlowInv, [Next]_vars PROVE FlowInv'
    OBVIOUS
  <1>1. /\ StreamInOrder' /\ FlowsInv'
        /\ \A r \in Requests : got'[r] = got[r] \/ Serving(r)
    <2>1. CASE ReceiveTerminal \/ ReceiveOther
      BY <2>1, ReceiveStep
    <2>2. CASE ~ReceiveTerminal /\ ~ReceiveOther
      BY <2>2, StepOrder, StepFlows DEF FlowInv
    <2> QED BY <2>1, <2>2
  <1>2. UnservedInv'
    <2> SUFFICES ASSUME NEW r \in Requests, r \notin submitted' \/ Queued(r)' PROVE got'[r] = 0
      BY DEF UnservedInv
    <2>1. r \notin submitted \/ Queued(r)
      BY QueuedFrom
    <2>2. ~Serving(r)
      BY <2>1, ExclusiveOf DEF Exclusive
    <2> QED BY <1>1, <2>1, <2>2 DEF FlowInv, UnservedInv
  <1> QED BY <1>1, <1>2 DEF FlowInv

LEMMA SpecFlow == Spec => []FlowInv
  <1>1. Init => FlowInv
    <2> SUFFICES ASSUME Init PROVE FlowInv
      OBVIOUS
    <2>1. events = <<>> /\ Len(events) = 0 /\ heard = [r \in Requests |-> 0]
      BY EmptySeq DEF Init
    <2>2. \A r \in Requests : got[r] = 0
      <3>1. \A r : ChunksOf(r, events) = {}
        BY <2>1 DEF ChunksOf
      <3>2. \A r \in Requests : heard[r] + Cardinality(ChunksOf(r, events)) = 0
        <4>1. \A r \in Requests : heard[r] = 0 /\ Cardinality(ChunksOf(r, events)) = 0
          BY <2>1, <3>1, FS_EmptySet
        <4> QED BY <4>1
      <3> QED BY <3>2 DEF got
    <2>3. \A w \in Workers : results[w] = <<>> /\ wstate[w] = "ready"
      BY DEF Init, ChannelInit
    <2>4. FlowsInv
      BY <2>3, EmptySeq DEF FlowsInv, FlowOf
    <2> QED BY <2>1, <2>2, <2>4 DEF FlowInv, StreamInOrder, UnservedInv
  <1>2. TypeOK /\ CoupledInv /\ QueuesInv /\ OncePlaced /\ FlowInv /\ [Next]_vars => FlowInv'
    BY StepFlow
  <1> QED BY <1>1, <1>2, TypeCorrect, SpecCoupledInv, SpecQueues, PlacedOnce, PTL DEF Spec

\* A stream reaches the caller of poll chunk by chunk in the order in which the
\* child numbered them, and its end counts them all: for every length of the
\* result queue, through every poll that ends early, whichever worker serves it.
THEOREM StreamsInOrder == Spec => []StreamInOrder
  <1>1. FlowInv => StreamInOrder
    BY DEF FlowInv
  <1> QED BY <1>1, SpecFlow, PTL

---------------------------------------------------------------------------
(* What one poll returns                                                   *)

OneChunk(evs) ==
    \A i, j \in 1..Len(evs) :
        evs[i].what = "chunk" /\ evs[j].req = evs[i].req
        => IF Terminal(evs[j]) THEN i < j ELSE i = j

\* The requests that evs has a chunk of.
SpokenFor(evs) == {evs[i].req : i \in {k \in 1..Len(evs) : ~Terminal(evs[k])}}

\* In the middle of a poll they have been polled and are still served: what a poll
\* that raised has kept is returned before any worker is asked.
Polled ==
    pc \in {"get", "check", "dispatch"} =>
        \A r \in SpokenFor(events) : r # NoReq /\ \E w \in Workers : w < cursor /\ active[w] = r

LEMMA ReplyConcat ==
    ASSUME NEW a \in Seq(Event), NEW b \in Seq(Event), OneChunk(a), Mute(b)
    PROVE  OneChunk(a \o b) /\ SpokenFor(a \o b) \subseteq SpokenFor(a)
  <1> DEFINE c == a \o b
  <1>1. /\ Len(a) \in Nat /\ Len(b) \in Nat /\ Len(c) = Len(a) + Len(b)
        /\ \A i \in 1..(Len(a) + Len(b)) : c[i] = IF i <= Len(a) THEN a[i] ELSE b[i - Len(a)]
    BY ConcatProperties, LenProperties
  <1> HIDE DEF c
  <1>2. ASSUME NEW i \in 1..Len(c), ~(i <= Len(a)) PROVE Terminal(c[i])
    <2>1. i - Len(a) \in 1..Len(b) /\ c[i] = b[i - Len(a)]
      BY <1>1, <1>2
    <2> QED BY <2>1 DEF Mute, Terminal
  <1>3. ASSUME NEW i \in 1..Len(c), ~Terminal(c[i]) PROVE i \in 1..Len(a) /\ c[i] = a[i]
    BY <1>1, <1>2, <1>3
  <1>4. SpokenFor(c) \subseteq SpokenFor(a)
    BY <1>3 DEF SpokenFor
  <1>5. ASSUME NEW i \in 1..Len(c), NEW j \in 1..Len(c), c[i].what = "chunk", c[j].req = c[i].req
        PROVE  IF Terminal(c[j]) THEN i < j ELSE i = j
    <2>1. i \in 1..Len(a) /\ c[i] = a[i]
      BY <1>3, <1>5 DEF Terminal
    <2>2. CASE j <= Len(a)
      <3>1. j \in 1..Len(a) /\ c[j] = a[j]
        BY <1>1, <2>2
      <3> QED BY <1>5, <2>1, <3>1 DEF OneChunk
    <2>3. CASE ~(j <= Len(a))
      <3>1. Terminal(c[j]) /\ i < j
        BY <1>1, <1>2, <2>1, <2>3
      <3> QED BY <3>1
    <2> QED BY <2>2, <2>3
  <1>6. OneChunk(c)
    BY <1>5 DEF OneChunk
  <1> QED BY <1>4, <1>6 DEF c

LEMMA ReplyAppend ==
    ASSUME NEW a \in Seq(Event), NEW e \in Event, OneChunk(a),
           Terminal(e) \/ \A i \in 1..Len(a) : a[i].req # e.req
    PROVE  /\ OneChunk(Append(a, e))
           /\ SpokenFor(Append(a, e)) \subseteq SpokenFor(a) \cup (IF Terminal(e) THEN {} ELSE {e.req})
  <1> DEFINE c == Append(a, e)
             n == Len(a)
  <1>1. n \in Nat /\ Len(c) = n + 1 /\ c[n + 1] = e /\ \A i \in 1..n : c[i] = a[i]
    BY AppendProperties, LenProperties
  <1>2. \A i \in 1..Len(c) : i \in 1..n \/ i = n + 1
    BY <1>1
  <1> HIDE DEF c, n
  <1>3. SpokenFor(c) \subseteq SpokenFor(a) \cup (IF Terminal(e) THEN {} ELSE {e.req})
    BY <1>1, <1>2 DEF SpokenFor, n
  <1>4. ASSUME NEW i \in 1..Len(c), NEW j \in 1..Len(c), c[i].what = "chunk", c[j].req = c[i].req
        PROVE  IF Terminal(c[j]) THEN i < j ELSE i = j
    <2>1. CASE i \in 1..n /\ j \in 1..n
      BY <1>1, <1>4, <2>1 DEF OneChunk, n
    <2>2. CASE i \in 1..n /\ j = n + 1
      <3>1. c[i] = a[i] /\ c[j] = e /\ i < j /\ a[i].req = e.req
        BY <1>1, <1>4, <2>2
      <3>2. Terminal(e)
        BY <2>2, <3>1 DEF n
      <3> QED BY <3>1, <3>2
    <2>3. CASE i = n + 1 /\ j \in 1..n
      <3>1. c[i] = e /\ c[j] = a[j] /\ ~Terminal(e) /\ a[j].req = e.req
        BY <1>1, <1>4, <2>3 DEF Terminal
      <3> QED BY <2>3, <3>1 DEF n
    <2>4. CASE i = n + 1 /\ j = n + 1
      BY <1>1, <1>4, <2>4 DEF Terminal
    <2> QED BY <1>2, <2>1, <2>2, <2>3, <2>4
  <1>5. OneChunk(c)
    BY <1>4 DEF OneChunk
  <1> QED BY <1>3, <1>5 DEF c

InPoll == {"get", "check", "dispatch"}

\* Later in the same poll.
LEMMA PolledOn ==
    ASSUME TypeOK, Polled, pc \in InPoll, SpokenFor(events') \subseteq SpokenFor(events),
           cursor' \in Nat, cursor <= cursor',
           \A w \in Workers : w < cursor /\ active[w] # NoReq => active'[w] = active[w]
    PROVE  Polled'
  <1> SUFFICES ASSUME NEW r \in SpokenFor(events')
               PROVE  r # NoReq /\ \E w \in Workers : w < cursor' /\ active'[w] = r
    BY DEF Polled
  <1>1. r # NoReq /\ \E w \in Workers : w < cursor /\ active[w] = r
    BY DEF Polled, InPoll
  <1>2. PICK w \in Workers : w < cursor /\ active[w] = r
    BY <1>1
  <1>3. w \in Nat /\ cursor \in Nat
    BY DEF TypeOK, Workers
  <1>4. w < cursor' /\ active'[w] = r
    BY <1>1, <1>2, <1>3
  <1> QED BY <1>1, <1>4

LEMMA NextIsLater ==
    ASSUME TypeOK, cursor \in Workers, NEW act, GoTo("get", cursor + 1, act)
    PROVE  pc' = "get" /\ cursor' \in Nat /\ cursor < cursor'
  <1>1. cursor \in Nat /\ NumWorkers \in Nat
    BY DEF TypeOK, Workers
  <1> QED BY <1>1 DEF GoTo, IsNextActive

\* The message taken is the worker's whose turn it is, and so the first of its
\* request in this poll.
LEMMA ReceiveReply ==
    ASSUME TypeOK, CoupledInv, QueuesInv, OncePlaced, FlowInv, OneChunk(events), Polled,
           ReceiveTerminal \/ ReceiveOther
    PROVE  OneChunk(events)' /\ Polled'
  <1>a. /\ pending \in Seq(Requests) /\ events \in Seq(Event) /\ active \in [Workers -> OptRequest]
        /\ cursor \in Workers /\ cursor \in Nat /\ wstate[cursor] = "busy"
    BY DEF TypeOK, ReceiveTerminal, ReceiveOther, CanReceive, Workers
  <1>b. /\ Inbox \in Event /\ ~IsMismatch(cursor, Inbox)
        /\ Inbox.req # NoReq => Inbox.req = active[cursor]
        /\ active[cursor] # NoReq
    BY InboxNames DEF ReceiveTerminal, ReceiveOther, CanReceive, CoupledInv, Coupled
  <1>1. CASE ReceiveTerminal
    <2>1. PICK k \in 0..MaxPending :
            CanExpire(pending, k) /\ events' = Append(events, Inbox) \o TimedOut(pending, k)
      BY <1>1 DEF ReceiveTerminal
    <2>2. Terminal(Inbox) /\ active' = [active EXCEPT ![cursor] = NoReq] /\ pc' = "dispatch" /\ cursor' = cursor
          /\ pc = "get"
      BY <1>1 DEF ReceiveTerminal, CanReceive
    <2>3. /\ Append(events, Inbox) \in Seq(Event) /\ OneChunk(Append(events, Inbox))
          /\ SpokenFor(Append(events, Inbox)) \subseteq SpokenFor(events)
      BY <1>a, <1>b, <2>2, ReplyAppend, AppendProperties
    <2>4. TimedOut(pending, k) \in Seq(Event) /\ Mute(TimedOut(pending, k))
      BY <1>a, <2>1, ExpiryType, MuteEvents
    <2>5. OneChunk(events') /\ SpokenFor(events') \subseteq SpokenFor(events)
      BY <2>1, <2>3, <2>4, ReplyConcat
    <2>6. \A w \in Workers : w < cursor /\ active[w] # NoReq => active'[w] = active[w]
      BY <1>a, <2>2 DEF Workers
    <2>7. Polled'
      BY <1>a, <2>2, <2>5, <2>6, PolledOn DEF InPoll
    <2> QED BY <2>5, <2>7 DEF OneChunk
  <1>2. CASE ReceiveOther
    <2>1. /\ ~Terminal(Inbox) /\ active' = active /\ events' = Append(events, Inbox)
          /\ GoTo("get", cursor + 1, active') /\ pc = "get"
      BY <1>b, <1>2 DEF ReceiveOther, CanReceive
    <2>2. pc' = "get" /\ cursor' \in Nat /\ cursor < cursor'
      BY <1>a, <2>1, NextIsLater
    <2>3. Inbox.req = active[cursor]
      <3>1. results[cursor] \in Seq(Message) /\ results[cursor] # <<>>
        BY <1>a, <1>2 DEF ReceiveOther, CanReceive, TypeOK, ChannelTypeOK
      <3>2. 1 \in 1..Len(results[cursor]) /\ Inbox = results[cursor][1]
        BY <3>1, EmptySeq, LenProperties, HeadTailProperties DEF Inbox
      <3>3. Inbox.req = NoReq => Inbox.what = "error"
        BY <1>a, <3>2 DEF FlowInv, FlowsInv, FlowOf
      <3> QED BY <1>b, <2>1, <3>3 DEF Terminal
    <2>4. active[cursor] \in Requests /\ Serving(active[cursor])
      BY <1>a, <1>b DEF Serving, OptRequest
    <2>5. ASSUME NEW i \in 1..Len(events), events[i].req = active[cursor] PROVE FALSE
      <3>1. ~Ends(active[cursor], events)
        BY <2>4 DEF OncePlaced, Answering
      <3>2. ~Terminal(events[i])
        BY <2>5, <3>1 DEF Ends
      <3>3. events[i].req \in SpokenFor(events)
        BY <3>2 DEF SpokenFor
      <3>4. PICK w \in Workers : w < cursor /\ active[w] = active[cursor]
        BY <2>1, <2>5, <3>3 DEF Polled
      <3>5. w = cursor
        BY <1>a, <1>b, <3>4 DEF OncePlaced, ServedOnce
      <3> QED BY <1>a, <3>4, <3>5
    <2>6. OneChunk(events') /\ SpokenFor(events') \subseteq SpokenFor(events) \cup {active[cursor]}
      BY <1>a, <1>b, <2>1, <2>3, <2>5, ReplyAppend
    <2>7. ASSUME NEW r \in SpokenFor(events')
          PROVE  r # NoReq /\ \E w \in Workers : w < cursor' /\ active'[w] = r
      <3>1. CASE r = active[cursor]
        BY <1>a, <1>b, <2>1, <2>2, <3>1
      <3>2. CASE r \in SpokenFor(events)
        <4>1. r # NoReq /\ \E w \in Workers : w < cursor /\ active[w] = r
          BY <2>1, <3>2 DEF Polled
        <4>2. PICK w \in Workers : w < cursor /\ active[w] = r
          BY <4>1
        <4>3. w < cursor'
          BY <1>a, <2>2, <4>2 DEF Workers
        <4> QED BY <2>1, <4>1, <4>2, <4>3
      <3> QED BY <2>6, <3>1, <3>2
    <2> QED BY <2>6, <2>7 DEF Polled, OneChunk
  <1> QED BY <1>1, <1>2

\* No other step adds a chunk.
LEMMA OthersReply ==
    ASSUME TypeOK, [Next]_vars, OneChunk(events), ~ReceiveTerminal, ~ReceiveOther
    PROVE  OneChunk(events') /\ SpokenFor(events') \subseteq SpokenFor(events)
  <1>a. pending \in Seq(Requests) /\ events \in Seq(Event) /\ active \in [Workers -> OptRequest]
    BY DEF TypeOK
  <1>b. {"cancelled", "no_healthy_worker", "queue_timeout", "inference_timeout", "worker_exited"}
        \subseteq Codes \ {"chunk", "end"}
    BY DEF Codes
  <1>1. ASSUME NEW r \in Requests, CancelActive(r)
        PROVE  OneChunk(events') /\ SpokenFor(events') \subseteq SpokenFor(events)
    <2>1. PICK w \in Workers : events' = events \o Failed(pending, Healthy \ {w})
      BY <1>1 DEF CancelActive
    <2> QED BY <1>a, <2>1, KeptType, MuteEvents, ReplyConcat
  <1>2. CASE ExpireActive \/ ReceiveExited
    <2>1. PICK code \in {"inference_timeout", "worker_exited"} :
            events' = Append(events, Msg(active[cursor], code, 0)) /\ cursor \in Workers
      BY <1>2 DEF ExpireActive, ReceiveExited
    <2> DEFINE e == Msg(active[cursor], code, 0)
    <2>2. e \in Event /\ e.what = code
      BY <1>a, <1>b, <2>1, MsgType DEF Msg
    <2>3. Terminal(e) /\ events' = Append(events, e)
      BY <2>1, <2>2 DEF Terminal
    <2> HIDE DEF e
    <2> QED BY <1>a, <2>2, <2>3, ReplyAppend
  <1>3. CASE PollExpired \/ PollEnd
    <2>1. events' = <<>>
      BY <1>3 DEF PollExpired, PollEnd
    <2> QED BY <2>1, EmptySeq DEF OneChunk, SpokenFor
  <1>4. CASE CloseBegin
    <2>1. events' = events \o EventsFor(pending, "cancelled")
      BY <1>4 DEF CloseBegin
    <2> QED BY <1>a, <1>b, <2>1, EventsForType, MuteEvents, ReplyConcat
  <1>5. CASE \/ \E r \in Requests : Submit(r) \/ CancelPending(r)
             \/ PollBegin \/ WithinLimit \/ ReceiveNothing \/ ReceiveTimeout \/ ReceiveRefused
             \/ DispatchNext \/ DispatchToDead \/ DispatchDone
             \/ CloseWorker \/ CloseAborted \/ CloseEnd
             \/ \E w \in Workers : Child(w)
             \/ UNCHANGED vars
    <2>1. events' = events
      BY <1>5 DEF Submit, SubmitDispatch, SubmitToDead, SubmitQueue, CancelPending, PollBegin,
                  WithinLimit, ReceiveNothing, ReceiveTimeout, ReceiveRefused, DispatchNext,
                  DispatchToDead, DispatchDone, CloseWorker, CloseAborted, CloseEnd, Child, vars
    <2> QED BY <2>1
  <1> QED BY <1>1, <1>2, <1>3, <1>4, <1>5 DEF Next, Poll, Close, Cancel

\* The rest of a poll goes on from worker to worker and hands requests to workers
\* that had none.
LEMMA OthersPolled ==
    ASSUME TypeOK, CoupledInv, [Next]_vars, Polled, SpokenFor(events') \subseteq SpokenFor(events),
           ~ReceiveTerminal, ~ReceiveOther
    PROVE  Polled'
  <1>a. /\ cursor \in Nat /\ active \in [Workers -> OptRequest] /\ \A w \in Workers : w \in Nat
        /\ NumWorkers \in Nat
    BY DEF TypeOK, Workers
  <1>1. CASE ReceiveNothing \/ (\E w \in Workers : Child(w)) \/ UNCHANGED vars
    <2>1. active' = active /\ cursor' = cursor /\ (pc' = pc \/ pc \in InPoll)
      BY <1>1 DEF ReceiveNothing, Child, vars, callVars, InPoll
    <2>2. CASE pc \in InPoll
      BY <1>a, <2>1, <2>2, PolledOn
    <2>3. CASE pc \notin InPoll
      BY <2>1, <2>3 DEF Polled, InPoll
    <2> QED BY <2>2, <2>3
  <1>2. CASE ReceiveTimeout \/ DispatchDone
    <2>1. active' = active /\ pc \in InPoll /\ GoTo("get", cursor + 1, active)
      BY <1>2 DEF ReceiveTimeout, DispatchDone, InPoll
    <2>2. cursor' \in Nat /\ cursor <= cursor'
      BY <1>a, <2>1 DEF GoTo, IsNextActive
    <2> QED BY <2>1, <2>2, PolledOn
  <1>3. CASE ReceiveExited
    <2>1. active' = [active EXCEPT ![cursor] = NoReq] /\ pc \in InPoll /\ cursor \in Workers
          /\ GoTo("get", cursor + 1, active')
      BY <1>3 DEF ReceiveExited, InPoll
    <2>2. cursor' \in Nat /\ cursor < cursor'
      BY <2>1, NextIsLater
    <2>3. \A w \in Workers : w < cursor /\ active[w] # NoReq => active'[w] = active[w]
      BY <1>a, <2>1
    <2> QED BY <1>a, <2>1, <2>2, <2>3, PolledOn
  <1>4. CASE DispatchNext
    <2>1. PICK w \in Workers : wstate[w] = "ready" /\ active' = [active EXCEPT ![w] = Head(pending)]
      BY <1>4 DEF DispatchNext, IsFirstReady, Ready
    <2>2. pc \in InPoll /\ cursor' = cursor
      BY <1>4 DEF DispatchNext, Dispatchable, callVars, InPoll
    <2>3. active[w] = NoReq
      BY <2>1, IdleWorker
    <2>4. \A v \in Workers : v < cursor /\ active[v] # NoReq => active'[v] = active[v]
      BY <1>a, <2>1, <2>3
    <2> QED BY <1>a, <2>2, <2>4, PolledOn
  <1>5. CASE PollExpired
    <2>1. events' = <<>>
      BY <1>5 DEF PollExpired
    <2>2. SpokenFor(events') = {}
      BY <2>1, EmptySeq DEF SpokenFor
    <2> QED BY <2>2 DEF Polled
  <1>6. CASE \/ \E r \in Requests : Submit(r) \/ Cancel(r)
             \/ PollBegin \/ WithinLimit \/ ExpireActive
             \/ ReceiveRefused \/ DispatchToDead \/ PollEnd
             \/ CloseBegin \/ CloseWorker \/ CloseAborted \/ CloseEnd
    <2>1. pc' \notin InPoll
      BY <1>6 DEF Submit, SubmitDispatch, SubmitToDead, SubmitQueue, Admissible, Cancel, CancelPending, CancelActive,
                  PollBegin, WithinLimit, ExpireActive, ReceiveRefused, DispatchToDead, PollEnd, GoTo, ReturnCall,
                  CloseBegin, CloseWorker, CloseAborted, CloseEnd, callVars, InPoll
    <2> QED BY <2>1 DEF Polled, InPoll
  <1> QED BY <1>1, <1>2, <1>3, <1>4, <1>5, <1>6 DEF Next, Poll, Close

\* What ApiRuntime's Poll relies on: for any pool, a poll returns one chunk of a
\* request at most and nothing of it after its last event, those of a poll that
\* raised included.
THEOREM OneChunkEach == Spec => []OneChunkAPoll
  <1> DEFINE ReplyInv == OneChunk(events) /\ Polled
  <1>1. Init => ReplyInv
    <2> SUFFICES ASSUME Init PROVE ReplyInv
      OBVIOUS
    <2>1. events = <<>> /\ pc = "idle"
      BY DEF Init
    <2> QED BY <2>1, EmptySeq DEF OneChunk, Polled
  <1>2. TypeOK /\ CoupledInv /\ QueuesInv /\ OncePlaced /\ FlowInv /\ ReplyInv /\ [Next]_vars => ReplyInv'
    <2> SUFFICES ASSUME TypeOK, CoupledInv, QueuesInv, OncePlaced, FlowInv, ReplyInv, [Next]_vars
                 PROVE  ReplyInv'
      OBVIOUS
    <2>1. CASE ReceiveTerminal \/ ReceiveOther
      BY <2>1, ReceiveReply
    <2>2. CASE ~ReceiveTerminal /\ ~ReceiveOther
      BY <2>2, OthersReply, OthersPolled DEF OneChunk
    <2> QED BY <2>1, <2>2
  <1>3. ReplyInv => OneChunkAPoll
    BY DEF OneChunk, OneChunkAPoll
  <1> QED BY <1>1, <1>2, <1>3, TypeCorrect, SpecCoupledInv, SpecQueues, PlacedOnce, SpecFlow, PTL DEF Spec

---------------------------------------------------------------------------
(* How many requests a dying child costs                                   *)

\* A child puts one error without a request id at most: its last message.
NamelessInv ==
    \A w \in Workers : \A i, j \in 1..Len(results[w]) :
        results[w][i].req = NoReq /\ results[w][j].req = NoReq => i = j

\* The dead that have cost the request their nameless error ends, or have none
\* to put, and the dead that can no longer be sent one.
Lost == {r \in Requests : Forgotten(r)}
Struck == {w \in Deaths : \A i \in 1..Len(results[w]) : results[w][i].req # NoReq}
Gone == {w \in Deaths : Down(w)}

LostInv == ~closed => IsFiniteSet(Lost) /\ Cardinality(Lost) <= Cardinality(Struck) + Cardinality(Gone)

CostInv ==
    /\ ChildrenInv
    /\ CursorInv
    /\ pc = "close" => closed
    /\ NamelessInv
    /\ LostInv

\* A result queue is emptied from the front, or at once, and only a serving
\* child adds to it.
QueueMoves(w) ==
    \/ results'[w] \in {results[w], <<>>}
    \/ results[w] # <<>> /\ results'[w] = Tail(results[w])
    \/ child[w] = "serving" /\ \E m \in Message : results'[w] = Append(results[w], m)

LEMMA StepQueue ==
    ASSUME TypeOK, CursorInv, [Next]_vars, NEW v \in Workers
    PROVE  QueueMoves(v)
  <1> USE DEF TypeOK, ChannelTypeOK, QueueMoves
  <1>1. CASE UNCHANGED channelVars
    BY <1>1 DEF channelVars
  <1>2. ASSUME NEW w \in Workers, Touched(w) PROVE QueueMoves(v)
    <2>1. CASE \/ ClientFail(w) \/ ClientStop(w) \/ ClientCut(w)
               \/ (\E r : ClientSend(w, r)) \/ ChildExit(w) \/ ChildCrash(w)
      BY <2>1 DEF ClientFail, ClientStop, ClientCut, ClientSend, ChildExit, ChildCrash
    <2>2. CASE results[w] # <<>> /\ \E m : ClientReceive(w, m)
      BY <2>2 DEF ClientReceive
    <2>3. CASE ChildServe(w) \/ ChildFault(w)
      <3>1. child[w] = "serving" /\ \E m \in Message : Put(w, m)
        <4>1. CASE ChildChunk(w)
          <5>1. made[w] + 1 \in 0..MaxChunks
            BY <4>1 DEF ChildChunk
          <5> QED BY <4>1, <5>1, MsgParts DEF ChildChunk, ChildCodes
        <4>2. CASE ChildFinish(w)
          BY <4>2, MsgParts DEF ChildFinish, ChildCodes
        <4>3. CASE ChildFault(w)
          BY <4>3, MsgParts DEF ChildFault, ChildCodes, OptRequest
        <4> QED BY <2>3, <4>1, <4>2, <4>3 DEF ChildServe
      <3> QED BY <3>1 DEF Put
    <2> QED BY <1>2, <2>1, <2>2, <2>3 DEF Touched
  <1> QED BY <1>1, <1>2, StepTouches

\* What has struck stays so, what is gone stays gone.
LEMMA StepDeaths ==
    ASSUME TypeOK, CoupledInv, QueuesInv, ChildrenInv, CursorInv, NamelessInv, [Next]_vars
    PROVE  NamelessInv' /\ Struck \subseteq Struck' /\ Gone \subseteq Gone'
  <1>1. Deaths \subseteq Deaths' /\ Gone \subseteq Gone'
    BY StepChildren, DownStays DEF Gone, Deaths
  <1>2. ASSUME NEW w \in Workers
        PROVE  /\ \A i, j \in 1..Len(results'[w]) :
                    results'[w][i].req = NoReq /\ results'[w][j].req = NoReq => i = j
               /\ w \in Struck => w \in Struck'
    <2>a. results[w] \in Seq(Message) /\ Len(results[w]) \in Nat
      BY LenProperties DEF TypeOK, ChannelTypeOK
    <2>0. w \in Struck => w \in Deaths'
      BY <1>1 DEF Struck
    <2>1. CASE results'[w] = results[w]
      BY <2>0, <2>1 DEF NamelessInv, Struck
    <2>2. CASE results'[w] = <<>>
      <3>1. Len(results'[w]) = 0
        BY <2>2, EmptySeq
      <3>2. \A i \in 1..Len(results'[w]) : FALSE
        BY <3>1
      <3>3. w \in Deaths' => w \in Struck'
        BY <3>2 DEF Struck
      <3> QED BY <2>0, <3>2, <3>3
    <2>3. CASE results[w] # <<>> /\ results'[w] = Tail(results[w])
      <3>1. /\ Len(results'[w]) = Len(results[w]) - 1
            /\ \A i \in 1..Len(results'[w]) : i + 1 \in 1..Len(results[w]) /\ results'[w][i] = results[w][i + 1]
        BY <2>a, <2>3, HeadTailProperties
      <3>2. w \in Struck => w \in Struck'
        BY <2>0, <3>1 DEF Struck
      <3>3. ASSUME NEW i \in 1..Len(results'[w]), NEW j \in 1..Len(results'[w]),
                   results'[w][i].req = NoReq, results'[w][j].req = NoReq
            PROVE  i = j
        <4>1. i + 1 = j + 1
          BY <3>1, <3>3 DEF NamelessInv
        <4> QED BY <4>1
      <3> QED BY <3>2, <3>3
    <2>4. CASE child[w] = "serving" /\ \E m \in Message : results'[w] = Append(results[w], m)
      <3>1. \A i \in 1..Len(results[w]) : results[w][i].req # NoReq
        BY <2>4 DEF QueuesInv, QueueOf
      <3>2. /\ Len(results'[w]) = Len(results[w]) + 1
            /\ \A i \in 1..Len(results[w]) : results'[w][i] = results[w][i]
        BY <2>a, <2>4, AppendProperties
      <3>3. \A i \in 1..Len(results'[w]) : i \in 1..Len(results[w]) \/ i = Len(results[w]) + 1
        BY <2>a, <3>2
      <3>4. w \notin Struck
        BY <2>4 DEF Struck, Deaths
      <3> QED BY <3>1, <3>2, <3>3, <3>4
    <2> QED BY <2>1, <2>2, <2>3, <2>4, StepQueue DEF QueueMoves
  <1> QED BY <1>1, <1>2 DEF NamelessInv, Struck, Deaths

\* Either loss is the worker's first of its kind.
LEMMA LossIsNew ==
    ASSUME TypeOK, CoupledInv, QueuesInv, ChildrenInv, CursorInv, NamelessInv, [Next]_vars,
           NEW r, NEW w \in Workers, LosesTo(r, w)
    PROVE  w \in (Struck' \ Struck) \cup (Gone' \ Gone)
  <1>0. child[w] \in ChildStates /\ (child[w] = "killed" => wstate[w] = "stopped")
    BY DEF TypeOK, ChannelTypeOK, ChildrenInv
  <1>1. CASE ReceiveTerminal /\ w = cursor /\ Inbox.req = NoReq
    <2>1. /\ wstate[w] = "busy" /\ results[w] \in Seq(Message) /\ results[w] # <<>>
          /\ results'[w] = Tail(results[w])
      BY <1>1 DEF ReceiveTerminal, CanReceive, ClientReceive, TypeOK, ChannelTypeOK
    <2>2. Len(results[w]) \in Nat /\ Len(results[w]) # 0 /\ Head(results[w]) = results[w][1]
      BY <2>1, EmptySeq, LenProperties
    <2>3. /\ Len(results'[w]) = Len(results[w]) - 1
          /\ \A i \in 1..Len(results'[w]) : results'[w][i] = results[w][i + 1]
      BY <2>1, HeadTailProperties
    <2>4. /\ 1 \in 1..Len(results[w]) /\ results[w][1] = Inbox
          /\ \A i \in 1..Len(results'[w]) :
               i + 1 \in 1..Len(results[w]) /\ i + 1 # 1 /\ results'[w][i] = results[w][i + 1]
      BY <1>1, <2>2, <2>3 DEF Inbox
    <2>5. w \notin Struck /\ child[w] # "serving"
      BY <1>1, <2>4 DEF Struck, QueuesInv, QueueOf
    <2>6. w \in Deaths'
      BY <1>0, <2>1, <2>5, StepChildren DEF ChildStates, Deaths
    <2>7. \A i \in 1..Len(results'[w]) : results'[w][i].req # NoReq
      <3>1. \A j \in 1..Len(results[w]) : results[w][j].req = NoReq => j = 1
        BY <1>1, <2>4 DEF NamelessInv
      <3> QED BY <2>4, <3>1
    <2> QED BY <2>5, <2>6, <2>7 DEF Struck
  <1>2. CASE IsFirstReady(w) /\ ~CanSend(w) /\ ClientFail(w)
    <2>1. wstate[w] = "ready" /\ w \notin Gone
      BY <1>2 DEF IsFirstReady, Ready, Gone, Down
    <2>2. w \in Deaths'
      BY <1>0, <1>2, <2>1, StepChildren DEF CanSend, IsAlive, ChildStates, Deaths
    <2>3. Down(w)'
      BY <1>2 DEF ClientFail, Down, TypeOK, ChannelTypeOK
    <2> QED BY <2>1, <2>2, <2>3 DEF Gone
  <1> QED BY <1>1, <1>2 DEF LosesTo

LEMMA OneIsLost ==
    ASSUME NEW q, NEW v, LosesTo(q, v), NEW r, NEW w, LosesTo(r, w)
    PROVE  q = r
  BY DEF LosesTo, ReceiveTerminal, CanReceive, DispatchToDead, Dispatchable

\* While the scheduler is open nothing is lost but by poll().
LEMMA StepLost ==
    ASSUME TypeOK, CoupledInv, QueuesInv, OncePlaced, CostInv, [Next]_vars, ~closed',
           NEW r \in Lost'
    PROVE  r \in Lost \/ \E w \in Workers : LosesTo(r, w)
  <1>1. r \in Requests /\ r \in submitted' /\ ~Somewhere(r)'
    BY DEF Lost, Forgotten, Somewhere
  <1>2. ASSUME r \in submitted, Remains(r) PROVE r \in Lost \/ \E w \in Workers : LosesTo(r, w)
    BY <1>1, <1>2 DEF Lost, Forgotten, Somewhere, Remains
  <1>3. ASSUME UNCHANGED <<pending, active, events, answer>> PROVE Remains(r)
    BY <1>1, <1>3, PlacesOf DEF Remains, Somewhere
  <1>4. ASSUME NEW q \in Requests, Submit(q) PROVE r \in submitted /\ Remains(r)
    <2>1. CASE SubmitToDead(q)
      BY <1>1, <1>3, <2>1 DEF SubmitToDead, historyVars
    <2>2. CASE SubmitDispatch(q) \/ SubmitQueue(q)
      <3>1. submitted' = submitted \cup {q} /\ UNCHANGED <<events, answer>>
        BY <2>2 DEF SubmitDispatch, SubmitQueue, historyVars
      <3>2. r # q
        BY <1>1, <2>2, SubmitPlaces DEF Somewhere
      <3> QED BY <1>1, <2>2, <3>1, <3>2, SubmitPlaces, PlacesOf DEF Remains, Somewhere
    <2> QED BY <1>4, <2>1, <2>2 DEF Submit
  <1>5. ASSUME NEW q \in Requests, Cancel(q) PROVE r \in submitted /\ Remains(r)
    <2>1. submitted' = submitted
      BY <1>5 DEF Cancel, CancelPending, CancelActive
    <2>2. r # q /\ (Answered(r)' <=> Answered(r)) /\ Bystander(r)
      BY <1>1, <1>5, CancelPlaces DEF Somewhere
    <2> QED BY <1>1, <2>1, <2>2 DEF Bystander, Remains, Somewhere
  <1>6. CASE Poll
    BY <1>1, <1>2, <1>6, PollOnward
  <1>7. ASSUME Close PROVE FALSE
    BY <1>7 DEF Close, CloseBegin, CloseWorker, CloseAborted, CloseEnd, CostInv
  <1>8. CASE (\E w \in Workers : Child(w)) \/ UNCHANGED vars
    <2>1. UNCHANGED <<pending, active, submitted, events, answer>>
      BY <1>8 DEF Child, vars, historyVars
    <2> QED BY <1>1, <1>2, <1>3, <2>1
  <1> QED BY <1>2, <1>4, <1>5, <1>6, <1>7, <1>8 DEF Next

LEMMA DeathsFinite ==
    /\ Struck \subseteq Deaths /\ Gone \subseteq Deaths
    /\ \A S \in SUBSET Workers : IsFiniteSet(S) /\ Cardinality(S) \in Nat
    /\ Deaths \subseteq Workers /\ Struck' \subseteq Workers /\ Gone' \subseteq Workers
  BY WorkersFinite, FS_Subset, FS_CardinalityType DEF Struck, Gone, Deaths

LEMMA StepCount ==
    ASSUME TypeOK, CoupledInv, QueuesInv, OncePlaced, CostInv, [Next]_vars
    PROVE  LostInv'
  <1> SUFFICES ASSUME ~closed'
               PROVE  /\ IsFiniteSet(Lost')
                      /\ Cardinality(Lost') <= Cardinality(Struck') + Cardinality(Gone')
    BY DEF LostInv
  <1>0. ~closed
    BY DEF Next, Submit, SubmitDispatch, SubmitToDead, SubmitQueue, Cancel,
           CancelPending, CancelActive, Poll, PollBegin, WithinLimit, ExpireActive, PollExpired,
           ReceiveTerminal, ReceiveOther, ReceiveNothing, ReceiveTimeout,
           ReceiveExited, ReceiveRefused, DispatchNext, DispatchToDead,
           DispatchDone, PollEnd, Close, CloseBegin, CloseWorker, CloseAborted, CloseEnd, Child, vars
  <1>1. IsFiniteSet(Lost) /\ Cardinality(Lost) <= Cardinality(Struck) + Cardinality(Gone)
    BY <1>0 DEF CostInv, LostInv
  <1>2. Struck \subseteq Struck' /\ Gone \subseteq Gone'
    BY StepDeaths DEF CostInv
  <1>3. /\ Cardinality(Struck) <= Cardinality(Struck') /\ Cardinality(Gone) <= Cardinality(Gone')
        /\ Cardinality(Struck) = Cardinality(Struck') => Struck = Struck'
        /\ Cardinality(Gone) = Cardinality(Gone') => Gone = Gone'
    BY <1>2, DeathsFinite, FS_Subset
  <1>4. /\ Cardinality(Lost) \in Nat /\ Cardinality(Struck) \in Nat /\ Cardinality(Struck') \in Nat
        /\ Cardinality(Gone) \in Nat /\ Cardinality(Gone') \in Nat
    <2>1. Struck \subseteq Workers /\ Gone \subseteq Workers
      BY DeathsFinite
    <2> QED BY <1>1, <2>1, DeathsFinite, FS_CardinalityType
  <1>5. CASE \A r \in Lost' : r \in Lost
    <2>1. IsFiniteSet(Lost') /\ Cardinality(Lost') <= Cardinality(Lost)
      BY <1>1, <1>5, FS_Subset
    <2>2. Cardinality(Lost') \in Nat
      BY <2>1, FS_CardinalityType
    <2> QED BY <1>1, <1>3, <1>4, <2>1, <2>2
  <1>6. CASE \E r \in Lost' : r \notin Lost
    <2>1. PICK x \in Lost', w \in Workers : LosesTo(x, w)
      BY <1>6, StepLost
    <2>2. Lost' \subseteq Lost \cup {x}
      BY <2>1, StepLost, OneIsLost
    <2>3. /\ IsFiniteSet(Lost \cup {x})
          /\ Cardinality(Lost \cup {x}) = Cardinality(Lost) \/ Cardinality(Lost \cup {x}) = Cardinality(Lost) + 1
      BY <1>1, FS_AddElement
    <2>4. IsFiniteSet(Lost') /\ Cardinality(Lost') <= Cardinality(Lost \cup {x})
      BY <2>2, <2>3, FS_Subset
    <2>5. w \in (Struck' \ Struck) \cup (Gone' \ Gone)
      BY <2>1, LossIsNew DEF CostInv
    <2>6. Cardinality(Struck) + Cardinality(Gone) + 1 <= Cardinality(Struck') + Cardinality(Gone')
      BY <1>3, <1>4, <2>5
    <2>7. Cardinality(Lost') \in Nat
      BY <2>4, FS_CardinalityType
    <2> QED BY <1>1, <1>4, <2>3, <2>4, <2>6, <2>7
  <1> QED BY <1>5, <1>6

LEMMA StepCost == TypeOK /\ CoupledInv /\ QueuesInv /\ OncePlaced /\ CostInv /\ [Next]_vars => CostInv'
  <1> SUFFICES ASSUME TypeOK, CoupledInv, QueuesInv, OncePlaced, CostInv, [Next]_vars PROVE CostInv'
    OBVIOUS
  <1>1. ChildrenInv' /\ CursorInv' /\ NamelessInv'
    BY StepChildren, StepCursor, StepDeaths DEF CostInv
  <1>2. (pc = "close" => closed)'
    BY DEF CostInv, Next, Submit, SubmitDispatch, SubmitToDead, SubmitQueue, Cancel,
           CancelPending, CancelActive, Poll, PollBegin, WithinLimit, ExpireActive, PollExpired,
           ReceiveTerminal, ReceiveOther, ReceiveNothing, ReceiveTimeout, GoTo, ReturnCall,
           ReceiveExited, ReceiveRefused, DispatchNext, DispatchToDead, callVars,
           DispatchDone, PollEnd, Close, CloseBegin, CloseWorker, CloseAborted, CloseEnd, Child, vars
  <1> QED BY <1>1, <1>2, StepCount DEF CostInv

\* A child that dies by itself takes two answers with it at most, in a pool of
\* any size and however many requests it is given.
THEOREM DeathCostsTwo == Spec => []BlastRadius
  <1>1. Init => CostInv
    <2> SUFFICES ASSUME Init PROVE CostInv
      OBVIOUS
    <2>1. ChildrenInv /\ CursorInv /\ pc # "close"
      BY DEF Init, ChannelInit, ChildrenInv, CursorInv, Workers, IsAlive
    <2>2. NamelessInv
      BY EmptySeq DEF Init, ChannelInit, NamelessInv
    <2>3. Lost = {} /\ Deaths = {}
      BY DEF Init, ChannelInit, Lost, Forgotten, Deaths
    <2>4. LostInv
      <3>1. Struck = {} /\ Gone = {}
        BY <2>3 DEF Struck, Gone
      <3> QED BY <2>3, <3>1, FS_EmptySet DEF LostInv
    <2> QED BY <2>1, <2>2, <2>4 DEF CostInv
  <1>2. TypeOK /\ CoupledInv /\ QueuesInv /\ OncePlaced /\ CostInv /\ [Next]_vars => CostInv'
    BY StepCost
  <1>3. CostInv => BlastRadius
    <2> SUFFICES ASSUME CostInv, ~closed PROVE Cardinality(Lost) <= 2 * Cardinality(Deaths)
      BY DEF BlastRadius, Lost
    <2>1. IsFiniteSet(Lost) /\ Cardinality(Lost) <= Cardinality(Struck) + Cardinality(Gone)
      BY DEF CostInv, LostInv
    <2>2. /\ Cardinality(Struck) <= Cardinality(Deaths) /\ Cardinality(Gone) <= Cardinality(Deaths)
          /\ Cardinality(Lost) \in Nat /\ Cardinality(Deaths) \in Nat
          /\ Cardinality(Struck) \in Nat /\ Cardinality(Gone) \in Nat
      <3>1. Struck \subseteq Workers /\ Gone \subseteq Workers
        BY DeathsFinite
      <3> QED BY <2>1, <3>1, DeathsFinite, FS_Subset, FS_CardinalityType
    <2> QED BY <2>1, <2>2
  <1> QED BY <1>1, <1>2, <1>3, TypeCorrect, SpecCoupledInv, SpecQueues, PlacedOnce, PTL DEF Spec
=============================================================================
