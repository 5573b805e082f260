------------------------- MODULE ResultDeliveryProofs -------------------------
(***************************************************************************)
(* Every terminal result has exactly one owner or one end, for any number  *)
(* of results, connections, breaks and crashes, and so the handlers, the   *)
(* router, the queue and the drains implement the safety part of Outbox.   *)
(*                                                                         *)
(* OneOwner counts owners and is not inductive as it stands: a drain that  *)
(* overwrote a batch would lose results, so the invariant also says where  *)
(* batches are empty, and it says that no sequence holds a result twice.   *)
(***************************************************************************)
EXTENDS ResultDelivery, FiniteSetTheorems, TLAPS

(* A handler that is about to send has a stream to send on. *)
TargetOK == \A r \in Results : pc[r] = "send" => target[r] \in Connections

(* Connections to come have nothing to drain, nor has one that is about to *)
(* drain for the first time; no batch is longer than the queue may be.     *)
NotYet(c) == c > conn \/ (c = conn /\ phase = "drain")

DrainOK ==
    /\ phase # "down" => conn \in Connections
    /\ \A c \in Connections : NotYet(c) => batch[c] = <<>> /\ c \notin beating
    /\ \A c \in Connections : Len(batch[c]) <= QueueLimit

TypeInv == TypeOK /\ TargetOK /\ DrainOK

Ended(r) == r \in delivered \/ r \in lost \/ r \in dropped \/ r \in poisoned \/ r \in forgotten

(* No result is mislaid. *)
Kept ==
    \A r \in Results :
        \/ pc[r] # "done" \/ r \in Range(queue) \/ Ended(r)
        \/ \E c \in Connections : r \in Range(batch[c]) \/ r \in wire[c]

(* A result its handler holds is nowhere else, ... *)
HandlerOnly ==
    \A r \in Results : pc[r] # "done" =>
        /\ r \notin Range(queue) /\ ~Ended(r)
        /\ \A c \in Connections : r \notin Range(batch[c]) /\ r \notin wire[c]

(* ... nor is one in the queue, ... *)
QueueOnly ==
    /\ IsInjective(queue)
    /\ \A r \in Range(queue) :
        /\ ~Ended(r)
        /\ \A c \in Connections : r \notin Range(batch[c]) /\ r \notin wire[c]

(* ... in a batch ... *)
BatchOnly ==
    \A c \in Connections :
        /\ IsInjective(batch[c])
        /\ \A r \in Range(batch[c]) :
            /\ ~Ended(r)
            /\ \A d \in Connections : r \notin wire[d] /\ (d # c => r \notin Range(batch[d]))

(* ... or in the transport of a stream. *)
WireOnly ==
    \A c \in Connections : \A r \in wire[c] :
        ~Ended(r) /\ \A d \in Connections : d # c => r \notin wire[d]

(* The ends exclude each other. *)
OneEnd ==
    /\ delivered \cap (lost \cup dropped \cup poisoned \cup forgotten) = {}
    /\ lost \cap (dropped \cup poisoned \cup forgotten) = {}
    /\ dropped \cap (poisoned \cup forgotten) = {}
    /\ poisoned \cap forgotten = {}

PlaceInv == Kept /\ HandlerOnly /\ QueueOnly /\ BatchOnly /\ WireOnly /\ OneEnd

-----------------------------------------------------------------------------
(* Sequences without repetition *)

(* The empty sequence. *)
LEMMA EmptyRange == Range(<<>>) = {} /\ IsInjective(<<>>)
BY DEF Range, IsInjective

(* Appending an element. *)
LEMMA RangeAppend ==
    ASSUME NEW S, NEW s \in Seq(S), NEW e \in S
    PROVE  /\ Append(s, e) \in Seq(S) /\ Len(Append(s, e)) = Len(s) + 1
           /\ Range(Append(s, e)) = Range(s) \cup {e}
           /\ IsInjective(s) /\ e \notin Range(s) => IsInjective(Append(s, e))
<1>1. Append(s, e) \in Seq(S) /\ Len(Append(s, e)) = Len(s) + 1 /\ Len(s) \in Nat
  OBVIOUS
<1>2. DOMAIN s = 1 .. Len(s) /\ DOMAIN Append(s, e) = 1 .. Len(s) + 1
  OBVIOUS
<1>3. \A i \in 1 .. Len(s) : Append(s, e)[i] = s[i]
  OBVIOUS
<1>4. Append(s, e)[Len(s) + 1] = e
  OBVIOUS
<1>5. Range(Append(s, e)) = Range(s) \cup {e}
  BY <1>1, <1>2, <1>3, <1>4 DEF Range
<1>6. ASSUME IsInjective(s), e \notin Range(s) PROVE IsInjective(Append(s, e))
  BY <1>1, <1>2, <1>3, <1>4, <1>6 DEF Range, IsInjective
<1> QED BY <1>1, <1>5, <1>6

(* Taking the first element. *)
LEMMA RangeTail ==
    ASSUME NEW S, NEW s \in Seq(S), s # <<>>
    PROVE  /\ Head(s) \in S /\ Tail(s) \in Seq(S) /\ Len(Tail(s)) = Len(s) - 1
           /\ Head(s) \in Range(s)
           /\ IsInjective(s) => IsInjective(Tail(s)) /\ Range(Tail(s)) = Range(s) \ {Head(s)}
<1>1. Len(s) \in Nat /\ Len(s) > 0 /\ Head(s) = s[1] /\ Head(s) \in S /\ Tail(s) \in Seq(S)
      /\ Len(Tail(s)) = Len(s) - 1
  OBVIOUS
<1>2. DOMAIN s = 1 .. Len(s) /\ DOMAIN Tail(s) = 1 .. Len(s) - 1
  BY <1>1
<1>3. \A i \in 1 .. Len(s) - 1 : Tail(s)[i] = s[i + 1]
  BY <1>1
<1>4. Head(s) \in Range(s)
  BY <1>1, <1>2 DEF Range
<1>5. ASSUME IsInjective(s) PROVE IsInjective(Tail(s))
  BY <1>1, <1>3, <1>5 DEF IsInjective
<1>6. ASSUME IsInjective(s) PROVE Range(Tail(s)) = Range(s) \ {Head(s)}
  <2>1. ASSUME NEW x \in Range(Tail(s)) PROVE x \in Range(s) \ {Head(s)}
    <3>1. PICK i \in 1 .. Len(s) - 1 : x = s[i + 1]
      BY <1>2, <1>3, <2>1 DEF Range
    <3> QED BY <1>1, <1>2, <1>6, <3>1 DEF Range, IsInjective
  <2>2. ASSUME NEW x \in Range(s) \ {Head(s)} PROVE x \in Range(Tail(s))
    <3>1. PICK i \in 1 .. Len(s) : x = s[i] /\ i # 1
      BY <1>1, <1>2, <2>2 DEF Range
    <3>2. i - 1 \in 1 .. Len(s) - 1 /\ Tail(s)[i - 1] = x
      BY <1>1, <1>3, <3>1
    <3> QED BY <1>2, <3>2 DEF Range
  <2> QED BY <2>1, <2>2
<1> QED BY <1>1, <1>4, <1>5, <1>6

-----------------------------------------------------------------------------
(* Types *)

(* The initial states are typed. *)
LEMMA InitType == Init => TypeInv
BY DeliveryConstants DEF Init, TypeInv, TypeOK, TargetOK, DrainOK, NotYet, Connections, NoStream

(* Queueing a result keeps the queue within its limit. *)
LEMMA EnqueueType ==
    ASSUME TypeOK, NEW r \in Results, EnqueuePending(r)
    PROVE  queue' \in Seq(Results) /\ Len(queue') <= QueueLimit /\ dropped' \in SUBSET Results
BY RangeAppend, DeliveryConstants DEF EnqueuePending, TypeOK

(* What DrainOK needs of a step that changes one batch. *)
LEMMA DrainKept ==
    ASSUME TypeInv, NEW c \in Connections, NEW s \in Seq(Results), Len(s) <= QueueLimit,
           batch' = [batch EXCEPT ![c] = s], UNCHANGED <<conn, beating>>,
           ~NotYet(c) \/ s = <<>> \/ (c = conn /\ phase = "drain" /\ phase' = "up"),
           phase' = phase \/ (phase = "drain" /\ phase' = "up")
    PROVE  DrainOK'
<1>1. batch \in [Connections -> Seq(Results)] /\ DrainOK /\ Connections \subseteq Int /\ conn \in Int
  BY DEF TypeInv, TypeOK, Connections
<1>2. batch'[c] = s /\ \A d \in Connections : d # c => batch'[d] = batch[d]
  BY <1>1
<1>3. \A d \in Connections : Len(batch'[d]) <= QueueLimit
  <2> SUFFICES ASSUME NEW d \in Connections PROVE Len(batch'[d]) <= QueueLimit
    OBVIOUS
  <2>1. CASE d = c BY <1>2, <2>1
  <2>2. CASE d # c BY <1>1, <1>2, <2>2 DEF DrainOK
  <2> QED BY <2>1, <2>2
<1>4. \A d \in Connections : NotYet(d)' => batch'[d] = <<>> /\ d \notin beating'
  <2> SUFFICES ASSUME NEW d \in Connections, NotYet(d)' PROVE batch'[d] = <<>> /\ d \notin beating'
    OBVIOUS
  <2>1. NotYet(d)
    BY <1>1 DEF NotYet
  <2>2. d = c => s = <<>>
    BY <1>1, <2>1 DEF NotYet
  <2> QED BY <1>1, <1>2, <2>1, <2>2 DEF DrainOK
<1> QED BY <1>1, <1>3, <1>4 DEF DrainOK

(* A handler's steps keep the types. *)
LEMMA HandlerType ==
    ASSUME TypeInv, NEW r \in Results, HandlerStep(r)
    PROVE  TypeInv'
<1>0. UNCHANGED <<batch, conn, phase, beating>>
  BY DEF HandlerStep, FinishWork, Route, SendResult, QueuePendingResult
<1>1. DrainOK'
  BY <1>0 DEF TypeInv, DrainOK, NotYet
<1> USE DEF TypeInv, Connections, NoStream
<1>2. CASE FinishWork(r)
  BY <1>1, <1>2 DEF FinishWork, TypeOK, TargetOK
<1>3. CASE Route(r)
  BY <1>1, <1>3 DEF Route, TypeOK, TargetOK
<1>4. CASE SendResult(r)
  BY <1>1, <1>4 DEF SendResult, Transmit, Accepts, TypeOK, TargetOK
<1>5. CASE QueuePendingResult(r)
  BY <1>1, <1>5, EnqueueType DEF QueuePendingResult, TypeOK, TargetOK
<1> QED BY <1>2, <1>3, <1>4, <1>5 DEF HandlerStep

(* The steps of connectAndStream keep the types. *)
LEMMA RunType == TypeInv /\ RunStep => TypeInv'
<1> SUFFICES ASSUME TypeInv, RunStep PROVE TypeInv'
  OBVIOUS
<1>0. TypeOK /\ TargetOK /\ DrainOK
  BY DEF TypeInv
<1>1. CASE Attach
  <2>1. conn + 1 \in Connections
    BY <1>0, <1>1, DeliveryConstants DEF Attach, TypeOK, Connections
  <2>2. TypeOK' /\ TargetOK'
    BY <1>0, <1>1, <2>1 DEF Attach, TypeOK, TargetOK, Connections
  <2>3. \A c \in Connections : NotYet(c)' => NotYet(c)
    BY <1>0, <1>1 DEF Attach, NotYet, TypeOK, Connections
  <2>4. DrainOK'
    BY <1>0, <1>1, <2>1, <2>3 DEF Attach, DrainOK
  <2> QED BY <2>2, <2>4 DEF TypeInv
<1>2. CASE DrainAtConnect
  <2>1. conn \in Connections
    BY <1>0, <1>2 DEF DrainAtConnect, DrainOK
  <2>2. TypeOK' /\ TargetOK'
    BY <1>0, <1>2, <2>1, DeliveryConstants DEF DrainAtConnect, TakeQueue, TypeOK, TargetOK
  <2>3. DrainOK'
    BY <1>0, <1>2, <2>1, DrainKept DEF DrainAtConnect, TakeQueue, TypeOK
  <2> QED BY <2>2, <2>3 DEF TypeInv
<1>3. CASE StartHeartbeats
  <2>1. TypeOK' /\ TargetOK'
    BY <1>0, <1>3 DEF StartHeartbeats, TypeOK, TargetOK, DrainOK
  <2>2. \A c \in Connections : (NotYet(c)' <=> NotYet(c)) /\ (NotYet(c) => c # conn)
    BY <1>0, <1>3 DEF StartHeartbeats, NotYet, TypeOK, Connections
  <2>3. DrainOK'
    BY <1>0, <1>3, <2>2 DEF StartHeartbeats, DrainOK
  <2> QED BY <2>1, <2>3 DEF TypeInv
<1>4. CASE Disconnect
  <2>1. TypeOK' /\ TargetOK'
    BY <1>0, <1>4 DEF Disconnect, TypeOK, TargetOK, NoStream
  <2>2. \A c \in Connections : NotYet(c)' => NotYet(c)
    BY <1>4 DEF Disconnect, NotYet
  <2>3. DrainOK'
    BY <1>0, <1>4, <2>2 DEF Disconnect, DrainOK
  <2> QED BY <2>1, <2>3 DEF TypeInv
<1> QED BY <1>1, <1>2, <1>3, <1>4 DEF RunStep

(* The steps of a connection's sender, and of the network, keep the types. *)
LEMMA ConnectionType ==
    ASSUME TypeInv, NEW c \in Connections, ConnectionStep(c) \/ Deliver(c) \/ Break(c)
    PROVE  TypeInv'
<1>0. TypeOK /\ TargetOK /\ DrainOK
  BY DEF TypeInv
<1>1. CASE DrainAtHeartbeat(c)
  <2>1. TypeOK' /\ TargetOK'
    BY <1>0, <1>1, DeliveryConstants DEF DrainAtHeartbeat, TakeQueue, TypeOK, TargetOK
  <2>2. ~NotYet(c)
    BY <1>0, <1>1 DEF DrainAtHeartbeat, DrainOK
  <2>3. DrainOK'
    BY <1>0, <1>1, <2>2, DrainKept DEF DrainAtHeartbeat, TakeQueue, TypeOK
  <2> QED BY <2>1, <2>3 DEF TypeInv
<1>2. CASE DrainNext(c)
  <2>1. batch[c] \in Seq(Results) /\ batch[c] # <<>> /\ Len(batch[c]) <= QueueLimit
    BY <1>0, <1>2 DEF DrainNext, TypeOK, DrainOK
  <2>2. /\ Head(batch[c]) \in Results /\ Tail(batch[c]) \in Seq(Results)
        /\ Len(Tail(batch[c])) = Len(batch[c]) - 1
    BY <2>1, RangeTail
  <2>3. Len(Tail(batch[c])) <= QueueLimit
    BY <2>1, <2>2, DeliveryConstants
  <2>4. /\ queue' \in Seq(Results) /\ Len(queue') <= QueueLimit
        /\ dropped' \in SUBSET Results /\ poisoned' \in SUBSET Results
    BY <1>0, <1>2, <2>2, EnqueueType DEF DrainNext, TypeOK
  <2>5. wire' \in [Connections -> SUBSET Results] /\ open' \in SUBSET Connections
    BY <1>0, <1>2, <2>2 DEF DrainNext, Transmit, TypeOK
  <2>6. batch' = [batch EXCEPT ![c] = Tail(batch[c])] /\ batch' \in [Connections -> Seq(Results)]
    BY <1>0, <1>2, <2>2 DEF DrainNext, TypeOK
  <2>7. TypeOK' /\ TargetOK'
    BY <1>0, <1>2, <2>4, <2>5, <2>6 DEF DrainNext, TypeOK, TargetOK
  <2>8. ~NotYet(c)
    BY <1>0, <2>1 DEF DrainOK
  <2>9. UNCHANGED <<conn, phase, beating>>
    BY <1>2 DEF DrainNext
  <2>10. DrainOK'
    BY <2>2, <2>3, <2>6, <2>8, <2>9, DrainKept
  <2> QED BY <2>7, <2>10 DEF TypeInv
<1>a. ASSUME UNCHANGED <<conn, phase, batch>>, beating' \subseteq beating PROVE DrainOK'
  BY <1>0, <1>a DEF DrainOK, NotYet
<1>3. CASE StopHeartbeats(c)
  BY <1>0, <1>3, <1>a DEF StopHeartbeats, TypeInv, TypeOK, TargetOK
<1>4. CASE Deliver(c)
  BY <1>0, <1>4, <1>a DEF Deliver, TypeInv, TypeOK, TargetOK
<1>5. CASE Break(c)
  BY <1>0, <1>5, <1>a, DeliveryConstants DEF Break, TypeInv, TypeOK, TargetOK
<1> QED BY <1>1, <1>2, <1>3, <1>4, <1>5 DEF ConnectionStep

(* Every step keeps the types. *)
LEMMA NextType == TypeInv /\ [Next]_vars => TypeInv'
<1> SUFFICES ASSUME TypeInv, [Next]_vars PROVE TypeInv'
  OBVIOUS
<1>1. CASE Crash
  BY <1>1, DeliveryConstants, SMTT(30) DEF Crash, InMemory, TypeInv, TypeOK, TargetOK, DrainOK, NotYet, Connections, NoStream
<1>2. CASE UNCHANGED vars
  BY <1>2 DEF vars, TypeInv, TypeOK, TargetOK, DrainOK, NotYet
<1> QED BY <1>1, <1>2, HandlerType, RunType, ConnectionType DEF Next

(* TypeOK is an invariant: in particular pendingResults never holds more   *)
(* than QueueLimit results, although drains give back what they could not  *)
(* send while handlers append.                                             *)
THEOREM TypeCorrect == Spec => []TypeOK
<1>1. TypeInv => TypeOK
  BY DEF TypeInv
<1> QED BY <1>1, InitType, NextType, PTL DEF Spec

-----------------------------------------------------------------------------
(* Places *)

(* At first every result is its handler's. *)
LEMMA InitPlace == Init => PlaceInv
BY EmptyRange DEF Init, PlaceInv, Kept, HandlerOnly, QueueOnly, BatchOnly, WireOnly, OneEnd, Ended

(* Queueing a result that is nowhere else puts it in the queue, or ends it. *)
LEMMA EnqueuePlace ==
    ASSUME TypeOK, NEW r \in Results, EnqueuePending(r), r \notin Range(queue)
    PROVE  \/ /\ Range(queue') = Range(queue) \cup {r} /\ dropped' = dropped
              /\ IsInjective(queue) => IsInjective(queue')
           \/ queue' = queue /\ dropped' = dropped \cup {r}
BY RangeAppend DEF EnqueuePending, TypeOK

(* A handler's steps keep every result in one place. *)
LEMMA HandlerPlace ==
    ASSUME TypeInv, PlaceInv, NEW r \in Results, HandlerStep(r)
    PROVE  PlaceInv'
<1> USE DEF PlaceInv, Kept, HandlerOnly, QueueOnly, BatchOnly, WireOnly, OneEnd, Ended
<1>0. TypeOK /\ TargetOK
  BY DEF TypeInv
<1>1. CASE FinishWork(r) \/ Route(r)
  <2>1. \A q \in Results : pc'[q] # "done" <=> pc[q] # "done"
    BY <1>0, <1>1 DEF FinishWork, Route, TypeOK
  <2> QED BY <1>1, <2>1 DEF FinishWork, Route
<1>2. CASE SendResult(r)
  <2>0. pc[r] # "done" /\ target[r] \in Connections
    BY <1>0, <1>2 DEF SendResult, TargetOK
  <2>1. \A q \in Results : q # r => pc'[q] = pc[q]
    BY <1>0, <1>2 DEF SendResult, TypeOK
  <2>2. CASE Accepts(target[r], r)
    <3>1. pc'[r] = "done" /\ wire'[target[r]] = wire[target[r]] \cup {r}
      BY <1>0, <1>2, <2>0, <2>2 DEF SendResult, Transmit, TypeOK
    <3>2. \A c \in Connections : c # target[r] => wire'[c] = wire[c]
      BY <1>0, <1>2, <2>0 DEF SendResult, Transmit, TypeOK
    <3> QED BY <1>2, <2>0, <2>1, <3>1, <3>2 DEF SendResult
  <2>3. CASE ~Accepts(target[r], r)
    <3>1. pc'[r] # "done" /\ \A c \in Connections : wire'[c] = wire[c]
      BY <1>0, <1>2, <2>0, <2>3 DEF SendResult, Transmit, TypeOK
    <3> QED BY <1>2, <2>0, <2>1, <3>1 DEF SendResult
  <2> QED BY <2>2, <2>3
<1>3. CASE QueuePendingResult(r)
  <2>1. pc[r] # "done" /\ pc'[r] = "done" /\ \A q \in Results : q # r => pc'[q] = pc[q]
    BY <1>0, <1>3 DEF QueuePendingResult, TypeOK
  <2>2. r \notin Range(queue)
    BY <2>1
  <2>3. \/ /\ Range(queue') = Range(queue) \cup {r} /\ dropped' = dropped
           /\ IsInjective(queue) => IsInjective(queue')
        \/ queue' = queue /\ dropped' = dropped \cup {r}
    BY <1>0, <1>3, <2>2, EnqueuePlace DEF QueuePendingResult
  <2> QED BY <1>3, <2>1, <2>3 DEF QueuePendingResult
<1> QED BY <1>1, <1>2, <1>3 DEF HandlerStep

(* Swapping the queue into an empty batch moves its results. *)
LEMMA TakePlace ==
    ASSUME TypeOK, PlaceInv, NEW c \in Connections, TakeQueue(c), batch[c] = <<>>,
           UNCHANGED <<pc, wire, delivered, lost, dropped, poisoned, forgotten>>
    PROVE  PlaceInv'
<1>1. batch'[c] = queue /\ \A d \in Connections : d # c => batch'[d] = batch[d]
  BY DEF TakeQueue, TypeOK
<1>2. queue' = <<>>
  BY DEF TakeQueue
<1> QED BY <1>1, <1>2, EmptyRange
        DEF PlaceInv, Kept, HandlerOnly, QueueOnly, BatchOnly, WireOnly, OneEnd, Ended

(* The steps of connectAndStream keep every result in one place. *)
LEMMA RunPlace == TypeInv /\ PlaceInv /\ RunStep => PlaceInv'
<1> SUFFICES ASSUME TypeInv, PlaceInv, RunStep PROVE PlaceInv'
  OBVIOUS
<1>1. CASE DrainAtConnect
  <2>1. TypeOK /\ conn \in Connections /\ batch[conn] = <<>>
    BY <1>1 DEF DrainAtConnect, TypeInv, DrainOK, NotYet
  <2> QED BY <1>1, <2>1, TakePlace DEF DrainAtConnect
<1>2. CASE Attach \/ StartHeartbeats \/ Disconnect
  BY <1>2 DEF Attach, StartHeartbeats, Disconnect, PlaceInv, Kept, HandlerOnly, QueueOnly, BatchOnly,
     WireOnly, OneEnd, Ended
<1> QED BY <1>1, <1>2 DEF RunStep

(* A drain's step moves one result, and the network ends some. *)
LEMMA ConnectionPlace ==
    ASSUME TypeInv, PlaceInv, NEW c \in Connections, ConnectionStep(c) \/ Deliver(c) \/ Break(c)
    PROVE  PlaceInv'
<1>0. TypeOK
  BY DEF TypeInv
<1>1. CASE DrainAtHeartbeat(c)
  BY <1>0, <1>1, TakePlace DEF DrainAtHeartbeat
<1> USE DEF PlaceInv, Kept, HandlerOnly, QueueOnly, BatchOnly, WireOnly, OneEnd, Ended
<1>2. CASE DrainNext(c)
  <2> DEFINE r == Head(batch[c])
  <2>0. batch[c] \in Seq(Results) /\ batch[c] # <<>> /\ IsInjective(batch[c])
    BY <1>0, <1>2 DEF DrainNext, TypeOK
  <2>1. /\ r \in Results /\ r \in Range(batch[c]) /\ IsInjective(Tail(batch[c]))
        /\ Range(Tail(batch[c])) = Range(batch[c]) \ {r}
    BY <2>0, RangeTail
  <2>2. batch'[c] = Tail(batch[c]) /\ \A d \in Connections : d # c => batch'[d] = batch[d]
    BY <1>0, <1>2 DEF DrainNext, TypeOK
  <2>3. Range(batch'[c]) = Range(batch[c]) \ {r} /\ IsInjective(batch'[c])
    BY <2>1, <2>2
  <2>4. UNCHANGED <<pc, delivered, lost, forgotten>>
    BY <1>2 DEF DrainNext
  <2>5. r \notin Range(queue) /\ pc[r] = "done"
    BY <2>1
  <2> HIDE DEF r
  <2>6. CASE Accepts(c, r)
    <3>1. wire'[c] = wire[c] \cup {r} /\ \A d \in Connections : d # c => wire'[d] = wire[d]
      BY <1>0, <1>2, <2>6 DEF DrainNext, Transmit, TypeOK, r
    <3>2. UNCHANGED <<queue, dropped, poisoned>>
      BY <1>2, <2>6 DEF DrainNext, Accepts, r
    <3> QED BY <2>1, <2>2, <2>3, <2>4, <3>1, <3>2
  <2>7. CASE ~Accepts(c, r)
    <3>1. \A d \in Connections : wire'[d] = wire[d]
      BY <1>0, <1>2, <2>7 DEF DrainNext, Transmit, TypeOK, r
    <3>2. CASE poisoned' = poisoned \cup {r} /\ UNCHANGED <<queue, dropped>>
      BY <2>1, <2>2, <2>3, <2>4, <3>1, <3>2
    <3>3. CASE EnqueuePending(r) /\ UNCHANGED poisoned
      <4>1. \/ /\ Range(queue') = Range(queue) \cup {r} /\ dropped' = dropped
               /\ IsInjective(queue) => IsInjective(queue')
            \/ queue' = queue /\ dropped' = dropped \cup {r}
        BY <1>0, <2>1, <2>5, <3>3, EnqueuePlace
      <4> QED BY <2>1, <2>2, <2>3, <2>4, <2>5, <3>1, <3>3, <4>1
    <3> QED BY <1>2, <2>7, <3>2, <3>3 DEF DrainNext, r
  <2> QED BY <2>6, <2>7
<1>3. CASE StopHeartbeats(c)
  BY <1>3 DEF StopHeartbeats
<1>4. CASE Deliver(c)
  <2>1. PICK r \in wire[c] : delivered' = delivered \cup {r} /\ wire' = [wire EXCEPT ![c] = @ \ {r}]
    BY <1>4 DEF Deliver
  <2>2. wire'[c] = wire[c] \ {r} /\ \A d \in Connections : d # c => wire'[d] = wire[d]
    BY <1>0, <2>1 DEF TypeOK
  <2> QED BY <1>0, <1>4, <2>1, <2>2 DEF Deliver, TypeOK
<1>5. CASE Break(c)
  <2>1. wire'[c] = {} /\ \A d \in Connections : d # c => wire'[d] = wire[d]
    BY <1>0, <1>5 DEF Break, TypeOK
  <2> QED BY <1>0, <1>5, <2>1 DEF Break, TypeOK
<1> QED BY <1>1, <1>2, <1>3, <1>4, <1>5 DEF ConnectionStep

(* What is in memory or under way when the process ends meets its end. *)
LEMMA CrashPlace == TypeInv /\ PlaceInv /\ Crash => PlaceInv'
<1> SUFFICES ASSUME TypeInv, PlaceInv, Crash PROVE PlaceInv'
  OBVIOUS
<1>1. \A c \in Connections : batch'[c] = <<>> /\ wire'[c] = {}
  BY DEF Crash
<1>2. queue' = <<>> /\ \A r \in Results : pc'[r] = "done"
  BY DEF Crash
<1>3. \A r \in Results :
        /\ r \in forgotten' <=> \/ r \in forgotten \/ pc[r] # "done" \/ r \in Range(queue)
                                \/ \E c \in Connections : r \in Range(batch[c])
        /\ r \in lost' <=> r \in lost \/ \E c \in Connections : r \in wire[c]
  BY DEF Crash, InMemory
<1>4. UNCHANGED <<delivered, dropped, poisoned>>
  BY DEF Crash
<1>5. {delivered, lost, dropped, poisoned, forgotten, lost', forgotten'} \subseteq SUBSET Results
  BY DEF TypeInv, TypeOK, Crash, InMemory
<1> USE DEF PlaceInv, Kept, HandlerOnly, QueueOnly, BatchOnly, WireOnly, OneEnd, Ended
<1>6. Kept' /\ HandlerOnly' /\ QueueOnly' /\ BatchOnly' /\ WireOnly'
  BY <1>1, <1>2, <1>3, <1>4, EmptyRange
<1>7. OneEnd'
  BY <1>3, <1>4, <1>5
<1> QED BY <1>6, <1>7

(* Every step keeps every result in one place. *)
LEMMA NextPlace == TypeInv /\ PlaceInv /\ [Next]_vars => PlaceInv'
<1>1. PlaceInv /\ UNCHANGED vars => PlaceInv'
  BY DEF vars, PlaceInv, Kept, HandlerOnly, QueueOnly, BatchOnly, WireOnly, OneEnd, Ended
<1> QED BY <1>1, HandlerPlace, RunPlace, ConnectionPlace, CrashPlace DEF Next

-----------------------------------------------------------------------------
(* Counting owners *)

(* Small sets. *)
LEMMA Counts == Cardinality({}) = 0 /\ \A x : Cardinality({x}) = 1
BY FS_EmptySet, FS_Singleton

(* How often a result is in the queue. *)
LEMMA CountQueued ==
    ASSUME TypeInv, PlaceInv, NEW r \in Results
    PROVE  Cardinality(Queued(r)) = IF r \in Range(queue) THEN 1 ELSE 0
<1>1. queue \in Seq(Results) /\ DOMAIN queue = 1 .. Len(queue) /\ IsInjective(queue)
  BY DEF TypeInv, TypeOK, PlaceInv, QueueOnly
<1>2. CASE r \in Range(queue)
  <2>1. PICK i \in 1 .. Len(queue) : queue[i] = r
    BY <1>1, <1>2 DEF Range
  <2>2. Queued(r) = {i}
    BY <1>1, <2>1 DEF Queued, IsInjective
  <2> QED BY <1>2, <2>2, Counts
<1>3. CASE r \notin Range(queue)
  <2>1. Queued(r) = {}
    BY <1>1, <1>3 DEF Queued, Range
  <2> QED BY <1>3, <2>1, Counts
<1> QED BY <1>2, <1>3

(* How often it is in a batch. *)
LEMMA CountTaken ==
    ASSUME TypeInv, PlaceInv, NEW r \in Results
    PROVE  Cardinality(Taken(r)) = IF \E c \in Connections : r \in Range(batch[c]) THEN 1 ELSE 0
<1>1. \A c \in Connections :
        /\ batch[c] \in Seq(Results) /\ DOMAIN batch[c] = 1 .. Len(batch[c])
        /\ Len(batch[c]) \in Nat /\ Len(batch[c]) <= QueueLimit /\ IsInjective(batch[c])
  BY DEF TypeInv, TypeOK, DrainOK, PlaceInv, BatchOnly
<1>2. QueueLimit \in Nat
  BY DeliveryConstants
<1>3. ASSUME NEW c \in Connections, r \in Range(batch[c]) PROVE Cardinality(Taken(r)) = 1
  <2>1. PICK i \in 1 .. Len(batch[c]) : batch[c][i] = r
    BY <1>1, <1>3 DEF Range
  <2>2. i \in 1 .. QueueLimit
    BY <1>1, <1>2, <2>1
  <2>3. <<c, i>> \in Taken(r)
    BY <2>1, <2>2 DEF Taken
  <2>4. ASSUME NEW ci \in Taken(r) PROVE ci = <<c, i>>
    <3>1. PICK d \in Connections, j \in 1 .. QueueLimit : ci = <<d, j>>
      BY DEF Taken
    <3>2. j <= Len(batch[d]) /\ batch[d][j] = r
      BY <3>1 DEF Taken
    <3>3. j \in DOMAIN batch[d]
      BY <1>1, <3>1, <3>2
    <3>4. r \in Range(batch[d])
      BY <3>2, <3>3 DEF Range
    <3>5. d = c
      BY <1>3, <3>4 DEF PlaceInv, BatchOnly
    <3>6. j = i
      BY <1>1, <2>1, <3>2, <3>3, <3>5 DEF IsInjective
    <3> QED BY <3>1, <3>5, <3>6
  <2>5. Taken(r) = {<<c, i>>}
    BY <2>3, <2>4
  <2> QED BY <2>5, Counts
<1>4. CASE \A c \in Connections : r \notin Range(batch[c])
  <2>1. ASSUME NEW ci \in Taken(r) PROVE FALSE
    <3>1. PICK d \in Connections, j \in 1 .. QueueLimit : ci = <<d, j>>
      BY DEF Taken
    <3>2. j <= Len(batch[d]) /\ batch[d][j] = r
      BY <3>1 DEF Taken
    <3>3. j \in DOMAIN batch[d]
      BY <1>1, <3>1, <3>2
    <3> QED BY <1>4, <3>2, <3>3 DEF Range
  <2>2. Taken(r) = {}
    BY <2>1
  <2> QED BY <1>4, <2>2, Counts
<1> QED BY <1>3, <1>4

(* How often it is under way. *)
LEMMA CountWire ==
    ASSUME PlaceInv, NEW r \in Results
    PROVE  Cardinality({c \in Connections : r \in wire[c]}) =
              IF \E c \in Connections : r \in wire[c] THEN 1 ELSE 0
<1>1. ASSUME NEW c \in Connections, r \in wire[c]
      PROVE  Cardinality({d \in Connections : r \in wire[d]}) = 1
  <2>1. {d \in Connections : r \in wire[d]} = {c}
    BY <1>1 DEF PlaceInv, WireOnly
  <2> QED BY <2>1, Counts
<1>2. CASE \A c \in Connections : r \notin wire[c]
  <2>1. {d \in Connections : r \in wire[d]} = {}
    BY <1>2
  <2> QED BY <1>2, <2>1, Counts
<1> QED BY <1>1, <1>2

(* How many ends it has met. *)
LEMMA CountEnds ==
    ASSUME PlaceInv, NEW r \in Results
    PROVE  Ends(r) = IF Ended(r) THEN 1 ELSE 0
<1> DEFINE In(e) == r \in <<delivered, lost, dropped, poisoned, forgotten>>[e]
           E == {e \in 1 .. 5 : In(e)}
<1>1. /\ In(1) <=> r \in delivered
      /\ In(2) <=> r \in lost
      /\ In(3) <=> r \in dropped
      /\ In(4) <=> r \in poisoned
      /\ In(5) <=> r \in forgotten
  OBVIOUS
<1>2. 1 .. 5 = {1, 2, 3, 4, 5}
  OBVIOUS
<1> HIDE DEF In
<1>3. ASSUME Ended(r) PROVE \E e : E = {e}
  <2>1. PICK e \in 1 .. 5 : In(e)
    BY <1>1, <1>3 DEF Ended
  <2>2. ASSUME NEW f \in 1 .. 5, In(f) PROVE f = e
    BY <1>1, <1>2, <2>1, <2>2 DEF PlaceInv, OneEnd
  <2> QED BY <2>1, <2>2
<1>4. ASSUME ~Ended(r) PROVE E = {}
  BY <1>1, <1>2, <1>4 DEF Ended
<1>5. Ends(r) = Cardinality(E)
  BY DEF Ends, In
<1> QED BY <1>3, <1>4, <1>5, Counts

(* The places of a result add up to one. *)
LEMMA PlaceIsOwner == TypeInv /\ PlaceInv => OneOwner
<1> SUFFICES ASSUME TypeInv, PlaceInv, NEW r \in Results PROVE Owners(r) + Ends(r) = 1
  BY DEF OneOwner
<1> DEFINE b == \E c \in Connections : r \in Range(batch[c])
           w == \E c \in Connections : r \in wire[c]
<1>1. /\ pc[r] # "done" \/ r \in Range(queue) \/ Ended(r) \/ b \/ w
      /\ pc[r] # "done" => r \notin Range(queue) /\ ~Ended(r) /\ ~b /\ ~w
      /\ r \in Range(queue) => ~Ended(r) /\ ~b /\ ~w
      /\ b => ~Ended(r) /\ ~w
      /\ w => ~Ended(r)
  BY DEF PlaceInv, Kept, HandlerOnly, QueueOnly, BatchOnly, WireOnly
<1>2. Owners(r) = (IF r \in Range(queue) THEN 1 ELSE 0) + (IF b THEN 1 ELSE 0)
                    + (IF w THEN 1 ELSE 0) + (IF pc[r] = "done" THEN 0 ELSE 1)
  BY CountQueued, CountTaken, CountWire DEF Owners
<1>3. Ends(r) = IF Ended(r) THEN 1 ELSE 0
  BY CountEnds
<1> HIDE DEF b, w
<1> QED BY <1>1, <1>2, <1>3

(* OneOwner is an invariant: for any number of results, connections,       *)
(* breaks and crashes, a terminal result is with its handler, once in      *)
(* pendingResults, once in one drain's batch or in one stream's transport, *)
(* or it has met exactly one end.  No drain mislays or doubles a result.   *)
THEOREM EveryResultHasOneOwner == Spec => []OneOwner
<1>1. Init => TypeInv /\ PlaceInv
  BY InitType, InitPlace
<1>2. TypeInv /\ PlaceInv /\ [Next]_vars => (TypeInv /\ PlaceInv)'
  BY NextType, NextPlace
<1> QED BY <1>1, <1>2, PlaceIsOwner, PTL DEF Spec

-----------------------------------------------------------------------------
(* Refinement: the fates of the results change as Outbox allows. *)

fate == [r \in Results |-> Fate(r)]

(* What a result's fate says of it. *)
LEMMA FateOf ==
    ASSUME PlaceInv, NEW r \in Results
    PROVE  /\ fate[r] = Fate(r)
           /\ r \in delivered => fate[r] = "delivered"
           /\ r \in lost => fate[r] = "lost"
           /\ r \in dropped => fate[r] = "dropped"
           /\ r \in poisoned => fate[r] = "poisoned"
           /\ r \in forgotten => fate[r] = "forgotten"
           /\ ~Ended(r) => fate[r] = IF pc[r] = "working" THEN "working" ELSE "pending"
BY DEF fate, Fate, Ended, PlaceInv, OneEnd

(* The same of the next state. *)
LEMMA NextFateOf ==
    ASSUME PlaceInv', NEW r \in Results
    PROVE  /\ r \in delivered' => fate'[r] = "delivered"
           /\ r \in lost' => fate'[r] = "lost"
           /\ r \in dropped' => fate'[r] = "dropped"
           /\ r \in poisoned' => fate'[r] = "poisoned"
           /\ r \in forgotten' => fate'[r] = "forgotten"
           /\ ~Ended(r)' => fate'[r] = IF pc'[r] = "working" THEN "working" ELSE "pending"
BY DEF fate, Fate, Ended, PlaceInv, OneEnd

(* A fate stays when the result's end does and the handler goes on. *)
LEMMA FateStays ==
    ASSUME NEW r \in Results,
           r \in delivered' <=> r \in delivered, r \in lost' <=> r \in lost,
           r \in dropped' <=> r \in dropped, r \in poisoned' <=> r \in poisoned,
           r \in forgotten' <=> r \in forgotten,
           pc'[r] = "working" <=> pc[r] = "working"
    PROVE  fate'[r] = fate[r]
BY DEF fate, Fate

(* One result meets an end. *)
LEMMA SettleOne ==
    ASSUME NEW r \in Results, NEW end \in {"delivered", "dropped", "poisoned"},
           fate[r] = "pending", fate'[r] = end, \A q \in Results : q # r => fate'[q] = fate[q]
    PROVE  Promise!Next
<1>1. fate' = [q \in Results |-> IF q \in {r} THEN end ELSE fate[q]]
  <2>1. \A q \in Results : fate'[q] = IF q \in {r} THEN end ELSE fate[q]
    OBVIOUS
  <2>2. fate' = [q \in Results |-> fate'[q]]
    BY DEF fate
  <2> QED BY <2>1, <2>2
<1>2. Promise!Settle({r}, end)
  BY <1>1 DEF Promise!Settle, fate
<1> QED BY <1>2 DEF Promise!Next

(* A step that moves no result from or to an end is none of Outbox's,      *)
(* unless it ends the work of a handler.                                   *)
LEMMA FatesStay ==
    ASSUME UNCHANGED <<delivered, lost, dropped, poisoned, forgotten>>,
           \A r \in Results : pc'[r] = "working" <=> pc[r] = "working"
    PROVE  fate' = fate
<1>1. \A r \in Results : fate'[r] = fate[r]
  BY FateStays
<1> QED BY <1>1 DEF fate

(* Every step is a step of Outbox or changes no fate. *)
LEMMA StepRefines ==
    ASSUME TypeInv, PlaceInv, PlaceInv', [Next]_vars
    PROVE  [Promise!Next]_fate
<1>0. TypeOK
  BY DEF TypeInv
<1>a. (* a result is queued again, or dropped *)
      ASSUME NEW r \in Results, EnqueuePending(r), fate[r] = "pending", pc'[r] # "working",
             UNCHANGED <<delivered, lost, poisoned, forgotten>>,
             \A q \in Results : pc'[q] = "working" <=> pc[q] = "working"
      PROVE  [Promise!Next]_fate
  <2>1. CASE dropped' = dropped
    BY <1>a, <2>1, FatesStay
  <2>2. CASE dropped' = dropped \cup {r}
    <3>1. fate'[r] = "dropped"
      BY <2>2, NextFateOf
    <3>2. \A q \in Results : q # r => fate'[q] = fate[q]
      BY <1>a, <2>2, FateStays
    <3> QED BY <1>a, <3>1, <3>2, SettleOne
  <2> QED BY <1>a, <2>1, <2>2 DEF EnqueuePending
<1>1. ASSUME NEW r \in Results, HandlerStep(r) PROVE [Promise!Next]_fate
  <2>1. CASE FinishWork(r)
    <3>1. fate[r] = "working"
      BY <1>0, <2>1, FateOf DEF FinishWork, PlaceInv, HandlerOnly
    <3>2. fate'[r] = "pending"
      BY <1>0, <2>1, <3>1, NextFateOf DEF FinishWork, TypeOK, PlaceInv, HandlerOnly, Ended
    <3>3. \A q \in Results : q # r => fate'[q] = fate[q]
      BY <1>0, <2>1, FateStays DEF FinishWork, TypeOK
    <3>4. fate' = [fate EXCEPT ![r] = "pending"]
      BY <3>2, <3>3 DEF fate
    <3> QED BY <3>1, <3>4 DEF Promise!Next, Promise!Make, fate
  <2>2. CASE Route(r) \/ SendResult(r)
    BY <1>0, <2>2, FatesStay DEF Route, SendResult, TypeOK
  <2>3. CASE QueuePendingResult(r)
    <3>1. fate[r] = "pending"
      BY <1>0, <2>3, FateOf DEF QueuePendingResult, PlaceInv, HandlerOnly
    <3> QED BY <1>0, <1>a, <2>3, <3>1 DEF QueuePendingResult, TypeOK
  <2> QED BY <1>1, <2>1, <2>2, <2>3 DEF HandlerStep
<1>2. CASE RunStep
  BY <1>2, FatesStay DEF RunStep, Attach, DrainAtConnect, StartHeartbeats, Disconnect
<1>3. ASSUME NEW c \in Connections, ConnectionStep(c) PROVE [Promise!Next]_fate
  <2>1. CASE DrainAtHeartbeat(c) \/ StopHeartbeats(c)
    BY <2>1, FatesStay DEF DrainAtHeartbeat, StopHeartbeats
  <2>2. CASE DrainNext(c)
    <3> DEFINE r == Head(batch[c])
    <3>1. r \in Results /\ r \in Range(batch[c])
      BY <1>0, <2>2, RangeTail DEF DrainNext, TypeOK
    <3>2. ~Ended(r) /\ pc[r] = "done"
      BY <3>1 DEF PlaceInv, BatchOnly, HandlerOnly
    <3>3. fate[r] = "pending"
      BY <3>1, <3>2, FateOf
    <3>4. UNCHANGED <<pc, delivered, lost, forgotten>>
      BY <2>2 DEF DrainNext
    <3>5. \/ UNCHANGED <<dropped, poisoned>>
          \/ poisoned' = poisoned \cup {r} /\ UNCHANGED dropped
          \/ EnqueuePending(r) /\ UNCHANGED poisoned
      BY <2>2 DEF DrainNext
    <3> HIDE DEF r
    <3>6. CASE UNCHANGED <<dropped, poisoned>>
      BY <3>4, <3>6, FatesStay
    <3>7. CASE poisoned' = poisoned \cup {r} /\ UNCHANGED dropped
      <4>1. fate'[r] = "poisoned"
        BY <3>1, <3>7, NextFateOf
      <4>2. \A q \in Results : q # r => fate'[q] = fate[q]
        BY <3>4, <3>7, FateStays
      <4> QED BY <3>1, <3>3, <4>1, <4>2, SettleOne
    <3>8. CASE EnqueuePending(r) /\ UNCHANGED poisoned
      BY <1>a, <3>1, <3>2, <3>3, <3>4, <3>8
    <3> QED BY <3>5, <3>6, <3>7, <3>8
  <2> QED BY <1>3, <2>1, <2>2 DEF ConnectionStep
<1>4. ASSUME NEW c \in Connections, Deliver(c) PROVE [Promise!Next]_fate
  <2>1. PICK r \in wire[c] : delivered' = delivered \cup {r}
    BY <1>4 DEF Deliver
  <2>2. r \in Results /\ ~Ended(r) /\ pc[r] = "done"
    BY <1>0 DEF TypeOK, PlaceInv, WireOnly, HandlerOnly
  <2>3. fate[r] = "pending" /\ fate'[r] = "delivered"
    BY <2>1, <2>2, FateOf, NextFateOf
  <2>4. \A q \in Results : q # r => fate'[q] = fate[q]
    BY <1>4, <2>1, FateStays DEF Deliver
  <2> QED BY <2>2, <2>3, <2>4, SettleOne
<1>5. ASSUME NEW c \in Connections, Break(c) PROVE [Promise!Next]_fate
  <2>1. wire[c] \in SUBSET Results
    BY <1>0 DEF TypeOK
  <2>2. \A r \in wire[c] : fate[r] = "pending"
    BY <2>1, FateOf DEF PlaceInv, WireOnly, HandlerOnly
  <2>3. \A r \in Results : fate'[r] = IF r \in wire[c] THEN "lost" ELSE fate[r]
    BY <1>5, <2>1, NextFateOf, FateStays DEF Break
  <2>4. fate' = [r \in Results |-> IF r \in wire[c] THEN "lost" ELSE fate[r]]
    BY <2>3 DEF fate
  <2>5. CASE wire[c] = {}
    BY <2>3, <2>5 DEF fate
  <2>6. CASE wire[c] # {}
    <3>1. Promise!Settle(wire[c], "lost")
      BY <2>2, <2>4, <2>6 DEF Promise!Settle, fate
    <3> QED BY <2>1, <3>1 DEF Promise!Next
  <2> QED BY <2>5, <2>6
<1>6. CASE Crash
  <2> DEFINE gone == UNION {wire[c] : c \in Connections}
  <2>1. gone \in SUBSET Results /\ InMemory \in SUBSET Results
    BY <1>0 DEF TypeOK, InMemory
  <2>2. \A r \in gone : fate[r] = "pending"
    BY <2>1, FateOf DEF PlaceInv, WireOnly, HandlerOnly
  <2>3. \A r \in InMemory : ~Ended(r)
    BY DEF InMemory, PlaceInv, HandlerOnly, QueueOnly, BatchOnly
  <2>4. \A r \in InMemory : fate[r] \in Promise!Open
    BY <2>1, <2>3, FateOf DEF Promise!Open
  <2>5. \A r \in Results : fate'[r] = IF r \in gone THEN "lost"
                                     ELSE IF r \in InMemory THEN "forgotten" ELSE fate[r]
    <3> SUFFICES ASSUME NEW r \in Results
                 PROVE  fate'[r] = IF r \in gone THEN "lost"
                                   ELSE IF r \in InMemory THEN "forgotten" ELSE fate[r]
      OBVIOUS
    <3>1. lost' = lost \cup gone /\ forgotten' = forgotten \cup InMemory
          /\ UNCHANGED <<delivered, dropped, poisoned>>
      BY <1>6 DEF Crash
    <3>2. CASE r \in gone
      BY <3>1, <3>2, NextFateOf
    <3>3. CASE r \notin gone /\ r \in InMemory
      BY <3>1, <3>3, NextFateOf
    <3>4. CASE r \notin gone /\ r \notin InMemory
      <4>1. Ended(r) /\ Ended(r)'
        BY <3>1, <3>4 DEF InMemory, PlaceInv, Kept, Ended
      <4> QED BY <3>1, <3>4, <4>1, FateOf, NextFateOf DEF Ended
    <3> QED BY <3>2, <3>3, <3>4
  <2> HIDE DEF gone
  <2>6. fate' = [r \in Results |-> IF r \in gone THEN "lost"
                                  ELSE IF r \in InMemory THEN "forgotten" ELSE fate[r]]
    BY <2>5 DEF fate
  <2>7. Promise!EndProcess(InMemory, gone)
    BY <2>2, <2>4, <2>6 DEF Promise!EndProcess, fate
  <2> QED BY <2>1, <2>7 DEF Promise!Next
<1>7. CASE UNCHANGED vars
  BY <1>7, FatesStay DEF vars
<1> QED BY <1>1, <1>2, <1>3, <1>4, <1>5, <1>6, <1>7 DEF Next

(* Handlers, router, queue and drains implement the safety part of Outbox: *)
(* a result is made once, meets one end and keeps it, and whatever a step  *)
(* of the agent does to the other results leaves them as they were.        *)
THEOREM ImplementsOutbox == Spec => Promise!Safety
<1>1. Init => TypeInv /\ PlaceInv
  BY InitType, InitPlace
<1>2. TypeInv /\ PlaceInv /\ [Next]_vars => (TypeInv /\ PlaceInv)'
  BY NextType, NextPlace
<1>3. Init => Promise!Init
  BY DEF Init, Promise!Init, Fate
<1>4. TypeInv /\ PlaceInv /\ PlaceInv' /\ [Next]_vars => [Promise!Next]_fate
  BY StepRefines
<1> QED BY <1>1, <1>2, <1>3, <1>4, PTL DEF Spec, Promise!Safety, fate
=============================================================================
