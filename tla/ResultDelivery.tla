---------------------------- MODULE ResultDelivery ----------------------------
(***************************************************************************)
(* How a terminal result (deploy status, backup or image-push result)      *)
(* reaches the control plane across reconnects: streamRouter               *)
(* (internal/agent/stream_router.go), queuePendingResult and               *)
(* DrainPendingResults (handler.go), and the calls that connectAndStream   *)
(* and sendHeartbeats make to them (agent.go).                             *)
(*                                                                         *)
(* Command handlers send on whichever stream is live; the reconnect loop   *)
(* and the heartbeat sender of a connection drain the queue on their own   *)
(* connection's stream, and the sender of a dead connection may still be   *)
(* draining while the next connection is set up.                           *)
(*                                                                         *)
(* External: a gRPC stream.  Send on an open stream hands the message to   *)
(* the transport and returns; the message arrives later, or is lost when   *)
(* the stream breaks.  Send on a broken stream fails.  A message with      *)
(* invalid UTF-8 cannot be marshalled: Send fails and aborts the stream.   *)
(*                                                                         *)
(* Abstractions.  A result is known by the startup logs it carries: the    *)
(* widths in bytes of their characters, all valid after sanitizeUTF8.      *)
(***************************************************************************)
EXTENDS Naturals, Sequences, FiniteSets, SequencesExt

CONSTANTS
    Results,         \* terminal results, one handler goroutine each
    Logs,            \* the widths of the characters of each result's logs
    LogLimit,        \* 4096: bytes of startup logs in a message
    QueueLimit,      \* 64: length of pendingResults
    MaxConnections,  \* bound: connections established
    MaxBreaks,       \* bound: streams the network breaks
    MaxCrashes       \* bound: ends of the process

ASSUME DeliveryConstants ==
    /\ Logs \in [Results -> Seq(1 .. 4)]
    /\ LogLimit \in Nat /\ QueueLimit \in Nat \ {0}
    /\ MaxConnections \in Nat \ {0} /\ MaxBreaks \in Nat /\ MaxCrashes \in Nat

Connections == 1 .. MaxConnections
NoStream == 0

VARIABLES
    pc, target,   \* each handler's place, and the stream router.send found
    queue,        \* pendingResults
    current,      \* streamRouter.current
    conn,         \* the connection connectAndStream works on
    phase,        \* "down": between connections, "drain": before the heartbeats, "up"
    open,         \* streams that accept messages
    beating,      \* connections whose heartbeat sender runs
    batch,        \* what each connection's DrainPendingResults has taken and not sent
    wire,         \* messages in each stream's transport
    delivered,    \* results the control plane received
    lost,         \* history: results lost with the transport of a broken stream
    dropped,      \* history: results queuePendingResult had no room for
    poisoned,     \* history: results DrainPendingResults gave up
    forgotten,    \* history: results that were in memory when the process ended
    breaks, crashes

vars == <<pc, target, queue, current, conn, phase, open, beating, batch, wire,
          delivered, lost, dropped, poisoned, forgotten, breaks, crashes>>

TypeOK ==
    /\ pc \in [Results -> {"working", "route", "send", "queue", "done"}]
    /\ target \in [Results -> Connections \cup {NoStream}]
    /\ queue \in Seq(Results) /\ Len(queue) <= QueueLimit
    /\ current \in Connections \cup {NoStream}
    /\ conn \in 0 .. MaxConnections
    /\ phase \in {"down", "drain", "up"}
    /\ open \in SUBSET Connections /\ beating \in SUBSET Connections
    /\ batch \in [Connections -> Seq(Results)]
    /\ wire \in [Connections -> SUBSET Results]
    /\ {delivered, lost, dropped, poisoned, forgotten} \subseteq SUBSET Results
    /\ breaks \in 0 .. MaxBreaks /\ crashes \in 0 .. MaxCrashes

Init ==
    /\ pc = [r \in Results |-> "working"]
    /\ target = [r \in Results |-> NoStream]
    /\ queue = <<>>
    /\ current = NoStream
    /\ conn = 0 /\ phase = "down"
    /\ open = {} /\ beating = {}
    /\ batch = [c \in Connections |-> <<>>]
    /\ wire = [c \in Connections |-> {}]
    /\ delivered = {} /\ lost = {} /\ dropped = {} /\ poisoned = {} /\ forgotten = {}
    /\ breaks = 0 /\ crashes = 0

-----------------------------------------------------------------------------
(* Messages *)

Bytes(widths) == FoldLeft(LAMBDA n, w : n + w, 0, widths)

(* sendTerminalProgress cuts the logs at LogLimit bytes, after making them *)
(* valid.  The message is invalid when the cut falls inside a character.   *)
ValidUTF8(r) ==
    Bytes(Logs[r]) > LogLimit =>
        \E n \in 0 .. Len(Logs[r]) : Bytes(SubSeq(Logs[r], 1, n)) = LogLimit

(* External: Send on stream c. *)
Accepts(c, r) == c \in open /\ ValidUTF8(r)

Transmit(c, r) ==
    /\ wire' = [wire EXCEPT ![c] = IF Accepts(c, r) THEN @ \cup {r} ELSE @]
    /\ open' = IF ValidUTF8(r) THEN open ELSE open \ {c}

EnqueuePending_OffByOne(r) ==
    /\ queue' = IF Len(queue) <= QueueLimit THEN Append(queue, r) ELSE queue
    /\ dropped' = IF Len(queue) <= QueueLimit THEN dropped ELSE dropped \cup {r}

(* queuePendingResult *)
EnqueuePending(r) ==
    /\ queue' = IF Len(queue) < QueueLimit THEN Append(queue, r) ELSE queue
    /\ dropped' = IF Len(queue) < QueueLimit THEN dropped ELSE dropped \cup {r}

-----------------------------------------------------------------------------
(* A command handler sends its result *)

FinishWork(r) ==
    /\ pc[r] = "working"
    /\ pc' = [pc EXCEPT ![r] = "route"]
    /\ UNCHANGED <<target, queue, current, conn, phase, open, beating, batch, wire,
                   delivered, lost, dropped, poisoned, forgotten, breaks, crashes>>

(* streamRouter.send takes the live stream under the mutex; there may be none. *)
Route(r) ==
    /\ pc[r] = "route"
    /\ target' = [target EXCEPT ![r] = current]
    /\ pc' = [pc EXCEPT ![r] = IF current = NoStream THEN "queue" ELSE "send"]
    /\ UNCHANGED <<queue, current, conn, phase, open, beating, batch, wire,
                   delivered, lost, dropped, poisoned, forgotten, breaks, crashes>>

(* liveStream.Send on it, possibly when it is live no longer. *)
SendResult(r) ==
    /\ pc[r] = "send"
    /\ Transmit(target[r], r)
    /\ pc' = [pc EXCEPT ![r] = IF Accepts(target[r], r) THEN "done" ELSE "queue"]
    /\ target' = [target EXCEPT ![r] = NoStream]
    /\ UNCHANGED <<queue, current, conn, phase, beating, batch,
                   delivered, lost, dropped, poisoned, forgotten, breaks, crashes>>

QueuePendingResult(r) ==
    /\ pc[r] = "queue"
    /\ EnqueuePending(r)
    /\ pc' = [pc EXCEPT ![r] = "done"]
    /\ UNCHANGED <<target, current, conn, phase, open, beating, batch, wire,
                   delivered, lost, poisoned, forgotten, breaks, crashes>>

-----------------------------------------------------------------------------
(* Connections and drains *)

(* DrainPendingResults swaps the queue out under pendingMu. *)
TakeQueue(c) ==
    /\ batch' = [batch EXCEPT ![c] = queue]
    /\ queue' = <<>>

(* connectAndStream opens a stream and attaches it, ... *)
Attach ==
    /\ phase = "down"
    /\ conn < MaxConnections
    /\ conn' = conn + 1
    /\ phase' = "drain"
    /\ open' = open \cup {conn + 1}
    /\ current' = conn + 1
    /\ UNCHANGED <<pc, target, queue, beating, batch, wire, delivered, lost, dropped,
                   poisoned, forgotten, breaks, crashes>>

(* ... drains the queue on it before the heartbeats start, ... *)
DrainAtConnect ==
    /\ phase = "drain"
    /\ phase' = "up"
    /\ TakeQueue(conn)
    /\ UNCHANGED <<pc, target, current, conn, open, beating, wire, delivered, lost,
                   dropped, poisoned, forgotten, breaks, crashes>>

StartHeartbeats ==
    /\ phase = "up" /\ batch[conn] = <<>>
    /\ conn \notin beating
    /\ beating' = beating \cup {conn}
    /\ UNCHANGED <<pc, target, queue, current, conn, phase, open, batch, wire, delivered, lost,
                   dropped, poisoned, forgotten, breaks, crashes>>

(* ... and again after each heartbeat that could be sent. *)
DrainAtHeartbeat_Never(c) == FALSE /\ UNCHANGED vars

DrainAtHeartbeat(c) ==
    /\ c \in beating /\ c \in open
    /\ batch[c] = <<>> /\ queue # <<>>
    /\ TakeQueue(c)
    /\ UNCHANGED <<pc, target, current, conn, phase, open, beating, wire, delivered, lost,
                   dropped, poisoned, forgotten, breaks, crashes>>

DrainNext_StopsOnError(c) ==
    LET r == Head(batch[c]) IN
    /\ batch[c] # <<>>
    /\ batch' = [batch EXCEPT ![c] = IF Accepts(c, r) THEN Tail(@) ELSE <<>>]
    /\ Transmit(c, r)
    /\ \/ /\ Accepts(c, r)
          /\ UNCHANGED <<queue, dropped, poisoned>>
       \/ /\ ~ValidUTF8(r)
          /\ poisoned' = poisoned \cup {r}
          /\ UNCHANGED <<queue, dropped>>
       \/ /\ ~Accepts(c, r) /\ ValidUTF8(r)
          /\ EnqueuePending(r)
          /\ UNCHANGED poisoned
    /\ UNCHANGED <<pc, target, current, conn, phase, beating, delivered, lost, forgotten, breaks, crashes>>

(* A drain sends the next result of its batch; poison is dropped, any      *)
(* other failure is queued again.                                          *)
DrainNext(c) ==
    LET r == Head(batch[c]) IN
    /\ batch[c] # <<>>
    /\ batch' = [batch EXCEPT ![c] = Tail(@)]
    /\ Transmit(c, r)
    /\ \/ /\ Accepts(c, r)
          /\ UNCHANGED <<queue, dropped, poisoned>>
       \/ /\ ~ValidUTF8(r)
          /\ poisoned' = poisoned \cup {r}
          /\ UNCHANGED <<queue, dropped>>
       \/ /\ ~Accepts(c, r) /\ ValidUTF8(r)
          /\ EnqueuePending(r)
          /\ UNCHANGED poisoned
    /\ UNCHANGED <<pc, target, current, conn, phase, beating, delivered, lost, forgotten, breaks, crashes>>

(* A heartbeat or the receiver fails on the broken stream: connectAndStream *)
(* returns, after detach and conn.Close.  Its first drain has returned.     *)
Disconnect ==
    /\ phase = "up" /\ conn \in beating
    /\ conn \notin open
    /\ phase' = "down"
    /\ current' = IF current = conn THEN NoStream ELSE current
    /\ UNCHANGED <<pc, target, queue, conn, open, beating, batch, wire, delivered, lost,
                   dropped, poisoned, forgotten, breaks, crashes>>

(* The heartbeat sender of a broken connection returns. *)
StopHeartbeats(c) ==
    /\ c \in beating /\ c \notin open /\ batch[c] = <<>>
    /\ c # conn \/ phase = "down"
    /\ beating' = beating \ {c}
    /\ UNCHANGED <<pc, target, queue, current, conn, phase, open, batch, wire, delivered, lost,
                   dropped, poisoned, forgotten, breaks, crashes>>

-----------------------------------------------------------------------------
(* External: the network *)

Deliver(c) ==
    /\ \E r \in wire[c] :
        /\ delivered' = delivered \cup {r}
        /\ wire' = [wire EXCEPT ![c] = @ \ {r}]
    /\ UNCHANGED <<pc, target, queue, current, conn, phase, open, beating, batch, lost,
                   dropped, poisoned, forgotten, breaks, crashes>>

(* RST_STREAM, HTTP 524 or a lost connection: what is under way is lost. *)
Break(c) ==
    /\ c \in open /\ breaks < MaxBreaks
    /\ breaks' = breaks + 1
    /\ open' = open \ {c}
    /\ wire' = [wire EXCEPT ![c] = {}]
    /\ lost' = lost \cup wire[c]
    /\ UNCHANGED <<pc, target, queue, current, conn, phase, beating, batch, delivered,
                   dropped, poisoned, forgotten, crashes>>

-----------------------------------------------------------------------------
(* The process ends (a crash, a self-update, systemd): handlers, queue and *)
(* drains are gone, nothing of them was saved, and a new process starts.   *)
InMemory == {r \in Results : \/ pc[r] # "done" \/ r \in Range(queue)
                             \/ \E c \in Connections : r \in Range(batch[c])}

Crash ==
    /\ crashes < MaxCrashes /\ crashes' = crashes + 1
    /\ forgotten' = forgotten \cup InMemory
    /\ lost' = lost \cup UNION {wire[c] : c \in Connections}
    /\ pc' = [r \in Results |-> "done"]
    /\ target' = [r \in Results |-> NoStream]
    /\ queue' = <<>> /\ batch' = [c \in Connections |-> <<>>]
    /\ wire' = [c \in Connections |-> {}]
    /\ current' = NoStream /\ phase' = "down" /\ open' = {} /\ beating' = {}
    /\ UNCHANGED <<conn, delivered, dropped, poisoned, breaks>>

-----------------------------------------------------------------------------
HandlerStep(r) == FinishWork(r) \/ Route(r) \/ SendResult(r) \/ QueuePendingResult(r)

RunStep == Attach \/ DrainAtConnect \/ StartHeartbeats \/ Disconnect

ConnectionStep(c) == DrainAtHeartbeat(c) \/ DrainNext(c) \/ StopHeartbeats(c)

Next ==
    \/ \E r \in Results : HandlerStep(r)
    \/ RunStep
    \/ \E c \in Connections : ConnectionStep(c) \/ Deliver(c) \/ Break(c)
    \/ Crash

Spec == Init /\ [][Next]_vars

(***************************************************************************)
(* Fairness.  Every goroutine runs, the heartbeat ticker fires, and an     *)
(* open stream delivers what it was given.                                 *)
(***************************************************************************)
Fairness ==
    /\ \A r \in Results : WF_vars(HandlerStep(r))
    /\ WF_vars(RunStep)
    /\ \A c \in Connections : WF_vars(ConnectionStep(c)) /\ WF_vars(Deliver(c))

FairSpec == Spec /\ Fairness

-----------------------------------------------------------------------------
(* Properties *)

Queued(r) == {i \in 1 .. Len(queue) : queue[i] = r}
Taken(r) == {ci \in Connections \X (1 .. QueueLimit) :
               ci[2] <= Len(batch[ci[1]]) /\ batch[ci[1]][ci[2]] = r}

Owners(r) ==
    Cardinality(Queued(r)) + Cardinality(Taken(r))
      + Cardinality({c \in Connections : r \in wire[c]}) + (IF pc[r] = "done" THEN 0 ELSE 1)

Ends(r) == Cardinality({e \in 1 .. 5 :
    r \in <<delivered, lost, dropped, poisoned, forgotten>>[e]})

(* A result has exactly one owner at any time, its handler, the queue, one *)
(* drain or one stream's transport, or else one end: it was delivered, or  *)
(* lost with the stream, the queue was full, it is poison, or the process  *)
(* ended.  None is mislaid and none is sent twice, although drains of two  *)
(* connections swap and refill the queue while handlers append to it.      *)
OneOwner == \A r \in Results : Owners(r) + Ends(r) = 1

Fate(r) ==
    CASE r \in delivered -> "delivered"
      [] r \in lost      -> "lost"
      [] r \in dropped   -> "dropped"
      [] r \in poisoned  -> "poisoned"
      [] r \in forgotten -> "forgotten"
      [] OTHER           -> IF pc[r] = "working" THEN "working" ELSE "pending"

Promise == INSTANCE Outbox WITH fate <- [r \in Results |-> Fate(r)]

(* Handlers, router, queue and drains together keep the promise of Outbox: *)
(* each result meets one end and keeps it, and no result is left in the    *)
(* queue, on a connection that is already up either: sendHeartbeats' drain *)
(* after each heartbeat covers a deploy that ends just after the drain at  *)
(* connection start.                                                       *)
KeepsPromise == Promise!Spec
=============================================================================
