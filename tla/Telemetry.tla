------------------------------ MODULE Telemetry ------------------------------
(***************************************************************************)
(* Logs and metrics on their way to the control plane: the collectors      *)
(* (internal/logs/collector.go, internal/metrics/collector.go), their      *)
(* bounded channels, and the streamers each connection starts for them     *)
(* (runLogStreamer, runMetricStreamer in agent.go; StreamLogs and          *)
(* StreamMetrics in grpcclient).                                           *)
(*                                                                         *)
(* The two pipelines share no state, and behind their channels they are    *)
(* the same code: a behaviour follows the one Init chooses.                *)
(*                                                                         *)
(* External: Docker's follow stream of a container's log, from the moment  *)
(* it is opened (tail "0") until the container stops; a client-streaming   *)
(* RPC, whose Send hands the message to the transport and fails only when  *)
(* the stream is known to be broken or cancelled.                          *)
(*                                                                         *)
(* Abstractions.  An entry is its source and its number.  A tailer reads a *)
(* line and offers it in one step.  The process ends (stopAll) outside the *)
(* model.  A failed ListManagedContainers changes nothing and is no step.  *)
(***************************************************************************)
EXTENDS Naturals, Sequences, FiniteSets

CONSTANTS
    Containers,      \* managed containers with a deployment id
    Capacity,        \* channelSize
    MaxEntries,      \* bound: entries of each source
    MaxStarts,       \* bound: container starts
    MaxConnections,  \* bound: connections
    MaxBreaks,       \* bound: RPC streams the network breaks
    MaxFaults        \* bound: failing Docker calls and failing opens of an RPC

ASSUME TelemetryConstants ==
    /\ Containers # {} /\ {"build", "metrics"} \cap Containers = {}
    /\ Capacity \in Nat \ {0} /\ MaxEntries \in [Containers \cup {"build", "metrics"} -> Nat]
    /\ {MaxStarts, MaxConnections, MaxBreaks, MaxFaults} \subseteq Nat

VARIABLES
    pipeline,             \* "logs" or "metrics"
    up,                   \* containers that run
    snapshot,             \* what ListManagedContainers returned to reconcile, or none yet
    tail,                 \* each container's tailer and its entry in the tailers map
    unread,               \* lines in each tailer's follow stream
    todo,                 \* what the metrics goroutine will collect before its next select
    made,                 \* entries each source has made
    channel,              \* outCh
    conns, live,          \* connections so far; the connection that is up, or 0
    streamer, hand,       \* each connection's streamer, and the entry it has taken
    intact,               \* connections whose RPC stream accepts messages
    wire, last,           \* entries in each RPC's transport; the last one of each source to arrive
    spilled,              \* history: entries a failed Send cost
    seenDown, excused,    \* history: see Start
    starts, breaks, faults

dockerVars == <<up, seenDown, starts>>
collectVars == <<snapshot, tail, unread, todo, excused>>
channelVars == <<made, channel>>
streamVars == <<conns, live, streamer, hand, intact, wire, last, spilled>>
vars == <<pipeline, dockerVars, collectVars, channelVars, streamVars, breaks, faults>>

Sources == Containers \cup {"build", "metrics"}
Entry == [src : Sources, n : Nat]
NoEntry == [src |-> "none", n |-> 0]
Unlisted == {"unlisted"}
Connections == 1 .. MaxConnections

TypeOK ==
    /\ pipeline \in {"logs", "metrics"}
    /\ up \subseteq Containers /\ snapshot \in (SUBSET Containers) \cup {Unlisted}
    /\ tail \in [Containers -> {"off", "open", "follow", "closing", "ended"}]
    /\ \A c \in Containers : unread[c] \in Seq(Nat)
    /\ \A c \in Containers : unread[c] # <<>> => tail[c] \in {"follow", "closing"}
    /\ todo \in Seq({"containers", "host", "disk"})
    /\ made \in [Sources -> Nat]
    /\ channel \in Seq(Entry) /\ Len(channel) <= Capacity
    /\ conns \in 0 .. MaxConnections /\ live \in {0, conns}
    /\ streamer \in [Connections -> {"none", "open", "select", "send", "wait", "over"}]
    /\ \A k \in Connections :
        /\ hand[k] \in Entry \cup {NoEntry}
        /\ hand[k] # NoEntry <=> streamer[k] = "send"
        /\ wire[k] \in Seq(Entry) /\ (wire[k] # <<>> => k \in intact)
    /\ intact \subseteq {live} \ {0}
    /\ last \in [Sources -> Nat] /\ spilled \in Nat
    /\ seenDown \subseteq Containers /\ excused \subseteq Containers
    /\ starts \in 0 .. MaxStarts /\ breaks \in 0 .. MaxBreaks /\ faults \in 0 .. MaxFaults

Init ==
    /\ pipeline \in {"logs", "metrics"}
    /\ up \in SUBSET Containers /\ seenDown = {} /\ excused = {}
    /\ snapshot = Unlisted
    /\ tail = [c \in Containers |-> "off"] /\ unread = [c \in Containers |-> <<>>]
    /\ todo = IF pipeline = "metrics" THEN <<"containers", "host", "disk">> ELSE <<>>
    /\ made = [s \in Sources |-> 0] /\ channel = <<>>
    /\ conns = 0 /\ live = 0
    /\ streamer = [k \in Connections |-> "none"] /\ hand = [k \in Connections |-> NoEntry]
    /\ intact = {} /\ wire = [k \in Connections |-> <<>>] /\ last = [s \in Sources |-> 0]
    /\ spilled = 0
    /\ starts = 0 /\ breaks = 0 /\ faults = 0

Fault == faults < MaxFaults /\ faults' = faults + 1

-----------------------------------------------------------------------------
(* The channel *)

Offer_Blocks(e) ==
    /\ Len(channel) < Capacity
    /\ channel' = Append(channel, e)

(* The non-blocking send of tailContainer, Inject and the metric batches. *)
Offer(e) ==
    \/ /\ Len(channel) < Capacity
       /\ channel' = Append(channel, e)
    \/ /\ Len(channel) = Capacity
       /\ UNCHANGED channel

(* The next entry of a source that makes and offers it in one step. *)
OfferNext(s) ==
    /\ made[s] < MaxEntries[s]
    /\ made' = [made EXCEPT ![s] = @ + 1]
    /\ Offer([src |-> s, n |-> made[s] + 1])

Inject ==
    /\ pipeline = "logs"
    /\ OfferNext("build")
    /\ UNCHANGED <<pipeline, dockerVars, collectVars, streamVars, breaks, faults>>

-----------------------------------------------------------------------------
(* External: containers.  A stop ends the follow stream after what it      *)
(* still holds.                                                            *)

Start(c) ==
    /\ pipeline = "logs" /\ c \notin up
    /\ starts < MaxStarts /\ starts' = starts + 1
    /\ up' = up \cup {c}
    \* No list has shown it down since it stopped, and its tailer is registered.
    /\ excused' = IF tail[c] # "off" /\ c \notin seenDown THEN excused \cup {c} ELSE excused
    /\ UNCHANGED <<pipeline, seenDown, snapshot, tail, unread, todo, channelVars, streamVars,
                   breaks, faults>>

Stop(c) ==
    /\ pipeline = "logs" /\ c \in up
    /\ up' = up \ {c}
    /\ seenDown' = seenDown \ {c}
    /\ tail' = [tail EXCEPT ![c] = IF @ = "follow" THEN "closing" ELSE @]
    /\ UNCHANGED <<pipeline, starts, snapshot, unread, todo, excused, channelVars, streamVars,
                   breaks, faults>>

WriteLine(c) ==
    /\ tail[c] = "follow"
    /\ made[c] < MaxEntries[c]
    /\ made' = [made EXCEPT ![c] = @ + 1]
    /\ unread' = [unread EXCEPT ![c] = Append(@, made[c] + 1)]
    /\ UNCHANGED <<pipeline, dockerVars, snapshot, tail, todo, excused, channel,
                   streamVars, breaks, faults>>

-----------------------------------------------------------------------------
(* Collector.reconcile of the logs *)

ListManagedContainers ==
    /\ pipeline = "logs" /\ snapshot = Unlisted
    /\ snapshot' = up
    /\ seenDown' = seenDown \cup (Containers \ up)
    /\ UNCHANGED <<pipeline, up, starts, tail, unread, todo, excused, channelVars, streamVars,
                   breaks, faults>>

Reconcile_KeepsStopped ==
    /\ snapshot # Unlisted
    /\ snapshot' = Unlisted
    /\ tail' = [c \in Containers |-> IF c \in snapshot /\ tail[c] = "off" THEN "open" ELSE tail[c]]
    /\ UNCHANGED <<pipeline, dockerVars, unread, todo, excused, channelVars, streamVars,
                   breaks, faults>>

(* Tailers are started for the containers of the list that have no entry,  *)
(* and cancelled and taken from the map for those it does not hold; what a *)
(* cancelled tailer has not read it will not read.                         *)
Reconcile ==
    LET gone == Containers \ snapshot IN
    /\ snapshot # Unlisted
    /\ snapshot' = Unlisted
    /\ tail' = [c \in Containers |-> CASE c \in gone -> "off"
                                       [] c \notin gone /\ tail[c] = "off" -> "open"
                                       [] OTHER -> tail[c]]
    /\ unread' = [c \in Containers |-> IF c \in gone THEN <<>> ELSE unread[c]]
    /\ excused' = excused \ gone
    /\ UNCHANGED <<pipeline, dockerVars, todo, channelVars, streamVars, breaks, faults>>

(* tailContainer opens the follow stream, which ends at once if the        *)
(* container has stopped, ...                                              *)
TailerOpens(c) ==
    /\ tail[c] = "open"
    /\ tail' = [tail EXCEPT ![c] = IF c \in up THEN "follow" ELSE "closing"]
    /\ UNCHANGED <<pipeline, dockerVars, snapshot, unread, todo, excused, channelVars,
                   streamVars, breaks, faults>>

(* ... offers the lines it reads, ... *)
TailerReads(c) ==
    /\ unread[c] # <<>>
    /\ unread' = [unread EXCEPT ![c] = Tail(@)]
    /\ Offer([src |-> c, n |-> Head(unread[c])])
    /\ UNCHANGED <<pipeline, dockerVars, snapshot, tail, todo, excused, made, streamVars,
                   breaks, faults>>

(* ... and returns at the end of the stream, or when opening or reading it *)
(* fails.  Its entry stays in the map.                                     *)
TailerEnds(c) ==
    /\ \/ tail[c] = "closing" /\ unread[c] = <<>> /\ UNCHANGED <<excused, faults>>
       \/ /\ tail[c] \in {"open", "follow"}
          /\ Fault
          /\ excused' = excused \cup {c}
    /\ tail' = [tail EXCEPT ![c] = "ended"]
    /\ unread' = [unread EXCEPT ![c] = <<>>]
    /\ UNCHANGED <<pipeline, dockerVars, snapshot, todo, channelVars, streamVars, breaks>>

-----------------------------------------------------------------------------
(* The metrics goroutine *)

(* One kind of reading is collected, and offered unless it is empty. *)
CollectBatch(what) ==
    /\ todo # <<>> /\ Head(todo) = what
    /\ todo' = Tail(todo)
    /\ \/ OfferNext("metrics")
       \/ UNCHANGED channelVars
    /\ UNCHANGED <<pipeline, dockerVars, snapshot, tail, unread, excused, streamVars,
                   breaks, faults>>

(* collect: empty without a running container whose stats can be read. *)
CollectContainers == CollectBatch("containers")

(* Empty if neither CPU, load, memory, file system nor disk can be read. *)
CollectHost == CollectBatch("host")

(* Empty if Docker's disk usage cannot be read. *)
CollectDiskUsage == CollectBatch("disk")

(* A ticker fires. *)
Tick ==
    /\ pipeline = "metrics" /\ todo = <<>>
    /\ made["metrics"] < MaxEntries["metrics"]
    /\ todo' \in {<<"containers", "host">>, <<"disk">>}
    /\ UNCHANGED <<pipeline, dockerVars, snapshot, tail, unread, excused, channelVars,
                   streamVars, breaks, faults>>

-----------------------------------------------------------------------------
(* Connections.  connectAndStream starts a streamer; its deferred calls    *)
(* cancel it and close the connection, and what is under way is lost.      *)

Connect ==
    /\ live = 0 /\ conns < MaxConnections
    /\ conns' = conns + 1 /\ live' = conns + 1
    /\ streamer' = [streamer EXCEPT ![conns + 1] = "open"]
    /\ UNCHANGED <<pipeline, dockerVars, collectVars, channelVars, hand, intact, wire,
                   last, spilled, breaks, faults>>

Disconnect ==
    /\ live # 0 /\ conns < MaxConnections
    /\ live' = 0
    /\ intact' = intact \ {live}
    /\ wire' = [wire EXCEPT ![live] = <<>>]
    /\ UNCHANGED <<pipeline, dockerVars, collectVars, channelVars, conns, streamer, hand,
                   last, spilled, breaks, faults>>

-----------------------------------------------------------------------------
(* The streamer of connection k: runLogStreamer around StreamLogs, or the  *)
(* same for metrics.                                                       *)

Cancelled(k) == k # live

(* Where StreamLogs' error takes the streamer. *)
AfterError(k) == IF Cancelled(k) THEN "over" ELSE "wait"

OpenStream(k) ==
    /\ streamer[k] = "open"
    /\ \/ /\ ~Cancelled(k)
          /\ streamer' = [streamer EXCEPT ![k] = "select"]
          /\ intact' = intact \cup {k}
          /\ UNCHANGED faults
       \/ /\ Cancelled(k)
          /\ streamer' = [streamer EXCEPT ![k] = "over"]
          /\ UNCHANGED <<intact, faults>>
       \/ /\ ~Cancelled(k) /\ Fault
          /\ streamer' = [streamer EXCEPT ![k] = "wait"]
          /\ UNCHANGED intact
    /\ UNCHANGED <<pipeline, dockerVars, collectVars, channelVars, conns, live, hand, wire,
                   last, spilled, breaks>>

(* The select may take an entry although the context is cancelled too. *)
TakeEntry(k) ==
    /\ streamer[k] = "select" /\ channel # <<>>
    /\ hand' = [hand EXCEPT ![k] = Head(channel)]
    /\ channel' = Tail(channel)
    /\ streamer' = [streamer EXCEPT ![k] = "send"]
    /\ UNCHANGED <<pipeline, dockerVars, collectVars, made, conns, live, intact,
                   wire, last, spilled, breaks, faults>>

SendEntry_KeepsHand(k) ==
    /\ streamer[k] = "send"
    /\ k \in intact
    /\ wire' = [wire EXCEPT ![k] = Append(@, hand[k])]
    /\ streamer' = [streamer EXCEPT ![k] = "select"]
    /\ UNCHANGED <<pipeline, dockerVars, collectVars, channelVars, conns, live, intact, hand,
                   last, spilled, breaks, faults>>

SendEntry_Continues(k) ==
    /\ streamer[k] = "send"
    /\ hand' = [hand EXCEPT ![k] = NoEntry]
    /\ \/ /\ k \in intact
          /\ wire' = [wire EXCEPT ![k] = Append(@, hand[k])]
          /\ UNCHANGED spilled
       \/ /\ k \notin intact
          /\ spilled' = spilled + 1
          /\ UNCHANGED wire
    /\ streamer' = [streamer EXCEPT ![k] = "select"]
    /\ UNCHANGED <<pipeline, dockerVars, collectVars, channelVars, conns, live, intact,
                   last, breaks, faults>>

SendEntry_Requeues(k) ==
    /\ streamer[k] = "send"
    /\ hand' = [hand EXCEPT ![k] = NoEntry]
    /\ \/ /\ k \in intact
          /\ wire' = [wire EXCEPT ![k] = Append(@, hand[k])]
          /\ streamer' = [streamer EXCEPT ![k] = "select"]
          /\ UNCHANGED channel
       \/ /\ k \notin intact
          /\ Offer(hand[k])
          /\ streamer' = [streamer EXCEPT ![k] = AfterError(k)]
          /\ UNCHANGED wire
    /\ UNCHANGED <<pipeline, dockerVars, collectVars, made, conns, live, intact, spilled,
                   last, breaks, faults>>

SendEntry(k) ==
    /\ streamer[k] = "send"
    /\ hand' = [hand EXCEPT ![k] = NoEntry]
    /\ \/ /\ k \in intact
          /\ wire' = [wire EXCEPT ![k] = Append(@, hand[k])]
          /\ streamer' = [streamer EXCEPT ![k] = "select"]
          /\ UNCHANGED spilled
       \/ /\ k \notin intact
          /\ spilled' = spilled + 1
          /\ streamer' = [streamer EXCEPT ![k] = AfterError(k)]
          /\ UNCHANGED wire
    /\ UNCHANGED <<pipeline, dockerVars, collectVars, channelVars, conns, live, intact,
                   last, breaks, faults>>

StreamerEnds(k) ==
    /\ streamer[k] \in {"select", "wait"} /\ Cancelled(k)
    /\ streamer' = [streamer EXCEPT ![k] = "over"]
    /\ UNCHANGED <<pipeline, dockerVars, collectVars, channelVars, conns, live, hand, intact,
                   wire, last, spilled, breaks, faults>>

Reopen_Never(k) == FALSE /\ UNCHANGED vars

(* After streamReconnectWait and the jitter. *)
Reopen(k) ==
    /\ streamer[k] = "wait" /\ ~Cancelled(k)
    /\ streamer' = [streamer EXCEPT ![k] = "open"]
    /\ UNCHANGED <<pipeline, dockerVars, collectVars, channelVars, conns, live, hand, intact,
                   wire, last, spilled, breaks, faults>>

(* External: the network. *)
Deliver(k) ==
    /\ wire[k] # <<>>
    /\ wire' = [wire EXCEPT ![k] = Tail(@)]
    /\ last' = [last EXCEPT ![Head(wire[k]).src] = Head(wire[k]).n]
    /\ UNCHANGED <<pipeline, dockerVars, collectVars, channelVars, conns, live, streamer, hand,
                   intact, spilled, breaks, faults>>

Break(k) ==
    /\ k \in intact
    /\ breaks < MaxBreaks /\ breaks' = breaks + 1
    /\ intact' = intact \ {k}
    /\ wire' = [wire EXCEPT ![k] = <<>>]
    /\ UNCHANGED <<pipeline, dockerVars, collectVars, channelVars, conns, live, streamer, hand,
                   last, spilled, faults>>

-----------------------------------------------------------------------------
ReconcileStep == ListManagedContainers \/ Reconcile

CollectStep == CollectContainers \/ CollectHost \/ CollectDiskUsage

TailerStep(c) == TailerOpens(c) \/ TailerReads(c) \/ TailerEnds(c)

StreamerStep(k) ==
    OpenStream(k) \/ TakeEntry(k) \/ SendEntry(k) \/ StreamerEnds(k) \/ Reopen(k)

Next ==
    \/ \E c \in Containers : Start(c) \/ Stop(c) \/ WriteLine(c) \/ TailerStep(c)
    \/ Inject \/ ReconcileStep \/ CollectStep \/ Tick
    \/ Connect \/ Disconnect
    \/ \E k \in Connections : StreamerStep(k) \/ Deliver(k) \/ Break(k)

Spec == Init /\ [][Next]_vars

(***************************************************************************)
(* Fairness.  Goroutines run, tickers fire, and an intact stream delivers. *)
(* Nothing is assumed of connecting: the control plane may stay away.      *)
(***************************************************************************)
Fairness ==
    /\ WF_vars(ReconcileStep) /\ WF_vars(CollectStep)
    /\ \A c \in Containers : WF_vars(TailerStep(c))
    /\ \A k \in Connections : WF_vars(StreamerStep(k)) /\ WF_vars(Deliver(k))

FairSpec == Spec /\ Fairness

-----------------------------------------------------------------------------
(* Properties *)

(* What arrives of one source arrives in the order it was made, and none   *)
(* of it twice, although the cancelled streamer of the last connection and *)
(* that of the next take entries from one channel.                         *)
InOrder ==
    \A k \in Connections :
        wire[k] # <<>> => Head(wire[k]).n > last[Head(wire[k]).src]

(* "The underlying log collector channel survives reconnects": a stream    *)
(* that broke, or a connection that ended, costs at most one entry besides *)
(* those it had already taken over.                                        *)
LossBounded == spilled <= breaks + Cardinality((1 .. conns) \ {live})

(* A container that runs gets a tailer, whatever it did before, unless its *)
(* last tailer failed or it was down between two lists only.               *)
RunningIsTailed ==
    \A c \in Containers :
        pipeline = "logs" /\ c \in up ~> c \notin up \/ tail[c] = "follow" \/ c \in excused

InChannel(e) == \E i \in 1 .. Len(channel) : channel[i] = e

(* Once a connection stays up, everything in the channel arrives or is     *)
(* lost with a stream: a streamer whose stream fails opens another.        *)
ChannelDrains == 
    <>[](live # 0) =>
        \A s \in Sources : \A n \in 1 .. MaxEntries[s] :
            LET e == [src |-> s, n |-> n] IN InChannel(e) ~> ~InChannel(e)

(* Collecting never waits for the control plane: every line is read and    *)
(* every round of metrics ends, also when no connection ever comes up.     *)
NeverStalls ==
    /\ \A c \in Containers : unread[c] # <<>> ~> unread[c] = <<>>
    /\ todo # <<>> ~> todo = <<>>
=============================================================================
