--------------------------- MODULE TelemetryProofs ---------------------------
(***************************************************************************)
(* What arrives of a source arrives in order and only once, and a broken   *)
(* stream or a connection that ended costs one entry at most besides those *)
(* in its transport: for any number of containers, entries, connections,   *)
(* breaks and faults, and any capacity of the channel.                     *)
(*                                                                         *)
(* Neither property is inductive.  InOrder looks at the head of a stream's *)
(* transport: the entries behind it, the one in the streamer's hand, the   *)
(* channel and the unread lines must be in order too.  LossBounded counts  *)
(* the losses that have happened: the invariant also counts the streamers  *)
(* that still have one ahead of them.                                      *)
(***************************************************************************)
EXTENDS Telemetry, FiniteSetTheorems, TLAPS

(* Entries are numbered from 1. *)
Made == {e \in Entry : e.n > 0}

(* TypeOK by the parts of the system, with the types of whole functions;   *)
(* a stream is intact only while its streamer uses it.                     *)
CollectType ==
    /\ pipeline \in {"logs", "metrics"}
    /\ up \subseteq Containers /\ snapshot \in (SUBSET Containers) \cup {Unlisted}
    /\ tail \in [Containers -> {"off", "open", "follow", "closing", "ended"}]
    /\ unread \in [Containers -> Seq(Nat \ {0})]
    /\ \A c \in Containers : unread[c] # <<>> => tail[c] \in {"follow", "closing"}
    /\ todo \in Seq({"containers", "host", "disk"})
    /\ seenDown \subseteq Containers /\ excused \subseteq Containers
    /\ starts \in 0 .. MaxStarts

ChannelType ==
    made \in [Sources -> Nat] /\ channel \in Seq(Made) /\ Len(channel) <= Capacity

StreamType ==
    /\ conns \in 0 .. MaxConnections /\ live \in {0, conns}
    /\ streamer \in [Connections -> {"none", "open", "select", "send", "wait", "over"}]
    /\ hand \in [Connections -> Made \cup {NoEntry}]
    /\ wire \in [Connections -> Seq(Made)]
    /\ intact \subseteq {live} \ {0}
    /\ \A k \in Connections :
        /\ hand[k] # NoEntry <=> streamer[k] = "send"
        /\ wire[k] # <<>> => k \in intact
        /\ k \in intact => streamer[k] \in {"select", "send"}
        /\ k > conns => streamer[k] = "none"
    /\ last \in [Sources -> Nat] /\ spilled \in Nat

BoundType == breaks \in 0 .. MaxBreaks /\ faults \in 0 .. MaxFaults

TypeInv == CollectType /\ ChannelType /\ StreamType /\ BoundType

-----------------------------------------------------------------------------
(* Sequences *)

(* The empty sequence. *)
LEMMA EmptyRange == Range(<<>>) = {}
BY DEF Range

(* Appending an element. *)
LEMMA AppendFacts ==
    ASSUME NEW S, NEW s \in Seq(S), NEW e \in S
    PROVE  /\ Append(s, e) \in Seq(S) /\ Len(Append(s, e)) = Len(s) + 1 /\ Append(s, e) # <<>>
           /\ Range(Append(s, e)) = Range(s) \cup {e}
           /\ \A i \in 1 .. Len(s) : Append(s, e)[i] = s[i]
           /\ Append(s, e)[Len(s) + 1] = e
<1>1. Append(s, e) \in Seq(S) /\ Len(Append(s, e)) = Len(s) + 1 /\ Len(s) \in Nat
      /\ Append(s, e) # <<>>
  OBVIOUS
<1>2. DOMAIN s = 1 .. Len(s) /\ DOMAIN Append(s, e) = 1 .. Len(s) + 1
  OBVIOUS
<1>3. \A i \in 1 .. Len(s) : Append(s, e)[i] = s[i]
  OBVIOUS
<1>4. Append(s, e)[Len(s) + 1] = e
  OBVIOUS
<1>5. Range(Append(s, e)) = Range(s) \cup {e}
  BY <1>1, <1>2, <1>3, <1>4 DEF Range
<1> QED BY <1>1, <1>3, <1>4, <1>5

(* Taking the first element. *)
LEMMA TailFacts ==
    ASSUME NEW S, NEW s \in Seq(S), s # <<>>
    PROVE  /\ Head(s) \in S /\ Tail(s) \in Seq(S) /\ Len(Tail(s)) = Len(s) - 1
           /\ Len(s) \in Nat /\ Len(s) > 0
           /\ Head(s) \in Range(s) /\ Head(s) = s[1]
           /\ \A i \in 1 .. Len(s) - 1 : Tail(s)[i] = s[i + 1]
           /\ \A x \in Range(Tail(s)) : \E i \in 2 .. Len(s) : x = s[i]
           /\ Range(Tail(s)) \subseteq Range(s)
<1>1. Len(s) \in Nat /\ Len(s) > 0 /\ Head(s) = s[1] /\ Head(s) \in S /\ Tail(s) \in Seq(S)
      /\ Len(Tail(s)) = Len(s) - 1
  OBVIOUS
<1>2. DOMAIN s = 1 .. Len(s) /\ DOMAIN Tail(s) = 1 .. Len(s) - 1
  BY <1>1
<1>3. \A i \in 1 .. Len(s) - 1 : Tail(s)[i] = s[i + 1]
  BY <1>1
<1>4. Head(s) \in Range(s)
  BY <1>1, <1>2 DEF Range
<1>5. ASSUME NEW x \in Range(Tail(s)) PROVE \E i \in 2 .. Len(s) : x = s[i]
  <2>1. PICK j \in 1 .. Len(s) - 1 : x = s[j + 1]
    BY <1>2, <1>3 DEF Range
  <2>2. j + 1 \in 2 .. Len(s)
    BY <1>1, <2>1
  <2> QED BY <2>1, <2>2
<1>6. Range(Tail(s)) \subseteq Range(s)
  BY <1>1, <1>2, <1>5 DEF Range
<1> QED BY <1>1, <1>3, <1>4, <1>5, <1>6

-----------------------------------------------------------------------------
(* Types *)

(* The parts make up TypeOK. *)
LEMMA TypeInvImplies == TypeInv => TypeOK
<1> SUFFICES ASSUME TypeInv PROVE TypeOK
  OBVIOUS
<1>0. Made \subseteq Entry
  BY DEF Made
<1>1. /\ channel \in Seq(Entry)
      /\ \A k \in Connections : wire[k] \in Seq(Entry) /\ hand[k] \in Entry \cup {NoEntry}
  BY <1>0 DEF TypeInv, ChannelType, StreamType
<1>2. \A c \in Containers : unread[c] \in Seq(Nat)
  BY DEF TypeInv, CollectType
<1> QED BY <1>1, <1>2 DEF TypeInv, TypeOK, CollectType, ChannelType, StreamType, BoundType

(* The rounds of the metrics goroutine. *)
LEMMA RoundType ==
    {<<>>, <<"containers", "host", "disk">>, <<"containers", "host">>, <<"disk">>}
        \subseteq Seq({"containers", "host", "disk"})
OBVIOUS

(* The initial states are typed. *)
LEMMA InitType == Init => TypeInv
<1> SUFFICES ASSUME Init PROVE TypeInv
  OBVIOUS
<1>1. CollectType
  <2>1. todo \in Seq({"containers", "host", "disk"})
    BY RoundType DEF Init
  <2> QED BY <2>1, TelemetryConstants DEF Init, CollectType
<1>2. ChannelType
  BY TelemetryConstants DEF Init, ChannelType
<1>3. StreamType
  BY TelemetryConstants DEF Init, StreamType
<1>4. BoundType
  BY TelemetryConstants DEF Init, BoundType
<1> QED BY <1>1, <1>2, <1>3, <1>4 DEF TypeInv

(* An offer keeps the channel typed and within its capacity. *)
LEMMA OfferType ==
    ASSUME ChannelType, NEW e \in Made, Offer(e)
    PROVE  channel' \in Seq(Made) /\ Len(channel') <= Capacity
<1>1. channel \in Seq(Made) /\ Len(channel) \in Nat /\ Len(channel) <= Capacity /\ Capacity \in Nat
  BY TelemetryConstants DEF ChannelType
<1>2. CASE Len(channel) < Capacity /\ channel' = Append(channel, e)
  BY <1>1, <1>2, AppendFacts
<1>3. CASE UNCHANGED channel
  BY <1>1, <1>3
<1> QED BY <1>2, <1>3 DEF Offer

(* So does the next entry of a source. *)
LEMMA OfferNextType ==
    ASSUME ChannelType, NEW s \in Sources, OfferNext(s)
    PROVE  ChannelType'
<1>1. [src |-> s, n |-> made[s] + 1] \in Made /\ made' \in [Sources -> Nat]
  BY DEF OfferNext, ChannelType, Made, Entry
<1> QED BY <1>1, OfferType DEF OfferNext, ChannelType

(* Containers, tailers and reconcile. *)
LEMMA ContainerType ==
    ASSUME TypeInv, NEW c \in Containers,
           Start(c) \/ Stop(c) \/ WriteLine(c) \/ TailerStep(c)
    PROVE  TypeInv'
<1>0. CollectType /\ ChannelType /\ StreamType /\ BoundType /\ c \in Sources
  BY DEF TypeInv, Sources
<1>1. StreamType'
  BY <1>0 DEF Start, Stop, WriteLine, TailerStep, TailerOpens, TailerReads, TailerEnds, StreamType, streamVars
<1>2. BoundType'
  BY <1>0, TelemetryConstants
     DEF Start, Stop, WriteLine, TailerStep, TailerOpens, TailerReads, TailerEnds, Fault, BoundType
<1>3. CASE Start(c)
  <2>1. CollectType'
    BY <1>0, <1>3, TelemetryConstants DEF Start, CollectType
  <2>2. ChannelType'
    BY <1>0, <1>3 DEF Start, ChannelType, channelVars
  <2> QED BY <1>1, <1>2, <2>1, <2>2 DEF TypeInv
<1>4. CASE Stop(c)
  <2>1. CollectType'
    BY <1>0, <1>4 DEF Stop, CollectType
  <2>2. ChannelType'
    BY <1>0, <1>4 DEF Stop, ChannelType, channelVars
  <2> QED BY <1>1, <1>2, <2>1, <2>2 DEF TypeInv
<1>5. CASE WriteLine(c)
  <2>1. made[c] \in Nat /\ made[c] + 1 \in Nat \ {0} /\ made' = [made EXCEPT ![c] = made[c] + 1]
    BY <1>0, <1>5 DEF WriteLine, ChannelType
  <2>2. ChannelType'
    BY <1>0, <1>5, <2>1 DEF WriteLine, ChannelType
  <2>3. unread[c] \in Seq(Nat \ {0}) /\ Append(unread[c], made[c] + 1) \in Seq(Nat \ {0})
    BY <1>0, <2>1, AppendFacts DEF CollectType
  <2>4. unread' \in [Containers -> Seq(Nat \ {0})]
        /\ \A d \in Containers : d # c => unread'[d] = unread[d]
    BY <1>0, <1>5, <2>3 DEF WriteLine, CollectType
  <2>5. tail'[c] = "follow" /\ UNCHANGED <<pipeline, up, snapshot, tail, todo, seenDown, excused, starts>>
    BY <1>5 DEF WriteLine, dockerVars
  <2>6. CollectType'
    BY <1>0, <2>4, <2>5 DEF CollectType
  <2> QED BY <1>1, <1>2, <2>2, <2>6 DEF TypeInv
<1>6. CASE TailerOpens(c)
  <2>1. CollectType'
    BY <1>0, <1>6 DEF TailerOpens, CollectType, dockerVars
  <2>2. ChannelType'
    BY <1>0, <1>6 DEF TailerOpens, ChannelType, channelVars
  <2> QED BY <1>1, <1>2, <2>1, <2>2 DEF TypeInv
<1>7. CASE TailerReads(c)
  <2>1. unread[c] \in Seq(Nat \ {0}) /\ unread[c] # <<>>
    BY <1>0, <1>7 DEF TailerReads, CollectType
  <2>2. Head(unread[c]) \in Nat \ {0} /\ Tail(unread[c]) \in Seq(Nat \ {0})
    BY <2>1, TailFacts
  <2>3. [src |-> c, n |-> Head(unread[c])] \in Made
    BY <1>0, <2>2 DEF Made, Entry
  <2>4. ChannelType'
    BY <1>0, <1>7, <2>3, OfferType DEF TailerReads, ChannelType
  <2>5. unread' \in [Containers -> Seq(Nat \ {0})]
        /\ \A d \in Containers : d # c => unread'[d] = unread[d]
    BY <1>0, <1>7, <2>2 DEF TailerReads, CollectType
  <2>6. UNCHANGED <<pipeline, up, snapshot, tail, todo, seenDown, excused, starts>>
    BY <1>7 DEF TailerReads, dockerVars
  <2>7. CollectType'
    BY <1>0, <2>1, <2>5, <2>6 DEF CollectType
  <2> QED BY <1>1, <1>2, <2>4, <2>7 DEF TypeInv
<1>8. CASE TailerEnds(c)
  <2>1. unread' \in [Containers -> Seq(Nat \ {0})] /\ unread'[c] = <<>>
        /\ \A d \in Containers : d # c => unread'[d] = unread[d]
    BY <1>0, <1>8 DEF TailerEnds, CollectType
  <2>2. CollectType'
    BY <1>0, <1>8, <2>1 DEF TailerEnds, CollectType, dockerVars
  <2>3. ChannelType'
    BY <1>0, <1>8 DEF TailerEnds, ChannelType, channelVars
  <2> QED BY <1>1, <1>2, <2>2, <2>3 DEF TypeInv
<1> QED BY <1>3, <1>4, <1>5, <1>6, <1>7, <1>8 DEF TailerStep

(* The collectors' own steps. *)
LEMMA CollectorType ==
    ASSUME TypeInv, Inject \/ ReconcileStep \/ CollectStep \/ Tick
    PROVE  TypeInv'
<1>0. CollectType /\ ChannelType /\ StreamType /\ BoundType /\ {"build", "metrics"} \subseteq Sources
  BY DEF TypeInv, Sources
<1>1. StreamType' /\ BoundType'
  BY <1>0 DEF Inject, ReconcileStep, ListManagedContainers, Reconcile, CollectStep, CollectContainers,
     CollectHost, CollectDiskUsage, CollectBatch, Tick, StreamType, BoundType, streamVars
<1>2. CASE Inject
  <2>1. CollectType'
    BY <1>0, <1>2 DEF Inject, CollectType, dockerVars, collectVars
  <2>2. ChannelType'
    BY <1>0, <1>2, OfferNextType DEF Inject
  <2> QED BY <1>1, <2>1, <2>2 DEF TypeInv
<1>3. CASE ListManagedContainers
  <2>1. CollectType'
    BY <1>0, <1>3 DEF ListManagedContainers, CollectType
  <2>2. ChannelType'
    BY <1>0, <1>3 DEF ListManagedContainers, ChannelType, channelVars
  <2> QED BY <1>1, <2>1, <2>2 DEF TypeInv
<1>4. CASE Reconcile
  <2>1. tail' \in [Containers -> {"off", "open", "follow", "closing", "ended"}]
    BY <1>0, <1>4 DEF Reconcile, CollectType
  <2>2. unread' \in [Containers -> Seq(Nat \ {0})]
    BY <1>0, <1>4 DEF Reconcile, CollectType
  <2>3. \A c \in Containers : unread'[c] # <<>> => tail'[c] \in {"follow", "closing"}
    BY <1>0, <1>4 DEF Reconcile, CollectType
  <2>4. CollectType'
    BY <1>0, <1>4, <2>1, <2>2, <2>3 DEF Reconcile, CollectType, dockerVars
  <2>5. ChannelType'
    BY <1>0, <1>4 DEF Reconcile, ChannelType, channelVars
  <2> QED BY <1>1, <2>4, <2>5 DEF TypeInv
<1>5. ASSUME NEW what, CollectBatch(what) PROVE TypeInv'
  <2>1. todo' \in Seq({"containers", "host", "disk"})
    BY <1>0, <1>5, TailFacts DEF CollectBatch, CollectType
  <2>2. CollectType'
    BY <1>0, <1>5, <2>1 DEF CollectBatch, CollectType, dockerVars
  <2>3. ChannelType'
    BY <1>0, <1>5, OfferNextType DEF CollectBatch, ChannelType, channelVars
  <2> QED BY <1>1, <2>2, <2>3 DEF TypeInv
<1>6. CASE Tick
  <2>1. todo' \in Seq({"containers", "host", "disk"})
    BY <1>6, RoundType DEF Tick
  <2>2. CollectType'
    BY <1>0, <1>6, <2>1 DEF Tick, CollectType, dockerVars
  <2>3. ChannelType'
    BY <1>0, <1>6 DEF Tick, ChannelType, channelVars
  <2> QED BY <1>1, <2>2, <2>3 DEF TypeInv
<1> QED BY <1>2, <1>3, <1>4, <1>5, <1>6
        DEF ReconcileStep, CollectStep, CollectContainers, CollectHost, CollectDiskUsage

(* Connections come and go. *)
LEMMA ConnectType == TypeInv /\ (Connect \/ Disconnect) => TypeInv'
<1> SUFFICES ASSUME TypeInv, Connect \/ Disconnect PROVE TypeInv'
  OBVIOUS
<1>0. CollectType /\ ChannelType /\ StreamType /\ BoundType
  BY DEF TypeInv
<1>1. CollectType' /\ ChannelType' /\ BoundType'
  BY <1>0 DEF Connect, Disconnect, CollectType, ChannelType, BoundType, dockerVars, collectVars, channelVars
<1>2. CASE Connect
  <2>1. conns + 1 \in Connections /\ intact = {}
    BY <1>0, <1>2, TelemetryConstants DEF Connect, StreamType, Connections
  <2>2. streamer[conns + 1] = "none" /\ conns \in Nat /\ Connections \subseteq Int
    BY <1>0, <2>1 DEF StreamType, Connections
  <2>3. /\ streamer' \in [Connections -> {"none", "open", "select", "send", "wait", "over"}]
        /\ streamer'[conns + 1] = "open"
        /\ \A k \in Connections : k # conns + 1 => streamer'[k] = streamer[k]
    BY <1>0, <1>2, <2>1 DEF Connect, StreamType
  <2>4. conns' \in 0 .. MaxConnections
    BY <1>0, <1>2, TelemetryConstants DEF Connect, StreamType
  <2>5. StreamType'
    BY <1>0, <1>2, <2>1, <2>2, <2>3, <2>4 DEF Connect, StreamType
  <2> QED BY <1>1, <2>5 DEF TypeInv
<1>3. CASE Disconnect
  <2>1. live \in Connections /\ intact' = {}
    BY <1>0, <1>3, TelemetryConstants DEF Disconnect, StreamType, Connections
  <2>2. wire' \in [Connections -> Seq(Made)] /\ wire'[live] = <<>>
        /\ \A k \in Connections : k # live => wire'[k] = wire[k]
    BY <1>0, <1>3, <2>1 DEF Disconnect, StreamType
  <2>3. \A k \in Connections : wire'[k] = <<>>
    BY <1>0, <2>2 DEF StreamType
  <2>4. StreamType'
    BY <1>0, <1>3, <2>1, <2>2, <2>3 DEF Disconnect, StreamType
  <2> QED BY <1>1, <2>4 DEF TypeInv
<1> QED BY <1>2, <1>3

(* A streamer and its stream. *)
LEMMA StreamerType ==
    ASSUME TypeInv, NEW k \in Connections, StreamerStep(k) \/ Deliver(k) \/ Break(k)
    PROVE  TypeInv'
<1>0. CollectType /\ ChannelType /\ StreamType /\ BoundType
  BY DEF TypeInv
<1>1. CollectType'
  BY <1>0 DEF StreamerStep, OpenStream, TakeEntry, SendEntry, StreamerEnds, Reopen, Deliver, Break,
     CollectType, dockerVars, collectVars
<1>2. BoundType'
  BY <1>0, TelemetryConstants DEF StreamerStep, OpenStream, TakeEntry, SendEntry, StreamerEnds, Reopen,
     Deliver, Break, Fault, BoundType
<1>3. ASSUME ~TakeEntry(k) PROVE ChannelType'
  BY <1>0, <1>3 DEF StreamerStep, OpenStream, SendEntry, StreamerEnds, Reopen, Deliver, Break,
     ChannelType, channelVars
<1>4. k # 0 /\ Connections \subseteq Int
  BY TelemetryConstants DEF Connections
<1>5. CASE OpenStream(k)
  <2>1. UNCHANGED <<conns, live, hand, wire, last, spilled>>
    BY <1>5 DEF OpenStream
  <2>2. ASSUME NEW to \in {"select", "wait", "over"}, streamer' = [streamer EXCEPT ![k] = to]
        PROVE  /\ streamer' \in [Connections -> {"none", "open", "select", "send", "wait", "over"}]
               /\ streamer'[k] = to /\ \A j \in Connections : j # k => streamer'[j] = streamer[j]
    BY <1>0, <2>2 DEF StreamType
  <2>3. streamer[k] = "open" /\ k \notin intact /\ hand[k] = NoEntry /\ k <= conns
    BY <1>0, <1>4, <1>5 DEF OpenStream, StreamType
  <2>4. ASSUME ~Cancelled(k), streamer' = [streamer EXCEPT ![k] = "select"], intact' = intact \cup {k}
        PROVE  StreamType'
    BY <1>0, <1>4, <2>1, <2>2, <2>3, <2>4 DEF Cancelled, StreamType
  <2>5. ASSUME streamer' = [streamer EXCEPT ![k] = "over"], UNCHANGED intact
        PROVE  StreamType'
    BY <1>0, <1>4, <2>1, <2>2, <2>3, <2>5 DEF StreamType
  <2>6. ASSUME streamer' = [streamer EXCEPT ![k] = "wait"], UNCHANGED intact
        PROVE  StreamType'
    BY <1>0, <1>4, <2>1, <2>2, <2>3, <2>6 DEF StreamType
  <2>7. StreamType'
    BY <1>5, <2>4, <2>5, <2>6 DEF OpenStream
  <2> QED BY <1>1, <1>2, <1>3, <1>5, <2>7 DEF OpenStream, TakeEntry, TypeInv
<1>6. CASE TakeEntry(k)
  <2>1. channel \in Seq(Made) /\ channel # <<>>
    BY <1>0, <1>6 DEF TakeEntry, ChannelType
  <2>2. Head(channel) \in Made /\ Tail(channel) \in Seq(Made) /\ Len(Tail(channel)) = Len(channel) - 1
        /\ Len(channel) \in Nat
    BY <2>1, TailFacts
  <2>3. ChannelType'
    BY <1>0, <1>6, <2>2, TelemetryConstants DEF TakeEntry, ChannelType
  <2>4. Head(channel) # NoEntry
    BY <2>2 DEF Made, Entry, NoEntry
  <2>5. StreamType'
    BY <1>0, <1>6, <2>2, <2>4 DEF TakeEntry, StreamType
  <2> QED BY <1>1, <1>2, <2>3, <2>5 DEF TypeInv
<1>7. CASE SendEntry(k)
  <2>1. hand[k] \in Made
    BY <1>0, <1>7 DEF SendEntry, StreamType
  <2>2. CASE k \in intact
    <3>1. wire[k] \in Seq(Made) /\ Append(wire[k], hand[k]) \in Seq(Made)
      BY <1>0, <2>1, AppendFacts DEF StreamType
    <3>2. wire' \in [Connections -> Seq(Made)] /\ streamer' = [streamer EXCEPT ![k] = "select"]
          /\ hand' = [hand EXCEPT ![k] = NoEntry] /\ \A j \in Connections : j # k => wire'[j] = wire[j]
      BY <1>0, <1>7, <2>2, <3>1, ZenonT(40) DEF SendEntry, StreamType
    <3>3. StreamType'
      BY <1>0, <1>7, <2>2, <3>2 DEF SendEntry, StreamType
    <3> QED BY <1>1, <1>2, <1>3, <1>7, <3>3 DEF SendEntry, TakeEntry, TypeInv
  <2>3. CASE k \notin intact
    <3>1. PICK to \in {"over", "wait"} : streamer' = [streamer EXCEPT ![k] = to]
      BY <1>7, <2>3 DEF SendEntry, AfterError
    <3>2. /\ streamer' \in [Connections -> {"none", "open", "select", "send", "wait", "over"}]
          /\ streamer'[k] = to /\ \A j \in Connections : j # k => streamer'[j] = streamer[j]
      BY <1>0, <3>1 DEF StreamType
    <3>3. /\ hand' \in [Connections -> Made \cup {NoEntry}]
          /\ hand'[k] = NoEntry /\ \A j \in Connections : j # k => hand'[j] = hand[j]
      BY <1>0, <1>7 DEF SendEntry, StreamType
    <3>4. spilled' = spilled + 1 /\ UNCHANGED <<conns, live, wire, intact, last>> /\ streamer[k] = "send"
      BY <1>7, <2>3 DEF SendEntry
    <3>5. StreamType'
      BY <1>0, <1>4, <2>3, <3>2, <3>3, <3>4 DEF StreamType
    <3> QED BY <1>1, <1>2, <1>3, <1>7, <3>5 DEF SendEntry, TakeEntry, TypeInv
  <2> QED BY <2>2, <2>3
<1>8. CASE StreamerEnds(k)
  <2>1. StreamType'
    BY <1>0, <1>8 DEF StreamerEnds, Cancelled, StreamType
  <2> QED BY <1>1, <1>2, <1>3, <1>8, <2>1 DEF StreamerEnds, TakeEntry, TypeInv, channelVars, ChannelType
<1>9. CASE Reopen(k)
  <2>1. StreamType'
    BY <1>0, <1>9 DEF Reopen, StreamType
  <2> QED BY <1>1, <1>2, <1>3, <1>9, <2>1 DEF Reopen, TakeEntry, TypeInv
<1>10. CASE Deliver(k)
  <2>1. wire[k] \in Seq(Made) /\ wire[k] # <<>>
    BY <1>0, <1>10 DEF Deliver, StreamType
  <2>2. Head(wire[k]) \in Made /\ Tail(wire[k]) \in Seq(Made)
    BY <2>1, TailFacts
  <2>3. last' \in [Sources -> Nat]
    BY <1>0, <1>10, <2>2 DEF Deliver, StreamType, Made, Entry
  <2>4. wire' \in [Connections -> Seq(Made)] /\ \A j \in Connections : j # k => wire'[j] = wire[j]
    BY <1>0, <1>10, <2>2 DEF Deliver, StreamType
  <2>5. StreamType'
    BY <1>0, <1>10, <2>1, <2>3, <2>4 DEF Deliver, StreamType
  <2>6. ChannelType'
    BY <1>0, <1>10 DEF Deliver, ChannelType, channelVars
  <2> QED BY <1>1, <1>2, <2>5, <2>6 DEF TypeInv
<1>11. CASE Break(k)
  <2>1. wire' \in [Connections -> Seq(Made)] /\ wire'[k] = <<>>
        /\ \A j \in Connections : j # k => wire'[j] = wire[j]
    BY <1>0, <1>11 DEF Break, StreamType
  <2>2. StreamType'
    BY <1>0, <1>11, <2>1 DEF Break, StreamType
  <2>3. ChannelType'
    BY <1>0, <1>11 DEF Break, ChannelType, channelVars
  <2> QED BY <1>1, <1>2, <2>2, <2>3 DEF TypeInv
<1> QED BY <1>5, <1>6, <1>7, <1>8, <1>9, <1>10, <1>11 DEF StreamerStep

(* Every step keeps the types. *)
LEMMA NextType == TypeInv /\ [Next]_vars => TypeInv'
<1>1. TypeInv /\ UNCHANGED vars => TypeInv'
  BY DEF vars, dockerVars, collectVars, channelVars, streamVars, TypeInv, CollectType, ChannelType,
     StreamType, BoundType
<1> QED BY <1>1, ContainerType, CollectorType, ConnectType, StreamerType DEF Next

(* TypeOK is an invariant: the channel stays within its capacity, only the *)
(* live connection has an intact stream, and nothing is under way on a     *)
(* stream that is broken.                                                  *)
THEOREM TypeCorrect == Spec => []TypeOK
BY InitType, NextType, TypeInvImplies, PTL DEF Spec

-----------------------------------------------------------------------------
(* Losses *)

(* Streamers whose stream is gone and who may find out with an entry in    *)
(* their hand.                                                             *)
Exposed == {k \in Connections : streamer[k] \in {"select", "send"} /\ k \notin intact}

EndedConns == (1 .. conns) \ {live}

LossInv == spilled + Cardinality(Exposed) <= breaks + Cardinality(EndedConns)

(* Both counts are natural numbers. *)
LEMMA LossSets ==
    ASSUME TypeInv
    PROVE  /\ IsFiniteSet(Exposed) /\ IsFiniteSet(EndedConns)
           /\ Cardinality(Exposed) \in Nat /\ Cardinality(EndedConns) \in Nat
           /\ spilled \in Nat /\ breaks \in Nat /\ conns \in Nat /\ live \in Nat
<1>1. conns \in Nat /\ live \in Nat /\ spilled \in Nat /\ breaks \in Nat /\ MaxConnections \in Nat
  BY TelemetryConstants DEF TypeInv, StreamType, BoundType
<1>2. IsFiniteSet(Connections) /\ IsFiniteSet(1 .. conns)
  BY <1>1, FS_Interval DEF Connections
<1>3. Exposed \in SUBSET Connections /\ EndedConns \in SUBSET (1 .. conns)
  BY DEF Exposed, EndedConns
<1>4. IsFiniteSet(Exposed) /\ IsFiniteSet(EndedConns)
  BY <1>2, <1>3, FS_Subset
<1> QED BY <1>1, <1>4, FS_CardinalityType

(* A step that exposes no streamer and costs no entry. *)
LEMMA LossKept ==
    ASSUME TypeInv, LossInv, Exposed' \subseteq Exposed, UNCHANGED spilled,
           breaks' \in Nat, breaks' >= breaks, EndedConns' = EndedConns
    PROVE  LossInv'
<1>1. IsFiniteSet(Exposed') /\ Cardinality(Exposed') <= Cardinality(Exposed)
  BY LossSets, FS_Subset
<1>2. Cardinality(Exposed') \in Nat
  BY <1>1, FS_CardinalityType
<1> QED BY <1>1, <1>2, LossSets DEF LossInv

(* A step that exposes one more. *)
LEMMA LossExposes ==
    ASSUME TypeInv, NEW k, Exposed' \subseteq Exposed \cup {k}
    PROVE  Cardinality(Exposed') \in Nat /\ Cardinality(Exposed') <= Cardinality(Exposed) + 1
<1>0. /\ IsFiniteSet(Exposed \cup {k})
      /\ Cardinality(Exposed \cup {k}) = IF k \in Exposed THEN Cardinality(Exposed) ELSE Cardinality(Exposed) + 1
  BY LossSets, FS_AddElement
<1>1. IsFiniteSet(Exposed \cup {k}) /\ Cardinality(Exposed \cup {k}) \in Nat
      /\ Cardinality(Exposed \cup {k}) <= Cardinality(Exposed) + 1
  BY <1>0, LossSets
<1>2. IsFiniteSet(Exposed') /\ Cardinality(Exposed') <= Cardinality(Exposed \cup {k})
  BY <1>1, FS_Subset
<1>3. Cardinality(Exposed') \in Nat
  BY <1>2, FS_CardinalityType
<1> QED BY <1>1, <1>2, <1>3, LossSets

(* Every step keeps the losses bounded. *)
LEMMA NextLoss == TypeInv /\ LossInv /\ [Next]_vars => LossInv'
<1> SUFFICES ASSUME TypeInv, LossInv, [Next]_vars PROVE LossInv'
  OBVIOUS
<1>0. StreamType /\ BoundType
  BY DEF TypeInv
<1>1. ASSUME UNCHANGED <<streamer, intact, spilled, breaks, conns, live>> PROVE LossInv'
  BY <1>1 DEF LossInv, Exposed, EndedConns
<1>2. CASE \E c \in Containers : Start(c) \/ Stop(c) \/ WriteLine(c) \/ TailerStep(c)
  BY <1>1, <1>2 DEF Start, Stop, WriteLine, TailerStep, TailerOpens, TailerReads, TailerEnds, streamVars
<1>3. CASE Inject \/ ReconcileStep \/ CollectStep \/ Tick
  BY <1>1, <1>3 DEF Inject, ReconcileStep, ListManagedContainers, Reconcile, CollectStep,
     CollectContainers, CollectHost, CollectDiskUsage, CollectBatch, Tick, streamVars
<1>4. CASE Connect
  <2>1. conns + 1 \in Connections /\ conns' = conns + 1 /\ live' = conns + 1 /\ live = 0
    BY <1>0, <1>4, TelemetryConstants DEF Connect, StreamType, Connections
  <2>2. EndedConns' = EndedConns
    BY <1>0, <2>1, LossSets DEF EndedConns
  <2>3. \A k \in Connections : streamer'[k] = IF k = conns + 1 THEN "open" ELSE streamer[k]
    BY <1>0, <1>4, <2>1 DEF Connect, StreamType
  <2>4. Exposed' \subseteq Exposed
    BY <1>4, <2>3 DEF Connect, Exposed
  <2> QED BY <1>4, <2>2, <2>4, LossKept, LossSets DEF Connect
<1>5. CASE Disconnect
  <2>1. live \in 1 .. conns /\ live' = 0 /\ UNCHANGED <<conns, breaks, spilled, streamer>>
        /\ intact' = intact \ {live}
    BY <1>0, <1>5 DEF Disconnect, StreamType
  <2>2. live \notin EndedConns /\ EndedConns' = EndedConns \cup {live}
    BY <2>1, LossSets DEF EndedConns
  <2>3. Cardinality(EndedConns') = Cardinality(EndedConns) + 1
    BY <2>2, FS_AddElement, LossSets
  <2>4. Exposed' \subseteq Exposed \cup {live}
    BY <2>1 DEF Exposed
  <2>5. Cardinality(Exposed') \in Nat /\ Cardinality(Exposed') <= Cardinality(Exposed) + 1
    BY <2>4, LossExposes
  <2> QED BY <2>1, <2>3, <2>5, LossSets DEF LossInv
<1>6. ASSUME NEW k \in Connections, OpenStream(k) PROVE LossInv'
  <2>1. /\ streamer'[k] \in {"select", "over", "wait"} /\ intact \subseteq intact'
        /\ \A j \in Connections : j # k => streamer'[j] = streamer[j]
    BY <1>0, <1>6 DEF OpenStream, StreamType
  <2>2. streamer'[k] = "select" => k \in intact'
    BY <1>0, <1>6 DEF OpenStream, StreamType
  <2>3. Exposed' \subseteq Exposed
    BY <2>1, <2>2 DEF Exposed
  <2> QED BY <1>6, <2>3, LossKept, LossSets DEF OpenStream, EndedConns
<1>7. ASSUME NEW k \in Connections, TakeEntry(k) \/ StreamerEnds(k) \/ Reopen(k) PROVE LossInv'
  <2>1. \A j \in Connections : j # k => streamer'[j] = streamer[j]
    BY <1>0, <1>7 DEF TakeEntry, StreamerEnds, Reopen, StreamType
  <2>2. streamer'[k] \in {"select", "send"} => streamer[k] \in {"select", "send"}
    BY <1>0, <1>7 DEF TakeEntry, StreamerEnds, Reopen, StreamType
  <2>3. Exposed' \subseteq Exposed
    BY <1>7, <2>1, <2>2 DEF TakeEntry, StreamerEnds, Reopen, Exposed
  <2> QED BY <1>7, <2>3, LossKept, LossSets DEF TakeEntry, StreamerEnds, Reopen, EndedConns
<1>8. ASSUME NEW k \in Connections, SendEntry(k) PROVE LossInv'
  <2>1. \A j \in Connections : j # k => streamer'[j] = streamer[j]
    BY <1>0, <1>8 DEF SendEntry, StreamType
  <2>2. streamer[k] = "send" /\ UNCHANGED <<conns, live, intact, breaks>>
    BY <1>8 DEF SendEntry
  <2>3. CASE k \in intact
    <3>1. Exposed' \subseteq Exposed
      BY <2>1, <2>2, <2>3 DEF Exposed
    <3> QED BY <1>8, <2>2, <2>3, <3>1, LossKept, LossSets DEF SendEntry, EndedConns
  <2>4. CASE k \notin intact
    <3>1. streamer'[k] \in {"over", "wait"} /\ spilled' = spilled + 1
      BY <1>0, <1>8, <2>4 DEF SendEntry, AfterError, StreamType
    <3>2. k \in Exposed /\ Exposed' = Exposed \ {k}
      BY <2>1, <2>2, <2>4, <3>1 DEF Exposed
    <3>3. Cardinality(Exposed') = Cardinality(Exposed) - 1
      BY <3>2, LossSets, FS_RemoveElement
    <3> QED BY <2>2, <3>1, <3>3, LossSets DEF LossInv, EndedConns
  <2> QED BY <2>3, <2>4
<1>9. ASSUME NEW k \in Connections, Deliver(k) PROVE LossInv'
  BY <1>1, <1>9 DEF Deliver
<1>10. ASSUME NEW k \in Connections, Break(k) PROVE LossInv'
  <2>1. breaks' = breaks + 1 /\ UNCHANGED <<conns, live, spilled, streamer>> /\ intact' = intact \ {k}
    BY <1>10 DEF Break
  <2>2. Exposed' \subseteq Exposed \cup {k}
    BY <2>1 DEF Exposed
  <2>3. Cardinality(Exposed') \in Nat /\ Cardinality(Exposed') <= Cardinality(Exposed) + 1
    BY <2>2, LossExposes
  <2> QED BY <2>1, <2>3, LossSets DEF LossInv, EndedConns
<1>11. CASE UNCHANGED vars
  BY <1>1, <1>11 DEF vars, streamVars
<1> QED BY <1>2, <1>3, <1>4, <1>5, <1>6, <1>7, <1>8, <1>9, <1>10, <1>11 DEF Next, StreamerStep

(* LossBounded is an invariant: however often streams break and            *)
(* connections come and go, Send costs at most one entry for each stream   *)
(* that broke and each connection that ended.                              *)
THEOREM LossesAreBounded == Spec => []LossBounded
<1>1. Init => TypeInv /\ LossInv
  <2> SUFFICES ASSUME Init PROVE LossInv
    BY InitType
  <2>1. Exposed = {} /\ EndedConns = {} /\ spilled = 0 /\ breaks = 0
    BY DEF Init, Exposed, EndedConns
  <2> QED BY <2>1, FS_EmptySet DEF LossInv
<1>2. TypeInv /\ LossInv /\ [Next]_vars => (TypeInv /\ LossInv)'
  BY NextType, NextLoss
<1>3. TypeInv /\ LossInv => LossBounded
  BY LossSets DEF LossInv, LossBounded, EndedConns
<1> QED BY <1>1, <1>2, <1>3, PTL DEF Spec

-----------------------------------------------------------------------------
(* Order *)

Before(e, f) == e.src = f.src => e.n < f.n

Rising(s) == \A i, j \in 1 .. Len(s) : i < j => Before(s[i], s[j])

(* An entry is newer than what has arrived of its source, and older than   *)
(* what its source has not offered yet.                                    *)
CurrentAt(e, arrived, offered, kept) ==
    /\ arrived[e.src] < e.n /\ e.n <= offered[e.src]
    /\ e.src \in Containers => \A m \in Range(kept[e.src]) : e.n < m

Current(e) == CurrentAt(e, last, made, unread)

UnreadOrder ==
    \A c \in Containers :
        /\ \A i, j \in 1 .. Len(unread[c]) : i < j => unread[c][i] < unread[c][j]
        /\ \A m \in Range(unread[c]) : last[c] < m /\ m <= made[c]

ChannelOrder == Rising(channel) /\ \A e \in Range(channel) : Current(e)

HandOrder ==
    \A k \in Connections : k \in intact /\ streamer[k] = "send" =>
        Current(hand[k]) /\ \A f \in Range(channel) : Before(hand[k], f)

WireOrder ==
    \A k \in Connections :
        /\ Rising(wire[k])
        /\ \A e \in Range(wire[k]) :
            /\ Current(e)
            /\ \A f \in Range(channel) : Before(e, f)
            /\ streamer[k] = "send" => Before(e, hand[k])

OrderInv ==
    /\ \A s \in Sources : last[s] <= made[s]
    /\ UnreadOrder /\ ChannelOrder /\ HandOrder /\ WireOrder

(* Appending an entry that comes after all others. *)
LEMMA RisingAppend ==
    ASSUME NEW s \in Seq(Made), NEW e \in Made, Rising(s), \A f \in Range(s) : Before(f, e)
    PROVE  Rising(Append(s, e))
<1>1. Len(s) \in Nat /\ Len(Append(s, e)) = Len(s) + 1 /\ DOMAIN s = 1 .. Len(s)
  BY AppendFacts
<1>2. \A i \in 1 .. Len(s) : Append(s, e)[i] = s[i] /\ s[i] \in Range(s)
  BY <1>1, AppendFacts DEF Range
<1>3. Append(s, e)[Len(s) + 1] = e
  BY AppendFacts
<1> SUFFICES ASSUME NEW i \in 1 .. Len(s) + 1, NEW j \in 1 .. Len(s) + 1, i < j
             PROVE  Before(Append(s, e)[i], Append(s, e)[j])
  BY <1>1 DEF Rising
<1>4. i \in 1 .. Len(s)
  BY <1>1
<1>5. CASE j = Len(s) + 1
  BY <1>2, <1>3, <1>4, <1>5
<1>6. CASE j \in 1 .. Len(s)
  BY <1>2, <1>4, <1>6 DEF Rising
<1> QED BY <1>1, <1>5, <1>6

(* Taking the first entry: it comes before all others. *)
LEMMA RisingTail ==
    ASSUME NEW s \in Seq(Made), s # <<>>, Rising(s)
    PROVE  Rising(Tail(s)) /\ \A f \in Range(Tail(s)) : Before(Head(s), f)
<1>1. Len(s) \in Nat /\ Len(s) > 0 /\ Len(Tail(s)) = Len(s) - 1 /\ Head(s) = s[1]
  BY TailFacts
<1>2. \A i \in 1 .. Len(s) - 1 : Tail(s)[i] = s[i + 1]
  BY TailFacts
<1>3. ASSUME NEW i \in 1 .. Len(s) - 1, NEW j \in 1 .. Len(s) - 1, i < j
      PROVE  Before(Tail(s)[i], Tail(s)[j])
  <2>1. i + 1 \in 1 .. Len(s) /\ j + 1 \in 1 .. Len(s) /\ i + 1 < j + 1
    BY <1>1, <1>3
  <2> QED BY <1>2, <2>1 DEF Rising
<1>4. ASSUME NEW f \in Range(Tail(s)) PROVE Before(Head(s), f)
  <2>1. PICK i \in 2 .. Len(s) : f = s[i]
    BY TailFacts
  <2>2. 1 \in 1 .. Len(s) /\ i \in 1 .. Len(s) /\ 1 < i
    BY <1>1, <2>1
  <2> QED BY <1>1, <2>1, <2>2 DEF Rising
<1> QED BY <1>1, <1>3, <1>4 DEF Rising

(* What the types say of the entries on their way. *)
LEMMA EntryTypes ==
    ASSUME TypeInv
    PROVE  /\ Range(channel) \subseteq Made /\ \A k \in Connections : Range(wire[k]) \subseteq Made
           /\ \A k \in Connections : streamer[k] = "send" => hand[k] \in Made
           /\ \A c \in Containers : Range(unread[c]) \subseteq Nat
           /\ \A e \in Made : e.src \in Sources /\ e.n \in Nat /\ e.n > 0
           /\ last \in [Sources -> Nat] /\ made \in [Sources -> Nat]
<1>1. \A S : \A s \in Seq(S) : Range(s) \subseteq S
  BY DEF Range
<1>2. \A e \in Made : e.src \in Sources /\ e.n \in Nat /\ e.n > 0
  BY DEF Made, Entry
<1> QED BY <1>1, <1>2 DEF TypeInv, ChannelType, StreamType, CollectType

(* Offering an entry that comes after all others of its source. *)
LEMMA OfferOrder ==
    ASSUME TypeInv, NEW e \in Made, Offer(e), Rising(channel), \A f \in Range(channel) : Before(f, e)
    PROVE  /\ Rising(channel') /\ Range(channel') \subseteq Range(channel) \cup {e}
           /\ Range(channel) \subseteq Range(channel')
<1>1. channel \in Seq(Made)
  BY DEF TypeInv, ChannelType
<1>2. CASE channel' = Append(channel, e)
  BY <1>1, <1>2, RisingAppend, AppendFacts
<1> QED BY <1>2 DEF Offer

(* The order needs only that nothing new appears on the way. *)
LEMMA OrderKept ==
    ASSUME TypeInv, OrderInv, UNCHANGED <<made, last, channel, hand>>,
           \A c \in Containers : unread'[c] = unread[c] \/ unread'[c] = <<>>,
           \A k \in Connections : wire'[k] = wire[k] \/ wire'[k] = <<>>,
           \A k \in Connections : streamer'[k] = "send" => streamer[k] = "send",
           \A k \in Connections : (k \in intact' /\ streamer'[k] = "send") => k \in intact
    PROVE  OrderInv'
<1>1. \A c \in Containers : Range(unread'[c]) \subseteq Range(unread[c])
  BY EmptyRange
<1>2. UnreadOrder'
  <2> SUFFICES ASSUME NEW c \in Containers
               PROVE  /\ \A i, j \in 1 .. Len(unread'[c]) : i < j => unread'[c][i] < unread'[c][j]
                      /\ \A m \in Range(unread'[c]) : last[c] < m /\ m <= made[c]
    BY DEF UnreadOrder
  <2>1. CASE unread'[c] = unread[c]
    BY <2>1 DEF OrderInv, UnreadOrder
  <2>2. CASE unread'[c] = <<>>
    BY <2>2, EmptyRange
  <2> QED BY <2>1, <2>2
<1>3. \A e : Current(e) => CurrentAt(e, last', made', unread')
  BY <1>1 DEF Current, CurrentAt
<1>4. ChannelOrder'
  BY <1>3 DEF OrderInv, ChannelOrder, Current
<1>5. HandOrder'
  <2> SUFFICES ASSUME NEW k \in Connections, k \in intact', streamer'[k] = "send"
               PROVE  CurrentAt(hand[k], last', made', unread') /\ \A f \in Range(channel) : Before(hand[k], f)
    BY DEF HandOrder, Current
  <2>1. Current(hand[k]) /\ \A f \in Range(channel) : Before(hand[k], f)
    BY DEF OrderInv, HandOrder
  <2> QED BY <1>3, <2>1
<1>6. WireOrder'
  <2> SUFFICES ASSUME NEW k \in Connections
               PROVE  /\ Rising(wire'[k])
                      /\ \A e \in Range(wire'[k]) :
                          /\ CurrentAt(e, last', made', unread')
                          /\ \A f \in Range(channel) : Before(e, f)
                          /\ streamer'[k] = "send" => Before(e, hand[k])
    BY DEF WireOrder, Current
  <2>1. CASE wire'[k] = wire[k]
    BY <1>3, <2>1 DEF OrderInv, WireOrder
  <2>2. CASE wire'[k] = <<>>
    BY <2>2, EmptyRange DEF Rising
  <2> QED BY <2>1, <2>2
<1> QED BY <1>2, <1>4, <1>5, <1>6 DEF OrderInv

(* An offer keeps the order if its entry comes after all that are on the   *)
(* way, and what the source still has comes after it.                      *)
LEMMA OfferKeepsOrder ==
    ASSUME TypeInv, OrderInv, NEW e \in Made, Offer(e),
           UNCHANGED <<last, wire, hand, streamer, intact>>,
           \A s \in Sources : last[s] <= made'[s],
           \A f \in Made : Current(f) => CurrentAt(f, last', made', unread') /\ Before(f, e),
           CurrentAt(e, last', made', unread'), UnreadOrder'
    PROVE  OrderInv'
<1>0. /\ Rising(channel) /\ \A f \in Range(channel) : f \in Made /\ Current(f)
      /\ \A k \in Connections : \A f \in Range(wire[k]) : f \in Made /\ Current(f)
  BY EntryTypes DEF OrderInv, ChannelOrder, WireOrder
<1>1. /\ Rising(channel') /\ Range(channel') \subseteq Range(channel) \cup {e}
  BY <1>0, OfferOrder
<1>2. ChannelOrder'
  BY <1>0, <1>1 DEF ChannelOrder, Current
<1>3. HandOrder'
  <2> SUFFICES ASSUME NEW k \in Connections, k \in intact, streamer[k] = "send"
               PROVE  CurrentAt(hand[k], last', made', unread') /\ \A f \in Range(channel') : Before(hand[k], f)
    BY DEF HandOrder, Current
  <2>1. hand[k] \in Made /\ Current(hand[k]) /\ \A f \in Range(channel) : Before(hand[k], f)
    BY EntryTypes DEF OrderInv, HandOrder
  <2>2. CurrentAt(hand[k], last', made', unread') /\ Before(hand[k], e)
    BY <2>1
  <2> QED BY <1>1, <2>1, <2>2
<1>4. WireOrder'
  BY <1>0, <1>1 DEF OrderInv, WireOrder, Current
<1> QED BY <1>2, <1>3, <1>4 DEF OrderInv

(* So does the next entry of a source that keeps none back. *)
LEMMA OfferNextOrder ==
    ASSUME TypeInv, OrderInv, NEW s \in Sources \ Containers, OfferNext(s),
           UNCHANGED <<last, wire, hand, streamer, intact, unread>>
    PROVE  OrderInv'
<1> DEFINE e == [src |-> s, n |-> made[s] + 1]
<1>1. made \in [Sources -> Nat] /\ made' = [made EXCEPT ![s] = made[s] + 1] /\ last \in [Sources -> Nat]
  BY EntryTypes DEF OfferNext
<1>2. e \in Made /\ Offer(e) /\ e.src = s /\ e.n = made[s] + 1
  BY <1>1 DEF OfferNext, Made, Entry
<1>3. \A q \in Sources : made'[q] = (IF q = s THEN made[q] + 1 ELSE made[q]) /\ last[q] <= made[q]
  BY <1>1 DEF OrderInv
<1> HIDE DEF e
<1>4. \A f \in Made : Current(f) => CurrentAt(f, last', made', unread') /\ Before(f, e)
  BY <1>1, <1>2, <1>3, EntryTypes DEF Current, CurrentAt, Before
<1>5. CurrentAt(e, last', made', unread')
  BY <1>1, <1>2, <1>3 DEF CurrentAt
<1>6. UnreadOrder'
  BY <1>1, <1>3, EntryTypes DEF OrderInv, UnreadOrder, Sources
<1>7. \A q \in Sources : last[q] <= made'[q]
  BY <1>1, <1>3
<1> QED BY <1>2, <1>4, <1>5, <1>6, <1>7, OfferKeepsOrder

(* A line is written: it comes after all that are on the way. *)
LEMMA WriteLineOrder ==
    ASSUME TypeInv, OrderInv, NEW c \in Containers, WriteLine(c)
    PROVE  OrderInv'
<1>1. /\ made \in [Sources -> Nat] /\ last \in [Sources -> Nat] /\ c \in Sources
      /\ unread[c] \in Seq(Nat) /\ Range(unread[c]) \subseteq Nat
      /\ UNCHANGED <<last, channel, hand, wire, streamer, intact>>
  BY EntryTypes DEF TypeInv, CollectType, WriteLine, Sources, streamVars
<1>2. \A q \in Sources : made'[q] = (IF q = c THEN made[q] + 1 ELSE made[q]) /\ last[q] <= made[q]
  BY <1>1 DEF WriteLine, OrderInv
<1>3. /\ unread'[c] = Append(unread[c], made[c] + 1)
      /\ \A d \in Containers : d # c => unread'[d] = unread[d]
  BY DEF WriteLine, TypeInv, CollectType
<1>4. Range(unread'[c]) = Range(unread[c]) \cup {made[c] + 1}
  <2>1. made[c] + 1 \in Nat
    BY <1>1
  <2>2. Range(Append(unread[c], made[c] + 1)) = Range(unread[c]) \cup {made[c] + 1}
    <3> DEFINE S == Nat
               e == made[c] + 1
    <3>1. unread[c] \in Seq(S) /\ e \in S
      BY <1>1, <2>1
    <3> HIDE DEF S, e
    <3>2. Range(Append(unread[c], e)) = Range(unread[c]) \cup {e}
      BY <3>1, AppendFacts
    <3> QED BY <3>2 DEF e
  <2> QED BY <1>3, <2>2
<1>5. \A f \in Made : Current(f) => CurrentAt(f, last', made', unread')
  <2> SUFFICES ASSUME NEW f \in Made, Current(f) PROVE CurrentAt(f, last', made', unread')
    OBVIOUS
  <2>1. f.src \in Sources /\ f.n \in Nat /\ last[f.src] < f.n /\ f.n <= made[f.src]
    BY EntryTypes DEF Current, CurrentAt
  <2>2. last'[f.src] < f.n /\ f.n <= made'[f.src]
    BY <1>1, <1>2, <2>1, SMTT(30)
  <2>3. ASSUME f.src \in Containers, NEW m \in Range(unread'[f.src]) PROVE f.n < m
    <3>1. CASE m \in Range(unread[f.src])
      BY <2>3, <3>1 DEF Current, CurrentAt
    <3>2. CASE f.src = c /\ m = made[c] + 1
      BY <1>1, <2>1, <3>2
    <3> QED BY <1>3, <1>4, <2>3, <3>1, <3>2
  <2> QED BY <2>2, <2>3 DEF CurrentAt
<1>6. UnreadOrder'
  <2> SUFFICES ASSUME NEW d \in Containers
               PROVE  /\ \A i, j \in 1 .. Len(unread'[d]) : i < j => unread'[d][i] < unread'[d][j]
                      /\ \A m \in Range(unread'[d]) : last[d] < m /\ m <= made'[d]
    BY <1>1 DEF UnreadOrder
  <2>1. CASE d # c
    BY <1>1, <1>2, <1>3, <2>1, EntryTypes DEF OrderInv, UnreadOrder, Sources
  <2>2. CASE d = c
    <3>1. \A m \in Range(unread[c]) : m \in Nat /\ last[c] < m /\ m <= made[c]
      BY <1>1 DEF OrderInv, UnreadOrder
    <3>2. \A m \in Range(unread'[c]) : last[c] < m /\ m <= made'[c]
      BY <1>1, <1>2, <1>4, <3>1
    <3>3. /\ Len(unread[c]) \in Nat /\ Len(unread'[c]) = Len(unread[c]) + 1
          /\ unread'[c][Len(unread[c]) + 1] = made[c] + 1
          /\ \A i \in 1 .. Len(unread[c]) : unread'[c][i] = unread[c][i] /\ unread[c][i] \in Range(unread[c])
      BY <1>1, <1>3, AppendFacts DEF Range
    <3>4. ASSUME NEW i \in 1 .. Len(unread'[c]), NEW j \in 1 .. Len(unread'[c]), i < j
          PROVE  unread'[c][i] < unread'[c][j]
      <4>1. i \in 1 .. Len(unread[c])
        BY <3>3, <3>4
      <4>2. CASE j = Len(unread[c]) + 1
        BY <1>1, <3>1, <3>3, <4>1, <4>2
      <4>3. CASE j \in 1 .. Len(unread[c])
        BY <3>3, <3>4, <4>1, <4>3 DEF OrderInv, UnreadOrder
      <4> QED BY <3>3, <4>2, <4>3
    <3> QED BY <2>2, <3>2, <3>4
  <2> QED BY <2>1, <2>2
<1>7. ChannelOrder'
  BY <1>1, <1>5, EntryTypes DEF OrderInv, ChannelOrder, Current
<1>8. HandOrder'
  <2> SUFFICES ASSUME NEW k \in Connections, k \in intact, streamer[k] = "send"
               PROVE  CurrentAt(hand[k], last', made', unread') /\ \A f \in Range(channel) : Before(hand[k], f)
    BY <1>1 DEF HandOrder, Current
  <2>1. hand[k] \in Made /\ Current(hand[k]) /\ \A f \in Range(channel) : Before(hand[k], f)
    BY EntryTypes DEF OrderInv, HandOrder
  <2> QED BY <1>5, <2>1
<1>9. WireOrder'
  <2> SUFFICES ASSUME NEW k \in Connections
               PROVE  /\ Rising(wire[k])
                      /\ \A e \in Range(wire[k]) :
                          /\ CurrentAt(e, last', made', unread')
                          /\ \A f \in Range(channel) : Before(e, f)
                          /\ streamer[k] = "send" => Before(e, hand[k])
    BY <1>1 DEF WireOrder, Current
  <2>1. Range(wire[k]) \subseteq Made
    BY EntryTypes
  <2> QED BY <1>5, <2>1 DEF OrderInv, WireOrder
<1>10. \A s \in Sources : last'[s] <= made'[s]
  <2> SUFFICES ASSUME NEW s \in Sources PROVE last[s] <= made'[s]
    BY <1>1
  <2>1. last[s] \in Nat /\ made[s] \in Nat /\ last[s] <= made[s]
    BY <1>1, <1>2
  <2>2. made'[s] \in {made[s], made[s] + 1}
    BY <1>2
  <2> QED BY <2>1, <2>2
<1> QED BY <1>6, <1>7, <1>8, <1>9, <1>10 DEF OrderInv

(* A tailer offers the line it has read: the lines after it are newer. *)
LEMMA TailerReadsOrder ==
    ASSUME TypeInv, OrderInv, NEW c \in Containers, TailerReads(c)
    PROVE  OrderInv'
<1> DEFINE e == [src |-> c, n |-> Head(unread[c])]
<1>1. /\ made \in [Sources -> Nat] /\ last \in [Sources -> Nat] /\ c \in Sources
      /\ unread[c] \in Seq(Nat) /\ Range(unread[c]) \subseteq Nat /\ unread[c] # <<>>
      /\ UNCHANGED <<made, last, hand, wire, streamer, intact>>
  BY EntryTypes DEF TypeInv, CollectType, TailerReads, Sources, streamVars
<1>2. unread'[c] = Tail(unread[c]) /\ \A d \in Containers : d # c => unread'[d] = unread[d]
  BY DEF TailerReads, TypeInv, CollectType
<1>3. Head(unread[c]) \in Range(unread[c]) /\ Range(unread'[c]) \subseteq Range(unread[c])
  BY <1>1, <1>2, TailFacts
<1>4. \A m \in Range(unread[c]) : m \in Nat /\ last[c] < m /\ m <= made[c]
  BY <1>1 DEF OrderInv, UnreadOrder
<1>5. Head(unread[c]) \in Nat /\ last[c] < Head(unread[c]) /\ Head(unread[c]) <= made[c]
  BY <1>3, <1>4
<1>6. e \in Made /\ Offer(e) /\ e.src = c /\ e.n = Head(unread[c])
  BY <1>1, <1>5 DEF TailerReads, Made, Entry
<1> HIDE DEF e
<1>7. Len(unread[c]) \in Nat /\ Len(unread[c]) > 0 /\ Len(unread'[c]) = Len(unread[c]) - 1 /\ Head(unread[c]) = unread[c][1]
  BY <1>1, <1>2, TailFacts
<1>8. \A i \in 1 .. Len(unread[c]) - 1 : unread'[c][i] = unread[c][i + 1]
  BY <1>1, <1>2, TailFacts
<1>9. \A i, j \in 1 .. Len(unread[c]) : i < j => unread[c][i] < unread[c][j]
  BY DEF OrderInv, UnreadOrder
<1>10. ASSUME NEW m \in Range(unread'[c]) PROVE Head(unread[c]) < m
  <2>1. PICK i \in 2 .. Len(unread[c]) : m = unread[c][i]
    BY <1>1, <1>2, TailFacts
  <2>2. 1 \in 1 .. Len(unread[c]) /\ i \in 1 .. Len(unread[c]) /\ 1 < i
    BY <1>7, <2>1
  <2> QED BY <1>7, <1>9, <2>1, <2>2
<1>11. UnreadOrder'
  <2> SUFFICES ASSUME NEW d \in Containers
               PROVE  /\ \A i, j \in 1 .. Len(unread'[d]) : i < j => unread'[d][i] < unread'[d][j]
                      /\ \A m \in Range(unread'[d]) : last[d] < m /\ m <= made[d]
    BY <1>1 DEF UnreadOrder
  <2>1. CASE d # c
    BY <1>2, <2>1 DEF OrderInv, UnreadOrder
  <2>2. CASE d = c
    <3>1. ASSUME NEW i \in 1 .. Len(unread'[c]), NEW j \in 1 .. Len(unread'[c]), i < j
          PROVE  unread'[c][i] < unread'[c][j]
      <4>1. i + 1 \in 1 .. Len(unread[c]) /\ j + 1 \in 1 .. Len(unread[c]) /\ i + 1 < j + 1
        BY <1>7, <3>1
      <4>2. i \in 1 .. Len(unread[c]) - 1 /\ j \in 1 .. Len(unread[c]) - 1
        BY <1>7
      <4> QED BY <1>8, <1>9, <4>1, <4>2
    <3> QED BY <1>3, <1>4, <2>2, <3>1
  <2> QED BY <2>1, <2>2
<1>12. CurrentAt(e, last', made', unread')
  BY <1>1, <1>5, <1>6, <1>10 DEF CurrentAt
<1>13. \A f \in Made : Current(f) => CurrentAt(f, last', made', unread') /\ Before(f, e)
  BY <1>1, <1>2, <1>3, <1>6 DEF Current, CurrentAt, Before
<1>14. \A q \in Sources : last[q] <= made'[q]
  BY <1>1 DEF OrderInv
<1> QED BY <1>1, <1>6, <1>11, <1>12, <1>13, <1>14, OfferKeepsOrder

(* A streamer takes the oldest entry of the channel. *)
LEMMA TakeEntryOrder ==
    ASSUME TypeInv, OrderInv, NEW k \in Connections, TakeEntry(k)
    PROVE  OrderInv'
<1>1. /\ channel \in Seq(Made) /\ channel # <<>> /\ channel' = Tail(channel)
      /\ UNCHANGED <<made, last, unread, wire, intact>>
  BY DEF TypeInv, ChannelType, TakeEntry, collectVars
<1>2. hand'[k] = Head(channel) /\ \A j \in Connections : j # k => hand'[j] = hand[j]
  BY DEF TakeEntry, TypeInv, StreamType
<1>3. \A j \in Connections : j # k => streamer'[j] = streamer[j]
  BY DEF TakeEntry, TypeInv, StreamType
<1>4. Head(channel) \in Range(channel) /\ Range(channel') \subseteq Range(channel)
  BY <1>1, TailFacts
<1>5. Rising(channel') /\ \A f \in Range(channel') : Before(Head(channel), f)
  BY <1>1, RisingTail DEF OrderInv, ChannelOrder
<1>6. \A e : Current(e) => CurrentAt(e, last', made', unread')
  BY <1>1 DEF Current
<1>7. Current(Head(channel))
  BY <1>4 DEF OrderInv, ChannelOrder
<1>8. ChannelOrder'
  BY <1>4, <1>5, <1>6 DEF OrderInv, ChannelOrder, Current
<1>9. HandOrder'
  <2> SUFFICES ASSUME NEW j \in Connections, j \in intact, streamer'[j] = "send"
               PROVE  CurrentAt(hand'[j], last', made', unread') /\ \A f \in Range(channel') : Before(hand'[j], f)
    BY <1>1 DEF HandOrder, Current
  <2>1. CASE j = k
    BY <1>2, <1>5, <1>6, <1>7, <2>1
  <2>2. CASE j # k
    <3>1. Current(hand[j]) /\ \A f \in Range(channel) : Before(hand[j], f)
      BY <1>3, <2>2 DEF OrderInv, HandOrder
    <3> QED BY <1>2, <1>4, <1>6, <2>2, <3>1
  <2> QED BY <2>1, <2>2
<1>10. WireOrder'
  <2> SUFFICES ASSUME NEW j \in Connections
               PROVE  /\ Rising(wire[j])
                      /\ \A e \in Range(wire[j]) :
                          /\ CurrentAt(e, last', made', unread')
                          /\ \A f \in Range(channel') : Before(e, f)
                          /\ streamer'[j] = "send" => Before(e, hand'[j])
    BY <1>1 DEF WireOrder, Current
  <2>1. /\ Rising(wire[j])
        /\ \A e \in Range(wire[j]) :
            /\ Current(e)
            /\ \A f \in Range(channel) : Before(e, f)
            /\ streamer[j] = "send" => Before(e, hand[j])
    BY DEF OrderInv, WireOrder
  <2>2. CASE j = k
    BY <1>2, <1>4, <1>6, <2>1, <2>2
  <2>3. CASE j # k
    BY <1>2, <1>3, <1>4, <1>6, <2>1, <2>3
  <2> QED BY <2>2, <2>3
<1> QED BY <1>1, <1>8, <1>9, <1>10 DEF OrderInv, UnreadOrder

(* A send puts the entry in hand behind those in the transport, or drops   *)
(* it.                                                                     *)
LEMMA SendEntryOrder ==
    ASSUME TypeInv, OrderInv, NEW k \in Connections, SendEntry(k)
    PROVE  OrderInv'
<1>1. UNCHANGED <<made, last, unread, channel, intact>> /\ streamer[k] = "send"
  BY DEF SendEntry, collectVars, channelVars
<1>2. streamer'[k] # "send" /\ \A j \in Connections : j # k => streamer'[j] = streamer[j]
  BY DEF SendEntry, TypeInv, StreamType, AfterError
<1>3. \A j \in Connections : j # k => hand'[j] = hand[j] /\ wire'[j] = wire[j]
  BY DEF SendEntry, TypeInv, StreamType
<1>4. \A e : Current(e) => CurrentAt(e, last', made', unread')
  BY <1>1 DEF Current
<1>5. ChannelOrder'
  BY <1>1, <1>4 DEF OrderInv, ChannelOrder, Current
<1>6. HandOrder'
  <2> SUFFICES ASSUME NEW j \in Connections, j \in intact, streamer'[j] = "send"
               PROVE  CurrentAt(hand'[j], last', made', unread') /\ \A f \in Range(channel) : Before(hand'[j], f)
    BY <1>1 DEF HandOrder, Current
  <2>1. Current(hand[j]) /\ \A f \in Range(channel) : Before(hand[j], f)
    BY <1>2 DEF OrderInv, HandOrder
  <2> QED BY <1>2, <1>3, <1>4, <2>1
<1>7. /\ wire[k] \in Seq(Made) /\ hand[k] \in Made
  BY <1>1, EntryTypes DEF TypeInv, StreamType
<1>8. \/ wire'[k] = wire[k]
      \/ k \in intact /\ wire'[k] = Append(wire[k], hand[k])
  BY DEF SendEntry, TypeInv, StreamType
<1>9. WireOrder'
  <2> SUFFICES ASSUME NEW j \in Connections
               PROVE  /\ Rising(wire'[j])
                      /\ \A e \in Range(wire'[j]) :
                          /\ CurrentAt(e, last', made', unread')
                          /\ \A f \in Range(channel) : Before(e, f)
                          /\ streamer'[j] = "send" => Before(e, hand'[j])
    BY <1>1 DEF WireOrder, Current
  <2>1. /\ Rising(wire[j])
        /\ \A e \in Range(wire[j]) :
            /\ Current(e)
            /\ \A f \in Range(channel) : Before(e, f)
            /\ streamer[j] = "send" => Before(e, hand[j])
    BY DEF OrderInv, WireOrder
  <2>2. CASE j # k
    BY <1>2, <1>3, <1>4, <2>1, <2>2
  <2>3. CASE j = k /\ wire'[k] = wire[k]
    BY <1>2, <1>4, <2>1, <2>3
  <2>4. CASE j = k /\ k \in intact /\ wire'[k] = Append(wire[k], hand[k])
    <3>1. Current(hand[k]) /\ \A f \in Range(channel) : Before(hand[k], f)
      BY <1>1, <2>4 DEF OrderInv, HandOrder
    <3>2. Rising(wire'[k]) /\ Range(wire'[k]) = Range(wire[k]) \cup {hand[k]}
      BY <1>1, <1>7, <2>1, <2>4, RisingAppend, AppendFacts
    <3> QED BY <1>2, <1>4, <2>1, <2>4, <3>1, <3>2
  <2> QED BY <1>8, <2>2, <2>3, <2>4
<1> QED BY <1>1, <1>5, <1>6, <1>9 DEF OrderInv, UnreadOrder

(* An entry arrives: all that are still on the way are newer, because only *)
(* one connection has anything under way.                                  *)
LEMMA DeliverOrder ==
    ASSUME TypeInv, OrderInv, NEW k \in Connections, Deliver(k)
    PROVE  OrderInv'
<1> DEFINE h == Head(wire[k])
<1>1. /\ wire[k] \in Seq(Made) /\ wire[k] # <<>>
      /\ UNCHANGED <<made, unread, channel, hand, streamer, intact>>
      /\ last' = [last EXCEPT ![h.src] = h.n] /\ last \in [Sources -> Nat] /\ made \in [Sources -> Nat]
  BY EntryTypes DEF TypeInv, StreamType, Deliver, collectVars, channelVars
<1>2. wire'[k] = Tail(wire[k]) /\ \A j \in Connections : j # k => wire'[j] = wire[j]
  BY DEF Deliver, TypeInv, StreamType
<1>3. h \in Range(wire[k]) /\ Range(wire'[k]) \subseteq Range(wire[k])
  BY <1>1, <1>2, TailFacts
<1>4. h \in Made /\ h.src \in Sources /\ h.n \in Nat /\ Current(h)
  BY <1>3, EntryTypes DEF OrderInv, WireOrder
<1>5. Rising(wire'[k]) /\ \A f \in Range(wire'[k]) : Before(h, f)
  BY <1>1, <1>2, RisingTail DEF OrderInv, WireOrder
<1>6. /\ \A f \in Range(channel) : Before(h, f)
      /\ streamer[k] = "send" => Before(h, hand[k])
  BY <1>3 DEF OrderInv, WireOrder
<1> HIDE DEF h
<1>7. \A s \in Sources : last'[s] = IF s = h.src THEN h.n ELSE last[s]
  BY <1>1, <1>4
<1>8. \A f \in Made : Current(f) /\ Before(h, f) => CurrentAt(f, last', made', unread')
  BY <1>1, <1>4, <1>7, EntryTypes DEF Current, CurrentAt, Before
<1>9. \A j \in Connections : j # k => wire[j] = <<>> /\ j \notin intact
  BY <1>1 DEF TypeInv, StreamType
<1>10. \A s \in Sources : last'[s] <= made'[s]
  BY <1>1, <1>4, <1>7 DEF OrderInv, Current, CurrentAt
<1>11. UnreadOrder'
  BY <1>1, <1>4, <1>7 DEF OrderInv, UnreadOrder, Current, CurrentAt, Sources
<1>12. ChannelOrder'
  BY <1>1, <1>6, <1>8, EntryTypes DEF OrderInv, ChannelOrder, Current
<1>13. HandOrder'
  <2> SUFFICES ASSUME NEW j \in Connections, j \in intact, streamer[j] = "send"
               PROVE  CurrentAt(hand[j], last', made', unread') /\ \A f \in Range(channel) : Before(hand[j], f)
    BY <1>1 DEF HandOrder, Current
  <2>1. hand[j] \in Made /\ Current(hand[j]) /\ \A f \in Range(channel) : Before(hand[j], f)
    BY EntryTypes DEF OrderInv, HandOrder
  <2> QED BY <1>6, <1>8, <1>9, <2>1
<1>14. WireOrder'
  <2> SUFFICES ASSUME NEW j \in Connections
               PROVE  /\ Rising(wire'[j])
                      /\ \A e \in Range(wire'[j]) :
                          /\ CurrentAt(e, last', made', unread')
                          /\ \A f \in Range(channel) : Before(e, f)
                          /\ streamer[j] = "send" => Before(e, hand[j])
    BY <1>1 DEF WireOrder, Current
  <2>1. CASE j = k
    <3>1. \A e \in Range(wire[k]) :
            /\ e \in Made /\ Current(e)
            /\ \A f \in Range(channel) : Before(e, f)
            /\ streamer[k] = "send" => Before(e, hand[k])
      BY EntryTypes DEF OrderInv, WireOrder
    <3> QED BY <1>3, <1>5, <1>8, <2>1, <3>1
  <2>2. CASE j # k
    <3>1. wire'[j] = <<>>
      BY <1>2, <1>9, <2>2
    <3> QED BY <3>1, EmptyRange DEF Rising
  <2> QED BY <2>1, <2>2
<1> QED BY <1>10, <1>11, <1>12, <1>13, <1>14 DEF OrderInv

(* Every step keeps the order. *)
LEMMA NextOrder == TypeInv /\ OrderInv /\ [Next]_vars => OrderInv'
<1> SUFFICES ASSUME TypeInv, OrderInv, [Next]_vars PROVE OrderInv'
  OBVIOUS
<1>0. StreamType /\ CollectType
  BY DEF TypeInv
<1>1. ASSUME UNCHANGED <<made, last, channel, hand, wire, streamer, intact>>,
             \A c \in Containers : unread'[c] = unread[c] \/ unread'[c] = <<>>
      PROVE  OrderInv'
  BY <1>1, OrderKept
<1>2. ASSUME NEW c \in Containers, Start(c) \/ Stop(c) \/ TailerOpens(c) PROVE OrderInv'
  BY <1>1, <1>2 DEF Start, Stop, TailerOpens, channelVars, streamVars
<1>3. ASSUME NEW c \in Containers, TailerEnds(c) PROVE OrderInv'
  BY <1>0, <1>1, <1>3 DEF TailerEnds, CollectType, channelVars, streamVars
<1>4. CASE ListManagedContainers \/ Reconcile \/ Tick
  <2>1. UNCHANGED <<made, last, channel, hand, wire, streamer, intact>>
    BY <1>4 DEF ListManagedContainers, Reconcile, Tick, channelVars, streamVars
  <2>2. \A c \in Containers : unread'[c] = unread[c] \/ unread'[c] = <<>>
    BY <1>4 DEF ListManagedContainers, Reconcile, Tick
  <2> QED BY <1>1, <2>1, <2>2
<1>5. ASSUME NEW c \in Containers, WriteLine(c) \/ TailerReads(c) PROVE OrderInv'
  BY <1>5, WriteLineOrder, TailerReadsOrder
<1>6. CASE Inject \/ CollectContainers \/ CollectHost \/ CollectDiskUsage
  <2>0. "build" \in Sources \ Containers /\ "metrics" \in Sources \ Containers
    BY TelemetryConstants DEF Sources
  <2>1. UNCHANGED <<last, hand, wire, streamer, intact, unread>>
    BY <1>6 DEF Inject, CollectContainers, CollectHost, CollectDiskUsage, CollectBatch, collectVars, streamVars
  <2>2. OfferNext("build") \/ OfferNext("metrics") \/ UNCHANGED <<made, channel>>
    BY <1>6 DEF Inject, CollectContainers, CollectHost, CollectDiskUsage, CollectBatch, channelVars
  <2> QED BY <1>1, <2>0, <2>1, <2>2, OfferNextOrder
<1>7. CASE Connect
  <2>1. \A k \in Connections : streamer'[k] = "send" => streamer[k] = "send"
    BY <1>0, <1>7 DEF Connect, StreamType
  <2> QED BY <1>7, <2>1, OrderKept DEF Connect, collectVars, channelVars
<1>8. CASE Disconnect
  <2>1. \A k \in Connections : wire'[k] = wire[k] \/ wire'[k] = <<>>
    BY <1>0, <1>8 DEF Disconnect, StreamType
  <2> QED BY <1>8, <2>1, OrderKept DEF Disconnect, collectVars, channelVars
<1>9. ASSUME NEW k \in Connections, OpenStream(k) \/ StreamerEnds(k) \/ Reopen(k) PROVE OrderInv'
  <2>1. \A j \in Connections : streamer'[j] = "send" => streamer[j] = "send" /\ j # k
    BY <1>0, <1>9 DEF OpenStream, StreamerEnds, Reopen, StreamType
  <2>2. \A j \in Connections : j # k /\ j \in intact' => j \in intact
    BY <1>9 DEF OpenStream, StreamerEnds, Reopen
  <2> QED BY <1>9, <2>1, <2>2, OrderKept DEF OpenStream, StreamerEnds, Reopen, collectVars, channelVars
<1>10. ASSUME NEW k \in Connections, Break(k) PROVE OrderInv'
  <2>1. \A j \in Connections : wire'[j] = wire[j] \/ wire'[j] = <<>>
    BY <1>0, <1>10 DEF Break, StreamType
  <2> QED BY <1>10, <2>1, OrderKept DEF Break, collectVars, channelVars
<1>11. CASE UNCHANGED vars
  BY <1>1, <1>11 DEF vars, collectVars, channelVars, streamVars
<1> QED BY <1>2, <1>3, <1>4, <1>5, <1>6, <1>7, <1>8, <1>9, <1>10, <1>11, TakeEntryOrder,
     SendEntryOrder, DeliverOrder
     DEF Next, TailerStep, ReconcileStep, CollectStep, StreamerStep

(* InOrder is an invariant: whatever connections come and go, and although *)
(* two streamers may take from one channel, what arrives of a source       *)
(* arrives in the order it was made, and nothing twice.                    *)
THEOREM ArrivesInOrder == Spec => []InOrder
<1>1. Init => OrderInv
  <2> SUFFICES ASSUME Init PROVE OrderInv
    OBVIOUS
  <2>1. channel = <<>> /\ \A k \in Connections : wire[k] = <<>> /\ streamer[k] = "none"
    BY DEF Init
  <2>2. \A c \in Containers : unread[c] = <<>>
    BY DEF Init
  <2>3. \A s \in Sources : last[s] <= made[s]
    BY DEF Init
  <2>4. UnreadOrder
    BY <2>2, EmptyRange DEF UnreadOrder
  <2>5. ChannelOrder /\ HandOrder /\ WireOrder
    BY <2>1, EmptyRange DEF ChannelOrder, HandOrder, WireOrder, Rising
  <2> QED BY <2>3, <2>4, <2>5 DEF OrderInv
<1>2. TypeInv /\ OrderInv /\ [Next]_vars => (TypeInv /\ OrderInv)'
  BY NextType, NextOrder
<1>3. TypeInv /\ OrderInv => InOrder
  <2> SUFFICES ASSUME TypeInv, OrderInv, NEW k \in Connections, wire[k] # <<>>
               PROVE  Head(wire[k]).n > last[Head(wire[k]).src]
    BY DEF InOrder
  <2>1. Head(wire[k]) \in Range(wire[k])
    BY TailFacts DEF TypeInv, StreamType
  <2>2. Current(Head(wire[k])) /\ Head(wire[k]) \in Made
    BY <2>1, EntryTypes DEF OrderInv, WireOrder
  <2> QED BY <2>2, EntryTypes DEF Current, CurrentAt
<1> QED BY <1>1, <1>2, <1>3, InitType, PTL DEF Spec
=============================================================================
