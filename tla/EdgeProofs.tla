------------------------------ MODULE EdgeProofs ------------------------------
(***************************************************************************)
(* Theorems about Edge: type correctness; that Traefik, the platform's     *)
(* cloudflared and a shared named tunnel serve what they should whenever   *)
(* no command is under way; and that a Doctor claims no more than it saw.  *)
(*                                                                         *)
(* The serving properties speak of quiet states only.  The invariants say, *)
(* for every moment in between, who still has to do what: the container is *)
(* there, or some goroutine is on its way to create or start it.           *)
(***************************************************************************)
EXTENDS Edge, TLAPS

-----------------------------------------------------------------------------
(* Types, and which goroutine runs what when *)

KindsIn(d) ==
    CASE d = "traefik"  -> {"none", "traefik", "reattach", "attach", "acme"}
      [] d = "platform" -> {"none", "platform"}
      [] d = "tunnel"   -> {"none", "named", "disable"}
      [] OTHER          -> {"none"}

Ends == {"succeeded", "failed"}
Makes == {"pull", "create", "start"}

(* The steps of each kind of task. *)
Path(kind) ==
    CASE kind = "none"                     -> {"idle"}
      [] kind = "traefik"                  -> {"find"} \cup Makes \cup Ends
      [] kind \in {"attach", "reattach"}   -> {"find", "connect"} \cup Ends
      [] kind = "acme"                     -> {"check", "find", "remove", "connect"} \cup Makes \cup Ends
      [] kind = "platform"                 -> {"find", "remove", "evict"} \cup Makes \cup Ends
      [] kind = "named"                    -> {"find", "evict"} \cup Makes \cup Ends
      [] kind = "disable"                  -> {"find", "remove"} \cup Ends

BootKinds == {"none", "traefik", "reattach", "platform"}
CommandKinds == {"none", "attach", "acme", "platform", "named", "disable"}

(* A start of the agent has the goroutines to itself. *)
RunInv ==
    /\ \A p \in Procs :
        /\ task[p].kind \in KindsIn(domain) /\ pc[p] \in Path(task[p].kind)
        /\ task[p].kind = "none" => task[p] = NoTask
        /\ pc[p] \in {"start", "connect"} => task[p].id # 0
        /\ task[p].kind \in (IF p = Main THEN BootKinds ELSE CommandKinds)
        /\ task[p].kind = "platform" => task[p].token # NoToken
        /\ task[p].kind \in {"named", "disable"} <=> task[p].ep # NoEndpoint
    /\ pc[Main] = "idle" <=> phase = "up"
    /\ phase = "boot" => \A p \in Workers : pc[p] = "idle"

TypeInv == TypeOK /\ RunInv

Steps == {"idle", "check", "find", "remove", "evict", "pull", "create", "start", "connect",
          "succeeded", "failed"}
TaskAt(n) ==
    [kind : Kinds, token : Tokens \cup {NoToken}, ep : Endpoints \cup {NoEndpoint},
     id : 0 .. n, nets : SUBSET Networks]
BoxAt(n) ==
    [id : 0 .. n, running : BOOLEAN, acme : BOOLEAN, token : Tokens \cup {NoToken},
     nets : SUBSET Networks]

(* Goroutine p goes on: where to, and with which local variables. *)
Moved(p, to, t) == pc' = [pc EXCEPT ![p] = to] /\ task' = [task EXCEPT ![p] = t]

(* Moved, goroutine by goroutine. *)
LEMMA MovedFacts ==
    ASSUME TypeInv, NEW p \in Procs, NEW to, NEW t, Moved(p, to, t)
    PROVE  /\ pc'[p] = to /\ task'[p] = t
           /\ \A q \in Procs : q # p => pc'[q] = pc[q] /\ task'[q] = task[q]
BY DEF Moved, TypeInv, TypeOK

(* The tasks the model names. *)
LEMMA TaskFacts ==
    /\ NoTask \in TaskAt(0) /\ NoTask.kind = "none" /\ NoBox \in BoxAt(0) /\ ~NoBox.running /\ NoBox.id = 0
    /\ Main \in Procs /\ Main \notin Workers /\ Workers \subseteq Procs
    /\ \A n \in Nat : TaskAt(n) \subseteq TaskAt(n + 1) /\ BoxAt(n) \subseteq BoxAt(n + 1)
    /\ \A n \in Nat : NoTask \in TaskAt(n) /\ NoBox \in BoxAt(n)
<1>1. \A n \in Nat : NoTask \in TaskAt(n) /\ NoBox \in BoxAt(n)
  BY DEF NoTask, NoBox, TaskAt, BoxAt, Kinds
<1>2. \A n \in Nat : 0 .. n \subseteq 0 .. n + 1
  OBVIOUS
<1>3. \A n \in Nat : TaskAt(n) \subseteq TaskAt(n + 1) /\ BoxAt(n) \subseteq BoxAt(n + 1)
  BY <1>2 DEF TaskAt, BoxAt
<1>4. 0 \in Nat
  OBVIOUS
<1> QED BY <1>1, <1>3, <1>4, EdgeConstants DEF NoTask, NoBox, Procs

(* The parts of TypeInv, by what they speak of. *)
GoroutineType ==
    /\ pc \in [Procs -> Steps] /\ task \in [Procs -> TaskAt(nextId)]
    /\ RunInv

ContainerType ==
    nextId \in Nat /\ box \in BoxAt(nextId) /\ (box.id = 0 => box = NoBox)

WorldType ==
    /\ domain \in Domains /\ phase \in {"boot", "up"} /\ disturbed \in BOOLEAN
    /\ routes \subseteq Networks /\ saved \in Tokens \cup {NoToken}
    /\ reported \in [Endpoints -> {"none", "active", "error", "disabled"}]
    /\ answer.ensure \in Answers /\ answer.doctor \in Answers
    /\ commands \in 0 .. MaxCommands /\ faults \in 0 .. MaxFaults /\ crashes \in 0 .. MaxCrashes

(* A goroutine that is idle has no task. *)
LEMMA IdleFacts ==
    ASSUME RunInv
    PROVE  \A p \in Procs : (pc[p] = "idle" <=> task[p] = NoTask) /\ (pc[p] = "idle" <=> task[p].kind = "none")
<1> SUFFICES ASSUME NEW p \in Procs
             PROVE  (pc[p] = "idle" <=> task[p] = NoTask) /\ (pc[p] = "idle" <=> task[p].kind = "none")
  OBVIOUS
<1>1. /\ task[p].kind = "none" => task[p] = NoTask
      /\ pc[p] \in Path(task[p].kind) /\ task[p].kind \in KindsIn(domain)
  BY DEF RunInv
<1>2. pc[p] = "idle" <=> task[p].kind = "none"
  BY <1>1 DEF Path, KindsIn, Makes, Ends
<1> QED BY <1>1, <1>2, TaskFacts

(* TypeInv is the conjunction of its parts. *)
LEMMA TypeParts == TypeInv <=> GoroutineType /\ ContainerType /\ WorldType
<1>1. RunInv => \A p \in Procs : pc[p] = "idle" <=> task[p] = NoTask
  BY IdleFacts
<1> QED BY <1>1 DEF TypeInv, TypeOK, GoroutineType, ContainerType, WorldType, Steps, TaskAt, BoxAt

(* The same in the next state. *)
LEMMA TypePartsNext == GoroutineType' /\ ContainerType' /\ WorldType' => TypeInv'
BY TypeParts, PTL

(* A goroutine takes a step of its task. *)
LEMMA StepType ==
    ASSUME TypeInv, NEW p \in Procs, NEW to \in Steps \ {"idle"}, NEW t \in TaskAt(nextId'), Moved(p, to, t),
           nextId' \in {nextId, nextId + 1},
           t.kind = task[p].kind, t.ep = task[p].ep, t.token = task[p].token, pc[p] # "idle",
           to \in Path(t.kind), to \in {"start", "connect"} => t.id # 0, UNCHANGED <<domain, phase>>
    PROVE  GoroutineType'
<1>0. GoroutineType /\ ContainerType
  BY TypeParts
<1>1. task \in [Procs -> TaskAt(nextId')]
  BY <1>0, TaskFacts DEF GoroutineType, ContainerType
<1>2. pc' \in [Procs -> Steps] /\ task' \in [Procs -> TaskAt(nextId')]
  BY <1>0, <1>1 DEF GoroutineType, Moved
<1>3. /\ pc'[p] = to /\ task'[p] = t
      /\ \A q \in Procs : q # p => pc'[q] = pc[q] /\ task'[q] = task[q]
  BY MovedFacts
<1>4. t.kind # "none"
  BY <1>0, IdleFacts DEF GoroutineType
<1>5. pc'[Main] = "idle" <=> phase = "up"
  BY <1>0, <1>3, TaskFacts DEF GoroutineType, RunInv
<1>6. phase = "boot" => \A q \in Workers : pc'[q] = "idle"
  BY <1>0, <1>3, TaskFacts DEF GoroutineType, RunInv
<1>7. ASSUME NEW q \in Procs
      PROVE  /\ task'[q].kind \in KindsIn(domain) /\ pc'[q] \in Path(task'[q].kind)
             /\ task'[q].kind = "none" => task'[q] = NoTask
             /\ pc'[q] \in {"start", "connect"} => task'[q].id # 0
             /\ task'[q].kind \in (IF q = Main THEN BootKinds ELSE CommandKinds)
             /\ task'[q].kind = "platform" => task'[q].token # NoToken
             /\ task'[q].kind \in {"named", "disable"} <=> task'[q].ep # NoEndpoint
  <2>1. CASE q = p
    BY <1>0, <1>3, <1>4, <2>1 DEF GoroutineType, RunInv
  <2>2. CASE q # p
    BY <1>0, <1>3, <2>2 DEF GoroutineType, RunInv
  <2> QED BY <2>1, <2>2
<1>8. RunInv'
  BY <1>5, <1>6, <1>7 DEF RunInv
<1> QED BY <1>2, <1>8 DEF GoroutineType

-----------------------------------------------------------------------------
(* What each call to Docker may do, with the goroutine's step spelled out. *)

Call(p) ==
    \/ CheckACME(p) \/ Find(p) \/ StopAndRemove(p) \/ Evict(p) \/ PullImage(p)
    \/ Create(p) \/ Start(p) \/ ConnectNetwork(p)

(* A call changes the container, the goroutine and, if it fails, faults. *)
LEMMA CallFacts ==
    ASSUME TypeInv, NEW p \in Procs, Call(p)
    PROVE  /\ UNCHANGED <<domain, routes, saved, reported, answer, phase, commands, crashes>>
           /\ disturbed' = (disturbed \/ (faults' # faults /\ Harmful))
           /\ faults' = faults \/ (faults' = faults + 1 /\ faults < MaxFaults)
           /\ pc[p] # "idle"
<1>1. disturbed \in BOOLEAN /\ faults \in Nat
  BY TypeParts DEF WorldType
<1>2. UNCHANGED <<domain, routes, saved, reported, answer, phase, commands, crashes>> /\ pc[p] # "idle"
  BY DEF Call, CheckACME, Find, StopAndRemove, Evict, PullImage, Create, Start, ConnectNetwork, Keep, worldVars
<1>3. faults' = faults \/ (faults' = faults + 1 /\ faults < MaxFaults)
  BY DEF Call, CheckACME, Find, StopAndRemove, Evict, PullImage, Create, Start, ConnectNetwork, Fault
<1>4. NoteFault \/ UNCHANGED <<disturbed, faults>>
  BY DEF Call, CheckACME, Find, StopAndRemove, Evict, PullImage, Create, Start, ConnectNetwork
<1>5. disturbed' = (disturbed \/ (faults' # faults /\ Harmful))
  BY <1>1, <1>4 DEF NoteFault
<1> QED BY <1>2, <1>3, <1>5

(* A goroutine that keeps its local variables. *)
LEMMA MovedSame ==
    ASSUME TypeInv, NEW p \in Procs, NEW to, Go(p, to), task' = task
    PROVE  Moved(p, to, task[p])
BY DEF Moved, Go, TypeInv, TypeOK

(* HasACME. *)
LEMMA CheckOutcome ==
    ASSUME TypeInv, NEW p \in Procs, CheckACME(p)
    PROVE  /\ pc[p] = "check" /\ UNCHANGED <<box, nextId>>
           /\ \/ Moved(p, "find", task[p])
              \/ box.running /\ Moved(p, "succeeded", task[p])
BY MovedSame DEF CheckACME

(* FindContainerByLabel and ContainerInspect. *)
LEMMA FindOutcome ==
    ASSUME TypeInv, NEW p \in Procs, Find(p)
    PROVE  /\ pc[p] = "find" /\ UNCHANGED <<box, nextId>>
           /\ \/ /\ box.running /\ faults' = faults
                 /\ Moved(p, FoundNext(task[p].kind), [task[p] EXCEPT !.id = box.id, !.nets = NetsToConnect(task[p])])
              \/ /\ ~box.running /\ faults' = faults
                 /\ Moved(p, NotFoundNext(task[p].kind), task[p])
              \/ /\ box.running /\ faults' # faults /\ task[p].kind = "acme"
                 /\ Moved(p, "remove", [task[p] EXCEPT !.id = box.id])
              \/ faults' # faults /\ Moved(p, "failed", task[p])
<1>1. faults \in Nat /\ task \in [Procs -> TaskAt(nextId)]
  BY TypeParts DEF WorldType, GoroutineType
<1>2. pc[p] = "find" /\ UNCHANGED <<box, nextId>>
  BY DEF Find
<1>3. ASSUME box.running, task' = [task EXCEPT ![p].id = box.id, ![p].nets = NetsToConnect(task[p])],
             Go(p, FoundNext(task[p].kind))
      PROVE  Moved(p, FoundNext(task[p].kind), [task[p] EXCEPT !.id = box.id, !.nets = NetsToConnect(task[p])])
  <2> HIDE DEF NetsToConnect, FoundNext
  <2> QED BY <1>1, <1>3 DEF Moved, Go
<1>4. ASSUME task' = [task EXCEPT ![p].id = box.id], Go(p, "remove")
      PROVE  Moved(p, "remove", [task[p] EXCEPT !.id = box.id])
  BY <1>1, <1>4 DEF Moved, Go
<1>5. Fault => faults' # faults
  BY <1>1 DEF Fault
<1> QED BY <1>2, <1>3, <1>4, <1>5, MovedSame DEF Find

RemovedNext(kind, ok) ==
    CASE kind = "acme" -> IF ok THEN "pull" ELSE "failed"
      [] kind = "platform" -> "evict"
      [] OTHER -> "succeeded"

(* StopAndRemove. *)
LEMMA RemoveOutcome ==
    ASSUME TypeInv, NEW p \in Procs, StopAndRemove(p)
    PROVE  /\ pc[p] = "remove" /\ nextId' = nextId
           /\ \/ /\ box.id = task[p].id /\ box' = NoBox /\ faults' = faults
                 /\ Moved(p, RemovedNext(task[p].kind, TRUE), task[p])
              \/ /\ box.id # task[p].id /\ box' = box /\ faults' = faults
                 /\ Moved(p, RemovedNext(task[p].kind, FALSE), task[p])
              \/ /\ box' = [box EXCEPT !.running = FALSE] /\ faults' # faults
                 /\ Moved(p, RemovedNext(task[p].kind, FALSE), task[p])
<1>1. faults \in Nat
  BY TypeParts DEF WorldType
<1>2. Fault => faults' # faults
  BY <1>1 DEF Fault
<1>3. /\ pc[p] = "remove" /\ UNCHANGED <<nextId, task>>
      /\ \/ box.id = task[p].id /\ box' = NoBox /\ Go(p, RemovedNext(task[p].kind, TRUE)) /\ UNCHANGED faults
         \/ box.id # task[p].id /\ UNCHANGED box /\ Go(p, RemovedNext(task[p].kind, FALSE)) /\ UNCHANGED faults
         \/ /\ box.id = task[p].id /\ Fault
            /\ box' = [box EXCEPT !.running = FALSE]
            /\ Go(p, RemovedNext(task[p].kind, FALSE))
  BY DEF StopAndRemove, RemovedNext
<1> QED BY <1>2, <1>3, MovedSame

(* ContainerRemove by name. *)
LEMMA EvictOutcome ==
    ASSUME TypeInv, NEW p \in Procs, Evict(p)
    PROVE  /\ pc[p] = "evict" /\ nextId' = nextId /\ Moved(p, "pull", task[p])
           /\ (box' = NoBox /\ faults' = faults) \/ (box' = box /\ faults' # faults)
<1>1. faults \in Nat
  BY TypeParts DEF WorldType
<1> QED BY <1>1, MovedSame DEF Evict, Fault

(* EnsureNetwork and PullImage. *)
LEMMA PullOutcome ==
    ASSUME TypeInv, NEW p \in Procs, PullImage(p)
    PROVE  /\ pc[p] = "pull" /\ UNCHANGED <<box, nextId>>
           /\ (Moved(p, "create", task[p]) /\ faults' = faults) \/ (Moved(p, "failed", task[p]) /\ faults' # faults)
<1>1. faults \in Nat
  BY TypeParts DEF WorldType
<1> QED BY <1>1, MovedSame DEF PullImage, Fault

(* ContainerCreate. *)
LEMMA CreateOutcome ==
    ASSUME TypeInv, NEW p \in Procs, Create(p)
    PROVE  /\ pc[p] = "create" /\ faults' = faults
           /\ \/ /\ box = NoBox /\ nextId' = nextId + 1
                 /\ box' = [NoBox EXCEPT !.id = nextId + 1, !.acme = (task[p].kind = "acme"), !.token = task[p].token]
                 /\ Moved(p, "start", [task[p] EXCEPT !.id = nextId + 1])
              \/ /\ box # NoBox /\ UNCHANGED <<box, nextId>>
                 /\ Moved(p, "failed", task[p])
<1>1. task \in [Procs -> TaskAt(nextId)]
  BY TypeParts DEF GoroutineType
<1>2. ASSUME task' = [task EXCEPT ![p].id = nextId + 1], Go(p, "start")
      PROVE  Moved(p, "start", [task[p] EXCEPT !.id = nextId + 1])
  BY <1>1, <1>2 DEF Moved, Go
<1> QED BY <1>2, MovedSame DEF Create

(* ContainerStart. *)
LEMMA StartOutcome ==
    ASSUME TypeInv, NEW p \in Procs, Start(p)
    PROVE  /\ pc[p] = "start" /\ nextId' = nextId
           /\ \/ /\ box.id = task[p].id /\ box' = [box EXCEPT !.running = TRUE] /\ faults' = faults
                 /\ Moved(p, IF task[p].kind = "acme" THEN "connect" ELSE "succeeded", task[p])
              \/ /\ box.id # task[p].id /\ box' = box /\ faults' = faults
                 /\ Moved(p, "failed", task[p])
              \/ box' = NoBox /\ faults' # faults /\ Moved(p, "failed", task[p])
<1>1. faults \in Nat
  BY TypeParts DEF WorldType
<1>2. Fault => faults' # faults
  BY <1>1 DEF Fault
<1> QED BY <1>2, MovedSame DEF Start

(* ConnectToNetworkIfNeeded. *)
LEMMA ConnectOutcome ==
    ASSUME TypeInv, NEW p \in Procs, ConnectNetwork(p)
    PROVE  /\ pc[p] = "connect" /\ nextId' = nextId
           /\ \/ task[p].nets = {} /\ box' = box /\ faults' = faults /\ Moved(p, "succeeded", task[p])
              \/ \E n \in task[p].nets :
                   /\ Moved(p, "connect", [task[p] EXCEPT !.nets = task[p].nets \ {n}])
                   /\ \/ box.id = task[p].id /\ box' = [box EXCEPT !.nets = box.nets \cup {n}] /\ faults' = faults
                      \/ box.id # task[p].id /\ box' = box /\ faults' = faults
                      \/ box' = box /\ faults' # faults
<1>1. faults \in Nat /\ task \in [Procs -> TaskAt(nextId)] /\ pc \in [Procs -> Steps]
  BY TypeParts DEF WorldType, GoroutineType
<1>2. Fault => faults' # faults
  BY <1>1 DEF Fault
<1>3. pc[p] = "connect" /\ nextId' = nextId
  BY DEF ConnectNetwork
<1>4. ASSUME NEW n \in task[p].nets, task' = [task EXCEPT ![p].nets = @ \ {n}], pc' = pc
      PROVE  Moved(p, "connect", [task[p] EXCEPT !.nets = task[p].nets \ {n}])
  BY <1>1, <1>3, <1>4 DEF Moved
<1>5. CASE task[p].nets = {} /\ Go(p, "succeeded") /\ UNCHANGED <<box, task, faults>>
  BY <1>3, <1>5, MovedSame
<1>6. ASSUME NEW n \in task[p].nets, task' = [task EXCEPT ![p].nets = @ \ {n}], pc' = pc,
             \/ /\ box.id = task[p].id
                /\ box' = [box EXCEPT !.nets = @ \cup {n}]
                /\ UNCHANGED faults
             \/ box.id # task[p].id /\ UNCHANGED <<box, faults>>
             \/ box.id = task[p].id /\ Fault /\ UNCHANGED box
      PROVE  \E m \in task[p].nets :
                   /\ Moved(p, "connect", [task[p] EXCEPT !.nets = task[p].nets \ {m}])
                   /\ \/ box.id = task[p].id /\ box' = [box EXCEPT !.nets = box.nets \cup {m}] /\ faults' = faults
                      \/ box.id # task[p].id /\ box' = box /\ faults' = faults
                      \/ box' = box /\ faults' # faults
  BY <1>2, <1>4, <1>6
<1> QED BY <1>3, <1>5, <1>6 DEF ConnectNetwork

(* The tasks under way lead where their kind allows. *)
LEMMA PathFacts ==
    ASSUME TypeInv, NEW p \in Procs, pc[p] # "idle"
    PROVE  /\ task[p] \in TaskAt(nextId) /\ task[p].kind \in Kinds \ {"none"} /\ pc[p] \in Path(task[p].kind)
           /\ FoundNext(task[p].kind) \in (Path(task[p].kind) \cap Steps) \ {"idle", "start"}
           /\ NotFoundNext(task[p].kind) \in (Path(task[p].kind) \cap Steps) \ {"idle", "start", "connect"}
           /\ "failed" \in Path(task[p].kind) /\ "succeeded" \in Path(task[p].kind)
           /\ pc[p] = "remove" => task[p].kind \in {"acme", "platform", "disable"}
           /\ pc[p] = "evict" => task[p].kind \in {"platform", "named"}
           /\ pc[p] \in Makes => task[p].kind \in {"traefik", "acme", "platform", "named"}
           /\ pc[p] = "connect" => task[p].kind \in {"attach", "reattach", "acme"}
           /\ pc[p] = "check" => task[p].kind = "acme"
<1>1. task[p] \in TaskAt(nextId) /\ task[p].kind \in Kinds /\ pc[p] \in Path(task[p].kind)
  BY TypeParts DEF GoroutineType, RunInv, TaskAt
<1>2. task[p].kind # "none"
  BY IdleFacts DEF TypeInv
<1> HIDE DEF TypeInv
<1> QED BY <1>1, <1>2 DEF Kinds, Path, FoundNext, NotFoundNext, Makes, Ends, Steps

(* Every call keeps the types. *)
LEMMA CallType == ASSUME TypeInv, NEW p \in Procs, Call(p) PROVE TypeInv'
<1>0. GoroutineType /\ ContainerType /\ WorldType
  BY TypeParts
<1>1. /\ UNCHANGED <<domain, routes, saved, reported, answer, phase, commands, crashes>>
      /\ disturbed' = (disturbed \/ (faults' # faults /\ Harmful))
      /\ faults' = faults \/ (faults' = faults + 1 /\ faults < MaxFaults)
      /\ pc[p] # "idle"
  BY CallFacts
<1>2. faults' \in 0 .. MaxFaults
  BY <1>0, <1>1, EdgeConstants DEF WorldType
<1>3. WorldType'
  BY <1>0, <1>1, <1>2 DEF WorldType
<1>4. /\ task[p] \in TaskAt(nextId) /\ task[p].kind \in Kinds \ {"none"} /\ pc[p] \in Path(task[p].kind)
      /\ FoundNext(task[p].kind) \in (Path(task[p].kind) \cap Steps) \ {"idle", "start"}
      /\ NotFoundNext(task[p].kind) \in (Path(task[p].kind) \cap Steps) \ {"idle", "start", "connect"}
      /\ "failed" \in Path(task[p].kind) /\ "succeeded" \in Path(task[p].kind)
  BY <1>1, PathFacts
<1>5. ASSUME NEW to \in (Path(task[p].kind) \cap Steps) \ {"idle"}, Moved(p, to, task[p]), nextId' = nextId,
             to \in {"start", "connect"} => task[p].id # 0
      PROVE  GoroutineType'
  BY <1>1, <1>4, <1>5, StepType
<1>6. CASE CheckACME(p)
  <2>1. {"find", "succeeded"} \subseteq Path(task[p].kind) \cap Steps
    BY <1>1, <1>4, <1>6, PathFacts, CheckOutcome DEF Path, Ends, Steps
  <2>2. GoroutineType'
    BY <1>5, <1>6, <2>1, CheckOutcome
  <2> QED BY <1>0, <1>3, <1>6, <2>2, CheckOutcome, TypePartsNext DEF ContainerType
<1>7. CASE Find(p)
  <2>0. ContainerType' /\ nextId' = nextId /\ box \in BoxAt(nextId) /\ box.nets \subseteq Networks /\ box.id \in 0 .. nextId
    BY <1>0, <1>7, FindOutcome DEF ContainerType, BoxAt
  <2>1. NetsToConnect(task[p]) \in SUBSET Networks
    BY <1>0, <1>4, <2>0 DEF NetsToConnect, WorldType, TaskAt
  <2>2. box.running => box.id # 0
    BY <1>0, TaskFacts DEF ContainerType
  <2>3. CASE box.running /\ Moved(p, FoundNext(task[p].kind), [task[p] EXCEPT !.id = box.id, !.nets = NetsToConnect(task[p])])
    <3> DEFINE t == [task[p] EXCEPT !.id = box.id, !.nets = NetsToConnect(task[p])]
               to == FoundNext(task[p].kind)
    <3>1. /\ t \in TaskAt(nextId') /\ t.kind = task[p].kind /\ t.ep = task[p].ep /\ t.token = task[p].token
          /\ t.id = box.id
      BY <1>4, <2>0, <2>1 DEF TaskAt
    <3>2. to \in Path(task[p].kind) /\ to \in Steps \ {"idle"} /\ Moved(p, to, t)
      BY <1>4, <2>3
    <3> HIDE DEF t, to
    <3>3. GoroutineType'
      BY <1>1, <2>0, <2>2, <2>3, <3>1, <3>2, StepType
    <3> QED BY <1>3, <2>0, <3>3, TypePartsNext
  <2>4. CASE Moved(p, NotFoundNext(task[p].kind), task[p]) \/ Moved(p, "failed", task[p])
    <3>1. GoroutineType'
      BY <1>4, <1>5, <2>0, <2>4 DEF Steps
    <3> QED BY <1>3, <2>0, <3>1, TypePartsNext
  <2>5. CASE task[p].kind = "acme" /\ Moved(p, "remove", [task[p] EXCEPT !.id = box.id])
    <3> DEFINE t == [task[p] EXCEPT !.id = box.id]
    <3>1. /\ t \in TaskAt(nextId') /\ t.kind = task[p].kind /\ t.ep = task[p].ep /\ t.token = task[p].token
      BY <1>4, <2>0 DEF TaskAt
    <3>2. "remove" \in Path(t.kind) /\ "remove" \in Steps \ {"idle"}
      BY <2>5, <3>1 DEF Path, Steps
    <3>3. Moved(p, "remove", t)
      BY <2>5
    <3> HIDE DEF t
    <3>4. GoroutineType'
      BY <1>1, <2>0, <3>1, <3>2, <3>3, StepType
    <3> QED BY <1>3, <2>0, <3>4, TypePartsNext
  <2> QED BY <1>7, <2>3, <2>4, <2>5, FindOutcome
<1>8. CASE StopAndRemove(p)
  <2>1. /\ nextId' = nextId /\ task[p].kind \in {"acme", "platform", "disable"}
        /\ \E ok \in BOOLEAN : Moved(p, RemovedNext(task[p].kind, ok), task[p])
        /\ box' = NoBox \/ box' = box \/ box' = [box EXCEPT !.running = FALSE]
    BY <1>1, <1>8, PathFacts, RemoveOutcome
  <2>2. \A ok \in BOOLEAN : RemovedNext(task[p].kind, ok) \in (Path(task[p].kind) \cap Steps) \ {"idle", "start", "connect"}
    BY <2>1 DEF RemovedNext, Path, Makes, Ends, Steps
  <2>3. GoroutineType'
    BY <1>5, <2>1, <2>2
  <2>4. ContainerType'
    <3>1. box \in BoxAt(nextId) /\ NoBox \in BoxAt(nextId) /\ (box.id = 0 => ~box.running)
      BY <1>0, TaskFacts DEF ContainerType
    <3>2. [box EXCEPT !.running = FALSE] \in BoxAt(nextId)
      BY <3>1 DEF BoxAt
    <3>3. box.id = 0 => [box EXCEPT !.running = FALSE] = NoBox
      <4>0. \A r \in BoxAt(0) : ~r.running => [r EXCEPT !.running = FALSE] = r
        BY DEF BoxAt
      <4>1. [NoBox EXCEPT !.running = FALSE] = NoBox
        BY <4>0, TaskFacts
      <4> QED BY <1>0, <4>1 DEF ContainerType
    <3>4. [box EXCEPT !.running = FALSE].id = box.id
      BY <3>1 DEF BoxAt
    <3> QED BY <1>0, <2>1, <3>1, <3>2, <3>3, <3>4 DEF ContainerType
  <2> QED BY <1>3, <2>3, <2>4, TypePartsNext
<1>9. CASE Evict(p) \/ PullImage(p)
  <2>1. /\ nextId' = nextId /\ task[p].kind \in {"traefik", "acme", "platform", "named"}
        /\ Moved(p, "pull", task[p]) \/ Moved(p, "create", task[p]) \/ Moved(p, "failed", task[p])
        /\ box' = NoBox \/ box' = box
    BY <1>1, <1>9, PathFacts, EvictOutcome, PullOutcome DEF Makes
  <2>2. {"pull", "create", "failed"} \subseteq Path(task[p].kind) \cap Steps
    BY <2>1 DEF Path, Makes, Ends, Steps
  <2>3. GoroutineType'
    BY <1>5, <2>1, <2>2
  <2>4. ContainerType'
    BY <1>0, <2>1, TaskFacts DEF ContainerType
  <2> QED BY <1>3, <2>3, <2>4, TypePartsNext
<1>10. CASE Create(p)
  <2>1. task[p].kind \in {"traefik", "acme", "platform", "named"}
    BY <1>1, <1>10, PathFacts, CreateOutcome DEF Makes
  <2>2. CASE /\ nextId' = nextId + 1
             /\ box' = [NoBox EXCEPT !.id = nextId + 1, !.acme = (task[p].kind = "acme"), !.token = task[p].token]
             /\ Moved(p, "start", [task[p] EXCEPT !.id = nextId + 1])
    <3> DEFINE t == [task[p] EXCEPT !.id = nextId + 1]
    <3>0. nextId \in Nat /\ nextId + 1 \in 0 .. nextId' /\ nextId + 1 # 0 /\ task[p] \in TaskAt(nextId')
      BY <1>0, <1>4, <2>2, TaskFacts DEF ContainerType
    <3>1. /\ t \in TaskAt(nextId') /\ t.kind = task[p].kind /\ t.ep = task[p].ep /\ t.token = task[p].token
          /\ t.id # 0
      BY <3>0 DEF TaskAt
    <3>2. "start" \in Path(t.kind) /\ "start" \in Steps \ {"idle"}
      BY <2>1, <3>1 DEF Path, Makes, Steps
    <3>3. Moved(p, "start", t)
      BY <2>2
    <3>4. ContainerType'
      <4>1. task[p].token \in Tokens \cup {NoToken}
        BY <1>4 DEF TaskAt
      <4>2. box' = [id |-> nextId + 1, running |-> FALSE, acme |-> (task[p].kind = "acme"),
                    token |-> task[p].token, nets |-> {}]
        BY <2>2 DEF NoBox
      <4>3. box' \in BoxAt(nextId') /\ box'.id = nextId + 1
        BY <3>0, <4>1, <4>2 DEF BoxAt
      <4> QED BY <2>2, <3>0, <4>3 DEF ContainerType
    <3> HIDE DEF t
    <3>5. GoroutineType'
      BY <1>1, <2>2, <3>0, <3>1, <3>2, <3>3, StepType
    <3> QED BY <1>3, <3>4, <3>5, TypePartsNext
  <2>3. CASE UNCHANGED <<box, nextId>> /\ Moved(p, "failed", task[p])
    <3>1. GoroutineType'
      BY <1>4, <1>5, <2>3 DEF Steps
    <3> QED BY <1>0, <1>3, <2>3, <3>1, TypePartsNext DEF ContainerType
  <2> QED BY <1>10, <2>2, <2>3, CreateOutcome
<1>11. CASE Start(p)
  <2>1. nextId' = nextId /\ task[p].kind \in {"traefik", "acme", "platform", "named"} /\ task[p].id # 0
    BY <1>0, <1>1, <1>11, PathFacts, StartOutcome DEF Makes, GoroutineType, RunInv
  <2>2. {"connect", "succeeded", "failed"} \subseteq Steps /\ (task[p].kind = "acme" => "connect" \in Path(task[p].kind))
    BY DEF Path, Steps
  <2>3. GoroutineType'
    BY <1>4, <1>5, <1>11, <2>1, <2>2, StartOutcome
  <2>4. \/ box.id = task[p].id /\ box' = [box EXCEPT !.running = TRUE]
        \/ box' = box \/ box' = NoBox
    BY <1>11, StartOutcome
  <2>5. ContainerType'
    BY <1>0, <2>1, <2>4, TaskFacts DEF ContainerType, BoxAt
  <2> QED BY <1>3, <2>3, <2>5, TypePartsNext
<1>12. CASE ConnectNetwork(p)
  <2>1. /\ nextId' = nextId /\ task[p].kind \in {"attach", "reattach", "acme"} /\ task[p].id # 0
    BY <1>0, <1>1, <1>12, PathFacts, ConnectOutcome DEF GoroutineType, RunInv
  <2>2. CASE box' = box /\ Moved(p, "succeeded", task[p])
    <3>1. GoroutineType'
      BY <1>4, <1>5, <2>1, <2>2 DEF Steps
    <3> QED BY <1>0, <1>3, <2>1, <2>2, <3>1, TypePartsNext DEF ContainerType
  <2>3. ASSUME NEW n \in task[p].nets, Moved(p, "connect", [task[p] EXCEPT !.nets = task[p].nets \ {n}]),
               (box.id = task[p].id /\ box' = [box EXCEPT !.nets = box.nets \cup {n}]) \/ box' = box
        PROVE  TypeInv'
    <3> DEFINE t == [task[p] EXCEPT !.nets = task[p].nets \ {n}]
    <3>1. /\ t \in TaskAt(nextId') /\ t.kind = task[p].kind /\ t.ep = task[p].ep /\ t.token = task[p].token
          /\ t.id # 0
      BY <1>4, <2>1 DEF TaskAt
    <3>2. "connect" \in Path(t.kind) /\ "connect" \in Steps \ {"idle"}
      BY <2>1, <3>1 DEF Path, Steps
    <3>3. Moved(p, "connect", t)
      BY <2>3
    <3>4. n \in Networks
      BY <1>4, <2>3 DEF TaskAt
    <3>5. ContainerType'
      BY <1>0, <2>1, <2>3, <3>4 DEF ContainerType, BoxAt
    <3> HIDE DEF t
    <3>6. GoroutineType'
      BY <1>1, <2>1, <3>1, <3>2, <3>3, StepType
    <3> QED BY <1>3, <3>5, <3>6, TypePartsNext
  <2> QED BY <1>12, <2>2, <2>3, ConnectOutcome
<1> QED BY <1>6, <1>7, <1>8, <1>9, <1>10, <1>11, <1>12 DEF Call

(* What a provider answers is an answer. *)
LEMMA AnswerTypes ==
    ASSUME NEW provider, NEW w \in Worlds
    PROVE  HandleEnsure(provider, w) \in Answers /\ HandleDoctor(provider, w) \in Answers
<1>1. \A s \in {"active", "provisioning", "degraded", "disabled", "error"} :
      \A v \in {"", "agent", "public"}, r \in {"", "unknown", "healthy", "degraded"},
         q \in {"", "unknown", "not_applicable", "healthy", "degraded"} : Status(s, v, r, q) \in Answers
  BY DEF Status, Answers
<1>2. Error \in Answers
  BY <1>1 DEF Error
<1>3. \A http : Probe(http) \in {"healthy", "degraded"}
  BY DEF Probe
<1>4. LANEnsure(w) \in Answers /\ LANDoctor(w) \in Answers
  BY <1>1, <1>2, <1>3 DEF LANEnsure, LANDoctor
<1>5. BYOProxyEnsure(w) \in Answers /\ BYOProxyDoctor(w) \in Answers
  BY <1>1, <1>2, <1>3 DEF BYOProxyEnsure, BYOProxyDoctor
<1>0. \A up \in BOOLEAN, out \in BOOLEAN :
        Status(IF up THEN "active" ELSE "degraded", IF out THEN "public" ELSE "agent",
               Probe(w.route), Probe(w.public)) \in Answers
  <2> SUFFICES ASSUME NEW up \in BOOLEAN, NEW out \in BOOLEAN
               PROVE  Status(IF up THEN "active" ELSE "degraded", IF out THEN "public" ELSE "agent",
                             Probe(w.route), Probe(w.public)) \in Answers
    OBVIOUS
  <2>1. CASE up /\ out
    BY <1>3, <2>1 DEF Status, Answers
  <2>2. CASE up /\ ~out
    BY <1>3, <2>2 DEF Status, Answers
  <2>3. CASE ~up /\ out
    BY <1>3, <2>3 DEF Status, Answers
  <2>4. CASE ~up /\ ~out
    BY <1>3, <2>4 DEF Status, Answers
  <2> QED BY <2>1, <2>2, <2>3, <2>4
<1>6. DirectEnsure(w) \in Answers /\ DirectDoctor(w) \in Answers
  <2> DEFINE both == Healthy(w.route) /\ Healthy(w.public)
  <2>1. DirectDoctor(w) =
          IF ~(w.hostname /\ w.dns)
          THEN Status("error", "agent", "", "")
          ELSE Status(IF both /\ w.port80 /\ w.port443 THEN "active" ELSE "degraded",
                      IF both THEN "public" ELSE "agent", Probe(w.route), Probe(w.public))
    BY DEF DirectDoctor
  <2>2. both \in BOOLEAN /\ (both /\ w.port80 /\ w.port443) \in BOOLEAN
    OBVIOUS
  <2> HIDE DEF both
  <2>3. DirectDoctor(w) \in Answers
    BY <1>0, <1>1, <2>1, <2>2
  <2> QED BY <1>1, <1>2, <2>3 DEF DirectEnsure
<1>7. TailscaleEnsure(w) \in Answers /\ TailscaleDoctor(w) \in Answers
  BY <1>1, <1>2, <1>3 DEF TailscaleEnsure, TailscaleDoctor
<1>8. CFTunnelEnsure(w) \in Answers /\ CFTunnelDoctor(w) \in Answers
  <2> DEFINE both == Healthy(w.route) /\ Healthy(w.public)
  <2>1. CFTunnelDoctor(w) =
          IF ~w.token \/ w.container = "absent" THEN Error
          ELSE Status(IF both THEN "active" ELSE "degraded", IF both THEN "public" ELSE "agent",
                      Probe(w.route), Probe(w.public))
    BY DEF CFTunnelDoctor
  <2>2. both \in BOOLEAN
    OBVIOUS
  <2> HIDE DEF both
  <2>3. CFTunnelDoctor(w) \in Answers
    BY <1>0, <1>2, <2>1, <2>2
  <2> QED BY <1>1, <1>2, <2>3 DEF CFTunnelEnsure
<1> QED BY <1>2, <1>4, <1>5, <1>6, <1>7, <1>8 DEF HandleEnsure, HandleDoctor

(* The status a tunnel endpoint's command ends with. *)
LEMMA TunnelStatus ==
    ASSUME NEW p
    PROVE  /\ HandleEnsure("public_tunnel_cloudflare", TunnelWorld(p)).status =
                 IF pc[p] = "succeeded" THEN "active" ELSE "error"
           /\ HandleDisable("public_tunnel_cloudflare", TunnelWorld(p)).status = "disabled"
BY DEF HandleEnsure, HandleDisable, CFTunnelEnsure, TunnelWorld, Status, Error, Disabled

-----------------------------------------------------------------------------
(* Commands, ends and starts *)

(* A received command marks the run as disturbed if it may hurt another. *)
Noted(t, clash) ==
    disturbed' = (disturbed \/ clash \/ faults' # faults \/ \E q \in Workers : Collide(task[q], t))

(* The tasks of commands. *)
LEMMA NewTasks ==
    /\ \A token \in Tokens : LET t == [NoTask EXCEPT !.kind = "platform", !.token = token] IN
         t \in TaskAt(0) /\ t.kind = "platform" /\ t.token = token /\ t.ep = NoEndpoint
    /\ \A n \in Networks : LET t == [NoTask EXCEPT !.kind = "attach", !.nets = {n}] IN
         t \in TaskAt(0) /\ t.kind = "attach" /\ t.nets = {n} /\ t.ep = NoEndpoint
    /\ LET t == [NoTask EXCEPT !.kind = "acme"] IN
         t \in TaskAt(0) /\ t.kind = "acme" /\ t.ep = NoEndpoint
    /\ \A e \in Endpoints : LET t == [NoTask EXCEPT !.kind = "named", !.ep = e] IN
         t \in TaskAt(0) /\ t.kind = "named" /\ t.ep = e
    /\ \A e \in Endpoints : LET t == [NoTask EXCEPT !.kind = "disable", !.ep = e] IN
         t \in TaskAt(0) /\ t.kind = "disable" /\ t.ep = e
    /\ LET t == [NoTask EXCEPT !.kind = "traefik"] IN
         t \in TaskAt(0) /\ t.kind = "traefik" /\ t.ep = NoEndpoint
    /\ LET t == [NoTask EXCEPT !.kind = "reattach"] IN
         t \in TaskAt(0) /\ t.kind = "reattach" /\ t.ep = NoEndpoint
<1>1. NoTask \in TaskAt(0) /\ NoTask.ep = NoEndpoint
  BY TaskFacts DEF NoTask
<1>2. \A r \in TaskAt(0), token \in Tokens :
        /\ [r EXCEPT !.kind = "platform", !.token = token] \in TaskAt(0)
        /\ [r EXCEPT !.kind = "platform", !.token = token].kind = "platform"
        /\ [r EXCEPT !.kind = "platform", !.token = token].token = token
        /\ [r EXCEPT !.kind = "platform", !.token = token].ep = r.ep
  BY DEF TaskAt, Kinds
<1>3. \A r \in TaskAt(0), n \in Networks :
        /\ [r EXCEPT !.kind = "attach", !.nets = {n}] \in TaskAt(0)
        /\ [r EXCEPT !.kind = "attach", !.nets = {n}].kind = "attach"
        /\ [r EXCEPT !.kind = "attach", !.nets = {n}].nets = {n}
        /\ [r EXCEPT !.kind = "attach", !.nets = {n}].ep = r.ep
  BY DEF TaskAt, Kinds
<1>4. \A r \in TaskAt(0), k \in {"acme", "traefik", "reattach"} :
        /\ [r EXCEPT !.kind = k] \in TaskAt(0) /\ [r EXCEPT !.kind = k].kind = k
        /\ [r EXCEPT !.kind = k].ep = r.ep
  BY DEF TaskAt, Kinds
<1>5. \A r \in TaskAt(0), e \in Endpoints, k \in {"named", "disable"} :
        /\ [r EXCEPT !.kind = k, !.ep = e] \in TaskAt(0)
        /\ [r EXCEPT !.kind = k, !.ep = e].kind = k /\ [r EXCEPT !.kind = k, !.ep = e].ep = e
  BY DEF TaskAt, Kinds
<1>6. \A token \in Tokens : LET t == [NoTask EXCEPT !.kind = "platform", !.token = token] IN
         t \in TaskAt(0) /\ t.kind = "platform" /\ t.token = token /\ t.ep = NoEndpoint
  BY <1>1, <1>2
<1>7. \A n \in Networks : LET t == [NoTask EXCEPT !.kind = "attach", !.nets = {n}] IN
         t \in TaskAt(0) /\ t.kind = "attach" /\ t.nets = {n} /\ t.ep = NoEndpoint
  BY <1>1, <1>3
<1>8. /\ LET t == [NoTask EXCEPT !.kind = "acme"] IN
           t \in TaskAt(0) /\ t.kind = "acme" /\ t.ep = NoEndpoint
      /\ LET t == [NoTask EXCEPT !.kind = "traefik"] IN
           t \in TaskAt(0) /\ t.kind = "traefik" /\ t.ep = NoEndpoint
      /\ LET t == [NoTask EXCEPT !.kind = "reattach"] IN
           t \in TaskAt(0) /\ t.kind = "reattach" /\ t.ep = NoEndpoint
  BY <1>1, <1>4
<1>9. \A e \in Endpoints : LET t == [NoTask EXCEPT !.kind = "named", !.ep = e] IN
         t \in TaskAt(0) /\ t.kind = "named" /\ t.ep = e
  BY <1>1, <1>5
<1>10. \A e \in Endpoints : LET t == [NoTask EXCEPT !.kind = "disable", !.ep = e] IN
         t \in TaskAt(0) /\ t.kind = "disable" /\ t.ep = e
  BY <1>1, <1>5
<1> QED BY <1>6, <1>7, <1>8, <1>9, <1>10, Zenon

(* What each command begins. *)
LEMMA CommandOutcome ==
    ASSUME TypeInv, NEW p \in Procs, Command(p)
    PROVE  /\ p # Main /\ phase = "up" /\ pc[p] = "idle" /\ commands' \in 0 .. MaxCommands
           /\ UNCHANGED <<domain, box, nextId, phase, reported, answer, crashes>>
           /\ faults' = faults \/ (faults' = faults + 1 /\ faults < MaxFaults)
           /\ \E clash \in BOOLEAN, t \in TaskAt(0), at \in {"check", "find"} :
                /\ Moved(p, at, t) /\ Noted(t, clash)
                /\ \/ /\ domain = "traefik" /\ t.kind = "acme" /\ at = "check" /\ t.ep = NoEndpoint
                      /\ UNCHANGED <<routes, saved>>
                   \/ /\ domain = "traefik" /\ t.kind = "attach" /\ at = "find" /\ t.ep = NoEndpoint
                      /\ routes' = routes \cup t.nets /\ UNCHANGED saved
                   \/ /\ domain = "platform" /\ t.kind = "platform" /\ at = "find" /\ t.token \in Tokens
                      /\ t.ep = NoEndpoint /\ (saved' = t.token \/ (saved' = saved /\ faults' # faults))
                      /\ UNCHANGED routes
                   \/ /\ domain = "tunnel" /\ t.kind = "named" /\ at = "find" /\ t.ep \in Endpoints
                      /\ UNCHANGED <<routes, saved>>
                   \/ /\ domain = "tunnel" /\ t.kind = "disable" /\ at = "find" /\ t.ep \in Endpoints
                      /\ UNCHANGED <<routes, saved>>
                      /\ clash = (\E f \in Endpoints \ {t.ep} : reported[f] = "active")
<1>0. faults \in Nat /\ commands \in 0 .. MaxCommands /\ MaxCommands \in Nat
  BY TypeParts, EdgeConstants DEF WorldType
<1>2. ASSUME NEW d, NEW t, NEW at, NEW clash, Receive(p, d, t, at, clash)
      PROVE  /\ p # Main /\ phase = "up" /\ pc[p] = "idle" /\ commands' \in 0 .. MaxCommands
             /\ UNCHANGED <<domain, box, nextId, phase, answer, crashes>>
             /\ domain = d /\ Moved(p, at, t) /\ Noted(t, clash)
  <2>1. commands' \in 0 .. MaxCommands
    BY <1>0, <1>2 DEF Receive
  <2>2. Moved(p, at, t)
    BY <1>2 DEF Receive, Begin, Go, Moved
  <2>3. Noted(t, clash)
    BY <1>2 DEF Receive, Noted
  <2> QED BY <1>2, <2>1, <2>2, <2>3 DEF Receive
<1>3. CASE EnsureDirect(p)
  <2> DEFINE t == [NoTask EXCEPT !.kind = "acme"]
  <2>1. Receive(p, "traefik", t, "check", FALSE) /\ UNCHANGED <<routes, saved, reported, faults>>
    BY <1>3 DEF EnsureDirect
  <2>2. t \in TaskAt(0) /\ t.kind = "acme" /\ t.ep = NoEndpoint
    BY NewTasks
  <2> HIDE DEF t
  <2> QED BY <1>2, <2>1, <2>2
<1>5. CASE \E n \in Networks : Attach(p, n)
  <2>1. PICK n \in Networks : Attach(p, n)
    BY <1>5
  <2> DEFINE t == [NoTask EXCEPT !.kind = "attach", !.nets = {n}]
  <2>2. Receive(p, "traefik", t, "find", FALSE) /\ routes' = routes \cup {n} /\ UNCHANGED <<saved, reported, faults>>
    BY <2>1 DEF Attach
  <2>3. t \in TaskAt(0) /\ t.kind = "attach" /\ t.nets = {n} /\ t.ep = NoEndpoint
    BY NewTasks
  <2> HIDE DEF t
  <2>4. routes' = routes \cup t.nets
    BY <2>2, <2>3
  <2> QED BY <1>2, <2>2, <2>3, <2>4
<1>6. CASE \E token \in Tokens : TunnelConfig(p, token)
  <2>1. PICK token \in Tokens : TunnelConfig(p, token)
    BY <1>6
  <2> DEFINE t == [NoTask EXCEPT !.kind = "platform", !.token = token]
  <2>2. /\ Receive(p, "platform", t, "find", FALSE) /\ UNCHANGED <<routes, reported>>
        /\ (saved' = token /\ faults' = faults) \/ (Fault /\ saved' = saved)
    BY <2>1 DEF TunnelConfig
  <2>3. t \in TaskAt(0) /\ t.kind = "platform" /\ t.token = token /\ t.ep = NoEndpoint
    BY NewTasks
  <2>4. faults' = faults \/ (faults' = faults + 1 /\ faults < MaxFaults /\ faults' # faults)
    BY <1>0, <2>2 DEF Fault
  <2>5. saved' = token \/ (saved' = saved /\ faults' # faults)
    BY <1>0, <2>2 DEF Fault
  <2> HIDE DEF t
  <2> QED BY <1>2, <2>2, <2>3, <2>4, <2>5
<1>7. CASE \E e \in Endpoints : EnsureTunnel(p, e)
  <2>1. PICK e \in Endpoints : EnsureTunnel(p, e)
    BY <1>7
  <2> DEFINE t == [NoTask EXCEPT !.kind = "named", !.ep = e]
  <2>2. Receive(p, "tunnel", t, "find", FALSE) /\ UNCHANGED <<routes, saved, reported, faults>>
    BY <2>1 DEF EnsureTunnel
  <2>3. t \in TaskAt(0) /\ t.kind = "named" /\ t.ep = e
    BY NewTasks
  <2> HIDE DEF t
  <2> QED BY <1>2, <2>2, <2>3
<1>8. CASE \E e \in Endpoints : DisableTunnel(p, e)
  <2>1. PICK e \in Endpoints : DisableTunnel(p, e)
    BY <1>8
  <2> DEFINE t == [NoTask EXCEPT !.kind = "disable", !.ep = e]
             clash == \E f \in Endpoints \ {e} : reported[f] = "active"
  <2>2. Receive(p, "tunnel", t, "find", clash) /\ UNCHANGED <<routes, saved, reported, faults>>
    BY <2>1 DEF DisableTunnel
  <2>3. t \in TaskAt(0) /\ t.kind = "disable" /\ t.ep = e
    BY NewTasks
  <2> HIDE DEF t
  <2>4. clash \in BOOLEAN /\ clash = (\E f \in Endpoints \ {t.ep} : reported[f] = "active")
    BY <2>3
  <2> HIDE DEF clash
  <2> QED BY <1>2, <2>2, <2>3, <2>4
<1> QED BY <1>3, <1>5, <1>6, <1>7, <1>8 DEF Command

(* A goroutine takes up a command, or ends one. *)
LEMMA CommandGoroutine ==
    ASSUME TypeInv, NEW p \in Procs, p # Main, phase = "up", NEW to \in Steps, NEW t \in TaskAt(nextId),
           Moved(p, to, t), UNCHANGED <<domain, phase, nextId>>,
           t.kind \in KindsIn(domain), t.kind \in CommandKinds, to \in Path(t.kind),
           t.kind = "none" => t = NoTask, to \notin {"start", "connect"},
           t.kind = "platform" => t.token # NoToken, t.kind \in {"named", "disable"} <=> t.ep # NoEndpoint
    PROVE  GoroutineType'
<1>0. GoroutineType
  BY TypeParts
<1>1. pc' \in [Procs -> Steps] /\ task' \in [Procs -> TaskAt(nextId')]
  BY <1>0 DEF GoroutineType, Moved
<1>2. /\ pc'[p] = to /\ task'[p] = t
      /\ \A q \in Procs : q # p => pc'[q] = pc[q] /\ task'[q] = task[q]
  BY MovedFacts
<1>3. pc'[Main] = "idle" <=> phase = "up"
  BY <1>0, <1>2, TaskFacts DEF GoroutineType, RunInv
<1>4. ASSUME NEW q \in Procs
      PROVE  /\ task'[q].kind \in KindsIn(domain) /\ pc'[q] \in Path(task'[q].kind)
             /\ task'[q].kind = "none" => task'[q] = NoTask
             /\ pc'[q] \in {"start", "connect"} => task'[q].id # 0
             /\ task'[q].kind \in (IF q = Main THEN BootKinds ELSE CommandKinds)
             /\ task'[q].kind = "platform" => task'[q].token # NoToken
             /\ task'[q].kind \in {"named", "disable"} <=> task'[q].ep # NoEndpoint
  <2>1. CASE q = p
    BY <1>2, <2>1
  <2>2. CASE q # p
    BY <1>0, <1>2, <2>2 DEF GoroutineType, RunInv
  <2> QED BY <2>1, <2>2
<1>5. RunInv'
  BY <1>3, <1>4 DEF RunInv
<1> QED BY <1>1, <1>5 DEF GoroutineType

(* The goroutines after a start of the agent with task t. *)
LEMMA Booted ==
    ASSUME NEW d, NEW n \in Nat, NEW t \in TaskAt(n), t.kind \in KindsIn(d), t.kind \in BootKinds,
           t.kind = "none" <=> t = NoTask, t.kind = "platform" => t.token # NoToken, t.ep = NoEndpoint,
           NEW ph, ph = IF t = NoTask THEN "up" ELSE "boot",
           NEW at, at = [p \in Procs |-> IF p = Main /\ t # NoTask THEN "find" ELSE "idle"],
           NEW job, job = [p \in Procs |-> IF p = Main THEN t ELSE NoTask]
    PROVE  /\ ph \in {"boot", "up"} /\ at \in [Procs -> Steps] /\ job \in [Procs -> TaskAt(n)]
           /\ \A p \in Procs :
               /\ job[p].kind \in KindsIn(d) /\ at[p] \in Path(job[p].kind)
               /\ job[p].kind = "none" => job[p] = NoTask
               /\ at[p] \in {"start", "connect"} => job[p].id # 0
               /\ job[p].kind \in (IF p = Main THEN BootKinds ELSE CommandKinds)
               /\ job[p].kind = "platform" => job[p].token # NoToken
               /\ job[p].kind \in {"named", "disable"} <=> job[p].ep # NoEndpoint
           /\ at[Main] = "idle" <=> ph = "up"
           /\ ph = "boot" => \A p \in Workers : at[p] = "idle"
<1>1. NoTask \in TaskAt(n) /\ NoTask.kind = "none" /\ NoTask.ep = NoEndpoint
  BY TaskFacts DEF NoTask
<1>2. "none" \in KindsIn(d) /\ "none" \in CommandKinds /\ "idle" \in Path("none")
  BY DEF KindsIn, CommandKinds, Path
<1>3. t # NoTask => "find" \in Path(t.kind)
  BY DEF Path, BootKinds
<1>4. ph \in {"boot", "up"} /\ at \in [Procs -> Steps] /\ job \in [Procs -> TaskAt(n)]
  BY <1>1 DEF Steps
<1>5. ASSUME NEW p \in Procs
      PROVE  /\ job[p].kind \in KindsIn(d) /\ at[p] \in Path(job[p].kind)
             /\ job[p].kind = "none" => job[p] = NoTask
             /\ at[p] \in {"start", "connect"} => job[p].id # 0
             /\ job[p].kind \in (IF p = Main THEN BootKinds ELSE CommandKinds)
             /\ job[p].kind = "platform" => job[p].token # NoToken
             /\ job[p].kind \in {"named", "disable"} <=> job[p].ep # NoEndpoint
  <2>1. CASE p = Main /\ t # NoTask
    <3>1. job[p] = t /\ at[p] = "find"
      BY <2>1
    <3>2. t.kind \notin {"named", "disable"}
      BY DEF BootKinds
    <3> QED BY <1>3, <2>1, <3>1, <3>2
  <2>2. CASE ~(p = Main /\ t # NoTask)
    <3>1. job[p] = NoTask /\ at[p] = "idle"
      BY <2>2
    <3> QED BY <1>1, <1>2, <3>1 DEF BootKinds
  <2> QED BY <2>1, <2>2
<1>6. at[Main] = "idle" <=> ph = "up"
  BY TaskFacts
<1>7. ph = "boot" => \A p \in Workers : at[p] = "idle"
  BY TaskFacts
<1> QED BY <1>4, <1>5, <1>6, <1>7

(* What Run begins with. *)
LEMMA FirstTaskFacts ==
    ASSUME NEW d, NEW token \in Tokens \cup {NoToken}
    PROVE  /\ FirstTask(d, token) \in TaskAt(0) /\ FirstTask(d, token).ep = NoEndpoint
           /\ d = "traefik" => FirstTask(d, token).kind = "traefik"
           /\ d = "platform" /\ token # NoToken =>
                 FirstTask(d, token).kind = "platform" /\ FirstTask(d, token).token = token
           /\ d # "traefik" /\ ~(d = "platform" /\ token # NoToken) => FirstTask(d, token) = NoTask
           /\ FirstTask(d, token).kind \in KindsIn(d) /\ FirstTask(d, token).kind \in BootKinds
           /\ FirstTask(d, token).kind = "none" <=> FirstTask(d, token) = NoTask
<1>1. NoTask \in TaskAt(0) /\ NoTask.kind = "none" /\ NoTask.ep = NoEndpoint
  BY TaskFacts DEF NoTask
<1>2. CASE d = "traefik"
  <2> DEFINE t == [NoTask EXCEPT !.kind = "traefik"]
  <2>1. FirstTask(d, token) = t
    BY <1>2 DEF FirstTask
  <2>2. t \in TaskAt(0) /\ t.kind = "traefik" /\ t.ep = NoEndpoint
    BY NewTasks
  <2> HIDE DEF t
  <2> QED BY <1>1, <1>2, <2>1, <2>2 DEF KindsIn, BootKinds
<1>3. CASE d = "platform" /\ token # NoToken
  <2> DEFINE t == [NoTask EXCEPT !.kind = "platform", !.token = token]
  <2>1. FirstTask(d, token) = t
    BY <1>3 DEF FirstTask
  <2>2. t \in TaskAt(0) /\ t.kind = "platform" /\ t.ep = NoEndpoint /\ t.token = token
    BY <1>3, NewTasks
  <2> HIDE DEF t
  <2> QED BY <1>1, <1>3, <2>1, <2>2 DEF KindsIn, BootKinds
<1>4. CASE d # "traefik" /\ ~(d = "platform" /\ token # NoToken)
  <2>1. FirstTask(d, token) = NoTask
    BY <1>4 DEF FirstTask
  <2> QED BY <1>1, <1>4, <2>1 DEF KindsIn, BootKinds
<1> QED BY <1>2, <1>3, <1>4

(* A start of the agent leaves the goroutines well typed. *)
LEMMA BootGoroutines ==
    ASSUME TypeInv, NEW t \in TaskAt(0), t.kind \in KindsIn(domain), t.kind \in BootKinds,
           t.kind = "none" <=> t = NoTask, t.kind = "platform" => t.token # NoToken, t.ep = NoEndpoint,
           BootWith(t), UNCHANGED <<domain, nextId>>
    PROVE  GoroutineType' /\ phase' \in {"boot", "up"}
<1>1. nextId \in Nat
  BY TypeParts DEF ContainerType
<1>2. t \in TaskAt(nextId)
  BY <1>1 DEF TaskAt
<1> HIDE DEF TypeInv
<1> QED BY <1>1, <1>2, Booted DEF BootWith, GoroutineType, RunInv

(* A command is received. *)
LEMMA CommandType == ASSUME TypeInv, NEW p \in Procs, Command(p) PROVE TypeInv'
<1>0. GoroutineType /\ ContainerType /\ WorldType
  BY TypeParts
<1>1. PICK clash \in BOOLEAN, t \in TaskAt(0), at \in {"check", "find"} :
        /\ Moved(p, at, t) /\ Noted(t, clash)
        /\ \/ /\ domain = "traefik" /\ t.kind = "acme" /\ at = "check" /\ t.ep = NoEndpoint
              /\ UNCHANGED <<routes, saved>>
           \/ /\ domain = "traefik" /\ t.kind = "attach" /\ at = "find" /\ t.ep = NoEndpoint
              /\ routes' = routes \cup t.nets /\ UNCHANGED saved
           \/ /\ domain = "platform" /\ t.kind = "platform" /\ at = "find" /\ t.token \in Tokens
              /\ t.ep = NoEndpoint /\ (saved' = t.token \/ (saved' = saved /\ faults' # faults))
              /\ UNCHANGED routes
           \/ /\ domain = "tunnel" /\ t.kind = "named" /\ at = "find" /\ t.ep \in Endpoints
              /\ UNCHANGED <<routes, saved>>
           \/ /\ domain = "tunnel" /\ t.kind = "disable" /\ at = "find" /\ t.ep \in Endpoints
              /\ UNCHANGED <<routes, saved>>
              /\ clash = (\E f \in Endpoints \ {t.ep} : reported[f] = "active")
  BY CommandOutcome
<1>2. /\ p # Main /\ phase = "up" /\ pc[p] = "idle" /\ commands' \in 0 .. MaxCommands
      /\ UNCHANGED <<domain, box, nextId, phase, reported, answer, crashes>>
      /\ faults' = faults \/ (faults' = faults + 1 /\ faults < MaxFaults)
  BY CommandOutcome
<1>3. t \in TaskAt(nextId)
  BY <1>0 DEF TaskAt, ContainerType
<1>4. t.kind \in KindsIn(domain) /\ t.kind \in CommandKinds /\ at \in Path(t.kind) /\ t.kind # "none"
  BY <1>1 DEF KindsIn, CommandKinds, Path
<1>5. at \in Steps
  BY DEF Steps
<1>6. t.kind = "platform" => t.token # NoToken
  BY <1>1, EdgeConstants
<1>7. t.kind \in {"named", "disable"} <=> t.ep # NoEndpoint
  BY <1>1, EdgeConstants
<1>8. GoroutineType'
  BY <1>1, <1>2, <1>3, <1>4, <1>5, <1>6, <1>7, CommandGoroutine
<1>9. ContainerType'
  BY <1>0, <1>2 DEF ContainerType
<1>10. routes' \subseteq Networks /\ saved' \in Tokens \cup {NoToken}
  BY <1>0, <1>1 DEF WorldType, TaskAt
<1>11. disturbed' \in BOOLEAN
  BY <1>0, <1>1 DEF WorldType, Noted
<1>12. faults' \in 0 .. MaxFaults
  BY <1>0, <1>2, EdgeConstants DEF WorldType
<1>13. WorldType'
  BY <1>0, <1>2, <1>10, <1>11, <1>12 DEF WorldType
<1> QED BY <1>8, <1>9, <1>13, TypePartsNext

(* What the end of a command does. *)
LEMMA EndOutcome ==
    ASSUME TypeInv, NEW p \in Procs, EndCommand(p)
    PROVE  /\ p # Main /\ pc[p] \in Ends /\ phase = "up" /\ Moved(p, "idle", NoTask)
           /\ UNCHANGED <<domain, box, nextId, routes, saved, answer, phase, commands, crashes>>
           /\ faults' = faults \/ (faults' = faults + 1 /\ faults < MaxFaults)
           /\ disturbed' = (disturbed \/ (faults' # faults /\ Harmful))
           /\ \/ task[p].ep = NoEndpoint /\ reported' = reported /\ faults' = faults
              \/ /\ task[p].ep # NoEndpoint /\ faults' = faults
                 /\ reported' = [reported EXCEPT ![task[p].ep] =
                      IF task[p].kind = "named" THEN IF pc[p] = "succeeded" THEN "active" ELSE "error"
                                                ELSE "disabled"]
              \/ task[p].ep # NoEndpoint /\ reported' = reported /\ faults' = faults + 1
<1>0. GoroutineType /\ WorldType
  BY TypeParts
<1>1. p # Main /\ pc[p] \in Ends /\ NoteFault
  BY DEF EndCommand, Ends
<1>2. UNCHANGED <<domain, box, nextId, routes, saved, answer, phase, commands, crashes>>
  BY DEF EndCommand
<1>3. Moved(p, "idle", NoTask)
  BY DEF EndCommand, Begin, Go, Moved
<1>4. phase = "up"
  BY <1>0, <1>1 DEF GoroutineType, RunInv, WorldType, Procs, Ends
<1> DEFINE status == IF task[p].kind = "named"
                     THEN HandleEnsure("public_tunnel_cloudflare", TunnelWorld(p)).status
                     ELSE HandleDisable("public_tunnel_cloudflare", TunnelWorld(p)).status
<1>5. \/ task[p].ep = NoEndpoint /\ reported' = reported /\ faults' = faults
      \/ task[p].ep # NoEndpoint /\ faults' = faults /\ reported' = [reported EXCEPT ![task[p].ep] = status]
      \/ task[p].ep # NoEndpoint /\ reported' = reported /\ faults' = faults + 1 /\ faults < MaxFaults
  BY DEF EndCommand, Fault
<1>6. status = IF task[p].kind = "named" THEN IF pc[p] = "succeeded" THEN "active" ELSE "error" ELSE "disabled"
  BY TunnelStatus
<1> HIDE DEF status
<1>7. disturbed' = (disturbed \/ (faults' # faults /\ Harmful))
  BY <1>1 DEF NoteFault
<1> QED BY <1>1, <1>2, <1>3, <1>4, <1>5, <1>6, <1>7

(* A command ends. *)
LEMMA EndType == ASSUME TypeInv, NEW p \in Procs, EndCommand(p) PROVE TypeInv'
<1>0. GoroutineType /\ ContainerType /\ WorldType
  BY TypeParts
<1>1. /\ p # Main /\ pc[p] \in Ends /\ phase = "up" /\ Moved(p, "idle", NoTask)
      /\ UNCHANGED <<domain, box, nextId, routes, saved, answer, phase, commands, crashes>>
      /\ faults' = faults \/ (faults' = faults + 1 /\ faults < MaxFaults)
      /\ disturbed' = (disturbed \/ (faults' # faults /\ Harmful))
      /\ \/ reported' = reported
         \/ reported' = [reported EXCEPT ![task[p].ep] =
              IF task[p].kind = "named" THEN IF pc[p] = "succeeded" THEN "active" ELSE "error"
                                        ELSE "disabled"]
  BY EndOutcome
<1>2. NoTask \in TaskAt(nextId) /\ NoTask.kind = "none" /\ NoTask.ep = NoEndpoint
  BY <1>0, TaskFacts DEF ContainerType, NoTask
<1>3. "none" \in KindsIn(domain) /\ "none" \in CommandKinds /\ "idle" \in Path("none") /\ "idle" \in Steps
  BY DEF KindsIn, CommandKinds, Path, Steps
<1>4. GoroutineType'
  BY <1>1, <1>2, <1>3, CommandGoroutine
<1>5. ContainerType'
  BY <1>0, <1>1 DEF ContainerType
<1>6. reported' \in [Endpoints -> {"none", "active", "error", "disabled"}]
  BY <1>0, <1>1 DEF WorldType
<1>7. disturbed' \in BOOLEAN /\ faults' \in 0 .. MaxFaults
  BY <1>0, <1>1, EdgeConstants DEF WorldType
<1>8. WorldType'
  BY <1>0, <1>1, <1>6, <1>7 DEF WorldType
<1> QED BY <1>4, <1>5, <1>8, TypePartsNext

(* The next goroutine of Run, and which one. *)
LEMMA BootOutcome ==
    ASSUME TypeInv, NEW p \in Procs, BootTask(p)
    PROVE  /\ p = Main /\ pc[Main] \in Ends /\ phase = "boot" /\ \A q \in Workers : pc[q] = "idle"
           /\ UNCHANGED <<domain, box, nextId, routes, saved, reported, answer, disturbed, commands, faults, crashes>>
           /\ \E t \in TaskAt(0) :
                /\ BootWith(t) /\ t.ep = NoEndpoint
                /\ \/ task[Main].kind = "traefik" /\ t.kind = "reattach" /\ t # NoTask /\ domain = "traefik"
                   \/ task[Main].kind # "traefik" /\ t = NoTask
<1>0. GoroutineType /\ WorldType
  BY TypeParts
<1>1. p = Main /\ pc[Main] \in Ends
  BY DEF BootTask, Ends
<1>2. phase = "boot" /\ \A q \in Workers : pc[q] = "idle"
  BY <1>0, <1>1 DEF GoroutineType, RunInv, WorldType, Ends
<1>3. UNCHANGED <<domain, box, nextId, routes, saved, reported, answer, disturbed, commands, faults, crashes>>
  BY DEF BootTask, worldVars, boundVars
<1>4. NoTask \in TaskAt(0) /\ NoTask.ep = NoEndpoint /\ NoTask.kind = "none"
  BY TaskFacts DEF NoTask
<1>5. CASE task[Main].kind = "traefik"
  <2> DEFINE t == [NoTask EXCEPT !.kind = "reattach"]
  <2>1. BootWith(t)
    BY <1>1, <1>5 DEF BootTask
  <2>2. t \in TaskAt(0) /\ t.kind = "reattach" /\ t.ep = NoEndpoint
    BY NewTasks
  <2>3. domain = "traefik"
    BY <1>0, <1>5, TaskFacts DEF GoroutineType, RunInv, KindsIn
  <2> HIDE DEF t
  <2>4. t # NoTask
    BY <1>4, <2>2
  <2> QED BY <1>1, <1>2, <1>3, <1>5, <2>1, <2>2, <2>3, <2>4
<1>6. CASE task[Main].kind # "traefik"
  <2>1. BootWith(NoTask)
    BY <1>1, <1>6 DEF BootTask
  <2> QED BY <1>1, <1>2, <1>3, <1>4, <1>6, <2>1
<1> QED BY <1>5, <1>6

(* The next goroutine of Run begins. *)
LEMMA BootType == ASSUME TypeInv, NEW p \in Procs, BootTask(p) PROVE TypeInv'
<1>0. GoroutineType /\ ContainerType /\ WorldType
  BY TypeParts
<1>1. UNCHANGED <<domain, box, nextId, routes, saved, reported, answer, disturbed, commands, faults, crashes>>
  BY BootOutcome
<1>2. PICK t \in TaskAt(0) :
        /\ BootWith(t) /\ t.ep = NoEndpoint
        /\ \/ task[Main].kind = "traefik" /\ t.kind = "reattach" /\ t # NoTask /\ domain = "traefik"
           \/ task[Main].kind # "traefik" /\ t = NoTask
  BY BootOutcome
<1>3. t.kind \in KindsIn(domain) /\ t.kind \in BootKinds /\ (t.kind = "none" <=> t = NoTask) /\ t.kind # "platform"
  BY <1>2, TaskFacts DEF KindsIn, BootKinds
<1>4. GoroutineType' /\ phase' \in {"boot", "up"}
  BY <1>1, <1>2, <1>3, BootGoroutines
<1>5. ContainerType'
  BY <1>0, <1>1 DEF ContainerType
<1>6. WorldType'
  BY <1>0, <1>1, <1>4 DEF WorldType
<1> QED BY <1>4, <1>5, <1>6, TypePartsNext

(* A crash and the start after it. *)
LEMMA CrashType == ASSUME TypeInv, Crash PROVE TypeInv'
<1>0. GoroutineType /\ ContainerType /\ WorldType
  BY TypeParts
<1>1. /\ UNCHANGED <<domain, box, nextId, routes, saved, reported, answer, commands, faults>>
      /\ BootWith(FirstTask(domain, saved)) /\ crashes < MaxCrashes /\ crashes' = crashes + 1
  BY DEF Crash, worldVars
<1> DEFINE t == FirstTask(domain, saved)
<1>2. /\ t \in TaskAt(0) /\ t.ep = NoEndpoint /\ t.kind \in KindsIn(domain) /\ t.kind \in BootKinds
      /\ t.kind = "none" <=> t = NoTask
  BY <1>0, FirstTaskFacts DEF WorldType
<1>3. t.kind = "platform" => t.token # NoToken
  BY <1>0, FirstTaskFacts, TaskFacts DEF WorldType
<1>4. BootWith(t)
  BY <1>1
<1> HIDE DEF t
<1>5. GoroutineType' /\ phase' \in {"boot", "up"}
  BY <1>1, <1>2, <1>3, <1>4, BootGoroutines
<1>6. ContainerType'
  BY <1>0, <1>1 DEF ContainerType
<1>7. disturbed' \in BOOLEAN
  <2>1. disturbed' = IF domain = "traefik" THEN box # NoBox /\ ~box.running
                     ELSE IF domain = "platform" THEN FALSE ELSE disturbed \/ (~Alone /\ Harmful)
    BY DEF Crash
  <2> QED BY <1>0, <2>1 DEF WorldType
<1>8. crashes' \in 0 .. MaxCrashes
  BY <1>0, <1>1, EdgeConstants DEF WorldType
<1>9. WorldType'
  BY <1>0, <1>1, <1>5, <1>7, <1>8 DEF WorldType
<1> QED BY <1>5, <1>6, <1>9, TypePartsNext

(* A probe of an endpoint. *)
LEMMA ProbeType == ASSUME TypeInv, ProbeEndpoint PROVE TypeInv'
<1>0. GoroutineType /\ ContainerType /\ WorldType
  BY TypeParts
<1>1. /\ UNCHANGED <<domain, box, nextId, routes, saved, reported, phase, pc, task, disturbed>>
      /\ UNCHANGED <<commands, faults, crashes>>
  BY DEF ProbeEndpoint, boundVars
<1>2. answer'.ensure \in Answers /\ answer'.doctor \in Answers
  <2>1. PICK provider \in Providers, w \in Worlds :
          answer' = [provider |-> provider, world |-> w,
                     ensure |-> HandleEnsure(provider, w), doctor |-> HandleDoctor(provider, w)]
    BY DEF ProbeEndpoint
  <2>2. answer'.ensure = HandleEnsure(provider, w) /\ answer'.doctor = HandleDoctor(provider, w)
    BY <2>1
  <2> QED BY <2>2, AnswerTypes
<1>3. GoroutineType'
  BY <1>0, <1>1 DEF GoroutineType, RunInv
<1>4. ContainerType'
  BY <1>0, <1>1 DEF ContainerType
<1>5. WorldType'
  BY <1>0, <1>1, <1>2 DEF WorldType
<1> QED BY <1>3, <1>4, <1>5, TypePartsNext

(* The first start of the agent. *)
LEMMA InitType == Init => TypeInv
<1> SUFFICES ASSUME Init PROVE TypeInv
  OBVIOUS
<1>1. /\ domain \in Domains /\ box = NoBox /\ nextId = 0 /\ routes = {} /\ saved = NoToken
      /\ reported = [e \in Endpoints |-> "none"] /\ answer = NoAnswer /\ disturbed = FALSE
      /\ commands = 0 /\ faults = 0 /\ crashes = 0
  BY DEF Init
<1> DEFINE t == FirstTask(domain, NoToken)
<1>2. /\ phase = IF t = NoTask THEN "up" ELSE "boot"
      /\ pc = [p \in Procs |-> IF p = Main /\ t # NoTask THEN "find" ELSE "idle"]
      /\ task = [p \in Procs |-> IF p = Main THEN t ELSE NoTask]
  BY DEF Init
<1>3. /\ t \in TaskAt(0) /\ t.ep = NoEndpoint /\ t.kind \in KindsIn(domain) /\ t.kind \in BootKinds
      /\ t.kind = "none" <=> t = NoTask
  BY FirstTaskFacts
<1>4. t.kind = "platform" => t.token # NoToken
  BY FirstTaskFacts, TaskFacts
<1> HIDE DEF t
<1>5. GoroutineType /\ phase \in {"boot", "up"}
  BY <1>1, <1>2, <1>3, <1>4, Booted DEF GoroutineType, RunInv
<1>6. ContainerType
  BY <1>1, TaskFacts DEF ContainerType
<1>7. answer.ensure \in Answers /\ answer.doctor \in Answers
  BY <1>1 DEF NoAnswer, Error, Status, Answers
<1>8. commands \in 0 .. MaxCommands /\ faults \in 0 .. MaxFaults /\ crashes \in 0 .. MaxCrashes
  BY <1>1, EdgeConstants
<1>9. reported \in [Endpoints -> {"none", "active", "error", "disabled"}]
  BY <1>1
<1>10. WorldType
  BY <1>1, <1>5, <1>7, <1>8, <1>9, Zenon DEF WorldType
<1> QED BY <1>5, <1>6, <1>10, TypeParts

(* Every step keeps the types. *)
LEMMA NextType == TypeInv /\ [Next]_vars => TypeInv'
<1> SUFFICES ASSUME TypeInv, [Next]_vars PROVE TypeInv'
  OBVIOUS
<1>1. ASSUME NEW p \in Procs, Step(p) PROVE TypeInv'
  BY <1>1, CallType, EndType, BootType DEF Step, Call
<1>2. CASE UNCHANGED vars
  BY <1>2 DEF vars, worldVars, boundVars, TypeInv, TypeOK, RunInv
<1> QED BY <1>1, <1>2, CommandType, ProbeType, CrashType DEF Next

(* Every reachable state is well typed: the container is one Docker made,  *)
(* a goroutine is at a step of its task, and a start of the agent runs     *)
(* EnsureTraefik and the rest of it before any command.                    *)
THEOREM TypeCorrect == Spec => []TypeOK
<1>1. Spec => []TypeInv
  BY InitType, NextType, PTL DEF Spec
<1>2. TypeInv => TypeOK
  BY DEF TypeInv
<1> QED BY <1>1, <1>2, PTL

-----------------------------------------------------------------------------
(* The platform's cloudflared *)

(* A container not yet running is that of a goroutine about to start it. *)
Starting == \E q \in Procs : pc[q] = "start" /\ task[q].id = box.id

PlatformInv ==
    domain = "platform" /\ ~disturbed =>
        /\ \A p \in Procs : pc[p] # "idle" => task[p].token = saved
        /\ saved # NoToken =>
            \/ \E p \in Procs : pc[p] \in {"find", "remove", "evict"}
            \/ box = NoBox /\ \E p \in Procs : pc[p] \in {"pull", "create"}
            \/ box.token = saved /\ (box.running \/ Starting)


(* The domain of a behaviour stays. *)
LEMMA SameDomain == ASSUME TypeInv, Next PROVE domain' = domain
<1>1. ASSUME NEW p \in Procs, Command(p) \/ Step(p) PROVE domain' = domain
  BY <1>1, CommandOutcome, EndOutcome, BootOutcome, CallFacts DEF Step, Call
<1> QED BY <1>1 DEF Next, Crash, ProbeEndpoint

(* No call to Docker fails without the run being disturbed. *)
LEMMA QuietCall ==
    ASSUME TypeInv, NEW p \in Procs, Call(p), ~disturbed', domain # "tunnel"
    PROVE  ~disturbed /\ faults' = faults
BY CallFacts DEF Harmful

(* The calls a goroutine of the platform's domain makes. *)
LEMMA PlatformCall ==
    ASSUME TypeInv, PlatformInv, NEW p \in Procs, Call(p), domain = "platform", ~disturbed'
    PROVE  PlatformInv'
<1>0. GoroutineType /\ ContainerType /\ WorldType
  BY TypeParts
<1>1. ~disturbed /\ faults' = faults /\ UNCHANGED <<domain, saved, phase>> /\ pc[p] # "idle"
  BY QuietCall, CallFacts
<1>2. /\ task[p].kind = "platform" /\ pc[p] \in Path("platform") /\ task[p] \in TaskAt(nextId)
      /\ pc[p] = "start" => task[p].id # 0
  BY <1>0, <1>1, IdleFacts DEF GoroutineType, RunInv, KindsIn
<1>3. pc[p] \in {"find", "remove", "evict", "pull", "create", "start"}
  BY <1>1, <1>2 DEF Path, Makes, Ends, Call, CheckACME, Find, StopAndRemove, Evict, PullImage, Create,
                    Start, ConnectNetwork
<1>4. \A q \in Procs : pc[q] # "idle" => task[q].token = saved
  BY <1>1 DEF PlatformInv
<1>5. ASSUME NEW to, NEW t, Moved(p, to, t), t.token = task[p].token
      PROVE  /\ \A q \in Procs : pc'[q] # "idle" => task'[q].token = saved'
             /\ pc'[p] = to /\ task'[p] = t
             /\ \A q \in Procs : q # p => pc'[q] = pc[q] /\ task'[q] = task[q]
  BY <1>1, <1>4, <1>5, MovedFacts
<1>6. ASSUME saved # NoToken
      PROVE  \/ \E q \in Procs : pc[q] \in {"find", "remove", "evict"}
             \/ box = NoBox /\ \E q \in Procs : pc[q] \in {"pull", "create"}
             \/ box.token = saved /\ (box.running \/ Starting)
  BY <1>1, <1>6 DEF PlatformInv
<1> DEFINE Goal ==
        \/ \E q \in Procs : pc'[q] \in {"find", "remove", "evict"}
        \/ box' = NoBox /\ \E q \in Procs : pc'[q] \in {"pull", "create"}
        \/ box'.token = saved /\ (box'.running \/ \E q \in Procs : pc'[q] = "start" /\ task'[q].id = box'.id)
<1>7. SUFFICES (\A q \in Procs : pc'[q] # "idle" => task'[q].token = saved') /\ (saved # NoToken => Goal)
  BY <1>1 DEF PlatformInv, Starting
<1>8. CASE Find(p)
  <2>1. FoundNext("platform") = "remove" /\ NotFoundNext("platform") = "evict"
    BY DEF FoundNext, NotFoundNext
  <2>2. PICK t : t = [task[p] EXCEPT !.id = box.id, !.nets = NetsToConnect(task[p])]
    OBVIOUS
  <2>3. t.token = task[p].token
    BY <1>2, <2>2 DEF TaskAt
  <2>4. Moved(p, "remove", t) \/ Moved(p, "evict", task[p])
    BY <1>1, <1>2, <1>8, <2>1, <2>2, FindOutcome
  <2> QED BY <1>5, <2>3, <2>4
<1>9. CASE StopAndRemove(p)
  BY <1>2, <1>5, <1>9, RemoveOutcome DEF RemovedNext
<1>10. CASE Evict(p)
  BY <1>1, <1>5, <1>10, EvictOutcome
<1>11. CASE PullImage(p)
  <2>1. pc[p] = "pull" /\ box' = box /\ Moved(p, "create", task[p])
    BY <1>1, <1>11, PullOutcome
  <2>2. Starting => \E q \in Procs : pc'[q] = "start" /\ task'[q].id = box'.id
    BY <1>5, <2>1 DEF Starting
  <2> QED BY <1>5, <1>6, <2>1, <2>2
<1>12. CASE Create(p)
  <2>1. CASE box = NoBox /\ box' = [NoBox EXCEPT !.id = nextId + 1, !.acme = (task[p].kind = "acme"),
                                                 !.token = task[p].token]
             /\ Moved(p, "start", [task[p] EXCEPT !.id = nextId + 1])
    <3>1. box'.token = task[p].token /\ box'.id = nextId + 1
      BY <2>1 DEF NoBox
    <3>2. PICK t : t = [task[p] EXCEPT !.id = nextId + 1]
      OBVIOUS
    <3>3. t.token = task[p].token /\ t.id = nextId + 1 /\ Moved(p, "start", t)
      BY <1>2, <2>1, <3>2 DEF TaskAt
    <3>4. task[p].token = saved
      BY <1>1, <1>4
    <3> QED BY <1>5, <3>1, <3>3, <3>4
  <2>2. CASE box # NoBox /\ box' = box /\ Moved(p, "failed", task[p])
    <3>1. pc[p] = "create"
      BY <1>12, CreateOutcome
    <3>2. Starting => \E q \in Procs : pc'[q] = "start" /\ task'[q].id = box'.id
      BY <1>5, <2>2, <3>1 DEF Starting
    <3> QED BY <1>5, <1>6, <2>2, <3>1, <3>2
  <2> QED BY <1>12, <2>1, <2>2, CreateOutcome
<1>13. CASE Start(p)
  <2>1. pc[p] = "start" /\ task[p].id # 0
    BY <1>2, <1>13, StartOutcome
  <2>2. CASE box.id = task[p].id /\ box' = [box EXCEPT !.running = TRUE]
             /\ Moved(p, "succeeded", task[p])
    <3>1. box # NoBox /\ box'.token = box.token /\ box'.running
      BY <1>0, <2>1, <2>2 DEF NoBox, ContainerType, BoxAt
    <3> QED BY <1>5, <1>6, <2>1, <2>2, <3>1
  <2>3. CASE box.id # task[p].id /\ box' = box /\ Moved(p, "failed", task[p])
    <3>1. Starting => \E q \in Procs : pc'[q] = "start" /\ task'[q].id = box'.id
      BY <1>5, <2>3 DEF Starting
    <3> QED BY <1>5, <1>6, <2>1, <2>3, <3>1
  <2> QED BY <1>1, <1>2, <1>13, <2>2, <2>3, StartOutcome
<1> QED BY <1>3, <1>8, <1>9, <1>10, <1>11, <1>12, <1>13 DEF Call, CheckACME, ConnectNetwork

(* Commands, their ends, and starts of the agent. *)
LEMMA PlatformRest ==
    ASSUME TypeInv, PlatformInv, domain = "platform", ~disturbed',
           Crash \/ \E p \in Procs : Command(p) \/ EndCommand(p) \/ BootTask(p)
    PROVE  PlatformInv'
<1>0. GoroutineType /\ ContainerType /\ WorldType
  BY TypeParts
<1>1. ASSUME NEW p \in Procs, Command(p) PROVE PlatformInv'
  <2>1. PICK clash \in BOOLEAN, t \in TaskAt(0) :
          /\ Moved(p, "find", t) /\ Noted(t, clash)
          /\ t.kind = "platform" /\ (saved' = t.token \/ (saved' = saved /\ faults' # faults))
    BY <1>1, CommandOutcome
  <2>2. ~disturbed /\ faults' = faults /\ (\A q \in Workers : ~Collide(task[q], t)) /\ saved' = t.token
    BY <2>1 DEF Noted
  <2>3. p # Main /\ phase = "up"
    BY <1>1, CommandOutcome
  <2>4. /\ pc'[p] = "find" /\ task'[p] = t
        /\ \A q \in Procs : q # p => pc'[q] = pc[q] /\ task'[q] = task[q]
    BY <2>1, MovedFacts
  <2>5. \A q \in Procs : pc[q] # "idle" => q \in Workers /\ task[q].kind = "platform"
    BY <1>0, <2>3, IdleFacts DEF GoroutineType, RunInv, KindsIn, Procs
  <2>6. \A q \in Procs : pc[q] # "idle" => task[q].token = t.token
    BY <2>1, <2>2, <2>5 DEF Collide
  <2>7. \A q \in Procs : pc'[q] # "idle" => task'[q].token = saved'
    BY <2>2, <2>4, <2>6
  <2> QED BY <2>4, <2>7 DEF PlatformInv
<1>2. ASSUME NEW p \in Procs, EndCommand(p) PROVE PlatformInv'
  <2>1. /\ pc[p] \in Ends /\ Moved(p, "idle", NoTask) /\ UNCHANGED <<box, saved>>
        /\ disturbed' = (disturbed \/ (faults' # faults /\ Harmful))
    BY <1>2, EndOutcome
  <2>2. /\ pc'[p] = "idle" /\ \A q \in Procs : q # p => pc'[q] = pc[q] /\ task'[q] = task[q]
    BY <2>1, MovedFacts
  <2>3. Starting => Starting'
    BY <2>1, <2>2 DEF Starting, Ends
  <2>4. ~disturbed
    BY <2>1
  <2>5. \A q \in Procs : pc'[q] # "idle" => task'[q].token = saved'
    BY <2>1, <2>2, <2>4 DEF PlatformInv
  <2>6. saved' # NoToken =>
            \/ \E q \in Procs : pc'[q] \in {"find", "remove", "evict"}
            \/ box' = NoBox /\ \E q \in Procs : pc'[q] \in {"pull", "create"}
            \/ box'.token = saved' /\ (box'.running \/ Starting')
    BY <2>1, <2>2, <2>3, <2>4 DEF PlatformInv, Ends
  <2> QED BY <2>5, <2>6 DEF PlatformInv
<1>3. ASSUME NEW p \in Procs, BootTask(p) PROVE PlatformInv'
  <2>1. /\ pc[Main] \in Ends /\ \A q \in Workers : pc[q] = "idle"
        /\ UNCHANGED <<domain, box, saved, disturbed>>
    BY <1>3, BootOutcome
  <2>2. BootWith(NoTask)
    BY <1>3, BootOutcome
  <2>3. \A q \in Procs : pc'[q] = "idle"
    BY <2>2 DEF BootWith
  <2>4. \A q \in Procs : pc[q] \in {"idle", "succeeded", "failed"}
    BY <2>1 DEF Procs, Ends
  <2>5. saved # NoToken => box.token = saved /\ box.running
    BY <2>1, <2>4 DEF PlatformInv, Starting
  <2> QED BY <2>1, <2>3, <2>5 DEF PlatformInv
<1>4. CASE Crash
  <2>1. BootWith(FirstTask(domain, saved)) /\ UNCHANGED <<domain, saved>>
    BY <1>4 DEF Crash, worldVars
  <2>2. PICK t : t = FirstTask(domain, saved)
    OBVIOUS
  <2>3. saved # NoToken => t # NoTask /\ t.token = saved
    BY <1>0, <2>2, FirstTaskFacts, TaskFacts DEF WorldType
  <2>4. saved = NoToken => t = NoTask
    BY <1>0, <2>2, FirstTaskFacts DEF WorldType
  <2>5. /\ pc' = [q \in Procs |-> IF q = Main /\ t # NoTask THEN "find" ELSE "idle"]
        /\ task' = [q \in Procs |-> IF q = Main THEN t ELSE NoTask]
    BY <2>1, <2>2 DEF BootWith
  <2>6. \A q \in Procs : pc'[q] # "idle" => task'[q].token = saved'
    BY <2>1, <2>3, <2>4, <2>5
  <2>7. saved' # NoToken => pc'[Main] = "find" /\ Main \in Procs
    BY <2>1, <2>3, <2>5, TaskFacts
  <2> QED BY <2>6, <2>7 DEF PlatformInv
<1> QED BY <1>1, <1>2, <1>3, <1>4

(* Every step keeps PlatformInv. *)
LEMMA NextPlatform == TypeInv /\ PlatformInv /\ [Next]_vars => PlatformInv'
<1> SUFFICES ASSUME TypeInv, PlatformInv, [Next]_vars PROVE PlatformInv'
  OBVIOUS
<1>1. CASE UNCHANGED vars
  BY <1>1 DEF vars, worldVars, PlatformInv, Starting
<1>2. CASE Next
  <2> SUFFICES ASSUME domain = "platform", ~disturbed' PROVE PlatformInv'
    BY <1>2, SameDomain DEF PlatformInv
  <2>1. ~ProbeEndpoint
    BY DEF ProbeEndpoint
  <2>2. ASSUME NEW p \in Procs, Step(p)
        PROVE  Call(p) \/ EndCommand(p) \/ BootTask(p)
    BY <2>2 DEF Step, Call
  <2> QED BY <1>2, <2>1, <2>2, PlatformCall, PlatformRest DEF Next
<1> QED BY <1>1, <1>2

(* Whenever no command is under way, cloudflared runs with the token of    *)
(* config.yaml, for any number of tokens and of commands in flight.        *)
THEOREM CloudflaredFollowsConfig == Spec => []TunnelFollowsConfig
<1>1. Init => PlatformInv
  <2> SUFFICES ASSUME Init, domain = "platform" PROVE PlatformInv
    BY DEF PlatformInv
  <2>1. FirstTask(domain, NoToken) = NoTask
    BY FirstTaskFacts
  <2>2. \A p \in Procs : pc[p] = "idle"
    BY <2>1 DEF Init
  <2>3. saved = NoToken
    BY DEF Init
  <2> QED BY <2>2, <2>3 DEF PlatformInv
<1>2. Spec => [](TypeInv /\ PlatformInv)
  BY <1>1, InitType, NextType, NextPlatform, PTL DEF Spec
<1>3. PlatformInv => TunnelFollowsConfig
  BY DEF PlatformInv, TunnelFollowsConfig, Settled, Alone, Starting
<1> QED BY <1>2, <1>3, PTL

-----------------------------------------------------------------------------
(* A named tunnel *)

Claimed ==
    \/ \E e \in Endpoints : reported[e] = "active"
    \/ \E p \in Procs : pc[p] = "succeeded"

Disabling == \E p \in Procs : task[p].kind = "disable"

TunnelInv ==
    domain = "tunnel" /\ ~disturbed =>
        /\ \A p \in Procs : task[p].kind = "disable" =>
            /\ \A q \in Procs : q # p => pc[q] = "idle"
            /\ \A f \in Endpoints : f # task[p].ep => reported[f] # "active"
        /\ Claimed /\ ~Disabling =>
            \/ box.running
            \/ \E p \in Procs : pc[p] \in {"find", "evict"}
            \/ box = NoBox /\ \E p \in Procs : pc[p] \in {"pull", "create"}
            \/ Starting

(* The goroutines of the tunnel's domain run commands only. *)
LEMMA TunnelProcs ==
    ASSUME TypeInv, domain = "tunnel"
    PROVE  /\ pc[Main] = "idle" /\ task[Main] = NoTask
           /\ \A p \in Procs : pc[p] # "idle" => task[p].kind \in {"named", "disable"}
<1>0. GoroutineType
  BY TypeParts
<1>1. task[Main].kind = "none"
  BY <1>0, TaskFacts DEF GoroutineType, RunInv, KindsIn, BootKinds
<1>2. \A p \in Procs : pc[p] # "idle" => task[p].kind \in {"named", "disable"}
  BY <1>0, IdleFacts DEF GoroutineType, RunInv, KindsIn
<1> QED BY <1>0, <1>1, <1>2, IdleFacts, TaskFacts DEF GoroutineType

(* A fault that leaves the run undisturbed hits a command that is alone,   *)
(* while no endpoint was reported active.                                  *)
LEMMA Harmless ==
    ASSUME NEW p \in Procs, pc[p] # "idle", disturbed' = (disturbed \/ (faults' # faults /\ Harmful)), ~disturbed',
           faults' # faults
    PROVE  (\A e \in Endpoints : reported[e] # "active") /\ \A q \in Procs : q # p => pc[q] = "idle"
BY DEF Harmful

(* The calls of EnsureCloudflaredNamed and StopCloudflaredNamed. *)
LEMMA TunnelCall ==
    ASSUME TypeInv, TunnelInv, NEW p \in Procs, Call(p), domain = "tunnel", ~disturbed'
    PROVE  TunnelInv'
<1>0. GoroutineType /\ ContainerType /\ WorldType
  BY TypeParts
<1>1. /\ UNCHANGED <<domain, reported>> /\ pc[p] # "idle" /\ ~disturbed
      /\ disturbed' = (disturbed \/ (faults' # faults /\ Harmful))
  BY CallFacts
<1>2. /\ task[p].kind \in {"named", "disable"} /\ pc[p] \in Path(task[p].kind) /\ task[p] \in TaskAt(nextId)
      /\ pc[p] = "start" => task[p].id # 0
  BY <1>0, <1>1, TunnelProcs DEF GoroutineType, RunInv
<1>3. PICK to, t : Moved(p, to, t) /\ t.kind = task[p].kind /\ t.ep = task[p].ep
  <2>2. CASE Find(p)
    <3>1. PICK r : r = [task[p] EXCEPT !.id = box.id, !.nets = NetsToConnect(task[p])]
      OBVIOUS
    <3>2. PICK u : u = [task[p] EXCEPT !.id = box.id]
      OBVIOUS
    <3>3. r.kind = task[p].kind /\ r.ep = task[p].ep /\ u.kind = task[p].kind /\ u.ep = task[p].ep
      BY <1>2, <3>1, <3>2 DEF TaskAt
    <3>4. \E to : Moved(p, to, r) \/ Moved(p, to, u) \/ Moved(p, to, task[p])
      BY <2>2, <3>1, <3>2, FindOutcome
    <3> QED BY <3>3, <3>4
  <2>3. CASE Create(p)
    <3>1. PICK r : r = [task[p] EXCEPT !.id = nextId + 1]
      OBVIOUS
    <3>2. r.kind = task[p].kind /\ r.ep = task[p].ep
      BY <1>2, <3>1 DEF TaskAt
    <3>3. Moved(p, "start", r) \/ Moved(p, "failed", task[p])
      BY <2>3, <3>1, CreateOutcome
    <3> QED BY <3>2, <3>3
  <2>4. CASE ConnectNetwork(p)
    BY <1>2, <2>4 DEF ConnectNetwork, Path, Makes, Ends
  <2> QED BY <2>2, <2>3, <2>4, CheckOutcome, RemoveOutcome, EvictOutcome, PullOutcome, StartOutcome DEF Call
<1>4. /\ pc'[p] = to /\ task'[p].kind = task[p].kind /\ task'[p].ep = task[p].ep
      /\ \A q \in Procs : q # p => pc'[q] = pc[q] /\ task'[q] = task[q]
  BY <1>3, MovedFacts
<1>5. \A q \in Procs : task'[q].kind = "disable" =>
        /\ \A r \in Procs : r # q => pc'[r] = "idle"
        /\ \A f \in Endpoints : f # task'[q].ep => reported'[f] # "active"
  <2> SUFFICES ASSUME NEW q \in Procs, task'[q].kind = "disable"
               PROVE  /\ \A r \in Procs : r # q => pc'[r] = "idle"
                      /\ \A f \in Endpoints : f # task'[q].ep => reported'[f] # "active"
    OBVIOUS
  <2>1. task[q].kind = "disable" /\ task'[q].ep = task[q].ep
    BY <1>4
  <2>2. /\ \A r \in Procs : r # q => pc[r] = "idle"
        /\ \A f \in Endpoints : f # task[q].ep => reported[f] # "active"
    BY <1>1, <2>1 DEF TunnelInv
  <2>3. q = p
    BY <1>1, <2>2
  <2> QED BY <1>1, <1>4, <2>1, <2>2, <2>3
<1> DEFINE Goal ==
        \/ box'.running
        \/ \E q \in Procs : pc'[q] \in {"find", "evict"}
        \/ box' = NoBox /\ \E q \in Procs : pc'[q] \in {"pull", "create"}
        \/ \E q \in Procs : pc'[q] = "start" /\ task'[q].id = box'.id
<1>6. SUFFICES ASSUME \/ \E e \in Endpoints : reported[e] = "active"
                      \/ \E q \in Procs : pc'[q] = "succeeded",
                      \A q \in Procs : task'[q].kind # "disable"
               PROVE  Goal
  BY <1>1, <1>5 DEF TunnelInv, Claimed, Disabling, Starting
<1>7. task[p].kind = "named" /\ ~Disabling
  BY <1>2, <1>4, <1>6 DEF Disabling
<1>8. pc[p] \in {"find", "evict", "pull", "create", "start"}
  BY <1>1, <1>2, <1>7 DEF Path, Makes, Ends, Call, CheckACME, Find, StopAndRemove, Evict, PullImage, Create,
                          Start, ConnectNetwork
<1>9. ASSUME to # "succeeded"
      PROVE  \/ box.running
             \/ \E q \in Procs : pc[q] \in {"find", "evict"}
             \/ box = NoBox /\ \E q \in Procs : pc[q] \in {"pull", "create"}
             \/ Starting
  <2>1. Claimed
    BY <1>4, <1>6, <1>9 DEF Claimed
  <2> QED BY <1>1, <1>7, <2>1 DEF TunnelInv
<1>10. pc[p] # "start" => (Starting /\ box' = box => \E q \in Procs : pc'[q] = "start" /\ task'[q].id = box'.id)
  BY <1>4 DEF Starting
<1>11. faults' # faults => to = "succeeded"
  <2> SUFFICES ASSUME faults' # faults PROVE to = "succeeded"
    OBVIOUS
  <2>1. (\A e \in Endpoints : reported[e] # "active") /\ \A q \in Procs : q # p => pc[q] = "idle"
    BY <1>1, Harmless
  <2> QED BY <1>4, <1>6, <2>1
<1>12. CASE Find(p)
  <2>1. FoundNext("named") = "succeeded" /\ NotFoundNext("named") = "evict"
    BY DEF FoundNext, NotFoundNext
  <2>2. box' = box
    BY <1>12, FindOutcome
  <2>3. CASE ~box.running
    <3>1. Moved(p, "evict", task[p]) \/ (faults' # faults /\ Moved(p, "failed", task[p]))
      BY <1>7, <1>12, <2>1, <2>3, FindOutcome
    <3>2. pc'[p] = "evict" \/ (faults' # faults /\ pc'[p] = "failed")
      BY <3>1, MovedFacts
    <3> QED BY <1>4, <1>11, <3>2
  <2> QED BY <2>2, <2>3
<1>13. CASE Evict(p)
  BY <1>4, <1>11, <1>13, EvictOutcome, MovedFacts
<1>14. CASE PullImage(p)
  <2>1. pc[p] = "pull" /\ box' = box /\ to = "create"
    BY <1>4, <1>11, <1>14, PullOutcome, MovedFacts
  <2> QED BY <1>4, <1>9, <1>10, <2>1
<1>15. CASE Create(p)
  <2>1. CASE box = NoBox /\ box' = [NoBox EXCEPT !.id = nextId + 1, !.acme = (task[p].kind = "acme"),
                                                 !.token = task[p].token]
             /\ Moved(p, "start", [task[p] EXCEPT !.id = nextId + 1])
    <3>1. box'.id = nextId + 1
      BY <2>1 DEF NoBox
    <3>2. PICK r : r = [task[p] EXCEPT !.id = nextId + 1]
      OBVIOUS
    <3>3. r.id = nextId + 1 /\ Moved(p, "start", r)
      BY <1>2, <2>1, <3>2 DEF TaskAt
    <3>4. pc'[p] = "start" /\ task'[p].id = box'.id
      BY <3>1, <3>3, MovedFacts
    <3> QED BY <3>4
  <2>2. CASE box # NoBox /\ box' = box /\ Moved(p, "failed", task[p])
    <3>1. pc[p] = "create" /\ to = "failed"
      BY <1>4, <1>15, <2>2, CreateOutcome, MovedFacts
    <3> QED BY <1>4, <1>9, <1>10, <2>2, <3>1
  <2> QED BY <1>15, <2>1, <2>2, CreateOutcome
<1>16. CASE Start(p)
  <2>1. pc[p] = "start" /\ task[p].id # 0
    BY <1>2, <1>16, StartOutcome
  <2>2. CASE box' = [box EXCEPT !.running = TRUE]
    <3>1. box'.running
      BY <1>0, <2>2 DEF ContainerType, BoxAt
    <3> QED BY <3>1
  <2>3. CASE box.id # task[p].id /\ box' = box /\ Moved(p, "failed", task[p])
    <3>1. to = "failed"
      BY <1>4, <2>3, MovedFacts
    <3>2. Starting => \E q \in Procs : pc'[q] = "start" /\ task'[q].id = box'.id
      BY <1>4, <2>3 DEF Starting
    <3> QED BY <1>4, <1>9, <2>1, <2>3, <3>1, <3>2
  <2>4. CASE faults' # faults /\ Moved(p, "failed", task[p])
    BY <1>4, <1>11, <2>4, MovedFacts
  <2> QED BY <1>16, <2>2, <2>3, <2>4, StartOutcome
<1> QED BY <1>8, <1>12, <1>13, <1>14, <1>15, <1>16 DEF Call, CheckACME, StopAndRemove, ConnectNetwork

(* Commands, their ends, and starts of the agent. *)
LEMMA TunnelRest ==
    ASSUME TypeInv, TunnelInv, domain = "tunnel", ~disturbed',
           Crash \/ \E p \in Procs : Command(p) \/ EndCommand(p) \/ BootTask(p)
    PROVE  TunnelInv'
<1>0. GoroutineType /\ ContainerType /\ WorldType
  BY TypeParts
<1>1. ASSUME NEW p \in Procs, Command(p) PROVE TunnelInv'
  <2>1. PICK clash \in BOOLEAN, t \in TaskAt(0) :
          /\ Moved(p, "find", t) /\ Noted(t, clash)
          /\ t.kind = "named" \/ (t.kind = "disable" /\ clash = (\E f \in Endpoints \ {t.ep} : reported[f] = "active"))
    BY <1>1, CommandOutcome, ZenonT(40)
  <2>2. ~disturbed /\ (\A q \in Workers : ~Collide(task[q], t)) /\ ~clash
    BY <2>1 DEF Noted
  <2>3. p # Main /\ pc[p] = "idle" /\ reported' = reported
    BY <1>1, CommandOutcome
  <2>4. /\ pc'[p] = "find" /\ task'[p] = t
        /\ \A q \in Procs : q # p => pc'[q] = pc[q] /\ task'[q] = task[q]
    BY <2>1, MovedFacts
  <2>5. \A q \in Procs : task[q].kind = "disable" => q \in Workers
    BY TunnelProcs, TaskFacts DEF Procs
  <2>6. \A q \in Procs : task[q].kind # "disable"
    BY <2>2, <2>5 DEF Collide
  <2>7. CASE t.kind = "named"
    <3>1. \A q \in Procs : task'[q].kind # "disable"
      BY <2>4, <2>6, <2>7
    <3> QED BY <2>4, <3>1 DEF TunnelInv
  <2>8. CASE t.kind = "disable"
    <3>1. \A q \in Workers : task[q].kind = "none"
      BY <2>2, <2>8 DEF Collide
    <3>2. \A q \in Procs : q # p => pc'[q] = "idle" /\ task'[q].kind = "none"
      BY <1>0, <2>3, <2>4, <3>1, IdleFacts, TunnelProcs, TaskFacts DEF GoroutineType, Procs
    <3>3. \A f \in Endpoints : f # t.ep => reported'[f] # "active"
      BY <2>1, <2>2, <2>3, <2>8
    <3>4. Disabling'
      BY <2>4, <2>8 DEF Disabling
    <3> QED BY <2>4, <3>2, <3>3, <3>4 DEF TunnelInv
  <2> QED BY <2>1, <2>7, <2>8
<1>2. ASSUME NEW p \in Procs, EndCommand(p) PROVE TunnelInv'
  <2>1. /\ pc[p] \in Ends /\ Moved(p, "idle", NoTask) /\ UNCHANGED box
        /\ disturbed' = (disturbed \/ (faults' # faults /\ Harmful))
    BY <1>2, EndOutcome
  <2>2. /\ pc'[p] = "idle" /\ task'[p] = NoTask
        /\ \A q \in Procs : q # p => pc'[q] = pc[q] /\ task'[q] = task[q]
    BY <2>1, MovedFacts
  <2>3. pc[p] # "idle" /\ task[p].kind \in {"named", "disable"} /\ task[p].ep # NoEndpoint /\ ~disturbed
    BY <1>0, <2>1, TunnelProcs DEF Ends, GoroutineType, RunInv
  <2>4. task[p].ep \in Endpoints
    BY <1>0, <2>3 DEF GoroutineType, TaskAt
  <2>5. \A q \in Procs : q # p => task[q].kind # "disable"
    BY <2>3 DEF TunnelInv
  <2>6. \A q \in Procs : task'[q].kind # "disable"
    BY <2>2, <2>5, TaskFacts
  <2>7. CASE ~Claimed'
    BY <2>6, <2>7 DEF TunnelInv
  <2>8. CASE Claimed' /\ faults' # faults
    <3>1. (\A e \in Endpoints : reported[e] # "active") /\ \A q \in Procs : q # p => pc[q] = "idle"
      BY <2>1, <2>3, <2>8, Harmless
    <3>2. reported' = reported
      BY <1>2, <2>8, EndOutcome
    <3> QED BY <2>2, <2>8, <3>1, <3>2 DEF Claimed
  <2>9. CASE Claimed' /\ faults' = faults
    <3>1. faults' # faults + 1
      BY <1>0, <2>9 DEF WorldType
    <3>2. reported' = [reported EXCEPT ![task[p].ep] =
             IF task[p].kind = "named" THEN IF pc[p] = "succeeded" THEN "active" ELSE "error" ELSE "disabled"]
      BY <1>2, <2>3, <3>1, EndOutcome
    <3>3. CASE task[p].kind = "disable"
      <4>1. /\ \A q \in Procs : q # p => pc[q] = "idle"
            /\ \A f \in Endpoints : f # task[p].ep => reported[f] # "active"
        BY <2>3, <3>3 DEF TunnelInv
      <4>2. \A f \in Endpoints : reported'[f] # "active"
        BY <1>0, <3>2, <3>3, <4>1 DEF WorldType
      <4> QED BY <2>2, <2>9, <4>1, <4>2 DEF Claimed
    <3>4. CASE task[p].kind = "named"
      <4>1. ~Disabling
        BY <2>5, <3>4 DEF Disabling
      <4>2. Claimed
        <5>1. CASE pc[p] = "succeeded"
          BY <5>1 DEF Claimed
        <5>2. CASE pc[p] # "succeeded"
          BY <1>0, <2>2, <2>9, <3>2, <3>4, <5>2 DEF Claimed, WorldType
        <5> QED BY <5>1, <5>2
      <4>3. Starting => Starting'
        BY <2>1, <2>2 DEF Starting, Ends
      <4>4. \/ box.running
            \/ \E q \in Procs : pc[q] \in {"find", "evict"}
            \/ box = NoBox /\ \E q \in Procs : pc[q] \in {"pull", "create"}
            \/ Starting
        BY <2>3, <4>1, <4>2 DEF TunnelInv
      <4>5. \/ box'.running
            \/ \E q \in Procs : pc'[q] \in {"find", "evict"}
            \/ box' = NoBox /\ \E q \in Procs : pc'[q] \in {"pull", "create"}
            \/ Starting'
        BY <2>1, <2>2, <4>3, <4>4 DEF Ends
      <4> QED BY <2>6, <4>5 DEF TunnelInv
    <3> QED BY <2>3, <3>3, <3>4
  <2> QED BY <2>7, <2>8, <2>9
<1>3. ASSUME NEW p \in Procs, BootTask(p) PROVE FALSE
  BY <1>3, BootOutcome, TunnelProcs DEF Ends
<1>4. CASE Crash
  <2>1. /\ BootWith(FirstTask(domain, saved)) /\ UNCHANGED <<domain, box, reported>>
        /\ disturbed' = (disturbed \/ (~Alone /\ Harmful))
    BY <1>4 DEF Crash, worldVars
  <2>2. FirstTask(domain, saved) = NoTask
    BY <1>0, FirstTaskFacts DEF WorldType
  <2>3. \A q \in Procs : pc'[q] = "idle" /\ task'[q] = NoTask
    BY <2>1, <2>2 DEF BootWith
  <2>4. Claimed' => box.running
    <3> SUFFICES ASSUME Claimed' PROVE box.running
      OBVIOUS
    <3>1. \E e \in Endpoints : reported[e] = "active"
      BY <2>1, <2>3 DEF Claimed
    <3>2. ~disturbed /\ Alone
      BY <2>1, <3>1 DEF Harmful
    <3>3. ~Disabling
      BY <1>0, <3>2, IdleFacts DEF Alone, Disabling, GoroutineType
    <3> QED BY <3>1, <3>2, <3>3 DEF TunnelInv, Claimed, Starting, Alone
  <2> QED BY <2>1, <2>3, <2>4, TaskFacts DEF TunnelInv
<1> QED BY <1>1, <1>2, <1>3, <1>4

(* Every step keeps TunnelInv. *)
LEMMA NextTunnel == TypeInv /\ TunnelInv /\ [Next]_vars => TunnelInv'
<1> SUFFICES ASSUME TypeInv, TunnelInv, [Next]_vars PROVE TunnelInv'
  OBVIOUS
<1>1. CASE UNCHANGED vars
  BY <1>1 DEF vars, worldVars, TunnelInv, Starting, Claimed, Disabling
<1>2. CASE Next
  <2> SUFFICES ASSUME domain = "tunnel", ~disturbed' PROVE TunnelInv'
    BY <1>2, SameDomain DEF TunnelInv
  <2>1. ~ProbeEndpoint
    BY DEF ProbeEndpoint
  <2>2. ASSUME NEW p \in Procs, Step(p)
        PROVE  Call(p) \/ EndCommand(p) \/ BootTask(p)
    BY <2>2 DEF Step, Call
  <2> QED BY <1>2, <2>1, <2>2, TunnelCall, TunnelRest DEF Next
<1> QED BY <1>1, <1>2

(* Whenever no command is under way, a tunnel endpoint last reported       *)
(* active has a running cloudflared, for any number of endpoints that      *)
(* share it and of commands in flight.                                     *)
THEOREM ActiveTunnelsAreServed == Spec => []ActiveIsServed
<1>1. Init => TunnelInv
  <2> SUFFICES ASSUME Init, domain = "tunnel" PROVE TunnelInv
    BY DEF TunnelInv
  <2>1. FirstTask(domain, NoToken) = NoTask
    BY FirstTaskFacts
  <2>2. \A p \in Procs : pc[p] = "idle" /\ task[p] = NoTask
    BY <2>1 DEF Init
  <2>3. \A e \in Endpoints : reported[e] = "none"
    BY DEF Init
  <2> QED BY <2>2, <2>3, TaskFacts DEF TunnelInv, Claimed
<1>2. Spec => [](TypeInv /\ TunnelInv)
  BY <1>1, InitType, NextType, NextTunnel, PTL DEF Spec
<1>3. TypeInv /\ TunnelInv => ActiveIsServed
  <2> SUFFICES ASSUME TypeInv, TunnelInv, Settled("tunnel"), NEW e \in Endpoints, reported[e] = "active"
               PROVE  box.running
    BY DEF ActiveIsServed
  <2>1. domain = "tunnel" /\ ~disturbed /\ \A p \in Procs : pc[p] = "idle"
    BY DEF Settled, Alone
  <2>2. Claimed /\ ~Disabling
    BY <2>1, IdleFacts DEF Claimed, Disabling, TypeInv
  <2> QED BY <2>1, <2>2 DEF TunnelInv, Starting
<1> QED BY <1>2, <1>3, PTL

-----------------------------------------------------------------------------
(* Traefik *)

(* EnsureTraefik and reconnectTraefikToProjectNetworks at the start of the *)
(* agent, and a switch to ACME: one goroutine, alone, replaces Traefik.    *)
BootInv ==
    /\ task[Main].kind = "traefik" =>
        /\ pc[Main] = "find" => box = NoBox \/ box.running
        /\ pc[Main] \in {"pull", "create"} => box = NoBox
        /\ pc[Main] = "start" => box.id = task[Main].id
        /\ pc[Main] = "succeeded" => box.running
        /\ pc[Main] # "failed"
    /\ task[Main].kind = "reattach" =>
        /\ box.running /\ pc[Main] # "failed"
        /\ pc[Main] = "connect" => box.id = task[Main].id /\ routes \subseteq box.nets \cup task[Main].nets
        /\ pc[Main] = "succeeded" => routes \subseteq box.nets

SwitchInv(p) ==
    /\ \A q \in Procs : q # p => pc[q] = "idle"
    /\ pc[p] \in {"check", "find"} => box.running /\ routes \subseteq box.nets
    /\ pc[p] \in {"remove"} \cup Makes => routes \subseteq task[p].nets
    /\ pc[p] \in {"remove", "start"} => box.id = task[p].id
    /\ pc[p] \in {"pull", "create"} => box = NoBox
    /\ pc[p] = "connect" => box.running /\ box.id = task[p].id /\ routes \subseteq box.nets \cup task[p].nets
    /\ pc[p] = "succeeded" => box.running /\ routes \subseteq box.nets
    /\ pc[p] # "failed"

Switching == \E p \in Procs : task[p].kind = "acme"

(* Some deploy will still connect Traefik to the network. *)
Promised(n) ==
    \E p \in Procs :
        /\ task[p].kind = "attach" /\ n \in task[p].nets
        /\ pc[p] = "find" \/ (pc[p] = "connect" /\ task[p].id = box.id)

TraefikInv ==
    domain = "traefik" /\ ~disturbed =>
        /\ phase = "boot" => BootInv
        /\ \A p \in Procs : task[p].kind = "acme" => SwitchInv(p)
        /\ phase = "up" /\ ~Switching =>
            box.running /\ \A n \in routes : n \in box.nets \/ Promised(n)

(* What a call that does not fail does to Traefik and to the goroutine.    *)
CheckEffect(p) ==
    pc[p] = "check" /\ box' = box /\ task'[p] = task[p] /\ pc'[p] \in {"find", "succeeded"}

FindEffect(p) ==
    /\ pc[p] = "find" /\ box' = box /\ box.running /\ pc'[p] = FoundNext(task[p].kind)
    /\ task'[p].id = box.id /\ task'[p].nets = NetsToConnect(task[p])

MissEffect(p) ==
    pc[p] = "find" /\ box' = box /\ ~box.running /\ pc'[p] = NotFoundNext(task[p].kind) /\ task'[p] = task[p]

RemoveEffect(p) ==
    /\ pc[p] = "remove" /\ task'[p] = task[p]
    /\ \/ box.id = task[p].id /\ box' = NoBox /\ pc'[p] = RemovedNext(task[p].kind, TRUE)
       \/ box.id # task[p].id /\ box' = box /\ pc'[p] = RemovedNext(task[p].kind, FALSE)

CreateEffect(p) ==
    /\ pc[p] = "create"
    /\ \/ box = NoBox /\ pc'[p] = "start" /\ box'.id = task'[p].id /\ task'[p].nets = task[p].nets
       \/ box # NoBox /\ box' = box /\ pc'[p] = "failed" /\ task'[p] = task[p]

StartEffect(p) ==
    /\ pc[p] = "start" /\ task'[p] = task[p]
    /\ \/ /\ box.id = task[p].id /\ box'.running /\ box'.id = box.id /\ box'.nets = box.nets
          /\ pc'[p] = IF task[p].kind = "acme" THEN "connect" ELSE "succeeded"
       \/ box.id # task[p].id /\ box' = box /\ pc'[p] = "failed"

ConnectEffect(p) ==
    /\ pc[p] = "connect"
    /\ \/ task[p].nets = {} /\ box' = box /\ task'[p] = task[p] /\ pc'[p] = "succeeded"
       \/ \E n \in task[p].nets :
            /\ pc'[p] = "connect" /\ task'[p].id = task[p].id /\ task'[p].nets = task[p].nets \ {n}
            /\ \/ /\ box.id = task[p].id /\ box'.id = box.id /\ box'.running = box.running
                  /\ box'.nets = box.nets \cup {n}
               \/ box.id # task[p].id /\ box' = box

(* Every such call is one of these. *)
LEMMA CallEffects ==
    ASSUME TypeInv, NEW p \in Procs, Call(p), faults' = faults, domain = "traefik"
    PROVE  /\ \A q \in Procs : q # p => pc'[q] = pc[q] /\ task'[q] = task[q]
           /\ task'[p].kind = task[p].kind
           /\ \/ CheckEffect(p) \/ FindEffect(p) \/ MissEffect(p) \/ RemoveEffect(p) \/ CreateEffect(p)
              \/ StartEffect(p) \/ ConnectEffect(p)
              \/ pc[p] = "pull" /\ pc'[p] = "create" /\ box' = box /\ task'[p] = task[p]
<1>0. GoroutineType /\ ContainerType
  BY TypeParts
<1>1. task[p] \in TaskAt(nextId) /\ task[p].kind \in KindsIn("traefik") /\ pc[p] \in Path(task[p].kind)
  BY <1>0 DEF GoroutineType, RunInv
<1>2. pc[p] # "evict"
  BY <1>1 DEF KindsIn, Path, Makes, Ends
<1>3. ASSUME NEW to, NEW t, Moved(p, to, t)
      PROVE  /\ pc'[p] = to /\ task'[p] = t
             /\ \A q \in Procs : q # p => pc'[q] = pc[q] /\ task'[q] = task[q]
  BY <1>3, MovedFacts
<1>4. CASE CheckACME(p)
  BY <1>3, <1>4, CheckOutcome DEF CheckEffect
<1>5. CASE Find(p)
  <2>1. PICK t : t = [task[p] EXCEPT !.id = box.id, !.nets = NetsToConnect(task[p])]
    OBVIOUS
  <2>2. t.kind = task[p].kind /\ t.id = box.id /\ t.nets = NetsToConnect(task[p])
    <3>1. PICK ns : ns = NetsToConnect(task[p])
      OBVIOUS
    <3>2. t = [task[p] EXCEPT !.id = box.id, !.nets = ns]
      BY <2>1, <3>1
    <3>3. t.kind = task[p].kind /\ t.id = box.id /\ t.nets = ns
      BY <1>1, <3>2 DEF TaskAt
    <3> QED BY <3>1, <3>3
  <2>3. \/ box.running /\ Moved(p, FoundNext(task[p].kind), t)
        \/ ~box.running /\ Moved(p, NotFoundNext(task[p].kind), task[p])
    BY <1>5, <2>1, FindOutcome
  <2>4. pc[p] = "find" /\ box' = box
    BY <1>5, FindOutcome
  <2> QED BY <1>3, <2>2, <2>3, <2>4 DEF FindEffect, MissEffect
<1>6. CASE StopAndRemove(p)
  BY <1>3, <1>6, RemoveOutcome DEF RemoveEffect
<1>7. CASE PullImage(p)
  BY <1>3, <1>7, PullOutcome
<1>8. CASE Create(p)
  <2>1. CASE box = NoBox /\ box' = [NoBox EXCEPT !.id = nextId + 1, !.acme = (task[p].kind = "acme"),
                                                 !.token = task[p].token]
             /\ Moved(p, "start", [task[p] EXCEPT !.id = nextId + 1])
    <3>1. box'.id = nextId + 1
      BY <2>1 DEF NoBox
    <3>2. PICK t : t = [task[p] EXCEPT !.id = nextId + 1]
      OBVIOUS
    <3>3. t.id = nextId + 1 /\ t.kind = task[p].kind /\ t.nets = task[p].nets /\ Moved(p, "start", t)
      BY <1>1, <2>1, <3>2 DEF TaskAt
    <3>4. /\ pc'[p] = "start" /\ task'[p] = t
          /\ \A q \in Procs : q # p => pc'[q] = pc[q] /\ task'[q] = task[q]
      BY <1>3, <3>3
    <3>5. pc[p] = "create"
      BY <1>8, CreateOutcome
    <3> QED BY <2>1, <3>1, <3>3, <3>4, <3>5 DEF CreateEffect
  <2>2. CASE box # NoBox /\ box' = box /\ Moved(p, "failed", task[p])
    BY <1>3, <1>8, <2>2, CreateOutcome DEF CreateEffect
  <2> QED BY <1>8, <2>1, <2>2, CreateOutcome
<1>9. CASE Start(p)
  <2>1. \A b \in BoxAt(nextId) : /\ [b EXCEPT !.running = TRUE].running /\ [b EXCEPT !.running = TRUE].id = b.id
                                 /\ [b EXCEPT !.running = TRUE].nets = b.nets
    BY DEF BoxAt
  <2>2. CASE box.id = task[p].id /\ box' = [box EXCEPT !.running = TRUE]
             /\ Moved(p, IF task[p].kind = "acme" THEN "connect" ELSE "succeeded", task[p])
    <3>1. box'.running /\ box'.id = box.id /\ box'.nets = box.nets
      BY <1>0, <2>1, <2>2 DEF ContainerType
    <3> QED BY <1>3, <1>9, <2>2, <3>1, StartOutcome DEF StartEffect
  <2>3. CASE box.id # task[p].id /\ box' = box /\ Moved(p, "failed", task[p])
    BY <1>3, <1>9, <2>3, StartOutcome DEF StartEffect
  <2> QED BY <1>9, <2>2, <2>3, StartOutcome
<1>10. CASE ConnectNetwork(p)
  <2>1. pc[p] = "connect"
    BY <1>10, ConnectOutcome
  <2>2. CASE task[p].nets = {} /\ box' = box /\ Moved(p, "succeeded", task[p])
    BY <1>3, <2>1, <2>2 DEF ConnectEffect
  <2>3. ASSUME NEW n \in task[p].nets, Moved(p, "connect", [task[p] EXCEPT !.nets = task[p].nets \ {n}]),
               \/ box.id = task[p].id /\ box' = [box EXCEPT !.nets = box.nets \cup {n}]
               \/ box.id # task[p].id /\ box' = box
        PROVE  /\ \A q \in Procs : q # p => pc'[q] = pc[q] /\ task'[q] = task[q]
               /\ task'[p].kind = task[p].kind /\ ConnectEffect(p)
    <3>1. PICK t : t = [task[p] EXCEPT !.nets = task[p].nets \ {n}]
      OBVIOUS
    <3>2. t.kind = task[p].kind /\ t.id = task[p].id /\ t.nets = task[p].nets \ {n} /\ Moved(p, "connect", t)
      BY <1>1, <2>3, <3>1 DEF TaskAt
    <3>3. \/ /\ box.id = task[p].id /\ box'.id = box.id /\ box'.running = box.running
             /\ box'.nets = box.nets \cup {n}
          \/ box.id # task[p].id /\ box' = box
      BY <1>0, <2>3 DEF ContainerType, BoxAt
    <3> QED BY <1>3, <2>1, <3>2, <3>3 DEF ConnectEffect
  <2> QED BY <1>10, <2>2, <2>3, ConnectOutcome
<1> QED BY <1>2, <1>4, <1>5, <1>6, <1>7, <1>8, <1>9, <1>10 DEF Call, Evict

(* Run replaces or finds Traefik, and connects it, before any command. *)
LEMMA TraefikBoot ==
    ASSUME TypeInv, TraefikInv, Call(Main), domain = "traefik", ~disturbed'
    PROVE  TraefikInv'
<1>0. GoroutineType /\ ContainerType /\ Main \in Procs
  BY TypeParts, TaskFacts
<1>1. ~disturbed /\ faults' = faults /\ UNCHANGED <<domain, routes, phase>> /\ pc[Main] # "idle"
  BY <1>0, QuietCall, CallFacts
<1>2. /\ \A q \in Procs : q # Main => pc'[q] = pc[q] /\ task'[q] = task[q]
      /\ task'[Main].kind = task[Main].kind
      /\ \/ CheckEffect(Main) \/ FindEffect(Main) \/ MissEffect(Main) \/ RemoveEffect(Main) \/ CreateEffect(Main)
         \/ StartEffect(Main) \/ ConnectEffect(Main)
         \/ pc[Main] = "pull" /\ pc'[Main] = "create" /\ box' = box /\ task'[Main] = task[Main]
  BY <1>0, <1>1, CallEffects
<1>3. task[Main].kind \in {"traefik", "reattach"} /\ pc[Main] \in Path(task[Main].kind)
  BY <1>0, <1>1, IdleFacts DEF GoroutineType, RunInv, KindsIn, BootKinds
<1>4. phase = "boot" /\ \A q \in Workers : pc[q] = "idle" /\ task[q].kind = "none"
  <2>1. phase = "boot"
    BY <1>0, <1>1, TypeParts DEF GoroutineType, RunInv, WorldType
  <2> QED BY <1>0, <2>1, IdleFacts, TaskFacts DEF GoroutineType, RunInv
<1>5. \A q \in Procs : task'[q].kind # "acme"
  BY <1>2, <1>3, <1>4 DEF Procs
<1>6. box \in BoxAt(nextId)
  BY <1>0 DEF ContainerType
<1>7. BootInv
  BY <1>1, <1>4 DEF TraefikInv
<1>8. CASE task[Main].kind = "traefik"
  <2>1. pc[Main] \in {"find", "pull", "create", "start", "succeeded", "failed"}
    BY <1>3, <1>8 DEF Path, Makes, Ends
  <2>2. FoundNext("traefik") = "succeeded" /\ NotFoundNext("traefik") = "pull"
    BY DEF FoundNext, NotFoundNext
  <2>3. /\ pc'[Main] # "find"
        /\ pc'[Main] \in {"pull", "create"} => box' = NoBox
        /\ pc'[Main] = "start" => box'.id = task'[Main].id
        /\ pc'[Main] = "succeeded" => box'.running
        /\ pc'[Main] # "failed"
    BY <1>2, <1>7, <1>8, <2>1, <2>2 DEF BootInv, CheckEffect, FindEffect, MissEffect, RemoveEffect, CreateEffect,
                                        StartEffect, ConnectEffect
  <2>4. BootInv'
    BY <1>2, <1>8, <2>3 DEF BootInv
  <2> QED BY <1>1, <1>4, <1>5, <2>4 DEF TraefikInv
<1>9. CASE task[Main].kind = "reattach"
  <2>1. pc[Main] \in {"find", "connect", "succeeded", "failed"}
    BY <1>3, <1>9 DEF Path, Ends
  <2>2. FoundNext("reattach") = "connect" /\ NetsToConnect(task[Main]) = routes
    BY <1>9 DEF FoundNext, NetsToConnect
  <2>3. box.running /\ (pc[Main] = "connect" => box.id = task[Main].id /\ routes \subseteq box.nets \cup task[Main].nets)
    BY <1>7, <1>9 DEF BootInv
  <2>4. FindEffect(Main) \/ ConnectEffect(Main)
    BY <1>2, <2>1, <2>3 DEF CheckEffect, MissEffect, RemoveEffect, CreateEffect, StartEffect
  <2>5. /\ box'.running /\ pc'[Main] # "failed"
        /\ pc'[Main] = "connect" => box'.id = task'[Main].id /\ routes \subseteq box'.nets \cup task'[Main].nets
        /\ pc'[Main] = "succeeded" => routes \subseteq box'.nets
    <3>1. CASE FindEffect(Main)
      BY <1>9, <2>2, <2>3, <3>1 DEF FindEffect
    <3>2. CASE ConnectEffect(Main)
      BY <2>3, <3>2 DEF ConnectEffect
    <3> QED BY <2>4, <3>1, <3>2
  <2>6. BootInv'
    BY <1>1, <1>2, <1>9, <2>5 DEF BootInv
  <2> QED BY <1>1, <1>4, <1>5, <2>6 DEF TraefikInv
<1> QED BY <1>3, <1>8, <1>9

(* ReconfigureTraefikACME, alone, replaces Traefik and connects it again. *)
LEMMA TraefikSwitch ==
    ASSUME TypeInv, NEW p \in Procs, Call(p), task[p].kind = "acme", SwitchInv(p), domain = "traefik", ~disturbed'
    PROVE  SwitchInv(p)'
<1>0. GoroutineType /\ ContainerType
  BY TypeParts
<1>1. ~disturbed /\ faults' = faults /\ UNCHANGED routes
  BY QuietCall, CallFacts
<1>2. /\ \A q \in Procs : q # p => pc'[q] = pc[q] /\ task'[q] = task[q]
      /\ task'[p].kind = task[p].kind
      /\ \/ CheckEffect(p) \/ FindEffect(p) \/ MissEffect(p) \/ RemoveEffect(p) \/ CreateEffect(p)
         \/ StartEffect(p) \/ ConnectEffect(p)
         \/ pc[p] = "pull" /\ pc'[p] = "create" /\ box' = box /\ task'[p] = task[p]
  BY <1>1, CallEffects
<1>3. \A q \in Procs : q # p => pc'[q] = "idle"
  BY <1>2 DEF SwitchInv
<1> DEFINE Rest ==
        /\ pc'[p] \in {"check", "find"} => box'.running /\ routes \subseteq box'.nets
        /\ pc'[p] \in {"remove", "pull", "create", "start"} => routes \subseteq task'[p].nets
        /\ pc'[p] \in {"remove", "start"} => box'.id = task'[p].id
        /\ pc'[p] \in {"pull", "create"} => box' = NoBox
        /\ pc'[p] = "connect" =>
             box'.running /\ box'.id = task'[p].id /\ routes \subseteq box'.nets \cup task'[p].nets
        /\ pc'[p] = "succeeded" => box'.running /\ routes \subseteq box'.nets
        /\ pc'[p] # "failed"
<1>4. SUFFICES Rest
  BY <1>1, <1>3 DEF SwitchInv, Makes
<1>5. CASE CheckEffect(p)
  BY <1>5 DEF CheckEffect, SwitchInv
<1>6. CASE FindEffect(p)
  <2>1. FoundNext("acme") = "remove" /\ NetsToConnect(task[p]) = box.nets
    BY DEF FoundNext, NetsToConnect
  <2> QED BY <1>6, <2>1 DEF FindEffect, SwitchInv
<1>7. CASE RemoveEffect(p)
  BY <1>7 DEF RemoveEffect, RemovedNext, SwitchInv
<1>8. CASE CreateEffect(p)
  BY <1>8 DEF CreateEffect, SwitchInv, Makes
<1>9. CASE StartEffect(p)
  BY <1>9 DEF StartEffect, SwitchInv, Makes
<1>10. CASE ConnectEffect(p)
  BY <1>10 DEF ConnectEffect, SwitchInv
<1>11. CASE pc[p] = "pull" /\ pc'[p] = "create" /\ box' = box /\ task'[p] = task[p]
  BY <1>11 DEF SwitchInv, Makes
<1>12. CASE MissEffect(p)
  BY <1>12 DEF MissEffect, SwitchInv
<1> QED BY <1>2, <1>5, <1>6, <1>7, <1>8, <1>9, <1>10, <1>11, <1>12

(* A deploy connects Traefik to its network. *)
LEMMA TraefikAttach ==
    ASSUME TypeInv, TraefikInv, NEW p \in Procs, Call(p), task[p].kind = "attach", domain = "traefik", ~disturbed'
    PROVE  TraefikInv'
<1>0. GoroutineType /\ ContainerType
  BY TypeParts
<1>1. ~disturbed /\ faults' = faults /\ UNCHANGED <<domain, routes, phase>> /\ pc[p] # "idle"
  BY QuietCall, CallFacts
<1>2. /\ \A q \in Procs : q # p => pc'[q] = pc[q] /\ task'[q] = task[q]
      /\ task'[p].kind = task[p].kind
      /\ \/ CheckEffect(p) \/ FindEffect(p) \/ MissEffect(p) \/ RemoveEffect(p) \/ CreateEffect(p)
         \/ StartEffect(p) \/ ConnectEffect(p)
         \/ pc[p] = "pull" /\ pc'[p] = "create" /\ box' = box /\ task'[p] = task[p]
  BY <1>1, CallEffects
<1>3. p # Main /\ pc[p] \in {"find", "connect", "succeeded", "failed"}
  BY <1>0 DEF GoroutineType, RunInv, Path, BootKinds, Ends
<1>4. phase = "up"
  BY <1>0, <1>1, <1>3, TypeParts DEF GoroutineType, RunInv, WorldType, Procs
<1>5. ~Switching
  BY <1>1 DEF Switching, TraefikInv, SwitchInv
<1>6. box.running /\ \A n \in routes : n \in box.nets \/ Promised(n)
  BY <1>1, <1>4, <1>5 DEF TraefikInv
<1>7. \A q \in Procs : task'[q].kind # "acme"
  BY <1>2, <1>5 DEF Switching
<1>8. SUFFICES box'.running /\ \A n \in routes : n \in box'.nets \/ Promised(n)'
  BY <1>1, <1>4, <1>7 DEF TraefikInv
<1>9. CASE FindEffect(p)
  <2>1. FoundNext("attach") = "connect" /\ NetsToConnect(task[p]) = task[p].nets
    BY DEF FoundNext, NetsToConnect
  <2>2. /\ box' = box /\ pc'[p] = "connect" /\ task'[p].id = box.id /\ task'[p].nets = task[p].nets
    BY <1>9, <2>1 DEF FindEffect
  <2>3. \A n : Promised(n) => Promised(n)'
    BY <1>2, <2>2 DEF Promised
  <2> QED BY <1>6, <2>2, <2>3
<1>10. CASE ConnectEffect(p)
  <2>1. pc[p] = "connect"
    BY <1>10 DEF ConnectEffect
  <2>2. CASE task[p].nets = {} /\ box' = box
    <3>1. \A n : Promised(n) => Promised(n)'
      BY <1>2, <2>2 DEF Promised
    <3> QED BY <1>6, <2>2, <3>1
  <2>3. ASSUME NEW m \in task[p].nets, pc'[p] = "connect", task'[p].id = task[p].id,
               task'[p].nets = task[p].nets \ {m}, box.id = task[p].id, box'.id = box.id,
               box'.running = box.running, box'.nets = box.nets \cup {m}
        PROVE  box'.running /\ \A n \in routes : n \in box'.nets \/ Promised(n)'
    <3>1. \A n : n # m /\ Promised(n) => Promised(n)'
      BY <1>2, <2>1, <2>3 DEF Promised
    <3> QED BY <1>6, <2>3, <3>1
  <2>4. CASE box.id # task[p].id /\ box' = box
    <3>1. \A n : Promised(n) => Promised(n)'
      BY <1>2, <2>1, <2>4 DEF Promised
    <3> QED BY <1>6, <2>4, <3>1
  <2> QED BY <1>10, <2>2, <2>3, <2>4 DEF ConnectEffect
<1> QED BY <1>2, <1>3, <1>6, <1>9, <1>10 DEF CheckEffect, MissEffect, RemoveEffect, CreateEffect, StartEffect

(* Commands, their ends, and starts of the agent. *)
LEMMA TraefikRest ==
    ASSUME TypeInv, TraefikInv, domain = "traefik", ~disturbed',
           Crash \/ \E p \in Procs : Command(p) \/ EndCommand(p) \/ BootTask(p)
    PROVE  TraefikInv'
<1>0. GoroutineType /\ ContainerType /\ WorldType
  BY TypeParts
<1>1. ASSUME NEW p \in Procs, Command(p) PROVE TraefikInv'
  <2>1. PICK clash \in BOOLEAN, t \in TaskAt(0), at \in {"check", "find"} :
          /\ Moved(p, at, t) /\ Noted(t, clash)
          /\ \/ t.kind = "acme" /\ at = "check" /\ routes' = routes
             \/ t.kind = "attach" /\ at = "find" /\ routes' = routes \cup t.nets
    BY <1>1, CommandOutcome
  <2>2. ~disturbed /\ (\A q \in Workers : ~Collide(task[q], t))
    BY <2>1 DEF Noted
  <2>3. p # Main /\ pc[p] = "idle" /\ phase = "up" /\ UNCHANGED <<box, phase>>
    BY <1>1, CommandOutcome
  <2>4. /\ pc'[p] = at /\ task'[p] = t
        /\ \A q \in Procs : q # p => pc'[q] = pc[q] /\ task'[q] = task[q]
    BY <2>1, MovedFacts
  <2>5. \A q \in Procs : task[q].kind \in {"none", "attach", "acme"} /\ (task[q].kind # "none" => q \in Workers)
    BY <1>0, <2>3, IdleFacts DEF GoroutineType, RunInv, KindsIn, CommandKinds, Procs
  <2>6. \A q \in Procs : task[q].kind # "acme"
    BY <2>1, <2>2, <2>5 DEF Collide
  <2>7. box.running /\ \A n \in routes : n \in box.nets \/ Promised(n)
    BY <2>2, <2>3, <2>6 DEF TraefikInv, Switching
  <2>8. CASE t.kind = "acme"
    <3>1. \A q \in Procs : task[q].kind = "none" /\ pc[q] = "idle"
      <4>1. \A q \in Procs : task[q].kind = "none"
        BY <2>2, <2>5, <2>6, <2>8 DEF Collide
      <4> QED BY <1>0, <4>1, IdleFacts DEF GoroutineType
    <3>2. routes \subseteq box.nets
      BY <2>7, <3>1 DEF Promised
    <3>3. \A q \in Procs : q # p => pc'[q] = "idle" /\ task'[q].kind # "acme"
      BY <2>4, <3>1
    <3>4. SwitchInv(p)'
      BY <2>1, <2>3, <2>4, <2>7, <2>8, <3>2, <3>3 DEF SwitchInv, Makes
    <3>5. Switching'
      BY <2>4, <2>8 DEF Switching
    <3> QED BY <2>3, <2>4, <3>3, <3>4, <3>5 DEF TraefikInv
  <2>9. CASE t.kind = "attach"
    <3>1. \A q \in Procs : task'[q].kind # "acme"
      BY <2>4, <2>6, <2>9
    <3>2. \A n : Promised(n) => Promised(n)'
      BY <2>3, <2>4 DEF Promised
    <3>3. \A n \in t.nets : Promised(n)'
      BY <2>1, <2>4, <2>9 DEF Promised
    <3>4. box'.running /\ \A n \in routes' : n \in box'.nets \/ Promised(n)'
      BY <2>1, <2>3, <2>7, <2>9, <3>2, <3>3
    <3> QED BY <2>3, <3>1, <3>4 DEF TraefikInv
  <2> QED BY <2>1, <2>8, <2>9
<1>2. ASSUME NEW p \in Procs, EndCommand(p) PROVE TraefikInv'
  <2>1. /\ p # Main /\ pc[p] \in Ends /\ phase = "up" /\ Moved(p, "idle", NoTask)
        /\ UNCHANGED <<box, routes, phase>>
        /\ disturbed' = (disturbed \/ (faults' # faults /\ Harmful))
    BY <1>2, EndOutcome
  <2>2. /\ pc'[p] = "idle" /\ task'[p] = NoTask
        /\ \A q \in Procs : q # p => pc'[q] = pc[q] /\ task'[q] = task[q]
    BY <2>1, MovedFacts
  <2>3. ~disturbed /\ pc[p] # "idle"
    BY <2>1 DEF Ends
  <2>4. \A q \in Procs : q # p => task[q].kind # "acme"
    BY <2>3 DEF TraefikInv, SwitchInv
  <2>5. \A q \in Procs : task'[q].kind # "acme"
    BY <2>2, <2>4, TaskFacts
  <2>6. box.running /\ \A n \in routes : n \in box.nets \/ Promised(n)
    <3>1. CASE task[p].kind = "acme"
      <4>1. SwitchInv(p)
        BY <2>3, <3>1 DEF TraefikInv
      <4> QED BY <2>1, <4>1 DEF SwitchInv, Ends
    <3>2. CASE task[p].kind # "acme"
      BY <2>1, <2>3, <2>4, <3>2 DEF TraefikInv, Switching
    <3> QED BY <3>1, <3>2
  <2>7. \A n : Promised(n) => Promised(n)'
    BY <2>1, <2>2 DEF Promised, Ends
  <2> QED BY <2>1, <2>5, <2>6, <2>7 DEF TraefikInv
<1>3. ASSUME NEW p \in Procs, BootTask(p) PROVE TraefikInv'
  <2>1. /\ pc[Main] \in Ends /\ phase = "boot" /\ UNCHANGED <<domain, box, routes, disturbed>>
    BY <1>3, BootOutcome
  <2>2. PICK t \in TaskAt(0) :
          /\ BootWith(t)
          /\ \/ task[Main].kind = "traefik" /\ t.kind = "reattach" /\ t # NoTask
             \/ task[Main].kind # "traefik" /\ t = NoTask
    BY <1>3, BootOutcome
  <2>3. /\ phase' = IF t = NoTask THEN "up" ELSE "boot"
        /\ \A q \in Procs : pc'[q] = IF q = Main /\ t # NoTask THEN "find" ELSE "idle"
        /\ \A q \in Procs : task'[q] = IF q = Main THEN t ELSE NoTask
    BY <2>2 DEF BootWith
  <2>4. \A q \in Procs : task'[q].kind # "acme"
    BY <2>2, <2>3, TaskFacts
  <2>5. BootInv
    BY <2>1 DEF TraefikInv
  <2>6. CASE task[Main].kind = "traefik"
    <3>1. box.running
      BY <2>1, <2>5, <2>6 DEF BootInv, Ends
    <3>2. phase' = "boot" /\ pc'[Main] = "find" /\ task'[Main].kind = "reattach"
      BY <2>2, <2>3, <2>6, TaskFacts
    <3>3. BootInv'
      BY <2>1, <3>1, <3>2 DEF BootInv
    <3> QED BY <2>4, <3>2, <3>3 DEF TraefikInv
  <2>7. CASE task[Main].kind # "traefik"
    <3>1. task[Main].kind = "reattach"
      BY <1>0, <2>1, <2>7, IdleFacts, TaskFacts DEF GoroutineType, RunInv, KindsIn, BootKinds, Ends
    <3>2. box.running /\ routes \subseteq box.nets
      BY <2>1, <2>5, <3>1 DEF BootInv, Ends
    <3>3. phase' = "up"
      BY <2>2, <2>3, <2>7
    <3> QED BY <2>1, <2>4, <3>2, <3>3 DEF TraefikInv
  <2> QED BY <2>6, <2>7
<1>4. CASE Crash
  <2>1. /\ BootWith(FirstTask(domain, saved)) /\ UNCHANGED <<domain, box, routes>>
        /\ disturbed' = (box # NoBox /\ ~box.running)
    BY <1>4 DEF Crash, worldVars
  <2>2. PICK t : t = FirstTask(domain, saved)
    OBVIOUS
  <2>3. t.kind = "traefik" /\ t # NoTask
    BY <1>0, <2>2, FirstTaskFacts, TaskFacts DEF WorldType
  <2>4. /\ phase' = "boot" /\ pc'[Main] = "find" /\ task'[Main] = t
        /\ \A q \in Procs : q # Main => task'[q] = NoTask
    BY <2>1, <2>2, <2>3, TaskFacts DEF BootWith
  <2>5. \A q \in Procs : task'[q].kind # "acme"
    BY <2>3, <2>4, TaskFacts
  <2>6. BootInv'
    BY <2>1, <2>3, <2>4 DEF BootInv
  <2> QED BY <2>4, <2>5, <2>6 DEF TraefikInv
<1> QED BY <1>1, <1>2, <1>3, <1>4

(* Every step keeps TraefikInv. *)
LEMMA NextTraefik == TypeInv /\ TraefikInv /\ [Next]_vars => TraefikInv'
<1> SUFFICES ASSUME TypeInv, TraefikInv, [Next]_vars PROVE TraefikInv'
  OBVIOUS
<1>1. CASE UNCHANGED vars
  BY <1>1 DEF vars, worldVars, TraefikInv, BootInv, SwitchInv, Switching, Promised
<1>2. CASE Next
  <2> SUFFICES ASSUME domain = "traefik", ~disturbed' PROVE TraefikInv'
    BY <1>2, SameDomain DEF TraefikInv
  <2>1. ~ProbeEndpoint
    BY DEF ProbeEndpoint
  <2>2. ASSUME NEW p \in Procs, Step(p)
        PROVE  Call(p) \/ EndCommand(p) \/ BootTask(p)
    BY <2>2 DEF Step, Call
  <2>3. ASSUME NEW p \in Procs, Call(p) PROVE TraefikInv'
    <3>1. pc[p] # "idle" /\ ~disturbed /\ UNCHANGED <<domain, phase>> /\ faults' = faults
      BY <2>3, CallFacts, QuietCall
    <3>2. GoroutineType
      BY TypeParts
    <3>3. CASE p = Main
      BY <2>3, <3>3, TraefikBoot
    <3>4. CASE p # Main
      <4>1. task[p].kind \in {"attach", "acme"}
        BY <3>1, <3>2, <3>4, IdleFacts DEF GoroutineType, RunInv, KindsIn, CommandKinds
      <4>2. CASE task[p].kind = "attach"
        BY <2>3, <4>2, TraefikAttach
      <4>3. CASE task[p].kind = "acme"
        <5>1. SwitchInv(p)
          BY <3>1, <4>3 DEF TraefikInv
        <5>2. SwitchInv(p)'
          BY <2>3, <4>3, <5>1, TraefikSwitch
        <5>3. task'[p].kind = "acme" /\ \A q \in Procs : q # p => task'[q] = task[q] /\ pc[q] = "idle"
          BY <2>3, <3>1, <4>3, <5>1, CallEffects DEF SwitchInv
        <5>4. \A q \in Procs : q # p => task'[q].kind # "acme"
          BY <3>2, <5>3, IdleFacts DEF GoroutineType
        <5>5. phase = "up"
          BY <3>1, <3>2, <3>4, TypeParts DEF GoroutineType, RunInv, WorldType, Procs
        <5> QED BY <3>1, <5>2, <5>3, <5>4, <5>5 DEF TraefikInv, Switching
      <4> QED BY <4>1, <4>2, <4>3
    <3> QED BY <3>3, <3>4
  <2> QED BY <1>2, <2>1, <2>2, <2>3, TraefikRest DEF Next
<1> QED BY <1>1, <1>2

(* Whenever no command is under way, Traefik runs and is on the network of *)
(* every service, for any number of networks and of deploys in flight.     *)
THEOREM TraefikServesRoutes == Spec => []RoutesServed
<1>1. Init => TraefikInv
  <2> SUFFICES ASSUME Init, domain = "traefik" PROVE TraefikInv
    BY DEF TraefikInv
  <2>1. PICK t : t = FirstTask(domain, NoToken)
    OBVIOUS
  <2>2. t.kind = "traefik" /\ t # NoTask
    BY <2>1, FirstTaskFacts, TaskFacts
  <2>3. /\ phase = "boot" /\ pc[Main] = "find" /\ task[Main] = t /\ box = NoBox
        /\ \A q \in Procs : q # Main => task[q] = NoTask
    BY <2>1, <2>2, TaskFacts DEF Init
  <2>4. BootInv
    BY <2>2, <2>3 DEF BootInv
  <2>5. \A q \in Procs : task[q].kind # "acme"
    BY <2>2, <2>3, TaskFacts
  <2> QED BY <2>3, <2>4, <2>5 DEF TraefikInv
<1>2. Spec => [](TypeInv /\ TraefikInv)
  BY <1>1, InitType, NextType, NextTraefik, PTL DEF Spec
<1>3. TypeInv /\ TraefikInv => RoutesServed
  <2> SUFFICES ASSUME TypeInv, TraefikInv, Settled("traefik") PROVE box.running /\ routes \subseteq box.nets
    BY DEF RoutesServed
  <2>1. domain = "traefik" /\ phase = "up" /\ ~disturbed /\ \A p \in Procs : pc[p] = "idle"
    BY DEF Settled, Alone
  <2>2. ~Switching
    BY <2>1, IdleFacts DEF Switching, TypeInv
  <2> QED BY <2>1, <2>2 DEF TraefikInv, Promised
<1> QED BY <1>2, <1>3, PTL

-----------------------------------------------------------------------------
(* The providers *)

AnswerInv ==
    answer = NoAnswer \/ \E provider \in Providers, w \in Worlds :
        answer = [provider |-> provider, world |-> w,
                  ensure |-> HandleEnsure(provider, w), doctor |-> HandleDoctor(provider, w)]

(* An error claims nothing. *)
LEMMA ErrorFields ==
    ASSUME NEW d, NEW v \in {"", "agent"}, d = Status("error", v, "", "")
    PROVE  d.status = "error" /\ d.verifiedBy = v
BY DEF Status

(* What a Doctor answers, and what it had seen. *)
LEMMA DoctorFacts ==
    ASSUME NEW provider, NEW w \in Worlds, NEW d, d = HandleDoctor(provider, w)
    PROVE  /\ d.status = "active" => w.route \in {"ok", "auth"}
           /\ d.status = "active" /\ provider \in {"public_direct", "public_tunnel_cloudflare"}
                 => d.verifiedBy = "public"
           /\ d.verifiedBy = "public" => w.route \in {"ok", "auth"} /\ w.public \in {"ok", "auth"}
<1> DEFINE both == Healthy(w.route) /\ Healthy(w.public)
<1>1. CASE provider = "lan_only"
  BY <1>1 DEF HandleDoctor, LANDoctor, Status, Healthy
<1>2. CASE provider = "byo_proxy"
  BY <1>2 DEF HandleDoctor, BYOProxyDoctor, Status, Healthy
<1>3. CASE provider = "public_direct"
  <2>1. d = IF ~(w.hostname /\ w.dns)
            THEN Status("error", "agent", "", "")
            ELSE Status(IF both /\ w.port80 /\ w.port443 THEN "active" ELSE "degraded",
                        IF both THEN "public" ELSE "agent", Probe(w.route), Probe(w.public))
    BY <1>3 DEF HandleDoctor, DirectDoctor
  <2>2. both => Healthy(w.route) /\ Healthy(w.public)
    OBVIOUS
  <2> HIDE DEF both
  <2>3. CASE both
    <3>1. Healthy(w.route) /\ Healthy(w.public)
      BY <2>2, <2>3
    <3>2. CASE d = Status("error", "agent", "", "")
      <4>1. d.status = "error" /\ d.verifiedBy = "agent"
        BY <3>2, ErrorFields
      <4> QED BY <4>1
    <3>3. CASE \/ d = Status("active", "public", Probe(w.route), Probe(w.public))
               \/ d = Status("degraded", "public", Probe(w.route), Probe(w.public))
      BY <3>1, <3>3 DEF Status, Healthy
    <3> QED BY <2>1, <2>3, <3>2, <3>3
  <2>4. CASE ~both
    <3>1. CASE d = Status("error", "agent", "", "")
      <4>1. d.status = "error" /\ d.verifiedBy = "agent"
        BY <3>1, ErrorFields
      <4> QED BY <4>1
    <3>2. CASE d = Status("degraded", "agent", Probe(w.route), Probe(w.public))
      BY <3>2 DEF Status
    <3> QED BY <2>1, <2>4, <3>1, <3>2
  <2> QED BY <2>3, <2>4
<1>4. CASE provider = "private_tailscale_https"
  BY <1>4 DEF HandleDoctor, TailscaleDoctor, Status, Error, Healthy
<1>5. CASE provider = "public_tunnel_cloudflare"
  <2>1. d = IF ~w.token \/ w.container = "absent" THEN Status("error", "", "", "")
            ELSE Status(IF both THEN "active" ELSE "degraded", IF both THEN "public" ELSE "agent",
                        Probe(w.route), Probe(w.public))
    BY <1>5 DEF HandleDoctor, CFTunnelDoctor, Error
  <2>2. both => Healthy(w.route) /\ Healthy(w.public)
    OBVIOUS
  <2> HIDE DEF both
  <2>3. CASE both
    <3>1. Healthy(w.route) /\ Healthy(w.public)
      BY <2>2, <2>3
    <3>2. CASE d = Status("error", "", "", "")
      <4>1. d.status = "error" /\ d.verifiedBy = ""
        BY <3>2, ErrorFields
      <4> QED BY <4>1
    <3>3. CASE \/ d = Status("active", "public", Probe(w.route), Probe(w.public))
               \/ d = Status("degraded", "public", Probe(w.route), Probe(w.public))
      BY <3>1, <3>3 DEF Status, Healthy
    <3> QED BY <2>1, <2>3, <3>2, <3>3
  <2>4. CASE ~both
    <3>1. CASE d = Status("error", "", "", "")
      <4>1. d.status = "error" /\ d.verifiedBy = ""
        BY <3>1, ErrorFields
      <4> QED BY <4>1
    <3>2. CASE d = Status("degraded", "agent", Probe(w.route), Probe(w.public))
      BY <3>2 DEF Status
    <3> QED BY <2>1, <2>4, <3>1, <3>2
  <2> QED BY <2>3, <2>4
<1>6. CASE provider \notin {"lan_only", "byo_proxy", "public_direct", "private_tailscale_https",
                            "public_tunnel_cloudflare"}
  BY <1>6 DEF HandleDoctor, Error, Status
<1> QED BY <1>1, <1>2, <1>3, <1>4, <1>5, <1>6

(* The last probe is what its provider made of a world. *)
LEMMA NextAnswer == TypeInv /\ AnswerInv /\ [Next]_vars => AnswerInv'
<1> SUFFICES ASSUME TypeInv, AnswerInv, [Next]_vars PROVE AnswerInv'
  OBVIOUS
<1>1. CASE ProbeEndpoint
  BY <1>1 DEF ProbeEndpoint, AnswerInv
<1>2. CASE answer' = answer
  BY <1>2 DEF AnswerInv
<1>3. ASSUME NEW p \in Procs, Command(p) \/ Step(p) PROVE answer' = answer
  <2>1. CASE Command(p)
    BY <2>1, CommandOutcome
  <2>2. CASE EndCommand(p)
    BY <2>2, EndOutcome
  <2>3. CASE BootTask(p)
    BY <2>3, BootOutcome
  <2>4. CASE Call(p)
    BY <2>4, CallFacts
  <2> QED BY <1>3, <2>1, <2>2, <2>3, <2>4 DEF Step, Call
<1>4. Crash => answer' = answer
  BY DEF Crash, worldVars
<1>5. UNCHANGED vars => answer' = answer
  BY DEF vars, worldVars
<1> QED BY <1>1, <1>2, <1>3, <1>4, <1>5 DEF Next

(* A Doctor that answers active has had a good answer through the local    *)
(* route and, for a public endpoint, from outside, whatever else it found. *)
THEOREM DoctorsProve == Spec => []DoctorProves
<1>1. Init => AnswerInv
  BY DEF Init, AnswerInv
<1>2. Spec => [](TypeInv /\ AnswerInv)
  BY <1>1, InitType, NextType, NextAnswer, PTL DEF Spec
<1>3. AnswerInv => DoctorProves
  <2> SUFFICES ASSUME AnswerInv, answer # NoAnswer PROVE DoctorProves
    BY DEF DoctorProves
  <2>1. PICK provider \in Providers, w \in Worlds :
          answer = [provider |-> provider, world |-> w,
                    ensure |-> HandleEnsure(provider, w), doctor |-> HandleDoctor(provider, w)]
    BY DEF AnswerInv
  <2>2. answer.provider = provider /\ answer.world = w /\ answer.doctor = HandleDoctor(provider, w)
    BY <2>1
  <2> QED BY <2>2, DoctorFacts DEF DoctorProves
<1> QED BY <1>2, <1>3, PTL
=============================================================================
