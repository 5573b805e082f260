------------------------------- MODULE Deploys -------------------------------
(***************************************************************************)
(* Deploying services: CommandHandler.HandleDeploy with its build slots,   *)
(* duplicate filter and REMOVE guard (internal/agent/handler.go),          *)
(* Deployer.Deploy (internal/deploy/deployer.go), HandleContainerCommand   *)
(* and the network pruner, on one Docker host.                             *)
(*                                                                         *)
(* ReceiveCommands starts a goroutine per command, so any number of        *)
(* deploys and removals interleave; one action is one Docker call or one   *)
(* critical section of a handler's mutex.                                  *)
(*                                                                         *)
(* Abstractions.  A container is named by its deployment (the name is      *)
(* clank-<slug>-<deployment>) and has an id that grows with its creation   *)
(* time.  All services belong to one project network.  Expiry times        *)
(* (2 min, 5 min, 1 h) are free choices of the clock, restricted by the    *)
(* constants below.  Ports, labels, environment, volumes and endpoint      *)
(* configuration are left out.  Creating and starting a container is one   *)
(* step.  A StopAndRemove that fails leaves its container as it was.       *)
(***************************************************************************)
EXTENDS Naturals, FiniteSets, FiniteSetsExt

CONSTANTS
    Deployments, Slugs, SlugOf,  \* deployments, services, the service of each deployment
    BlueGreen,       \* deployments with a health check path and no volumes
    Built,           \* deployments built from source (their image is clank-<slug>:...)
    Handlers,        \* goroutines running HandleDeploy
    Removers,        \* goroutines running HandleContainerCommand REMOVE
    MaxBuilds,       \* capacity of buildSem
    SeenExpires,     \* a deploy may outlast its two minutes in deploymentsSeen
    GuardExpires,    \* a deploy may outlast its hour in activeDeploys
    TraefikRuns,     \* the host runs Traefik
    MaxContainers,   \* bound: containers ever created
    MaxStops,        \* bound: containers stopped by a command or by their own exit
    MaxFaults,       \* bound: Docker calls that fail in a deploy, which goes on or leaves
                     \* its container behind
    MaxCrashes       \* bound: crashes of the agent process

ASSUME DeployConstants ==
    /\ Deployments # {} /\ SlugOf \in [Deployments -> Slugs]
    /\ BlueGreen \subseteq Deployments /\ Built \subseteq Deployments
    /\ MaxBuilds \in Nat \ {0}
    /\ {SeenExpires, GuardExpires, TraefikRuns} \subseteq BOOLEAN
    /\ MaxContainers \in Nat /\ MaxStops \in Nat /\ MaxFaults \in Nat /\ MaxCrashes \in Nat

VARIABLES
    containers,      \* what `docker ps -a' shows
    created,         \* containers created so far: the last id
    images,          \* deployments whose image is on the host
    network,         \* the project network exists
    traefik,         \* Traefik is attached to it
    pc, job,         \* where each deploy handler is, and its local variables
    rpc, removal,    \* the same for the removals
    slots,           \* handlers that hold a slot of buildSem
    seen,            \* deploymentsSeen
    guard,           \* activeDeploys
    lapsed,          \* history: services whose guard ran out during a deploy
    owed,            \* history: handlers whose command has had no answer yet
    latest,          \* history: the deployment of each service last reported active,
                     \* until a recreate deploy takes it down
    checked,         \* history: containers that passed their checks
    blind,           \* history: deployments whose fast path could not see their container,
                     \* until they are reported active
    stops, faults, crashes

dockerVars == <<containers, created, images, network, traefik>>
handlerVars == <<slots, seen, guard, lapsed>>
historyVars == <<owed, latest, checked, blind>>
boundVars == <<stops, faults, crashes>>
vars == <<dockerVars, pc, job, rpc, removal, handlerVars, historyVars, boundVars>>

None == 0
Ids == 1 .. MaxContainers
Container == [id : Ids, dep : Deployments, up : BOOLEAN]

Unguarded == {"idle", "acquire", "dedup", "mark", "guard"}
Deploying == {"diskGuard", "build", "network", "find", "stopOld", "pull", "fastPath", "run", "traefik",
              "inspect", "health", "switch", "report", "unguard"}
PC == Unguarded \cup Deploying \cup {"unsee", "release"}

Job == [dep : Deployments, old : Ids \cup {None}, new : Ids \cup {None}, ok : BOOLEAN]

TypeOK ==
    /\ containers \in SUBSET Container
    /\ created \in 0 .. MaxContainers
    /\ images \in SUBSET Deployments
    /\ network \in BOOLEAN /\ traefik \in BOOLEAN
    /\ pc \in [Handlers -> PC]
    /\ job \in [Handlers -> Job]
    /\ rpc \in [Removers -> {"idle", "check", "list", "remove", "images", "network"}]
    /\ removal \in [Removers -> [slug : Slugs, todo : SUBSET Ids, any : BOOLEAN]]
    /\ slots \in SUBSET Handlers /\ Cardinality(slots) <= MaxBuilds
    /\ seen \in [Deployments -> {"no", "working", "recent"}]
    /\ guard \in [Slugs -> {"no", "deploying", "grace"}]
    /\ lapsed \in SUBSET Slugs /\ owed \in SUBSET Handlers
    /\ latest \in [Slugs -> SUBSET Deployments]
    /\ checked \in SUBSET Ids /\ blind \in SUBSET Deployments
    /\ stops \in 0 .. MaxStops /\ faults \in 0 .. MaxFaults /\ crashes \in 0 .. MaxCrashes

NoJob == [dep |-> CHOOSE d \in Deployments : TRUE, old |-> None, new |-> None, ok |-> FALSE]
NoRemoval == [slug |-> CHOOSE s \in Slugs : TRUE, todo |-> {}, any |-> FALSE]

Init ==
    /\ containers = {} /\ created = 0 /\ images = {}
    /\ network = FALSE /\ traefik = FALSE
    /\ pc = [h \in Handlers |-> "idle"] /\ job = [h \in Handlers |-> NoJob]
    /\ rpc = [r \in Removers |-> "idle"] /\ removal = [r \in Removers |-> NoRemoval]
    /\ slots = {}
    /\ seen = [d \in Deployments |-> "no"]
    /\ guard = [s \in Slugs |-> "no"]
    /\ lapsed = {} /\ owed = {}
    /\ latest = [s \in Slugs |-> {}]
    /\ checked = {} /\ blind = {}
    /\ stops = 0 /\ faults = 0 /\ crashes = 0

-----------------------------------------------------------------------------
(* The Docker host *)

Of(s) == {c \in containers : SlugOf[c.dep] = s}
Running(s) == {c \in Of(s) : c.up}
WithId(i) == {c \in containers : c.id = i}

(* FindContainerByLabel: the newest running container of a service. *)
NewestRunning(s) ==
    IF Running(s) = {} THEN None ELSE Max({c.id : c \in Running(s)})

(* FindContainerByName, stopped containers included. *)
Named(d) == {c \in containers : c.dep = d}

StopAndRemove(i) == containers' = containers \ WithId(i)

(* A network is empty when no running container and no Traefik is attached. *)
NetworkEmpty == ~traefik /\ \A c \in containers : ~c.up

RemoveNetworkIfEmpty == network' = (network /\ ~NetworkEmpty)

-----------------------------------------------------------------------------
(* Admission of a deploy command *)

Go(h, to) == pc' = [pc EXCEPT ![h] = to]

(* The handler's next step when it has nothing but local state to change. *)
Quiet == UNCHANGED <<dockerVars, rpc, removal, handlerVars, historyVars, boundVars>>

(* ReceiveCommands starts a handler.  The control plane may repeat a       *)
(* deployment whose answer it has not seen.                                *)
ReceiveDeploy(h, d) ==
    /\ pc[h] = "idle"
    /\ job' = [job EXCEPT ![h] = [NoJob EXCEPT !.dep = d]]
    /\ owed' = owed \cup {h}
    /\ Go(h, "acquire")
    /\ UNCHANGED <<dockerVars, rpc, removal, handlerVars, latest, checked, blind, boundVars>>

AcquireSlot_Unbounded(h) ==
    /\ pc[h] = "acquire"
    /\ slots' = slots \cup {h}
    /\ Go(h, "dedup")
    /\ UNCHANGED <<dockerVars, job, rpc, removal, seen, guard, lapsed, historyVars, boundVars>>

(* buildSem is taken before the duplicate filter. *)
AcquireSlot(h) ==
    /\ pc[h] = "acquire"
    /\ Cardinality(slots) < MaxBuilds
    /\ slots' = slots \cup {h}
    /\ Go(h, "dedup")
    /\ UNCHANGED <<dockerVars, job, rpc, removal, seen, guard, lapsed, historyVars, boundVars>>

(* isDeploymentSeen finds the deployment: the handler returns and leaves   *)
(* the answer to the one it repeats ...                                    *)
SkipDuplicate(h) ==
    /\ pc[h] = "dedup"
    /\ seen[job[h].dep] # "no"
    /\ slots' = slots \ {h}
    /\ job' = [job EXCEPT ![h] = NoJob]
    /\ owed' = owed \ {h}
    /\ Go(h, "idle")
    /\ UNCHANGED <<dockerVars, rpc, removal, seen, guard, lapsed, latest, checked, blind, boundVars>>

(* ... or does not, and the mutex is released before it is marked. *)
NotSeen(h) ==
    /\ pc[h] = "dedup"
    /\ seen[job[h].dep] = "no"
    /\ Go(h, "mark")
    /\ UNCHANGED job /\ Quiet

MarkDeploymentSeen(h) ==
    /\ pc[h] = "mark"
    /\ seen' = [seen EXCEPT ![job[h].dep] = "working"]
    /\ Go(h, "guard")
    /\ UNCHANGED <<dockerVars, job, rpc, removal, slots, guard, lapsed, historyVars, boundVars>>

MarkDeployActive_KeepsGrace(h) ==
    /\ pc[h] = "guard"
    /\ guard' = [guard EXCEPT ![SlugOf[job[h].dep]] = IF @ = "no" THEN "deploying" ELSE @]
    /\ lapsed' = lapsed \ {SlugOf[job[h].dep]}
    /\ Go(h, "diskGuard")
    /\ UNCHANGED <<dockerVars, job, rpc, removal, slots, seen, historyVars, boundVars>>

MarkDeployActive(h) ==
    /\ pc[h] = "guard"
    /\ guard' = [guard EXCEPT ![SlugOf[job[h].dep]] = "deploying"]
    /\ lapsed' = lapsed \ {SlugOf[job[h].dep]}
    /\ Go(h, "diskGuard")
    /\ UNCHANGED <<dockerVars, job, rpc, removal, slots, seen, historyVars, boundVars>>

-----------------------------------------------------------------------------
(* Building and deploying *)

(* What a step of Deploy leaves alone besides the Docker host; ... *)
InDeploy == UNCHANGED <<rpc, removal, handlerVars, boundVars>>

(* ... one of its Docker calls may fail. *)
Fault ==
    /\ faults < MaxFaults
    /\ faults' = faults + 1
    /\ UNCHANGED <<rpc, removal, handlerVars, stops, crashes>>

(* The terminal "failed" or "build_failed" status. *)
Fail(h) ==
    /\ owed' = owed \ {h}
    /\ Go(h, "unguard")
    /\ UNCHANGED <<job, latest, checked, blind>>

(* The terminal "active" status. *)
Activate(h, to) ==
    /\ owed' = owed \ {h}
    /\ latest' = [latest EXCEPT ![SlugOf[job[h].dep]] = {job[h].dep}]
    /\ blind' = blind \ {job[h].dep}
    /\ job' = [job EXCEPT ![h].ok = TRUE]
    /\ Go(h, to)

(* evaluateDeployDiskGuard finds room enough, or is overridden by force; *)
(* the preview of a clean-up it makes removes nothing.                     *)
EvaluateDeployDiskGuard(h) ==
    /\ pc[h] = "diskGuard"
    /\ Go(h, "build")
    /\ UNCHANGED <<dockerVars, job, historyVars>> /\ InDeploy

(* The image is cloned and built, unless the command names one ... *)
Build(h) ==
    /\ pc[h] = "build"
    /\ images' = images \cup ({job[h].dep} \cap Built)
    /\ Go(h, "network")
    /\ UNCHANGED <<containers, created, network, traefik, job, historyVars>> /\ InDeploy

(* ... or the deploy ends without a new container: the disk guard, the      *)
(* build, or later the creation of the network or the pull fails.           *)
DeployFails(h) ==
    /\ pc[h] \in {"diskGuard", "build", "network", "pull"}
    /\ Fail(h)
    /\ UNCHANGED dockerVars /\ InDeploy

EnsureNetwork(h) ==
    /\ pc[h] = "network"
    /\ network' = TRUE
    /\ Go(h, "find")
    /\ UNCHANGED <<containers, created, images, traefik, job, historyVars>> /\ InDeploy

FindOld_AlwaysRecreate(h) ==
    LET old == NewestRunning(SlugOf[job[h].dep]) IN
    /\ pc[h] = "find"
    /\ job' = [job EXCEPT ![h].old = old]
    /\ Go(h, IF old # None THEN "stopOld" ELSE "pull")
    /\ UNCHANGED <<dockerVars, historyVars>> /\ InDeploy

(* FindContainerByLabel; the strategy is chosen by shouldBlueGreen. *)
FindOld(h) ==
    LET old == NewestRunning(SlugOf[job[h].dep]) IN
    /\ pc[h] = "find"
    /\ job' = [job EXCEPT ![h].old = old]
    /\ Go(h, IF old # None /\ job[h].dep \notin BlueGreen THEN "stopOld" ELSE "pull")
    /\ UNCHANGED <<dockerVars, historyVars>> /\ InDeploy

(* The search fails, which is only logged: the deploy goes on as if there  *)
(* were no old container.                                                  *)
FindOldFails(h) ==
    /\ pc[h] = "find"
    /\ Go(h, "pull")
    /\ UNCHANGED <<dockerVars, job, historyVars>> /\ Fault

(* Recreate: the old container is stopped before the new one is started. *)
StopOld(h) ==
    /\ pc[h] = "stopOld"
    /\ StopAndRemove(job[h].old)
    /\ latest' = [latest EXCEPT ![SlugOf[job[h].dep]] = {}]
    /\ job' = [job EXCEPT ![h].old = None]
    /\ Go(h, "pull")
    /\ UNCHANGED <<created, images, network, traefik, owed, checked, blind>> /\ InDeploy

(* PullImage, skipped for an image built here. *)
PullImage(h) ==
    /\ pc[h] = "pull"
    /\ images' = images \cup ({job[h].dep} \ Built)
    /\ Go(h, "fastPath")
    /\ UNCHANGED <<containers, created, network, traefik, job, historyVars>> /\ InDeploy

(* A running container of this very deployment is reported active at once. *)
FastPath(h) ==
    /\ pc[h] = "fastPath"
    /\ \/ /\ \E c \in Named(job[h].dep) : c.up
          /\ Activate(h, "report")
          /\ UNCHANGED checked
       \/ /\ \A c \in Named(job[h].dep) : ~c.up
          /\ Go(h, "run")
          /\ UNCHANGED <<job, historyVars>>
    /\ UNCHANGED dockerVars /\ InDeploy

(* The look-up by name or the inspection fails: the deploy goes on. *)
FastPathFails(h) ==
    /\ pc[h] = "fastPath"
    /\ blind' = blind \cup {job[h].dep}
    /\ Go(h, "run")
    /\ UNCHANGED <<dockerVars, job, owed, latest, checked>> /\ Fault

(* waitForCompanions gives up after 120 seconds. *)
CompanionsNotReady(h) ==
    /\ pc[h] = "run"
    /\ Fail(h)
    /\ UNCHANGED dockerVars /\ InDeploy

(* RunContainer creates and starts the container ... *)
RunContainer(h) ==
    /\ pc[h] = "run"
    /\ Named(job[h].dep) = {}
    /\ network /\ job[h].dep \in images
    /\ created < MaxContainers
    /\ created' = created + 1
    /\ containers' = containers \cup {[id |-> created + 1, dep |-> job[h].dep, up |-> TRUE]}
    /\ job' = [job EXCEPT ![h].new = created + 1]
    /\ Go(h, "traefik")
    /\ UNCHANGED <<images, network, traefik, historyVars>> /\ InDeploy

(* ... or its name is taken, and the existing container is adopted ... *)
AdoptContainer(h) ==
    /\ pc[h] = "run"
    /\ \E c \in Named(job[h].dep) : job' = [job EXCEPT ![h].new = c.id]
    /\ Go(h, "traefik")
    /\ UNCHANGED <<dockerVars, historyVars>> /\ InDeploy

(* ... or the network or the image has gone in the meantime. *)
RunFails(h) ==
    /\ pc[h] = "run"
    /\ Named(job[h].dep) = {}
    /\ ~network \/ job[h].dep \notin images \/ created = MaxContainers
    /\ Fail(h)
    /\ UNCHANGED dockerVars /\ InDeploy

(* ConnectToNetworkIfNeeded for Traefik. *)
ConnectTraefik(h) ==
    /\ pc[h] = "traefik"
    /\ traefik' = (traefik \/ (TraefikRuns /\ network))
    /\ Go(h, "inspect")
    /\ UNCHANGED <<containers, created, images, network, job, historyVars>> /\ InDeploy

InspectContainer_ReportsActive(h) ==
    /\ pc[h] = "inspect"
    /\ \/ /\ \E c \in WithId(job[h].new) : c.up
          /\ Activate(h, "health")
          /\ UNCHANGED <<containers, checked>>
       \/ /\ \A c \in WithId(job[h].new) : ~c.up
          /\ StopAndRemove(job[h].new)
          /\ Fail(h)
    /\ UNCHANGED <<created, images, network, traefik>> /\ InDeploy

(* Crash detection after two seconds, and the lookup of the address: a     *)
(* stopped container is removed, one that has vanished is not looked for.  *)
InspectContainer(h) ==
    /\ pc[h] = "inspect"
    /\ \/ /\ \E c \in WithId(job[h].new) : c.up
          /\ Go(h, "health")
          /\ UNCHANGED <<containers, job, historyVars>>
       \/ /\ \A c \in WithId(job[h].new) : ~c.up
          /\ StopAndRemove(job[h].new)
          /\ Fail(h)
    /\ UNCHANGED <<created, images, network, traefik>> /\ InDeploy

HealthPasses_NoSwitch(h) ==
    /\ pc[h] = "health"
    /\ \E c \in WithId(job[h].new) : c.up
    /\ checked' = checked \cup {job[h].new}
    /\ Activate(h, "report")
    /\ UNCHANGED dockerVars /\ InDeploy

(* The health check, or the port probe, succeeds and "active" is sent; a   *)
(* blue-green deploy then removes the old container.                       *)
HealthPasses(h) ==
    /\ pc[h] = "health"
    /\ \E c \in WithId(job[h].new) : c.up
    /\ checked' = checked \cup {job[h].new}
    /\ Activate(h, IF job[h].old \notin {None, job[h].new} THEN "switch" ELSE "report")
    /\ UNCHANGED dockerVars /\ InDeploy

(* It fails, and the new container is removed ... *)
HealthFails(h) ==
    /\ pc[h] = "health"
    /\ StopAndRemove(job[h].new)
    /\ Fail(h)
    /\ UNCHANGED <<created, images, network, traefik>> /\ InDeploy

(* ... except after a failed database health check, which leaves it. *)
DatabaseUnhealthy(h) ==
    /\ pc[h] = "health"
    /\ job[h].dep \notin BlueGreen
    /\ Fail(h)
    /\ UNCHANGED dockerVars /\ InDeploy

(* The address of the new container is not found in three attempts, or     *)
(* the removal after a failed check fails: the deploy has failed and the   *)
(* container stays.                                                        *)
NewLeftBehind(h) ==
    /\ pc[h] \in {"inspect", "health"}
    /\ Fail(h)
    /\ UNCHANGED dockerVars /\ Fault

SwitchTraffic(h) ==
    /\ pc[h] = "switch"
    /\ StopAndRemove(job[h].old)
    /\ Go(h, "report")
    /\ UNCHANGED <<created, images, network, traefik, job, historyVars>> /\ InDeploy

(* The removal of the old container, by either strategy, fails and is      *)
(* logged.                                                                 *)
OldLeftBehind(h) ==
    /\ \/ /\ pc[h] = "stopOld"
          /\ job' = [job EXCEPT ![h].old = None]
          /\ Go(h, "pull")
       \/ /\ pc[h] = "switch"
          /\ Go(h, "report")
          /\ UNCHANGED job
    /\ UNCHANGED <<dockerVars, historyVars>> /\ Fault

(* The supplementary "active" message with the introspection data. *)
ReportIntrospection(h) ==
    /\ pc[h] = "report"
    /\ Activate(h, "unguard")
    /\ UNCHANGED <<dockerVars, checked>> /\ InDeploy

-----------------------------------------------------------------------------
(* The deferred calls of HandleDeploy, last one first *)

MarkDeployDone(h) ==
    /\ pc[h] = "unguard"
    /\ guard' = [guard EXCEPT ![SlugOf[job[h].dep]] = IF job[h].ok THEN "grace" ELSE "no"]
    /\ lapsed' = lapsed \ {SlugOf[job[h].dep]}
    /\ Go(h, "unsee")
    /\ UNCHANGED <<dockerVars, job, rpc, removal, slots, seen, historyVars, boundVars>>

ClearDeploymentSeen(h) ==
    /\ pc[h] = "unsee"
    /\ seen' = [seen EXCEPT ![job[h].dep] = "recent"]
    /\ Go(h, "release")
    /\ UNCHANGED <<dockerVars, job, rpc, removal, slots, guard, lapsed, historyVars, boundVars>>

ReleaseSlot_Kept(h) ==
    /\ pc[h] = "release"
    /\ job' = [job EXCEPT ![h] = NoJob]
    /\ Go(h, "idle")
    /\ UNCHANGED <<dockerVars, rpc, removal, handlerVars, historyVars, boundVars>>

ReleaseSlot(h) ==
    /\ pc[h] = "release"
    /\ slots' = slots \ {h}
    /\ job' = [job EXCEPT ![h] = NoJob]
    /\ Go(h, "idle")
    /\ UNCHANGED <<dockerVars, rpc, removal, seen, guard, lapsed, historyVars, boundVars>>

-----------------------------------------------------------------------------
(* HandleContainerCommand *)

InRemove == UNCHANGED <<pc, job, handlerVars, historyVars, boundVars>>
RGo(r, to) == rpc' = [rpc EXCEPT ![r] = to]

ReceiveRemove(r, s) ==
    /\ rpc[r] = "idle"
    /\ removal' = [removal EXCEPT ![r] = [NoRemoval EXCEPT !.slug = s]]
    /\ RGo(r, "check")
    /\ UNCHANGED dockerVars /\ InRemove

(* isDeployActive: a guarded service is left alone. *)
CheckGuard(r) ==
    /\ rpc[r] = "check"
    /\ RGo(r, IF guard[removal[r].slug] = "no" THEN "list" ELSE "idle")
    /\ UNCHANGED <<dockerVars, removal>> /\ InRemove

(* removeServiceContainers lists the containers, stopped ones included, ... *)
ListContainers(r) ==
    LET ids == {c.id : c \in Of(removal[r].slug)} IN
    /\ rpc[r] = "list"
    /\ removal' = [removal EXCEPT ![r].todo = ids, ![r].any = ids # {}]
    /\ RGo(r, "remove")
    /\ UNCHANGED dockerVars /\ InRemove

(* ... removes them one by one, ... *)
RemoveContainer(r) ==
    /\ rpc[r] = "remove"
    /\ \E i \in removal[r].todo :
        /\ StopAndRemove(i)
        /\ removal' = [removal EXCEPT ![r].todo = @ \ {i}]
    /\ UNCHANGED <<created, images, network, traefik, rpc>> /\ InRemove

(* ... then the service's built images that no container uses, ... *)
RemoveImages(r) ==
    /\ rpc[r] = "remove" /\ removal[r].todo = {}
    /\ images' = images \ {d \in Built : SlugOf[d] = removal[r].slug /\ Named(d) = {}}
    /\ RGo(r, IF removal[r].any THEN "network" ELSE "idle")
    /\ UNCHANGED <<containers, created, network, traefik, removal>> /\ InRemove

(* ... then the project network if it is empty. *)
RemoveProjectNetwork(r) ==
    /\ rpc[r] = "network"
    /\ RemoveNetworkIfEmpty
    /\ RGo(r, "idle")
    /\ UNCHANGED <<containers, created, images, traefik, removal>> /\ InRemove

(* STOP, or the program in the container exits ... *)
ContainerStops ==
    /\ stops < MaxStops
    /\ stops' = stops + 1
    /\ \E c \in {x \in containers : x.up} :
          containers' = (containers \ {c}) \cup {[c EXCEPT !.up = FALSE]}
    /\ UNCHANGED <<created, images, network, traefik, pc, job, rpc, removal, handlerVars,
                   historyVars, faults, crashes>>

(* ... and START, RESTART, or the restart policy, if its network is there. *)
ContainerStarts ==
    /\ network
    /\ \E c \in {x \in containers : ~x.up} :
          containers' = (containers \ {c}) \cup {[c EXCEPT !.up = TRUE]}
    /\ UNCHANGED <<created, images, network, traefik, pc, job, rpc, removal, handlerVars,
                   historyVars, boundVars>>

-----------------------------------------------------------------------------
(* The pruner, the clock and crashes *)

PruneOrphanedNetworks ==
    /\ network
    /\ RemoveNetworkIfEmpty
    /\ UNCHANGED <<containers, created, images, traefik, pc, job, rpc, removal, handlerVars,
                   historyVars, boundVars>>

(* An entry of deploymentsSeen expires: 5 minutes after the deploy has     *)
(* ended, or 2 minutes after it began.                                     *)
SeenExpiry ==
    /\ \E d \in Deployments :
        /\ seen[d] = "recent" \/ (SeenExpires /\ seen[d] = "working")
        /\ seen' = [seen EXCEPT ![d] = "no"]
    /\ UNCHANGED <<dockerVars, pc, job, rpc, removal, slots, guard, lapsed, historyVars, boundVars>>

(* An entry of activeDeploys expires: the grace period of a service is     *)
(* over, or an hour has gone by since a deploy of it began.                *)
GuardExpiry ==
    /\ \E s \in Slugs :
        /\ \/ guard[s] = "grace" /\ UNCHANGED lapsed
           \/ GuardExpires /\ guard[s] = "deploying" /\ lapsed' = lapsed \cup {s}
        /\ guard' = [guard EXCEPT ![s] = "no"]
    /\ UNCHANGED <<dockerVars, pc, job, rpc, removal, slots, seen, historyVars, boundVars>>

(* The agent dies and starts again: NewCommandHandler, and Run's           *)
(* reconnectTraefikToProjectNetworks.                                      *)
Crash ==
    /\ crashes < MaxCrashes
    /\ crashes' = crashes + 1
    /\ pc' = [h \in Handlers |-> "idle"] /\ job' = [h \in Handlers |-> NoJob]
    /\ rpc' = [r \in Removers |-> "idle"] /\ removal' = [r \in Removers |-> NoRemoval]
    /\ slots' = {}
    /\ seen' = [d \in Deployments |-> "no"]
    /\ guard' = [s \in Slugs |-> "no"]
    /\ lapsed' = {} /\ owed' = {}
    /\ traefik' = (traefik \/ (TraefikRuns /\ network /\ containers # {}))
    /\ UNCHANGED <<containers, created, images, network, latest, checked, blind, stops, faults>>

-----------------------------------------------------------------------------
DeployStep(h) ==
    \/ AcquireSlot(h) \/ SkipDuplicate(h) \/ NotSeen(h)
    \/ MarkDeploymentSeen(h) \/ MarkDeployActive(h)
    \/ EvaluateDeployDiskGuard(h) \/ Build(h) \/ DeployFails(h) \/ EnsureNetwork(h)
    \/ FindOld(h) \/ FindOldFails(h) \/ StopOld(h) \/ OldLeftBehind(h)
    \/ PullImage(h) \/ FastPath(h) \/ FastPathFails(h) \/ CompanionsNotReady(h)
    \/ RunContainer(h) \/ AdoptContainer(h) \/ RunFails(h)
    \/ ConnectTraefik(h) \/ InspectContainer(h) \/ HealthPasses(h) \/ HealthFails(h)
    \/ NewLeftBehind(h) \/ DatabaseUnhealthy(h) \/ SwitchTraffic(h) \/ ReportIntrospection(h)
    \/ MarkDeployDone(h) \/ ClearDeploymentSeen(h) \/ ReleaseSlot(h)

RemoveStep(r) ==
    \/ CheckGuard(r) \/ ListContainers(r) \/ RemoveContainer(r)
    \/ RemoveImages(r) \/ RemoveProjectNetwork(r)

Next ==
    \/ \E h \in Handlers : DeployStep(h) \/ \E d \in Deployments : ReceiveDeploy(h, d)
    \/ \E r \in Removers : RemoveStep(r) \/ \E s \in Slugs : ReceiveRemove(r, s)
    \/ ContainerStops \/ ContainerStarts
    \/ PruneOrphanedNetworks \/ SeenExpiry \/ GuardExpiry \/ Crash

Spec == Init /\ [][Next]_vars

(***************************************************************************)
(* Fairness.  A started handler runs; a Go channel serves its blocked      *)
(* senders first come, first served, so a handler waiting for a slot that  *)
(* is freed again and again gets one (strong fairness of AcquireSlot); the *)
(* pruner's ticker keeps firing.                                           *)
(***************************************************************************)
Fairness ==
    /\ \A h \in Handlers : WF_vars(DeployStep(h)) /\ SF_vars(AcquireSlot(h))
    /\ \A r \in Removers : WF_vars(RemoveStep(r))
    /\ WF_vars(PruneOrphanedNetworks)

FairSpec == Spec /\ Fairness

-----------------------------------------------------------------------------
(* Properties *)

Idle(s) == \A h \in Handlers : pc[h] = "idle" \/ SlugOf[job[h].dep] # s

(* While a service is being deployed the REMOVE guard is set for it, unless *)
(* its hour has run out, also when the grace period of an earlier deploy    *)
(* ends meanwhile: "slugs with in-progress or recently completed deploys".  *)
(* (If no two handlers deploy one service at once: markDeployDone deletes   *)
(* the entry whoever else may be deploying it.)                             *)
GuardCoversDeploy ==
    \A h \in Handlers :
        pc[h] \in Deploying => guard[SlugOf[job[h].dep]] # "no" \/ SlugOf[job[h].dep] \in lapsed

(* A service with a checked, running container keeps one through every     *)
(* later deploy, failed ones and ones cut short by a crash included: only  *)
(* a recreate deploy may take it down, or the retry of a deployment that   *)
(* could not see its own running container and then fails its check.       *)
(* Deploy's "keep old running until new passes health checks".             *)
Serving(s) == \E c \in Running(s) : c.id \in checked

NoDowntime ==
    [][\A s \in Slugs : Serving(s) /\ ~Serving(s)'
          => \E h \in Handlers :
                \/ pc[h] = "stopOld" /\ job[h].dep \notin BlueGreen /\ pc'[h] = "pull"
                \/ pc[h] = "health" /\ job[h].dep \in blind /\ pc'[h] = "unguard"]_vars

(* When no deploy of a service is under way, one container of it runs, and *)
(* one more at most for each crash and for each Docker call that failed in *)
(* a deploy: whatever mix of strategies, duplicates, retries, failed       *)
(* deploys and adoptions came before leaves nothing behind.                *)
OneVersion ==
    \A s \in Slugs : Idle(s) => Cardinality(Running(s)) <= 1 + crashes + faults

(* When no deploy of a service is under way, the deployment last reported  *)
(* active to the control plane is the one whose container runs, unless a   *)
(* recreate deploy has taken it down since, or a retry of it was blind.    *)
ServedVersion ==
    \A s \in Slugs : Idle(s) => \A d \in latest[s] \ blind : \E c \in Named(d) : c.up

(* Every deploy command comes to an end with an answer, its own terminal   *)
(* status or that of the handler it repeats: no handler waits for a slot   *)
(* for ever, and none returns in silence.                                  *)
CommandAnswered ==
    \A h \in Handlers : h \in owed ~> pc[h] = "idle" /\ h \notin owed

(* "Concurrent REMOVE commands don't kill the container while it's still   *)
(* starting up": a container that a handler works on is not taken away by  *)
(* a removal.                                                              *)
RemoveSparesDeploy ==
    [][\A r \in Removers : \A h \in Handlers :
          pc[h] \in {"traefik", "inspect", "health"} /\ RemoveContainer(r)
             => WithId(job[h].new) \subseteq containers']_vars
=============================================================================
