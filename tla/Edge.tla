--------------------------------- MODULE Edge ---------------------------------
(***************************************************************************)
(* The containers that bring traffic in, and the commands that manage      *)
(* them: Traefik (internal/docker/traefik.go), the platform's cloudflared  *)
(* and the named tunnels of endpoints (cloudflared.go), HandleEndpoint and *)
(* HandleTunnelConfig (agent/handler.go), and the start of Agent.Run.      *)
(*                                                                         *)
(* Each of them lives under a fixed container name, and every command runs *)
(* in a goroutine of its own, with no lock around find - remove - pull -   *)
(* create - start.  The three names have nothing in common: a behaviour    *)
(* follows the domain Init chooses, "probe" standing for the endpoint      *)
(* commands that touch no container.                                       *)
(*                                                                         *)
(* External: Docker.  A name is held by one container, also by one that    *)
(* does not run; a look-up by label finds running containers only.         *)
(***************************************************************************)
EXTENDS Naturals, EndpointStatus

CONSTANTS
    Workers,      \* goroutines running commands
    Networks,     \* project networks
    Tokens,       \* tunnel tokens of the platform
    Endpoints,    \* tunnel endpoints that share one token, and so one name
    MaxCommands,  \* bound: commands received
    MaxFaults,    \* bound: calls that fail
    MaxCrashes    \* bound: crashes of the agent

Main == "agent"              \* the goroutine of Agent.Run
Procs == Workers \cup {Main}
Domains == {"traefik", "platform", "tunnel", "probe"}
NoToken == "no token"
NoEndpoint == "no endpoint"

ASSUME EdgeConstants ==
    /\ Main \notin Workers /\ NoToken \notin Tokens /\ NoEndpoint \notin Endpoints
    /\ {MaxCommands, MaxFaults, MaxCrashes} \subseteq Nat

VARIABLES
    domain,
    box,         \* the container under the domain's name
    nextId,      \* identity of the next container
    routes,      \* networks of service containers with Traefik labels
    saved,       \* TunnelToken in config.yaml
    reported,    \* what the control plane was last told of each tunnel endpoint
    answer,      \* the last probe of an endpoint, and what the provider said
    phase,       \* "boot": before the first connection, "up"
    pc, task,    \* where each goroutine is, and its local variables
    disturbed,   \* history: since the last clean start a call failed or commands collided
    commands, faults, crashes

worldVars == <<routes, saved, reported, answer>>
boundVars == <<commands, faults, crashes>>
vars == <<domain, box, nextId, worldVars, phase, pc, task, disturbed, boundVars>>

NoBox == [id |-> 0, running |-> FALSE, acme |-> FALSE, token |-> NoToken, nets |-> {}]
NoTask == [kind |-> "none", token |-> NoToken, ep |-> NoEndpoint, id |-> 0, nets |-> {}]
NoAnswer == [provider |-> "none", ensure |-> Error, doctor |-> Error]

Kinds == {"none", "traefik", "reattach", "attach", "acme", "platform", "named", "disable"}

TypeOK ==
    /\ domain \in Domains
    /\ box \in [id : 0 .. nextId, running : BOOLEAN, acme : BOOLEAN,
                token : Tokens \cup {NoToken}, nets : SUBSET Networks]
    /\ nextId \in Nat /\ (box.id = 0 => box = NoBox)
    /\ routes \subseteq Networks /\ saved \in Tokens \cup {NoToken}
    /\ reported \in [Endpoints -> {"none", "active", "error", "disabled"}]
    /\ answer.ensure \in Answers /\ answer.doctor \in Answers
    /\ phase \in {"boot", "up"}
    /\ pc \in [Procs -> {"idle", "check", "find", "remove", "evict", "pull", "create", "start",
                         "connect", "succeeded", "failed"}]
    /\ task \in [Procs -> [kind : Kinds, token : Tokens \cup {NoToken},
                           ep : Endpoints \cup {NoEndpoint}, id : 0 .. nextId,
                           nets : SUBSET Networks]]
    /\ \A p \in Procs : pc[p] = "idle" <=> task[p] = NoTask
    /\ disturbed \in BOOLEAN
    /\ commands \in 0 .. MaxCommands /\ faults \in 0 .. MaxFaults /\ crashes \in 0 .. MaxCrashes

-----------------------------------------------------------------------------
(* Goroutines *)

Go(p, to) == pc' = [pc EXCEPT ![p] = to]

Fault == faults < MaxFaults /\ faults' = faults + 1

(* A tunnel endpoint that fails is reported so, which harms no one but the *)
(* commands in flight and the endpoints already reported active.           *)
Harmful ==
    \/ domain # "tunnel"
    \/ \E e \in Endpoints : reported[e] = "active"
    \/ \E p, q \in Procs : p # q /\ pc[p] # "idle" /\ pc[q] # "idle"

NoteFault == disturbed' = (disturbed \/ (faults' # faults /\ Harmful))

Begin(p, t, at) ==
    /\ task' = [task EXCEPT ![p] = t]
    /\ Go(p, at)

Alone == \A p \in Procs : pc[p] = "idle"

(* What Run does first of all, and with what: Traefik, or cloudflared if a *)
(* tunnel was configured.  Nothing of the tunnels of endpoints.            *)
FirstTask(d, token) ==
    CASE d = "traefik" -> [NoTask EXCEPT !.kind = "traefik"]
      [] d = "platform" /\ token # NoToken -> [NoTask EXCEPT !.kind = "platform", !.token = token]
      [] OTHER -> NoTask

BootWith(t) ==
    /\ phase' = IF t = NoTask THEN "up" ELSE "boot"
    /\ pc' = [p \in Procs |-> IF p = Main /\ t # NoTask THEN "find" ELSE "idle"]
    /\ task' = [p \in Procs |-> IF p = Main THEN t ELSE NoTask]

Init ==
    /\ domain \in Domains
    /\ box = NoBox /\ nextId = 0
    /\ routes = {} /\ saved = NoToken
    /\ reported = [e \in Endpoints |-> "none"] /\ answer = NoAnswer
    /\ LET t == FirstTask(domain, NoToken) IN
        /\ phase = IF t = NoTask THEN "up" ELSE "boot"
        /\ pc = [p \in Procs |-> IF p = Main /\ t # NoTask THEN "find" ELSE "idle"]
        /\ task = [p \in Procs |-> IF p = Main THEN t ELSE NoTask]
    /\ disturbed = FALSE
    /\ commands = 0 /\ faults = 0 /\ crashes = 0

(* The agent dies, anywhere, and Run starts again; containers go on.  A    *)
(* start finds Traefik, unless its container was left not running.         *)
Crash ==
    /\ domain # "probe"
    /\ crashes < MaxCrashes /\ crashes' = crashes + 1
    /\ BootWith(FirstTask(domain, saved))
    /\ disturbed' = CASE domain = "traefik"  -> box # NoBox /\ ~box.running
                      [] domain = "platform" -> FALSE
                      [] OTHER               -> disturbed \/ (~Alone /\ Harmful)
    /\ UNCHANGED <<domain, box, nextId, worldVars, commands, faults>>

(* The next goroutine of Run: reconnectTraefikToProjectNetworks. *)
BootTask(p) ==
    /\ p = Main /\ pc[p] \in {"succeeded", "failed"}
    /\ BootWith(IF task[p].kind = "traefik" THEN [NoTask EXCEPT !.kind = "reattach"] ELSE NoTask)
    /\ UNCHANGED <<domain, box, nextId, worldVars, disturbed, boundVars>>

-----------------------------------------------------------------------------
(* Commands *)

(* Two commands in flight that may undo each other's work. *)
Collide(s, t) ==
    \/ s.kind = "acme" /\ t.kind \in {"acme", "attach"}
    \/ t.kind = "acme" /\ s.kind = "attach"
    \/ s.kind = "platform" /\ t.kind = "platform" /\ s.token # t.token
    \/ "disable" \in {s.kind, t.kind} /\ s.kind # "none"

Receive(p, d, t, at, clash) ==
    /\ domain = d /\ phase = "up" /\ p # Main
    /\ pc[p] = "idle"
    /\ commands < MaxCommands /\ commands' = commands + 1
    /\ Begin(p, t, at)
    /\ disturbed' = \/ disturbed \/ clash \/ faults' # faults
                    \/ \E q \in Workers : Collide(task[q], t)
    /\ UNCHANGED <<domain, box, nextId, phase, answer, crashes>>

(* HandleEndpoint, ENSURE of a public_direct endpoint. *)
EnsureDirect(p) ==
    /\ UNCHANGED <<routes, saved, reported, faults>>
    /\ Receive(p, "traefik", [NoTask EXCEPT !.kind = "acme"], "check", FALSE)

(* A deploy has started its container and connects Traefik. *)
Attach(p, n) ==
    /\ routes' = routes \cup {n}
    /\ UNCHANGED <<saved, reported, faults>>
    /\ Receive(p, "traefik", [NoTask EXCEPT !.kind = "attach", !.nets = {n}], "find", FALSE)

(* HandleTunnelConfig: the save may fail, cloudflared is started anyway. *)
TunnelConfig(p, token) ==
    /\ \/ saved' = token /\ UNCHANGED faults
       \/ Fault /\ UNCHANGED saved
    /\ UNCHANGED <<routes, reported>>
    /\ Receive(p, "platform", [NoTask EXCEPT !.kind = "platform", !.token = token], "find", FALSE)

(* HandleEndpoint, ENSURE of a public_tunnel_cloudflare endpoint, ... *)
EnsureTunnel(p, e) ==
    /\ UNCHANGED <<routes, saved, reported, faults>>
    /\ Receive(p, "tunnel", [NoTask EXCEPT !.kind = "named", !.ep = e], "find", FALSE)

(* ... and DISABLE; another endpoint may be using the container. *)
DisableTunnel(p, e) ==
    /\ UNCHANGED <<routes, saved, reported, faults>>
    /\ Receive(p, "tunnel", [NoTask EXCEPT !.kind = "disable", !.ep = e], "find",
               \E f \in Endpoints \ {e} : reported[f] = "active")

(* The other endpoint commands only look at the world. *)
ProbeEndpoint ==
    /\ domain = "probe" /\ answer = NoAnswer
    /\ \E provider \in Providers, w \in Worlds :
         answer' = [provider |-> provider, world |-> w,
                    ensure |-> HandleEnsure(provider, w), doctor |-> HandleDoctor(provider, w)]
    /\ UNCHANGED <<domain, box, nextId, routes, saved, reported, phase, pc, task, disturbed,
                   boundVars>>

-----------------------------------------------------------------------------
(* Calls to Docker *)

Keep == UNCHANGED <<domain, worldVars, phase, commands, crashes>>

(* HasACME; an error counts as no. *)
CheckACME(p) ==
    /\ pc[p] = "check"
    /\ \/ Go(p, IF box.running /\ box.acme THEN "succeeded" ELSE "find") /\ UNCHANGED faults
       \/ Go(p, "find") /\ Fault
    /\ NoteFault /\ UNCHANGED <<box, nextId, task>> /\ Keep

FoundNext_NoOp(kind) ==
    CASE kind \in {"traefik", "named", "platform"} -> "succeeded"
      [] kind \in {"acme", "disable"}              -> "remove"
      [] kind \in {"attach", "reattach"}           -> "connect"

(* Where a running container leads: EnsureCloudflared replaces it ... *)
FoundNext(kind) ==
    CASE kind \in {"traefik", "named"}             -> "succeeded"
      [] kind \in {"acme", "platform", "disable"}  -> "remove"
      [] kind \in {"attach", "reattach"}           -> "connect"

(* ... and where none does: EnsureTraefik goes on to pull, create, start. *)
NotFoundNext(kind) ==
    CASE kind \in {"traefik", "acme"}                -> "pull"
      [] kind \in {"platform", "named"}              -> "evict"
      [] kind \in {"attach", "reattach", "disable"}  -> "succeeded"

NetsToConnect_NotInspected(t) == CASE t.kind = "reattach" -> routes [] OTHER -> t.nets

(* The networks a goroutine will connect: those of all service containers, *)
(* those Traefik is on before ReconfigureTraefikACME removes it, or one.   *)
NetsToConnect(t) ==
    CASE t.kind = "reattach" -> routes
      [] t.kind = "acme"     -> box.nets
      [] OTHER               -> t.nets

(* FindContainerByLabel or FindTraefikContainer, and ContainerInspect; if  *)
(* that fails ReconfigureTraefikACME remembers no networks and goes on.    *)
Find(p) ==
    LET t == task[p] IN
    /\ pc[p] = "find"
    /\ \/ /\ box.running
          /\ task' = [task EXCEPT ![p].id = box.id, ![p].nets = NetsToConnect(t)]
          /\ Go(p, FoundNext(t.kind))
          /\ UNCHANGED faults
       \/ /\ ~box.running
          /\ Go(p, NotFoundNext(t.kind))
          /\ UNCHANGED <<task, faults>>
       \/ /\ box.running /\ t.kind = "acme" /\ Fault
          /\ task' = [task EXCEPT ![p].id = box.id]
          /\ Go(p, "remove")
       \/ /\ Fault
          /\ Go(p, "failed")
          /\ UNCHANGED task
    /\ NoteFault /\ UNCHANGED <<box, nextId>> /\ Keep

(* StopAndRemove of the container found, which may be gone or may stay     *)
(* behind, stopped.  Only ReconfigureTraefikACME minds the error.          *)
StopAndRemove(p) ==
    LET kind == task[p].kind
        next(ok) == CASE kind = "acme" -> IF ok THEN "pull" ELSE "failed"
                      [] kind = "platform" -> "evict"
                      [] OTHER -> "succeeded" IN
    /\ pc[p] = "remove"
    /\ \/ box.id = task[p].id /\ box' = NoBox /\ Go(p, next(TRUE)) /\ UNCHANGED faults
       \/ box.id # task[p].id /\ UNCHANGED box /\ Go(p, next(FALSE)) /\ UNCHANGED faults
       \/ /\ box.id = task[p].id /\ Fault
          /\ box' = [box EXCEPT !.running = FALSE]
          /\ Go(p, next(FALSE))
    /\ NoteFault /\ UNCHANGED <<nextId, task>> /\ Keep

(* ContainerRemove by name; its error is ignored. *)
Evict(p) ==
    /\ pc[p] = "evict"
    /\ \/ box' = NoBox /\ UNCHANGED faults
       \/ Fault /\ UNCHANGED box
    /\ Go(p, "pull")
    /\ NoteFault /\ UNCHANGED <<nextId, task>> /\ Keep

(* EnsureNetwork and PullImage *)
PullImage(p) ==
    /\ pc[p] = "pull"
    /\ \/ Go(p, "create") /\ UNCHANGED faults
       \/ Go(p, "failed") /\ Fault
    /\ NoteFault /\ UNCHANGED <<box, nextId, task>> /\ Keep

(* ContainerCreate fails when the name is taken. *)
Create(p) ==
    LET t == task[p] IN
    /\ pc[p] = "create"
    /\ \/ /\ box = NoBox
          /\ nextId' = nextId + 1
          /\ box' = [NoBox EXCEPT !.id = nextId + 1, !.acme = t.kind = "acme", !.token = t.token]
          /\ task' = [task EXCEPT ![p].id = nextId + 1]
          /\ Go(p, "start")
       \/ /\ box # NoBox
          /\ Go(p, "failed")
          /\ UNCHANGED <<box, nextId, task>>
    /\ UNCHANGED <<disturbed, faults>> /\ Keep

(* ContainerStart; a container that does not start is removed. *)
Start(p) ==
    /\ pc[p] = "start"
    /\ \/ /\ box.id = task[p].id
          /\ box' = [box EXCEPT !.running = TRUE]
          /\ Go(p, IF task[p].kind = "acme" THEN "connect" ELSE "succeeded")
          /\ UNCHANGED faults
       \/ /\ box.id # task[p].id
          /\ Go(p, "failed")
          /\ UNCHANGED <<box, faults>>
       \/ /\ box.id = task[p].id /\ Fault
          /\ box' = NoBox
          /\ Go(p, "failed")
    /\ NoteFault /\ UNCHANGED <<nextId, task>> /\ Keep

(* ConnectToNetworkIfNeeded of each network; a failure is only logged. *)
ConnectNetwork(p) ==
    /\ pc[p] = "connect"
    /\ \/ /\ task[p].nets = {}
          /\ Go(p, "succeeded")
          /\ UNCHANGED <<box, task, faults>>
       \/ \E n \in task[p].nets :
            /\ task' = [task EXCEPT ![p].nets = @ \ {n}]
            /\ \/ /\ box.id = task[p].id
                  /\ box' = [box EXCEPT !.nets = @ \cup {n}]
                  /\ UNCHANGED faults
               \/ box.id # task[p].id /\ UNCHANGED <<box, faults>>
               \/ box.id = task[p].id /\ Fault /\ UNCHANGED box
            /\ UNCHANGED pc
    /\ NoteFault /\ UNCHANGED nextId /\ Keep

TunnelWorld_AssumesRunning(p) == [hostname |-> TRUE, token |-> TRUE, container |-> "running"]

(* The world as the tunnel provider leaves it. *)
TunnelWorld(p) ==
    [hostname |-> TRUE, token |-> TRUE,
     container |-> IF pc[p] = "succeeded" THEN "running" ELSE "absent"]

EndCommand_KeepsTask(p) ==
    /\ p # Main /\ pc[p] \in {"succeeded", "failed"}
    /\ Go(p, "idle")
    /\ UNCHANGED <<box, nextId, task, disturbed, faults>> /\ Keep

(* A command ends.  A tunnel endpoint's status goes to the control plane,  *)
(* on the live stream; if there is none it is lost.                        *)
EndCommand(p) ==
    LET t == task[p]
        status == IF t.kind = "named"
                  THEN HandleEnsure("public_tunnel_cloudflare", TunnelWorld(p)).status
                  ELSE HandleDisable("public_tunnel_cloudflare", TunnelWorld(p)).status IN
    /\ p # Main /\ pc[p] \in {"succeeded", "failed"}
    /\ Begin(p, NoTask, "idle")
    /\ \/ /\ t.ep = NoEndpoint
          /\ UNCHANGED <<reported, faults>>
       \/ /\ t.ep # NoEndpoint
          /\ reported' = [reported EXCEPT ![t.ep] = status]
          /\ UNCHANGED faults
       \/ /\ t.ep # NoEndpoint /\ Fault
          /\ UNCHANGED reported
    /\ NoteFault
    /\ UNCHANGED <<domain, box, nextId, routes, saved, answer, phase, commands, crashes>>

-----------------------------------------------------------------------------
Command(p) ==
    \/ EnsureDirect(p) \/ \E n \in Networks : Attach(p, n)
    \/ \E token \in Tokens : TunnelConfig(p, token)
    \/ \E e \in Endpoints : EnsureTunnel(p, e) \/ DisableTunnel(p, e)

Step(p) ==
    \/ CheckACME(p) \/ Find(p) \/ StopAndRemove(p) \/ Evict(p) \/ PullImage(p)
    \/ Create(p) \/ Start(p) \/ ConnectNetwork(p) \/ EndCommand(p) \/ BootTask(p)

Next ==
    \/ \E p \in Procs : Command(p) \/ Step(p)
    \/ ProbeEndpoint
    \/ Crash

Spec == Init /\ [][Next]_vars

-----------------------------------------------------------------------------
(* Properties *)

Settled(d) == domain = d /\ phase = "up" /\ Alone /\ ~disturbed

(* When nothing is under way, Traefik runs and is on the network of every  *)
(* service: through deploys, the switch to ACME and restarts of the agent, *)
(* each of which repairs what an earlier failure or collision left, unless *)
(* a container that does not run holds the name.                           *)
RoutesServed == Settled("traefik") => box.running /\ routes \subseteq box.nets

(* When nothing is under way, cloudflared runs with the token of           *)
(* config.yaml: a new token replaces the container, equal commands in      *)
(* flight do not hurt each other, and a start clears away what a crash     *)
(* left under the name.                                                    *)
TunnelFollowsConfig ==
    Settled("platform") /\ saved # NoToken => box.running /\ box.token = saved

(* When nothing is under way, a tunnel endpoint last reported active has a *)
(* running cloudflared, although several of them share it and each of two  *)
(* ENSUREs in flight force-removes the container by its name.              *)
ActiveIsServed ==
    Settled("tunnel") => \A e \in Endpoints : reported[e] = "active" => box.running

(* A Doctor that answers active has had a good answer through the local    *)
(* route and, for a public endpoint, from outside; it never claims to have *)
(* verified in public what did not answer there.                           *)
DoctorProves ==
    answer # NoAnswer =>
        LET w == answer.world  d == answer.doctor IN
        /\ d.status = "active" => w.route \in {"ok", "auth"}
        /\ d.status = "active" /\ answer.provider \in {"public_direct", "public_tunnel_cloudflare"}
              => d.verifiedBy = "public"
        /\ d.verifiedBy = "public" => w.route \in {"ok", "auth"} /\ w.public \in {"ok", "auth"}
=============================================================================
