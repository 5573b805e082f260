---------------------------- MODULE EndpointStatus ----------------------------
(***************************************************************************)
(* What the endpoint providers (internal/endpoint) answer: each Ensure and *)
(* Doctor as a function of the world it finds.  A world holds the outcome  *)
(* of every check a provider makes: whether the hostname and the tunnel    *)
(* token are configured, DNS, the ports, the tailscale commands, the       *)
(* cloudflared container, and the answers to the HTTP probes.              *)
(***************************************************************************)

Providers == {"lan_only", "byo_proxy", "public_direct", "private_tailscale_https",
              "public_tunnel_cloudflare", "unknown"}

(* An HTTP answer: none, 2xx or 3xx, 401 or 403, anything else. *)
Http == {"none", "ok", "auth", "bad"}

Worlds ==
    [hostname : BOOLEAN, token : BOOLEAN, dns : BOOLEAN, port80 : BOOLEAN, port443 : BOOLEAN,
     tailscale : BOOLEAN, serve : BOOLEAN, container : {"running", "absent", "unknown"},
     route : Http, public : Http]

(* ProviderStatus; "" is a field left unset. *)
Status(status, verifiedBy, route, public) ==
    [status |-> status, verifiedBy |-> verifiedBy, route |-> route, public |-> public]

Answers ==
    [status : {"active", "provisioning", "degraded", "disabled", "error"},
     verifiedBy : {"", "agent", "public"},
     route : {"", "unknown", "healthy", "degraded"},
     public : {"", "unknown", "not_applicable", "healthy", "degraded"}]

Error == Status("error", "", "", "")
Disabled == Status("disabled", "", "", "")

Healthy_AnyAnswer(http) == http # "none"

(* probeRoutedEndpoint and probePublicURL *)
Healthy(http) == http \in {"ok", "auth"}

Probe(http) == IF Healthy(http) THEN "healthy" ELSE "degraded"

-----------------------------------------------------------------------------
LANEnsure(w) == Status("active", "agent", "", "")

LANDoctor(w) ==
    Status(IF Healthy(w.route) THEN "active" ELSE "degraded", "agent",
           Probe(w.route), "not_applicable")

BYOProxyEnsure(w) == IF w.hostname THEN Status("active", "agent", "", "") ELSE Error

BYOProxyDoctor(w) ==
    Status(IF Healthy(w.route) THEN "active" ELSE "degraded", "agent", Probe(w.route), "unknown")

(* The port check changes the message only. *)
DirectEnsure(w) ==
    CASE ~w.hostname -> Error
      [] w.hostname /\ ~w.dns -> Status("error", "agent", "", "")
      [] OTHER -> Status("provisioning", "agent", "", "")

(* An empty hostname does not resolve. *)
DirectDoctor(w) ==
    IF ~(w.hostname /\ w.dns)
    THEN Status("error", "agent", "", "")
    ELSE LET both == Healthy(w.route) /\ Healthy(w.public) IN
         Status(IF both /\ w.port80 /\ w.port443 THEN "active" ELSE "degraded",
                IF both THEN "public" ELSE "agent",
                Probe(w.route), Probe(w.public))

TailscaleEnsure(w) ==
    CASE ~w.tailscale \/ ~w.serve -> Error
      [] w.tailscale /\ w.serve /\ w.route = "ok" ->
            Status("active", "agent", "healthy", "not_applicable")
      [] OTHER -> Status("provisioning", "agent",
                         IF w.route = "none" THEN "unknown" ELSE "degraded", "not_applicable")

TailscaleDoctor(w) ==
    IF ~w.tailscale THEN Error
    ELSE Status(IF Healthy(w.route) THEN "active" ELSE "degraded", "agent",
                Probe(w.route), "not_applicable")

(* w.container is what EnsureCloudflaredNamed left, or Doctor found. *)
CFTunnelEnsure(w) ==
    IF w.token /\ w.container = "running" THEN Status("active", "agent", "", "") ELSE Error

(* A failed look-up of the container is noted and passed over. *)
CFTunnelDoctor(w) ==
    IF ~w.token \/ w.container = "absent" THEN Error
    ELSE LET both == Healthy(w.route) /\ Healthy(w.public) IN
         Status(IF both THEN "active" ELSE "degraded", IF both THEN "public" ELSE "agent",
                Probe(w.route), Probe(w.public))

-----------------------------------------------------------------------------
(* Manager.HandleEnsure and HandleDoctor; the error for an unknown provider *)
(* becomes a status in HandleEndpoint.                                      *)
HandleEnsure(provider, w) ==
    CASE provider = "lan_only"                 -> LANEnsure(w)
      [] provider = "byo_proxy"                -> BYOProxyEnsure(w)
      [] provider = "public_direct"            -> DirectEnsure(w)
      [] provider = "private_tailscale_https"  -> TailscaleEnsure(w)
      [] provider = "public_tunnel_cloudflare" -> CFTunnelEnsure(w)
      [] OTHER                                 -> Error

HandleDoctor(provider, w) ==
    CASE provider = "lan_only"                 -> LANDoctor(w)
      [] provider = "byo_proxy"                -> BYOProxyDoctor(w)
      [] provider = "public_direct"            -> DirectDoctor(w)
      [] provider = "private_tailscale_https"  -> TailscaleDoctor(w)
      [] provider = "public_tunnel_cloudflare" -> CFTunnelDoctor(w)
      [] OTHER                                 -> Error

HandleDisable(provider, w) == IF provider = "unknown" THEN Error ELSE Disabled
=============================================================================
