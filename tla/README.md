# clank-agent: a TLA+ verification project

clank-agent is the process that runs on a customer's server, keeps a gRPC stream to the
control plane open, deploys containers on the local Docker host, rotates its own
credentials and updates its own binary. This directory holds TLA+ models of the parts in
which interleavings, crashes and failures decide whether it works, the TLC
configurations that check them on small instances, and proofs that TLAPS checks for
every value of the constants.

`PROJECT.json` lists the components, the runs, the source lines each definition models,
the mutants that show each property can fail, the hazards and the theorems.

## 1. The system

| Part | State it keeps | Operations | Talks to |
|---|---|---|---|
| Certificate store (`internal/certs`) | bundle directories, the active pointer file | prepare, stage, activate, roll back, discard | rotation; TLS set-up reads it |
| Credential rotation (`internal/agent/credentials.go`) | pending request and cutover metadata in `config.yaml` and memory | request renewal, apply an answer, resume a cutover, record a failure | store, config file, heartbeats, receiver, reconnect loop |
| Reconnect loop (`internal/agent/agent.go`) | wait time, connection | recover credentials, dial, stream, disconnect | everything that runs on a connection |
| Stream router and result queue (`stream_router.go`, `handler.go`) | live stream, `pendingResults` | attach, detach, send, queue, drain | handlers, heartbeat sender |
| Deploy handler (`handler.go`) | `buildSem`, `deploymentsSeen`, `activeDeploys` | deploy; stop, start, restart, remove | deployer, Docker, router |
| Deployer (`internal/deploy`) | none of its own; containers, networks, images in Docker | recreate or blue-green deploy with health checks | Docker, Traefik |
| Network pruner, Traefik reconnection (`agent.go`) | none | remove empty project networks | Docker |
| Self-update (`internal/selfupdate`, `handler.go`, `agent.go`) | the binary, `.prev`, `.new`, `.old`, `update-state.json` | back up, download, replace, count starts, roll back | systemd, control plane |
| Log collector and streamer (`internal/logs`, `grpcclient/logstream.go`) | tailers by container, bounded channel | reconcile, tail, inject; stream | Docker; one streamer per connection |
| Metrics collector and streamer (`internal/metrics`, `grpcclient/metricstream.go`) | bounded channel | collect containers, host, disk; stream | Docker; one streamer per connection |
| Disk guard and clean-up plan (`handler.go`, `docker/client.go`) | none | evaluate, preview, apply | Docker |
| Backups (`internal/backup`) | the token of the helper-image coordinator; directories in the backup volume | dump, archive, metadata, prune, delete | helper containers, router |
| Endpoint providers (`internal/endpoint`) | none of their own; containers, external programs | ensure, disable, doctor | Traefik, cloudflared, tailscale |
| Traefik and cloudflared (`docker/traefik.go`, `docker/cloudflared.go`) | one container under each fixed name | ensure, reconfigure for ACME, replace | Docker, deployer, endpoint and tunnel commands, start of the agent |
| Image builder (`internal/build`) | temporary clone | clone, build | git, Docker |
| Command line, doctor, system information | none | | files, systemctl |

`ReceiveCommands` starts one goroutine per command with no ordering between commands.
The reconnect loop starts a receiver and a heartbeat sender per connection and does not
wait for those of the previous one, so code of two connections overlaps. Docker, the
file system and the control plane are shared by all of them, and systemd restarts the
process whenever it ends. What is hard follows from that:

* **Crashes and failed writes between the disk operations of one rotation.** The commit
  takes three saves (pending metadata, pointer, final tokens), each undone by others.
  Correct means: a certificate is never used with another rotation's tokens, what is
  recorded can be completed, and the agent connects again.
* **Concurrent deploys and removals of one service.** Correct means: a healthy version
  stays up until its successor is healthy, what was reported active runs, no second
  version stays behind, a removal does not hit a deploy, every command is answered.
* **Results that outlive their connection.** Correct means: a result is neither lost in
  the agent nor sent twice, and does not wait in the queue on a live connection.
* **A binary that replaces itself.** Correct means: there is always something to start,
  and a version that cannot live is rolled back to the one before.
* **Telemetry across reconnects.** Correct means: collectors never wait for the control
  plane, what arrives is in order and once, a running container is tailed.
* **Helpers and singletons in Docker.** Backups and the edge containers are sequences of
  Docker calls by goroutines without a common lock. Correct means: a success stands for
  a stored backup, retention keeps what it should, a quiet host serves its routes.

## 2. Modules

| Module | Models | Lines of argument |
|---|---|---|
| `CertStore` | bundles as key, CSR, certificate and CA files holding the number of the key they belong to; the pointer; failing writes | used by `Credentials` |
| `Credentials` | rotation, resume, recovery, reconnects, saves of `config.yaml` | extends `CertStore` |
| `CredentialsProofs`, `CredentialsStoreProofs` | theorems about `Credentials`: types; store, commit, crashes, keys | the second extends the first |
| `Deploys` | admission, build, deploy, container commands, removal, pruning on one Docker host | |
| `DeploysProofs` | theorems about `Deploys` | |
| `Outbox` | what the agent promises of a result: it meets exactly one end, in time | abstract |
| `ResultDelivery` | router, queue, drains, the transport, the end of the process | implements `Outbox` |
| `ResultDeliveryProofs` | theorems about `ResultDelivery`, the safety part of the refinement included | |
| `SelfUpdate` | update handler, file replacement, start-up check, rollback | |
| `SelfUpdateProofs` | theorems about `SelfUpdate` | |
| `Telemetry` | collectors, their channel, tailers, and the streamers of successive connections | |
| `TelemetryProofs` | theorems about `Telemetry` | |
| `Backups` | backup commands as lists of helper containers, the shared image lock, retention | |
| `BackupsProofs` | theorems about `Backups` | |
| `EndpointStatus` | what each provider's Ensure and Doctor answer, as functions of what they find | pure; used by `Edge` |
| `Edge` | Traefik, platform cloudflared and tunnel endpoints as find - remove - pull - create - start sequences | extends `EndpointStatus` |
| `EdgeProofs` | theorems about `Edge` and the providers' answers | |
| `MC*` | symmetry sets and sample values for TLC | |

Operators whose name has an underscore (`Final_KeepsTokens`, `DrainNext_StopsOnError`)
are deliberately wrong variants of the operator before the underscore. No specification
uses them; they document which mistake each property detects.

### Credentials

`disk` is `config.yaml`, `mem` is `*a.cfg`, `pointer` and `bundles` are the store. All
operations hold `credentialMu` and `cfgMu`, so `sec` is a record of the one operation
under way and the disk operation it does next: one action per file written, renamed or
removed (`WriteRotationKey`, `StageCertificate`, `SavePending`, `ActivateRotation`,
`SaveFinal`, `DiscardRotation`, ...). `Crash` may fall between any two; it keeps the
disk, reloads `mem` and restarts the loop. While `writable` is false (`DiskFills` to
`DiskFrees`) every write fails and the code's error branches run (`UndoPending`,
`RollbackPointer`, `RestoreConfig`, `ResumeRollback`). `pc` places the reconnect loop,
the heartbeat sender and the receiver; `lingering` holds goroutines of an earlier
connection. The control plane is external: it answers a repeated request id with the
bundle it first made for it (`IssueCredential`), may reject, and may answer late.

A credential is named by the rotation that issued it, and X.509 checks compare key
numbers. Deadlines and the renewal window are free choices of the clock.

### Deploys

`containers`, `images`, `network` and `traefik` are the Docker host; `pc` and `job` are
the handlers with their local variables; `slots`, `seen` and `guard` are `buildSem`,
`deploymentsSeen` and `activeDeploys`; `rpc` and `removal` are the goroutines of REMOVE.
One action is one Docker call or one critical section. The order is the code's: slot,
duplicate filter, mark (a second critical section), guard, disk guard, build, network,
old container, strategy, pull, fast path, run or adopt, Traefik, inspection, health
check, switch, report, and the deferred calls in reverse. A container's name is its
deployment and its id grows with its creation time. Expiry of the duplicate filter
(2 and 5 minutes), of the guard's grace period and, with `GuardExpires`, of its hour is
nondeterministic. A Docker call of the deployer whose error is only logged, or that leaves
the new container behind, may fail (`FindOldFails`, `FastPathFails`, `OldLeftBehind`,
`NewLeftBehind`, bounded by `MaxFaults`). A crash empties everything but the Docker host.
`owed`, `latest`, `checked`, `lapsed` (services whose guard's hour ran out) and `blind`
(deployments whose retry could not see their running container) are history.

### ResultDelivery

Each result has a handler that looks the live stream up (`Route`), sends on what it
found (`SendResult`) and queues on failure. `batch[c]` is what the drain of connection
`c` has swapped out of the queue; drains of the old and the new connection overlap. Each
`Send` is one action. Startup logs are the byte widths of their characters, so cutting
at the limit is modelled by what it does to the last character. External: `wire[c]`
holds what the transport accepted; `Break` loses it. `Crash` ends the process and forgets
what was in memory. `lost`, `dropped`, `poisoned` and `forgotten` are history.

`Outbox` has one variable, the fate of each result: working, pending, or one of five
ends. The refinement mapping (`Fate`) reads it off the histories; `KeepsPromise` states
that every step of `ResultDelivery` makes a result, ends some, or changes nothing
visible (`Outbox`'s `Safety`), and that under its fairness every pending result ends (`Spec`
adds `Fairness`). TLC checks both, the first is proved.

### SelfUpdate

`bin`, `prev`, `staged` and `aside` are the contents of the binary, `.prev`, `.new` and
`.old` (a version, `Absent` or `Partial`); `state` is `update-state.json`. One action is
one file operation; updaters and the main goroutine's rollback share `replaceFile`
(`StageBinary`, `MoveAside`, `MoveIn`, `MoveBack`, `RemoveAside`). `Boot` starts whatever
version is in place. Bad versions never pass the connectivity check and, with
`BadExit`, exit. Downloads, copies, chmods, renames, and writes and removals of the state
file may fail (`MaxFaults`); the last two silently, as their callers ignore the error. The
history `upset` records what the code does not repair and the properties except (`Harm`): a
second update that began while one was under way (`overlap`), a rename into place and its
undoing that both failed (`lost`), a failed file operation of a rollback (`rollback`), an
update whose record is not in the state file (`unsaved`), and a file left half written or
moved aside (`cut`) or an older backup left under a newer record (`stale`) by a crash, or by
an update whose failure could not clear the record. `Bootable` excepts only `overlap`,
`lost` and `cut`.

### Telemetry

A behaviour follows one of two pipelines that share no state, logs or metrics. `tail[c]`
is the tailer of a container together with its entry in the `tailers` map: `ended` is an
entry whose goroutine has returned. `ListManagedContainers` and `Reconcile` are two steps,
so containers change in between. `Offer` is the non-blocking send. Each connection has a
streamer (`OpenStream`, `TakeEntry`, `SendEntry`, `Reopen`), and that of a dead connection
may still take an entry. Docker's follow streams and the RPC's transport are external.

### Backups

A worker runs one command as a list of tasks, each a helper container: ensure the image
(under the coordinator's token), start, wait, use the exit code or the output, remove.
`dir` says what the volume holds of each backup: every file missing, partial or whole.
`RunContainer` gives every container the restart policy `unless-stopped`, so Docker
(external) starts a helper again that has ended and is not yet removed
(`HelperRestarts`); `again` records it. Between the end of a dump or archive and the
deferred removal of its helper the code asks for the size with another helper
(`QuerySize`, `SizeUnknown`). Docker's restart delay is a tenth of a second and a helper's
run takes longer, so the restart is the ordinary case. `written` is history: the parts that
were whole when the wait for their helper ended. The listing helper's log is read once and may be
cut anywhere; frame headers and timestamps double the number of names in it. What `ls`
prints (`Listings`) and what `sort.Strings` makes of it (`Sorted`) are stated by their
results, as sets with one member, and not computed.

### Edge

Each name is independent of the others, so a behaviour follows one domain: Traefik, the
platform's cloudflared, the tunnel endpoints of one token, or the providers that only
look (`probe`). `box` is the container under the name; a look-up finds it only when it
runs, a create fails when it exists. Every Docker call is one action and may fail;
`Crash` ends all goroutines and `Run` begins again. `disturbed` records collisions and
failures the code does not repair by itself; a start of the agent clears it where the
start repairs them. `ProbeEndpoint` tries every provider on every outcome of its checks.

## 3. Runs

Ten runs must pass and two must find a violation (section 5). `backups` takes under three
minutes on two cores, every other run less than two.

| Run | Instance | Checks |
|---|---|---|
| `credentials_crash` | 2 rotations, 2 keys each, 1 tunnel, expiry, rejections, 1 crash | `TypeOK`, `NoMixedCredentials`, `CutoverCanResume`, `RequestKeyKept` |
| `credentials_outage` | 2 rotations, 2 keys, 1 tunnel, 1 outage of the disk, 1 crash | `ActiveBundleComplete`, `ActiveKeyMatches`, `NoClobber`, `CommitOrder` |
| `credentials_live` | 1 rotation, token mode, expiry, 1 crash, fair | `CutoverCompletes`, `Reconnects` |
| `deploys_strategies` | a recreate and a blue-green deployment of one service, 2 handlers, 1 slot, expiring duplicates, 1 failed Docker call, 1 crash | `TypeOK`, `ServedVersion`, `OneVersion`, `NoDowntime` |
| `deploys_answered` | 1 deployment, 2 handlers, 1 slot, 1 removal, 1 stop, expiring entries, pruner, no Traefik, fair | `GuardCoversDeploy`, `CommandAnswered` |
| `deploys_remove` | 1 deployment, 2 handlers, 1 removal | `RemoveSparesDeploy` is violated |
| `delivery` | 3 results, queue of 2, 4 connections, 1 break, 1 result with a cut character, 1 crash, fair | `TypeOK`, `OneOwner`, `KeepsPromise` (refinement of `Outbox`) |
| `selfupdate` | 3 versions, version 3 bad, 1 updater, 2 downloads, 3 faults, 3 restarts, 2 crashes, fair | `TypeOK`, `Bootable`, `RollbackRestores`, `BadVersionRolledBack` |
| `telemetry` | both pipelines, 1 container, channel of 1, 2 connections, 1 restart of the container, 1 break, 1 fault, fair | `TypeOK`, `LossBounded`, `InOrder`, `RunningIsTailed`, `ChannelDrains`, `NeverStalls` |
| `backups` | 2 backup ids, 2 workers, database backups and deletes, retention of 1, 1 restarted helper, 1 fault, fair | `TypeOK`, `SuccessWasWritten`, `RetentionKeeps`, `PulledOnce`, `BackupAnswered` |
| `backups_stored` | 1 database backup, 1 restarted helper, no fault | `SuccessIsStored` is violated |
| `edge` | 2 workers, 2 networks, 2 tokens, 2 endpoints, 4 commands, 2 faults, 2 crashes; every provider and world | `TypeOK`, `RoutesServed`, `TunnelFollowsConfig`, `ActiveIsServed`, `DoctorProves` |

**Why the bounds are enough to be interesting.** Two rotations are what it takes for a
late answer or rejection of one request to meet the next; two keys for a retry that
regenerates a key under the same id; one crash for every intermediate disk state to be a
start state. Two handlers and two deployments give a duplicate, a waiting command and a
successor of a different strategy; ids up to 4 allow each deployment to be created twice.
A queue of two with three results overflows; four connections allow one break and both
stream aborts a poison result causes (by its handler and by a drain) with a live
connection left, so `KeepsPromise` is not satisfied by running out of connections. Three
versions give an update on top of an unconfirmed one, three restarts bring the count of
starts to its limit, and three faults let a record, a rename and its undoing all fail in one
update. A channel of one entry is full at
once, and two connections give an old streamer beside a new one. Two backups with a
retention of one are the smallest case in which two prunes compete.
Two workers and four commands let a command meet the leftovers of two earlier ones, and
two crashes let one fall into the repair of another.

**Restrictions that a property needs.** They are where the code is weaker than its
comments (section 5), so they are constants and not built in:
`NoMixedCredentials`, `CutoverCanResume`, `RequestKeyKept` and `Reconnects` hold without disk
outages, `ActiveKeyMatches` with one outage (with two, a crash is needed to break it);
`GuardCoversDeploy`, `ServedVersion`, `NoDowntime` and `OneVersion` with one build slot
(`max_concurrent_builds` of 1; the default is two, and TLC finds each of them violated with
two handlers deploying the same service at once). `deploys_answered` has no Traefik, so that
the pruner finds an empty network to remove. In the other modules, and for failed Docker calls in `Deploys`, the exceptions are history variables, so
that each run contains the excepted behaviours and what comes after them: `upset`
(`SelfUpdate`), `lapsed`, `blind` and the counts of crashes and failed calls (`Deploys`: each
crash or failed call may leave one second version running), `excused` (`Telemetry`: a container that was down between
two lists only, or whose tailer failed), `again` (`Backups`: a listing that Docker started
again), `disturbed` (`Edge`: colliding commands and failed calls, until a start of the agent
repairs them; a crash between the create and the start of Traefik; different tokens in
flight). `selfupdate` has one updater, since every property excepts an overlap. In
`telemetry` the order of entries is exercised by the metrics source only; the theorem is about any number of sources.
`BadVersionRolledBack` is checked for versions that exit.

**Symmetry** is used in runs without temporal properties only, over rotations,
handlers, workers, networks, tokens or endpoints. Deadlock is not checked in `delivery`,
`selfupdate`, `telemetry`, `backups` and `edge`, which end when their bounded connections,
commands, restarts or backups are used up.

**Fairness.** Goroutines that can run do (weak fairness of their steps). Strong
fairness is assumed where the code waits for something shared: operations under
`credentialMu` (a Go mutex in starvation mode hands the lock to the waiter), slots of
`buildSem` (a channel serves blocked senders in order). The network lets a dial and a
renewal through eventually (strong fairness of `Connect`, `PostRenewal`), disk outages
end, tickers fire, an open stream delivers, systemd restarts, and a version that exits
does so. In `backups` helpers end and the coordinator's token is handed out in turn (a
channel serves blocked receivers in order). In `telemetry` nothing is assumed of
connecting: `NeverStalls` must hold without a control plane, and `ChannelDrains` says so
when it needs one. Nothing forces a restart of a process that keeps running, a new command, a
crash, an expiry or a failure.

## 4. Proofs

Every theorem holds for every value of the constants: any sets of rotations, results,
containers, workers, networks, tokens or backup ids, any capacity or limit, any bound on
connections, breaks, faults, commands, outages and crashes. The assumptions are the
named ones of each module (`StoreConstants`, `CredentialConstants`, `DeployConstants`,
`DeliveryConstants`, `TelemetryConstants`, `UpdateConstants`, `BackupConstants`,
`EdgeConstants`): the constants' types, and that a name standing for "none" or for the main
goroutine is not one of the others. TLC evaluates them in every run. Every component has a
`TypeCorrect` for its `TypeOK`.

| Theorem | States | Extra assumption |
|---|---|---|
| `PointerNeverDangles` (`CredentialsStoreProofs`) | `Spec => []ActiveBundleComplete` | |
| `UpdatesNeverClobber` | `Spec => NoClobber`, an action property | |
| `TokensFollowPointer` | `Spec => CommitOrder`, an action property | |
| `CrashNeverMixesCredentials` | `Spec => []NoMixedCredentials` | `MaxOutages = 0` |
| `CrashedCutoverCanResume` | `Spec => []CutoverCanResume` | `MaxOutages = 0` |
| `ActiveKeyAlwaysMatches` | `Spec => []ActiveKeyMatches` | `MaxOutages = 0` |
| `SignedKeyIsKept` | `Spec => []RequestKeyKept` | `MaxOutages = 0` |
| `KeysMatchThroughOutages` | `Spec => []ActiveKeyMatches` | `[][UncutDiscard]_vars`: no crash inside a discard |
| `KeysMatchWithoutCrashes` | `Spec => []ActiveKeyMatches` | `MaxCrashes = 0` |
| `BuildsAreBounded` (`DeploysProofs`) | at most `MaxBuilds` handlers are admitted at once | |
| `GuardCoversSerialDeploys` | `Spec => []GuardCoversDeploy` | `[]Serialized` |
| `RemovesRespectGuard` | no removal passes the guard check of a service while it is deployed, an action property | `[]Serialized` |
| `LastReportedRuns`, `LastReportedRunsAlone` | `Spec => []ServedVersion` | `[]Undisturbed`, or `Alone` |
| `KeepsServing`, `KeepsServingAlone` | `Spec => NoDowntime`, an action property | `[]Undisturbed`, or `Alone` |
| `OneVersionRuns`, `OneVersionRunsAlone` | `Spec => []OneVersion` | `[]Undisturbed`, or `Alone` |
| `EveryResultHasOneOwner` (`ResultDeliveryProofs`) | `Spec => []OneOwner` | |
| `ImplementsOutbox` | `Spec => Promise!Safety`: the refinement of `Outbox` without its fairness | |
| `LossesAreBounded` (`TelemetryProofs`) | `Spec => []LossBounded` | |
| `ArrivesInOrder` | `Spec => []InOrder` | |
| `AlwaysBootable` (`SelfUpdateProofs`) | `Spec => []Bootable` | |
| `RollbacksRestore` | `Spec => []RollbackRestores` | |
| `TraefikServesRoutes` (`EdgeProofs`) | `Spec => []RoutesServed` | |
| `CloudflaredFollowsConfig` | `Spec => []TunnelFollowsConfig` | |
| `ActiveTunnelsAreServed` | `Spec => []ActiveIsServed` | |
| `DoctorsProve` | `Spec => []DoctorProves` | |
| `OnePullAtATime` (`BackupsProofs`) | `Spec => []PulledOnce` | |
| `RetentionIsKept` | `Spec => []RetentionKeeps` | |
| `SuccessesWereWritten` | `Spec => []SuccessWasWritten` | |

The exceptions a property makes through a history variable (`upset`, `lapsed`, `blind`,
`disturbed`, `again`)
are part of the property in the proofs as in the runs. Every inductive invariant below was
first checked by TLC on a small instance.

**Credentials.** *Type correctness* is not inductive: `Final(cfg)` is a configuration only if
`PendingRotationID` is set. `TypeInv` adds that operations in their later steps work on a
real rotation id (`SectionOK`), that requests on their way hold one (`ArgOK`) and that the
request recorded in memory is the one the operation works on (`OwnerOK`).

*The store.* `StoreInv` is proved on top of it. The pointer can go wrong in three ways: a
discard of the active bundle, a rollback to a bundle that has been discarded, and a resume to a
bundle that has lost a file. The first is excluded by `DiscardRotation`'s test. For the second,
`PreviousOK` says that the previous bundle named by the pending metadata, in memory or in the
copy an operation will restore, is complete, and is the bundle being installed only if that one
is already active; for the third, the resume's check of the bundle still holds when it writes
the pointer, since the locks are held. That memory and file agree (`MemFollowsDisk`) is a
conjunct since the argument about `mem` must survive a crash.

*The order of the commit.* Three compensating steps write a whole configuration back. They
are no change of tokens because the copy they write has the tokens of the file (`CommitInv`);
the last save of a cutover is one, and finds the pointer at the new bundle.

*Two writers of one file.* A rotation restores, after a failed save, the whole configuration
it began with; that copy has the saved tunnel because `cfgMu` is held from the copy to the
restore (`TunnelInv`).

*Crashes.* `CrashInv` says that with a reliable disk a recorded cutover
(`mem.ptok`) exists only while its operation completes it or after a restart that
has yet to resume it, that its bundle is complete, and that otherwise tokens and pointer
agree; the compensating steps are unreachable.

*Keys.* `KeyInv` follows a key from `PrepareRotation` to the certificate. `PendingInv`: the
pending request has its CSR file, the key is the one the CSR was made for, every request
under that id that has been sent or is on its way carries it, and so does the certificate.
`FreshInv`: an id not in use, or whose key is being made, is in no request, so a key is
written only where no answer can be for an older one.

*Keys through outages.* With outages `KeyInv` is false: a save fails while the discard
after it goes on, so an id stays pending without its bundle, and a second key is made under
it. `ActiveKeyMatches` itself is false with two outages and a crash (section 5). `HeldInv`
shows that the crash has to fall inside a discard. It says of every bundle that is not in
the middle of one (`Whole`): without a CSR it has no certificate, and everything asked for or issued
under its id is for an earlier key (`Older`), so no certificate that arrives fits it; and a
certificate is the one of the key beside it. A key is rewritten only where there is no CSR,
and a CSR disappears only in a discard that then takes all the files.

**Deploys.** `SlotInv` ties the semaphore to the handlers that are admitted, which bounds them
and, with one slot, shows that deploys do not overlap (`OneSlotSerializes`). The default is
two slots, and overlapping deploys of one service break all four properties (section 5). The
theorems are therefore stated for any number of slots under `Serialized`: no two
handlers deploy the same service at once, while those of different services run side by side.
The forms with `Alone` (one slot, no remover, no stop command: the
constants of `deploys_strategies`) follow and have no hypothesis on the behaviour.

`GuardCoversDeploy` is not inductive, since a guard in its grace period may expire at any time;
`GuardHeld` says that a deploy's guard is the one that lasts an hour, or the hour has run out.
From it also follows that a removal that arrives during a deploy, within that hour, is turned
away: the hole that `deploys_remove` shows is the removal that had passed its check before the
deploy began, and no other.

The serving properties need `Undisturbed`: besides `Serialized`, no removal has passed its
check and no container was stopped from outside. TLC refutes them without: a stopped container
that its own redeploy adopts and that is started again meanwhile is removed when the health
check fails, and a stopped old version that is started again runs beside the new one.
`HostInv`: container ids are unique and never reused, so an id remembered across a Docker call
names the same container or none. `ServeInv` says for each service that what was last reported
has a container, and for each handler what it may rely on at each step (`DeployInv`): the old
container belongs to its service; the new one is its own, and is neither reported nor counted
as healthy before its check; where the old one is removed the new one has passed. A step
changes one service only (`OnlyService`), so deploys of other services are kept (`OthersKept`).
`VersionInv` counts: a service has one container, or two while a handler's new one is on trial,
and one more for each crash and each Docker call that failed in a deploy; where a deploy has no
old container, there is room for its new one. `NewestRunning` is a maximum, which
`MaxIsLargest` derives from the well-foundedness of the natural numbers.

**ResultDelivery.** `OneOwner` counts owners. A drain that swaps the queue into a
batch it still holds would lose results, so `TypeInv` says which batches are empty
(`DrainOK`). `PlaceInv` says that no result is mislaid (`Kept`), that one held by a handler, the
queue, a batch or a transport is nowhere else and there only once, and that the ends exclude
each other. The refinement follows: `Fate` of every result moves as `Outbox` allows.

**Telemetry.** `InOrder` looks at the head of a transport. `OrderInv` orders everything behind
it: transports, the entry in a streamer's hand, the channel, the unread lines, each before
the next and after what arrived last. `LossInv` counts with the losses that have
happened those still to come: streamers whose stream is gone and that may take
one more entry.

**SelfUpdate.** `AloneInv` says that updates run only beside a main goroutine that serves.
Until a harm that can leave no binary (`Intact`), one updater runs at most, and `UpdaterInv`
says what the four files hold at each of its steps, after a failed rename too; while none
runs, `RestInv` says what they hold, through a rollback of the main goroutine. `BackupOK`: the
backup of a pending update is whole and, if the update was recorded, the version it replaced.

**Edge.** The serving properties speak of quiet states. The invariants say for every state in
between who still has to do what: `PlatformInv` and `TunnelInv`, that the container runs or some
goroutine is on its way to create or start it, with the token of the configuration;
`TraefikInv`, that a goroutine which replaces Traefik is alone and carries the networks of
the old container (`BootInv`, `SwitchInv`), and otherwise that each network with routes is
connected or a deploy will connect it (`Promised`). `DoctorsProve` is about functions: a
case for each provider, over all outcomes of its checks.

**Backups.** `PullInv`: who pulls has the token. `RetainInv` says of the directories a prune
will remove what `RetentionKeeps` says of those it has removed, and that a listing is sorted,
without repetition, of names that were made; the count of later names is by an injection
from positions to names. `StoreInv`: a command writes only its own backup (`OwnInv`); every
part asked for was written or is still to be (`DueInv`); a helper that ended well filled its
file while the command waited (`FillInv`). The actions are first grouped into the
few ways in which a command can move (`NextMoves`), so that each invariant is
proved for moves and not for every action.

**Only model-checked.** Liveness, which the prover cannot reason about: `CutoverCompletes`,
`Reconnects`, `CommandAnswered`, `BadVersionRolledBack`, `RunningIsTailed`,
`ChannelDrains`, `NeverStalls`, `BackupAnswered`, and the fairness of `Outbox` in
`KeepsPromise`. `ActiveKeyMatches` with one outage and a crash inside a discard (the run
`credentials_outage`). All other invariants and action properties of the passing runs are proved.

## 5. Where code and comments disagree

Kept as runs that must fail:

* `deploys_remove`: REMOVE tests the guard once and then lists; a deploy that starts in
  between loses its container.
* `backups_stored`: helpers get `unless-stopped` (`docker/client.go:296`). A dump or archive that
  has been waited for is started again while its size is asked for, truncates its file and is
  killed with the helper, while the command answers success ("size unknown but backup
  succeeded", `executor.go:345`). What holds is `SuccessWasWritten`: the part was whole when
  the wait ended.

Reachable in the models, where the properties of section 3 except them or a constant
excludes them:

* `credentials.go:336`: after a failed save of a cleared request the bundle is discarded all the
  same, and `config.yaml` still names it; every later resume fails before any dial, so the agent
  never connects again (`Reconnects` with `MaxOutages = 1`).
* `credentials.go:194` discards the key of a request that stays pending when the save of
  the metadata fails (`RequestKeyKept` with `MaxOutages = 1`).
* `handler.go:176`: the guard is one entry per service ("slugs with in-progress or recently
  completed deploys", line 55); the end of a failed deploy deletes it under another deploy of
  the service (`GuardCoversDeploy` with `MaxBuilds = 2`).
* `docker/client.go:746`: the pruner "periodically removes empty clank-project-* networks to
  prevent Docker address pool exhaustion" (`agent.go:482`). Traefik stays attached to every
  project network, so none is ever empty (with `TraefikRuns`, the action
  `PruneOrphanedNetworks` removes nothing once a deploy has attached it).
* `handler.go:857`, `agent.go:404`: "After 3 failed attempts, it rolls back" (`agent.go:379`). If
  the state file cannot be written, which both lines ignore, an update is installed without a
  record, or its starts are not counted, and a bad version is never rolled back (`unsaved`).
* `selfupdate.go:429`: `replaceFile` "atomically replaces dst" (line 403) with two renames. A
  crash between them, the `os.Exit` of a second update, or two failed renames leave no binary
  to start (`cut`, `overlap`, `lost`).
* `handler.go:422`: startup logs are made valid UTF-8 ("Proto3 string fields must be valid
  UTF-8", line 103) and then cut at byte 4096; a cut inside a character aborts the stream
  and the result is given up (`poisoned` is not empty in `delivery`).
* `collector.go:118`: a container that restarts between two lists, or whose tailer failed,
  is never tailed again, since its entry stays in the map.
* `executor.go:498`: a listing that Docker started again names every directory twice, and
  `enforceRetention` removes too much (`again`).
* `executor.go:509`: "Sort by creation time via metadata.json if available", but names are
  sorted; directories of failed backups count.
* `traefik.go:120`: a deploy that connects Traefik between the inspection and the removal, or
  a second ENSURE that does the same work, leaves the new Traefik off project networks until
  the agent restarts; a failed pull after the removal leaves no Traefik until then.
* `traefik.go:89`: after a crash between create and start, `clank-traefik` exists and does
  not run. Every later create fails on the name. cloudflared is removed by name first.
* `handler.go:1073`, `cloudflared.go:19`: of two tunnel configurations in flight the older
  token may win in Docker and lose in `config.yaml`.
* `cftunnel.go:67`: disabling one endpoint removes the container of every endpoint with the
  same token. An endpoint status is sent on the live stream only and never queued.
* `certs/store.go:75`: `PrepareRotation` makes a new key when the CSR file cannot be read,
  without looking at the pointer. After a discard that a crash cut short between the CSR
  and the key, and a second outage in which neither the final save nor the rollback of the
  pointer succeeds, the next renewal writes the new key into the active bundle
  (`ActiveKeyMatches` with `MaxOutages = 2`, `MaxCrashes = 1`).
* `handler.go:360`: with `MaxBuilds = 2` a duplicated command passes the filter twice.
* `handler.go:165`: a deploy that takes more than an hour goes on unguarded (`lapsed`).
* `deployer.go:283`: a failed search for the old container, a failed removal of it, or a new
  container whose address cannot be read (line 605) leaves a second version running
  (`OneVersion` counts one for each).
* `deployer.go:386`: after a crash during the health check the fast path reports the
  unchecked container active; after a crash before the switch it leaves the old one running.
* `stream_router.go:27`: a message accepted just before the stream breaks is not queued
  (`lost` is not empty).
* `handler.go:842`: two updates at once overwrite the backup with the new binary (`upset`).
* `agent.go:411`: a version that runs but cannot connect is never rolled back
  (`BadVersionRolledBack` with `BadExit = FALSE`).
* `agent.go:397`: a failed rollback clears the state file, and the bad version is started
  for ever (`upset`).

## 6. Not modelled

* **Time**: lengths of backoffs and tickers, `renewalBackoff`; the recovery branch of `Run`
  can wait 64 s where the maximum is 60 s (`agent.go:130`).
* **Disk guard and clean-up plan** (`evaluateDeployDiskGuard`, `computeCleanupPlan`, retention
  canary, `HandleMaintenance`): sequential arithmetic over one snapshot of Docker's inventory,
  covered by the repository's own tests. In `Deploys` the guard passes or refuses.
* **Image builder, registry pushes, introspection and probing, TLS set-up**: calls to external
  programs or services with no state of the agent's; each is a step that succeeds or fails.
* **Release signature verification**: the crypto library; a download that fails without retry.
* **Volumes** and their ownership containers (`EnsureVolumeOwnership` of two deploys shares one
  container name, `docker/client.go:798`), Traefik labels, environment injection, ports.
* **Log collector's `stopAll`** and drop counter; the readings of the metrics collector, whose
  stats request is cancelled before its body is read (`metrics/collector.go:132`).
* **What `tailscale serve` does** to the host, and the diagnostics texts of the providers.
* **Command line, doctor, system information**: sequential scripts and reports.
* **Generated protocol code.**

Smaller simplifications:

* Docker's stop and remove calls never fail in `Backups` and in a REMOVE of `Deploys` (the code
  ignores their errors and goes on); in `Edge` a failed removal leaves the container stopped,
  never running, the harder case for properties that ask for a running one.
* `RunContainer` creates and starts in one step in `Deploys`. A crash in between would leave a
  container that never ran, which a retry adopts and fails at the look-up of its address.
* The credential loop reads certificate and token without error: a failing `Expiry()`
  (`credentials.go:95`, `280`) records a failure or waits, as other failures do.
* A healthy connection that ends because a credential was rotated (`agent.go:349`) is a `Break`
  in `ResultDelivery`, with the same effect on streams and queue.
* The pointer is written in one step; `update-state.json` in one step too, or it is left as it
  was or empty. A service belongs to one project network.

## 7. Plan

1. Further abstract specifications: a rotation as one atomic switch of credential, which
   `Credentials` refines through crashes; a service as "serves version v", which `Deploys`
   refines.
2. Volumes and several project networks in `Deploys`.
3. `ActiveKeyMatches` for one outage and crashes inside a discard, from an invariant that counts
   the outages that have passed.
