---------------------------- MODULE DeploysProofs ----------------------------
(***************************************************************************)
(* What a deploy promises about the containers of its service, for any     *)
(* number of services, deployments, handlers, containers and crashes.      *)
(***************************************************************************)
EXTENDS Deploys, FiniteSetTheorems, WellFoundedInduction, TLAPS

Removal == [slug : Slugs, todo : SUBSET Ids, any : BOOLEAN]

(* The semaphore holds finitely many handlers, so that they can be counted. *)
TypeInv == TypeOK /\ IsFiniteSet(slots)

-----------------------------------------------------------------------------
(* The operators of the model *)

(* An idle handler and an idle removal are well-formed. *)
LEMMA IdleTypes == NoJob \in Job /\ NoRemoval \in Removal
BY DeployConstants DEF NoJob, Job, NoRemoval, Removal, None, Ids

(* A non-empty bounded set of numbers has a largest one, and Max finds it. *)
LEMMA MaxIsLargest ==
    ASSUME NEW S \in SUBSET Nat, S # {}, NEW n \in Nat, \A x \in S : x <= n
    PROVE  Max(S) \in S /\ \A x \in S : x <= Max(S)
<1> DEFINE Bound == {m \in Nat : \A x \in S : x <= m}
<1>1. \E m \in Bound : \A k \in Bound : m <= k
  <2>1. Bound \in SUBSET Nat /\ Bound # {}
    OBVIOUS
  <2> DEFINE Less == OpToRel(<, Nat)
  <2>2. IsWellFoundedOn(Less, Nat)
    BY NatLessThanWellFounded
  <2>3. \A x, y \in Nat : <<x, y>> \in Less <=> x < y
    BY DEF OpToRel
  <2> HIDE DEF Bound, Less
  <2>4. \E m \in Bound : \A k \in Bound : ~ (<<k, m>> \in Less)
    BY <2>1, <2>2, WFMin
  <2>5. PICK m \in Bound : \A k \in Bound : ~ (<<k, m>> \in Less)
    BY <2>4
  <2>6. \A k \in Bound : m <= k
    <3>1. SUFFICES ASSUME NEW k \in Bound PROVE m <= k
      OBVIOUS
    <3>2. k \in Nat /\ m \in Nat /\ ~ (<<k, m>> \in Less)
      BY <2>1, <2>5
    <3>3. ~ (k < m)
      BY <2>3, <3>2
    <3> QED BY <3>2, <3>3
  <2> QED BY <2>6
<1>2. PICK m \in Bound : \A k \in Bound : m <= k
  BY <1>1
<1>3. m \in S
  <2>1. SUFFICES ASSUME m \notin S PROVE FALSE
    OBVIOUS
  <2>2. m # 0 /\ \A x \in S : x <= m - 1
    <3>1. PICK x \in S : TRUE
      OBVIOUS
    <3>2. m \in Nat /\ \A y \in S : y \in Nat /\ y <= m /\ y # m
      BY <2>1
    <3> HIDE DEF Bound
    <3> QED BY <3>1, <3>2
  <2>3. m - 1 \in Bound
    BY <2>2
  <2> QED BY <1>2, <2>3
<1>4. \E x \in S : \A y \in S : x >= y
  BY <1>3
<1> QED BY <1>4 DEF Max

(* The old container of a deploy, if there is one, is a running container  *)
(* of the service, and none of them is newer.                              *)
LEMMA NewestRunningIs ==
    ASSUME TypeOK, NEW s
    PROVE  \/ NewestRunning(s) = None /\ Running(s) = {}
           \/ \E c \in Running(s) : NewestRunning(s) = c.id /\ \A e \in Running(s) : e.id <= c.id
<1> DEFINE R == {c.id : c \in Running(s)}
<1>1. R \in SUBSET Nat /\ \A x \in R : x <= MaxContainers
  BY DeployConstants DEF TypeOK, Container, Ids, Running, Of
<1>2. CASE Running(s) = {}
  BY <1>2 DEF NewestRunning
<1>3. CASE Running(s) # {}
  <2>1. R # {}
    BY <1>3
  <2>2. NewestRunning(s) = Max(R)
    BY <1>3 DEF NewestRunning
  <2> HIDE DEF R
  <2>3. Max(R) \in R /\ \A x \in R : x <= Max(R)
    BY <1>1, <2>1, MaxIsLargest, DeployConstants
  <2> QED BY <2>2, <2>3 DEF R
<1> QED BY <1>2, <1>3

-----------------------------------------------------------------------------
(* Type correctness *)

(* The initial states are well-typed. *)
LEMMA InitType == Init => TypeInv
<1> SUFFICES ASSUME Init PROVE TypeInv
  OBVIOUS
<1>1. IsFiniteSet(slots) /\ Cardinality(slots) <= MaxBuilds
  BY FS_EmptySet, DeployConstants DEF Init
<1>2. 0 \in 0 .. MaxContainers /\ 0 \in 0 .. MaxStops /\ 0 \in 0 .. MaxFaults /\ 0 \in 0 .. MaxCrashes
  BY DeployConstants
<1>3. job \in [Handlers -> Job] /\ removal \in [Removers -> Removal]
  BY IdleTypes DEF Init
<1> QED BY <1>1, <1>2, <1>3 DEF Init, TypeInv, TypeOK, Removal, PC, Unguarded

(* Writing a field of a handler's local variables keeps them well-formed. *)
LEMMA JobField ==
    ASSUME NEW h \in Handlers, job \in [Handlers -> Job], NEW i \in Ids \cup {None}
    PROVE  /\ [job EXCEPT ![h].old = i] \in [Handlers -> Job]
           /\ [job EXCEPT ![h].new = i] \in [Handlers -> Job]
BY DEF Job

(* A terminal "active" status is of the right type, and is all it is. *)
LEMMA ActivateTypes ==
    ASSUME TypeOK, NEW h \in Handlers, NEW to, Activate(h, to)
    PROVE  /\ job' \in [Handlers -> Job]
           /\ owed' \in SUBSET Handlers /\ blind' \in SUBSET Deployments
           /\ latest' \in [Slugs -> SUBSET Deployments]
           /\ pc' = [pc EXCEPT ![h] = to]
<1>1. job[h] \in Job /\ job[h].dep \in Deployments /\ SlugOf[job[h].dep] \in Slugs
  BY DeployConstants DEF TypeOK, Job
<1>2. [job[h] EXCEPT !.ok = TRUE] \in Job
  BY <1>1 DEF Job
<1>3. job' \in [Handlers -> Job]
  BY <1>2 DEF Activate, TypeOK
<1>4. owed' \in SUBSET Handlers /\ blind' \in SUBSET Deployments
  BY <1>1 DEF Activate, TypeOK
<1>5. latest' \in [Slugs -> SUBSET Deployments]
  BY <1>1 DEF Activate, TypeOK
<1> QED BY <1>3, <1>4, <1>5 DEF Activate, Go

(* A handler that gives its slot back leaves the semaphore well-formed. *)
LEMMA SlotReleased ==
    ASSUME TypeInv, NEW h
    PROVE  IsFiniteSet(slots \ {h}) /\ Cardinality(slots \ {h}) <= MaxBuilds
<1>1. IsFiniteSet(slots) /\ Cardinality(slots) <= MaxBuilds
  BY DEF TypeInv, TypeOK
<1>2. Cardinality(slots) \in Nat
  BY <1>1, FS_CardinalityType
<1>3. /\ IsFiniteSet(slots \ {h})
      /\ Cardinality(slots \ {h}) = IF h \in slots THEN Cardinality(slots) - 1 ELSE Cardinality(slots)
  BY <1>1, FS_RemoveElement
<1> QED BY <1>1, <1>2, <1>3, DeployConstants

(* Every step of a deploy handler keeps the types. *)
LEMMA HandlerStepType ==
    ASSUME TypeInv, NEW h \in Handlers, DeployStep(h)
    PROVE  TypeInv'
<1>a. ASSUME NEW to, Activate(h, to)
      PROVE  /\ job' \in [Handlers -> Job]
             /\ owed' \in SUBSET Handlers /\ blind' \in SUBSET Deployments
             /\ latest' \in [Slugs -> SUBSET Deployments]
             /\ pc' = [pc EXCEPT ![h] = to]
  BY <1>a, ActivateTypes DEF TypeInv
<1> USE DeployConstants DEF TypeInv, TypeOK, dockerVars, handlerVars, historyVars, boundVars, InDeploy, Fault, Quiet, Go,
        PC, Unguarded, Deploying
<1>0. job[h] \in Job /\ job[h].dep \in Deployments /\ SlugOf[job[h].dep] \in Slugs
  BY DEF Job
<1>1. CASE AcquireSlot(h)
  <2>1. IsFiniteSet(slots') /\ Cardinality(slots') <= MaxBuilds
    <3>1. IsFiniteSet(slots) /\ slots' = slots \cup {h} /\ Cardinality(slots) < MaxBuilds
      BY <1>1 DEF AcquireSlot
    <3>2. Cardinality(slots) \in Nat
      BY <3>1, FS_CardinalityType
    <3>3. /\ IsFiniteSet(slots \cup {h})
          /\ Cardinality(slots \cup {h}) = IF h \in slots THEN Cardinality(slots) ELSE Cardinality(slots) + 1
      BY <3>1, FS_AddElement
    <3> QED BY <3>1, <3>2, <3>3, DeployConstants
  <2> QED BY <1>1, <2>1 DEF AcquireSlot
<1>2. CASE SkipDuplicate(h)
  <2>1. IsFiniteSet(slots') /\ Cardinality(slots') <= MaxBuilds
    BY <1>2, SlotReleased DEF SkipDuplicate
  <2>2. job' \in [Handlers -> Job]
    BY <1>2, IdleTypes DEF SkipDuplicate
  <2> QED BY <1>2, <2>1, <2>2 DEF SkipDuplicate
<1>3. CASE NotSeen(h)
  BY <1>3 DEF NotSeen
<1>4. CASE MarkDeploymentSeen(h)
  BY <1>4 DEF MarkDeploymentSeen
<1>5. CASE MarkDeployActive(h)
  BY <1>5 DEF MarkDeployActive
<1>6. CASE EvaluateDeployDiskGuard(h)
  BY <1>6 DEF EvaluateDeployDiskGuard
<1>7. CASE Build(h)
  BY <1>7 DEF Build
<1>8. CASE DeployFails(h)
  BY <1>8 DEF DeployFails, Fail
<1>9. CASE EnsureNetwork(h)
  BY <1>9 DEF EnsureNetwork
<1>10. CASE FindOld(h)
  <2>1. NewestRunning(SlugOf[job[h].dep]) \in Ids \cup {None}
    BY NewestRunningIs DEF Running, Of, Container
  <2>2. job' \in [Handlers -> Job]
    BY <1>10, <2>1, JobField DEF FindOld
  <2> QED BY <1>10, <2>2 DEF FindOld
<1>11. CASE StopOld(h)
  <2>1. job' \in [Handlers -> Job]
    BY <1>11, JobField DEF StopOld
  <2> QED BY <1>0, <1>11, <2>1 DEF StopOld, StopAndRemove
<1>12. CASE PullImage(h)
  BY <1>0, <1>12 DEF PullImage
<1>13. CASE FastPath(h)
  <2>1. UNCHANGED dockerVars /\ InDeploy
    BY <1>13 DEF FastPath
  <2>2. CASE Activate(h, "report") /\ UNCHANGED checked
    BY <1>a, <2>1, <2>2
  <2>3. CASE Go(h, "run") /\ UNCHANGED <<job, historyVars>>
    BY <2>1, <2>3
  <2> QED BY <1>13, <2>2, <2>3 DEF FastPath
<1>14. CASE CompanionsNotReady(h)
  BY <1>14 DEF CompanionsNotReady, Fail
<1>15. CASE RunContainer(h)
  <2>1. created + 1 \in Ids /\ created + 1 \in 0 .. MaxContainers
    BY <1>15 DEF RunContainer, Ids
  <2>2. job' \in [Handlers -> Job]
    BY <1>15, <2>1, JobField DEF RunContainer
  <2>3. containers' \in SUBSET Container
    <3>1. [id |-> created + 1, dep |-> job[h].dep, up |-> TRUE] \in Container
      BY <1>0, <2>1 DEF Container
    <3> QED BY <1>15, <3>1 DEF RunContainer
  <2> QED BY <1>15, <2>1, <2>2, <2>3 DEF RunContainer
<1>16. CASE AdoptContainer(h)
  <2>1. job' \in [Handlers -> Job]
    <3>1. PICK c \in Named(job[h].dep) : job' = [job EXCEPT ![h].new = c.id]
      BY <1>16 DEF AdoptContainer
    <3>2. c.id \in Ids \cup {None}
      BY DEF Named, Container
    <3> QED BY <3>1, <3>2, JobField
  <2> QED BY <1>16, <2>1 DEF AdoptContainer
<1>17. CASE RunFails(h)
  BY <1>17 DEF RunFails, Fail
<1>18. CASE ConnectTraefik(h)
  BY <1>18 DEF ConnectTraefik
<1>19. CASE InspectContainer(h)
  BY <1>19 DEF InspectContainer, Fail, StopAndRemove
<1>20. CASE HealthPasses(h)
  <2>1. job[h].new \in Ids
    BY <1>20 DEF HealthPasses, WithId, Container
  <2> QED BY <1>20, <2>1, <1>a DEF HealthPasses
<1>21. CASE HealthFails(h)
  BY <1>21 DEF HealthFails, Fail, StopAndRemove
<1>22. CASE DatabaseUnhealthy(h)
  BY <1>22 DEF DatabaseUnhealthy, Fail
<1>23. CASE SwitchTraffic(h)
  BY <1>23 DEF SwitchTraffic, StopAndRemove
<1>24. CASE ReportIntrospection(h)
  BY <1>24, <1>a DEF ReportIntrospection
<1>25. CASE MarkDeployDone(h)
  BY <1>25 DEF MarkDeployDone
<1>26. CASE ClearDeploymentSeen(h)
  BY <1>26 DEF ClearDeploymentSeen
<1>27. CASE ReleaseSlot(h)
  <2>1. IsFiniteSet(slots') /\ Cardinality(slots') <= MaxBuilds
    BY <1>27, SlotReleased DEF ReleaseSlot
  <2>2. job' \in [Handlers -> Job]
    BY <1>27, IdleTypes DEF ReleaseSlot
  <2> QED BY <1>27, <2>1, <2>2 DEF ReleaseSlot
<1>28. CASE FindOldFails(h)
  BY <1>28 DEF FindOldFails
<1>29. CASE OldLeftBehind(h)
  <2>1. job' \in [Handlers -> Job]
    <3>1. [job EXCEPT ![h].old = None] \in [Handlers -> Job]
      BY JobField
    <3>2. job' = [job EXCEPT ![h].old = None] \/ job' = job
      BY <1>29 DEF OldLeftBehind
    <3> QED BY <3>1, <3>2
  <2> QED BY <1>29, <2>1 DEF OldLeftBehind
<1>30. CASE FastPathFails(h)
  BY <1>0, <1>30 DEF FastPathFails
<1>31. CASE NewLeftBehind(h)
  BY <1>31 DEF NewLeftBehind, Fail
<1> QED BY <1>1, <1>2, <1>3, <1>4, <1>5, <1>6, <1>7, <1>8, <1>9, <1>10, <1>11, <1>12, <1>13, <1>14, <1>15, <1>16, <1>17, <1>18, <1>19, <1>20, <1>21, <1>22, <1>23, <1>24, <1>25, <1>26, <1>27,
           <1>28, <1>29, <1>30, <1>31 DEF DeployStep

(* A new deploy command keeps the types. *)
LEMMA ReceiveType ==
    ASSUME TypeInv, NEW h \in Handlers, NEW d \in Deployments, ReceiveDeploy(h, d)
    PROVE  TypeInv'
<1> DEFINE fresh == [NoJob EXCEPT !.dep = d]
<1>1. fresh \in Job
  BY IdleTypes DEF Job
<1>2. job' = [job EXCEPT ![h] = fresh]
  BY DEF ReceiveDeploy
<1> HIDE DEF fresh
<1>3. job' \in [Handlers -> Job]
  BY <1>1, <1>2 DEF TypeInv, TypeOK
<1> QED BY <1>3 DEF ReceiveDeploy, TypeInv, TypeOK, Quiet, Go, dockerVars, handlerVars, historyVars, boundVars,
           PC, Unguarded

(* Every step of a removal keeps the types. *)
LEMMA RemoveStepType ==
    ASSUME TypeInv, NEW r \in Removers, RemoveStep(r)
    PROVE  TypeInv'
<1> USE DEF TypeInv, TypeOK, InRemove, RGo, dockerVars, handlerVars, historyVars, boundVars
<1>0. removal \in [Removers -> Removal]
  BY DEF Removal
<1>1. CASE CheckGuard(r)
  BY <1>1 DEF CheckGuard
<1>2. CASE ListContainers(r)
  <2> DEFINE ids == {c.id : c \in Of(removal[r].slug)}
  <2>1. ids \in SUBSET Ids
    BY DEF Of, Container
  <2>2. removal' = [removal EXCEPT ![r].todo = ids, ![r].any = (ids # {})]
    BY <1>2 DEF ListContainers
  <2> DEFINE any == ids # {}
  <2>3. any \in BOOLEAN /\ removal' = [removal EXCEPT ![r].todo = ids, ![r].any = any]
    BY <2>2
  <2> HIDE DEF ids, any
  <2>4. PICK n : n = [removal[r] EXCEPT !.todo = ids, !.any = any]
    OBVIOUS
  <2>5. n \in Removal
    <3>1. removal[r] \in Removal
      BY <1>0
    <3> QED BY <2>1, <2>3, <2>4, <3>1 DEF Removal
  <2>6. removal' = [removal EXCEPT ![r] = n]
    BY <2>3, <2>4
  <2>7. removal' \in [Removers -> Removal]
    BY <1>0, <2>5, <2>6
  <2> QED BY <1>2, <2>7 DEF ListContainers, Removal
<1>3. CASE RemoveContainer(r)
  <2>1. PICK i \in removal[r].todo : StopAndRemove(i) /\ removal' = [removal EXCEPT ![r].todo = @ \ {i}]
    BY <1>3 DEF RemoveContainer
  <2>2. removal' \in [Removers -> Removal]
    BY <1>0, <2>1 DEF Removal
  <2> QED BY <1>3, <2>1, <2>2 DEF RemoveContainer, StopAndRemove, Removal
<1>4. CASE RemoveImages(r)
  BY <1>4 DEF RemoveImages
<1>5. CASE RemoveProjectNetwork(r)
  BY <1>5 DEF RemoveProjectNetwork, RemoveNetworkIfEmpty
<1> QED BY <1>1, <1>2, <1>3, <1>4, <1>5 DEF RemoveStep

(* So do a new removal, and what the host, the clock and crashes do. *)
LEMMA OtherStepType ==
    ASSUME TypeInv,
           \/ \E r \in Removers, s \in Slugs : ReceiveRemove(r, s)
           \/ ContainerStops \/ ContainerStarts \/ PruneOrphanedNetworks
           \/ SeenExpiry \/ GuardExpiry \/ Crash
    PROVE  TypeInv'
<1> USE DeployConstants DEF TypeInv, TypeOK, dockerVars, handlerVars, historyVars, boundVars
<1>1. CASE \E r \in Removers, s \in Slugs : ReceiveRemove(r, s)
  <2>1. PICK r \in Removers, s \in Slugs : ReceiveRemove(r, s)
    BY <1>1
  <2> DEFINE fresh == [NoRemoval EXCEPT !.slug = s]
  <2>2. fresh \in Removal
    BY IdleTypes DEF Removal
  <2>3. removal' = [removal EXCEPT ![r] = fresh]
    BY <2>1 DEF ReceiveRemove
  <2> HIDE DEF fresh
  <2>4. removal' \in [Removers -> Removal]
    BY <2>2, <2>3 DEF Removal
  <2> QED BY <2>1, <2>4 DEF ReceiveRemove, Removal, InRemove, RGo
<1>2. CASE ContainerStops
  <2>1. containers' \in SUBSET Container
    BY <1>2 DEF ContainerStops, Container
  <2> QED BY <1>2, <2>1 DEF ContainerStops
<1>3. CASE ContainerStarts
  <2>1. containers' \in SUBSET Container
    BY <1>3 DEF ContainerStarts, Container
  <2> QED BY <1>3, <2>1 DEF ContainerStarts
<1>4. CASE PruneOrphanedNetworks
  BY <1>4 DEF PruneOrphanedNetworks, RemoveNetworkIfEmpty
<1>5. CASE SeenExpiry
  BY <1>5 DEF SeenExpiry
<1>6. CASE GuardExpiry
  BY <1>6 DEF GuardExpiry
<1>7. CASE Crash
  <2>1. job' \in [Handlers -> Job] /\ removal' \in [Removers -> Removal]
    BY <1>7, IdleTypes DEF Crash
  <2>2. IsFiniteSet(slots') /\ Cardinality(slots') <= MaxBuilds
    BY <1>7, FS_EmptySet DEF Crash
  <2>3. traefik' \in BOOLEAN
    BY <1>7 DEF Crash
  <2> QED BY <1>7, <2>1, <2>2, <2>3 DEF Crash, Removal, PC, Unguarded
<1> QED BY <1>1, <1>2, <1>3, <1>4, <1>5, <1>6, <1>7

\* Every step of the agent keeps the type invariant.
LEMMA NextType == TypeInv /\ [Next]_vars => TypeInv'
<1> SUFFICES ASSUME TypeInv, [Next]_vars PROVE TypeInv'
  OBVIOUS
<1>1. CASE UNCHANGED vars
  BY <1>1 DEF TypeInv, TypeOK, vars, dockerVars, handlerVars, historyVars, boundVars
<1>2. CASE Next
  BY <1>2, HandlerStepType, ReceiveType, RemoveStepType, OtherStepType DEF Next
<1> QED BY <1>1, <1>2

(* Every variable keeps its type and at most MaxBuilds handlers hold a     *)
(* slot of buildSem.                                                       *)
THEOREM TypeCorrect == Spec => []TypeOK
<1>1. TypeInv => TypeOK
  BY DEF TypeInv
<1> QED BY <1>1, InitType, NextType, PTL DEF Spec

\* The type invariant in the form the other proofs use: with the finite slot set.
LEMMA TypeInvariant == Spec => []TypeInv
BY InitType, NextType, PTL DEF Spec

-----------------------------------------------------------------------------
(* The build slots and the REMOVE guard *)

SlugAt(h) == SlugOf[job[h].dep]

(* A slot is held from its acquisition to the end of the handler. *)
Admitted(h) == pc[h] \notin {"idle", "acquire"}

SlotInv == \A h \in Handlers : h \in slots <=> Admitted(h)

(* How a step of a deploy handler moves it and what it does to the slots   *)
(* and to the guards: a handler is admitted by a slot and enters Deploying *)
(* by setting the guard, which only its own markDeployDone changes again.  *)
LEMMA DeployMove ==
    ASSUME TypeInv, SlotInv, NEW h \in Handlers, DeployStep(h)
    PROVE  /\ \A k \in Handlers : k # h => pc'[k] = pc[k] /\ job'[k] = job[k]
           /\ Admitted(h)' => job'[h].dep = job[h].dep
           /\ h \in slots' <=> Admitted(h)'
           /\ \A k \in Handlers : k # h => (k \in slots' <=> k \in slots)
           /\ pc'[h] \in Deploying => pc[h] \in Deploying \/ MarkDeployActive(h)
           /\ pc[h] \in Deploying /\ pc'[h] \notin Deploying => MarkDeployDone(h)
           /\ \/ guard' = guard /\ lapsed' = lapsed /\ (pc[h] \in Deploying <=> pc'[h] \in Deploying)
              \/ MarkDeployActive(h)
              \/ MarkDeployDone(h)
           /\ stops' = stops /\ crashes' = crashes /\ rpc' = rpc
<1> USE DEF TypeInv, TypeOK, dockerVars, handlerVars, historyVars, boundVars, InDeploy, Fault, Quiet, Go, Admitted, SlotInv,
        Deploying, Job

<1>1. CASE AcquireSlot(h)
  BY <1>1 DEF AcquireSlot
<1>2. CASE SkipDuplicate(h)
  BY <1>2 DEF SkipDuplicate
<1>3. CASE NotSeen(h)
  BY <1>3 DEF NotSeen
<1>4. CASE MarkDeploymentSeen(h)
  BY <1>4 DEF MarkDeploymentSeen
<1>5. CASE MarkDeployActive(h)
  BY <1>5 DEF MarkDeployActive
<1>6. CASE EvaluateDeployDiskGuard(h)
  BY <1>6 DEF EvaluateDeployDiskGuard
<1>7. CASE Build(h)
  BY <1>7 DEF Build
<1>8. CASE DeployFails(h)
  BY <1>8 DEF DeployFails, Fail
<1>9. CASE EnsureNetwork(h)
  BY <1>9 DEF EnsureNetwork
<1>10. CASE FindOld(h)
  BY <1>10 DEF FindOld
<1>11. CASE StopOld(h)
  BY <1>11 DEF StopOld
<1>12. CASE PullImage(h)
  BY <1>12 DEF PullImage
<1>13. CASE FastPath(h)
  BY <1>13 DEF FastPath, Activate
<1>14. CASE CompanionsNotReady(h)
  BY <1>14 DEF CompanionsNotReady, Fail
<1>15. CASE RunContainer(h)
  BY <1>15 DEF RunContainer
<1>16. CASE AdoptContainer(h)
  BY <1>16 DEF AdoptContainer
<1>17. CASE RunFails(h)
  BY <1>17 DEF RunFails, Fail
<1>18. CASE ConnectTraefik(h)
  BY <1>18 DEF ConnectTraefik
<1>19. CASE InspectContainer(h)
  BY <1>19 DEF InspectContainer, Fail
<1>20. CASE HealthPasses(h)
  BY <1>20 DEF HealthPasses, Activate
<1>21. CASE HealthFails(h)
  BY <1>21 DEF HealthFails, Fail
<1>22. CASE DatabaseUnhealthy(h)
  BY <1>22 DEF DatabaseUnhealthy, Fail
<1>23. CASE SwitchTraffic(h)
  BY <1>23 DEF SwitchTraffic
<1>24. CASE ReportIntrospection(h)
  BY <1>24 DEF ReportIntrospection, Activate
<1>25. CASE MarkDeployDone(h)
  BY <1>25 DEF MarkDeployDone
<1>26. CASE ClearDeploymentSeen(h)
  BY <1>26 DEF ClearDeploymentSeen
<1>27. CASE ReleaseSlot(h)
  BY <1>27 DEF ReleaseSlot
<1>28. CASE FindOldFails(h)
  BY <1>28 DEF FindOldFails
<1>29. CASE OldLeftBehind(h)
  BY <1>29 DEF OldLeftBehind
<1>30. CASE FastPathFails(h)
  BY <1>30 DEF FastPathFails
<1>31. CASE NewLeftBehind(h)
  BY <1>31 DEF NewLeftBehind, Fail
<1> QED BY <1>1, <1>2, <1>3, <1>4, <1>5, <1>6, <1>7, <1>8, <1>9, <1>10, <1>11, <1>12, <1>13, <1>14, <1>15, <1>16, <1>17, <1>18, <1>19, <1>20, <1>21, <1>22, <1>23, <1>24, <1>25, <1>26, <1>27,
           <1>28, <1>29, <1>30, <1>31 DEF DeployStep

(* Every other step leaves the handlers where they are, starts one, or is  *)
(* a crash.                                                                *)
LEMMA OtherMove ==
    ASSUME TypeInv, [Next]_vars, ~ \E h \in Handlers : DeployStep(h)
    PROVE  \/ UNCHANGED <<pc, job, slots, guard, lapsed>>
           \/ UNCHANGED <<pc, job, slots>> /\ GuardExpiry
           \/ \E h \in Handlers, d \in Deployments : ReceiveDeploy(h, d)
           \/ Crash
<1>1. CASE UNCHANGED vars
  BY <1>1 DEF vars, handlerVars
<1>2. CASE \E r \in Removers : RemoveStep(r) \/ \E s \in Slugs : ReceiveRemove(r, s)
  BY <1>2 DEF RemoveStep, ReceiveRemove, CheckGuard, ListContainers, RemoveContainer, RemoveImages,
     RemoveProjectNetwork, InRemove, handlerVars
<1>3. CASE ContainerStops \/ ContainerStarts \/ PruneOrphanedNetworks
  BY <1>3 DEF ContainerStops, ContainerStarts, PruneOrphanedNetworks, handlerVars
<1>4. CASE SeenExpiry
  BY <1>4 DEF SeenExpiry
<1>5. CASE GuardExpiry
  BY <1>5 DEF GuardExpiry
<1> QED BY <1>1, <1>2, <1>3, <1>4, <1>5 DEF Next

(* Where a new handler and a crash leave the handlers. *)
LEMMA StartMove ==
    ASSUME TypeInv, NEW h \in Handlers, NEW d \in Deployments, ReceiveDeploy(h, d)
    PROVE  /\ pc[h] = "idle" /\ pc'[h] = "acquire"
           /\ \A k \in Handlers : k # h => pc'[k] = pc[k] /\ job'[k] = job[k]
           /\ UNCHANGED <<dockerVars, handlerVars, latest, checked, blind, boundVars, rpc>>
           /\ job'[h].dep = d /\ job'[h].old = None /\ job'[h].new = None
<1> DEFINE fresh == [NoJob EXCEPT !.dep = d]
<1>1. fresh.dep = d /\ fresh.old = None /\ fresh.new = None
  BY DEF NoJob
<1>2. job' = [job EXCEPT ![h] = fresh]
  BY DEF ReceiveDeploy
<1> HIDE DEF fresh
<1>3. job'[h] = fresh /\ \A k \in Handlers : k # h => job'[k] = job[k]
  BY <1>2 DEF TypeInv, TypeOK
<1> QED BY <1>1, <1>3 DEF ReceiveDeploy, Quiet, Go, TypeInv, TypeOK

\* Every step keeps the build-slot invariant.
LEMMA NextSlot == TypeInv /\ SlotInv /\ [Next]_vars => SlotInv'
<1> SUFFICES ASSUME TypeInv, SlotInv, [Next]_vars PROVE SlotInv'
  OBVIOUS
<1>1. ASSUME NEW h \in Handlers, DeployStep(h) PROVE SlotInv'
  <2> SUFFICES ASSUME NEW k \in Handlers PROVE k \in slots' <=> Admitted(k)'
    BY DEF SlotInv
  <2>1. CASE k = h
    BY <1>1, <2>1, DeployMove
  <2>2. CASE k # h
    <3>1. pc'[k] = pc[k] /\ (k \in slots' <=> k \in slots)
      BY <1>1, <2>2, DeployMove
    <3> QED BY <3>1 DEF SlotInv, Admitted
  <2> QED BY <2>1, <2>2
<1>2. ASSUME NEW h \in Handlers, NEW d \in Deployments, ReceiveDeploy(h, d) PROVE SlotInv'
  <2>1. \A k \in Handlers : Admitted(k)' <=> Admitted(k)
    BY <1>2, StartMove DEF Admitted
  <2>2. slots' = slots
    BY <1>2, StartMove DEF handlerVars
  <2> QED BY <2>1, <2>2 DEF SlotInv
<1>3. CASE Crash
  BY <1>3 DEF Crash, SlotInv, Admitted
<1>4. CASE UNCHANGED <<pc, slots>>
  BY <1>4 DEF SlotInv, Admitted
<1> QED BY <1>1, <1>2, <1>3, <1>4, OtherMove

\* Every behaviour keeps the build-slot invariant.
LEMMA SlotInvariant == Spec => []SlotInv
<1>1. Init => SlotInv
  BY DEF Init, SlotInv, Admitted
<1> QED BY <1>1, NextSlot, TypeInvariant, PTL DEF Spec

(* "Limits concurrent Docker builds": whatever commands, failures,         *)
(* duplicates and crashes come, no more than MaxBuilds handlers are past   *)
(* the semaphore.                                                          *)
THEOREM BuildsAreBounded == Spec => [](Cardinality({h \in Handlers : Admitted(h)}) <= MaxBuilds)
<1>1. TypeInv /\ SlotInv => Cardinality({h \in Handlers : Admitted(h)}) <= MaxBuilds
  <2> SUFFICES ASSUME TypeInv, SlotInv PROVE Cardinality({h \in Handlers : Admitted(h)}) <= MaxBuilds
    OBVIOUS
  <2>1. slots = {h \in Handlers : Admitted(h)}
    BY DEF SlotInv, TypeInv, TypeOK
  <2> QED BY <2>1 DEF TypeInv, TypeOK
<1> QED BY <1>1, TypeInvariant, SlotInvariant, PTL

(* No two handlers work on one service at the same time.  The code         *)
(* ensures it with one build slot; with more slots it is up to the control *)
(* plane.                                                                  *)
Serialized ==
    \A h, k \in Handlers : pc[h] \in Deploying /\ pc[k] \in Deploying /\ SlugAt(h) = SlugAt(k) => h = k

(* One build slot serializes the deploys. *)
LEMMA OneSlotSerializes ==
    ASSUME MaxBuilds = 1
    PROVE  Spec => []Serialized
<1>1. TypeInv /\ SlotInv => Serialized
  <2> SUFFICES ASSUME TypeInv, SlotInv, NEW h \in Handlers, NEW k \in Handlers,
                      pc[h] \in Deploying, pc[k] \in Deploying
               PROVE  h = k
    BY DEF Serialized
  <2>1. h \in slots /\ k \in slots
    BY DEF SlotInv, Admitted, Deploying
  <2>2. IsFiniteSet(slots) /\ Cardinality(slots) <= 1
    BY DEF TypeInv, TypeOK
  <2>3. Cardinality(slots) \in Nat
    BY <2>2, FS_CardinalityType
  <2>4. Cardinality(slots) # 0
    BY <2>1, <2>2, FS_EmptySet
  <2>5. Cardinality(slots) = 1
    BY <2>2, <2>3, <2>4
  <2>6. \E x : slots = {x}
    BY <2>2, <2>5, FS_Singleton
  <2> QED BY <2>1, <2>6
<1> QED BY <1>1, TypeInvariant, SlotInvariant, PTL

(* While a service is deployed its guard is set, or its hour has run out. *)
GuardHeld ==
    \A h \in Handlers : pc[h] \in Deploying => guard[SlugAt(h)] = "deploying" \/ SlugAt(h) \in lapsed

\* Every step keeps the guard held while no two handlers deploy one service.
LEMMA NextGuard == TypeInv /\ SlotInv /\ Serialized /\ GuardHeld /\ [Next]_vars => GuardHeld'
<1> SUFFICES ASSUME TypeInv, SlotInv, Serialized, GuardHeld, [Next]_vars,
                    NEW k \in Handlers, pc'[k] \in Deploying
             PROVE  guard'[SlugAt(k)'] = "deploying" \/ SlugAt(k)' \in lapsed'
  BY DEF GuardHeld
<1> USE DEF SlugAt
<1>0. \A h \in Handlers : SlugOf[job[h].dep] \in Slugs
  BY DeployConstants DEF TypeInv, TypeOK, Job
<1>1. ASSUME NEW h \in Handlers, DeployStep(h) PROVE guard'[SlugAt(k)'] = "deploying" \/ SlugAt(k)' \in lapsed'
  <2>1. job'[k].dep = job[k].dep
    BY <1>1, DeployMove DEF Admitted, Deploying
  <2>2. k # h => pc[k] \in Deploying
    BY <1>1, DeployMove
  <2>3. CASE MarkDeployActive(h)
    BY <1>0, <2>1, <2>2, <2>3 DEF MarkDeployActive, GuardHeld, TypeInv, TypeOK
  <2>4. CASE MarkDeployDone(h)
    <3>1. pc[h] \in Deploying /\ pc'[h] \notin Deploying
      BY <2>4 DEF MarkDeployDone, Go, Deploying, TypeInv, TypeOK
    <3>2. k # h /\ SlugOf[job[k].dep] # SlugOf[job[h].dep]
      BY <2>2, <3>1 DEF Serialized
    <3> QED BY <1>0, <2>1, <2>2, <2>4, <3>2 DEF MarkDeployDone, GuardHeld, TypeInv, TypeOK
  <2>5. CASE guard' = guard /\ lapsed' = lapsed /\ (pc[h] \in Deploying <=> pc'[h] \in Deploying)
    BY <2>1, <2>2, <2>5 DEF GuardHeld
  <2> QED BY <1>1, <2>3, <2>4, <2>5, DeployMove
<1>2. ASSUME NEW h \in Handlers, NEW d \in Deployments, ReceiveDeploy(h, d)
      PROVE  guard'[SlugAt(k)'] = "deploying" \/ SlugAt(k)' \in lapsed'
  <2>1. k # h /\ guard' = guard /\ lapsed' = lapsed
    BY <1>2, StartMove DEF handlerVars, Deploying
  <2> QED BY <1>2, <2>1, StartMove DEF GuardHeld
<1>3. CASE Crash
  BY <1>3 DEF Crash, Deploying
<1>4. CASE UNCHANGED <<pc, job, slots, guard, lapsed>>
  BY <1>4 DEF GuardHeld
<1>5. CASE UNCHANGED <<pc, job, slots>> /\ GuardExpiry
  <2>1. guard[SlugOf[job[k].dep]] = "deploying" \/ SlugOf[job[k].dep] \in lapsed
    BY <1>5 DEF GuardHeld
  <2> QED BY <1>5, <2>1, <1>0 DEF GuardExpiry, TypeInv, TypeOK
<1> QED BY <1>1, <1>2, <1>3, <1>4, <1>5, OtherMove

\* While deploys of one service do not overlap the guard is always held.
LEMMA GuardInvariant == Spec /\ []Serialized => []GuardHeld
<1>1. Init => GuardHeld
  BY DEF Init, GuardHeld, Deploying
<1> QED BY <1>1, NextGuard, TypeInvariant, SlotInvariant, PTL DEF Spec

(* While the deploys of a service do not overlap, the REMOVE guard is set  *)
(* from markDeployActive to markDeployDone, through every failure, retry   *)
(* and crash, for as long as the hour it was set for lasts.                *)
THEOREM GuardCoversSerialDeploys == Spec /\ []Serialized => []GuardCoversDeploy
<1>1. GuardHeld => GuardCoversDeploy
  BY DEF GuardHeld, GuardCoversDeploy, SlugAt
<1> QED BY <1>1, GuardInvariant, PTL

(* While a service is deployed, and its guard has not run out, no removal  *)
(* of it passes the guard check: a REMOVE that arrives during a deploy is  *)
(* turned away, so the one that can still hit the deploy is one that had   *)
(* passed its check before.                                                *)
RemovesTurnedAway ==
    [][\A r \in Removers, h \in Handlers :
          rpc[r] = "check" /\ pc[h] \in Deploying /\ removal[r].slug = SlugAt(h) /\ SlugAt(h) \notin lapsed
             => rpc'[r] # "list"]_vars

\* removeServiceContainers runs only after isDeployActive was false, and the
\* guard of a service in deployment is unset, while deploys do not overlap, by
\* nothing but its one-hour expiry.
THEOREM RemovesRespectGuard == Spec /\ []Serialized => RemovesTurnedAway
<1>1. TypeInv /\ SlotInv /\ GuardHeld /\ [Next]_vars
        => [\A r \in Removers, h \in Handlers :
              rpc[r] = "check" /\ pc[h] \in Deploying /\ removal[r].slug = SlugAt(h) /\ SlugAt(h) \notin lapsed
                 => rpc'[r] # "list"]_vars
  <2> SUFFICES ASSUME TypeInv, SlotInv, GuardHeld, [Next]_vars, NEW r \in Removers, NEW h \in Handlers,
                      rpc[r] = "check", pc[h] \in Deploying, removal[r].slug = SlugAt(h), SlugAt(h) \notin lapsed
               PROVE  rpc'[r] # "list"
    OBVIOUS
  <2>1. guard[removal[r].slug] # "no"
    BY DEF GuardHeld
  <2>2. ASSUME NEW k \in Handlers, DeployStep(k) PROVE rpc' = rpc
    BY <2>2, DeployMove
  <2>3. ASSUME NEW k \in Handlers, NEW d \in Deployments, ReceiveDeploy(k, d) PROVE rpc' = rpc
    BY <2>3, StartMove
  <2>4. ASSUME NEW q \in Removers, RemoveStep(q) PROVE rpc'[r] # "list"
    <3>1. CASE CheckGuard(q)
      BY <2>1, <3>1 DEF CheckGuard, RGo, TypeInv, TypeOK
    <3>2. CASE ~CheckGuard(q)
      BY <2>4, <3>2 DEF RemoveStep, ListContainers, RemoveContainer, RemoveImages, RemoveProjectNetwork,
         RGo, TypeInv, TypeOK
    <3> QED BY <3>1, <3>2
  <2>5. ASSUME NEW q \in Removers, NEW s \in Slugs, ReceiveRemove(q, s) PROVE rpc'[r] # "list"
    BY <2>5 DEF ReceiveRemove, RGo, TypeInv, TypeOK
  <2>6. CASE Crash
    BY <2>6 DEF Crash
  <2>7. CASE \/ ContainerStops \/ ContainerStarts \/ PruneOrphanedNetworks
            \/ SeenExpiry \/ GuardExpiry \/ UNCHANGED vars
    BY <2>7 DEF ContainerStops, ContainerStarts, PruneOrphanedNetworks, SeenExpiry, GuardExpiry, vars
  <2> QED BY <2>2, <2>3, <2>4, <2>5, <2>6, <2>7 DEF Next
<1> QED BY <1>1, GuardInvariant, TypeInvariant, SlotInvariant, PTL DEF Spec, RemovesTurnedAway

-----------------------------------------------------------------------------
(* The containers of the host *)

(* Ids grow with the creation of containers and name one container each;   *)
(* what handlers and the history remember are ids that have been given.    *)
HostInv ==
    /\ IsFiniteSet(containers)
    /\ \A c \in containers : c.id <= created
    /\ \A c, e \in containers : c.id = e.id => c = e
    /\ \A i \in checked : i <= created
    /\ \A h \in Handlers : job[h].old <= created /\ job[h].new <= created

(* A step of a handler creates a container or takes some away, and         *)
(* remembers ids that have been given.                                     *)
LEMMA DeployEffect ==
    ASSUME TypeInv, HostInv, NEW h \in Handlers, DeployStep(h), ~RunContainer(h)
    PROVE  /\ containers' \subseteq containers
           /\ created' = created
           /\ checked' \subseteq checked \cup {job[h].new}
           /\ job'[h].old <= created /\ job'[h].new <= created
<1> USE DeployConstants DEF TypeInv, TypeOK, dockerVars, handlerVars, historyVars, boundVars, InDeploy, Fault, Quiet, Job, None
<1>0. job[h].old <= created /\ job[h].new <= created /\ created \in Nat
  BY DEF HostInv

<1>1. CASE AcquireSlot(h)
  BY <1>0, <1>1 DEF AcquireSlot
<1>2. CASE SkipDuplicate(h)
  BY <1>0, <1>2 DEF SkipDuplicate, NoJob
<1>3. CASE NotSeen(h)
  BY <1>0, <1>3 DEF NotSeen
<1>4. CASE MarkDeploymentSeen(h)
  BY <1>0, <1>4 DEF MarkDeploymentSeen
<1>5. CASE MarkDeployActive(h)
  BY <1>0, <1>5 DEF MarkDeployActive
<1>6. CASE EvaluateDeployDiskGuard(h)
  BY <1>0, <1>6 DEF EvaluateDeployDiskGuard
<1>7. CASE Build(h)
  BY <1>0, <1>7 DEF Build
<1>8. CASE DeployFails(h)
  BY <1>0, <1>8 DEF DeployFails, Fail
<1>9. CASE EnsureNetwork(h)
  BY <1>0, <1>9 DEF EnsureNetwork
<1>10. CASE FindOld(h)
  <2>1. NewestRunning(SlugOf[job[h].dep]) <= created
    BY <1>0, NewestRunningIs DEF HostInv, Running, Of
  <2> QED BY <1>0, <1>10, <2>1 DEF FindOld
<1>11. CASE StopOld(h)
  BY <1>0, <1>11 DEF StopOld, StopAndRemove
<1>12. CASE PullImage(h)
  BY <1>0, <1>12 DEF PullImage
<1>13. CASE FastPath(h)
  <2>1. job' = [job EXCEPT ![h].ok = TRUE] \/ job' = job
    BY <1>13 DEF FastPath, Activate
  <2>2. UNCHANGED <<containers, created, checked>>
    BY <1>13 DEF FastPath
  <2>3. job'[h].old = job[h].old /\ job'[h].new = job[h].new
    BY <2>1 DEF Job
  <2> QED BY <1>0, <2>2, <2>3
<1>14. CASE CompanionsNotReady(h)
  BY <1>0, <1>14 DEF CompanionsNotReady, Fail
<1>15. CASE AdoptContainer(h)
  BY <1>0, <1>15 DEF AdoptContainer, Named, HostInv
<1>16. CASE RunFails(h)
  BY <1>0, <1>16 DEF RunFails, Fail
<1>17. CASE ConnectTraefik(h)
  BY <1>0, <1>17 DEF ConnectTraefik
<1>18. CASE InspectContainer(h)
  BY <1>0, <1>18 DEF InspectContainer, Fail, StopAndRemove
<1>19. CASE HealthPasses(h)
  BY <1>0, <1>19 DEF HealthPasses, Activate
<1>20. CASE HealthFails(h)
  BY <1>0, <1>20 DEF HealthFails, Fail, StopAndRemove
<1>21. CASE DatabaseUnhealthy(h)
  BY <1>0, <1>21 DEF DatabaseUnhealthy, Fail
<1>22. CASE SwitchTraffic(h)
  BY <1>0, <1>22 DEF SwitchTraffic, StopAndRemove
<1>23. CASE ReportIntrospection(h)
  BY <1>0, <1>23 DEF ReportIntrospection, Activate
<1>24. CASE MarkDeployDone(h)
  BY <1>0, <1>24 DEF MarkDeployDone
<1>25. CASE ClearDeploymentSeen(h)
  BY <1>0, <1>25 DEF ClearDeploymentSeen
<1>26. CASE ReleaseSlot(h)
  BY <1>0, <1>26 DEF ReleaseSlot, NoJob
<1>27. CASE FindOldFails(h)
  BY <1>0, <1>27 DEF FindOldFails
<1>28. CASE OldLeftBehind(h)
  BY <1>0, <1>28 DEF OldLeftBehind
<1>29. CASE FastPathFails(h)
  BY <1>0, <1>29 DEF FastPathFails
<1>30. CASE NewLeftBehind(h)
  BY <1>0, <1>30 DEF NewLeftBehind, Fail
<1> QED BY <1>1, <1>2, <1>3, <1>4, <1>5, <1>6, <1>7, <1>8, <1>9, <1>10, <1>11, <1>12, <1>13, <1>14, <1>15, <1>16, <1>17, <1>18, <1>19, <1>20, <1>21, <1>22, <1>23, <1>24, <1>25, <1>26,
           <1>27, <1>28, <1>29, <1>30 DEF DeployStep

\* Every step keeps container ids unique and below the creation counter.
LEMMA NextHost == TypeInv /\ SlotInv /\ HostInv /\ [Next]_vars => HostInv'
<1> SUFFICES ASSUME TypeInv, SlotInv, HostInv, [Next]_vars PROVE HostInv'
  OBVIOUS
<1>0. created \in Nat /\ \A h \in Handlers : job[h].old \in Nat /\ job[h].new \in Nat
  BY DeployConstants DEF TypeInv, TypeOK, Job, Ids, None
<1>1. ASSUME NEW h \in Handlers, RunContainer(h) PROVE HostInv'
  <2>1. /\ created' = created + 1 /\ checked' = checked
        /\ containers' = containers \cup {[id |-> created + 1, dep |-> job[h].dep, up |-> TRUE]}
        /\ job' = [job EXCEPT ![h].new = created + 1]
    BY <1>1 DEF RunContainer, historyVars
  <2>2. \A c \in containers : c.id \in Nat /\ c.id <= created
    BY DEF HostInv, TypeInv, TypeOK, Container, Ids
  <2>3. \A c, e \in containers' : c.id <= created' /\ (c.id = e.id => c = e)
    <3>1. PICK n : n = [id |-> created + 1, dep |-> job[h].dep, up |-> TRUE]
      OBVIOUS
    <3>2. n.id = created + 1
      BY <3>1
    <3>3. containers' = containers \cup {n}
      BY <2>1, <3>1
    <3> HIDE <3>1
    <3>4. \A c \in containers : c.id # n.id
      BY <1>0, <2>2, <3>2
    <3> QED BY <1>0, <2>1, <2>2, <3>2, <3>3, <3>4 DEF HostInv
  <2>4. \A i \in checked' : i <= created'
    BY <1>0, <2>1 DEF HostInv, TypeInv, TypeOK, Ids
  <2>5. \A k \in Handlers : job'[k].old <= created' /\ job'[k].new <= created'
    BY <1>0, <2>1 DEF HostInv, TypeInv, TypeOK, Job
  <2>6. IsFiniteSet(containers')
    BY <2>1, FS_AddElement DEF HostInv
  <2> QED BY <2>3, <2>4, <2>5, <2>6 DEF HostInv
<1>2. ASSUME NEW h \in Handlers, DeployStep(h), ~RunContainer(h) PROVE HostInv'
  <2>1. /\ containers' \subseteq containers /\ created' = created
        /\ checked' \subseteq checked \cup {job[h].new}
        /\ job'[h].old <= created /\ job'[h].new <= created
    BY <1>2, DeployEffect
  <2>2. \A k \in Handlers : k # h => job'[k] = job[k]
    BY <1>2, DeployMove
  <2>3. IsFiniteSet(containers')
    BY <2>1, FS_Subset DEF HostInv
  <2> QED BY <2>1, <2>2, <2>3 DEF HostInv
<1>3. ASSUME NEW h \in Handlers, NEW d \in Deployments, ReceiveDeploy(h, d) PROVE HostInv'
  <2>1. UNCHANGED <<containers, created, checked>>
    BY <1>3, StartMove DEF dockerVars
  <2>2. \A k \in Handlers : job'[k].old <= created /\ job'[k].new <= created
    BY <1>0, <1>3, StartMove DEF HostInv, None
  <2> QED BY <2>1, <2>2 DEF HostInv
<1>4. CASE UNCHANGED <<containers, created, checked, job>>
  BY <1>4 DEF HostInv
<1>5. CASE \E r \in Removers : RemoveStep(r) \/ \E s \in Slugs : ReceiveRemove(r, s)
  <2>1. containers' \subseteq containers /\ UNCHANGED <<created, checked, job>>
    BY <1>5 DEF RemoveStep, ReceiveRemove, CheckGuard, ListContainers, RemoveContainer, RemoveImages,
       RemoveProjectNetwork, StopAndRemove, InRemove, dockerVars, historyVars
  <2>2. IsFiniteSet(containers')
    BY <2>1, FS_Subset DEF HostInv
  <2> QED BY <2>1, <2>2 DEF HostInv
<1>6. CASE ContainerStops \/ ContainerStarts
  <2>1. PICK c \in containers, b \in BOOLEAN : containers' = (containers \ {c}) \cup {[c EXCEPT !.up = b]}
    BY <1>6 DEF ContainerStops, ContainerStarts
  <2>2. PICK e : e = [c EXCEPT !.up = b]
    OBVIOUS
  <2>3. e.id = c.id
    BY <2>2 DEF TypeInv, TypeOK, Container
  <2>4. UNCHANGED <<created, checked, job>>
    BY <1>6 DEF ContainerStops, ContainerStarts, historyVars
  <2>5. \A x \in containers' : x \in containers \/ x = e
    BY <2>1, <2>2
  <2>6. \A x \in containers' : x.id <= created
    BY <2>3, <2>5 DEF HostInv
  <2>7. \A x, y \in containers' : x.id = y.id => x = y
    <3>1. \A x, y \in containers : x.id = y.id => x = y
      BY DEF HostInv
    <3>2. \A x \in containers' : (x \in containers /\ x # c) \/ x = e
      BY <2>1, <2>2
    <3> QED BY <2>3, <3>1, <3>2
  <2>8. IsFiniteSet(containers')
    <3>1. IsFiniteSet(containers \ {c})
      BY FS_RemoveElement DEF HostInv
    <3> QED BY <2>1, <3>1, FS_AddElement
  <2> QED BY <2>4, <2>6, <2>7, <2>8 DEF HostInv
<1>7. CASE Crash
  BY <1>0, <1>7 DEF Crash, HostInv, NoJob, None
<1>8. CASE UNCHANGED vars
  BY <1>4, <1>8 DEF vars, dockerVars, historyVars
<1>9. CASE PruneOrphanedNetworks \/ SeenExpiry \/ GuardExpiry
  BY <1>4, <1>9 DEF PruneOrphanedNetworks, SeenExpiry, GuardExpiry, dockerVars, historyVars
<1> QED BY <1>1, <1>2, <1>3, <1>5, <1>6, <1>7, <1>8, <1>9 DEF Next

\* Every behaviour keeps container ids unique and below the creation counter.
LEMMA HostInvariant == Spec => []HostInv
<1>1. Init => HostInv
  BY DeployConstants, FS_EmptySet DEF Init, HostInv, NoJob, None
<1> QED BY <1>1, NextHost, TypeInvariant, SlotInvariant, PTL DEF Spec

-----------------------------------------------------------------------------
(* What a service is left with *)

(* Nothing but deploys touches the containers, and those of one service    *)
(* come one after the other.                                               *)
Undisturbed ==
    /\ Serialized
    /\ stops = 0
    /\ \A r \in Removers : rpc[r] \in {"idle", "check"}

OldKnown == {"stopOld", "pull", "fastPath", "run", "traefik", "inspect", "health", "switch"}
NewOnTrial == {"traefik", "inspect", "health"}
TwoRun == NewOnTrial \cup {"switch"}

Early == {"acquire", "dedup", "mark", "guard", "diskGuard", "build", "network", "find"}

(* What a handler may rely on at each of its steps: the old container is   *)
(* one of the service, the new one is its own and, unless the fast path    *)
(* was blind, neither reported nor checked before it has passed, and the   *)
(* old one is removed only when the new one has.                           *)
DeployInv(h) ==
    /\ pc[h] \in Early => job[h].old = None
    /\ pc[h] = "stopOld" => job[h].dep \notin BlueGreen
    /\ pc[h] \in OldKnown => \A c \in WithId(job[h].old) : SlugOf[c.dep] = SlugAt(h)
    /\ pc[h] \in OldKnown /\ job[h].old # None => WithId(job[h].old) # {}
    /\ pc[h] = "run" => Named(job[h].dep) = {} \/ job[h].dep \in blind
    /\ pc[h] \in NewOnTrial =>
          /\ job[h].dep \in blind \/ (job[h].dep \notin latest[SlugAt(h)] /\ job[h].new \notin checked)
          /\ \A c \in WithId(job[h].new) : c.dep = job[h].dep
          /\ WithId(job[h].new) # {}
    /\ pc[h] \in {"switch", "report"} => latest[SlugAt(h)] = {job[h].dep} /\ job[h].dep \notin blind
    /\ pc[h] = "switch" =>
          /\ job[h].new \in checked
          /\ job[h].old # job[h].new
          /\ \E c \in WithId(job[h].new) : c.dep = job[h].dep

Served(s) == \A d \in latest[s] : SlugOf[d] = s /\ (d \in blind \/ Named(d) # {})

ServeInv ==
    /\ \A c \in containers : c.up
    /\ \A s \in Slugs : Served(s)
    /\ \A h \in Handlers : DeployInv(h)

(* A step that touches no other service than s. *)
OnlyService(s) ==
    /\ \A c \in containers : SlugOf[c.dep] # s => c \in containers'
    /\ \A c \in containers' : c \in containers \/ (SlugOf[c.dep] = s /\ c.id > created)
    /\ \A t \in Slugs : t # s => latest'[t] = latest[t]
    /\ \A d \in Deployments : SlugOf[d] # s => (d \in blind' <=> d \in blind)
    /\ checked \subseteq checked'
    /\ \A i \in checked' : i \in checked \/ \E c \in containers : c.id = i /\ SlugOf[c.dep] = s

(* It leaves the deploys of the other services as they were. *)
LEMMA OthersKept ==
    ASSUME TypeInv, HostInv, NEW k \in Handlers, DeployInv(k),
           NEW s \in Slugs, OnlyService(s), SlugAt(k) # s,
           pc'[k] = pc[k], job'[k] = job[k]
    PROVE  DeployInv(k)'
<1>0. /\ SlugAt(k)' = SlugAt(k) /\ SlugAt(k) \in Slugs /\ SlugAt(k) = SlugOf[job[k].dep]
      /\ job[k].dep \in Deployments
      /\ created \in Nat /\ job[k].old \in Nat /\ job[k].new \in Nat
      /\ job[k].old <= created /\ job[k].new <= created
  BY DeployConstants DEF TypeInv, TypeOK, Job, Ids, None, HostInv, SlugAt
<1>1. latest'[SlugAt(k)'] = latest[SlugAt(k)] /\ (job[k].dep \in blind' <=> job[k].dep \in blind)
  BY <1>0 DEF OnlyService
<1>2. ASSUME NEW i, i \in {job[k].old, job[k].new}
      PROVE  \A c \in containers' : c.id = i => c \in containers
  <2> SUFFICES ASSUME NEW c \in containers', c.id = i, c \notin containers PROVE FALSE
    OBVIOUS
  <2>1. c.id > created
    BY DEF OnlyService
  <2> QED BY <1>0, <1>2, <2>1
<1>3. pc[k] \in OldKnown =>
          /\ \A c \in containers' : c.id = job[k].old => SlugOf[c.dep] = SlugAt(k)
          /\ job[k].old # None => \E c \in containers' : c.id = job[k].old
  <2>1. pc[k] \in OldKnown => \A c \in containers' : c.id = job[k].old => SlugOf[c.dep] = SlugAt(k)
    BY <1>2 DEF DeployInv, WithId
  <2>2. pc[k] \in OldKnown /\ job[k].old # None => \E c \in containers' : c.id = job[k].old
    BY DEF DeployInv, WithId, OnlyService
  <2> QED BY <2>1, <2>2
<1>4. pc[k] = "run" => (\A c \in containers' : c.dep # job[k].dep) \/ job[k].dep \in blind'
  BY <1>0, <1>1 DEF DeployInv, Named, OnlyService
<1>5. ASSUME pc[k] \in NewOnTrial
      PROVE  /\ job[k].dep \in blind' \/ (job[k].dep \notin latest[SlugAt(k)] /\ job[k].new \notin checked')
             /\ \A c \in containers' : c.id = job[k].new => c.dep = job[k].dep
             /\ \E c \in containers' : c.id = job[k].new
  <2>1. /\ job[k].dep \in blind \/ (job[k].dep \notin latest[SlugAt(k)] /\ job[k].new \notin checked)
        /\ \A c \in containers : c.id = job[k].new => c.dep = job[k].dep
        /\ \E c \in containers : c.id = job[k].new
    BY <1>5 DEF DeployInv, WithId
  <2>2. job[k].new \notin checked => job[k].new \notin checked'
    BY <1>0, <2>1 DEF OnlyService
  <2>3. \E c \in containers' : c.id = job[k].new
    BY <1>0, <2>1 DEF OnlyService
  <2> QED BY <1>1, <1>2, <2>1, <2>2, <2>3
<1>6. ASSUME pc[k] = "switch"
      PROVE  job[k].new \in checked' /\ \E c \in containers' : c.id = job[k].new /\ c.dep = job[k].dep
  BY <1>0, <1>6 DEF DeployInv, WithId, OnlyService
<1> QED BY <1>0, <1>1, <1>3, <1>4, <1>5, <1>6 DEF DeployInv, WithId, Named

(* A step of a handler that leaves containers and reports alone and is not *)
(* between finding the old container and the last report.                  *)
Aside(h) ==
    /\ UNCHANGED <<containers, latest, checked, blind>>
    /\ pc'[h] \notin OldKnown \cup {"report"}
    /\ pc'[h] \in Early => pc[h] \in Early /\ job' = job

\* Case split of one handler's step: what it may have done to the containers.
LEMMA DeploySplit ==
    ASSUME TypeInv, NEW h \in Handlers, DeployStep(h)
    PROVE  \/ Aside(h) /\ (pc[h] \in TwoRun => DatabaseUnhealthy(h) \/ NewLeftBehind(h))
           \/ FindOld(h) \/ FindOldFails(h) \/ StopOld(h) \/ OldLeftBehind(h)
           \/ PullImage(h) \/ FastPath(h) \/ FastPathFails(h)
           \/ RunContainer(h) \/ AdoptContainer(h) \/ ConnectTraefik(h) \/ InspectContainer(h)
           \/ HealthPasses(h) \/ HealthFails(h) \/ SwitchTraffic(h) \/ ReportIntrospection(h)
<1> USE DEF TypeInv, TypeOK, Aside, Early, OldKnown, TwoRun, NewOnTrial, dockerVars, historyVars, Quiet, InDeploy,
        Fault, Go, Fail
<1>1. CASE AcquireSlot(h) \/ SkipDuplicate(h) \/ NotSeen(h) \/ MarkDeploymentSeen(h) \/ MarkDeployActive(h)
  BY <1>1 DEF AcquireSlot, SkipDuplicate, NotSeen, MarkDeploymentSeen, MarkDeployActive
<1>2. CASE EvaluateDeployDiskGuard(h) \/ Build(h) \/ DeployFails(h) \/ EnsureNetwork(h)
  BY <1>2 DEF EvaluateDeployDiskGuard, Build, DeployFails, EnsureNetwork
<1>3. CASE CompanionsNotReady(h) \/ RunFails(h) \/ DatabaseUnhealthy(h) \/ NewLeftBehind(h)
  BY <1>3 DEF CompanionsNotReady, RunFails, DatabaseUnhealthy, NewLeftBehind
<1>4. CASE MarkDeployDone(h) \/ ClearDeploymentSeen(h) \/ ReleaseSlot(h)
  BY <1>4 DEF MarkDeployDone, ClearDeploymentSeen, ReleaseSlot
<1> QED BY <1>1, <1>2, <1>3, <1>4 DEF DeployStep

(* A step of a handler touches its own service only, leaves it with the    *)
(* container of the deployment last reported, and finds what the handler   *)
(* will rely on next.                                                      *)
LEMMA DeployServes ==
    ASSUME TypeInv, HostInv, ServeInv, NEW h \in Handlers, DeployStep(h), NEW s \in Slugs, s = SlugAt(h)
    PROVE  /\ OnlyService(s)
           /\ DeployInv(h)'
           /\ Served(s)'
           /\ \A c \in containers' : c.up
           /\ pc[h] \notin Deploying => UNCHANGED <<containers, latest, checked, blind>>
<1> DEFINE d == job[h].dep
           Goal == /\ OnlyService(s) /\ DeployInv(h)' /\ Served(s)'
                   /\ \A c \in containers' : c.up
                   /\ pc[h] \notin Deploying => UNCHANGED <<containers, latest, checked, blind>>
<1>0. /\ d \in Deployments /\ SlugOf[d] = s /\ h \in DOMAIN pc /\ h \in DOMAIN job
      /\ created \in Nat /\ job[h].old \in Nat /\ job[h].new \in Nat
      /\ job[h].old <= created /\ job[h].new <= created
      /\ containers \subseteq Container /\ latest \in [Slugs -> SUBSET Deployments]
      /\ job \in [Handlers -> Job] /\ pc \in [Handlers -> PC]
  BY DeployConstants DEF TypeInv, TypeOK, Job, Ids, None, HostInv, SlugAt
<1>1. \A c \in containers : c.up /\ c.id \in Nat /\ c.id # None /\ c.id <= created
  BY DEF ServeInv, HostInv, TypeInv, TypeOK, Container, Ids, None
<1>2. Served(s) /\ DeployInv(h)
  BY DEF ServeInv
<1> USE DEF dockerVars, historyVars, Go, Early
<1>3. ASSUME UNCHANGED <<containers, latest, checked, blind>>, DeployInv(h)' PROVE Goal
  BY <1>1, <1>2, <1>3 DEF OnlyService, Served, Named
<1>4. CASE Aside(h)
  BY <1>2, <1>3, <1>4 DEF Aside, DeployInv, OldKnown, NewOnTrial
<1>5. CASE FindOld(h)
  <2> DEFINE old == NewestRunning(s)
  <2>1. (\A c \in WithId(old) : SlugOf[c.dep] = s) /\ (old # None => WithId(old) # {})
    BY <1>1, NewestRunningIs DEF Running, Of, WithId, HostInv, TypeInv
  <2>2. /\ job' = [job EXCEPT ![h].old = old] /\ UNCHANGED <<containers, latest, checked, blind>>
        /\ pc'[h] \in {"stopOld", "pull"} /\ (pc'[h] = "stopOld" => d \notin BlueGreen)
    BY <1>0, <1>5 DEF FindOld, SlugAt
  <2> HIDE DEF old
  <2>3. job'[h].dep = d /\ job'[h].old = old
    BY <1>0, <2>2 DEF Job
  <2>4. DeployInv(h)'
    BY <1>0, <2>1, <2>2, <2>3 DEF DeployInv, WithId, SlugAt, OldKnown, NewOnTrial
  <2> QED BY <1>3, <2>2, <2>4
<1>5a. CASE FindOldFails(h)
  <2>1. /\ pc[h] = "find" /\ pc'[h] = "pull" /\ job' = job
        /\ UNCHANGED <<containers, latest, checked, blind>>
    BY <1>0, <1>5a DEF FindOldFails
  <2>2. DeployInv(h)'
    BY <1>1, <1>2, <2>1 DEF DeployInv, WithId, OldKnown, NewOnTrial
  <2> QED BY <1>3, <2>1, <2>2
<1>5b. CASE OldLeftBehind(h)
  <2>1. UNCHANGED <<containers, latest, checked, blind>>
    BY <1>5b DEF OldLeftBehind
  <2>2. CASE pc[h] = "stopOld"
    <3>1. pc'[h] = "pull" /\ job'[h].dep = d /\ job'[h].old = None
      BY <1>0, <1>5b, <2>2 DEF OldLeftBehind, Job
    <3>2. DeployInv(h)'
      BY <1>1, <2>1, <3>1 DEF DeployInv, WithId, OldKnown, NewOnTrial
    <3> QED BY <1>3, <2>1, <3>2
  <2>3. CASE pc[h] = "switch"
    <3>1. pc'[h] = "report" /\ job' = job
      BY <1>0, <1>5b, <2>3 DEF OldLeftBehind
    <3>2. DeployInv(h)'
      BY <1>2, <2>1, <2>3, <3>1 DEF DeployInv, SlugAt, OldKnown, NewOnTrial
    <3> QED BY <1>3, <2>1, <3>2
  <2> QED BY <1>5b, <2>2, <2>3 DEF OldLeftBehind
<1>6. CASE StopOld(h)
  <2>1. /\ pc[h] = "stopOld" /\ pc'[h] = "pull" /\ containers' = containers \ WithId(job[h].old)
        /\ job'[h].dep = d /\ job'[h].old = None /\ UNCHANGED <<checked, blind>>
        /\ latest' = [latest EXCEPT ![s] = {}]
    BY <1>0, <1>6 DEF StopOld, StopAndRemove, SlugAt, Job
  <2>2. \A c \in containers : c \notin containers' => SlugOf[c.dep] = s
    BY <1>2, <2>1 DEF DeployInv, OldKnown, SlugAt
  <2>3. OnlyService(s) /\ Served(s)'
    BY <1>0, <2>1, <2>2 DEF OnlyService, Served
  <2>4. DeployInv(h)'
    BY <1>1, <2>1 DEF DeployInv, WithId, OldKnown, NewOnTrial
  <2> QED BY <1>1, <2>1, <2>3, <2>4 DEF Deploying
<1>7. CASE PullImage(h)
  <2>1. DeployInv(h)'
    BY <1>0, <1>2, <1>7 DEF PullImage, DeployInv, WithId, SlugAt, OldKnown, NewOnTrial
  <2> QED BY <1>3, <1>7, <2>1 DEF PullImage
<1>8. CASE FastPath(h) /\ \A c \in Named(d) : ~c.up
  <2>1. pc[h] = "fastPath" /\ pc'[h] = "run" /\ job' = job /\ UNCHANGED <<containers, latest, checked, blind>>
    BY <1>0, <1>8 DEF FastPath
  <2>2. Named(d) = {}
    BY <1>1, <1>8 DEF Named
  <2>3. DeployInv(h)'
    BY <1>0, <1>2, <2>1, <2>2 DEF DeployInv, WithId, Named, SlugAt, OldKnown, NewOnTrial
  <2> QED BY <1>3, <2>1, <2>3
<1>8a. CASE FastPathFails(h)
  <2>1. /\ pc[h] = "fastPath" /\ pc'[h] = "run" /\ job' = job /\ UNCHANGED <<containers, latest, checked>>
        /\ blind' = blind \cup {d}
    BY <1>0, <1>8a DEF FastPathFails
  <2>2. OnlyService(s) /\ Served(s)'
    BY <1>0, <1>2, <2>1 DEF OnlyService, Served, Named
  <2>3. DeployInv(h)'
    BY <1>0, <1>2, <2>1 DEF DeployInv, WithId, Named, SlugAt, OldKnown, NewOnTrial
  <2> QED BY <1>1, <2>1, <2>2, <2>3 DEF Deploying
<1>9. CASE FastPath(h) /\ \E c \in Named(d) : c.up
  <2>1. /\ pc[h] = "fastPath" /\ pc'[h] = "report" /\ job'[h].dep = d
        /\ latest' = [latest EXCEPT ![s] = {d}] /\ blind' = blind \ {d} /\ UNCHANGED <<containers, checked>>
    BY <1>0, <1>9 DEF FastPath, Activate, SlugAt, Job
  <2>2. OnlyService(s) /\ Served(s)' /\ latest'[s] = {d}
    BY <1>0, <1>9, <2>1 DEF OnlyService, Served, Named
  <2>3. DeployInv(h)'
    BY <1>0, <2>1, <2>2 DEF DeployInv, SlugAt, OldKnown, NewOnTrial
  <2> QED BY <1>1, <2>1, <2>2, <2>3 DEF Deploying
<1>10. CASE RunContainer(h)
  <2>1. PICK n : n = [id |-> created + 1, dep |-> d, up |-> TRUE]
    OBVIOUS
  <2>2. n.id = created + 1 /\ n.dep = d /\ n.up
    BY <2>1
  <2>3. /\ pc[h] = "run" /\ pc'[h] = "traefik" /\ containers' = containers \cup {n}
        /\ job'[h].dep = d /\ job'[h].old = job[h].old /\ job'[h].new = created + 1
        /\ UNCHANGED <<latest, checked, blind>> /\ Named(d) = {}
    BY <1>0, <1>10, <2>1 DEF RunContainer, Job
  <2> HIDE <2>1
  <2>4. (d \in blind \/ d \notin latest[s]) /\ created + 1 \notin checked
    BY <1>0, <1>2, <2>3 DEF Served, HostInv
  <2>5. OnlyService(s) /\ Served(s)' /\ \A c \in containers' : c.up
    BY <1>0, <1>1, <1>2, <2>2, <2>3 DEF OnlyService, Served, Named
  <2>6. /\ \A c \in containers' : c.id = job[h].old => c \in containers
        /\ \A c \in containers' : c.id = created + 1 => c = n
        /\ n \in containers' /\ containers \subseteq containers'
    BY <1>0, <1>1, <2>2, <2>3
  <2>7. DeployInv(h)'
    BY <1>0, <1>2, <2>2, <2>3, <2>4, <2>6 DEF DeployInv, WithId, SlugAt, OldKnown, NewOnTrial
  <2> QED BY <2>3, <2>5, <2>7 DEF Deploying
<1>11. CASE AdoptContainer(h)
  <2>1. PICK c \in Named(d) : job' = [job EXCEPT ![h].new = c.id]
    BY <1>11 DEF AdoptContainer
  <2>2. /\ pc[h] = "run" /\ pc'[h] = "traefik" /\ UNCHANGED <<containers, latest, checked, blind>>
        /\ job'[h].dep = d /\ job'[h].old = job[h].old /\ job'[h].new = c.id
    BY <1>0, <1>11, <2>1 DEF AdoptContainer, Job
  <2>3. d \in blind /\ c \in containers /\ c.dep = d
    BY <1>2, <2>1, <2>2 DEF DeployInv, Named
  <2>4. \A e \in containers : e.id = c.id => e = c
    BY <2>3 DEF HostInv
  <2>5. DeployInv(h)'
    BY <1>0, <1>2, <2>2, <2>3, <2>4 DEF DeployInv, WithId, SlugAt, OldKnown, NewOnTrial
  <2> QED BY <1>3, <2>2, <2>5
<1>12. CASE ConnectTraefik(h)
  <2>1. DeployInv(h)'
    BY <1>0, <1>2, <1>12 DEF ConnectTraefik, DeployInv, WithId, SlugAt, OldKnown, NewOnTrial
  <2> QED BY <1>3, <1>12, <2>1 DEF ConnectTraefik
<1>13. CASE InspectContainer(h) /\ \E c \in WithId(job[h].new) : c.up
  <2>1. pc[h] = "inspect" /\ pc'[h] = "health" /\ job' = job /\ UNCHANGED <<containers, latest, checked, blind>>
    BY <1>0, <1>13 DEF InspectContainer
  <2>2. DeployInv(h)'
    BY <1>0, <1>2, <2>1 DEF DeployInv, WithId, SlugAt, OldKnown, NewOnTrial
  <2> QED BY <1>3, <2>1, <2>2
<1>14. CASE InspectContainer(h) /\ \A c \in WithId(job[h].new) : ~c.up
  <2>1. /\ pc'[h] = "unguard" /\ UNCHANGED <<latest, checked, blind>>
        /\ containers' = containers \ WithId(job[h].new)
    BY <1>0, <1>14 DEF InspectContainer, StopAndRemove, Fail
  <2>2. containers' = containers
    BY <1>1, <1>14, <2>1 DEF WithId
  <2> QED BY <1>4, <2>1, <2>2 DEF Aside, OldKnown
<1>15. CASE HealthPasses(h)
  <2>1. PICK c \in containers : c.id = job[h].new
    BY <1>15 DEF HealthPasses, WithId
  <2>2. /\ pc[h] = "health" /\ checked' = checked \cup {job[h].new} /\ containers' = containers
        /\ pc'[h] \in {"switch", "report"} /\ (pc'[h] = "switch" => job[h].old # job[h].new)
        /\ job'[h].dep = d /\ job'[h].old = job[h].old /\ job'[h].new = job[h].new
        /\ latest' = [latest EXCEPT ![s] = {d}] /\ blind' = blind \ {d}
    BY <1>0, <1>15 DEF HealthPasses, Activate, SlugAt, Job
  <2>3. c.dep = d
    BY <1>2, <2>1, <2>2 DEF DeployInv, NewOnTrial, WithId
  <2>4. OnlyService(s) /\ Served(s)' /\ latest'[s] = {d}
    BY <1>0, <2>1, <2>2, <2>3 DEF OnlyService, Served, Named
  <2>5. DeployInv(h)'
    BY <1>0, <1>2, <2>1, <2>2, <2>3, <2>4 DEF DeployInv, WithId, SlugAt, OldKnown, NewOnTrial
  <2> QED BY <1>1, <2>2, <2>4, <2>5 DEF Deploying
<1>16. CASE HealthFails(h)
  <2>1. /\ pc[h] = "health" /\ pc'[h] = "unguard" /\ UNCHANGED <<latest, checked, blind>>
        /\ containers' = containers \ WithId(job[h].new)
    BY <1>0, <1>16 DEF HealthFails, StopAndRemove, Fail
  <2>2. (d \in blind \/ d \notin latest[s]) /\ \A c \in containers : c \notin containers' => c.dep = d
    BY <1>2, <2>1 DEF DeployInv, NewOnTrial, SlugAt
  <2>3. OnlyService(s)
    BY <1>0, <2>1, <2>2 DEF OnlyService
  <2>4. Served(s)'
    BY <1>2, <2>1, <2>2 DEF Served, Named
  <2>5. DeployInv(h)'
    BY <2>1 DEF DeployInv, OldKnown, NewOnTrial
  <2> QED BY <1>1, <2>1, <2>3, <2>4, <2>5 DEF Deploying
<1>17. CASE SwitchTraffic(h)
  <2>1. /\ pc[h] = "switch" /\ pc'[h] = "report" /\ UNCHANGED <<job, latest, checked, blind>>
        /\ containers' = containers \ WithId(job[h].old)
    BY <1>0, <1>17 DEF SwitchTraffic, StopAndRemove
  <2>2. latest[s] = {d} /\ d \notin blind /\ \A c \in containers : c \notin containers' => SlugOf[c.dep] = s
    BY <1>2, <2>1 DEF DeployInv, OldKnown, SlugAt
  <2>3. \E c \in containers' : c.dep = d
    BY <1>2, <2>1 DEF DeployInv, WithId
  <2>4. OnlyService(s) /\ Served(s)'
    BY <1>0, <2>1, <2>2, <2>3 DEF OnlyService, Served, Named
  <2>5. DeployInv(h)'
    BY <1>0, <2>1, <2>2 DEF DeployInv, OldKnown, NewOnTrial, SlugAt
  <2> QED BY <1>1, <2>1, <2>4, <2>5 DEF Deploying
<1>18. CASE ReportIntrospection(h)
  <2>1. /\ pc[h] = "report" /\ pc'[h] = "unguard" /\ UNCHANGED <<containers, checked>>
        /\ latest' = [latest EXCEPT ![s] = {d}] /\ latest[s] = {d}
        /\ blind' = blind \ {d} /\ d \notin blind
    BY <1>0, <1>2, <1>18 DEF ReportIntrospection, Activate, DeployInv, SlugAt
  <2>2. latest' = latest /\ blind' = blind
    BY <1>0, <2>1
  <2> QED BY <1>4, <2>1, <2>2 DEF Aside, OldKnown
<1>19. Goal
  BY <1>4, <1>5, <1>5a, <1>5b, <1>6, <1>7, <1>8, <1>8a, <1>9, <1>10, <1>11, <1>12, <1>13, <1>14, <1>15,
     <1>16, <1>17, <1>18, DeploySplit
<1> QED BY <1>19

(* While nothing disturbs the deploys, every other step leaves containers  *)
(* and reports alone.                                                      *)
LEMMA OtherLeaves ==
    ASSUME TypeInv, ServeInv, Undisturbed, Undisturbed', [Next]_vars, ~ \E h \in Handlers : DeployStep(h)
    PROVE  UNCHANGED <<containers, latest, checked, blind>>
<1> USE DEF dockerVars, historyVars, boundVars
<1>1. ASSUME NEW h \in Handlers, NEW d \in Deployments, ReceiveDeploy(h, d)
      PROVE  UNCHANGED <<containers, latest, checked, blind>>
  BY <1>1, StartMove
<1>2. ASSUME NEW r \in Removers, RemoveStep(r) PROVE UNCHANGED <<containers, latest, checked, blind>>
  <2>1. rpc[r] \in {"idle", "check"}
    BY DEF Undisturbed
  <2> QED BY <1>2, <2>1 DEF RemoveStep, CheckGuard, ListContainers, RemoveContainer, RemoveImages,
             RemoveProjectNetwork, InRemove
<1>3. ASSUME NEW r \in Removers, NEW s \in Slugs, ReceiveRemove(r, s)
      PROVE  UNCHANGED <<containers, latest, checked, blind>>
  BY <1>3 DEF ReceiveRemove, InRemove
<1>4. CASE ContainerStops
  <2>1. stops' = stops + 1 /\ stops = 0 /\ stops' = 0
    BY <1>4 DEF ContainerStops, Undisturbed
  <2> QED BY <2>1
<1>5. CASE ContainerStarts
  BY <1>5 DEF ContainerStarts, ServeInv
<1>6. CASE PruneOrphanedNetworks \/ SeenExpiry \/ GuardExpiry \/ Crash \/ UNCHANGED vars
  BY <1>6 DEF PruneOrphanedNetworks, SeenExpiry, GuardExpiry, Crash, vars
<1> QED BY <1>1, <1>2, <1>3, <1>4, <1>5, <1>6 DEF Next

\* Every step of an undisturbed host keeps the serving invariant.
LEMMA NextServe ==
    ASSUME TypeInv, SlotInv, HostInv, ServeInv, Undisturbed, Undisturbed', [Next]_vars
    PROVE  ServeInv'
<1>1. ASSUME NEW h \in Handlers, DeployStep(h) PROVE ServeInv'
  <2>1. PICK s \in Slugs : s = SlugAt(h)
    BY DeployConstants DEF TypeInv, TypeOK, Job, SlugAt
  <2>2. /\ OnlyService(s) /\ DeployInv(h)' /\ Served(s)' /\ \A c \in containers' : c.up
        /\ pc[h] \notin Deploying => UNCHANGED <<containers, latest, checked, blind>>
    BY <1>1, <2>1, DeployServes
  <2>3. ASSUME NEW t \in Slugs, t # s PROVE Served(t)'
    <3>1. latest'[t] = latest[t] /\ Served(t)
      BY <2>2, <2>3 DEF OnlyService, ServeInv
    <3>2. latest[t] \subseteq Deployments
      BY DEF TypeInv, TypeOK
    <3> QED BY <2>2, <2>3, <3>1, <3>2 DEF OnlyService, Served, Named
  <2>4. ASSUME NEW k \in Handlers, k # h PROVE DeployInv(k)'
    <3>1. pc'[k] = pc[k] /\ job'[k] = job[k] /\ DeployInv(k)
      BY <1>1, <2>4, DeployMove DEF ServeInv
    <3>2. CASE pc[k] \notin Deploying
      BY <3>1, <3>2 DEF DeployInv, Deploying, OldKnown, NewOnTrial, Early
    <3>3. CASE pc[h] \notin Deploying
      BY <2>2, <3>1, <3>3 DEF DeployInv, WithId, Named, SlugAt
    <3>4. CASE pc[k] \in Deploying /\ pc[h] \in Deploying
      <4>1. SlugAt(k) # s
        BY <2>1, <2>4, <3>4 DEF Undisturbed, Serialized
      <4> QED BY <2>2, <3>1, <4>1, OthersKept
    <3> QED BY <3>2, <3>3, <3>4
  <2> QED BY <2>2, <2>3, <2>4 DEF ServeInv
<1>2. ASSUME ~ \E h \in Handlers : DeployStep(h) PROVE ServeInv'
  <2>1. UNCHANGED <<containers, latest, checked, blind>>
    BY <1>2, OtherLeaves
  <2>2. \A k \in Handlers : DeployInv(k)'
    <3>1. ASSUME NEW k \in Handlers, pc'[k] = "idle" \/ (pc'[k] = "acquire" /\ job'[k].old = None)
          PROVE  DeployInv(k)'
      BY <3>1 DEF DeployInv, OldKnown, NewOnTrial, Early
    <3>2. ASSUME NEW k \in Handlers, pc'[k] = pc[k], job'[k] = job[k] PROVE DeployInv(k)'
      <4>1. DeployInv(k)
        BY DEF ServeInv
      <4> QED BY <2>1, <3>2, <4>1 DEF DeployInv, WithId, Named, SlugAt
    <3>3. CASE UNCHANGED <<pc, job>>
      BY <3>2, <3>3
    <3>4. CASE Crash
      BY <3>1, <3>4 DEF Crash
    <3>5. ASSUME NEW h \in Handlers, NEW d \in Deployments, ReceiveDeploy(h, d)
          PROVE  \A k \in Handlers : DeployInv(k)'
      BY <3>1, <3>2, <3>5, StartMove
    <3> QED BY <1>2, <3>3, <3>4, <3>5, OtherMove
  <2> QED BY <2>1, <2>2 DEF ServeInv, Served, Named
<1> QED BY <1>1, <1>2

\* On an undisturbed host the serving invariant always holds.
LEMMA ServeInvariant == Spec /\ []Undisturbed => []ServeInv
<1>1. Init => ServeInv
  BY DEF Init, ServeInv, Served, DeployInv, OldKnown, NewOnTrial, Early
<1>2. TypeInv /\ SlotInv /\ HostInv /\ ServeInv /\ Undisturbed /\ Undisturbed' /\ [Next]_vars => ServeInv'
  BY NextServe
<1> QED BY <1>1, <1>2, TypeInvariant, SlotInvariant, HostInvariant, PTL DEF Spec

(* Whatever deploys, failed ones and ones cut short by a crash included,   *)
(* and whatever failing Docker calls have come after it, the container of  *)
(* the deployment last reported active runs, unless a recreate deploy has  *)
(* taken it down or a retry of it was blind.                               *)
THEOREM LastReportedRuns == Spec /\ []Undisturbed => []ServedVersion
<1>1. ServeInv => ServedVersion
  BY DEF ServeInv, Served, ServedVersion, Named
<1> QED BY <1>1, ServeInvariant, PTL

(* The configuration in which the code itself keeps the deploys            *)
(* undisturbed: one build slot, and no container is stopped or removed.    *)
Alone == MaxBuilds = 1 /\ Removers = {} /\ MaxStops = 0

\* One build slot, no remover and no stop command leave the host undisturbed.
LEMMA AloneUndisturbed ==
    ASSUME Alone
    PROVE  Spec => []Undisturbed
<1>1. MaxBuilds = 1
  BY DEF Alone
<1>2. Spec => []Serialized
  BY <1>1, OneSlotSerializes
<1>3. TypeInv /\ Serialized => Undisturbed
  BY DEF Alone, TypeInv, TypeOK, Undisturbed
<1> QED BY <1>2, <1>3, TypeInvariant, PTL

\* With one build slot, no removal and no stop command, the
\* version last reported active runs, with no further hypothesis on the behaviour.
THEOREM LastReportedRunsAlone ==
    ASSUME Alone
    PROVE  Spec => []ServedVersion
BY AloneUndisturbed, LastReportedRuns, PTL

(* A step that takes a service down is a recreate deploy stopping the old  *)
(* container, or a blind retry failing its check.                          *)
LEMMA NextKeepsServing ==
    ASSUME TypeInv, SlotInv, HostInv, ServeInv, Undisturbed, Undisturbed', [Next]_vars,
           NEW s \in Slugs, Serving(s), ~ Serving(s)'
    PROVE  \E h \in Handlers :
              \/ pc[h] = "stopOld" /\ job[h].dep \notin BlueGreen /\ pc'[h] = "pull"
              \/ pc[h] = "health" /\ job[h].dep \in blind /\ pc'[h] = "unguard"
<1>1. PICK c \in containers : SlugOf[c.dep] = s /\ c.up /\ c.id \in checked
  BY DEF Serving, Running, Of
<1>2. c \notin containers' \/ c.id \notin checked'
  BY <1>1 DEF Serving, Running, Of
<1>3. PICK h \in Handlers : DeployStep(h)
  BY <1>1, <1>2, OtherLeaves
<1>4. PICK t \in Slugs : t = SlugAt(h)
  BY DeployConstants DEF TypeInv, TypeOK, Job, SlugAt
<1>5. /\ OnlyService(t) /\ \A e \in containers' : e.up
      /\ pc[h] \notin Deploying => UNCHANGED <<containers, latest, checked, blind>>
  BY <1>3, <1>4, DeployServes
<1>6. checked \subseteq checked' /\ c \notin containers' /\ t = s
  BY <1>1, <1>2, <1>5 DEF OnlyService
<1>7. DeployInv(h) /\ pc \in [Handlers -> PC] /\ job \in [Handlers -> Job]
  BY DEF ServeInv, TypeInv, TypeOK
<1>8. ASSUME containers \subseteq containers' PROVE FALSE
  BY <1>6, <1>8
<1> USE DEF dockerVars, historyVars, Go
<1>9. CASE StopOld(h)
  BY <1>7, <1>9 DEF StopOld, DeployInv
<1>10. CASE Aside(h) \/ FindOld(h) \/ PullImage(h) \/ FastPath(h) \/ RunContainer(h) \/ AdoptContainer(h)
       \/ ConnectTraefik(h) \/ HealthPasses(h) \/ ReportIntrospection(h)
       \/ FindOldFails(h) \/ FastPathFails(h) \/ OldLeftBehind(h)
  BY <1>8, <1>10 DEF Aside, FindOldFails, FastPathFails, OldLeftBehind, FindOld, PullImage, FastPath, RunContainer, AdoptContainer, ConnectTraefik,
     HealthPasses, ReportIntrospection
<1>11. CASE InspectContainer(h)
  <2>1. containers' = containers \/ (containers' = containers \ WithId(job[h].new) /\ \A e \in WithId(job[h].new) : ~e.up)
    BY <1>11 DEF InspectContainer, StopAndRemove
  <2>2. \A e \in containers : e.up
    BY DEF ServeInv
  <2> QED BY <1>6, <2>1, <2>2 DEF WithId
<1>11a. CASE HealthFails(h)
  <2>1. pc[h] = "health" /\ pc'[h] = "unguard" /\ containers' = containers \ WithId(job[h].new)
    BY <1>7, <1>11a DEF HealthFails, StopAndRemove, Fail
  <2>2. c.id = job[h].new
    BY <1>6, <2>1 DEF WithId
  <2> QED BY <1>1, <1>7, <2>1, <2>2 DEF DeployInv, NewOnTrial
<1>12. CASE SwitchTraffic(h)
  <2>1. pc[h] = "switch" /\ containers' = containers \ WithId(job[h].old)
    BY <1>12 DEF SwitchTraffic, StopAndRemove
  <2>2. PICK e \in containers : e.id = job[h].new /\ e.dep = job[h].dep
    BY <1>7, <2>1 DEF DeployInv, WithId
  <2>3. job[h].new \in checked /\ e \in containers'
    BY <1>7, <2>1, <2>2 DEF DeployInv, WithId
  <2>4. e.up /\ SlugOf[e.dep] = s
    BY <1>4, <1>5, <1>6, <2>2, <2>3 DEF SlugAt
  <2> QED BY <1>6, <2>2, <2>3, <2>4 DEF Serving, Running, Of
<1> QED BY <1>3, <1>9, <1>10, <1>11, <1>11a, <1>12, DeploySplit DEF TypeInv

(* Once a service has a checked, running container it keeps one, through   *)
(* failures, duplicates and crashes, until a recreate deploy stops it or a *)
(* retry of its own deployment was blind and fails its check.              *)
THEOREM KeepsServing == Spec /\ []Undisturbed => NoDowntime
<1>1. TypeInv /\ SlotInv /\ HostInv /\ ServeInv /\ Undisturbed /\ Undisturbed' /\ [Next]_vars
        => [\A s \in Slugs : Serving(s) /\ ~Serving(s)'
              => \E h \in Handlers :
                    \/ pc[h] = "stopOld" /\ job[h].dep \notin BlueGreen /\ pc'[h] = "pull"
                    \/ pc[h] = "health" /\ job[h].dep \in blind /\ pc'[h] = "unguard"]_vars
  BY NextKeepsServing
<1> QED BY <1>1, TypeInvariant, SlotInvariant, HostInvariant, ServeInvariant, PTL DEF Spec, NoDowntime

\* With one build slot, no removal and no stop command, no deploy but a recreate
\* interrupts a service, with no further hypothesis on the behaviour.
THEOREM KeepsServingAlone ==
    ASSUME Alone
    PROVE  Spec => NoDowntime
BY AloneUndisturbed, KeepsServing, PTL

-----------------------------------------------------------------------------
(* One version at a time *)

(* What may be left over: a container for each crash and each failed call. *)
Extra == crashes + faults

Count(s) == Cardinality(Of(s))

(* The containers of a service that is being deployed: there is room for   *)
(* the new one when the old one is gone or was never there, and the old    *)
(* one is removed when there are two; a recreate deploy has no old one any *)
(* more.                                                                   *)
OneInv(h) ==
    /\ pc[h] \in OldKnown \ TwoRun /\ job[h].old = None => Count(SlugAt(h)) <= Extra
    /\ pc[h] \in TwoRun =>
          Count(SlugAt(h)) <= Extra + (IF job[h].old \in {None, job[h].new} THEN 1 ELSE 2)
    /\ pc[h] \in OldKnown \ {"stopOld"} => job[h].dep \in BlueGreen \/ job[h].old = None

VersionInv ==
    /\ \A h \in Handlers : OneInv(h)
    /\ \A s \in Slugs : (\A h \in Handlers : pc[h] \in TwoRun => SlugAt(h) # s) => Count(s) <= 1 + Extra

(* Counting: a container more, a container less, and no fewer than none. *)
LEMMA Counting ==
    ASSUME HostInv, NEW s
    PROVE  /\ Count(s) \in Nat
           /\ \A n : SlugOf[n.dep] = s /\ containers' = containers \cup {n}
                => Count(s)' \in Nat /\ Count(s)' <= Count(s) + 1
           /\ \A i : containers' = containers \ WithId(i) /\ (\E c \in WithId(i) : SlugOf[c.dep] = s)
                => Count(s)' \in Nat /\ Count(s)' <= Count(s) - 1
           /\ Of(s) = {} => Count(s) = 0
<1>1. IsFiniteSet(Of(s))
  BY FS_Subset DEF HostInv, Of
<1>2. Cardinality(Of(s)) \in Nat
  BY <1>1, FS_CardinalityType
<1>3. ASSUME NEW n, SlugOf[n.dep] = s, containers' = containers \cup {n}
      PROVE  Count(s)' \in Nat /\ Count(s)' <= Count(s) + 1
  <2>1. Of(s)' = Of(s) \cup {n}
    BY <1>3 DEF Of
  <2>2. Cardinality(Of(s) \cup {n}) = IF n \in Of(s) THEN Cardinality(Of(s)) ELSE Cardinality(Of(s)) + 1
    BY <1>1, FS_AddElement
  <2> QED BY <1>2, <2>1, <2>2 DEF Count
<1>4. ASSUME NEW i, containers' = containers \ WithId(i), NEW c \in WithId(i), SlugOf[c.dep] = s
      PROVE  Count(s)' \in Nat /\ Count(s)' <= Count(s) - 1
  <2>1. WithId(i) = {c}
    BY <1>4 DEF HostInv, WithId
  <2>2. c \in Of(s) /\ Of(s)' = Of(s) \ {c}
    BY <1>4, <2>1 DEF Of, WithId
  <2>3. IsFiniteSet(Of(s) \ {c}) /\ Cardinality(Of(s) \ {c}) = Cardinality(Of(s)) - 1
    BY <1>1, <2>2, FS_RemoveElement
  <2>4. Cardinality(Of(s) \ {c}) \in Nat
    BY <2>3, FS_CardinalityType
  <2> QED BY <1>2, <2>2, <2>3, <2>4 DEF Count
<1>5. Of(s) = {} => Count(s) = 0
  BY FS_EmptySet DEF Count
<1> QED BY <1>2, <1>3, <1>4, <1>5 DEF Count

(* A failed call is counted, a crash is, and nothing uncounts them. *)
LEMMA DeployCounts ==
    ASSUME TypeInv, NEW h \in Handlers, DeployStep(h)
    PROVE  /\ Extra \in Nat /\ Extra' \in Nat /\ Extra <= Extra'
           /\ FindOldFails(h) \/ OldLeftBehind(h) \/ FastPathFails(h) \/ NewLeftBehind(h) => Extra' = Extra + 1
<1>0. faults \in Nat /\ crashes \in Nat
  BY DeployConstants DEF TypeInv, TypeOK
<1>1. ASSUME Fault PROVE faults' = faults + 1 /\ crashes' = crashes
  BY <1>1 DEF Fault
<1>2. CASE FindOldFails(h) \/ OldLeftBehind(h) \/ FastPathFails(h) \/ NewLeftBehind(h)
  <2>1. Fault
    BY <1>2 DEF FindOldFails, OldLeftBehind, FastPathFails, NewLeftBehind
  <2> QED BY <1>0, <1>1, <2>1 DEF Extra
<1>3. CASE ~ (FindOldFails(h) \/ OldLeftBehind(h) \/ FastPathFails(h) \/ NewLeftBehind(h))
  <2>1. faults' = faults /\ crashes' = crashes
    BY <1>3 DEF DeployStep, boundVars, AcquireSlot, SkipDuplicate, NotSeen, Quiet, MarkDeploymentSeen,
       MarkDeployActive, InDeploy, EvaluateDeployDiskGuard, Build, DeployFails, EnsureNetwork, FindOld, StopOld,
       PullImage, FastPath, CompanionsNotReady, RunContainer, AdoptContainer, RunFails, ConnectTraefik,
       InspectContainer, HealthPasses, HealthFails, DatabaseUnhealthy, SwitchTraffic, ReportIntrospection,
       MarkDeployDone, ClearDeploymentSeen, ReleaseSlot
  <2> QED BY <1>0, <1>3, <2>1 DEF Extra
<1> QED BY <1>2, <1>3

(* The other steps count nothing but a crash. *)
LEMMA OtherCounts ==
    ASSUME TypeInv, [Next]_vars, ~ \E h \in Handlers : DeployStep(h)
    PROVE  /\ Extra \in Nat
           /\ Extra' = Extra \/ (Crash /\ Extra' = Extra + 1)
<1>0. faults \in Nat /\ crashes \in Nat
  BY DeployConstants DEF TypeInv, TypeOK
<1>1. CASE Crash
  BY <1>0, <1>1 DEF Crash, Extra
<1>2. CASE ~Crash /\ Next
  <2>1. faults' = faults /\ crashes' = crashes
    BY <1>2 DEF Next, boundVars, ReceiveDeploy, RemoveStep, ReceiveRemove, CheckGuard, ListContainers,
       RemoveContainer, RemoveImages, RemoveProjectNetwork, InRemove, ContainerStops, ContainerStarts,
       PruneOrphanedNetworks, SeenExpiry, GuardExpiry
  <2> QED BY <1>0, <2>1 DEF Extra
<1>3. CASE UNCHANGED vars
  BY <1>0, <1>3 DEF vars, boundVars, Extra
<1> QED BY <1>1, <1>2, <1>3

(* A step of a handler leaves its service with one container, or with two  *)
(* while the new one is on trial, besides what was left over.              *)
LEMMA DeployVersions ==
    ASSUME TypeInv, HostInv, ServeInv, NEW h \in Handlers, DeployStep(h), NEW s \in Slugs, s = SlugAt(h),
           OneInv(h), pc[h] \notin TwoRun => Count(s) <= 1 + Extra
    PROVE  /\ OneInv(h)'
           /\ pc'[h] \notin TwoRun => Count(s)' <= 1 + Extra'
<1> DEFINE d == job[h].dep
           Goal == OneInv(h)' /\ (pc'[h] \notin TwoRun => Count(s)' <= 1 + Extra')
<1>0. /\ d \in Deployments /\ SlugOf[d] = s
      /\ created \in Nat /\ job[h].old \in Nat /\ job[h].new \in Nat
      /\ job[h].old <= created
      /\ job \in [Handlers -> Job] /\ pc \in [Handlers -> PC]
  BY DeployConstants DEF TypeInv, TypeOK, Job, Ids, None, HostInv, SlugAt
<1>1. \A c \in containers : c.up
  BY DEF ServeInv
<1>2. DeployInv(h)
  BY DEF ServeInv
<1>3. /\ Count(s) \in Nat /\ Extra \in Nat /\ Extra' \in Nat /\ Extra <= Extra'
      /\ FindOldFails(h) \/ OldLeftBehind(h) \/ FastPathFails(h) \/ NewLeftBehind(h) => Extra' = Extra + 1
  BY Counting, DeployCounts
<1>4. /\ pc[h] \in OldKnown \ TwoRun /\ job[h].old = None => Count(s) <= Extra
      /\ pc[h] \in TwoRun => Count(s) <= Extra + (IF job[h].old \in {None, job[h].new} THEN 1 ELSE 2)
      /\ pc[h] \in OldKnown \ {"stopOld"} => d \in BlueGreen \/ job[h].old = None
      /\ pc[h] \notin TwoRun => Count(s) <= 1 + Extra
  BY DEF OneInv
<1>5. containers' = containers => Count(s)' = Count(s)
  BY DEF Count, Of
<1> HIDE DEF Count, Extra
<1> USE DEF dockerVars, historyVars, Go, OldKnown, TwoRun, NewOnTrial
<1>6. ASSUME pc'[h] \notin OldKnown, Count(s)' <= 1 + Extra' PROVE Goal
  BY <1>6 DEF OneInv
<1>7. ASSUME job'[h].dep = d, pc'[h] \in OldKnown \ TwoRun,
             job'[h].old = None => Count(s)' <= Extra',
             Count(s)' <= 1 + Extra',
             pc'[h] # "stopOld" => d \in BlueGreen \/ job'[h].old = None
      PROVE  Goal
  BY <1>0, <1>7 DEF OneInv, SlugAt
<1>8. ASSUME job'[h].dep = d, pc'[h] \in TwoRun,
             Count(s)' <= Extra' + (IF job'[h].old \in {None, job'[h].new} THEN 1 ELSE 2),
             d \in BlueGreen \/ job'[h].old = None
      PROVE  Goal
  BY <1>0, <1>8 DEF OneInv, SlugAt
<1>9. CASE Aside(h) /\ (pc[h] \in TwoRun => DatabaseUnhealthy(h) \/ NewLeftBehind(h))
  <2>1. Count(s)' = Count(s) /\ pc'[h] \notin OldKnown
    BY <1>5, <1>9 DEF Aside
  <2>2. CASE pc[h] \notin TwoRun
    BY <1>3, <1>4, <1>6, <2>1, <2>2
  <2>3. CASE DatabaseUnhealthy(h)
    <3>1. pc[h] = "health" /\ d \notin BlueGreen
      BY <2>3 DEF DatabaseUnhealthy
    <3>2. Count(s) <= 1 + Extra
      BY <1>3, <1>4, <3>1
    <3> QED BY <1>3, <1>6, <2>1, <3>2
  <2>4. CASE NewLeftBehind(h)
    <3>1. pc[h] \in TwoRun
      BY <2>4 DEF NewLeftBehind
    <3>2. Count(s) <= 2 + Extra
      BY <1>3, <1>4, <3>1
    <3>3. Extra' = Extra + 1
      BY <1>3, <2>4
    <3> QED BY <1>3, <1>6, <2>1, <3>2, <3>3
  <2> QED BY <1>9, <2>2, <2>3, <2>4
<1>10. CASE FindOld(h)
  <2> DEFINE old == NewestRunning(s)
  <2>1. /\ job' = [job EXCEPT ![h].old = old] /\ containers' = containers /\ pc[h] = "find"
        /\ pc'[h] \in {"stopOld", "pull"} /\ (pc'[h] = "pull" => old = None \/ d \in BlueGreen)
    BY <1>0, <1>10 DEF FindOld, SlugAt
  <2>2. old = None => Of(s) = {}
    BY <1>1, NewestRunningIs DEF Running, Of, TypeInv, TypeOK, Container, Ids, None
  <2>3. old = None => Count(s) = 0
    BY <2>2, Counting
  <2> HIDE DEF old
  <2>4. job'[h].dep = d /\ job'[h].old = old
    BY <1>0, <2>1 DEF Job
  <2> QED BY <1>3, <1>4, <1>5, <1>7, <2>1, <2>3, <2>4
<1>11. CASE FindOldFails(h)
  <2>1. pc[h] = "find" /\ pc'[h] = "pull" /\ job' = job /\ containers' = containers
    BY <1>0, <1>11 DEF FindOldFails
  <2>2. job[h].old = None
    BY <1>2, <2>1 DEF DeployInv, Early
  <2>3. Count(s)' <= Extra'
    BY <1>3, <1>4, <1>5, <1>11, <2>1
  <2> QED BY <1>3, <1>5, <1>7, <2>1, <2>2, <2>3
<1>12. CASE StopOld(h)
  <2>1. /\ pc[h] = "stopOld" /\ pc'[h] = "pull" /\ containers' = containers \ WithId(job[h].old)
        /\ job'[h].dep = d /\ job'[h].old = None
    BY <1>0, <1>12 DEF StopOld, StopAndRemove, Job
  <2>2. Count(s)' \in Nat /\ Count(s)' <= Extra
    <3>1. CASE job[h].old = None
      <4>1. WithId(job[h].old) = {}
        BY <3>1 DEF WithId, TypeInv, TypeOK, Container, Ids, None
      <4>2. Count(s)' = Count(s) /\ Count(s) <= Extra
        BY <1>4, <1>5, <2>1, <3>1, <4>1
      <4> QED BY <1>3, <4>2
    <3>2. CASE job[h].old # None
      <4>1. \E c \in WithId(job[h].old) : SlugOf[c.dep] = s
        BY <1>2, <2>1, <3>2 DEF DeployInv
      <4>2. Count(s)' \in Nat /\ Count(s)' <= Count(s) - 1
        BY <2>1, <4>1, Counting
      <4> QED BY <1>3, <1>4, <2>1, <4>2
    <3> QED BY <3>1, <3>2
  <2> QED BY <1>3, <1>7, <2>1, <2>2
<1>13. CASE OldLeftBehind(h)
  <2>1. Count(s)' = Count(s) /\ Extra' = Extra + 1
    BY <1>3, <1>5, <1>13 DEF OldLeftBehind
  <2>2. CASE pc[h] = "stopOld"
    <3>1. pc'[h] = "pull" /\ job'[h].dep = d /\ job'[h].old = None
      BY <1>0, <1>13, <2>2 DEF OldLeftBehind, Job
    <3> QED BY <1>3, <1>4, <1>7, <2>1, <2>2, <3>1
  <2>3. CASE pc[h] = "switch"
    <3>1. pc'[h] = "report"
      BY <1>0, <1>13, <2>3 DEF OldLeftBehind
    <3>2. Count(s) <= 2 + Extra
      BY <1>3, <1>4, <2>3
    <3> QED BY <1>3, <1>6, <2>1, <3>1, <3>2
  <2> QED BY <1>13, <2>2, <2>3 DEF OldLeftBehind
<1>14. CASE PullImage(h) \/ (FastPath(h) /\ \A c \in Named(d) : ~c.up) \/ FastPathFails(h)
  <2>1. /\ pc[h] \in {"pull", "fastPath"} /\ pc'[h] \in {"fastPath", "run"}
        /\ job' = job /\ containers' = containers
    BY <1>0, <1>14 DEF PullImage, FastPath, FastPathFails
  <2> QED BY <1>3, <1>4, <1>5, <1>7, <2>1
<1>15. CASE FastPath(h) /\ \E c \in Named(d) : c.up
  <2>1. pc[h] = "fastPath" /\ pc'[h] = "report" /\ containers' = containers
    BY <1>0, <1>15 DEF FastPath, Activate
  <2> QED BY <1>3, <1>4, <1>5, <1>6, <2>1
<1>16. CASE RunContainer(h)
  <2>1. PICK n : n = [id |-> created + 1, dep |-> d, up |-> TRUE]
    OBVIOUS
  <2>2. SlugOf[n.dep] = s
    BY <1>0, <2>1
  <2>3. /\ pc[h] = "run" /\ pc'[h] = "traefik" /\ containers' = containers \cup {n}
        /\ job'[h].dep = d /\ job'[h].old = job[h].old /\ job'[h].new = created + 1
    BY <1>0, <1>16, <2>1 DEF RunContainer, Job
  <2> HIDE <2>1
  <2>4. Count(s)' \in Nat /\ Count(s)' <= Count(s) + 1
    BY <2>2, <2>3, Counting
  <2>5. job[h].old # created + 1
    BY <1>0
  <2>6. CASE job[h].old = None
    BY <1>3, <1>4, <1>8, <2>3, <2>4, <2>6
  <2>7. CASE job[h].old # None
    BY <1>3, <1>4, <1>8, <2>3, <2>4, <2>5, <2>7
  <2> QED BY <2>6, <2>7
<1>17. CASE AdoptContainer(h)
  <2>1. PICK c \in Named(d) : job' = [job EXCEPT ![h].new = c.id]
    BY <1>17 DEF AdoptContainer
  <2>2. /\ pc[h] = "run" /\ pc'[h] = "traefik" /\ containers' = containers
        /\ job'[h].dep = d /\ job'[h].old = job[h].old
    BY <1>0, <1>17, <2>1 DEF AdoptContainer, Job
  <2> QED BY <1>3, <1>4, <1>5, <1>8, <2>2
<1>18. CASE ConnectTraefik(h) \/ (InspectContainer(h) /\ \E c \in WithId(job[h].new) : c.up)
  <2>1. /\ pc[h] \in {"traefik", "inspect"} /\ pc'[h] \in {"inspect", "health"}
        /\ job' = job /\ containers' = containers
    BY <1>0, <1>18 DEF ConnectTraefik, InspectContainer
  <2> QED BY <1>3, <1>4, <1>5, <1>8, <2>1
<1>19. CASE InspectContainer(h) /\ \A c \in WithId(job[h].new) : ~c.up
  <2>1. pc[h] = "inspect"
    BY <1>19 DEF InspectContainer
  <2> QED BY <1>1, <1>2, <1>19, <2>1 DEF DeployInv, WithId
<1>20. CASE HealthFails(h)
  <2>1. pc[h] = "health" /\ pc'[h] = "unguard" /\ containers' = containers \ WithId(job[h].new)
    BY <1>0, <1>20 DEF HealthFails, StopAndRemove, Fail
  <2>2. \E c \in WithId(job[h].new) : SlugOf[c.dep] = s
    BY <1>0, <1>2, <2>1 DEF DeployInv
  <2>3. Count(s)' \in Nat /\ Count(s)' <= Count(s) - 1
    BY <2>1, <2>2, Counting
  <2>4. Count(s) <= 2 + Extra
    BY <1>3, <1>4, <2>1
  <2> QED BY <1>3, <1>6, <2>1, <2>3, <2>4
<1>21. CASE HealthPasses(h)
  <2>1. /\ pc[h] = "health" /\ containers' = containers
        /\ pc'[h] = IF job[h].old \notin {None, job[h].new} THEN "switch" ELSE "report"
        /\ job'[h].dep = d /\ job'[h].old = job[h].old /\ job'[h].new = job[h].new
    BY <1>0, <1>21 DEF HealthPasses, Activate, Job
  <2>2. CASE job[h].old \in {None, job[h].new}
    BY <1>3, <1>4, <1>5, <1>6, <2>1, <2>2
  <2>3. CASE job[h].old \notin {None, job[h].new}
    BY <1>3, <1>4, <1>5, <1>8, <2>1, <2>3
  <2> QED BY <2>2, <2>3
<1>22. CASE SwitchTraffic(h)
  <2>1. pc[h] = "switch" /\ pc'[h] = "report" /\ containers' = containers \ WithId(job[h].old)
    BY <1>0, <1>22 DEF SwitchTraffic, StopAndRemove
  <2>2. Count(s) <= 2 + Extra
    BY <1>3, <1>4, <2>1
  <2>3. CASE job[h].old = None
    <3>1. WithId(job[h].old) = {}
      BY <2>3 DEF WithId, TypeInv, TypeOK, Container, Ids, None
    <3>2. Count(s)' = Count(s) /\ Count(s) <= 1 + Extra
      BY <1>3, <1>4, <1>5, <2>1, <2>3, <3>1
    <3> QED BY <1>3, <1>6, <2>1, <3>2
  <2>4. CASE job[h].old # None
    <3>1. \E c \in WithId(job[h].old) : SlugOf[c.dep] = s
      BY <1>2, <2>1, <2>4 DEF DeployInv
    <3>2. Count(s)' \in Nat /\ Count(s)' <= Count(s) - 1
      BY <2>1, <3>1, Counting
    <3> QED BY <1>3, <1>6, <2>1, <2>2, <3>2
  <2> QED BY <2>3, <2>4
<1>23. CASE ReportIntrospection(h)
  <2>1. pc[h] = "report" /\ pc'[h] = "unguard" /\ containers' = containers
    BY <1>0, <1>23 DEF ReportIntrospection, Activate
  <2> QED BY <1>3, <1>4, <1>5, <1>6, <2>1
<1>24. Goal
  BY <1>9, <1>10, <1>11, <1>12, <1>13, <1>14, <1>15, <1>16, <1>17, <1>18, <1>19, <1>20, <1>21, <1>22, <1>23,
     DeploySplit
<1> QED BY <1>24

\* Every step of an undisturbed host, a crash included, keeps the version invariant.
LEMMA NextVersion ==
    ASSUME TypeInv, SlotInv, HostInv, ServeInv, Undisturbed, Undisturbed', VersionInv, [Next]_vars
    PROVE  VersionInv'
<1>0. \A k \in Handlers : OneInv(k) /\ SlugAt(k) \in Slugs
  BY DeployConstants DEF VersionInv, SlugAt, TypeInv, TypeOK, Job
<1>1. \A t \in Slugs : Count(t) \in Nat
  BY Counting
<1>2. ASSUME NEW k \in Handlers, NEW t \in Slugs, t = SlugAt(k), pc'[k] = pc[k], job'[k] = job[k],
             Count(t)' = Count(t), Extra \in Nat, Extra' \in Nat, Extra <= Extra'
      PROVE  OneInv(k)'
  <2>1. Count(SlugAt(k)) = Count(t) /\ SlugAt(k)' = t
    BY <1>2 DEF SlugAt
  <2>2. Count(t) \in Nat
    BY <1>1
  <2> HIDE DEF Count, Extra
  <2>3. /\ pc[k] \in OldKnown \ TwoRun /\ job[k].old = None => Count(t) <= Extra
        /\ pc[k] \in TwoRun => Count(t) <= Extra + (IF job[k].old \in {None, job[k].new} THEN 1 ELSE 2)
        /\ pc[k] \in OldKnown \ {"stopOld"} => job[k].dep \in BlueGreen \/ job[k].old = None
    BY <1>0, <1>2 DEF OneInv
  <2>4. /\ pc'[k] \in OldKnown \ TwoRun /\ job'[k].old = None => Count(t)' <= Extra'
        /\ pc'[k] \in TwoRun => Count(t)' <= Extra' + (IF job'[k].old \in {None, job'[k].new} THEN 1 ELSE 2)
        /\ pc'[k] \in OldKnown \ {"stopOld"} => job'[k].dep \in BlueGreen \/ job'[k].old = None
    BY <1>2, <2>2, <2>3
  <2> QED BY <1>2, <2>1, <2>4 DEF OneInv
<1>3. ASSUME NEW k \in Handlers, pc'[k] \notin OldKnown PROVE OneInv(k)'
  BY <1>3 DEF OneInv, OldKnown, TwoRun, NewOnTrial
<1>4. ASSUME NEW h \in Handlers, DeployStep(h), pc[h] \in Deploying PROVE VersionInv'
  <2>1. PICK s \in Slugs : s = SlugAt(h)
    BY <1>0
  <2>2. OnlyService(s)
    BY <1>4, <2>1, DeployServes
  <2>3. pc[h] \notin TwoRun => Count(s) <= 1 + Extra
    <3> SUFFICES ASSUME pc[h] \notin TwoRun PROVE \A k \in Handlers : pc[k] \in TwoRun => SlugAt(k) # s
      BY DEF VersionInv
    <3> QED BY <1>4, <2>1 DEF Undisturbed, Serialized, TwoRun, NewOnTrial, Deploying
  <2>4. OneInv(h)' /\ (pc'[h] \notin TwoRun => Count(s)' <= 1 + Extra')
    BY <1>0, <1>4, <2>1, <2>3, DeployVersions
  <2>5. \A k \in Handlers : k # h => pc'[k] = pc[k] /\ job'[k] = job[k]
    BY <1>4, DeployMove
  <2>6. ASSUME NEW t \in Slugs, t # s PROVE Count(t)' = Count(t)
    <3>1. Of(t)' = Of(t)
      BY <2>2, <2>6 DEF OnlyService, Of
    <3> QED BY <3>1 DEF Count
  <2>7. Extra \in Nat /\ Extra' \in Nat /\ Extra <= Extra'
    BY <1>4, DeployCounts
  <2>8. ASSUME NEW k \in Handlers, k # h PROVE OneInv(k)'
    <3>1. CASE pc[k] \notin Deploying
      BY <1>3, <2>5, <2>8, <3>1 DEF Deploying, OldKnown
    <3>2. CASE pc[k] \in Deploying
      <4>1. PICK t \in Slugs : t = SlugAt(k)
        BY <1>0
      <4>2. t # s
        BY <1>4, <2>1, <2>8, <3>2, <4>1 DEF Undisturbed, Serialized
      <4> QED BY <1>2, <2>5, <2>6, <2>7, <2>8, <4>1, <4>2
    <3> QED BY <3>1, <3>2
  <2>9. ASSUME NEW t \in Slugs, \A k \in Handlers : pc'[k] \in TwoRun => SlugAt(k)' # t
        PROVE  Count(t)' <= 1 + Extra'
    <3>1. CASE t = s
      <4>1. pc'[h] \in TwoRun => job'[h].dep = job[h].dep
        BY <1>4, DeployMove DEF Admitted, TwoRun, NewOnTrial
      <4>2. pc'[h] \notin TwoRun
        BY <2>1, <2>9, <3>1, <4>1 DEF SlugAt
      <4> QED BY <2>4, <3>1, <4>2
    <3>2. CASE t # s
      <4>1. \A k \in Handlers : pc[k] \in TwoRun => SlugAt(k) # t
        BY <2>1, <2>5, <2>9, <3>2 DEF SlugAt
      <4>2. Count(t) <= 1 + Extra
        BY <4>1 DEF VersionInv
      <4>3. Count(t)' = Count(t) /\ Count(t) \in Nat
        BY <1>1, <2>6, <3>2
      <4> HIDE DEF Count, Extra
      <4> QED BY <2>7, <4>2, <4>3
    <3> QED BY <3>1, <3>2
  <2> QED BY <2>4, <2>8, <2>9 DEF VersionInv
<1>5. ASSUME containers' = containers, Extra \in Nat, Extra' = Extra,
             \A k \in Handlers : \/ pc'[k] = pc[k] /\ job'[k] = job[k]
                                 \/ pc[k] \notin TwoRun /\ pc'[k] \notin OldKnown
      PROVE  VersionInv'
  <2>1. \A t \in Slugs : Count(t)' = Count(t)
    BY <1>5 DEF Count, Of
  <2>2. ASSUME NEW k \in Handlers PROVE OneInv(k)'
    <3>1. PICK t \in Slugs : t = SlugAt(k)
      BY <1>0
    <3>2. Extra <= Extra'
      BY <1>5
    <3> QED BY <1>2, <1>3, <1>5, <2>1, <3>1, <3>2
  <2>3. ASSUME NEW t \in Slugs, \A k \in Handlers : pc'[k] \in TwoRun => SlugAt(k)' # t
        PROVE  Count(t)' <= 1 + Extra'
    <3>1. \A k \in Handlers : pc[k] \in TwoRun => SlugAt(k) # t
      BY <1>5, <2>3 DEF SlugAt
    <3>2. Count(t) <= 1 + Extra
      BY <3>1 DEF VersionInv
    <3> QED BY <1>5, <2>1, <3>2
  <2> QED BY <2>2, <2>3 DEF VersionInv
<1>6. ASSUME NEW h \in Handlers, DeployStep(h), pc[h] \notin Deploying PROVE VersionInv'
  <2>1. PICK s \in Slugs : s = SlugAt(h)
    BY <1>0
  <2>2. containers' = containers
    BY <1>6, <2>1, DeployServes
  <2>3. Aside(h)
    BY <1>6, DeploySplit DEF FindOld, FindOldFails, StopOld, OldLeftBehind, PullImage, FastPath, FastPathFails,
       RunContainer, AdoptContainer, ConnectTraefik, InspectContainer, HealthPasses, HealthFails, SwitchTraffic,
       ReportIntrospection, Deploying
  <2>4. pc[h] \notin TwoRun /\ pc'[h] \notin OldKnown
    BY <1>6, <2>3 DEF Aside, Deploying, TwoRun, NewOnTrial
  <2>5. \A k \in Handlers : k # h => pc'[k] = pc[k] /\ job'[k] = job[k]
    BY <1>6, DeployMove
  <2>6. Extra \in Nat /\ Extra' = Extra
    BY <1>6, DeployConstants DEF Extra, TypeInv, TypeOK, DeployStep, boundVars, AcquireSlot, SkipDuplicate,
       NotSeen, Quiet, MarkDeploymentSeen, MarkDeployActive, InDeploy, EvaluateDeployDiskGuard, Build, DeployFails,
       EnsureNetwork, FindOld, FindOldFails, StopOld, OldLeftBehind, PullImage, FastPath, FastPathFails,
       CompanionsNotReady, RunContainer, AdoptContainer, RunFails, ConnectTraefik, InspectContainer, HealthPasses,
       HealthFails, DatabaseUnhealthy, NewLeftBehind, SwitchTraffic, ReportIntrospection, MarkDeployDone,
       ClearDeploymentSeen, ReleaseSlot, Deploying
  <2> QED BY <1>5, <2>2, <2>4, <2>5, <2>6
<1>7. CASE Crash
  <2>1. containers' = containers /\ \A k \in Handlers : pc'[k] = "idle"
    BY <1>7 DEF Crash
  <2>2. Extra \in Nat /\ Extra' = Extra + 1
    BY <1>7, DeployConstants DEF Crash, Extra, TypeInv, TypeOK
  <2>3. \A k \in Handlers : OneInv(k)'
    BY <1>3, <2>1 DEF OldKnown
  <2>4. ASSUME NEW t \in Slugs PROVE Count(t)' <= 1 + Extra'
    <3>1. Count(t)' = Count(t) /\ Count(t) \in Nat
      BY <1>1, <2>1 DEF Count, Of
    <3>2. Count(t) <= 2 + Extra
      <4> HIDE DEF Count, Extra
      <4>1. CASE \A k \in Handlers : pc[k] \in TwoRun => SlugAt(k) # t
        BY <2>2, <3>1, <4>1 DEF VersionInv
      <4>2. ASSUME NEW k \in Handlers, pc[k] \in TwoRun, SlugAt(k) = t PROVE Count(t) <= 2 + Extra
        <5>1. OneInv(k)
          BY <1>0
        <5> QED BY <2>2, <3>1, <4>2, <5>1 DEF OneInv
      <4> QED BY <4>1, <4>2
    <3> HIDE DEF Count, Extra
    <3> QED BY <2>2, <3>1, <3>2
  <2> QED BY <2>3, <2>4 DEF VersionInv
<1>8. ASSUME ~ \E h \in Handlers : DeployStep(h), ~Crash PROVE VersionInv'
  <2>1. containers' = containers
    BY <1>8, OtherLeaves
  <2>2. Extra \in Nat /\ Extra' = Extra
    BY <1>8, OtherCounts
  <2>3. CASE UNCHANGED <<pc, job>>
    BY <1>5, <2>1, <2>2, <2>3
  <2>4. ASSUME NEW h \in Handlers, NEW d \in Deployments, ReceiveDeploy(h, d) PROVE VersionInv'
    <3>1. pc[h] \notin TwoRun /\ pc'[h] \notin OldKnown
      BY <2>4, StartMove DEF TwoRun, NewOnTrial, OldKnown
    <3>2. \A k \in Handlers : k # h => pc'[k] = pc[k] /\ job'[k] = job[k]
      BY <2>4, StartMove
    <3> QED BY <1>5, <2>1, <2>2, <3>1, <3>2
  <2> QED BY <1>8, <2>3, <2>4, OtherMove
<1> QED BY <1>4, <1>6, <1>7, <1>8

(* When no deploy of a service is under way, one container of it runs at   *)
(* most, and one more for each crash and each Docker call that failed in a *)
(* deploy.                                                                 *)
THEOREM OneVersionRuns == Spec /\ []Undisturbed => []OneVersion
<1>1. Init => VersionInv
  <2> SUFFICES ASSUME Init PROVE VersionInv
    OBVIOUS
  <2>1. \A s : Count(s) = 0
    BY FS_EmptySet DEF Init, Count, Of
  <2>2. \A h \in Handlers : OneInv(h)
    BY DEF Init, OneInv, OldKnown, TwoRun, NewOnTrial
  <2>3. Extra = 0
    BY DEF Init, Extra
  <2> QED BY <2>1, <2>2, <2>3 DEF VersionInv
<1>2. TypeInv /\ SlotInv /\ HostInv /\ ServeInv /\ Undisturbed /\ Undisturbed' /\ [Next]_vars /\ VersionInv
        => VersionInv'
  BY NextVersion
<1>3. TypeInv /\ HostInv /\ VersionInv => OneVersion
  <2> SUFFICES ASSUME TypeInv, HostInv, VersionInv, NEW s \in Slugs, Idle(s)
               PROVE  Cardinality(Running(s)) <= 1 + crashes + faults
    BY DEF OneVersion
  <2>1. Count(s) <= 1 + Extra
    BY DEF VersionInv, Idle, TwoRun, NewOnTrial, SlugAt
  <2>2. IsFiniteSet(Of(s)) /\ Running(s) \subseteq Of(s)
    BY FS_Subset DEF HostInv, Of, Running
  <2>3. /\ Cardinality(Running(s)) \in Nat /\ Cardinality(Of(s)) \in Nat
        /\ Cardinality(Running(s)) <= Cardinality(Of(s))
    BY <2>2, FS_Subset, FS_CardinalityType
  <2>4. crashes \in Nat /\ faults \in Nat
    BY DeployConstants DEF TypeInv, TypeOK
  <2> QED BY <2>1, <2>3, <2>4 DEF Count, Extra
<1>4. Spec /\ []Undisturbed => []VersionInv
  BY <1>1, <1>2, TypeInvariant, SlotInvariant, HostInvariant, ServeInvariant, PTL DEF Spec
<1> QED BY <1>3, <1>4, TypeInvariant, HostInvariant, PTL

\* With one build slot, no removal and no stop command, finished deploys leave
\* one version running, and what crashes and failed calls have left, with no
\* further hypothesis on the behaviour.
THEOREM OneVersionRunsAlone ==
    ASSUME Alone
    PROVE  Spec => []OneVersion
BY AloneUndisturbed, OneVersionRuns, PTL

=============================================================================
