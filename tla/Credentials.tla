----------------------------- MODULE Credentials -----------------------------
(***************************************************************************)
(* Credential rotation of the agent: internal/agent/credentials.go, the    *)
(* part of Agent.Run and sendHeartbeats that drives it, HandleTunnelConfig *)
(* (which saves the same config file), and grpcclient.RenewCredentials.    *)
(*                                                                         *)
(* Three goroutines rotate credentials: the reconnect loop ("run"), the    *)
(* heartbeat sender ("hb") and the command receiver ("recv") of a          *)
(* connection.  Every operation runs under credentialMu and cfgMu, so `sec'*)
(* describes the one operation that holds the locks and the disk operation *)
(* it does next; crashes and disk outages fall between any two of them.    *)
(*                                                                         *)
(* Abstractions.  A credential (certificate, JWT, renewal token, expiry,   *)
(* generation) is named by the rotation that issued it: the control plane  *)
(* answers a repeated request id with the bundle it made first.  Retry     *)
(* deadlines and the renewal window are free choices of the clock.         *)
(* Attempts, error codes and logging are left out.  Goroutines left over   *)
(* from an earlier connection are at most one "hb" and one "recv".         *)
(***************************************************************************)
EXTENDS CertStore

CONSTANTS
    None,           \* "" in PendingRotationID
    Tunnels,        \* tunnel configurations the control plane may send
    TokenMode,      \* auth_mode = "token" (JWT); otherwise mTLS
    BaseRenewable,  \* enrollment delivered a renewal token
    Expirable,      \* credentials whose lifetime ends during the behaviour
    ServerFaults,   \* the control plane may reject or send unusable answers
    MaxOutages,     \* bound: periods in which the disk refuses writes
    MaxCrashes      \* bound: crashes of the agent process

ASSUME CredentialConstants ==
    /\ None \notin Rotations \cup Tunnels
    /\ TokenMode \in BOOLEAN
    /\ BaseRenewable \in BOOLEAN
    /\ ServerFaults \in BOOLEAN
    /\ Expirable \subseteq Rotations \cup {Enrolled}
    /\ MaxOutages \in Nat
    /\ MaxCrashes \in Nat

VARIABLES
    disk,       \* config.yaml
    mem,        \* *a.cfg
    sec,        \* the operation that holds the locks
    pc,         \* where each goroutine is
    arg,        \* the request or rotation each goroutine works on
    force,      \* recoverCredentials' parameter
    lingering,  \* goroutines of an earlier connection
    used,       \* rotation ids handed out by newRotationID
    keys,       \* keys generated for each rotation id
    asked,      \* renewal requests that reached the control plane
    issued,     \* the key each rotation's certificate was made for
    expired,    \* credentials whose lifetime has ended
    outages, crashes

agentVars == <<disk, mem, sec, pc, arg, force, lingering, used, keys>>
serverVars == <<asked, issued>>
envVars == <<expired, outages, crashes>>
vars == <<storeVars, agentVars, serverVars, envVars>>

-----------------------------------------------------------------------------
(* Configuration *)

Credential == Rotations \cup {Enrolled}

Config ==
    [cred   : Credential,                 \* AuthToken, RenewalToken, expiry, generation
     pid    : Rotations \cup {None},      \* PendingRotationID
     ptok   : BOOLEAN,                    \* the other Pending... fields are set
     prev   : Pointers,                   \* PendingPreviousBundle, PendingHadPointer
     status : {"healthy", "pending", "failed"},
     tunnel : Tunnels \cup {None}]

Cleared(cfg) == [cfg EXCEPT !.pid = None, !.ptok = FALSE, !.prev = Legacy]

Final_ClearsFirst(cfg) ==
    LET cleared == Cleared(cfg) IN [cleared EXCEPT !.cred = cleared.pid, !.status = "healthy"]

Final_KeepsTokens(cfg) == Cleared([cfg EXCEPT !.status = "healthy"])

(* The configuration after a cutover. *)
Final(cfg) == Cleared([cfg EXCEPT !.cred = cfg.pid, !.status = "healthy"])

Goroutine == {"run", "hb", "recv"}

Step == {"free", "key", "csr", "saveRequest", "cert", "ca", "savePending", "discard",
         "activate", "undoPending", "saveFinal", "rollback", "restore",
         "resumePointer", "resumeFinal", "resumeRollback", "resumeRestore",
         "saveFailure", "return"}

PC == {"idle", "busy", "resume", "check", "begin", "http", "send", "apply", "recordKeep",
       "recordClear", "dial", "connected", "wait"}

Request == [id : Rotations \cup {None}, key : Content]
NoRequest == [id |-> None, key |-> 0]

Section == [at : Step, by : Goroutine, op : {"begin", "apply", "resume", "record"},
            id : Rotations \cup {None}, old : Config, clear : BOOLEAN, ok : BOOLEAN]

InitialConfig == [cred |-> Enrolled, pid |-> None, ptok |-> FALSE, prev |-> Legacy,
                  status |-> "healthy", tunnel |-> None]

FreeSection == [at |-> "free", by |-> "run", op |-> "resume", id |-> None,
                old |-> InitialConfig, clear |-> FALSE, ok |-> FALSE]

TypeOK ==
    /\ StoreTypeOK
    /\ disk \in Config /\ mem \in Config
    /\ sec \in Section
    /\ pc \in [Goroutine -> PC]
    /\ arg \in [Goroutine -> Request]
    /\ force \in BOOLEAN
    /\ lingering \in SUBSET Goroutine
    /\ used \in SUBSET Rotations
    /\ keys \in [Rotations -> Content]
    /\ asked \in SUBSET Request
    /\ issued \in [Rotations -> Content]
    /\ expired \in SUBSET Credential
    /\ outages \in 0 .. MaxOutages
    /\ crashes \in 0 .. MaxCrashes

Init ==
    /\ StoreInit
    /\ disk = InitialConfig /\ mem = InitialConfig
    /\ sec = FreeSection
    /\ pc = [g \in Goroutine |-> IF g = "run" THEN "resume" ELSE "idle"]
    /\ arg = [g \in Goroutine |-> NoRequest]
    /\ force = FALSE
    /\ lingering = {}
    /\ used = {}
    /\ keys = [r \in Rotations |-> 0]
    /\ asked = {}
    /\ issued = [r \in Rotations |-> 0]
    /\ expired = {}
    /\ outages = 0 /\ crashes = 0

-----------------------------------------------------------------------------
(* Locks and saves *)

Free == sec.at = "free"

Lock(g, op, id, clear, at) ==
    /\ Free
    /\ sec' = [at |-> at, by |-> g, op |-> op, id |-> id, old |-> mem,
               clear |-> clear, ok |-> FALSE]
    /\ pc' = [pc EXCEPT ![g] = "busy"]

Goto(at) == sec' = [sec EXCEPT !.at = at]

Leave(ok) == sec' = [sec EXCEPT !.at = "return", !.ok = ok]

(* saveCredentialConfig: the memory copy follows the file, never precedes it. *)
SaveCredentialConfig(cfg) ==
    /\ disk' = IF writable THEN cfg ELSE disk
    /\ mem' = IF writable THEN cfg ELSE mem

(* What an operation leaves alone besides the files it writes. *)
InSection == UNCHANGED <<pc, arg, force, lingering, used, writable, serverVars, envVars>>
FilesOnly == UNCHANGED <<disk, mem>>
ConfigOnly == UNCHANGED <<pointer, bundles>>

-----------------------------------------------------------------------------
(* beginCredentialRequest, with certs.PrepareRotation.  A pending request  *)
(* is repeated under its id; its key and CSR are generated when the CSR    *)
(* file cannot be read.                                                    *)

CanPrepare(id) == HasCSR(id) \/ keys[id] < MaxKeys

NextRequest ==
    {id \in IF mem.pid = None THEN Rotations \ used ELSE {mem.pid} : CanPrepare(id)}

BeginCredentialRequest(g) ==
    \E id \in NextRequest :
        /\ pc[g] = "begin"
        /\ Lock(g, "begin", id, FALSE, IF HasCSR(id) THEN "saveRequest" ELSE "key")
        /\ used' = used \cup {id}
        /\ UNCHANGED <<storeVars, disk, mem, arg, force, lingering, keys, serverVars, envVars>>

(* newRotationID or PrepareRotation fails before it writes anything; in    *)
(* the model that happens when the bounds are used up.                     *)
CannotPrepare(g) ==
    /\ pc[g] = "begin"
    /\ NextRequest = {}
    /\ Lock(g, "begin", mem.pid, FALSE, "return")
    /\ UNCHANGED <<storeVars, disk, mem, arg, force, lingering, used, keys, serverVars, envVars>>

WriteRotationKey ==
    /\ sec.at = "key"
    /\ WriteFile(sec.id, "key", keys[sec.id] + 1)
    /\ keys' = [keys EXCEPT ![sec.id] = @ + 1]
    /\ IF writable THEN Goto("csr") ELSE Leave(FALSE)
    /\ FilesOnly /\ InSection

WriteRotationCSR ==
    /\ sec.at = "csr"
    /\ WriteFile(sec.id, "csr", bundles[sec.id]["key"])
    /\ IF writable THEN Goto("saveRequest") ELSE Leave(FALSE)
    /\ FilesOnly /\ InSection /\ UNCHANGED keys

SaveRequest ==
    /\ sec.at = "saveRequest"
    /\ SaveCredentialConfig([mem EXCEPT !.pid = sec.id, !.status = "pending"])
    /\ Leave(writable)
    /\ ConfigOnly /\ InSection /\ UNCHANGED keys

-----------------------------------------------------------------------------
(* applyCredentialRotation, with certs.StageRotation, ActivateRotation,    *)
(* Rollback and DiscardRotation.                                           *)

(* An answer is usable when it is for the pending request, complete, and   *)
(* its certificate belongs to the key kept under that request.             *)
Usable(id) == id # None /\ id = mem.pid /\ CertificateFits(id, issued[id])

ApplyCredentialRotation(g) ==
    LET id == arg[g].id IN
    /\ pc[g] = "apply"
    /\ \/ Usable(id) /\ Lock(g, "apply", id, FALSE, "cert")
       \/ (~Usable(id) \/ ServerFaults) /\ Lock(g, "apply", id, FALSE, "return")
    /\ UNCHANGED <<storeVars, disk, mem, arg, force, lingering, used, keys, serverVars, envVars>>

StageCertificate_NoCA ==
    /\ sec.at = "cert"
    /\ WriteFile(sec.id, "cert", issued[sec.id])
    /\ IF writable THEN Goto("savePending") ELSE Leave(FALSE)
    /\ FilesOnly /\ InSection /\ UNCHANGED keys

StageCertificate ==
    /\ sec.at = "cert"
    /\ WriteFile(sec.id, "cert", issued[sec.id])
    /\ IF writable THEN Goto("ca") ELSE Leave(FALSE)
    /\ FilesOnly /\ InSection /\ UNCHANGED keys

StageCA ==
    /\ sec.at = "ca"
    /\ WriteFile(sec.id, "ca", issued[sec.id])
    /\ IF writable THEN Goto("savePending") ELSE Leave(FALSE)
    /\ FilesOnly /\ InSection /\ UNCHANGED keys

SavePending_NotPersisted ==
    /\ sec.at = "savePending"
    /\ Goto("activate")
    /\ FilesOnly /\ ConfigOnly /\ InSection /\ UNCHANGED keys

SavePending ==
    /\ sec.at = "savePending"
    /\ SaveCredentialConfig([mem EXCEPT !.ptok = TRUE, !.prev = pointer])
    /\ Goto(IF writable THEN "activate" ELSE "discard")
    /\ ConfigOnly /\ InSection /\ UNCHANGED keys

ActivateRotation ==
    /\ sec.at = "activate"
    /\ IF CompleteBundle(sec.id)
         THEN /\ WritePointer(sec.id)
              /\ Goto(IF writable THEN "saveFinal" ELSE "undoPending")
         ELSE Goto("undoPending") /\ ConfigOnly
    /\ FilesOnly /\ InSection /\ UNCHANGED keys

UndoPending ==
    /\ sec.at = "undoPending"
    /\ SaveCredentialConfig(sec.old)
    /\ IF writable THEN Goto("discard") ELSE Leave(FALSE)
    /\ ConfigOnly /\ InSection /\ UNCHANGED keys

SaveFinal ==
    /\ sec.at = "saveFinal"
    /\ SaveCredentialConfig(Final(mem))
    /\ IF writable THEN Leave(TRUE) ELSE Goto("rollback")
    /\ ConfigOnly /\ InSection /\ UNCHANGED keys

RollbackPointer ==
    /\ sec.at = "rollback"
    /\ Rollback(mem.prev)
    /\ Goto("restore")
    /\ FilesOnly /\ InSection /\ UNCHANGED keys

RestoreConfig ==
    /\ sec.at = "restore"
    /\ SaveCredentialConfig(sec.old)
    /\ IF writable THEN Goto("discard") ELSE Leave(FALSE)
    /\ ConfigOnly /\ InSection /\ UNCHANGED keys

(* DiscardRotation; the operation then returns, a failed apply with its error. *)
DiscardRotation ==
    /\ sec.at = "discard"
    /\ IF MayDiscard(sec.id) /\ ~Emptied(sec.id)
         THEN /\ \E f \in File : RemoveFile(sec.id, f)
              /\ UNCHANGED sec
         ELSE Leave(FALSE) /\ ConfigOnly
    /\ FilesOnly /\ InSection /\ UNCHANGED keys

-----------------------------------------------------------------------------
(* resumePendingCredentialCutover *)

CutoverPending(cfg) == cfg.pid # None /\ cfg.ptok

ResumePendingCredentialCutover_Skipped ==
    /\ pc["run"] = "resume"
    /\ Free
    /\ pc' = [pc EXCEPT !["run"] = "check"]
    /\ UNCHANGED <<storeVars, disk, mem, sec, arg, force, lingering, used, keys, serverVars, envVars>>

ResumePendingCredentialCutover ==
    /\ pc["run"] = "resume"
    /\ Free
    /\ IF CutoverPending(mem)
         THEN Lock("run", "resume", mem.pid, FALSE,
                   IF CompleteBundle(mem.pid) THEN "resumePointer" ELSE "return")
         ELSE pc' = [pc EXCEPT !["run"] = "check"] /\ UNCHANGED sec
    /\ UNCHANGED <<storeVars, disk, mem, arg, force, lingering, used, keys, serverVars, envVars>>

ResumePointer ==
    /\ sec.at = "resumePointer"
    /\ WritePointer(sec.id)
    /\ IF writable THEN Goto("resumeFinal") ELSE Leave(FALSE)
    /\ FilesOnly /\ InSection /\ UNCHANGED keys

ResumeFinal ==
    /\ sec.at = "resumeFinal"
    /\ SaveCredentialConfig(Final(mem))
    /\ IF writable THEN Leave(TRUE) ELSE Goto("resumeRollback")
    /\ ConfigOnly /\ InSection /\ UNCHANGED keys

ResumeRollback ==
    /\ sec.at = "resumeRollback"
    /\ Rollback(mem.prev)
    /\ Goto("resumeRestore")
    /\ FilesOnly /\ InSection /\ UNCHANGED keys

ResumeRestore ==
    /\ sec.at = "resumeRestore"
    /\ SaveCredentialConfig(sec.old)
    /\ Leave(FALSE)
    /\ ConfigOnly /\ InSection /\ UNCHANGED keys

-----------------------------------------------------------------------------
(* recordCredentialFailure(code, clearPending).  When the pending request  *)
(* is given up its bundle is discarded whether or not the save succeeded.  *)

RecordCredentialFailure(g) ==
    /\ pc[g] \in {"recordKeep", "recordClear"}
    /\ Lock(g, "record", mem.pid, pc[g] = "recordClear", "saveFailure")
    /\ UNCHANGED <<storeVars, disk, mem, arg, force, lingering, used, keys, serverVars, envVars>>

SaveFailure ==
    LET failed == [mem EXCEPT !.status = "failed"] IN
    /\ sec.at = "saveFailure"
    /\ SaveCredentialConfig(IF sec.clear THEN Cleared(failed) ELSE failed)
    /\ IF sec.clear /\ sec.id # None THEN Goto("discard") ELSE Leave(FALSE)
    /\ ConfigOnly /\ InSection /\ UNCHANGED keys

-----------------------------------------------------------------------------
(* An operation releases the locks and its caller goes on. *)

(* What recoverCredentials, Run and maybeRequestCredentialRenewal do next. *)
AfterReturn(g, op, ok) ==
    CASE op = "begin" /\ ok   -> IF g = "run" THEN "http" ELSE "send"
      [] op = "begin" /\ ~ok  -> "recordClear"
      [] op = "apply" /\ ok   -> IF g = "recv" THEN "idle" ELSE IF force THEN "resume" ELSE "dial"
      [] op = "resume" /\ ok  -> "check"
      [] op \in {"apply", "resume"} /\ ~ok -> "recordKeep"
      [] OTHER                -> IF g = "run" THEN "wait" ELSE "idle"

(* ReceiveCommands returned ErrCredentialRotated to connectAndStream. *)
Rotated == sec.op = "apply" /\ sec.ok /\ sec.by = "recv"
           /\ "recv" \notin lingering /\ pc["run"] = "connected"

Return ==
    LET g == sec.by
        next == AfterReturn(g, sec.op, sec.ok) IN
    /\ sec.at = "return"
    /\ sec' = FreeSection
    /\ pc' = [h \in Goroutine |->
                IF h = g THEN next
                ELSE IF h = "run" /\ Rotated THEN "resume" ELSE pc[h]]
    /\ force' = (force /\ ~(g = "run" /\ sec.op = "apply" /\ sec.ok))
    /\ arg' = [arg EXCEPT ![g] = IF sec.op = "begin" /\ sec.ok
                                   THEN [id |-> sec.id, key |-> bundles[sec.id]["csr"]]
                                   ELSE NoRequest]
    /\ lingering' = (IF Rotated THEN lingering \cup {h \in {"hb"} : pc[h] # "idle"} ELSE lingering)
                      \ (IF next = "idle" THEN {g} ELSE {})
    /\ UNCHANGED <<storeVars, disk, mem, used, keys, serverVars, envVars>>

-----------------------------------------------------------------------------
(* The reconnect loop: Run, recoverCredentials and connectAndStream *)

(* credentials.Expiry: the token's expiry, or the active certificate's. *)
Expired == (IF TokenMode THEN mem.cred ELSE ActiveCredential) \in expired

Renewable_RotatedOnly == mem.cred # Enrolled

(* There is a renewal token: the enrolment's, if it gave one, or a rotation's. *)
Renewable == mem.cred # Enrolled \/ BaseRenewable

MoveRun(to) ==
    /\ pc' = [pc EXCEPT !["run"] = to]
    /\ UNCHANGED <<storeVars, disk, mem, sec, used, keys, envVars>>

(* recoverCredentials after the resume: the credential is still good, ... *)
UseCredential ==
    /\ pc["run"] = "check"
    /\ Free
    /\ ~force /\ ~Expired
    /\ MoveRun("dial")
    /\ UNCHANGED <<arg, force, lingering, serverVars>>

(* ... it must be renewed over HTTPS, ... *)
StartRecovery ==
    /\ pc["run"] = "check"
    /\ Free
    /\ force \/ Expired
    /\ Renewable
    /\ MoveRun("begin")
    /\ UNCHANGED <<arg, force, lingering, serverVars>>

(* ... or there is no renewal token, or the retry time has not come. *)
RecoveryWaits ==
    /\ pc["run"] = "check"
    /\ Free
    /\ force \/ Expired
    /\ MoveRun("wait")
    /\ UNCHANGED <<arg, force, lingering, serverVars>>

(* RenewCredentials: the POST reaches the control plane or not, and is     *)
(* answered, refused or times out.                                         *)
PostRenewal ==
    /\ pc["run"] = "http"
    /\ asked' = asked \cup {arg["run"]}
    /\ MoveRun("http")
    /\ UNCHANGED <<arg, force, lingering, issued>>

RenewalAnswered ==
    /\ pc["run"] = "http"
    /\ arg["run"] \in asked /\ issued[arg["run"].id] # 0
    /\ MoveRun("apply")
    /\ UNCHANGED <<arg, force, lingering, serverVars>>

RenewalFailed ==
    /\ pc["run"] = "http"
    /\ MoveRun("recordKeep")
    /\ UNCHANGED <<arg, force, lingering, serverVars>>

(* Dialing takes the credential snapshot under cfgMu. *)
Connect ==
    /\ pc["run"] = "dial"
    /\ Free
    /\ ~Expired
    /\ MoveRun("connected")
    /\ UNCHANGED <<arg, force, lingering, serverVars>>

LeftOver == {g \in {"hb", "recv"} : pc[g] # "idle"}

DialFails ==
    /\ pc["run"] = "dial"
    /\ MoveRun("wait")
    /\ UNCHANGED <<arg, force, lingering, serverVars>>

(* The stream ends with an authentication error: recoverCredentials(true). *)
AuthenticationFails ==
    /\ pc["run"] \in {"dial", "connected"}
    /\ Expired \/ ServerFaults
    /\ MoveRun("resume")
    /\ force' = TRUE
    /\ lingering' = LeftOver
    /\ UNCHANGED <<arg, serverVars>>

Disconnect ==
    /\ pc["run"] = "connected"
    /\ MoveRun("wait")
    /\ lingering' = LeftOver
    /\ UNCHANGED <<arg, force, serverVars>>

WaitOver ==
    /\ pc["run"] = "wait"
    /\ MoveRun("resume")
    /\ force' = FALSE
    /\ UNCHANGED <<arg, lingering, serverVars>>

-----------------------------------------------------------------------------
(* A connection's heartbeat sender and receiver *)

(* maybeRequestCredentialRenewal finds a renewal due and its retry time past. *)
MaybeRequestCredentialRenewal ==
    /\ pc["run"] = "connected"
    /\ pc["hb"] = "idle"
    /\ pc' = [pc EXCEPT !["hb"] = "begin"]
    /\ UNCHANGED <<storeVars, disk, mem, sec, arg, force, lingering, used, keys, serverVars, envVars>>

(* The request is sent, and may be lost with the connection. *)
SendRenewalRequest ==
    /\ pc["hb"] = "send"
    /\ asked' \in {asked, asked \cup {arg["hb"]}}
    /\ pc' = [pc EXCEPT !["hb"] = "idle"]
    /\ lingering' = lingering \ {"hb"}
    /\ UNCHANGED <<storeVars, disk, mem, sec, arg, force, used, keys, issued, envVars>>

(* Send fails: sendHeartbeats returns the error and ends its connection. *)
SendRequestFails ==
    /\ pc["hb"] = "send"
    /\ pc' = [pc EXCEPT !["hb"] = "recordKeep",
                        !["run"] = IF @ = "connected" /\ "hb" \notin lingering THEN "wait" ELSE @]
    /\ lingering' = IF "hb" \in lingering \/ pc["run"] # "connected" THEN lingering ELSE LeftOver
    /\ UNCHANGED <<storeVars, disk, mem, sec, arg, force, used, keys, serverVars, envVars>>

(* handleCredentialRotation receives a rotation, possibly late or again ... *)
ReceiveRotation(r) ==
    /\ pc["run"] = "connected"
    /\ pc["recv"] = "idle"
    /\ issued[r] # 0
    /\ pc' = [pc EXCEPT !["recv"] = "apply"]
    /\ arg' = [arg EXCEPT !["recv"] = [id |-> r, key |-> 0]]
    /\ UNCHANGED <<storeVars, disk, mem, sec, force, lingering, used, keys, serverVars, envVars>>

(* ... or an error code, whose request id it does not compare. *)
ReceiveRejection ==
    /\ ServerFaults
    /\ asked # {}
    /\ pc["run"] = "connected"
    /\ pc["recv"] = "idle"
    /\ pc' = [pc EXCEPT !["recv"] = "recordClear"]
    /\ UNCHANGED <<storeVars, disk, mem, sec, arg, force, lingering, used, keys, serverVars, envVars>>

HandleTunnelConfig_Unlocked(t) ==
    /\ pc["run"] = "connected"
    /\ SaveCredentialConfig([mem EXCEPT !.tunnel = t])
    /\ UNCHANGED <<storeVars, sec, pc, arg, force, lingering, used, keys, serverVars, envVars>>

(* HandleTunnelConfig saves the whole configuration under cfgMu. *)
HandleTunnelConfig(t) ==
    /\ pc["run"] = "connected"
    /\ Free
    /\ SaveCredentialConfig([mem EXCEPT !.tunnel = t])
    /\ UNCHANGED <<storeVars, sec, pc, arg, force, lingering, used, keys, serverVars, envVars>>

-----------------------------------------------------------------------------
(* The control plane and the environment *)

(* External: the first request under an id fixes the bundle it is answered with. *)
IssueCredential ==
    \E q \in asked :
        /\ issued[q.id] = 0
        /\ issued' = [issued EXCEPT ![q.id] = q.key]
        /\ UNCHANGED <<storeVars, agentVars, asked, envVars>>

Expire ==
    \E c \in Expirable \ expired :
        /\ expired' = expired \cup {c}
        /\ UNCHANGED <<storeVars, agentVars, serverVars, outages, crashes>>

DiskFills ==
    /\ writable /\ outages < MaxOutages
    /\ writable' = FALSE
    /\ outages' = outages + 1
    /\ UNCHANGED <<pointer, bundles, agentVars, serverVars, expired, crashes>>

DiskFrees ==
    /\ ~writable
    /\ writable' = TRUE
    /\ UNCHANGED <<pointer, bundles, agentVars, serverVars, envVars>>

(* The process dies anywhere and is started again: LoadConfig, then Run. *)
Crash ==
    /\ crashes < MaxCrashes
    /\ crashes' = crashes + 1
    /\ mem' = disk
    /\ sec' = FreeSection
    /\ pc' = [g \in Goroutine |-> IF g = "run" THEN "resume" ELSE "idle"]
    /\ arg' = [g \in Goroutine |-> NoRequest]
    /\ force' = FALSE
    /\ lingering' = {}
    /\ UNCHANGED <<storeVars, disk, used, keys, serverVars, expired, outages>>

-----------------------------------------------------------------------------
SectionStep ==
    \/ WriteRotationKey \/ WriteRotationCSR \/ SaveRequest
    \/ StageCertificate \/ StageCA \/ SavePending \/ ActivateRotation \/ UndoPending
    \/ SaveFinal \/ RollbackPointer \/ RestoreConfig \/ DiscardRotation
    \/ ResumePointer \/ ResumeFinal \/ ResumeRollback \/ ResumeRestore
    \/ SaveFailure \/ Return

CallOperation(g) ==
    \/ BeginCredentialRequest(g) \/ CannotPrepare(g)
    \/ ApplyCredentialRotation(g)
    \/ RecordCredentialFailure(g)

RunStep ==
    \/ ResumePendingCredentialCutover \/ UseCredential \/ StartRecovery \/ RecoveryWaits
    \/ PostRenewal \/ RenewalAnswered \/ RenewalFailed
    \/ Connect \/ DialFails \/ AuthenticationFails \/ Disconnect \/ WaitOver

ConnectionStep ==
    \/ MaybeRequestCredentialRenewal \/ SendRenewalRequest \/ SendRequestFails
    \/ \E r \in Rotations : ReceiveRotation(r)
    \/ ReceiveRejection
    \/ \E t \in Tunnels : HandleTunnelConfig(t)

Environment == IssueCredential \/ Expire \/ DiskFills \/ DiskFrees \/ Crash

Next ==
    \/ SectionStep
    \/ \E g \in Goroutine : CallOperation(g)
    \/ RunStep
    \/ ConnectionStep
    \/ Environment

Spec == Init /\ [][Next]_vars

(***************************************************************************)
(* Fairness.  The goroutines run, and sync.Mutex hands a contended lock to *)
(* a waiter (its starvation mode), so an operation that is free to start   *)
(* again and again starts: strong fairness.  The network lets a dial, and  *)
(* the control plane an HTTPS renewal, through eventually; a disk outage   *)
(* ends.                                                                   *)
(***************************************************************************)
Fairness ==
    /\ WF_vars(SectionStep)
    /\ \A g \in Goroutine : SF_vars(CallOperation(g))
    /\ SF_vars(ResumePendingCredentialCutover)
    /\ SF_vars(UseCredential)
    /\ SF_vars(StartRecovery)
    /\ SF_vars(PostRenewal)
    /\ SF_vars(RenewalAnswered)
    /\ WF_vars(RenewalFailed)
    /\ SF_vars(Connect)
    /\ WF_vars(DialFails)
    /\ WF_vars(WaitOver)
    /\ WF_vars(IssueCredential)
    /\ WF_vars(DiskFrees)

FairSpec == Spec /\ Fairness

-----------------------------------------------------------------------------
(* Properties *)

(* The active-bundle pointer never names a bundle with a file missing: no  *)
(* discard, rollback, outage or crash takes the files away from under it   *)
(* (DiscardRotation's test of the pointer, ActivateRotation's of the       *)
(* bundle, Rollback's of nothing at all).                                  *)
ActiveBundleComplete == pointer \in Rotations => CompleteBundle(pointer)

(* The active certificate belongs to the active private key although both  *)
(* files are rewritten in place by retries of the same request id: with at *)
(* most one outage, for PrepareRotation does not look at the pointer.      *)
ActiveKeyMatches == pointer \in Rotations => bundles[pointer]["key"] = bundles[pointer]["cert"]

(* Between operations, and after a crash in any of them, the certificate   *)
(* the pointer selects and the tokens in config.yaml come from the same    *)
(* rotation unless the config records the cutover for the next start to    *)
(* complete (applyCredentialRotation, resumePendingCredentialCutover).     *)
NoMixedCredentials == Free /\ ~CutoverPending(disk) => disk.cred = ActiveCredential

(* A cutover recorded in config.yaml can be completed: its bundle is whole. *)
CutoverCanResume == CutoverPending(disk) => CompleteBundle(disk.pid)

(* As long as a request is pending, the key the control plane signed for   *)
(* it is kept, so the bundle it sends again can be installed               *)
(* (handleCredentialRotation's comment on request-scoped keys).            *)
RequestKeyKept ==
    disk.pid # None /\ issued[disk.pid] # 0 => bundles[disk.pid]["key"] = issued[disk.pid]

(* config.yaml changes to new tokens only in one way: the pending metadata *)
(* were saved before, and the pointer already names their bundle.          *)
CommitOrder ==
    [][disk'.cred # disk.cred =>
          CutoverPending(disk) /\ disk'.cred = disk.pid /\ pointer = disk.pid]_vars

(* "Preventing either update from clobbering the other's durable state":   *)
(* a rotation, its restores of the configuration it began with included,   *)
(* never takes back a saved tunnel, and saving a tunnel never takes back   *)
(* or puts in a credential, whichever saves have failed before.            *)
NoClobber ==
    [][/\ SectionStep => disk'.tunnel = disk.tunnel
       /\ (\E t \in Tunnels : HandleTunnelConfig(t)) => disk' = [disk EXCEPT !.tunnel = disk'.tunnel]]_vars

(* A cutover recorded in config.yaml is completed, through crashes, by the *)
(* operation that recorded it or by resumePendingCredentialCutover.        *)
CutoverCompletes ==
    \A r \in Rotations : CutoverPending(disk) /\ disk.pid = r ~> disk.cred = r

(* Run "reconnects on errors": the agent is connected again and again,     *)
(* recovering an expired credential on the way, unless the credential is   *)
(* expired and the bound on requests leaves no way to renew it.            *)
Reconnects == []<>(pc["run"] = "connected" \/ (Expired /\ NextRequest = {}))

=============================================================================
