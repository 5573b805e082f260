------------------------------ MODULE SelfUpdate ------------------------------
(***************************************************************************)
(* Replacing the agent's own binary: HandleUpdate (agent/handler.go),      *)
(* BackupAndApply, Apply, replaceFile and Rollback                         *)
(* (selfupdate/selfupdate.go), the update-state file (state.go) and        *)
(* checkPendingUpdate at start-up (agent/agent.go).                        *)
(*                                                                         *)
(* One action is one file operation.  Every goroutine running HandleUpdate *)
(* and the main goroutine, in a rollback, replace the same files; os.Exit  *)
(* by one of them ends all.  systemd starts whatever binary is in place.   *)
(*                                                                         *)
(* Abstractions.  A file is the version it holds, Absent, or Partial when  *)
(* a copy was cut short.  Download, checksum, signature and extraction     *)
(* either yield the requested version or fail.  The state file is written  *)
(* or emptied in one step.  resolveExecPath always finds the canonical     *)
(* path.                                                                   *)
(***************************************************************************)
EXTENDS Naturals

CONSTANTS
    MaxVersion,      \* bound: versions released
    Bad,             \* versions that cannot reach the control plane
    BadExit,         \* a bad version also exits soon after it has started
    Updaters,        \* goroutines running HandleUpdate
    MaxDownloads,    \* 4: attempts of the retry loop
    MaxFaults,       \* bound: downloads and file operations that fail
    MaxRestarts,     \* bound: restarts while no file is being replaced
    MaxCrashes       \* bound: crashes at any point of an update or rollback

Versions == 1 .. MaxVersion
Main == "main"
Actors == Updaters \cup {Main}

ASSUME UpdateConstants ==
    /\ MaxVersion \in Nat \ {0} /\ Bad \subseteq Versions \ {1}
    /\ BadExit \in BOOLEAN
    /\ Main \notin Updaters
    /\ MaxDownloads \in Nat \ {0} /\ MaxFaults \in Nat
    /\ MaxRestarts \in Nat /\ MaxCrashes \in Nat

VARIABLES
    bin, prev, staged, aside,  \* clank-agent and its .prev, .new and .old
    state,      \* update-state.json
    proc,       \* the version of the running process, or Down
    pc,         \* where each goroutine is
    want,       \* the version each updater installs
    tries,      \* downloads each updater has begun
    src,        \* what replaceFile copies: the download or the backup
    opened,     \* the binary each updater has open to copy to .prev
    retryable,  \* updaters whose last attempt failed in the download phase
    upset,      \* history: what went wrong beyond the code's repair, see Harm
    faults, restarts, crashes

fileVars == <<bin, prev, staged, aside>>
boundVars == <<faults, restarts, crashes>>
vars == <<fileVars, state, proc, pc, want, tries, src, opened, retryable, upset, boundVars>>

Absent == 0
Partial == MaxVersion + 1
Down == 0
File == 0 .. MaxVersion + 1

MaxAttempts == 3
NoState == [pending |-> FALSE, from |-> 1, to |-> 1, attempts |-> 0]

(***************************************************************************)
(* What the code does not repair: two updates at once ("overlap"); neither *)
(* the new binary nor the old one could be renamed into place ("lost"); a  *)
(* file operation of Rollback's failed ("rollback"); the record of the     *)
(* last update is not in the state file ("unsaved"); a file was left half  *)
(* written or moved aside ("cut"), or an older update's backup was left    *)
(* under a newer one's record ("stale"), by a crash or by an update whose  *)
(* failure could not clear the record.                                     *)
(***************************************************************************)
Harm == {"overlap", "lost", "rollback", "unsaved", "cut", "stale"}

PC == {"idle", "backup", "copying", "download", "stage", "moveAside", "moveIn", "moveBack",
       "cleanup", "failed", "exit", "check", "verify", "confirm", "clear", "serve"}

TypeOK ==
    /\ {bin, prev, staged, aside} \subseteq File
    /\ state \in [pending : BOOLEAN, from : Versions, to : Versions, attempts : 0 .. MaxAttempts]
    /\ proc \in Versions \cup {Down}
    /\ pc \in [Actors -> PC]
    /\ want \in [Updaters -> Versions]
    /\ tries \in [Updaters -> 0 .. MaxDownloads]
    /\ src \in [Actors -> {"download", "backup"}]
    /\ opened \in [Updaters -> File]
    /\ retryable \in SUBSET Updaters /\ upset \in SUBSET Harm
    /\ faults \in 0 .. MaxFaults
    /\ restarts \in 0 .. MaxRestarts /\ crashes \in 0 .. MaxCrashes

Init ==
    /\ bin = 1 /\ prev = Absent /\ staged = Absent /\ aside = Absent
    /\ state = NoState
    /\ proc = Down
    /\ pc = [a \in Actors |-> "idle"]
    /\ want = [u \in Updaters |-> 1] /\ tries = [u \in Updaters |-> 0]
    /\ src = [a \in Actors |-> "backup"] /\ retryable = {}
    /\ opened = [u \in Updaters |-> Absent]
    /\ upset = {}
    /\ faults = 0 /\ restarts = 0 /\ crashes = 0

-----------------------------------------------------------------------------
Go(a, to) == pc' = [pc EXCEPT ![a] = to]

(* os.Exit or a crash ends every goroutine of the process. *)
ProcessEnds ==
    /\ proc' = Down
    /\ pc' = [a \in Actors |-> "idle"]
    /\ want' = [u \in Updaters |-> 1] /\ tries' = [u \in Updaters |-> 0]
    /\ src' = [a \in Actors |-> "backup"] /\ retryable' = {}
    /\ opened' = [u \in Updaters |-> Absent]

(* Something goes wrong once more. *)
Fault == faults < MaxFaults /\ faults' = faults + 1

(* Opening or renaming a file fails: it is not there, or for another reason. *)
FileFails(f) == (f = Absent /\ UNCHANGED faults) \/ Fault

(* SaveState, whose callers ignore the error: os.WriteFile may fail before *)
(* or after it has emptied the file, which then holds no state.            *)
SaveState(s) ==
    \/ state' = s /\ UNCHANGED faults
    \/ state' \in {state, NoState} /\ Fault

(* ClearState ignores the error of os.Remove. *)
ClearState ==
    \/ state' = NoState /\ UNCHANGED faults
    \/ UNCHANGED state /\ Fault

(* What is left in the files for the next start, if the record stays. *)
LeftBehind ==
    {w \in {"cut", "stale"} :
        IF w = "cut" THEN bin \notin Versions \/ prev = Partial ELSE prev \notin {Absent, state.from}}

-----------------------------------------------------------------------------
(* systemd and checkPendingUpdate *)

(* External: systemd starts the binary, if it is one. *)
Boot ==
    /\ proc = Down
    /\ bin \in Versions
    /\ proc' = bin
    /\ Go(Main, "check")
    /\ UNCHANGED <<fileVars, state, want, tries, src, opened, retryable, upset, boundVars>>

CheckPendingUpdate_NotSaved ==
    /\ pc[Main] = "check"
    /\ \/ ~state.pending /\ Go(Main, "serve")
       \/ state.pending /\ state.attempts < MaxAttempts /\ Go(Main, "verify")
       \/ /\ state.pending /\ state.attempts = MaxAttempts
          /\ Go(Main, IF prev = Absent THEN "clear" ELSE "stage")
    /\ UNCHANGED <<fileVars, state, proc, want, tries, src, opened, retryable, upset, boundVars>>

CheckPendingUpdate_OffByOne ==
    /\ pc[Main] = "check"
    /\ \/ ~state.pending /\ Go(Main, "serve") /\ UNCHANGED state
       \/ /\ state.pending /\ state.attempts <= MaxAttempts
          /\ state' = [state EXCEPT !.attempts = @ + 1]
          /\ Go(Main, "verify")
       \/ /\ state.pending /\ state.attempts > MaxAttempts
          /\ Go(Main, IF prev = Absent THEN "clear" ELSE "stage")
          /\ UNCHANGED state
    /\ UNCHANGED <<fileVars, proc, want, tries, src, opened, retryable, upset, boundVars>>

(* No update is pending; or the attempt is counted and the count saved,    *)
(* which may leave the old count or lose the record; or there were too     *)
(* many and Rollback starts, if there is a backup.                         *)
CheckPendingUpdate ==
    /\ pc[Main] = "check"
    /\ \/ ~state.pending /\ Go(Main, "serve") /\ UNCHANGED <<state, upset, faults>>
       \/ /\ state.pending /\ state.attempts < MaxAttempts
          /\ SaveState([state EXCEPT !.attempts = @ + 1])
          /\ upset' = IF state' = NoState THEN upset \cup {"unsaved"} ELSE upset
          /\ Go(Main, "verify")
       \/ /\ state.pending /\ state.attempts = MaxAttempts
          /\ Go(Main, IF prev = Absent THEN "clear" ELSE "stage")
          /\ UNCHANGED <<state, upset, faults>>
    /\ UNCHANGED <<fileVars, proc, want, tries, src, opened, retryable, restarts, crashes>>

(* verifyConnectivity: the network decides, for a version that can connect. *)
VerifyConnectivity ==
    /\ pc[Main] = "verify"
    /\ \/ proc \notin Bad /\ ClearState /\ Go(Main, "confirm")
       \/ Go(Main, "serve") /\ UNCHANGED <<state, faults>>
    /\ UNCHANGED <<fileVars, proc, want, tries, src, opened, retryable, upset, restarts, crashes>>

CleanupBackup ==
    /\ pc[Main] = "confirm"
    /\ prev' = Absent
    /\ Go(Main, "serve")
    /\ UNCHANGED <<bin, staged, aside, state, proc, want, tries, src, opened, retryable, upset, boundVars>>

(* After the rollback, successful or not: ClearState and os.Exit(1). *)
ExitAfterRollback ==
    /\ pc[Main] = "clear"
    /\ ClearState
    /\ ProcessEnds
    /\ UNCHANGED <<fileVars, upset, restarts, crashes>>

-----------------------------------------------------------------------------
(* HandleUpdate *)

(* A command arrives; its version is installed unless it is running.  The  *)
(* state file is written before anything else, and the update goes on if   *)
(* that fails.                                                             *)
HandleUpdate(u, v) ==
    LET record == [pending |-> TRUE, from |-> proc, to |-> v, attempts |-> 0] IN
    /\ pc[Main] = "serve" /\ proc \notin Bad
    /\ pc[u] = "idle" /\ v # proc
    /\ SaveState(record)
    /\ want' = [want EXCEPT ![u] = v]
    /\ tries' = [tries EXCEPT ![u] = 1]
    /\ Go(u, IF v < proc THEN "failed" ELSE "backup")
    /\ upset' = (IF state' = record THEN upset \ {"unsaved"} ELSE upset \cup {"unsaved"})
                \cup (IF \E o \in Updaters : pc[o] # "idle" THEN {"overlap"} ELSE {})
    /\ UNCHANGED <<fileVars, proc, src, opened, retryable, restarts, crashes>>

BackupBegin_OnlyOnce(u) ==
    /\ pc[u] = "backup"
    /\ \/ prev \notin Versions /\ prev' = Partial /\ Go(u, "copying")
       \/ prev \in Versions /\ UNCHANGED prev /\ Go(u, "download")
    /\ opened' = [opened EXCEPT ![u] = bin]
    /\ UNCHANGED <<bin, staged, aside, state, proc, want, tries, src, retryable, upset, boundVars>>

(* BackupAndApply: copyFile opens the binary, which another goroutine may  *)
(* just have moved aside, and truncates .prev, ...                         *)
BackupBegin(u) ==
    /\ pc[u] = "backup"
    /\ \/ bin # Absent /\ prev' = Partial /\ Go(u, "copying") /\ UNCHANGED faults
       \/ FileFails(bin) /\ UNCHANGED prev /\ Go(u, "failed")
    /\ opened' = [opened EXCEPT ![u] = bin]
    /\ UNCHANGED <<bin, staged, aside, state, proc, want, tries, src, retryable, upset, restarts, crashes>>

(* ... and fills it.  The copy may fail, or the chmod, which removes .prev. *)
BackupEnd(u) ==
    /\ pc[u] = "copying"
    /\ \/ prev' = opened[u] /\ Go(u, "download") /\ UNCHANGED faults
       \/ Fault /\ prev' \in {Partial, Absent} /\ Go(u, "failed")
    /\ opened' = [opened EXCEPT ![u] = Absent]
    /\ UNCHANGED <<bin, staged, aside, state, proc, want, tries, src, retryable, upset, restarts, crashes>>

(* Apply: the archive is there and verified ... *)
Download(u) ==
    /\ pc[u] = "download"
    /\ src' = [src EXCEPT ![u] = "download"]
    /\ Go(u, "stage")
    /\ UNCHANGED <<fileVars, state, proc, want, tries, opened, retryable, upset, boundVars>>

(* ... or not, which may pass (download) or not (checksum, signature,      *)
(* extraction): the backup is restored.                                    *)
DownloadFails(u) ==
    /\ pc[u] = "download"
    /\ Fault
    /\ retryable' \in {retryable, retryable \cup {u}}
    /\ src' = [src EXCEPT ![u] = "backup"]
    /\ Go(u, "stage")
    /\ UNCHANGED <<fileVars, state, proc, want, tries, opened, upset, restarts, crashes>>

-----------------------------------------------------------------------------
(* replaceFile, by an updater or by Rollback *)

(* Where a goroutine goes when its replaceFile has succeeded: an installed *)
(* download is acknowledged, a restored backup means the update failed.    *)
AfterReplace(a) ==
    IF a = Main THEN "clear" ELSE IF src[a] = "download" THEN "exit" ELSE "failed"

(* ... or failed: Apply's failure restores the backup, and after Rollback's *)
(* the state is cleared all the same.                                       *)
ReplaceFails(a, why) ==
    /\ \/ /\ a # Main /\ src[a] = "download"
          /\ Go(a, "stage")
          /\ src' = [src EXCEPT ![a] = "backup"]
       \/ /\ a = Main \/ src[a] = "backup"
          /\ Go(a, IF a = Main THEN "clear" ELSE "failed")
          /\ UNCHANGED src
    /\ upset' = upset \cup why \cup (IF a = Main THEN {"rollback"} ELSE {})

(* The file replaceFile copies. *)
Source(a) == IF a # Main /\ src[a] = "download" THEN want[a] ELSE prev

(* The copy to .new; it may fail, or the chmod, which removes .new. *)
StageBinary(a) ==
    /\ pc[a] = "stage"
    /\ \/ /\ Source(a) # Absent
          /\ staged' = Source(a)
          /\ Go(a, "moveAside")
          /\ UNCHANGED <<src, upset, faults>>
       \/ /\ FileFails(Source(a))
          /\ staged' \in IF Source(a) = Absent THEN {staged} ELSE {Partial, Absent}
          /\ ReplaceFails(a, {})
    /\ UNCHANGED <<bin, prev, aside, state, proc, want, tries, opened, retryable, restarts, crashes>>

(* The stale .old is removed and the binary renamed to .old. *)
MoveAside(a) ==
    /\ pc[a] = "moveAside"
    /\ \/ /\ bin # Absent
          /\ aside' = bin /\ bin' = Absent
          /\ Go(a, "moveIn")
          /\ UNCHANGED <<staged, src, upset, faults>>
       \/ /\ FileFails(bin)
          /\ aside' = Absent /\ staged' = Absent
          /\ ReplaceFails(a, {})
          /\ UNCHANGED bin
    /\ UNCHANGED <<prev, state, proc, want, tries, opened, retryable, restarts, crashes>>

(* The staged binary is renamed into place. *)
MoveIn(a) ==
    /\ pc[a] = "moveIn"
    /\ \/ /\ staged # Absent
          /\ bin' = staged /\ staged' = Absent
          /\ Go(a, "cleanup")
          /\ UNCHANGED faults
       \/ /\ FileFails(staged)
          /\ Go(a, "moveBack")
          /\ UNCHANGED <<bin, staged>>
    /\ UNCHANGED <<prev, aside, state, proc, want, tries, src, opened, retryable, upset, restarts, crashes>>

MoveBack_Forgotten(a) ==
    /\ pc[a] = "moveBack"
    /\ ReplaceFails(a, {})
    /\ UNCHANGED <<fileVars, state, proc, want, tries, opened, retryable, boundVars>>

(* That failed: .old is renamed back, or "rollback also failed". *)
MoveBack(a) ==
    /\ pc[a] = "moveBack"
    /\ \/ /\ aside # Absent
          /\ bin' = aside /\ aside' = Absent
          /\ ReplaceFails(a, {})
          /\ UNCHANGED faults
       \/ /\ FileFails(aside)
          /\ ReplaceFails(a, {"lost"})
          /\ UNCHANGED <<bin, aside>>
    /\ UNCHANGED <<prev, staged, state, proc, want, tries, opened, retryable, restarts, crashes>>

RemoveAside(a) ==
    /\ pc[a] = "cleanup"
    /\ aside' = Absent
    /\ Go(a, AfterReplace(a))
    /\ UNCHANGED <<bin, prev, staged, state, proc, want, tries, src, opened, retryable, upset, boundVars>>

-----------------------------------------------------------------------------
(* The attempt failed.  A failed download is retried after a pause ... *)
RetryUpdate(u) ==
    /\ pc[u] = "failed"
    /\ u \in retryable /\ tries[u] < MaxDownloads
    /\ tries' = [tries EXCEPT ![u] = @ + 1]
    /\ retryable' = retryable \ {u}
    /\ Go(u, "backup")
    /\ UNCHANGED <<fileVars, state, proc, want, src, opened, upset, boundVars>>

(* ... and any other failure, or the last, ends the update. *)
UpdateFailed(u) ==
    /\ pc[u] = "failed"
    /\ u \notin retryable \/ tries[u] = MaxDownloads
    /\ ClearState
    /\ upset' = IF state' = NoState THEN upset ELSE upset \cup LeftBehind
    /\ want' = [want EXCEPT ![u] = 1] /\ tries' = [tries EXCEPT ![u] = 0]
    /\ src' = [src EXCEPT ![u] = "backup"] /\ retryable' = retryable \ {u}
    /\ Go(u, "idle")
    /\ UNCHANGED <<fileVars, proc, opened, restarts, crashes>>

(* The update is acknowledged and, half a second later, os.Exit(0). *)
ExitAfterUpdate(u) ==
    /\ pc[u] = "exit"
    /\ ProcessEnds
    /\ UNCHANGED <<fileVars, state, upset, boundVars>>

-----------------------------------------------------------------------------
(* The process ends by itself *)

Replacing == \E a \in Actors : pc[a] \in {"stage", "moveAside", "moveIn", "moveBack", "cleanup"}
Updating == Replacing \/ \E u \in Updaters : pc[u] # "idle"

(* A reboot, an operator's restart, a crash in something else. *)
Restart ==
    /\ proc # Down /\ ~Updating
    /\ restarts < MaxRestarts
    /\ restarts' = restarts + 1
    /\ ProcessEnds
    /\ UNCHANGED <<fileVars, state, upset, faults, crashes>>

(* A bad version exits once checkPendingUpdate has returned. *)
BadVersionExits ==
    /\ BadExit
    /\ pc[Main] = "serve" /\ proc \in Bad
    /\ ProcessEnds
    /\ UNCHANGED <<fileVars, state, upset, boundVars>>

Crash ==
    /\ Updating
    /\ crashes < MaxCrashes
    /\ crashes' = crashes + 1
    /\ ProcessEnds
    /\ upset' = upset \cup LeftBehind
    /\ UNCHANGED <<fileVars, state, faults, restarts>>

-----------------------------------------------------------------------------
ReplaceStep(a) ==
    StageBinary(a) \/ MoveAside(a) \/ MoveIn(a) \/ MoveBack(a) \/ RemoveAside(a)

UpdaterStep(u) ==
    \/ BackupBegin(u) \/ BackupEnd(u) \/ Download(u) \/ DownloadFails(u)
    \/ ReplaceStep(u)
    \/ RetryUpdate(u) \/ UpdateFailed(u) \/ ExitAfterUpdate(u)

MainStep ==
    \/ CheckPendingUpdate \/ VerifyConnectivity \/ CleanupBackup
    \/ ReplaceStep(Main) \/ ExitAfterRollback

Next ==
    \/ Boot \/ MainStep
    \/ \E u \in Updaters : UpdaterStep(u) \/ \E v \in Versions : HandleUpdate(u, v)
    \/ Restart \/ BadVersionExits \/ Crash

Spec == Init /\ [][Next]_vars

(***************************************************************************)
(* Fairness.  systemd starts the agent, started goroutines run, and a      *)
(* version that crashes does crash.  Nothing forces a restart of a process *)
(* that keeps running.                                                     *)
(***************************************************************************)
Fairness ==
    /\ WF_vars(Boot) /\ WF_vars(MainStep) /\ WF_vars(BadVersionExits)
    /\ \A u \in Updaters : WF_vars(UpdaterStep(u))

FairSpec == Spec /\ Fairness

-----------------------------------------------------------------------------
(* Properties *)

(* Whenever systemd has to start the agent there is a whole binary to      *)
(* start: whatever one operation fails in an update or a rollback, a write *)
(* or removal of the state file among them, and at most points of a crash. *)
(* Excused are two updates at once, a crash with a file half written or    *)
(* moved aside, and a rename whose undoing fails too.                      *)
Bootable == proc = Down /\ upset \cap {"overlap", "cut", "lost"} = {} => bin \in Versions

(* When the start-up check has rolled an update back, the version that the *)
(* update replaced is in place: the backup survived failed downloads, an   *)
(* update on top of an unconfirmed one, and the restarts and the crash in  *)
(* between.  Also excused are a rollback that fails itself and an update   *)
(* whose record was not written.                                           *)
RollbackRestores ==
    pc[Main] = "clear" /\ prev # Absent /\ upset = {} => bin = state.from

(* A version that crashes without reaching the control plane is rolled     *)
(* back by the start-up check, which counts its starts in the state file,  *)
(* although saving a count may fail.  Excused is what RollbackRestores     *)
(* excuses.                                                                *)
BadVersionRolledBack == proc \in Bad ~> proc \in Versions \ Bad \/ upset # {}
=============================================================================
