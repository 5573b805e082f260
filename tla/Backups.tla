------------------------------- MODULE Backups -------------------------------
(***************************************************************************)
(* Backups: HandleBackup (internal/agent/handler.go) and the Executor with *)
(* its shared helperImageCoordinator (internal/backup/executor.go).  All   *)
(* work on the backup volume is done by helper containers.  Commands of    *)
(* one service run concurrently, a goroutine each.                         *)
(*                                                                         *)
(* A command is a list of tasks; a task is one helper container, run as    *)
(* ensure - RunContainer - WaitContainer - StopAndRemove.  Between the     *)
(* wait for a dump or an archive and the deferred removal of its helper    *)
(* another helper is run that asks for the size.                           *)
(*                                                                         *)
(* External: Docker.  RunContainer gives every container the restart       *)
(* policy unless-stopped, so a helper whose command has ended is started   *)
(* again after a short pause, until it is removed.  A wait ends with the   *)
(* next exit; a helper that exits before the wait begins runs again first. *)
(*                                                                         *)
(* Abstractions.  A backup is known by its id, and ids are compared as     *)
(* sort.Strings compares directory names.  A file is missing, partial or   *)
(* whole.  Of a size query's helper, which changes nothing and whose       *)
(* failures are ignored, only the time it takes is kept.  The removal of a *)
(* helper always succeeds.                                                 *)
(***************************************************************************)
EXTENDS Naturals, Sequences, FiniteSets, Functions

CONSTANTS
    Ids,         \* backup ids of one service
    Workers,     \* goroutines running HandleBackup
    Kinds,       \* what is backed up: {"dump"} database, {"vol"} volume, both, or nothing
    Retention,   \* retention_count of the commands; 0: no pruning
    Deletes,     \* a worker may also be given a delete_only command
    MaxReruns,   \* bound: helpers Docker starts again
    MaxFaults    \* bound: calls or commands that fail

ASSUME BackupConstants ==
    /\ Ids \subseteq Nat /\ Ids # {}
    /\ Kinds \subseteq SUBSET {"dump", "vol"}
    /\ Retention \in Nat /\ Deletes \in BOOLEAN
    /\ MaxReruns \in Nat /\ MaxFaults \in Nat

VARIABLES
    dir,       \* what the backup volume holds of each backup
    image,     \* the helper image is on the host
    lock,      \* the coordinator's one token is in its channel
    pc, job,   \* where each worker is, and its local variables
    helper,    \* each worker's helper container
    result,    \* what each backup command was answered
    asked,     \* history: the parts each backup was asked for
    removed,   \* history: backups a prune or a delete command removed
    pruned,    \* history: those removed by a prune
    made,      \* history: backups that ever had a directory
    again,     \* history: the tasks, with their backup, whose helper was started again
    written,   \* history: parts that were whole when the wait for their helper ended
    reruns, faults

volumeVars == <<dir, removed, pruned, made>>
historyVars == <<result, asked, again, written>>
boundVars == <<reruns, faults>>
vars == <<volumeVars, image, lock, pc, job, helper, historyVars, boundVars>>

Quality == {"missing", "partial", "whole"}
NoDir == [exists |-> FALSE, dump |-> "missing", vol |-> "missing", meta |-> "missing"]

(* Tasks.  "exec" is the trial dump inside the service's container. *)
Task == [do : {"exec", "write", "dump", "vol", "meta", "list", "rm", "delete"}, id : Ids]

(* The local variables of a command for backup b. *)
Job == [id : Ids, todo : Seq(Task), listing : Seq(Ids), code : {0, 1}]

NewJob(b, todo) == [id |-> b, todo |-> todo, listing |-> <<>>, code |-> 0]
NoJob(b) == NewJob(b, <<>>)
NoHelper == "none"

TypeOK ==
    /\ dir \in [Ids -> [exists : BOOLEAN, dump : Quality, vol : Quality, meta : Quality]]
    /\ image \in BOOLEAN /\ lock \in BOOLEAN
    /\ pc \in [Workers -> {"idle", "exec", "ensure", "pull", "start", "started", "wait",
                           "exited", "sizing", "done"}]
    /\ job \in [Workers -> Job]
    /\ helper \in [Workers -> {NoHelper, "running", "restarting"}]
    /\ \A w \in Workers : helper[w] # NoHelper => pc[w] \in {"started", "wait", "exited", "sizing"}
    /\ result \in [Ids -> {"none", "ok", "failed"}]
    /\ asked \in [Ids -> SUBSET {"dump", "vol"}]
    /\ pruned \subseteq removed /\ removed \subseteq made /\ made \subseteq Ids
    /\ again \in SUBSET {<<t.do, t.id>> : t \in Task}
    /\ written \in SUBSET ({"dump", "vol"} \X Ids)
    /\ reruns \in 0 .. MaxReruns /\ faults \in 0 .. MaxFaults

Init ==
    /\ dir = [b \in Ids |-> NoDir]
    /\ image = FALSE /\ lock = TRUE
    /\ pc = [w \in Workers |-> "idle"]
    /\ job = [w \in Workers |-> NoJob(CHOOSE b \in Ids : TRUE)]
    /\ helper = [w \in Workers |-> NoHelper]
    /\ result = [b \in Ids |-> "none"] /\ asked = [b \in Ids |-> {}]
    /\ removed = {} /\ pruned = {} /\ made = {} /\ again = {} /\ written = {}
    /\ reruns = 0 /\ faults = 0

-----------------------------------------------------------------------------
(* Commands *)

Go(w, to) == pc' = [pc EXCEPT ![w] = to]

Fault == faults < MaxFaults /\ faults' = faults + 1

Current(w) == Head(job[w].todo)

(* An error of these ends the command; Execute ignores the others'. *)
Fatal == {"exec", "write", "dump", "vol", "delete"}

(* Where a command's next task begins.  runAlpineHelper ensures the helper *)
(* image first; the dump helper runs the database's own image.             *)
Entry(todo) ==
    CASE todo = <<>> -> "done"
      [] todo # <<>> /\ Head(todo).do \in {"exec"} -> "exec"
      [] todo # <<>> /\ Head(todo).do \in {"dump"} -> "start"
      [] OTHER -> "ensure"

(* databaseBackup, volumeBackup, writeMetadata and enforceRetention. *)
Plan(b, parts) ==
    LET T(do) == [do |-> do, id |-> b] IN
    (IF "dump" \in parts THEN <<T("exec"), T("write"), T("dump")>> ELSE <<>>)
    \o (IF "vol" \in parts THEN <<T("vol")>> ELSE <<>>)
    \o <<T("meta")>>
    \o (IF Retention > 0 THEN <<T("list")>> ELSE <<>>)

(* A command for a new backup: database, volume, both, or volumes of a     *)
(* service that has none.                                                  *)
ReceiveBackup(w, b, parts) ==
    /\ pc[w] = "idle"
    /\ result[b] = "none" /\ b \notin made
    /\ \A v \in Workers : pc[v] # "idle" => job[v].id # b
    /\ job' = [job EXCEPT ![w] = NewJob(b, Plan(b, parts))]
    /\ asked' = [asked EXCEPT ![b] = parts]
    /\ Go(w, Entry(Plan(b, parts)))
    /\ UNCHANGED <<volumeVars, image, lock, helper, result, again, written, boundVars>>

(* delete_only, of a backup that has been answered. *)
ReceiveDelete(w, b) ==
    /\ pc[w] = "idle" /\ Deletes
    /\ result[b] # "none" /\ b \notin removed
    /\ job' = [job EXCEPT ![w] = NewJob(b, <<[do |-> "delete", id |-> b]>>)]
    /\ Go(w, "ensure")
    /\ UNCHANGED <<volumeVars, image, lock, helper, historyVars, boundVars>>

(* The result is sent, or queued when the stream is down.  That of a later *)
(* delete command is not recorded here.                                    *)
Answer(w, outcome) ==
    /\ result' = [result EXCEPT ![job[w].id] = IF @ = "none" THEN outcome ELSE @]
    /\ Go(w, "idle")
    /\ job' = [job EXCEPT ![w] = NoJob(job[w].id)]

(* The current task is over, well or badly; more holds the tasks it found. *)
TaskEnds(w, ok, more) ==
    LET todo == Tail(job[w].todo) \o more IN
    IF ~ok /\ Current(w).do \in Fatal
    THEN Answer(w, "failed")
    ELSE /\ job' = [job EXCEPT ![w] = NewJob(job[w].id, todo)]
         /\ Go(w, Entry(todo))
         /\ UNCHANGED result

(* The trial dump in the service's container; there may be none. *)
ExecDump(w) ==
    /\ pc[w] = "exec"
    /\ \/ TaskEnds(w, TRUE, <<>>) /\ UNCHANGED faults
       \/ Fault /\ TaskEnds(w, FALSE, <<>>)
    /\ UNCHANGED <<volumeVars, image, lock, helper, asked, again, written, reruns>>

Succeed(w) ==
    /\ pc[w] = "done"
    /\ Answer(w, "ok")
    /\ UNCHANGED <<volumeVars, image, lock, helper, asked, again, written, boundVars>>

-----------------------------------------------------------------------------
(* helperImageCoordinator.ensure *)

EnsureImage_Unlocked(w) ==
    /\ pc[w] = "ensure"
    /\ \/ /\ image
          /\ Go(w, "start")
          /\ UNCHANGED <<lock, job, result, faults>>
       \/ /\ ~image
          /\ lock' = lock /\ Go(w, "pull")
          /\ UNCHANGED <<job, result, faults>>
       \/ Fault /\ TaskEnds(w, FALSE, <<>>) /\ UNCHANGED lock
    /\ UNCHANGED <<volumeVars, image, helper, asked, again, written, reruns>>

EnsureImage_KeepsLock(w) ==
    /\ pc[w] = "ensure" /\ lock
    /\ \/ /\ image
          /\ Go(w, "start")
          /\ UNCHANGED <<lock, job, result, faults>>
       \/ /\ ~image
          /\ lock' = FALSE /\ Go(w, "pull")
          /\ UNCHANGED <<job, result, faults>>
       \/ Fault /\ TaskEnds(w, FALSE, <<>>) /\ lock' = FALSE
    /\ UNCHANGED <<volumeVars, image, helper, asked, again, written, reruns>>

(* The token is taken and the image looked for.  It is there, and the token *)
(* goes back; or it is not; or the call fails, and the token goes back.     *)
EnsureImage(w) ==
    /\ pc[w] = "ensure" /\ lock
    /\ \/ /\ image
          /\ Go(w, "start")
          /\ UNCHANGED <<lock, job, result, faults>>
       \/ /\ ~image
          /\ lock' = FALSE /\ Go(w, "pull")
          /\ UNCHANGED <<job, result, faults>>
       \/ Fault /\ TaskEnds(w, FALSE, <<>>) /\ UNCHANGED lock
    /\ UNCHANGED <<volumeVars, image, helper, asked, again, written, reruns>>

(* The context ends while another command has the token. *)
LockTimesOut(w) ==
    /\ pc[w] = "ensure" /\ ~lock
    /\ Fault
    /\ TaskEnds(w, FALSE, <<>>)
    /\ UNCHANGED <<volumeVars, image, lock, helper, asked, again, written, reruns>>

PullImage(w) ==
    /\ pc[w] = "pull"
    /\ lock' = TRUE
    /\ \/ image' = TRUE /\ Go(w, "start") /\ UNCHANGED <<job, result, faults>>
       \/ Fault /\ TaskEnds(w, FALSE, <<>>) /\ UNCHANGED image
    /\ UNCHANGED <<volumeVars, helper, asked, again, written, reruns>>

-----------------------------------------------------------------------------
(* Helper containers *)

(* What a helper's shell command has done when it has just begun: the dump *)
(* of the database, the archives of the volumes, metadata.json, ...        *)
DumpBegun(d) == [d EXCEPT !.exists = TRUE, !.dump = "partial"]
ArchiveBegun(d) == [d EXCEPT !.exists = TRUE, !.vol = "partial"]
MetadataBegun(d) == IF d.exists THEN [d EXCEPT !.meta = "partial"] ELSE d

Begun(t, d) ==
    CASE t.do = "dump" -> DumpBegun(d)
      [] t.do = "vol"  -> ArchiveBegun(d)
      [] t.do = "meta" -> MetadataBegun(d)
      [] OTHER -> d

Filled(q) == IF q = "partial" THEN "whole" ELSE q

(* ... and when it has ended well.  A file that was removed meanwhile is   *)
(* written all the same, to nowhere.                                       *)
Ended(t, d) ==
    CASE t.do = "write" -> [d EXCEPT !.exists = TRUE, !.dump = "partial"]
      [] t.do = "dump"  -> [d EXCEPT !.dump = Filled(@)]
      [] t.do = "vol"   -> [d EXCEPT !.vol = Filled(@)]
      [] t.do = "meta"  -> [d EXCEPT !.meta = Filled(@)]
      [] t.do \in {"rm", "delete"} -> NoDir
      [] OTHER -> d

ShellDoes(Does(_, _), t) ==
    LET d == Does(t, dir[t.id]) IN
    /\ dir' = [dir EXCEPT ![t.id] = d]
    /\ made' = IF d.exists THEN made \cup {t.id} ELSE made
    /\ removed' = IF dir[t.id].exists /\ ~d.exists THEN removed \cup {t.id} ELSE removed
    /\ pruned' = IF dir[t.id].exists /\ ~d.exists /\ t.do = "rm"
                 THEN pruned \cup {t.id} ELSE pruned

(* What `ls -1' prints: one line for each directory, in their order.  (The *)
(* set has one member.)                                                    *)
Listings ==
    LET D == {b \in Ids : dir[b].exists} IN
    {l \in [1 .. Cardinality(D) -> D] : \A i, j \in DOMAIN l : i < j => l[i] < l[j]}

(* RunContainer *)
StartHelper(w) ==
    /\ pc[w] = "start"
    /\ \/ /\ helper' = [helper EXCEPT ![w] = "running"]
          /\ ShellDoes(Begun, Current(w))
          /\ Go(w, "started")
          /\ UNCHANGED <<job, result, faults>>
       \/ /\ Fault
          /\ TaskEnds(w, FALSE, <<>>)
          /\ UNCHANGED <<volumeVars, helper>>
    /\ UNCHANGED <<image, lock, asked, again, written, reruns>>

(* WaitContainer; databaseBackup removes the writer at once instead. *)
WaitContainer(w) ==
    /\ pc[w] = "started" /\ Current(w).do # "write"
    /\ Go(w, "wait")
    /\ UNCHANGED <<volumeVars, image, lock, job, helper, historyVars, boundVars>>

RemoveWriter(w) ==
    /\ pc[w] = "started" /\ Current(w).do = "write"
    /\ helper' = [helper EXCEPT ![w] = NoHelper]
    /\ TaskEnds(w, TRUE, <<>>)
    /\ UNCHANGED <<volumeVars, image, lock, asked, again, written, boundVars>>

(* The part that task t has just written, if it is whole. *)
WholeParts(t, d) == {<<p, t.id>> : p \in {q \in {"dump", "vol"} : t.do = q /\ d[q] = "whole"}}

(* External: the helper's command ends.  Docker will start it again; a     *)
(* wait under way gets the exit code.                                      *)
HelperExits(w) ==
    /\ helper[w] = "running"
    /\ helper' = [helper EXCEPT ![w] = "restarting"]
    /\ \E ok \in BOOLEAN, l \in Listings :
        /\ \/ ok /\ ShellDoes(Ended, Current(w)) /\ UNCHANGED faults
           \/ ~ok /\ Current(w).do # "list" /\ Fault /\ UNCHANGED volumeVars
        /\ job' = [job EXCEPT
                     ![w].code = IF pc[w] = "wait" THEN (IF ok THEN 0 ELSE 1) ELSE @,
                     ![w].listing = IF Current(w).do = "list" THEN @ \o l ELSE @]
        /\ written' = IF pc[w] = "wait" /\ ok
                      THEN written \cup WholeParts(Current(w), dir'[Current(w).id]) ELSE written
    /\ \/ pc[w] = "wait" /\ Go(w, "exited") /\ UNCHANGED reruns
       \/ pc[w] \in {"exited", "sizing"} /\ UNCHANGED <<pc, reruns>>
       \/ /\ pc[w] = "started"
          /\ IF Current(w).do = "write" THEN UNCHANGED reruns
             ELSE reruns < MaxReruns /\ reruns' = reruns + 1
          /\ UNCHANGED pc
    /\ UNCHANGED <<image, lock, result, asked, again>>

(* External: Docker starts it again, unless it has been removed. *)
HelperRestarts(w) ==
    /\ helper[w] = "restarting" /\ Current(w).do # "write"
    /\ IF pc[w] \in {"exited", "sizing"} THEN reruns < MaxReruns /\ reruns' = reruns + 1
       ELSE UNCHANGED reruns
    /\ helper' = [helper EXCEPT ![w] = "running"]
    /\ ShellDoes(Begun, Current(w))
    /\ again' = again \cup {<<Current(w).do, Current(w).id>>}
    /\ UNCHANGED <<image, lock, pc, job, result, asked, written, faults>>

WaitFails_LeavesHelper(w) ==
    /\ pc[w] = "wait" /\ Fault
    /\ TaskEnds(w, FALSE, <<>>)
    /\ UNCHANGED <<volumeVars, image, lock, helper, asked, again, written, reruns>>

(* The helper is removed all the same; execInHelper reads its output first. *)
WaitFails(w) ==
    /\ pc[w] = "wait" /\ Fault
    /\ IF Current(w).do = "list"
       THEN Go(w, "exited") /\ UNCHANGED <<job, helper, result>>
       ELSE /\ helper' = [helper EXCEPT ![w] = NoHelper]
            /\ TaskEnds(w, FALSE, <<>>)
    /\ UNCHANGED <<volumeVars, image, lock, asked, again, written, reruns>>

-----------------------------------------------------------------------------
(* enforceRetention reads the helper's log once, and may get the first k   *)
(* lines of it only.  Each line comes with a frame header and a timestamp, *)
(* which strings.Fields makes a name of its own that sorts before the      *)
(* directory names: of 2k names, k are none.                               *)
Prunable_OffByOne(k, names) == IF k > Retention THEN SubSeq(names, 1, k - Retention + 1) ELSE <<>>

Prunable(k, names) == IF k > Retention THEN SubSeq(names, 1, k - Retention) ELSE <<>>

(* sort.Strings of the first k lines.  (One member again.) *)
Sorted(lines, k) ==
    {names \in {[i \in 1 .. k |-> lines[f[i]]] : f \in Bijection(1 .. k, 1 .. k)} :
        \A i, j \in 1 .. k : i < j => names[i] <= names[j]}

Prune(k, names) ==
    LET doomed == Prunable(k, names) IN
    [i \in 1 .. Len(doomed) |-> [do |-> "rm", id |-> doomed[i]]]

(* A part has been written: its size is asked for, which needs the helper  *)
(* image and so the token.                                                 *)
Measured(w) == Current(w).do \in {"dump", "vol"} /\ job[w].code = 0

QuerySize(w) ==
    /\ pc[w] = "exited" /\ Measured(w) /\ lock
    /\ Go(w, "sizing")
    /\ UNCHANGED <<volumeVars, image, lock, job, helper, historyVars, boundVars>>

EndTask_IgnoresCode(w) ==
    /\ pc[w] \in {"exited", "sizing"}
    /\ helper' = [helper EXCEPT ![w] = NoHelper]
    /\ \/ /\ Current(w).do = "list"
          /\ \E k \in 0 .. Len(job[w].listing) :
               \E names \in Sorted(job[w].listing, k) : TaskEnds(w, TRUE, Prune(k, names))
       \/ /\ Current(w).do # "list"
          /\ TaskEnds(w, TRUE, <<>>)
    /\ UNCHANGED <<volumeVars, image, lock, asked, again, written, boundVars>>

(* The exit code, or the output, is used and the helper removed, after the *)
(* size query if there is one.                                             *)
EndTask(w) ==
    /\ pc[w] = "sizing" \/ (pc[w] = "exited" /\ ~Measured(w))
    /\ helper' = [helper EXCEPT ![w] = NoHelper]
    /\ \/ /\ Current(w).do = "list"
          /\ \E k \in 0 .. Len(job[w].listing) :
               \E names \in Sorted(job[w].listing, k) : TaskEnds(w, TRUE, Prune(k, names))
       \/ /\ Current(w).do # "list"
          /\ TaskEnds(w, job[w].code = 0, <<>>)
    /\ UNCHANGED <<volumeVars, image, lock, asked, again, written, boundVars>>

(* The size query's helper does not start: "size unknown but backup        *)
(* succeeded".                                                             *)
SizeUnknown(w) ==
    /\ pc[w] = "exited" /\ Measured(w) /\ Fault
    /\ helper' = [helper EXCEPT ![w] = NoHelper]
    /\ TaskEnds(w, TRUE, <<>>)
    /\ UNCHANGED <<volumeVars, image, lock, asked, again, written, reruns>>

-----------------------------------------------------------------------------
WorkerStep(w) ==
    \/ ExecDump(w) \/ Succeed(w)
    \/ EnsureImage(w) \/ LockTimesOut(w) \/ PullImage(w)
    \/ StartHelper(w) \/ WaitContainer(w) \/ RemoveWriter(w) \/ WaitFails(w)
    \/ QuerySize(w) \/ SizeUnknown(w) \/ EndTask(w)

HelperStep(w) == HelperExits(w) \/ HelperRestarts(w)

Next ==
    \E w \in Workers :
        \/ WorkerStep(w) \/ HelperStep(w)
        \/ \E b \in Ids : ReceiveDelete(w, b)
                          \/ \E parts \in Kinds : ReceiveBackup(w, b, parts)

Spec == Init /\ [][Next]_vars

(***************************************************************************)
(* Fairness.  Goroutines run and get the token in turn (the runtime queues *)
(* the receivers of a channel), helpers end, and Docker starts them again. *)
(***************************************************************************)
Fairness ==
    \A w \in Workers :
        /\ WF_vars(WorkerStep(w)) /\ SF_vars(EnsureImage(w))
        /\ WF_vars(HelperStep(w))

FairSpec == Spec /\ Fairness

-----------------------------------------------------------------------------
(* Properties *)

(* A backup answered as successful was written: each part of it was whole  *)
(* when the wait for the helper that wrote it ended, or the backup was     *)
(* removed.  No failed dump, archive, pull or wait is taken for a success, *)
(* and no other command's helper or prune spoils a part unnoticed.         *)
SuccessWasWritten ==
    \A b \in Ids : result[b] = "ok" /\ b \notin removed => asked[b] \X {b} \subseteq written

(* "Size unknown but backup succeeded": a backup answered as successful is *)
(* in the volume, every part of it whole, until a prune or a delete        *)
(* command removes it.  It need not be: Docker starts the dump helper      *)
(* again while the size is asked for, which truncates the file, and        *)
(* StopAndRemove ends it there.                                            *)
SuccessIsStored ==
    \A b \in Ids : result[b] = "ok" /\ b \notin removed => \A p \in asked[b] : dir[b][p] = "whole"

(* enforceRetention removes a backup only if retention_count backups with  *)
(* later names have been made, also when several commands list and remove  *)
(* at the same time, each from a list that is no longer true.  (If no list *)
(* was printed twice.)                                                     *)
RetentionKeeps ==
    (\A b \in Ids : <<"list", b>> \notin again) =>
        \A b \in pruned : Cardinality({c \in made : c > b}) >= Retention

(* The helper image is pulled by one command at a time, and never when it  *)
(* is on the host: what TestConcurrentVolumeBackupsPullHelperImageOnce     *)
(* tests for one schedule.                                                 *)
PulledOnce ==
    /\ \A v, w \in Workers : pc[v] = "pull" /\ pc[w] = "pull" => v = w
    /\ \A w \in Workers : pc[w] = "pull" => ~image

(* Every command is answered: the token always comes back. *)
BackupAnswered == \A w \in Workers : pc[w] # "idle" ~> pc[w] = "idle"
=============================================================================
