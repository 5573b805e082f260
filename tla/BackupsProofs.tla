---------------------------- MODULE BackupsProofs ----------------------------
(***************************************************************************)
(* Theorems about Backups: type correctness; the helper image is pulled by *)
(* one command at a time; retention removes no backup that is not outlived *)
(* by enough later ones; and a success stands for a backup that was        *)
(* written.                                                                *)
(*                                                                         *)
(* The last two speak of what a prune removed and of what was answered.    *)
(* Their invariants say the same of what a command still has in hand: the  *)
(* lines it has read, the directories it will remove, the parts it has yet *)
(* to write.                                                               *)
(***************************************************************************)
EXTENDS Backups, FiniteSetTheorems, SequenceTheorems, TLAPS

-----------------------------------------------------------------------------
(* The inductive invariants *)

(* A worker has tasks as long as it is at one of them; a directory that is *)
(* there was made, as only finitely many were, and one that is not holds   *)
(* nothing.                                                                *)
JobInv ==
    /\ \A w \in Workers : pc[w] \in {"idle", "done"} <=> job[w].todo = <<>>
    /\ \A w \in Workers : pc[w] = "exec" => Current(w).do = "exec"
    /\ \A b \in Ids : (dir[b].exists => b \in made) /\ (~dir[b].exists => dir[b] = NoDir)
    /\ IsFiniteSet(made)

TypeInv == TypeOK /\ JobInv

(* Who pulls has the token. *)
PullInv ==
    /\ PulledOnce
    /\ \A w \in Workers : pc[w] = "pull" => ~lock

ListedOnce == \A b \in Ids : <<"list", b>> \notin again

Outlived(b) == Cardinality({c \in made : c > b}) >= Retention

(* A list has been read once, in order, and what a prune will remove is as *)
(* safe to remove as what it has removed.                                  *)
ListInv(w) ==
    /\ \A i, j \in 1 .. Len(job[w].listing) : i < j => job[w].listing[i] < job[w].listing[j]
    /\ \A i \in 1 .. Len(job[w].listing) : job[w].listing[i] \in made
    /\ helper[w] = "running" => job[w].listing = <<>>
    /\ job[w].listing # <<>> => pc[w] \in {"started", "wait", "exited", "sizing"} /\ Current(w).do = "list"

RetainInv ==
    ListedOnce =>
        /\ \A b \in pruned : Outlived(b)
        /\ \A w \in Workers :
            /\ ListInv(w)
            /\ \A i \in 1 .. Len(job[w].todo) :
                 job[w].todo[i].do = "rm" => Outlived(job[w].todo[i].id)

(* A backup is under way, and its command not answered. *)
Writing(w) == pc[w] # "idle" /\ result[job[w].id] = "none"

Parts == {"dump", "vol"}

(* A part of a backup was whole when the wait for its helper ended, or the *)
(* backup was removed.                                                     *)
Kept(b, p) == b \in removed \/ <<p, b>> \in written

Found(b, p) == b \in removed \/ dir[b][p] # "missing"

Pending(w, p) == \E i \in 1 .. Len(job[w].todo) : job[w].todo[i].do = p

(* A command dumps and archives into its own backup. *)
OwnInv(w) ==
    \A i \in 1 .. Len(job[w].todo) : job[w].todo[i].do \in Parts => job[w].todo[i].id = job[w].id

(* Each part of a backup under way was written or has yet to be. *)
DueInv(w) == Writing(w) => \A p \in asked[job[w].id] : Kept(job[w].id, p) \/ Pending(w, p)

(* A helper at work has a file to fill, and one that did its work, as the  *)
(* command has seen, filled it.                                            *)
FillInv(w) ==
    \A p \in Parts :
        /\ helper[w] = "running" /\ Current(w).do = p => Found(job[w].id, p)
        /\ pc[w] \in {"exited", "sizing"} /\ Current(w).do = p /\ job[w].code = 0 => Kept(job[w].id, p)

StoreInv ==
    /\ \A w \in Workers : OwnInv(w) /\ DueInv(w) /\ FillInv(w)
    /\ \A b \in Ids : result[b] = "ok" => \A p \in asked[b] : Kept(b, p)

-----------------------------------------------------------------------------
(* Types *)

PC == {"idle", "exec", "ensure", "pull", "start", "started", "wait", "exited", "sizing", "done"}
Dirs == [exists : BOOLEAN, dump : Quality, vol : Quality, meta : Quality]

(* A command moves: the worker's place and its local variables. *)
Turn(w, to, j) == pc' = [pc EXCEPT ![w] = to] /\ job' = [job EXCEPT ![w] = j]

LEMMA TurnFacts ==
    ASSUME TypeInv, NEW w \in Workers, NEW to \in PC, NEW j \in Job, Turn(w, to, j)
    PROVE  /\ pc' \in [Workers -> PC] /\ pc'[w] = to /\ \A v \in Workers : v # w => pc'[v] = pc[v]
           /\ job' \in [Workers -> Job] /\ job'[w] = j /\ \A v \in Workers : v # w => job'[v] = job[v]
BY DEF TypeInv, TypeOK, Turn, PC

(* A command with a list of tasks. *)
LEMMA NewJobFacts ==
    ASSUME NEW b \in Ids, NEW todo \in Seq(Task)
    PROVE  /\ NewJob(b, todo) \in Job
           /\ NewJob(b, todo).id = b /\ NewJob(b, todo).todo = todo
           /\ NewJob(b, todo).listing = <<>> /\ NewJob(b, todo).code = 0
BY DEF NewJob, Job

(* Where a list of tasks begins. *)
LEMMA EntryFacts ==
    ASSUME NEW todo \in Seq(Task)
    PROVE  /\ Entry(todo) \in {"done", "exec", "start", "ensure"}
           /\ Entry(todo) = "done" <=> todo = <<>>
           /\ Entry(todo) = "exec" => todo # <<>> /\ Head(todo).do = "exec"
<1>1. CASE todo = <<>>
  BY <1>1 DEF Entry
<1>2. CASE todo # <<>> /\ Head(todo).do = "exec"
  BY <1>2 DEF Entry
<1>3. CASE todo # <<>> /\ Head(todo).do = "dump"
  BY <1>3 DEF Entry
<1>4. CASE todo # <<>> /\ Head(todo).do \notin {"exec", "dump"}
  BY <1>4 DEF Entry
<1> QED BY <1>1, <1>2, <1>3, <1>4

(* What a task's end does: the command fails, or goes on with the rest. *)
Rest(w, more) == Tail(job[w].todo) \o more

Fails(w) ==
    /\ Current(w).do \in Fatal
    /\ Turn(w, "idle", NoJob(job[w].id))
    /\ result' = [result EXCEPT ![job[w].id] = IF @ = "none" THEN "failed" ELSE @]

GoesOn(w, more) ==
    /\ Turn(w, Entry(Rest(w, more)), NewJob(job[w].id, Rest(w, more)))
    /\ result' = result

LEMMA TaskEndsFacts ==
    ASSUME NEW w, NEW ok \in BOOLEAN, NEW more, TaskEnds(w, ok, more)
    PROVE  Fails(w) \/ (GoesOn(w, more) /\ (ok \/ Current(w).do \notin Fatal))
BY DEF TaskEnds, Answer, Go, Fails, GoesOn, Rest, Turn

(* A worker that is at a task. *)
LEMMA BusyFacts ==
    ASSUME TypeInv, NEW w \in Workers, pc[w] \notin {"idle", "done"}
    PROVE  /\ job[w] \in Job /\ job[w].id \in Ids
           /\ job[w].todo \in Seq(Task) /\ job[w].todo # <<>> /\ Len(job[w].todo) > 0
           /\ Current(w) \in Task /\ Current(w) = job[w].todo[1]
           /\ Tail(job[w].todo) \in Seq(Task)
<1>1. job[w] \in Job /\ job[w].todo # <<>>
  BY DEF TypeInv, TypeOK, JobInv
<1>2. job[w].id \in Ids /\ job[w].todo \in Seq(Task)
  BY <1>1 DEF Job
<1> QED BY <1>1, <1>2 DEF Current

(* The tasks of a new command. *)
LEMMA PlanType ==
    ASSUME NEW b \in Ids, NEW parts
    PROVE  Plan(b, parts) \in Seq(Task) /\ Plan(b, parts) # <<>>
<1> DEFINE T(do) == [do |-> do, id |-> b]
           A == IF "dump" \in parts THEN <<T("exec"), T("write"), T("dump")>> ELSE <<>>
           B == IF "vol" \in parts THEN <<T("vol")>> ELSE <<>>
           C == <<T("meta")>>
           D == IF Retention > 0 THEN <<T("list")>> ELSE <<>>
<1>1. \A do \in {"exec", "write", "dump", "vol", "meta", "list"} : T(do) \in Task
  BY DEF Task
<1>2. A \in Seq(Task) /\ B \in Seq(Task) /\ C \in Seq(Task) /\ D \in Seq(Task) /\ Len(C) = 1
  BY <1>1
<1>3. Plan(b, parts) = A \o B \o C \o D
  BY DEF Plan
<1> HIDE DEF A, B, C, D
<1> QED BY <1>2, <1>3

-----------------------------------------------------------------------------
(* What helpers do to the volume *)

(* A directory that is not there holds nothing. *)
DirOK(d) == d \in Dirs /\ (~d.exists => d = NoDir)

LEMMA NoDirFacts == DirOK(NoDir) /\ ~NoDir.exists /\ NoDir.dump = "missing" /\ NoDir.vol = "missing"
BY DEF DirOK, NoDir, Dirs, Quality

(* A command that has just begun removes no directory. *)
LEMMA BegunFacts ==
    ASSUME NEW t \in Task, NEW d, DirOK(d)
    PROVE  DirOK(Begun(t, d)) /\ (d.exists => Begun(t, d).exists)
<1> USE DEF DirOK, Dirs, Quality
<1>1. CASE t.do = "dump"
  BY <1>1 DEF Begun, DumpBegun
<1>2. CASE t.do = "vol"
  BY <1>2 DEF Begun, ArchiveBegun
<1>3. CASE t.do = "meta"
  BY <1>3 DEF Begun, MetadataBegun
<1>4. CASE t.do \notin {"dump", "vol", "meta"}
  BY <1>4 DEF Begun
<1> QED BY <1>1, <1>2, <1>3, <1>4

(* One that has ended removes a directory only if it is to. *)
LEMMA EndedFacts ==
    ASSUME NEW t \in Task, NEW d, DirOK(d)
    PROVE  DirOK(Ended(t, d)) /\ (d.exists /\ t.do \notin {"rm", "delete"} => Ended(t, d).exists)
<1> USE DEF DirOK, Dirs, Quality
<1>0. Filled("missing") = "missing" /\ \A q \in Quality : Filled(q) \in Quality
  BY DEF Filled
<1>a. ~d.exists => d.dump = "missing" /\ d.vol = "missing" /\ d.meta = "missing"
  BY DEF NoDir
<1>1. CASE t.do = "write"
  BY <1>1 DEF Ended
<1>2. CASE t.do = "dump"
  BY <1>0, <1>a, <1>2 DEF Ended
<1>3. CASE t.do = "vol"
  BY <1>0, <1>a, <1>3 DEF Ended
<1>4. CASE t.do = "meta"
  BY <1>0, <1>a, <1>4 DEF Ended
<1>5. CASE t.do \in {"rm", "delete"}
  <2>1. Ended(t, d) = NoDir
    BY <1>5 DEF Ended
  <2> QED BY <1>5, <2>1, NoDirFacts
<1>6. CASE t.do \in {"exec", "list"}
  BY <1>6 DEF Ended
<1> QED BY <1>1, <1>2, <1>3, <1>4, <1>5, <1>6 DEF Task

(* A shell command leaves d where its task writes. *)
Shell(t, d) ==
    /\ dir' = [dir EXCEPT ![t.id] = d]
    /\ made' = IF d.exists THEN made \cup {t.id} ELSE made
    /\ removed' = IF dir[t.id].exists /\ ~d.exists THEN removed \cup {t.id} ELSE removed
    /\ pruned' = IF dir[t.id].exists /\ ~d.exists /\ t.do = "rm"
                 THEN pruned \cup {t.id} ELSE pruned

(* The volume and its history stay well-formed, and history only grows. *)
LEMMA ShellFacts ==
    ASSUME TypeInv, NEW t \in Task, NEW d, DirOK(d), Shell(t, d)
    PROVE  /\ dir' \in [Ids -> Dirs] /\ dir'[t.id] = d
           /\ \A b \in Ids : b # t.id => dir'[b] = dir[b]
           /\ \A b \in Ids : (dir'[b].exists => b \in made') /\ (~dir'[b].exists => dir'[b] = NoDir)
           /\ pruned' \subseteq removed' /\ removed' \subseteq made' /\ made' \subseteq Ids
           /\ IsFiniteSet(made')
           /\ made \subseteq made' /\ removed \subseteq removed'
           /\ made' \in {made, made \cup {t.id}}
           /\ dir[t.id].exists /\ ~d.exists => t.id \in removed'
           /\ \A b \in pruned' : b \in pruned \/ (t.do = "rm" /\ b = t.id)
<1>1. /\ dir \in [Ids -> Dirs] /\ t.id \in Ids /\ d \in Dirs /\ (~d.exists => d = NoDir)
      /\ pruned \subseteq removed /\ removed \subseteq made /\ made \subseteq Ids
  BY DEF TypeInv, TypeOK, Dirs, Task, DirOK
<1>2. \A b \in Ids : (dir[b].exists => b \in made) /\ (~dir[b].exists => dir[b] = NoDir)
  BY DEF TypeInv, JobInv
<1>3. /\ dir' \in [Ids -> Dirs] /\ dir'[t.id] = d
      /\ \A b \in Ids : b # t.id => dir'[b] = dir[b]
  BY <1>1 DEF Shell
<1>4. /\ made' \in {made, made \cup {t.id}} /\ (d.exists => t.id \in made')
      /\ removed' \in {removed, removed \cup {t.id}}
      /\ removed' # removed => dir[t.id].exists /\ ~d.exists
      /\ dir[t.id].exists /\ ~d.exists => t.id \in removed'
      /\ pruned' \in {pruned, pruned \cup {t.id}}
      /\ pruned' # pruned => dir[t.id].exists /\ ~d.exists /\ t.do = "rm"
  BY DEF Shell
<1>5. pruned' \subseteq removed' /\ removed' \subseteq made' /\ made' \subseteq Ids
  BY <1>1, <1>2, <1>4
<1>6. \A b \in Ids : (dir'[b].exists => b \in made') /\ (~dir'[b].exists => dir'[b] = NoDir)
  BY <1>1, <1>2, <1>3, <1>4
<1>7. IsFiniteSet(made')
  BY <1>4, FS_AddElement DEF TypeInv, JobInv
<1> QED BY <1>1, <1>3, <1>4, <1>5, <1>6, <1>7

-----------------------------------------------------------------------------
(* The names a prune removes *)

(* The sorted lines are lines, in order. *)
LEMMA SortedFacts ==
    ASSUME NEW lines \in Seq(Ids), NEW k \in 0 .. Len(lines), NEW names \in Sorted(lines, k)
    PROVE  /\ names \in Seq(Ids) /\ Len(names) = k
           /\ \E f \in Bijection(1 .. k, 1 .. k) : \A i \in 1 .. k : names[i] = lines[f[i]]
           /\ \A i, j \in 1 .. k : i < j => names[i] <= names[j]
<1>1. PICK f \in Bijection(1 .. k, 1 .. k) : names = [i \in 1 .. k |-> lines[f[i]]]
  BY DEF Sorted
<1>2. f \in [1 .. k -> 1 .. k] /\ k \in Nat
  BY <1>1 DEF Bijection, Injection
<1>3. \A i \in 1 .. k : lines[f[i]] \in Ids
  BY <1>2
<1>4. names \in [1 .. k -> Ids]
  BY <1>1, <1>3
<1>5. names \in Seq(Ids) /\ Len(names) = k
  BY <1>2, <1>4
<1>6. \A i, j \in 1 .. k : i < j => names[i] <= names[j]
  BY DEF Sorted
<1> QED BY <1>1, <1>5, <1>6

(* A prune removes the first of them, all but the last Retention. *)
LEMMA PruneFacts ==
    ASSUME NEW k \in Nat, NEW names \in Seq(Ids), Len(names) = k
    PROVE  /\ Prune(k, names) \in Seq(Task)
           /\ \A i \in 1 .. Len(Prune(k, names)) :
                /\ i + Retention <= k
                /\ Prune(k, names)[i] = [do |-> "rm", id |-> names[i]]
<1> DEFINE doomed == Prunable(k, names)
<1>0. Retention \in Nat
  BY BackupConstants
<1>1. /\ doomed \in Seq(Ids) /\ (Len(doomed) > 0 => Len(doomed) + Retention = k)
      /\ \A i \in 1 .. Len(doomed) : doomed[i] = names[i]
  <2>1. CASE k > Retention
    <3>1. doomed = SubSeq(names, 1, k - Retention)
      BY <2>1 DEF Prunable
    <3> QED BY <1>0, <2>1, <3>1
  <2>2. CASE ~(k > Retention)
    <3>1. doomed = <<>>
      BY <2>2 DEF Prunable
    <3> QED BY <3>1
  <2> QED BY <2>1, <2>2
<1>2. Prune(k, names) = [i \in 1 .. Len(doomed) |-> [do |-> "rm", id |-> doomed[i]]]
  BY DEF Prune
<1> HIDE DEF doomed
<1>3. Len(doomed) \in Nat /\ \A i \in 1 .. Len(doomed) : doomed[i] \in Ids
  BY <1>1
<1>4. \A i \in 1 .. Len(doomed) : [do |-> "rm", id |-> doomed[i]] \in Task
  BY <1>3 DEF Task
<1>5. Prune(k, names) \in [1 .. Len(doomed) -> Task]
  BY <1>2, <1>4
<1>6. Prune(k, names) \in Seq(Task) /\ Len(Prune(k, names)) = Len(doomed)
  BY <1>3, <1>5
<1>7. \A i \in 1 .. Len(doomed) : i + Retention <= k /\ Prune(k, names)[i] = [do |-> "rm", id |-> names[i]]
  BY <1>0, <1>1, <1>2, <1>3
<1> QED BY <1>6, <1>7

-----------------------------------------------------------------------------
(* The moves: what the actions do to a command, its helper and the volume *)

Lists(w, more) ==
    /\ pc[w] \in {"exited", "sizing"} /\ Current(w).do = "list"
    /\ \E k \in 0 .. Len(job[w].listing) :
         \E names \in Sorted(job[w].listing, k) : more = Prune(k, names)

(* A task ends.  A dump or an archive that ends well has exited so. *)
Ends(w, more) ==
    /\ pc[w] \notin {"idle", "done"}
    /\ helper' = [helper EXCEPT ![w] = NoHelper]
    /\ UNCHANGED <<dir, made, removed, pruned, asked, again, written>>
    /\ \/ Fails(w)
       \/ /\ GoesOn(w, more)
          /\ Current(w).do \in Parts => pc[w] \in {"exited", "sizing"} /\ job[w].code = 0
    /\ more = <<>> \/ Lists(w, more)

(* The command gets further within a task. *)
Shifts(w, to) ==
    /\ \/ pc[w] \in {"ensure", "pull"} /\ to \in {"start", "pull"}
       \/ pc[w] = "started" /\ to = "wait"
       \/ pc[w] = "wait" /\ to = "exited" /\ Current(w).do = "list"
       \/ pc[w] = "exited" /\ to = "sizing"
    /\ pc' = [pc EXCEPT ![w] = to]
    /\ UNCHANGED <<job, helper, result, dir, made, removed, pruned, asked, again, written>>

(* A helper's command begins, for the first time or again. *)
Starts(w) ==
    /\ \/ pc[w] = "start" /\ pc' = [pc EXCEPT ![w] = "started"] /\ again' = again
       \/ /\ helper[w] = "restarting" /\ pc' = pc
          /\ again' = again \cup {<<Current(w).do, Current(w).id>>}
    /\ helper' = [helper EXCEPT ![w] = "running"]
    /\ Shell(Current(w), Begun(Current(w), dir[Current(w).id]))
    /\ UNCHANGED <<job, result, asked, written>>

(* A helper's command ends. *)
Exits(w, l, c) ==
    /\ helper[w] = "running" /\ helper' = [helper EXCEPT ![w] = "restarting"]
    /\ \/ pc[w] = "wait" /\ pc' = [pc EXCEPT ![w] = "exited"]
       \/ pc[w] # "wait" /\ pc' = pc /\ c = job[w].code
    /\ \/ Shell(Current(w), Ended(Current(w), dir[Current(w).id]))
       \/ UNCHANGED <<dir, made, removed, pruned>> /\ (pc[w] = "wait" => c = 1)
    /\ job' = [job EXCEPT ![w] = [job[w] EXCEPT !.code = c,
                   !.listing = IF Current(w).do = "list" THEN @ \o l ELSE @]]
    /\ written' = IF pc[w] = "wait" /\ c = 0
                  THEN written \cup WholeParts(Current(w), dir'[Current(w).id]) ELSE written
    /\ UNCHANGED <<result, asked, again>>

Move(w) ==
    \/ \E more \in Seq(Task) : Ends(w, more)
    \/ \E to \in PC : Shifts(w, to)
    \/ Starts(w)
    \/ \E l \in Listings, c \in {0, 1} : Exits(w, l, c)
    \/ Succeed(w)
    \/ \E b \in Ids : ReceiveDelete(w, b) \/ \E parts \in Kinds : ReceiveBackup(w, b, parts)

(* A worker that has no helper: removing one changes nothing. *)
LEMMA NoHelperFacts ==
    ASSUME TypeInv, NEW w \in Workers, pc[w] \notin {"started", "wait", "exited", "sizing"}, helper' = helper
    PROVE  helper' = [helper EXCEPT ![w] = NoHelper]
BY DEF TypeInv, TypeOK

(* A task that ends badly, or well: a dump or an archive has then exited so. *)
LEMMA EndsWith ==
    ASSUME TypeInv, NEW w \in Workers, NEW ok \in BOOLEAN, NEW more \in Seq(Task),
           pc[w] \notin {"idle", "done"}, TaskEnds(w, ok, more),
           helper' = [helper EXCEPT ![w] = NoHelper],
           UNCHANGED <<dir, made, removed, pruned, asked, again, written>>,
           ok /\ Current(w).do \in Parts => pc[w] \in {"exited", "sizing"} /\ job[w].code = 0,
           more = <<>> \/ Lists(w, more)
    PROVE  Move(w)
<1>1. Fails(w) \/ (GoesOn(w, more) /\ (ok \/ Current(w).do \notin Fatal))
  BY TaskEndsFacts
<1>2. Ends(w, more)
  BY <1>1 DEF Ends, Parts, Fatal
<1> QED BY <1>2 DEF Move

(* Every step of a command or of its helper is a move. *)
LEMMA NextMoves ==
    ASSUME TypeInv, NEW w \in Workers, WorkerStep(w) \/ HelperStep(w)
    PROVE  Move(w)
<1> USE DEF volumeVars, historyVars
<1>e. <<>> \in Seq(Task)
  OBVIOUS
<1>1. CASE ExecDump(w)
  <2>1. Current(w).do = "exec" /\ pc[w] = "exec"
    BY <1>1 DEF ExecDump, TypeInv, JobInv
  <2>2. \E ok \in BOOLEAN : TaskEnds(w, ok, <<>>)
    BY <1>1 DEF ExecDump
  <2>3. helper' = [helper EXCEPT ![w] = NoHelper]
    BY <1>1, <2>1, NoHelperFacts DEF ExecDump
  <2> QED BY <1>1, <1>e, <2>1, <2>2, <2>3, EndsWith DEF ExecDump, Parts
<1>2. CASE Succeed(w)
  BY <1>2 DEF Move
<1>3. CASE EnsureImage(w)
  <2>1. pc[w] = "ensure" /\ UNCHANGED <<dir, made, removed, pruned, helper, asked, again, written>>
    BY <1>3 DEF EnsureImage
  <2>2. CASE TaskEnds(w, FALSE, <<>>)
    <3>1. helper' = [helper EXCEPT ![w] = NoHelper]
      BY <2>1, NoHelperFacts
    <3> QED BY <1>e, <2>1, <2>2, <3>1, EndsWith
  <2>3. CASE ~TaskEnds(w, FALSE, <<>>)
    <3>1. UNCHANGED <<job, result>> /\ \E to \in {"start", "pull"} : pc' = [pc EXCEPT ![w] = to]
      BY <1>3, <2>3 DEF EnsureImage, Go
    <3> QED BY <2>1, <3>1 DEF Shifts, Move, PC
  <2> QED BY <2>2, <2>3
<1>4. CASE LockTimesOut(w)
  <2>1. /\ pc[w] = "ensure" /\ UNCHANGED <<dir, made, removed, pruned, helper, asked, again, written>>
        /\ TaskEnds(w, FALSE, <<>>)
    BY <1>4 DEF LockTimesOut
  <2>2. helper' = [helper EXCEPT ![w] = NoHelper]
    BY <2>1, NoHelperFacts
  <2> QED BY <1>e, <2>1, <2>2, EndsWith
<1>5. CASE PullImage(w)
  <2>1. pc[w] = "pull" /\ UNCHANGED <<dir, made, removed, pruned, helper, asked, again, written>>
    BY <1>5 DEF PullImage
  <2>2. CASE TaskEnds(w, FALSE, <<>>)
    <3>1. helper' = [helper EXCEPT ![w] = NoHelper]
      BY <2>1, NoHelperFacts
    <3> QED BY <1>e, <2>1, <2>2, <3>1, EndsWith
  <2>3. CASE ~TaskEnds(w, FALSE, <<>>)
    <3>1. UNCHANGED <<job, result>> /\ pc' = [pc EXCEPT ![w] = "start"]
      BY <1>5, <2>3 DEF PullImage, Go
    <3> QED BY <2>1, <3>1 DEF Shifts, Move, PC
  <2> QED BY <2>2, <2>3
<1>6. CASE StartHelper(w)
  <2>1. pc[w] = "start" /\ UNCHANGED <<asked, again, written>>
    BY <1>6 DEF StartHelper
  <2>2. CASE Fault /\ TaskEnds(w, FALSE, <<>>) /\ UNCHANGED <<dir, made, removed, pruned, helper>>
    <3>1. helper' = [helper EXCEPT ![w] = NoHelper]
      BY <2>1, <2>2, NoHelperFacts
    <3> QED BY <1>e, <2>1, <2>2, <3>1, EndsWith
  <2>3. CASE ShellDoes(Begun, Current(w)) /\ helper' = [helper EXCEPT ![w] = "running"]
             /\ Go(w, "started") /\ UNCHANGED <<job, result>>
    <3>1. Shell(Current(w), Begun(Current(w), dir[Current(w).id]))
      BY <2>3 DEF ShellDoes, Shell
    <3> QED BY <2>1, <2>3, <3>1 DEF Starts, Move, Go
  <2> QED BY <1>6, <2>2, <2>3 DEF StartHelper
<1>7. CASE WaitContainer(w)
  <2>1. Shifts(w, "wait")
    BY <1>7 DEF WaitContainer, Shifts, Go
  <2> QED BY <2>1 DEF Move, PC
<1>8. CASE RemoveWriter(w)
  <2>1. /\ pc[w] = "started" /\ Current(w).do = "write" /\ TaskEnds(w, TRUE, <<>>)
        /\ helper' = [helper EXCEPT ![w] = NoHelper]
        /\ UNCHANGED <<dir, made, removed, pruned, asked, again, written>>
    BY <1>8 DEF RemoveWriter
  <2> QED BY <1>e, <2>1, EndsWith DEF Parts
<1>9. CASE WaitFails(w)
  <2>1. pc[w] = "wait" /\ UNCHANGED <<dir, made, removed, pruned, asked, again, written>>
    BY <1>9 DEF WaitFails
  <2>2. CASE Current(w).do = "list"
    <3>1. Shifts(w, "exited")
      BY <1>9, <2>1, <2>2 DEF WaitFails, Shifts, Go
    <3> QED BY <3>1 DEF Move, PC
  <2>3. CASE Current(w).do # "list"
    <3>1. helper' = [helper EXCEPT ![w] = NoHelper] /\ TaskEnds(w, FALSE, <<>>)
      BY <1>9, <2>3 DEF WaitFails
    <3> QED BY <1>e, <2>1, <3>1, EndsWith
  <2> QED BY <2>2, <2>3
<1>10. CASE EndTask(w)
  <2>1. /\ pc[w] \in {"exited", "sizing"} /\ helper' = [helper EXCEPT ![w] = NoHelper]
        /\ UNCHANGED <<dir, made, removed, pruned, asked, again, written>>
    BY <1>10 DEF EndTask
  <2>2. CASE Current(w).do # "list" /\ TaskEnds(w, job[w].code = 0, <<>>)
    <3>1. (job[w].code = 0) \in BOOLEAN
      OBVIOUS
    <3> QED BY <1>e, <2>1, <2>2, <3>1, EndsWith
  <2>3. CASE /\ Current(w).do = "list"
             /\ \E k \in 0 .. Len(job[w].listing) :
                  \E names \in Sorted(job[w].listing, k) : TaskEnds(w, TRUE, Prune(k, names))
    <3>1. PICK k \in 0 .. Len(job[w].listing) :
            \E names \in Sorted(job[w].listing, k) : TaskEnds(w, TRUE, Prune(k, names))
      BY <2>3
    <3>2. PICK names \in Sorted(job[w].listing, k) : TaskEnds(w, TRUE, Prune(k, names))
      BY <3>1
    <3>3. job[w].listing \in Seq(Ids) /\ k \in Nat
      BY <2>1, BusyFacts DEF Job
    <3>4. Prune(k, names) \in Seq(Task)
      BY <3>3, SortedFacts, PruneFacts
    <3>5. Lists(w, Prune(k, names))
      BY <2>1, <2>3 DEF Lists
    <3> QED BY <2>1, <2>3, <3>2, <3>4, <3>5, EndsWith DEF Parts
  <2> QED BY <1>10, <2>2, <2>3 DEF EndTask
<1>a. CASE QuerySize(w)
  <2>1. Shifts(w, "sizing")
    BY <1>a DEF QuerySize, Shifts, Go
  <2> QED BY <2>1 DEF Move, PC
<1>b. CASE SizeUnknown(w)
  <2>1. /\ pc[w] = "exited" /\ job[w].code = 0 /\ TaskEnds(w, TRUE, <<>>)
        /\ helper' = [helper EXCEPT ![w] = NoHelper]
        /\ UNCHANGED <<dir, made, removed, pruned, asked, again, written>>
    BY <1>b DEF SizeUnknown, Measured
  <2> QED BY <1>e, <2>1, EndsWith
<1>11. CASE HelperExits(w)
  <2>1. PICK ok \in BOOLEAN, l \in Listings :
          /\ \/ ok /\ ShellDoes(Ended, Current(w)) /\ UNCHANGED faults
             \/ ~ok /\ Current(w).do # "list" /\ Fault /\ UNCHANGED volumeVars
          /\ job' = [job EXCEPT
                       ![w].code = IF pc[w] = "wait" THEN (IF ok THEN 0 ELSE 1) ELSE @,
                       ![w].listing = IF Current(w).do = "list" THEN @ \o l ELSE @]
          /\ written' = IF pc[w] = "wait" /\ ok
                        THEN written \cup WholeParts(Current(w), dir'[Current(w).id]) ELSE written
    BY <1>11 DEF HelperExits
  <2> DEFINE c == IF pc[w] = "wait" THEN (IF ok THEN 0 ELSE 1) ELSE job[w].code
  <2>2. job \in [Workers -> Job] /\ job[w].code \in {0, 1}
    BY DEF TypeInv, TypeOK, Job
  <2>3. /\ c \in {0, 1} /\ (pc[w] = "wait" /\ ~ok => c = 1) /\ (pc[w] # "wait" => c = job[w].code)
        /\ pc[w] = "wait" => (c = 0 <=> ok)
    BY <2>2
  <2>4. job' = [job EXCEPT ![w] = [job[w] EXCEPT !.code = c,
                   !.listing = IF Current(w).do = "list" THEN @ \o l ELSE @]]
    BY <2>1, <2>2 DEF Job
  <2>5. \/ Shell(Current(w), Ended(Current(w), dir[Current(w).id]))
        \/ UNCHANGED <<dir, made, removed, pruned>> /\ ~ok
    BY <2>1 DEF ShellDoes, Shell
  <2>6. /\ helper[w] = "running" /\ helper' = [helper EXCEPT ![w] = "restarting"]
        /\ UNCHANGED <<result, asked, again>>
        /\ \/ pc[w] = "wait" /\ pc' = [pc EXCEPT ![w] = "exited"]
           \/ pc[w] # "wait" /\ pc' = pc
    BY <1>11 DEF HelperExits, Go
  <2> HIDE DEF c
  <2>a. written' = IF pc[w] = "wait" /\ c = 0
                   THEN written \cup WholeParts(Current(w), dir'[Current(w).id]) ELSE written
    BY <2>1, <2>3
  <2>7. Exits(w, l, c)
    BY <2>3, <2>4, <2>5, <2>6, <2>a DEF Exits
  <2> QED BY <2>3, <2>7 DEF Move
<1>12. CASE HelperRestarts(w)
  <2>1. Shell(Current(w), Begun(Current(w), dir[Current(w).id]))
    BY <1>12 DEF HelperRestarts, ShellDoes, Shell
  <2> QED BY <1>12, <2>1 DEF HelperRestarts, Starts, Move
<1> QED BY <1>1, <1>2, <1>3, <1>4, <1>5, <1>6, <1>7, <1>8, <1>9, <1>10, <1>a, <1>b, <1>11,
        <1>12
   DEF WorkerStep, HelperStep

-----------------------------------------------------------------------------
(* Type correctness *)

(* What `ls' prints: directories that are there, each once, in order. *)
LEMMA ListingsFacts ==
    ASSUME TypeInv, NEW l \in Listings
    PROVE  /\ l \in Seq(Ids)
           /\ \A i \in 1 .. Len(l) : l[i] \in made
           /\ \A i, j \in 1 .. Len(l) : i < j => l[i] < l[j]
<1> DEFINE D == {b \in Ids : dir[b].exists}
<1>1. D \subseteq made /\ IsFiniteSet(made) /\ D \subseteq Ids
  BY DEF TypeInv, JobInv
<1>2. Cardinality(D) \in Nat
  BY <1>1, FS_Subset, FS_CardinalityType
<1>3. l \in [1 .. Cardinality(D) -> D] /\ \A i, j \in DOMAIN l : i < j => l[i] < l[j]
  BY DEF Listings
<1> HIDE DEF D
<1>4. l \in Seq(D) /\ Len(l) = Cardinality(D) /\ DOMAIN l = 1 .. Len(l)
  BY <1>2, <1>3
<1>5. \A i \in 1 .. Len(l) : l[i] \in D
  BY <1>4
<1>6. l \in Seq(Ids)
  BY <1>1, <1>4, <1>5
<1> QED BY <1>1, <1>3, <1>4, <1>5, <1>6

(* The local variables of a command whose helper exits. *)
LEMMA ExitsFacts ==
    ASSUME TypeInv, NEW w \in Workers, NEW l \in Listings, NEW c \in {0, 1}, Exits(w, l, c)
    PROVE  /\ pc[w] \in {"started", "wait", "exited", "sizing"}
           /\ job' \in [Workers -> Job]
           /\ job'[w].id = job[w].id /\ job'[w].todo = job[w].todo /\ job'[w].code = c
           /\ job'[w].listing = IF Current(w).do = "list" THEN job[w].listing \o l ELSE job[w].listing
           /\ \A v \in Workers : v # w => job'[v] = job[v]
<1>1. job \in [Workers -> Job] /\ job[w] \in Job /\ job[w].listing \in Seq(Ids)
  BY DEF TypeInv, TypeOK, Job
<1>2. job[w].listing \o l \in Seq(Ids)
  BY <1>1, ListingsFacts
<1> DEFINE m == IF Current(w).do = "list" THEN job[w].listing \o l ELSE job[w].listing
<1>3. m \in Seq(Ids)
  BY <1>1, <1>2
<1>4. job' = [job EXCEPT ![w] = [job[w] EXCEPT !.code = c, !.listing = m]]
  BY DEF Exits
<1> HIDE DEF m
<1>5. PICK r : r = [job[w] EXCEPT !.code = c, !.listing = m]
  OBVIOUS
<1>6. r \in Job /\ r.id = job[w].id /\ r.todo = job[w].todo /\ r.code = c /\ r.listing = m
  BY <1>1, <1>3, <1>5 DEF Job
<1>7. job' = [job EXCEPT ![w] = r]
  BY <1>4, <1>5
<1>8. job' \in [Workers -> Job] /\ job'[w] = r /\ \A v \in Workers : v # w => job'[v] = job[v]
  BY <1>1, <1>6, <1>7
<1>9. pc[w] \in {"started", "wait", "exited", "sizing"}
  BY DEF Exits, TypeInv, TypeOK, NoHelper
<1> QED BY <1>6, <1>8, <1>9 DEF m

(* What a move changes of the workers and of the volume. *)
MoveType ==
    /\ pc \in [Workers -> PC] /\ job \in [Workers -> Job]
    /\ helper \in [Workers -> {NoHelper, "running", "restarting"}]
    /\ \A w \in Workers : helper[w] # NoHelper => pc[w] \in {"started", "wait", "exited", "sizing"}
    /\ result \in [Ids -> {"none", "ok", "failed"}]
    /\ \A w \in Workers : pc[w] \in {"idle", "done"} <=> job[w].todo = <<>>
    /\ \A w \in Workers : pc[w] = "exec" => Current(w).do = "exec"

VolumeType ==
    /\ dir \in [Ids -> Dirs] /\ asked \in [Ids -> SUBSET Parts]
    /\ pruned \subseteq removed /\ removed \subseteq made /\ made \subseteq Ids
    /\ \A b \in Ids : (dir[b].exists => b \in made) /\ (~dir[b].exists => dir[b] = NoDir)
    /\ IsFiniteSet(made)
    /\ again \in SUBSET {<<t.do, t.id>> : t \in Task}
    /\ written \in SUBSET (Parts \X Ids)

OtherType ==
    /\ image \in BOOLEAN /\ lock \in BOOLEAN
    /\ reruns \in 0 .. MaxReruns /\ faults \in 0 .. MaxFaults

LEMMA TypeParts == TypeInv <=> MoveType /\ VolumeType /\ OtherType
BY DEF TypeInv, TypeOK, JobInv, MoveType, VolumeType, OtherType, PC, Dirs, Parts

(* A worker that turns to a list of tasks, and has no helper. *)
LEMMA TurnType ==
    ASSUME TypeInv, NEW w \in Workers, NEW b \in Ids, NEW todo \in Seq(Task),
           NEW to \in {"idle", "done", "exec", "start", "ensure"}, Turn(w, to, NewJob(b, todo)),
           to \in {"idle", "done"} <=> todo = <<>>, to = "exec" => Head(todo).do = "exec",
           helper' = [helper EXCEPT ![w] = NoHelper],
           result' \in [Ids -> {"none", "ok", "failed"}]
    PROVE  MoveType'
<1>0. MoveType
  BY TypeParts
<1>1. NewJob(b, todo) \in Job /\ NewJob(b, todo).todo = todo
  BY NewJobFacts
<1>2. /\ pc' \in [Workers -> PC] /\ pc'[w] = to /\ \A v \in Workers : v # w => pc'[v] = pc[v]
      /\ job' \in [Workers -> Job] /\ job'[w].todo = todo
      /\ \A v \in Workers : v # w => job'[v] = job[v]
  BY <1>1, TurnFacts DEF PC
<1>3. /\ helper' \in [Workers -> {NoHelper, "running", "restarting"}] /\ helper'[w] = NoHelper
      /\ \A v \in Workers : v # w => helper'[v] = helper[v]
  BY <1>0 DEF MoveType
<1>4. \A v \in Workers : helper'[v] # NoHelper => pc'[v] \in {"started", "wait", "exited", "sizing"}
  BY <1>0, <1>2, <1>3 DEF MoveType
<1>5. \A v \in Workers : pc'[v] \in {"idle", "done"} <=> job'[v].todo = <<>>
  BY <1>0, <1>2 DEF MoveType
<1>6. \A v \in Workers : pc'[v] = "exec" => Head(job'[v].todo).do = "exec"
  BY <1>0, <1>2 DEF MoveType, Current
<1> QED BY <1>2, <1>3, <1>4, <1>5, <1>6 DEF MoveType, Current

(* The moves keep the workers' types. *)
LEMMA MoveKeepsType ==
    ASSUME TypeInv, NEW w \in Workers, Move(w)
    PROVE  MoveType'
<1>0. MoveType /\ job[w].id \in Ids
  BY TypeParts DEF MoveType, Job
<1>e. <<>> \in Seq(Task)
  OBVIOUS
<1>1. ASSUME NEW more \in Seq(Task), Ends(w, more) PROVE MoveType'
  <2>1. Tail(job[w].todo) \in Seq(Task) /\ helper' = [helper EXCEPT ![w] = NoHelper]
    BY <1>1, BusyFacts DEF Ends
  <2>2. CASE Fails(w)
    <3>1. result' \in [Ids -> {"none", "ok", "failed"}]
      BY <1>0, <2>2 DEF Fails, MoveType
    <3> QED BY <1>0, <1>e, <2>1, <2>2, <3>1, TurnType DEF Fails, NoJob
  <2>3. CASE GoesOn(w, more)
    <3>1. PICK rest : rest = Rest(w, more)
      OBVIOUS
    <3>2. rest \in Seq(Task)
      BY <2>1, <3>1 DEF Rest
    <3>3. Turn(w, Entry(rest), NewJob(job[w].id, rest)) /\ result' = result
      BY <2>3, <3>1 DEF GoesOn
    <3>4. PICK to : to = Entry(rest)
      OBVIOUS
    <3>5. /\ to \in {"idle", "done", "exec", "start", "ensure"} /\ (to \in {"idle", "done"} <=> rest = <<>>)
          /\ to = "exec" => Head(rest).do = "exec"
      BY <3>2, <3>4, EntryFacts
    <3>6. Turn(w, to, NewJob(job[w].id, rest)) /\ result' \in [Ids -> {"none", "ok", "failed"}]
      BY <1>0, <3>3, <3>4 DEF MoveType
    <3> QED BY <1>0, <2>1, <3>2, <3>5, <3>6, TurnType
  <2> QED BY <1>1, <2>2, <2>3 DEF Ends
<1>2. ASSUME NEW to \in PC, Shifts(w, to) PROVE MoveType'
  <2>1. pc' \in [Workers -> PC] /\ pc'[w] = to /\ \A v \in Workers : v # w => pc'[v] = pc[v]
    BY <1>0, <1>2 DEF Shifts, MoveType
  <2>2. \A v \in Workers : helper[v] # NoHelper => pc'[v] \in {"started", "wait", "exited", "sizing"}
    BY <1>0, <1>2, <2>1 DEF Shifts, MoveType
  <2>3. \A v \in Workers : pc'[v] \in {"idle", "done"} <=> pc[v] \in {"idle", "done"}
    BY <1>2, <2>1 DEF Shifts
  <2>4. \A v \in Workers : pc'[v] = "exec" => pc[v] = "exec"
    BY <1>2, <2>1 DEF Shifts
  <2> QED BY <1>0, <1>2, <2>1, <2>2, <2>3, <2>4 DEF Shifts, MoveType, Current
<1>3. CASE Starts(w)
  <2>1. /\ pc' \in [Workers -> PC] /\ \A v \in Workers : v # w => pc'[v] = pc[v]
        /\ pc[w] \in {"start", "started", "wait", "exited", "sizing"} /\ pc'[w] \in {"started", "wait", "exited", "sizing"}
    BY <1>0, <1>3 DEF Starts, MoveType, PC, NoHelper
  <2>2. /\ helper' \in [Workers -> {NoHelper, "running", "restarting"}]
        /\ \A v \in Workers : v # w => helper'[v] = helper[v]
    BY <1>0, <1>3 DEF Starts, MoveType
  <2>3. \A v \in Workers : helper'[v] # NoHelper => pc'[v] \in {"started", "wait", "exited", "sizing"}
    BY <1>0, <2>1, <2>2 DEF MoveType
  <2>4. \A v \in Workers : /\ pc'[v] \in {"idle", "done"} <=> pc[v] \in {"idle", "done"}
                           /\ pc'[v] = "exec" => pc[v] = "exec"
    BY <2>1
  <2>5. job' = job /\ result' = result
    BY <1>3 DEF Starts
  <2> QED BY <1>0, <2>1, <2>2, <2>3, <2>4, <2>5 DEF MoveType, Current
<1>4. ASSUME NEW l \in Listings, NEW c \in {0, 1}, Exits(w, l, c) PROVE MoveType'
  <2>0. /\ pc[w] \in {"started", "wait", "exited", "sizing"} /\ job' \in [Workers -> Job]
        /\ \A v \in Workers : job'[v].todo = job[v].todo
    BY <1>4, ExitsFacts
  <2>1. /\ pc' \in [Workers -> PC] /\ \A v \in Workers : v # w => pc'[v] = pc[v]
        /\ pc'[w] \in {"started", "wait", "exited", "sizing"}
    BY <1>0, <1>4, <2>0 DEF Exits, MoveType, PC
  <2>2. /\ helper' \in [Workers -> {NoHelper, "running", "restarting"}]
        /\ \A v \in Workers : v # w => helper'[v] = helper[v]
    BY <1>0, <1>4 DEF Exits, MoveType
  <2>3. \A v \in Workers : helper'[v] # NoHelper => pc'[v] \in {"started", "wait", "exited", "sizing"}
    BY <1>0, <2>1, <2>2 DEF MoveType
  <2>4. \A v \in Workers : /\ pc'[v] \in {"idle", "done"} <=> pc[v] \in {"idle", "done"}
                           /\ pc'[v] = "exec" => pc[v] = "exec"
    BY <2>0, <2>1
  <2>5. result' = result
    BY <1>4 DEF Exits
  <2> QED BY <1>0, <2>0, <2>1, <2>2, <2>3, <2>4, <2>5 DEF MoveType, Current
<1>5. CASE Succeed(w)
  <2>1. /\ pc[w] = "done" /\ Turn(w, "idle", NewJob(job[w].id, <<>>)) /\ helper' = helper
        /\ result' = [result EXCEPT ![job[w].id] = IF @ = "none" THEN "ok" ELSE @]
    BY <1>5 DEF Succeed, Answer, Go, Turn, NoJob
  <2>2. helper' = [helper EXCEPT ![w] = NoHelper]
    BY <2>1, NoHelperFacts
  <2>3. result' \in [Ids -> {"none", "ok", "failed"}]
    BY <1>0, <2>1 DEF MoveType
  <2> QED BY <1>0, <1>e, <2>1, <2>2, <2>3, TurnType
<1>6. ASSUME NEW b \in Ids, ReceiveDelete(w, b) PROVE MoveType'
  <2>1. PICK t : t = <<[do |-> "delete", id |-> b]>>
    OBVIOUS
  <2>2. t \in Seq(Task) /\ t # <<>>
    BY <2>1 DEF Task
  <2>3. pc[w] = "idle" /\ Turn(w, "ensure", NewJob(b, t)) /\ helper' = helper /\ result' = result
    BY <1>6, <2>1 DEF ReceiveDelete, Go, Turn, historyVars
  <2>4. helper' = [helper EXCEPT ![w] = NoHelper]
    BY <2>3, NoHelperFacts
  <2> QED BY <1>0, <2>2, <2>3, <2>4, TurnType DEF MoveType
<1>7. ASSUME NEW b \in Ids, NEW parts \in Kinds, ReceiveBackup(w, b, parts) PROVE MoveType'
  <2>1. PICK t : t = Plan(b, parts)
    OBVIOUS
  <2>2. t \in Seq(Task) /\ t # <<>>
    BY <2>1, PlanType
  <2>3. pc[w] = "idle" /\ Turn(w, Entry(t), NewJob(b, t)) /\ helper' = helper /\ result' = result
    BY <1>7, <2>1 DEF ReceiveBackup, Go, Turn
  <2>4. helper' = [helper EXCEPT ![w] = NoHelper]
    BY <2>3, NoHelperFacts
  <2>5. PICK to : to = Entry(t)
    OBVIOUS
  <2>6. /\ to \in {"idle", "done", "exec", "start", "ensure"} /\ (to \in {"idle", "done"} <=> t = <<>>)
        /\ to = "exec" => Head(t).do = "exec"
    BY <2>2, <2>5, EntryFacts
  <2>7. Turn(w, to, NewJob(b, t)) /\ result' \in [Ids -> {"none", "ok", "failed"}]
    BY <1>0, <2>3, <2>5 DEF MoveType
  <2> QED BY <2>2, <2>4, <2>6, <2>7, TurnType
<1> QED BY <1>1, <1>2, <1>3, <1>4, <1>5, <1>6, <1>7 DEF Move

(* A move is at a task, or receives a command, or answers one. *)
LEMMA MoveVolume ==
    ASSUME TypeInv, NEW w \in Workers, Move(w)
    PROVE  /\ VolumeType' /\ made \subseteq made' /\ removed \subseteq removed'
           /\ again \subseteq again' /\ written \subseteq written'
<1>0. VolumeType
  BY TypeParts
<1>1. CASE UNCHANGED <<dir, made, removed, pruned, asked, again, written>>
  BY <1>0, <1>1 DEF VolumeType
<1>2. CASE Starts(w)
  <2>1. Current(w) \in Task /\ Current(w).id \in Ids
    BY <1>2, BusyFacts DEF Starts, TypeInv, TypeOK, NoHelper, Task
  <2>2. DirOK(dir[Current(w).id])
    BY <1>0, <2>1 DEF VolumeType, DirOK
  <2>3. DirOK(Begun(Current(w), dir[Current(w).id]))
    BY <2>1, <2>2, BegunFacts
  <2>4. /\ dir' \in [Ids -> Dirs] /\ IsFiniteSet(made')
        /\ \A b \in Ids : (dir'[b].exists => b \in made') /\ (~dir'[b].exists => dir'[b] = NoDir)
        /\ pruned' \subseteq removed' /\ removed' \subseteq made' /\ made' \subseteq Ids
        /\ made \subseteq made' /\ removed \subseteq removed'
    BY <1>2, <2>1, <2>3, ShellFacts DEF Starts
  <2>5. /\ again' \in SUBSET {<<t.do, t.id>> : t \in Task}
        /\ again \subseteq again' /\ UNCHANGED <<asked, written>>
    BY <1>0, <1>2, <2>1 DEF Starts, VolumeType
  <2> QED BY <1>0, <2>4, <2>5 DEF VolumeType
<1>w. ASSUME NEW l \in Listings, NEW c \in {0, 1}, Exits(w, l, c)
      PROVE  written' \in SUBSET (Parts \X Ids) /\ written \subseteq written'
  <2>1. Current(w).id \in Ids
    BY <1>w, ExitsFacts, BusyFacts DEF Task
  <2>2. WholeParts(Current(w), dir'[Current(w).id]) \subseteq Parts \X Ids
    BY <2>1 DEF WholeParts, Parts
  <2>3. written \in SUBSET (Parts \X Ids)
    BY <1>0 DEF VolumeType
  <2> QED BY <1>w, <2>2, <2>3 DEF Exits
<1>3. ASSUME NEW l \in Listings, NEW c \in {0, 1}, Exits(w, l, c),
             Shell(Current(w), Ended(Current(w), dir[Current(w).id]))
      PROVE  /\ VolumeType' /\ made \subseteq made' /\ removed \subseteq removed'
             /\ again \subseteq again' /\ written \subseteq written'
  <2>1. Current(w) \in Task /\ Current(w).id \in Ids
    BY <1>3, ExitsFacts, BusyFacts DEF Task
  <2>2. DirOK(dir[Current(w).id])
    BY <1>0, <2>1 DEF VolumeType, DirOK
  <2>3. DirOK(Ended(Current(w), dir[Current(w).id]))
    BY <2>1, <2>2, EndedFacts
  <2>4. /\ dir' \in [Ids -> Dirs] /\ IsFiniteSet(made')
        /\ \A b \in Ids : (dir'[b].exists => b \in made') /\ (~dir'[b].exists => dir'[b] = NoDir)
        /\ pruned' \subseteq removed' /\ removed' \subseteq made' /\ made' \subseteq Ids
        /\ made \subseteq made' /\ removed \subseteq removed'
    BY <1>3, <2>1, <2>3, ShellFacts
  <2>5. written' \in SUBSET (Parts \X Ids) /\ written \subseteq written'
    BY <1>3, <1>w
  <2> QED BY <1>0, <1>3, <2>4, <2>5 DEF Exits, VolumeType
<1>f. ASSUME NEW l \in Listings, NEW c \in {0, 1}, Exits(w, l, c), UNCHANGED <<dir, made, removed, pruned>>
      PROVE  /\ VolumeType' /\ made \subseteq made' /\ removed \subseteq removed'
             /\ again \subseteq again' /\ written \subseteq written'
  <2>1. written' \in SUBSET (Parts \X Ids) /\ written \subseteq written'
    BY <1>f, <1>w
  <2> QED BY <1>0, <1>f, <2>1 DEF Exits, VolumeType
<1>4. ASSUME NEW b \in Ids, NEW parts \in Kinds, ReceiveBackup(w, b, parts)
      PROVE  /\ VolumeType' /\ made \subseteq made' /\ removed \subseteq removed'
             /\ again \subseteq again' /\ written \subseteq written'
  <2>1. asked' \in [Ids -> SUBSET Parts]
    BY <1>0, <1>4, BackupConstants DEF ReceiveBackup, VolumeType, Parts
  <2> QED BY <1>0, <1>4, <2>1 DEF ReceiveBackup, VolumeType, volumeVars
<1>5. ASSUME NEW b \in Ids, ReceiveDelete(w, b)
      PROVE  UNCHANGED <<dir, made, removed, pruned, asked, again, written>>
  BY <1>5 DEF ReceiveDelete, volumeVars, historyVars
<1>6. Succeed(w) => UNCHANGED <<dir, made, removed, pruned, asked, again, written>>
  BY DEF Succeed, volumeVars
<1> QED BY <1>1, <1>2, <1>3, <1>f, <1>4, <1>5, <1>6 DEF Move, Ends, Shifts, Exits

(* The image, the token and the bounds. *)
LEMMA NextOther == TypeInv /\ Next => OtherType'
<1> SUFFICES ASSUME TypeInv, Next PROVE OtherType'
  OBVIOUS
<1>0. OtherType
  BY TypeParts
<1>1. PICK w \in Workers : \/ WorkerStep(w) \/ HelperStep(w)
                           \/ \E b \in Ids : ReceiveDelete(w, b)
                                            \/ \E parts \in Kinds : ReceiveBackup(w, b, parts)
  BY DEF Next
<1>2. faults' = faults \/ Fault
  BY <1>1 DEF WorkerStep, HelperStep, ExecDump, Succeed, EnsureImage, LockTimesOut, PullImage, StartHelper,
     WaitContainer, RemoveWriter, WaitFails, QuerySize, SizeUnknown, EndTask, HelperExits, HelperRestarts, ReceiveDelete,
     ReceiveBackup, boundVars
<1>3. faults' \in 0 .. MaxFaults
  BY <1>0, <1>2, BackupConstants DEF OtherType, Fault
<1>4. reruns' = reruns \/ (reruns < MaxReruns /\ reruns' = reruns + 1)
  BY <1>1 DEF WorkerStep, HelperStep, ExecDump, Succeed, EnsureImage, LockTimesOut, PullImage, StartHelper,
     WaitContainer, RemoveWriter, WaitFails, QuerySize, SizeUnknown, EndTask, HelperExits, HelperRestarts, ReceiveDelete,
     ReceiveBackup, boundVars
<1>5. reruns' \in 0 .. MaxReruns
  BY <1>0, <1>4, BackupConstants DEF OtherType
<1>6. image' \in {image, TRUE} /\ lock' \in {lock, TRUE, FALSE}
  BY <1>1 DEF WorkerStep, HelperStep, ExecDump, Succeed, EnsureImage, LockTimesOut, PullImage, StartHelper,
     WaitContainer, RemoveWriter, WaitFails, QuerySize, SizeUnknown, EndTask, HelperExits, HelperRestarts, ReceiveDelete,
     ReceiveBackup
<1> QED BY <1>0, <1>3, <1>5, <1>6 DEF OtherType

(* Every step of Next is a move of some worker. *)
LEMMA NextIsMove == TypeInv /\ Next => \E w \in Workers : Move(w)
BY NextMoves DEF Next, Move

(* Every step keeps the types. *)
LEMMA NextType == TypeInv /\ [Next]_vars => TypeInv'
<1> SUFFICES ASSUME TypeInv, [Next]_vars PROVE TypeInv'
  OBVIOUS
<1>1. CASE Next
  <2>1. MoveType' /\ VolumeType' /\ OtherType'
    BY <1>1, NextIsMove, MoveKeepsType, MoveVolume, NextOther
  <2>2. TypeInv' <=> MoveType' /\ VolumeType' /\ OtherType'
    BY TypeParts, PTL
  <2> QED BY <2>1, <2>2
<1>2. CASE UNCHANGED vars
  BY <1>2 DEF TypeInv, TypeOK, JobInv, Current, vars, volumeVars, historyVars, boundVars
<1> QED BY <1>1, <1>2

(* Initially. *)
LEMMA InitType == Init => TypeInv
<1> SUFFICES ASSUME Init PROVE TypeInv
  OBVIOUS
<1> DEFINE b == CHOOSE b \in Ids : TRUE
<1>1. b \in Ids
  BY BackupConstants
<1> HIDE DEF b
<1>e. <<>> \in Seq(Task)
  OBVIOUS
<1>2. NoJob(b) \in Job /\ NoJob(b).todo = <<>>
  BY <1>1, <1>e, NewJobFacts DEF NoJob
<1>3. \A w \in Workers : pc[w] = "idle" /\ job[w] = NoJob(b) /\ helper[w] = NoHelper
  BY DEF Init, b
<1>4. MoveType
  <2>1. pc \in [Workers -> PC] /\ helper \in [Workers -> {NoHelper, "running", "restarting"}]
        /\ result \in [Ids -> {"none", "ok", "failed"}]
    BY DEF Init, PC
  <2>2. job \in [Workers -> Job]
    BY <1>2 DEF Init, b
  <2> QED BY <1>2, <1>3, <2>1, <2>2 DEF MoveType
<1>5. VolumeType
  <2>1. \A a \in Ids : dir[a] = NoDir
    BY DEF Init
  <2>2. dir \in [Ids -> Dirs]
    BY NoDirFacts DEF Init, DirOK
  <2>3. asked \in [Ids -> SUBSET Parts] /\ IsFiniteSet(made)
    BY FS_EmptySet DEF Init
  <2> QED BY <2>1, <2>2, <2>3, NoDirFacts DEF Init, VolumeType
<1>6. OtherType
  <2>1. reruns \in 0 .. MaxReruns /\ faults \in 0 .. MaxFaults
    BY BackupConstants DEF Init
  <2>2. image \in BOOLEAN /\ lock \in BOOLEAN
    BY DEF Init
  <2> QED BY <2>1, <2>2 DEF OtherType
<1> QED BY <1>4, <1>5, <1>6, TypeParts

LEMMA TypeInvariance == Spec => []TypeInv
<1>1. Init => TypeInv
  BY InitType
<1>2. TypeInv /\ [Next]_vars => TypeInv'
  BY NextType
<1> QED BY <1>1, <1>2, PTL DEF Spec

(* Type correctness: a worker's local variables, its helper and the state  *)
(* of the volume stay in their types whatever commands run together, fail  *)
(* or are pruned, and only a worker that waits for or has waited for its   *)
(* helper has one, so that every command that is over has removed it.      *)
THEOREM TypeCorrect == Spec => []TypeOK
<1>1. TypeInv => TypeOK
  BY DEF TypeInv
<1> QED BY <1>1, TypeInvariance, PTL

-----------------------------------------------------------------------------
(* The helper image *)

(* A task that ends leaves its command at the start of another, or idle. *)
LEMMA EndsAt ==
    ASSUME TypeInv, NEW w \in Workers, NEW more \in Seq(Task), pc[w] \notin {"idle", "done"},
           Fails(w) \/ GoesOn(w, more)
    PROVE  /\ pc'[w] \in {"idle", "done", "exec", "start", "ensure"}
           /\ \A v \in Workers : v # w => pc'[v] = pc[v]
<1>1. Tail(job[w].todo) \in Seq(Task)
  BY BusyFacts
<1>2. Rest(w, more) \in Seq(Task)
  BY <1>1 DEF Rest
<1>3. Entry(Rest(w, more)) \in {"done", "exec", "start", "ensure"}
  BY <1>2, EntryFacts
<1> QED BY <1>3 DEF Fails, GoesOn, Turn, TypeInv, TypeOK

(* No move but one of ensure leads to a pull. *)
LEMMA MovePulls ==
    ASSUME TypeInv, NEW w \in Workers, Move(w), pc[w] \notin {"ensure", "pull"}
    PROVE  pc'[w] # "pull" /\ \A v \in Workers : v # w => pc'[v] = pc[v]
<1>0. pc \in [Workers -> PC]
  BY DEF TypeInv, TypeOK, PC
<1>1. ASSUME NEW more \in Seq(Task), Ends(w, more)
      PROVE  pc'[w] # "pull" /\ \A v \in Workers : v # w => pc'[v] = pc[v]
  <2>1. /\ pc'[w] \in {"idle", "done", "exec", "start", "ensure"}
        /\ \A v \in Workers : v # w => pc'[v] = pc[v]
    BY <1>1, EndsAt DEF Ends
  <2> QED BY <2>1
<1>2. ASSUME NEW b \in Ids, NEW parts \in Kinds, ReceiveBackup(w, b, parts)
      PROVE  pc'[w] # "pull" /\ \A v \in Workers : v # w => pc'[v] = pc[v]
  <2>1. Entry(Plan(b, parts)) \in {"done", "exec", "start", "ensure"}
    BY PlanType, EntryFacts
  <2> QED BY <1>0, <1>2, <2>1 DEF ReceiveBackup, Go
<1>3. ASSUME \/ \E to \in PC : Shifts(w, to)
             \/ Starts(w)
             \/ \E l \in Listings, c \in {0, 1} : Exits(w, l, c)
             \/ Succeed(w)
             \/ \E b \in Ids : ReceiveDelete(w, b)
      PROVE  pc'[w] # "pull" /\ \A v \in Workers : v # w => pc'[v] = pc[v]
  BY <1>0, <1>3 DEF Shifts, Starts, Exits, Succeed, Answer, ReceiveDelete, Go
<1> QED BY <1>1, <1>2, <1>3 DEF Move

(* Every step keeps the pulls apart. *)
LEMMA NextPull == TypeInv /\ PullInv /\ [Next]_vars => PullInv'
<1> SUFFICES ASSUME TypeInv, PullInv, [Next]_vars PROVE PullInv'
  OBVIOUS
<1> USE DEF PullInv, PulledOnce
<1>0. pc \in [Workers -> PC]
  BY DEF TypeInv, TypeOK, PC
<1>e. <<>> \in Seq(Task)
  OBVIOUS
<1>1. ASSUME NEW w \in Workers, EnsureImage(w) PROVE PullInv'
  <2>1. CASE TaskEnds(w, FALSE, <<>>) /\ UNCHANGED lock
    <3>1. pc'[w] # "pull" /\ \A v \in Workers : v # w => pc'[v] = pc[v]
      BY <1>1, <1>e, <2>1, TaskEndsFacts, EndsAt DEF EnsureImage
    <3> QED BY <1>1, <2>1, <3>1 DEF EnsureImage
  <2>2. CASE image /\ Go(w, "start") /\ UNCHANGED lock
    BY <1>0, <1>1, <2>2 DEF EnsureImage, Go
  <2>3. CASE ~image /\ lock' = FALSE /\ Go(w, "pull")
    BY <1>0, <1>1, <2>3 DEF EnsureImage, Go
  <2> QED BY <1>1, <2>1, <2>2, <2>3 DEF EnsureImage
<1>2. ASSUME NEW w \in Workers, PullImage(w) PROVE PullInv'
  <2>1. pc[w] = "pull" /\ \A v \in Workers : pc[v] = "pull" => v = w
    BY <1>2 DEF PullImage
  <2>2. pc'[w] # "pull" /\ \A v \in Workers : v # w => pc'[v] = pc[v]
    <3>1. CASE TaskEnds(w, FALSE, <<>>)
      BY <1>e, <2>1, <3>1, TaskEndsFacts, EndsAt
    <3>2. CASE Go(w, "start")
      BY <1>0, <3>2 DEF Go
    <3> QED BY <1>2, <3>1, <3>2 DEF PullImage
  <2> QED BY <2>1, <2>2
<1>3. ASSUME NEW w \in Workers, LockTimesOut(w) PROVE PullInv'
  <2>1. pc'[w] # "pull" /\ \A v \in Workers : v # w => pc'[v] = pc[v]
    BY <1>3, <1>e, TaskEndsFacts, EndsAt DEF LockTimesOut
  <2> QED BY <1>3, <2>1 DEF LockTimesOut
<1>4. ASSUME NEW w \in Workers, Move(w), pc[w] \notin {"ensure", "pull"}, UNCHANGED <<image, lock>>
      PROVE  PullInv'
  BY <1>4, MovePulls
<1>5. ASSUME NEW w \in Workers, \/ ExecDump(w) \/ Succeed(w) \/ StartHelper(w) \/ WaitContainer(w)
                                \/ RemoveWriter(w) \/ WaitFails(w) \/ QuerySize(w)
                                \/ SizeUnknown(w) \/ EndTask(w) \/ HelperStep(w)
      PROVE  PullInv'
  <2>1. pc[w] \notin {"ensure", "pull"} /\ UNCHANGED <<image, lock>>
    BY <1>5 DEF ExecDump, Succeed, StartHelper, WaitContainer, RemoveWriter, WaitFails, QuerySize, SizeUnknown,
       EndTask, HelperStep, HelperExits, HelperRestarts, TypeInv, TypeOK, NoHelper
  <2> QED BY <1>4, <1>5, <2>1, NextMoves DEF WorkerStep
<1>6. ASSUME NEW w \in Workers, NEW b \in Ids,
             ReceiveDelete(w, b) \/ \E parts \in Kinds : ReceiveBackup(w, b, parts)
      PROVE  PullInv'
  <2>1. pc[w] \notin {"ensure", "pull"} /\ UNCHANGED <<image, lock>> /\ Move(w)
    BY <1>6 DEF ReceiveDelete, ReceiveBackup, Move
  <2> QED BY <1>4, <2>1
<1>7. CASE UNCHANGED vars
  BY <1>7 DEF vars
<1> QED BY <1>1, <1>2, <1>3, <1>5, <1>6, <1>7 DEF Next, WorkerStep

(* The helper image is pulled by one command at a time, and never when it  *)
(* is on the host, however many commands ensure it, fail or time out.      *)
THEOREM OnePullAtATime == Spec => []PulledOnce
<1>1. Init => PullInv
  BY DEF Init, PullInv, PulledOnce
<1>2. TypeInv /\ PullInv /\ [Next]_vars => PullInv'
  BY NextPull
<1>3. PullInv => PulledOnce
  BY DEF PullInv
<1> QED BY <1>1, <1>2, <1>3, TypeInvariance, PTL DEF Spec

-----------------------------------------------------------------------------
(* Lists of tasks *)

(* A move is one worker's. *)
LEMMA MoveOthers ==
    ASSUME TypeInv, NEW w \in Workers, Move(w), NEW v \in Workers, v # w
    PROVE  pc'[v] = pc[v] /\ job'[v] = job[v] /\ helper'[v] = helper[v]
<1>0. pc \in [Workers -> PC] /\ job \in [Workers -> Job] /\ helper \in [Workers -> {NoHelper, "running", "restarting"}]
  BY DEF TypeInv, TypeOK, PC
<1>1. CASE \E more \in Seq(Task) : Ends(w, more)
  BY <1>0, <1>1 DEF Ends, Fails, GoesOn, Turn
<1>2. CASE \E to \in PC : Shifts(w, to)
  BY <1>0, <1>2 DEF Shifts
<1>3. CASE Starts(w)
  BY <1>0, <1>3 DEF Starts
<1>4. CASE \E l \in Listings, c \in {0, 1} : Exits(w, l, c)
  BY <1>0, <1>4 DEF Exits
<1>5. CASE Succeed(w)
  BY <1>0, <1>5 DEF Succeed, Answer, Go
<1>6. CASE \E b \in Ids : ReceiveDelete(w, b) \/ \E parts \in Kinds : ReceiveBackup(w, b, parts)
  BY <1>0, <1>6 DEF ReceiveDelete, ReceiveBackup, Go
<1> QED BY <1>1, <1>2, <1>3, <1>4, <1>5, <1>6 DEF Move

(* What is left to do comes from the old tasks or is new. *)
LEMMA RestFacts ==
    ASSUME NEW todo \in Seq(Task), todo # <<>>, NEW more \in Seq(Task), NEW rest, rest = Tail(todo) \o more
    PROVE  /\ rest \in Seq(Task) /\ Len(rest) = Len(todo) - 1 + Len(more) /\ Len(todo) >= 1
           /\ \A i \in 1 .. Len(todo) - 1 : i + 1 \in 1 .. Len(todo) /\ rest[i] = todo[i + 1]
           /\ \A i \in 1 .. Len(rest) : \/ i \in 1 .. Len(todo) - 1
                                        \/ \E j \in 1 .. Len(more) : rest[i] = more[j]
<1>1. Tail(todo) \in Seq(Task) /\ Len(Tail(todo)) = Len(todo) - 1 /\ Len(todo) >= 1 /\ Len(more) \in Nat
  OBVIOUS
<1>2. \A i \in 1 .. Len(todo) - 1 : Tail(todo)[i] = todo[i + 1] /\ i + 1 \in 1 .. Len(todo)
  OBVIOUS
<1>3. rest \in Seq(Task) /\ Len(rest) = Len(todo) - 1 + Len(more)
  BY <1>1
<1>4. \A i \in 1 .. Len(todo) - 1 : rest[i] = todo[i + 1]
  BY <1>1, <1>2
<1>5. ASSUME NEW i \in 1 .. Len(rest), i \notin 1 .. Len(todo) - 1
      PROVE  \E j \in 1 .. Len(more) : rest[i] = more[j]
  <2>1. i - (Len(todo) - 1) \in 1 .. Len(more)
    BY <1>1, <1>3, <1>5
  <2>2. rest[i] = more[i - (Len(todo) - 1)]
    BY <1>1, <1>3, <1>5, <2>1
  <2> QED BY <2>1, <2>2
<1> QED BY <1>1, <1>2, <1>3, <1>4, <1>5

(* A new command writes its own backup: it tries to dump, then writes the  *)
(* dump or dumps again, and archives the volumes.                          *)
LEMMA PlanFacts ==
    ASSUME NEW b \in Ids, NEW parts \in SUBSET Parts
    PROVE  /\ \A i \in 1 .. Len(Plan(b, parts)) :
                /\ Plan(b, parts)[i].id = b
                /\ Plan(b, parts)[i].do \in {"exec", "write", "dump", "vol", "meta", "list"}
           /\ \A p \in parts : \E i \in 1 .. Len(Plan(b, parts)) : Plan(b, parts)[i].do = p
<1> DEFINE T(do) == [do |-> do, id |-> b]
           A == IF "dump" \in parts THEN <<T("exec"), T("write"), T("dump")>> ELSE <<>>
           B == IF "vol" \in parts THEN <<T("vol")>> ELSE <<>>
           C == <<T("meta")>>
           D == IF Retention > 0 THEN <<T("list")>> ELSE <<>>
           X == {t \in Task : t.id = b /\ t.do \in {"vol", "meta", "list"}}
<1>1. \A do \in {"exec", "write", "dump", "vol", "meta", "list"} : T(do) \in Task /\ T(do).do = do /\ T(do).id = b
  BY DEF Task
<1> HIDE DEF T
<1>a. T("vol") \in X /\ T("meta") \in X /\ T("list") \in X
  BY <1>1
<1> HIDE DEF X
<1>2. B \in Seq(X) /\ C \in Seq(X) /\ D \in Seq(X) /\ Len(C) = 1
  <2>1. B \in Seq(X) /\ D \in Seq(X)
    BY <1>a
  <2>2. C \in Seq(X) /\ Len(C) = 1
    BY <1>a
  <2> QED BY <2>1, <2>2
<1>3. ASSUME "vol" \in parts PROVE Len(B) = 1 /\ B[1].do = "vol"
  <2>1. B = <<T("vol")>>
    BY <1>3
  <2>2. T("vol").do = "vol"
    BY <1>1
  <2> HIDE DEF B
  <2> QED BY <2>1, <2>2
<1>4. A \in Seq(Task) /\ (Len(A) = 0 \/ Len(A) = 3) /\ ("dump" \in parts => Len(A) = 3)
  <2>1. CASE "dump" \in parts
    BY <1>1, <2>1
  <2>2. CASE "dump" \notin parts
    BY <2>2
  <2> QED BY <2>1, <2>2
<1>5. Len(A) = 3 => A[1] = T("exec") /\ A[2] = T("write") /\ A[3] = T("dump")
  BY <1>1
<1>6. Plan(b, parts) = A \o B \o C \o D
  BY DEF Plan, T
<1> HIDE DEF A, B, C, D
<1>7. PICK Q : Q = B \o C \o D
  OBVIOUS
<1>8. /\ Q \in Seq(X) /\ Q \in Seq(Task)
      /\ "vol" \in parts => \E i \in 1 .. Len(Q) : Q[i].do = "vol"
  <2>0. X \subseteq Task
    BY DEF X
  <2>1. Q \in Seq(X) /\ Q \in Seq(Task)
    BY <1>2, <1>7, <2>0
  <2>2. ASSUME "vol" \in parts PROVE 1 \in 1 .. Len(Q) /\ Q[1] = B[1]
    <3>1. PICK R : R = B \o C
      OBVIOUS
    <3>2. R \in Seq(X) /\ Len(R) = 2 /\ R[1] = B[1]
      BY <1>2, <1>3, <2>2, <3>1, ConcatProperties
    <3> QED BY <1>2, <1>7, <3>1, <3>2
  <2> QED BY <1>3, <2>1, <2>2
<1>9. PICK P : P = A \o Q
  OBVIOUS
<1>10. Plan(b, parts) = P
  <2>0. X \subseteq Task
    BY DEF X
  <2>1. B \in Seq(Task) /\ C \in Seq(Task) /\ D \in Seq(Task) /\ B \o C \in Seq(Task)
    BY <1>2, <2>0
  <2>2. (A \o B) \o C = A \o (B \o C)
    BY <1>4, <2>1, ConcatAssociative, SMTT(30)
  <2>3. PICK R \in Seq(Task) : R = B \o C
    BY <2>1
  <2>a. A \in Seq(Task) /\ R \in Seq(Task) /\ D \in Seq(Task)
    BY <1>4, <2>1, <2>3
  <2>4. (A \o R) \o D = A \o (R \o D)
    BY <2>a, ConcatAssociative
  <2> QED BY <1>6, <1>7, <1>9, <2>2, <2>3, <2>4
<1>11. \A i \in 1 .. Len(Q) : Q[i].id = b /\ Q[i].do \in {"vol", "meta", "list"}
  BY <1>8 DEF X
<1>12. /\ P \in Seq(Task) /\ Len(P) = Len(A) + Len(Q) /\ Len(Q) \in Nat /\ Len(A) \in Nat
       /\ \A i \in 1 .. Len(A) : P[i] = A[i]
       /\ \A i \in 1 .. Len(Q) : P[i + Len(A)] = Q[i] /\ i + Len(A) \in 1 .. Len(P)
  BY <1>4, <1>8, <1>9
<1>13. ASSUME NEW i \in 1 .. Len(P), i > Len(A) PROVE P[i].id = b /\ P[i].do \in {"vol", "meta", "list"}
  <2>1. i - Len(A) \in 1 .. Len(Q) /\ (i - Len(A)) + Len(A) = i
    BY <1>12, <1>13
  <2> QED BY <1>11, <1>12, <2>1
<1>14. ASSUME NEW i \in 1 .. Len(P), i <= Len(A)
       PROVE  P[i].id = b /\ P[i].do \in {"exec", "write", "dump"}
  <2>1. Len(A) = 3 /\ (i = 1 \/ i = 2 \/ i = 3)
    BY <1>4, <1>12, <1>14
  <2>2. P[1] = T("exec") /\ P[2] = T("write") /\ P[3] = T("dump")
    BY <1>5, <1>12, <2>1
  <2>3. /\ T("exec").do = "exec" /\ T("write").do = "write" /\ T("dump").do = "dump"
        /\ T("exec").id = b /\ T("write").id = b /\ T("dump").id = b
    BY <1>1
  <2>4. CASE i = 1
    BY <2>2, <2>3, <2>4
  <2>5. CASE i = 2
    BY <2>2, <2>3, <2>5
  <2>6. CASE i = 3
    BY <2>2, <2>3, <2>6
  <2> QED BY <2>1, <2>4, <2>5, <2>6
<1>15. ASSUME NEW p \in parts PROVE \E i \in 1 .. Len(P) : P[i].do = p
  <2>1. CASE p = "dump"
    <3>0. Len(A) = 3
      BY <1>4, <2>1
    <3>1. Len(A) = 3 /\ 3 \in 1 .. Len(P) /\ P[3] = A[3]
      BY <1>12, <3>0
    <3>2. P[3].do = "dump"
      BY <1>1, <1>5, <3>1
    <3> QED BY <2>1, <3>1, <3>2
  <2>2. CASE p = "vol"
    <3>1. PICK i \in 1 .. Len(Q) : Q[i].do = "vol"
      BY <1>8, <2>2
    <3>2. i + Len(A) \in 1 .. Len(P) /\ P[i + Len(A)].do = "vol"
      BY <1>12, <3>1
    <3> QED BY <2>2, <3>2
  <2> QED BY <2>1, <2>2 DEF Parts
<1>16. \A i \in 1 .. Len(P) : i > Len(A) \/ i <= Len(A)
  BY <1>12
<1>17. \A i \in 1 .. Len(P) :
         P[i].id = b /\ P[i].do \in {"exec", "write", "dump", "vol", "meta", "list"}
  BY <1>13, <1>14, <1>16
<1> QED BY <1>10, <1>15, <1>17

-----------------------------------------------------------------------------
(* Retention *)

(* A backup that is outlived stays so. *)
LEMMA OutlivedGrows ==
    ASSUME IsFiniteSet(made'), made \subseteq made', NEW b, Outlived(b)
    PROVE  Outlived(b)'
<1> DEFINE C == {c \in made : c > b}
           D == {c \in made' : c > b}
<1>1. C \subseteq D /\ D \subseteq made'
  OBVIOUS
<1>2. IsFiniteSet(D)
  BY <1>1, FS_Subset
<1>3. IsFiniteSet(C) /\ Cardinality(C) <= Cardinality(D)
  BY <1>1, <1>2, FS_Subset
<1>4. Cardinality(C) \in Nat /\ Cardinality(D) \in Nat /\ Retention \in Nat
  BY <1>2, <1>3, FS_CardinalityType, BackupConstants
<1>5. Cardinality(C) >= Retention
  BY DEF Outlived
<1>6. Cardinality(D) >= Retention
  BY <1>3, <1>4, <1>5
<1> QED BY <1>6 DEF Outlived

(* A name of a list that has Retention later ones is outlived: they are    *)
(* different, and each was made.                                           *)
LEMMA DoomedOutlived ==
    ASSUME TypeInv, NEW lines \in Seq(Ids), NEW k \in 0 .. Len(lines), NEW names \in Sorted(lines, k),
           \A i, j \in 1 .. Len(lines) : i < j => lines[i] < lines[j],
           \A i \in 1 .. Len(lines) : lines[i] \in made,
           NEW i \in 1 .. k, i + Retention <= k
    PROVE  Outlived(names[i])
<1>0. /\ k \in Nat /\ Retention \in Nat /\ Ids \subseteq Nat /\ made \subseteq Ids /\ IsFiniteSet(made)
      /\ Len(lines) \in Nat
  BY BackupConstants DEF TypeInv, TypeOK, JobInv
<1>1. /\ names \in Seq(Ids) /\ Len(names) = k
      /\ \E f \in Bijection(1 .. k, 1 .. k) : \A n \in 1 .. k : names[n] = lines[f[n]]
      /\ \A n, m \in 1 .. k : n < m => names[n] <= names[m]
  BY SortedFacts
<1>2. PICK f \in Bijection(1 .. k, 1 .. k) : \A n \in 1 .. k : names[n] = lines[f[n]]
  BY <1>1
<1>3. f \in [1 .. k -> 1 .. k] /\ \A n, m \in 1 .. k : f[n] = f[m] => n = m
  BY <1>2 DEF Bijection, Injection, IsInjective
<1>4. \A n \in 1 .. k : f[n] \in 1 .. Len(lines) /\ f[n] \in Int /\ names[n] \in made /\ names[n] \in Nat
  <2> SUFFICES ASSUME NEW n \in 1 .. k
               PROVE  f[n] \in 1 .. Len(lines) /\ f[n] \in Int /\ names[n] \in made /\ names[n] \in Nat
    OBVIOUS
  <2>1. f[n] \in 1 .. k
    BY <1>3
  <2>2. f[n] \in 1 .. Len(lines) /\ f[n] \in Int
    BY <1>0, <2>1
  <2>3. names[n] = lines[f[n]]
    BY <1>2
  <2>4. names[n] \in made
    BY <2>2, <2>3
  <2> QED BY <1>0, <2>2, <2>4
<1>5. \A n, m \in 1 .. Len(lines) : n # m => lines[n] # lines[m]
  <2> SUFFICES ASSUME NEW n \in 1 .. Len(lines), NEW m \in 1 .. Len(lines), n # m PROVE lines[n] # lines[m]
    OBVIOUS
  <2>1. lines[n] \in Nat /\ lines[m] \in Nat
    BY <1>0
  <2>2. n \in Int /\ m \in Int /\ (n < m \/ m < n)
    BY <1>0
  <2> QED BY <2>1, <2>2
<1>6. \A n, m \in 1 .. k : n < m => names[n] < names[m]
  <2> SUFFICES ASSUME NEW n \in 1 .. k, NEW m \in 1 .. k, n < m PROVE names[n] < names[m]
    OBVIOUS
  <2>1. f[n] # f[m] /\ names[n] <= names[m]
    BY <1>0, <1>1, <1>3
  <2>2. names[n] # names[m]
    <3>1. names[n] = lines[f[n]] /\ names[m] = lines[f[m]]
      BY <1>2
    <3>2. f[n] \in 1 .. Len(lines) /\ f[m] \in 1 .. Len(lines)
      BY <1>4
    <3> QED BY <1>5, <2>1, <3>1, <3>2
  <2> QED BY <1>4, <2>1, <2>2
<1> DEFINE S == i + 1 .. k
           L == {c \in made : c > names[i]}
           g == [n \in S |-> names[n]]
<1>7. \A n \in S : n \in 1 .. k /\ i < n
  BY <1>0
<1>8. g \in [S -> L]
  BY <1>4, <1>6, <1>7
<1>9. \A n, m \in S : g[n] = g[m] => n = m
  <2> SUFFICES ASSUME NEW n \in S, NEW m \in S, n # m PROVE g[n] # g[m]
    OBVIOUS
  <2>1. n < m \/ m < n
    BY <1>0
  <2>2. names[n] # names[m]
    BY <1>4, <1>6, <1>7, <2>1
  <2> QED BY <2>2
<1>10. IsFiniteSet(L)
  BY <1>0, FS_Subset
<1>11. Cardinality(S) >= Retention /\ Cardinality(S) \in Nat
  <2>1. IsFiniteSet(S) /\ Cardinality(S) = IF i + 1 > k THEN 0 ELSE k - (i + 1) + 1
    <3>1. i + 1 \in Int /\ k \in Int
      BY <1>0
    <3> QED BY <3>1, FS_Interval
  <2> QED BY <1>0, <2>1
<1> HIDE DEF g, S
<1>12. g \in Injection(S, L)
  BY <1>8, <1>9 DEF Injection, IsInjective
<1>13. Cardinality(S) <= Cardinality(L)
  BY <1>10, <1>12, FS_Injection
<1>14. Cardinality(L) >= Retention
  BY <1>0, <1>10, <1>11, <1>13, FS_CardinalityType
<1> QED BY <1>14 DEF Outlived

(* What a worker has yet to remove is outlived. *)
TodoInv(w) ==
    \A i \in 1 .. Len(job[w].todo) : job[w].todo[i].do = "rm" => Outlived(job[w].todo[i].id)

(* Another worker's move leaves a worker's list and tasks as they were. *)
LEMMA RetainOthers ==
    ASSUME TypeInv, NEW w \in Workers, Move(w), NEW v \in Workers, v # w, ListInv(v), TodoInv(v)
    PROVE  ListInv(v)' /\ TodoInv(v)'
<1>1. pc'[v] = pc[v] /\ job'[v] = job[v] /\ helper'[v] = helper[v]
  BY MoveOthers
<1>2. made \subseteq made' /\ IsFiniteSet(made')
  BY MoveVolume DEF VolumeType
<1>3. ListInv(v)'
  BY <1>1, <1>2 DEF ListInv, Current
<1>4. TodoInv(v)'
  <2> SUFFICES ASSUME NEW i \in 1 .. Len(job[v].todo), job[v].todo[i].do = "rm"
               PROVE  Outlived(job[v].todo[i].id)'
    BY <1>1 DEF TodoInv
  <2>1. PICK b : b = job[v].todo[i].id
    OBVIOUS
  <2>2. Outlived(b)
    BY <2>1 DEF TodoInv
  <2>3. Outlived(b)'
    BY <1>2, <2>2, OutlivedGrows
  <2>4. job'[v].todo[i].id = b
    BY <1>1, <2>1
  <2> QED BY <1>1, <2>1, <2>3, <2>4 DEF Outlived
<1> QED BY <1>3, <1>4

(* A worker that turns to tasks none of which is to remove a backup that   *)
(* is not outlived.                                                        *)
LEMMA RetainTurn ==
    ASSUME TypeInv, NEW w \in Workers, NEW to \in PC, NEW b \in Ids, NEW todo \in Seq(Task),
           Turn(w, to, NewJob(b, todo)), UNCHANGED made,
           \A i \in 1 .. Len(todo) : todo[i].do = "rm" => Outlived(todo[i].id)
    PROVE  ListInv(w)' /\ TodoInv(w)'
<1>1. NewJob(b, todo) \in Job /\ NewJob(b, todo).todo = todo /\ NewJob(b, todo).listing = <<>>
  BY NewJobFacts
<1>2. job'[w].todo = todo /\ job'[w].listing = <<>>
  BY <1>1, TurnFacts
<1>3. ListInv(w)'
  BY <1>2 DEF ListInv
<1>4. TodoInv(w)'
  BY <1>2 DEF TodoInv, Outlived
<1> QED BY <1>3, <1>4

(* What a task leaves to do. *)
LEMMA RetainEnds ==
    ASSUME TypeInv, NEW w \in Workers, NEW more \in Seq(Task), Ends(w, more), ListInv(w), TodoInv(w)
    PROVE  ListInv(w)' /\ TodoInv(w)'
<1>0. job[w].id \in Ids /\ job[w].todo \in Seq(Task) /\ job[w].todo # <<>> /\ job[w].listing \in Seq(Ids)
  BY BusyFacts DEF Ends, Job
<1>e. <<>> \in Seq(Task) /\ Len(<<>>) = 0
  OBVIOUS
<1>u. UNCHANGED made
  BY DEF Ends
<1>1. CASE Fails(w)
  <2>1. PICK t : t = <<>>
    OBVIOUS
  <2>2. t \in Seq(Task) /\ \A i \in 1 .. Len(t) : t[i].do = "rm" => Outlived(t[i].id)
    BY <1>e, <2>1
  <2>3. Turn(w, "idle", NewJob(job[w].id, t))
    BY <1>1, <2>1 DEF Fails, NoJob
  <2> QED BY <1>0, <1>u, <2>2, <2>3, RetainTurn DEF PC
<1>2. CASE GoesOn(w, more)
  <2>1. PICK rest : rest = Tail(job[w].todo) \o more
    OBVIOUS
  <2>2. /\ rest \in Seq(Task)
        /\ \A i \in 1 .. Len(job[w].todo) - 1 : i + 1 \in 1 .. Len(job[w].todo) /\ rest[i] = job[w].todo[i + 1]
        /\ \A i \in 1 .. Len(rest) : \/ i \in 1 .. Len(job[w].todo) - 1
                                     \/ \E j \in 1 .. Len(more) : rest[i] = more[j]
    <3>1. PICK todo : todo = job[w].todo
      OBVIOUS
    <3>2. /\ rest \in Seq(Task)
          /\ \A i \in 1 .. Len(todo) - 1 : i + 1 \in 1 .. Len(todo) /\ rest[i] = todo[i + 1]
          /\ \A i \in 1 .. Len(rest) : i \in 1 .. Len(todo) - 1 \/ \E j \in 1 .. Len(more) : rest[i] = more[j]
      <4>1. todo \in Seq(Task) /\ todo # <<>> /\ rest = Tail(todo) \o more
        BY <1>0, <2>1, <3>1
      <4> QED BY <4>1, RestFacts
    <3> QED BY <3>1, <3>2
  <2>3. ASSUME NEW j \in 1 .. Len(more) PROVE Outlived(more[j].id)
    <3>1. Lists(w, more)
      <4>1. Len(more) \in Nat /\ j \in Nat /\ Len(more) >= 1
        OBVIOUS
      <4>2. more # <<>>
        BY <4>1, <1>e
      <4> QED BY <4>2 DEF Ends
    <3>2. PICK k \in 0 .. Len(job[w].listing) : \E names \in Sorted(job[w].listing, k) : more = Prune(k, names)
      BY <3>1 DEF Lists
    <3>3. PICK names \in Sorted(job[w].listing, k) : more = Prune(k, names)
      BY <3>2
    <3>4. names \in Seq(Ids) /\ Len(names) = k /\ k \in Nat
      BY <1>0, SortedFacts
    <3>5. j + Retention <= k /\ more[j] = [do |-> "rm", id |-> names[j]]
      BY <3>3, <3>4, PruneFacts
    <3>6. j \in 1 .. k
      BY <3>4, <3>5, BackupConstants
    <3>7. Outlived(names[j])
      BY <1>0, <3>5, <3>6, DoomedOutlived DEF ListInv
    <3>8. more[j].id = names[j]
      BY <3>5
    <3> QED BY <3>7, <3>8
  <2>4. \A i \in 1 .. Len(rest) : rest[i].do = "rm" => Outlived(rest[i].id)
    BY <2>2, <2>3 DEF TodoInv
  <2>5. Entry(rest) \in PC /\ Turn(w, Entry(rest), NewJob(job[w].id, rest))
    BY <1>2, <2>1, <2>2, EntryFacts DEF GoesOn, Rest, PC
  <2> QED BY <1>0, <1>u, <2>2, <2>4, <2>5, RetainTurn
<1> QED BY <1>1, <1>2 DEF Ends

(* The worker that moves. *)
LEMMA RetainMover ==
    ASSUME TypeInv, NEW w \in Workers, Move(w), ListInv(w), TodoInv(w), ListedOnce'
    PROVE  ListInv(w)' /\ TodoInv(w)'
<1>0. pc \in [Workers -> PC] /\ job \in [Workers -> Job] /\ job[w].id \in Ids
      /\ helper \in [Workers -> {NoHelper, "running", "restarting"}]
  BY TypeParts DEF MoveType, Job
<1>e. <<>> \in Seq(Task) /\ Len(<<>>) = 0
  OBVIOUS
<1>m. made \subseteq made' /\ IsFiniteSet(made')
  BY MoveVolume DEF VolumeType
<1>t. ASSUME job'[w].todo = job[w].todo PROVE TodoInv(w)'
  <2> SUFFICES ASSUME NEW i \in 1 .. Len(job[w].todo), job[w].todo[i].do = "rm"
               PROVE  Outlived(job[w].todo[i].id)'
    BY <1>t DEF TodoInv
  <2>1. PICK b : b = job[w].todo[i].id
    OBVIOUS
  <2>2. Outlived(b)
    BY <2>1 DEF TodoInv
  <2>3. Outlived(b)'
    BY <1>m, <2>2, OutlivedGrows
  <2>4. job'[w].todo[i].id = b
    BY <1>t, <2>1
  <2> QED BY <1>t, <2>1, <2>3, <2>4 DEF Outlived
<1>1. ASSUME NEW more \in Seq(Task), Ends(w, more) PROVE ListInv(w)' /\ TodoInv(w)'
  BY <1>1, RetainEnds
<1>2. ASSUME NEW to \in PC, Shifts(w, to) PROVE ListInv(w)' /\ TodoInv(w)'
  <2>1. job' = job /\ helper' = helper
    BY <1>2 DEF Shifts
  <2>2. pc[w] \in {"started", "wait", "exited", "sizing"} => pc'[w] \in {"started", "wait", "exited", "sizing"}
    BY <1>0, <1>2 DEF Shifts
  <2>3. ListInv(w)'
    BY <1>m, <2>1, <2>2 DEF ListInv, Current
  <2> QED BY <1>t, <2>1, <2>3
<1>3. CASE Starts(w)
  <2>1. job' = job /\ helper'[w] = "running"
    BY <1>0, <1>3 DEF Starts
  <2>2. job[w].listing = <<>>
    <3>1. CASE pc[w] = "start"
      BY <3>1 DEF ListInv
    <3>2. CASE helper[w] = "restarting" /\ again' = again \cup {<<Current(w).do, Current(w).id>>}
      <4>1. Current(w).id \in Ids
        BY <3>2, BusyFacts DEF TypeInv, TypeOK, NoHelper, Task
      <4>2. Current(w).do # "list"
        BY <3>2, <4>1 DEF ListedOnce
      <4> QED BY <4>2 DEF ListInv
    <3> QED BY <1>3, <3>1, <3>2 DEF Starts
  <2>3. ListInv(w)'
    BY <1>e, <2>1, <2>2 DEF ListInv
  <2> QED BY <1>t, <2>1, <2>3
<1>4. ASSUME NEW l \in Listings, NEW c \in {0, 1}, Exits(w, l, c) PROVE ListInv(w)' /\ TodoInv(w)'
  <2>1. /\ pc[w] \in {"started", "wait", "exited", "sizing"} /\ job'[w].todo = job[w].todo
        /\ job'[w].listing = IF Current(w).do = "list" THEN job[w].listing \o l ELSE job[w].listing
    BY <1>4, ExitsFacts
  <2>2. pc'[w] \in {"started", "wait", "exited", "sizing"} /\ helper'[w] = "restarting" /\ job[w].listing = <<>>
    BY <1>0, <1>4, <2>1 DEF Exits, ListInv
  <2>3. Current(w)' = Current(w)
    BY <2>1 DEF Current
  <2>4. /\ l \in Seq(Ids)
        /\ \A i \in 1 .. Len(l) : l[i] \in made
        /\ \A i, j \in 1 .. Len(l) : i < j => l[i] < l[j]
    BY ListingsFacts
  <2>5. CASE Current(w).do = "list"
    <3>1. job'[w].listing = l
      BY <2>1, <2>2, <2>4, <2>5, ConcatEmptySeq
    <3> QED BY <1>m, <1>t, <2>1, <2>2, <2>3, <2>4, <2>5, <3>1 DEF ListInv
  <2>6. CASE Current(w).do # "list"
    <3>1. job'[w].listing = <<>>
      BY <2>1, <2>2, <2>6
    <3>2. ListInv(w)'
      BY <1>e, <3>1 DEF ListInv
    <3> QED BY <1>t, <2>1, <3>2
  <2> QED BY <2>5, <2>6
<1>5. CASE Succeed(w)
  <2>1. Turn(w, "idle", NewJob(job[w].id, <<>>)) /\ UNCHANGED made
    BY <1>5 DEF Succeed, Answer, Go, Turn, NoJob, volumeVars
  <2>2. PICK t : t = <<>>
    OBVIOUS
  <2>3. t \in Seq(Task) /\ \A i \in 1 .. Len(t) : t[i].do = "rm" => Outlived(t[i].id)
    BY <1>e, <2>2
  <2> QED BY <1>0, <2>1, <2>2, <2>3, RetainTurn DEF PC
<1>6. ASSUME NEW b \in Ids, ReceiveDelete(w, b) PROVE ListInv(w)' /\ TodoInv(w)'
  <2>1. PICK t : t = [do |-> "delete", id |-> b]
    OBVIOUS
  <2>2. t \in Task /\ t.do = "delete"
    BY <2>1 DEF Task
  <2>3. <<t>> \in Seq(Task) /\ \A i \in 1 .. Len(<<t>>) : <<t>>[i] = t
    BY <2>2
  <2>4. Turn(w, "ensure", NewJob(b, <<t>>)) /\ UNCHANGED made
    BY <1>6, <2>1 DEF ReceiveDelete, Go, Turn, volumeVars
  <2> QED BY <2>2, <2>3, <2>4, RetainTurn DEF PC
<1>7. ASSUME NEW b \in Ids, NEW parts \in Kinds, ReceiveBackup(w, b, parts) PROVE ListInv(w)' /\ TodoInv(w)'
  <2>0. parts \in SUBSET Parts
    BY BackupConstants DEF Parts
  <2>1. PICK t : t = Plan(b, parts)
    OBVIOUS
  <2>2. t \in Seq(Task) /\ \A i \in 1 .. Len(t) : t[i].do # "rm"
    BY <2>0, <2>1, PlanType, PlanFacts
  <2>3. Turn(w, Entry(t), NewJob(b, t)) /\ UNCHANGED made
    BY <1>7, <2>1 DEF ReceiveBackup, Go, Turn, volumeVars
  <2>4. Entry(t) \in PC
    BY <2>2, EntryFacts DEF PC
  <2> QED BY <2>2, <2>3, <2>4, RetainTurn
<1> QED BY <1>1, <1>2, <1>3, <1>4, <1>5, <1>6, <1>7 DEF Move

(* What a prune removes was one of the tasks of its command. *)
LEMMA MovePrunes ==
    ASSUME TypeInv, NEW w \in Workers, Move(w), NEW b \in pruned', b \notin pruned
    PROVE  job[w].todo # <<>> /\ job[w].todo[1].do = "rm" /\ job[w].todo[1].id = b /\ Len(job[w].todo) >= 1
<1>0. VolumeType
  BY TypeParts
<1>1. ASSUME NEW d, DirOK(d), Shell(Current(w), d), pc[w] \notin {"idle", "done"}
      PROVE  job[w].todo # <<>> /\ job[w].todo[1].do = "rm" /\ job[w].todo[1].id = b /\ Len(job[w].todo) >= 1
  <2>1. /\ Current(w) \in Task /\ Current(w) = job[w].todo[1] /\ job[w].todo # <<>> /\ Len(job[w].todo) > 0
        /\ job[w].todo \in Seq(Task)
    BY <1>1, BusyFacts
  <2>2. Current(w).do = "rm" /\ b = Current(w).id
    BY <1>1, <2>1, ShellFacts
  <2> QED BY <2>1, <2>2
<1>2. pc[w] \notin {"idle", "done"} => DirOK(dir[Current(w).id]) /\ Current(w) \in Task
  BY <1>0, BusyFacts DEF VolumeType, DirOK, Task
<1>3. CASE Starts(w)
  <2>1. pc[w] \notin {"idle", "done"}
    BY <1>3 DEF Starts, TypeInv, TypeOK, NoHelper
  <2>2. DirOK(Begun(Current(w), dir[Current(w).id]))
    BY <1>2, <2>1, BegunFacts
  <2> QED BY <1>1, <1>3, <2>1, <2>2 DEF Starts
<1>4. ASSUME NEW l \in Listings, NEW c \in {0, 1}, Exits(w, l, c)
      PROVE  job[w].todo # <<>> /\ job[w].todo[1].do = "rm" /\ job[w].todo[1].id = b /\ Len(job[w].todo) >= 1
  <2>1. pc[w] \notin {"idle", "done"}
    BY <1>4, ExitsFacts
  <2>2. DirOK(Ended(Current(w), dir[Current(w).id]))
    BY <1>2, <2>1, EndedFacts
  <2>3. Shell(Current(w), Ended(Current(w), dir[Current(w).id]))
    BY <1>4 DEF Exits
  <2> QED BY <1>1, <2>1, <2>2, <2>3
<1>5. ASSUME \/ \E more \in Seq(Task) : Ends(w, more)
             \/ \E to \in PC : Shifts(w, to)
             \/ Succeed(w)
             \/ \E a \in Ids : ReceiveDelete(w, a) \/ \E parts \in Kinds : ReceiveBackup(w, a, parts)
      PROVE  pruned' = pruned
  BY <1>5 DEF Ends, Shifts, Succeed, ReceiveDelete, ReceiveBackup, volumeVars
<1> QED BY <1>3, <1>4, <1>5 DEF Move

(* Every step keeps what it takes to remove no backup too many. *)
LEMMA NextRetain == TypeInv /\ RetainInv /\ [Next]_vars => RetainInv'
<1> SUFFICES ASSUME TypeInv, RetainInv, [Next]_vars PROVE RetainInv'
  OBVIOUS
<1>1. CASE Next
  <2> SUFFICES ASSUME ListedOnce'
               PROVE  (\A b \in pruned : Outlived(b))' /\ (\A v \in Workers : ListInv(v) /\ TodoInv(v))'
    BY DEF RetainInv, TodoInv
  <2>1. PICK w \in Workers : Move(w)
    BY <1>1, NextIsMove
  <2>2. made \subseteq made' /\ IsFiniteSet(made') /\ again \subseteq again'
    BY <2>1, MoveVolume DEF VolumeType
  <2>3. ListedOnce
    BY <2>2 DEF ListedOnce
  <2>4. (\A b \in pruned : Outlived(b)) /\ (\A v \in Workers : ListInv(v) /\ TodoInv(v))
    BY <2>3 DEF RetainInv, TodoInv
  <2>5. ASSUME NEW v \in Workers PROVE ListInv(v)' /\ TodoInv(v)'
    <3>1. CASE v = w
      BY <2>1, <2>4, <3>1, RetainMover
    <3>2. CASE v # w
      BY <2>1, <2>4, <3>2, RetainOthers
    <3> QED BY <3>1, <3>2
  <2>6. ASSUME NEW b \in pruned' PROVE Outlived(b)'
    <3>1. CASE b \in pruned
      BY <2>2, <2>4, <3>1, OutlivedGrows
    <3>2. CASE b \notin pruned
      <4>1. job[w].todo[1].do = "rm" /\ job[w].todo[1].id = b /\ Len(job[w].todo) >= 1
        BY <2>1, <3>2, MovePrunes
      <4>2. job[w].todo \in Seq(Task)
        BY DEF TypeInv, TypeOK, Job
      <4>3. 1 \in 1 .. Len(job[w].todo)
        BY <4>1, <4>2
      <4>4. Outlived(b)
        BY <2>4, <4>1, <4>3 DEF TodoInv
      <4> QED BY <2>2, <4>4, OutlivedGrows
    <3> QED BY <3>1, <3>2
  <2> QED BY <2>5, <2>6 DEF Outlived
<1>2. CASE UNCHANGED vars
  BY <1>2 DEF RetainInv, ListedOnce, Outlived, ListInv, Current, vars, volumeVars, historyVars
<1> QED BY <1>1, <1>2

(* Initially. *)
LEMMA InitRetain == Init => RetainInv
<1> SUFFICES ASSUME Init PROVE RetainInv
  OBVIOUS
<1> DEFINE b == CHOOSE b \in Ids : TRUE
<1>1. b \in Ids /\ <<>> \in Seq(Task) /\ Len(<<>>) = 0
  BY BackupConstants
<1> HIDE DEF b
<1>2. NoJob(b).todo = <<>> /\ NoJob(b).listing = <<>>
  BY <1>1, NewJobFacts DEF NoJob
<1>3. pruned = {} /\ \A w \in Workers : job[w].todo = <<>> /\ job[w].listing = <<>>
  BY <1>2 DEF Init, b
<1> QED BY <1>1, <1>3 DEF RetainInv, ListInv

(* enforceRetention removes a backup only if retention_count backups with  *)
(* later names have been made, for any number of commands that list and    *)
(* remove at the same time.  (If no list was printed twice.)               *)
THEOREM RetentionIsKept == Spec => []RetentionKeeps
<1>1. Init => RetainInv
  BY InitRetain
<1>2. TypeInv /\ RetainInv /\ [Next]_vars => RetainInv'
  BY NextRetain
<1>3. RetainInv => RetentionKeeps
  BY DEF RetainInv, RetentionKeeps, ListedOnce, Outlived
<1> QED BY <1>1, <1>2, <1>3, TypeInvariance, PTL DEF Spec

-----------------------------------------------------------------------------
(* What is answered was written *)

(* What a command that begins does to the parts of a backup. *)
LEMMA BegunParts ==
    ASSUME NEW t \in Task, NEW d, DirOK(d), NEW p \in Parts
    PROVE  /\ t.do # p => Begun(t, d)[p] = d[p]
           /\ t.do = p => Begun(t, d)[p] = "partial"
<1> USE DEF DirOK, Dirs, Quality, Parts
<1>1. CASE t.do = "dump"
  BY <1>1 DEF Begun, DumpBegun
<1>2. CASE t.do = "vol"
  BY <1>2 DEF Begun, ArchiveBegun
<1>3. CASE t.do = "meta"
  BY <1>3 DEF Begun, MetadataBegun
<1>4. CASE t.do \notin {"dump", "vol", "meta"}
  BY <1>4 DEF Begun
<1> QED BY <1>1, <1>2, <1>3, <1>4

(* And one that ends well, unless it is to remove the backup. *)
LEMMA EndedParts ==
    ASSUME NEW t \in Task, NEW d, DirOK(d), NEW p \in Parts, t.do \notin {"rm", "delete"}
    PROVE  /\ d[p] # "missing" => Ended(t, d)[p] # "missing"
           /\ d[p] # "missing" /\ t.do = p => Ended(t, d)[p] = "whole"
<1> USE DEF DirOK, Dirs, Quality, Parts
<1>0. Filled("partial") = "whole" /\ Filled("whole") = "whole" /\ Filled("missing") = "missing"
  BY DEF Filled
<1>1. CASE t.do = "write"
  BY <1>1 DEF Ended
<1>2. CASE t.do = "dump"
  BY <1>0, <1>2 DEF Ended
<1>3. CASE t.do = "vol"
  BY <1>0, <1>3 DEF Ended
<1>4. CASE t.do = "meta"
  BY <1>0, <1>4 DEF Ended
<1>5. CASE t.do \in {"exec", "list"}
  BY <1>5 DEF Ended
<1> QED BY <1>1, <1>2, <1>3, <1>4, <1>5 DEF Task

(* The moves that touch the volume. *)
LEMMA MoveShell ==
    ASSUME TypeInv, NEW w \in Workers, Move(w)
    PROVE  \/ UNCHANGED dir
           \/ Starts(w) /\ pc[w] \notin {"idle", "done"}
           \/ /\ pc[w] \notin {"idle", "done"} /\ helper[w] = "running"
              /\ Shell(Current(w), Ended(Current(w), dir[Current(w).id]))
<1>1. Starts(w) => pc[w] \notin {"idle", "done"}
  BY DEF Starts, TypeInv, TypeOK, NoHelper
<1>2. ASSUME NEW l \in Listings, NEW c \in {0, 1}, Exits(w, l, c)
      PROVE  \/ UNCHANGED dir
             \/ /\ pc[w] \notin {"idle", "done"} /\ helper[w] = "running"
                /\ Shell(Current(w), Ended(Current(w), dir[Current(w).id]))
  <2>1. pc[w] \notin {"idle", "done"}
    BY <1>2, ExitsFacts
  <2> QED BY <1>2, <2>1 DEF Exits
<1>3. ASSUME \/ \E more \in Seq(Task) : Ends(w, more)
             \/ \E to \in PC : Shifts(w, to)
             \/ Succeed(w)
             \/ \E a \in Ids : ReceiveDelete(w, a) \/ \E parts \in Kinds : ReceiveBackup(w, a, parts)
      PROVE  UNCHANGED dir
  BY <1>3 DEF Ends, Shifts, Succeed, ReceiveDelete, ReceiveBackup, volumeVars
<1> QED BY <1>1, <1>2, <1>3 DEF Move

(* A part that was written stays so. *)
LEMMA MoveKept ==
    ASSUME TypeInv, NEW w \in Workers, Move(w), NEW b \in Ids, NEW p \in Parts, Kept(b, p)
    PROVE  Kept(b, p)'
BY MoveVolume DEF Kept

(* A file that is there goes only with its backup. *)
LEMMA MoveFound ==
    ASSUME TypeInv, NEW w \in Workers, Move(w), NEW b \in Ids, NEW p \in Parts, Found(b, p)
    PROVE  Found(b, p)'
<1>0. VolumeType
  BY TypeParts
<1>1. removed \subseteq removed'
  BY MoveVolume
<1>2. CASE b \in removed \/ UNCHANGED dir
  BY <1>1, <1>2 DEF Found
<1> SUFFICES ASSUME dir[b][p] # "missing", ~UNCHANGED dir PROVE Found(b, p)'
  BY <1>2 DEF Found
<1>4. pc[w] \notin {"idle", "done"}
  BY MoveShell
<1>5. PICK t : t = Current(w)
  OBVIOUS
<1>6. t \in Task /\ t.id \in Ids /\ DirOK(dir[t.id])
  BY <1>0, <1>4, <1>5, BusyFacts DEF VolumeType, DirOK, Task
<1>7. CASE Starts(w)
  <2>1. DirOK(Begun(t, dir[t.id])) /\ Shell(t, Begun(t, dir[t.id]))
    BY <1>5, <1>6, <1>7, BegunFacts DEF Starts
  <2>2. dir'[t.id] = Begun(t, dir[t.id]) /\ \A a \in Ids : a # t.id => dir'[a] = dir[a]
    BY <1>6, <2>1, ShellFacts
  <2>3. CASE b # t.id
    BY <2>2, <2>3 DEF Found
  <2>4. CASE b = t.id
    <3>1. dir'[b][p] # "missing"
      BY <1>6, <2>2, <2>4, BegunParts
    <3> QED BY <3>1 DEF Found
  <2> QED BY <2>3, <2>4
<1>8. CASE Shell(Current(w), Ended(Current(w), dir[Current(w).id]))
  <2>1. DirOK(Ended(t, dir[t.id])) /\ Shell(t, Ended(t, dir[t.id]))
    BY <1>5, <1>6, <1>8, EndedFacts
  <2>2. /\ dir'[t.id] = Ended(t, dir[t.id]) /\ \A a \in Ids : a # t.id => dir'[a] = dir[a]
        /\ dir[t.id].exists /\ ~Ended(t, dir[t.id]).exists => t.id \in removed'
    BY <1>6, <2>1, ShellFacts
  <2>3. CASE b # t.id
    BY <2>2, <2>3 DEF Found
  <2>4. CASE b = t.id /\ t.do \in {"rm", "delete"}
    <3>1. Ended(t, dir[t.id]) = NoDir
      BY <2>4 DEF Ended
    <3>2. dir[b].exists
      BY <1>6, <2>4, NoDirFacts DEF DirOK, Parts
    <3>3. b \in removed'
      BY <2>2, <2>4, <3>1, <3>2, NoDirFacts
    <3> QED BY <3>3 DEF Found
  <2>5. CASE b = t.id /\ t.do \notin {"rm", "delete"}
    <3>1. dir'[b][p] # "missing"
      BY <1>6, <2>2, <2>5, EndedParts
    <3> QED BY <3>1 DEF Found
  <2> QED BY <2>3, <2>4, <2>5
<1> QED BY <1>7, <1>8, MoveShell

(* Who is answered, and what is asked for. *)
LEMMA MoveAnswers ==
    ASSUME TypeInv, NEW w \in Workers, Move(w), NEW b \in Ids
    PROVE  /\ result'[b] # result[b] => /\ pc[w] # "idle" /\ pc'[w] = "idle" /\ job[w].id = b
                                        /\ result[b] = "none" /\ result'[b] # "none"
                                        /\ result'[b] = "ok" => pc[w] = "done"
           /\ result'[b] = "none" => result[b] = "none"
           /\ asked'[b] # asked[b] => /\ result[b] = "none"
                                      /\ \A v \in Workers : pc[v] # "idle" => job[v].id # b
<1>0. /\ result \in [Ids -> {"none", "ok", "failed"}] /\ pc \in [Workers -> PC] /\ job[w].id \in Ids
      /\ asked \in [Ids -> SUBSET Parts]
  BY TypeParts DEF MoveType, VolumeType, Job
<1>1. ASSUME NEW more \in Seq(Task), Ends(w, more)
      PROVE  /\ asked' = asked
             /\ result'[b] # result[b] => /\ pc[w] # "idle" /\ pc'[w] = "idle" /\ job[w].id = b
                                          /\ result[b] = "none" /\ result'[b] = "failed"
  <2>1. asked' = asked /\ pc[w] # "idle"
    BY <1>1 DEF Ends
  <2>2. CASE Fails(w)
    BY <1>0, <2>1, <2>2 DEF Fails, Turn
  <2>3. CASE GoesOn(w, more)
    BY <2>1, <2>3 DEF GoesOn
  <2> QED BY <1>1, <2>2, <2>3 DEF Ends
<1>2. CASE Succeed(w)
  BY <1>0, <1>2 DEF Succeed, Answer, Go
<1>3. ASSUME NEW a \in Ids, NEW parts \in Kinds, ReceiveBackup(w, a, parts)
      PROVE  /\ result' = result
             /\ asked'[b] # asked[b] => result[b] = "none" /\ \A v \in Workers : pc[v] # "idle" => job[v].id # b
  BY <1>0, <1>3 DEF ReceiveBackup
<1>4. ASSUME \/ \E to \in PC : Shifts(w, to)
             \/ Starts(w)
             \/ \E l \in Listings, c \in {0, 1} : Exits(w, l, c)
             \/ \E a \in Ids : ReceiveDelete(w, a)
      PROVE  result' = result /\ asked' = asked
  BY <1>4 DEF Shifts, Starts, Exits, ReceiveDelete, historyVars
<1> QED BY <1>1, <1>2, <1>3, <1>4 DEF Move

(* Another worker's move leaves a command's backup as it was. *)
LEMMA StoreOthers ==
    ASSUME TypeInv, StoreInv, NEW w \in Workers, Move(w), NEW v \in Workers, v # w
    PROVE  OwnInv(v)' /\ DueInv(v)' /\ FillInv(v)'
<1>0. pc'[v] = pc[v] /\ job'[v] = job[v] /\ helper'[v] = helper[v]
  BY MoveOthers
<1>1. PICK b \in Ids : b = job[v].id
  BY DEF TypeInv, TypeOK, Job
<1>2. OwnInv(v) /\ DueInv(v) /\ FillInv(v)
  BY DEF StoreInv
<1>3. OwnInv(v)'
  BY <1>0, <1>2 DEF OwnInv
<1>4. DueInv(v)'
  <2> SUFFICES ASSUME pc'[v] # "idle", result'[b] = "none", NEW p \in asked'[b]
               PROVE  Kept(b, p)' \/ Pending(v, p)'
    BY <1>0, <1>1 DEF DueInv, Writing, Kept
  <2>1. result'[b] = "none" => result[b] = "none"
    BY MoveAnswers
  <2>2. asked'[b] # asked[b] => result[b] = "none" /\ \A u \in Workers : pc[u] # "idle" => job[u].id # b
    BY MoveAnswers
  <2>3. Writing(v)
    BY <1>0, <1>1, <2>1 DEF Writing
  <2>4. p \in asked[b] /\ p \in Parts
    BY <1>0, <1>1, <2>2 DEF TypeInv, TypeOK, Parts
  <2>5. Kept(b, p) \/ Pending(v, p)
    BY <1>1, <1>2, <2>3, <2>4 DEF DueInv
  <2>6. Pending(v, p) => Pending(v, p)'
    BY <1>0 DEF Pending
  <2> QED BY <2>4, <2>5, <2>6, MoveKept
<1>5. FillInv(v)'
  <2> SUFFICES ASSUME NEW p \in Parts
               PROVE  /\ helper[v] = "running" /\ Current(v).do = p => Found(b, p)'
                      /\ pc[v] \in {"exited", "sizing"} /\ Current(v).do = p /\ job[v].code = 0 => Kept(b, p)'
    BY <1>0, <1>1 DEF FillInv, Current, Found, Kept
  <2>1. ASSUME helper[v] = "running", Current(v).do = p PROVE Found(b, p)'
    <3>1. Found(b, p)
      BY <1>1, <1>2, <2>1 DEF FillInv
    <3> QED BY <3>1, MoveFound
  <2>2. ASSUME pc[v] \in {"exited", "sizing"}, Current(v).do = p, job[v].code = 0 PROVE Kept(b, p)'
    <3>1. Kept(b, p)
      BY <1>1, <1>2, <2>2 DEF FillInv
    <3> QED BY <3>1, MoveKept
  <2> QED BY <2>1, <2>2
<1> QED BY <1>3, <1>4, <1>5

(* A command that is over has nothing to write. *)
LEMMA StoreIdle ==
    ASSUME TypeInv, NEW w \in Workers, Turn(w, "idle", NoJob(job[w].id)), helper'[w] # "running"
    PROVE  OwnInv(w)' /\ DueInv(w)' /\ FillInv(w)'
<1>0. job[w].id \in Ids /\ <<>> \in Seq(Task) /\ Len(<<>>) = 0
  BY DEF TypeInv, TypeOK, Job
<1>1. NoJob(job[w].id) \in Job /\ NoJob(job[w].id).todo = <<>>
  BY <1>0, NewJobFacts DEF NoJob
<1>2. pc'[w] = "idle" /\ job'[w].todo = <<>>
  BY <1>1, TurnFacts DEF PC
<1>3. OwnInv(w)'
  BY <1>0, <1>2 DEF OwnInv
<1>4. DueInv(w)' /\ FillInv(w)'
  BY <1>2 DEF DueInv, FillInv, Writing
<1> QED BY <1>3, <1>4

(* A command that goes on: what is over was written, the rest is to do. *)
LEMMA StoreGoesOn ==
    ASSUME TypeInv, NEW w \in Workers, OwnInv(w), DueInv(w), FillInv(w),
           NEW more \in Seq(Task), Ends(w, more), GoesOn(w, more),
           Current(w).do \in Parts => pc[w] \in {"exited", "sizing"} /\ job[w].code = 0
    PROVE  OwnInv(w)' /\ DueInv(w)' /\ FillInv(w)'
<1>1. /\ pc[w] \notin {"idle", "done"} /\ helper' = [helper EXCEPT ![w] = NoHelper] /\ result' = result
      /\ UNCHANGED <<dir, removed, asked, written>>
  BY DEF Ends, GoesOn
<1>2. /\ job[w].id \in Ids /\ job[w].todo \in Seq(Task) /\ job[w].todo # <<>> /\ Current(w) = job[w].todo[1]
      /\ job[w].listing \in Seq(Ids)
  BY <1>1, BusyFacts DEF Job
<1>3. PICK b \in Ids, todo \in Seq(Task) : b = job[w].id /\ todo = job[w].todo
  BY <1>2
<1>r. PICK rest : rest = Tail(todo) \o more
  OBVIOUS
<1>4. /\ rest \in Seq(Task) /\ Len(rest) = Len(todo) - 1 + Len(more) /\ Len(todo) >= 1
      /\ \A i \in 1 .. Len(todo) - 1 : i + 1 \in 1 .. Len(todo) /\ rest[i] = todo[i + 1]
      /\ \A i \in 1 .. Len(rest) : i \in 1 .. Len(todo) - 1 \/ \E j \in 1 .. Len(more) : rest[i] = more[j]
  <2>1. todo # <<>> /\ rest = Tail(todo) \o more
    BY <1>2, <1>3, <1>r
  <2>2. ASSUME NEW i \in 1 .. Len(rest) PROVE i \in 1 .. Len(todo) - 1 \/ \E j \in 1 .. Len(more) : rest[i] = more[j]
    BY <2>1, RestFacts
  <2> QED BY <2>1, <2>2, RestFacts
<1>5. Turn(w, Entry(rest), NewJob(b, rest)) /\ NewJob(b, rest) \in Job
  BY <1>3, <1>r, <1>4, NewJobFacts DEF GoesOn, Rest
<1>6. Entry(rest) \in {"done", "exec", "start", "ensure"} /\ Entry(rest) \in PC
  BY <1>4, EntryFacts DEF PC
<1>7. /\ pc'[w] \in {"done", "exec", "start", "ensure"} /\ job'[w].id = b /\ job'[w].todo = rest
  BY <1>4, <1>5, <1>6, TurnFacts, NewJobFacts
<1>8. helper'[w] = NoHelper
  BY <1>1 DEF TypeInv, TypeOK
<1>9. ASSUME NEW j \in 1 .. Len(more) PROVE more[j].do = "rm"
  <2>1. Len(more) \in Nat /\ Len(more) >= 1 /\ Len(<<>>) = 0
    OBVIOUS
  <2>2. Lists(w, more)
    BY <2>1 DEF Ends
  <2>3. PICK k \in 0 .. Len(job[w].listing) : \E names \in Sorted(job[w].listing, k) : more = Prune(k, names)
    BY <2>2 DEF Lists
  <2>4. PICK names \in Sorted(job[w].listing, k) : more = Prune(k, names)
    BY <2>3
  <2>5. names \in Seq(Ids) /\ Len(names) = k /\ k \in Nat
    BY <1>2, SortedFacts
  <2>6. more[j] = [do |-> "rm", id |-> names[j]]
    BY <2>4, <2>5, PruneFacts
  <2> QED BY <2>6
<1>10. ASSUME NEW i \in 1 .. Len(rest), rest[i].do # "rm"
       PROVE  i \in 1 .. Len(todo) - 1 /\ i + 1 \in 1 .. Len(todo) /\ rest[i] = todo[i + 1]
  BY <1>4, <1>9, <1>10
<1>11. Writing(w)' <=> Writing(w)
  BY <1>1, <1>3, <1>7 DEF Writing
<1>12. OwnInv(w)'
  <2> SUFFICES ASSUME NEW i \in 1 .. Len(rest), rest[i].do \in Parts PROVE rest[i].id = b
    BY <1>7 DEF OwnInv
  <2>1. i + 1 \in 1 .. Len(todo) /\ rest[i] = todo[i + 1]
    BY <1>10 DEF Parts
  <2> QED BY <1>3, <2>1 DEF OwnInv
<1>13. DueInv(w)'
  <2> SUFFICES ASSUME Writing(w)', NEW p \in asked[b] PROVE Kept(b, p)' \/ Pending(w, p)'
    BY <1>1, <1>7 DEF DueInv, Kept
  <2>a. Kept(b, p) => Kept(b, p)'
    BY <1>1 DEF Kept
  <2>b. (\E i \in 1 .. Len(rest) : rest[i].do = p) => Pending(w, p)'
    BY <1>7 DEF Pending
  <2>0. p \in Parts
    BY DEF TypeInv, TypeOK, Parts
  <2>1. Kept(b, p) \/ \E i \in 1 .. Len(todo) : todo[i].do = p
    BY <1>3, <1>11 DEF DueInv, Pending
  <2>2. ASSUME NEW i \in 1 .. Len(todo), todo[i].do = p, ~Kept(b, p)
        PROVE  \E j \in 1 .. Len(rest) : rest[j].do = p
    <3>1. CASE i = 1
      <4>1. Current(w).do = p
        BY <1>2, <1>3, <2>2, <3>1
      <4>2. Kept(b, p)
        BY <1>3, <2>0, <4>1 DEF FillInv
      <4> QED BY <2>2, <4>2
    <3>2. CASE i # 1
      <4>1. i - 1 \in 1 .. Len(todo) - 1 /\ i - 1 \in 1 .. Len(rest) /\ (i - 1) + 1 = i
        BY <1>4, <3>2
      <4>2. rest[i - 1] = todo[(i - 1) + 1]
        BY <1>4, <4>1
      <4>3. rest[i - 1].do = p
        BY <2>2, <4>1, <4>2
      <4> QED BY <4>1, <4>3
    <3> QED BY <3>1, <3>2
  <2> QED BY <2>1, <2>2, <2>a, <2>b
<1>14. FillInv(w)'
  BY <1>7, <1>8 DEF FillInv, NoHelper
<1> QED BY <1>12, <1>13, <1>14

(* A helper that begins or ends: the command stays at its task. *)
LEMMA StoreHelper ==
    ASSUME TypeInv, NEW w \in Workers, Move(w), OwnInv(w), DueInv(w),
           pc[w] # "idle", pc'[w] # "idle", result' = result, asked' = asked,
           job'[w].id = job[w].id, job'[w].todo = job[w].todo
    PROVE  OwnInv(w)' /\ DueInv(w)'
<1>1. Writing(w)' <=> Writing(w)
  BY DEF Writing
<1>2. OwnInv(w)'
  BY <1>1 DEF OwnInv
<1>3. PICK b \in Ids : b = job[w].id
  BY DEF TypeInv, TypeOK, Job
<1>4. DueInv(w)'
  <2> SUFFICES ASSUME Writing(w)', NEW p \in asked[b] PROVE Kept(b, p)' \/ Pending(w, p)'
    BY <1>3 DEF DueInv, Kept
  <2>0. p \in Parts
    BY DEF TypeInv, TypeOK, Parts
  <2>1. Kept(b, p) \/ Pending(w, p)
    BY <1>1, <1>3 DEF DueInv
  <2>2. Kept(b, p) => Kept(b, p)'
    BY <2>0, MoveKept
  <2>3. Pending(w, p) => Pending(w, p)'
    BY DEF Pending
  <2> QED BY <2>1, <2>2, <2>3
<1> QED BY <1>2, <1>4

(* The worker that moves. *)
LEMMA StoreMover ==
    ASSUME TypeInv, NEW w \in Workers, Move(w), OwnInv(w), DueInv(w), FillInv(w)
    PROVE  OwnInv(w)' /\ DueInv(w)' /\ FillInv(w)'
<1>0. /\ pc \in [Workers -> PC] /\ job \in [Workers -> Job] /\ job[w].id \in Ids
      /\ helper \in [Workers -> {NoHelper, "running", "restarting"}]
      /\ helper[w] # NoHelper => pc[w] \in {"started", "wait", "exited", "sizing"}
  BY TypeParts DEF MoveType, Job
<1>b. PICK b \in Ids : b = job[w].id
  BY <1>0
<1>v. VolumeType
  BY TypeParts
<1>1. ASSUME NEW more \in Seq(Task), Ends(w, more) PROVE OwnInv(w)' /\ DueInv(w)' /\ FillInv(w)'
  <2>1. CASE Fails(w)
    <3>1. helper'[w] # "running"
      BY <1>0, <1>1 DEF Ends, NoHelper
    <3> QED BY <2>1, <3>1, StoreIdle DEF Fails
  <2>2. CASE GoesOn(w, more) /\ (Current(w).do \in Parts => pc[w] \in {"exited", "sizing"} /\ job[w].code = 0)
    BY <1>1, <2>2, StoreGoesOn
  <2> QED BY <1>1, <2>1, <2>2 DEF Ends
<1>2. ASSUME NEW to \in PC, Shifts(w, to) PROVE OwnInv(w)' /\ DueInv(w)' /\ FillInv(w)'
  <2>1. /\ UNCHANGED <<job, helper, result, dir, removed, asked, written>> /\ pc'[w] = to
        /\ pc[w] # "idle" /\ to # "idle" /\ (to = "exited" => Current(w).do = "list")
        /\ to = "sizing" => pc[w] = "exited"
    BY <1>0, <1>2 DEF Shifts
  <2>2. OwnInv(w)' /\ DueInv(w)'
    BY <2>1, StoreHelper
  <2>3. FillInv(w)'
    <3>1. Current(w)' = Current(w)
      BY <2>1 DEF Current
    <3>2. \A p \in Parts : pc'[w] \in {"exited", "sizing"} => pc[w] = "exited" \/ Current(w).do # p
      BY <2>1 DEF Parts
    <3> QED BY <2>1, <3>1, <3>2 DEF FillInv, Found, Kept
  <2> QED BY <2>2, <2>3
<1>3. CASE Starts(w)
  <2>1. /\ UNCHANGED <<job, result, asked>> /\ helper'[w] = "running" /\ pc[w] \notin {"idle", "done"}
        /\ pc'[w] # "idle" /\ (pc'[w] \in {"exited", "sizing"} => pc[w] = pc'[w])
    BY <1>0, <1>3 DEF Starts, NoHelper
  <2>2. OwnInv(w)' /\ DueInv(w)'
    BY <2>1, StoreHelper
  <2>3. FillInv(w)'
    <3> SUFFICES ASSUME NEW p \in Parts, Current(w).do = p
                 PROVE  /\ Found(b, p)'
                        /\ pc[w] \in {"exited", "sizing"} /\ job[w].code = 0 => Kept(b, p)'
      BY <1>b, <2>1 DEF FillInv, Current, Found, Kept
    <3>1. PICK t : t = Current(w)
      OBVIOUS
    <3>2. /\ job[w].todo \in Seq(Task) /\ Len(job[w].todo) > 0 /\ t = job[w].todo[1] /\ t \in Task
      BY <2>1, <3>1, BusyFacts
    <3>3. t.id = b
      <4>1. 1 \in 1 .. Len(job[w].todo)
        BY <3>2
      <4> QED BY <1>b, <3>1, <3>2, <4>1 DEF OwnInv, Parts
    <3>4. DirOK(dir[t.id])
      BY <1>v, <3>3 DEF VolumeType, DirOK
    <3>5. DirOK(Begun(t, dir[t.id])) /\ Shell(t, Begun(t, dir[t.id]))
      BY <1>3, <3>1, <3>2, <3>4, BegunFacts DEF Starts
    <3>6. dir'[b] = Begun(t, dir[t.id])
      BY <3>2, <3>3, <3>5, ShellFacts
    <3>7. dir'[b][p] = "partial"
      BY <3>1, <3>2, <3>4, <3>6, BegunParts
    <3>8. Found(b, p)'
      BY <3>7 DEF Found
    <3>9. ASSUME pc[w] \in {"exited", "sizing"}, job[w].code = 0 PROVE Kept(b, p)'
      <4>1. Kept(b, p)
        BY <1>b, <3>9 DEF FillInv
      <4> QED BY <4>1, MoveKept
    <3> QED BY <3>8, <3>9
  <2> QED BY <2>2, <2>3
<1>4. ASSUME NEW l \in Listings, NEW c \in {0, 1}, Exits(w, l, c) PROVE OwnInv(w)' /\ DueInv(w)' /\ FillInv(w)'
  <2>1. /\ pc[w] \in {"started", "wait", "exited", "sizing"} /\ job'[w].id = job[w].id /\ job'[w].todo = job[w].todo
        /\ job'[w].code = c
    BY <1>4, ExitsFacts
  <2>2. /\ UNCHANGED <<result, asked>> /\ helper[w] = "running" /\ helper'[w] = "restarting"
        /\ pc'[w] \in {"started", "exited", "sizing"}
        /\ \/ pc[w] = "wait"
           \/ pc'[w] = pc[w] /\ c = job[w].code
    BY <1>0, <1>4, <2>1 DEF Exits
  <2>3. OwnInv(w)' /\ DueInv(w)'
    <3>1. pc[w] # "idle" /\ pc'[w] # "idle" /\ result' = result /\ asked' = asked
      BY <2>1, <2>2
    <3> QED BY <2>1, <3>1, StoreHelper
  <2>4. FillInv(w)'
    <3> SUFFICES ASSUME NEW p \in Parts, Current(w).do = p, pc'[w] \in {"exited", "sizing"}, c = 0
                 PROVE  Kept(b, p)'
      BY <1>b, <2>1, <2>2 DEF FillInv, Current, Kept
    <3>1. CASE pc[w] \in {"exited", "sizing"} /\ job[w].code = 0
      <4>1. Kept(b, p)
        BY <1>b, <3>1 DEF FillInv
      <4> QED BY <4>1, MoveKept
    <3>2. CASE pc[w] = "wait"
      <4>1. Shell(Current(w), Ended(Current(w), dir[Current(w).id]))
        BY <1>4, <3>2 DEF Exits
      <4>2. PICK t : t = Current(w)
        OBVIOUS
      <4>3. /\ job[w].todo \in Seq(Task) /\ Len(job[w].todo) > 0 /\ t = job[w].todo[1] /\ t \in Task
        BY <3>2, <4>2, BusyFacts
      <4>4. t.id = b
        <5>1. 1 \in 1 .. Len(job[w].todo)
          BY <4>3
        <5> QED BY <1>b, <4>2, <4>3, <5>1 DEF OwnInv, Parts
      <4>5. DirOK(dir[t.id])
        BY <1>v, <4>4 DEF VolumeType, DirOK
      <4>6. DirOK(Ended(t, dir[t.id])) /\ Shell(t, Ended(t, dir[t.id]))
        BY <4>1, <4>2, <4>3, <4>5, EndedFacts
      <4>7. dir'[b] = Ended(t, dir[t.id]) /\ removed \subseteq removed'
        BY <4>3, <4>4, <4>6, ShellFacts
      <4>8. Found(b, p)
        BY <1>b, <2>2 DEF FillInv
      <4>9. CASE b \in removed
        BY <4>7, <4>9 DEF Kept
      <4>10. CASE dir[b][p] # "missing"
        <5>1. t.do = p /\ t.do \notin {"rm", "delete"}
          BY <4>2 DEF Parts
        <5>2. dir'[b][p] = "whole"
          BY <4>3, <4>4, <4>5, <4>7, <4>10, <5>1, EndedParts
        <5>3. written' = written \cup WholeParts(t, dir'[t.id])
          BY <1>4, <3>2, <4>2 DEF Exits
        <5>4. <<p, b>> \in WholeParts(t, dir'[t.id])
          BY <4>4, <5>1, <5>2 DEF WholeParts, Parts
        <5> QED BY <5>3, <5>4 DEF Kept
      <4> QED BY <4>8, <4>9, <4>10 DEF Found
    <3> QED BY <2>1, <2>2, <3>1, <3>2
  <2> QED BY <2>3, <2>4
<1>5. CASE Succeed(w)
  <2>1. Turn(w, "idle", NoJob(job[w].id)) /\ helper'[w] # "running"
    BY <1>0, <1>5 DEF Succeed, Answer, Go, Turn, NoHelper
  <2> QED BY <2>1, StoreIdle
<1>6. ASSUME NEW a \in Ids, NEW t \in Seq(Task), NEW to \in PC, Turn(w, to, NewJob(a, t)),
             to \notin {"exited", "sizing"}, pc[w] = "idle", helper' = helper, result' = result,
             \A i \in 1 .. Len(t) : t[i].id = a,
             result[a] = "none" => \A p \in asked'[a] : \E i \in 1 .. Len(t) : t[i].do = p
      PROVE  OwnInv(w)' /\ DueInv(w)' /\ FillInv(w)'
  <2>1. NewJob(a, t) \in Job /\ NewJob(a, t).id = a /\ NewJob(a, t).todo = t
    BY NewJobFacts
  <2>2. pc'[w] = to /\ job'[w].id = a /\ job'[w].todo = t /\ helper'[w] # "running"
    BY <1>0, <1>6, <2>1, TurnFacts DEF NoHelper
  <2>3. OwnInv(w)'
    BY <1>6, <2>2 DEF OwnInv
  <2>4. DueInv(w)'
    BY <1>6, <2>2 DEF DueInv, Writing, Pending
  <2>5. FillInv(w)'
    BY <1>6, <2>2 DEF FillInv
  <2> QED BY <2>3, <2>4, <2>5
<1>7. ASSUME NEW a \in Ids, ReceiveDelete(w, a) PROVE OwnInv(w)' /\ DueInv(w)' /\ FillInv(w)'
  <2>1. PICK t : t = [do |-> "delete", id |-> a]
    OBVIOUS
  <2>2. t \in Task /\ t.id = a
    BY <2>1 DEF Task
  <2>3. <<t>> \in Seq(Task) /\ \A i \in 1 .. Len(<<t>>) : <<t>>[i] = t
    BY <2>2
  <2>4. /\ Turn(w, "ensure", NewJob(a, <<t>>)) /\ pc[w] = "idle" /\ helper' = helper /\ result' = result
        /\ result[a] # "none"
    BY <1>7, <2>1 DEF ReceiveDelete, Go, Turn, historyVars
  <2>5. PICK s : s = <<t>>
    OBVIOUS
  <2>6. s \in Seq(Task) /\ Turn(w, "ensure", NewJob(a, s)) /\ \A i \in 1 .. Len(s) : s[i].id = a
    BY <2>2, <2>3, <2>4, <2>5
  <2> QED BY <1>6, <2>4, <2>6 DEF PC
<1>8. ASSUME NEW a \in Ids, NEW parts \in Kinds, ReceiveBackup(w, a, parts)
      PROVE  OwnInv(w)' /\ DueInv(w)' /\ FillInv(w)'
  <2>0. parts \in SUBSET Parts
    BY BackupConstants DEF Parts
  <2>1. PICK t : t = Plan(a, parts)
    OBVIOUS
  <2>2. /\ t \in Seq(Task)
        /\ \A i \in 1 .. Len(t) : t[i].id = a
        /\ \A p \in parts : \E i \in 1 .. Len(t) : t[i].do = p
    BY <2>0, <2>1, PlanType, PlanFacts
  <2>3. /\ Turn(w, Entry(t), NewJob(a, t)) /\ pc[w] = "idle" /\ helper' = helper /\ result' = result
        /\ result[a] = "none" /\ asked' = [asked EXCEPT ![a] = parts]
    BY <1>8, <2>1 DEF ReceiveBackup, Go, Turn
  <2>4. PICK to : to = Entry(t)
    OBVIOUS
  <2>5. to \in {"done", "exec", "start", "ensure"}
    BY <2>2, <2>4, EntryFacts
  <2>6. to \in PC /\ to \notin {"exited", "sizing"} /\ Turn(w, to, NewJob(a, t))
    BY <2>3, <2>4, <2>5 DEF PC
  <2>7. asked'[a] = parts
    BY <1>v, <2>3 DEF VolumeType
  <2> QED BY <1>6, <2>2, <2>3, <2>6, <2>7
<1> QED BY <1>1, <1>2, <1>3, <1>4, <1>5, <1>7, <1>8 DEF Move

(* What is answered as successful was written when it is answered. *)
LEMMA StoreAnswered ==
    ASSUME TypeInv, StoreInv, NEW w \in Workers, Move(w), NEW b \in Ids, result'[b] = "ok", NEW p \in asked'[b]
    PROVE  Kept(b, p)'
<1>1. result'[b] # result[b] => /\ pc[w] # "idle" /\ pc'[w] = "idle" /\ job[w].id = b
                                /\ result[b] = "none" /\ result'[b] # "none"
                                /\ result'[b] = "ok" => pc[w] = "done"
  BY MoveAnswers
<1>2. asked'[b] # asked[b] => /\ result[b] = "none"
                              /\ \A v \in Workers : pc[v] # "idle" => job[v].id # b
  BY MoveAnswers
<1>3. p \in asked[b]
  BY <1>1, <1>2
<1>4. p \in Parts
  BY <1>3 DEF TypeInv, TypeOK, Parts
<1>5. DueInv(w)
  BY DEF StoreInv
<1>6. Kept(b, p)
  <2>1. CASE result[b] = "ok"
    BY <1>3, <2>1 DEF StoreInv
  <2>2. CASE result[b] # "ok"
    <3>1. Writing(w) /\ job[w].id = b /\ pc[w] = "done"
      BY <1>1, <2>2 DEF Writing
    <3>2. job[w].todo = <<>> /\ Len(<<>>) = 0
      BY <3>1 DEF TypeInv, JobInv
    <3>3. ~Pending(w, p)
      BY <3>2 DEF Pending
    <3> QED BY <1>3, <1>5, <3>1, <3>3 DEF DueInv
  <2> QED BY <2>1, <2>2
<1> QED BY <1>4, <1>6, MoveKept

(* Every step keeps the backups that are answered or under way. *)
LEMMA NextStore == TypeInv /\ StoreInv /\ [Next]_vars => StoreInv'
<1> SUFFICES ASSUME TypeInv, StoreInv, [Next]_vars PROVE StoreInv'
  OBVIOUS
<1>1. CASE Next
  <2>1. PICK w \in Workers : Move(w)
    BY <1>1, NextIsMove
  <2>2. ASSUME NEW v \in Workers PROVE OwnInv(v)' /\ DueInv(v)' /\ FillInv(v)'
    <3>1. CASE v = w
      BY <2>1, <3>1, StoreMover DEF StoreInv
    <3>2. CASE v # w
      BY <2>1, <3>2, StoreOthers
    <3> QED BY <3>1, <3>2
  <2>3. ASSUME NEW b \in Ids, result'[b] = "ok", NEW p \in asked'[b] PROVE Kept(b, p)'
    BY <2>1, <2>3, StoreAnswered
  <2> QED BY <2>2, <2>3 DEF StoreInv
<1>2. CASE UNCHANGED vars
  <2>1. UNCHANGED <<dir, removed, written, pc, job, helper, result, asked>>
    BY <1>2 DEF vars, volumeVars, historyVars
  <2>2. \A w \in Workers : OwnInv(w)' <=> OwnInv(w)
    BY <2>1 DEF OwnInv
  <2>3. \A w \in Workers : DueInv(w)' <=> DueInv(w)
    BY <2>1 DEF DueInv, Writing, Kept, Pending
  <2>4. \A w \in Workers : FillInv(w)' <=> FillInv(w)
    BY <2>1 DEF FillInv, Current, Kept, Found
  <2>5. ASSUME NEW b \in Ids, result'[b] = "ok", NEW p \in asked'[b] PROVE Kept(b, p)'
    BY <2>1, <2>5 DEF StoreInv, Kept
  <2> QED BY <2>2, <2>3, <2>4, <2>5 DEF StoreInv
<1> QED BY <1>1, <1>2

(* Initially. *)
LEMMA InitStore == Init => StoreInv
<1> SUFFICES ASSUME Init PROVE StoreInv
  OBVIOUS
<1>0. TypeInv
  BY InitType
<1>1. \A w \in Workers : pc[w] = "idle" /\ helper[w] = NoHelper
  BY DEF Init
<1>2. \A w \in Workers : job[w].todo = <<>>
  BY <1>0, <1>1 DEF TypeInv, JobInv
<1>3. \A w \in Workers : OwnInv(w)
  <2>1. Len(<<>>) = 0
    OBVIOUS
  <2> QED BY <1>2, <2>1 DEF OwnInv
<1>4. \A w \in Workers : DueInv(w) /\ FillInv(w)
  BY <1>1 DEF Writing, DueInv, FillInv, NoHelper
<1>5. \A b \in Ids : result[b] # "ok"
  BY DEF Init
<1> QED BY <1>3, <1>4, <1>5 DEF StoreInv

(* A backup answered as successful was written: each part of it was whole  *)
(* when the wait for the helper that wrote it ended, or a prune or a       *)
(* delete command removed the backup, for any number of concurrent         *)
(* commands, of failed pulls, helpers and waits and of helpers that Docker *)
(* starts again.                                                           *)
THEOREM SuccessesWereWritten == Spec => []SuccessWasWritten
<1>1. Init => StoreInv
  BY InitStore
<1>2. TypeInv /\ StoreInv /\ [Next]_vars => StoreInv'
  BY NextStore
<1>3. StoreInv => SuccessWasWritten
  BY DEF StoreInv, SuccessWasWritten, Kept
<1> QED BY <1>1, <1>2, <1>3, TypeInvariance, PTL DEF Spec
=============================================================================
