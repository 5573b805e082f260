--------------------------- MODULE SelfUpdateProofs ---------------------------
(***************************************************************************)
(* Theorems about SelfUpdate: type correctness, and that an update leaves  *)
(* a binary to start and a rollback puts the old one back.                 *)
(*                                                                         *)
(* Neither property is inductive: what is in place depends on where the    *)
(* one goroutine that replaces the files is.  AloneInv says who may run,   *)
(* UpdaterInv what the files hold at each point of an update, and RestInv  *)
(* what they hold while no update runs, in a rollback among others.        *)
(***************************************************************************)
EXTENDS SelfUpdate, TLAPS

-----------------------------------------------------------------------------
(* Types, and who runs when *)

MainPC == {"idle", "check", "verify", "confirm", "serve", "stage", "moveAside", "moveIn",
           "moveBack", "cleanup", "clear"}
UpdaterPC == {"idle", "backup", "copying", "download", "stage", "moveAside", "moveIn",
              "moveBack", "cleanup", "failed", "exit"}

(* Updates run only beside the main goroutine of a version that can serve. *)
AloneInv ==
    /\ pc[Main] \in MainPC /\ (pc[Main] = "idle" <=> proc = Down)
    /\ \A u \in Updaters :
        pc[u] \in UpdaterPC /\ (pc[u] # "idle" => pc[Main] = "serve" /\ proc \notin Bad)

TypeInv == TypeOK /\ AloneInv

(* The bounds and the main goroutine's name. *)
LEMMA ConstantFacts ==
    /\ File = Versions \cup {Absent, Partial} /\ Absent \in File /\ Partial \in File /\ Versions \subseteq File
    /\ Absent \notin Versions /\ Partial \notin Versions /\ 1 \in Versions
    /\ NoState \in [pending : BOOLEAN, from : Versions, to : Versions, attempts : 0 .. MaxAttempts]
    /\ ~NoState.pending /\ Main \notin Updaters /\ Main \in Actors /\ Updaters \subseteq Actors
<1>1. MaxVersion \in Nat /\ MaxVersion > 0 /\ Main \notin Updaters
  BY UpdateConstants
<1>2. /\ File = Versions \cup {Absent, Partial} /\ Absent \in File /\ Partial \in File /\ Versions \subseteq File
      /\ Absent \notin Versions /\ Partial \notin Versions /\ 1 \in Versions
  BY <1>1 DEF Absent, Partial, File, Versions
<1> QED BY <1>1, <1>2 DEF NoState, MaxAttempts, Actors

(* The program counters after Go. *)
LEMMA GoFacts ==
    ASSUME TypeInv, NEW a \in Actors, NEW to \in PC, Go(a, to)
    PROVE  pc' \in [Actors -> PC] /\ pc'[a] = to /\ \A b \in Actors : b # a => pc'[b] = pc[b]
BY DEF TypeInv, TypeOK, Go

(* The process ends: every goroutine is gone. *)
LEMMA ProcessEndsType ==
    ASSUME TypeInv, ProcessEnds, UNCHANGED <<fileVars, upset>>,
           state' = state \/ state' = NoState,
           faults' \in 0 .. MaxFaults, restarts' \in 0 .. MaxRestarts, crashes' \in 0 .. MaxCrashes
    PROVE  TypeInv'
<1>1. \A a \in Actors : pc'[a] = "idle"
  BY DEF ProcessEnds
<1>2. AloneInv'
  BY <1>1, ConstantFacts DEF ProcessEnds, AloneInv, MainPC, UpdaterPC
<1>3. /\ proc' = Down /\ pc' \in [Actors -> PC] /\ want' \in [Updaters -> Versions]
      /\ tries' \in [Updaters -> 0 .. MaxDownloads] /\ src' \in [Actors -> {"download", "backup"}]
      /\ opened' \in [Updaters -> File] /\ retryable' \in SUBSET Updaters
  BY ConstantFacts, UpdateConstants DEF ProcessEnds, PC
<1> QED BY <1>2, <1>3, ConstantFacts DEF TypeInv, TypeOK, fileVars

(* Initially. *)
LEMMA InitType == Init => TypeInv
<1> SUFFICES ASSUME Init PROVE TypeInv
  OBVIOUS
<1>1. \A a \in Actors : pc[a] = "idle"
  BY DEF Init
<1>2. AloneInv
  BY <1>1, ConstantFacts DEF Init, AloneInv, MainPC, UpdaterPC
<1>3. /\ pc \in [Actors -> PC] /\ want \in [Updaters -> Versions]
      /\ tries \in [Updaters -> 0 .. MaxDownloads] /\ src \in [Actors -> {"download", "backup"}]
      /\ opened \in [Updaters -> File] /\ retryable \in SUBSET Updaters
  BY ConstantFacts, UpdateConstants DEF Init, PC
<1>4. {bin, prev, staged, aside} \subseteq File /\ proc = Down /\ upset \in SUBSET Harm
  BY ConstantFacts DEF Init
<1>5. faults \in 0 .. MaxFaults /\ restarts \in 0 .. MaxRestarts /\ crashes \in 0 .. MaxCrashes
  BY UpdateConstants DEF Init
<1> QED BY <1>2, <1>3, <1>4, <1>5, ConstantFacts DEF Init, TypeInv, TypeOK

(* A step of the main goroutine, with every update at rest. *)
LEMMA MainType ==
    ASSUME TypeInv, pc[Main] # "serve", NEW to \in MainPC \ {"idle"}, Go(Main, to), proc' # Down
    PROVE  AloneInv' /\ pc' \in [Actors -> PC]
<1>1. \A u \in Updaters : pc[u] = "idle" /\ u # Main /\ u \in Actors
  BY ConstantFacts DEF TypeInv, AloneInv
<1>2. to \in PC
  BY DEF MainPC, PC
<1>3. pc' \in [Actors -> PC] /\ pc'[Main] = to /\ \A u \in Updaters : pc'[u] = "idle"
  BY <1>1, <1>2, GoFacts, ConstantFacts
<1> QED BY <1>3 DEF AloneInv, UpdaterPC

(* A step of an update. *)
LEMMA UpdaterType ==
    ASSUME TypeInv, NEW u \in Updaters, NEW to \in UpdaterPC, Go(u, to), proc' = proc,
           pc[u] # "idle" \/ (pc[Main] = "serve" /\ proc \notin Bad)
    PROVE  AloneInv' /\ pc' \in [Actors -> PC]
<1>1. u \in Actors /\ u # Main /\ \A v \in Updaters : v \in Actors
  BY ConstantFacts
<1>2. to \in PC
  BY DEF UpdaterPC, PC
<1>3. pc' \in [Actors -> PC] /\ pc'[u] = to /\ \A b \in Actors : b # u => pc'[b] = pc[b]
  BY <1>1, <1>2, GoFacts
<1>4. pc'[Main] = pc[Main]
  BY <1>1, <1>3, ConstantFacts
<1> QED BY <1>1, <1>3, <1>4 DEF TypeInv, AloneInv

(* One more fault, and what writing the state file may leave. *)
LEMMA FaultType ==
    ASSUME faults \in 0 .. MaxFaults, Fault
    PROVE  faults' \in 0 .. MaxFaults
BY UpdateConstants DEF Fault

LEMMA SaveType ==
    ASSUME TypeInv, NEW s, SaveState(s) \/ ClearState
    PROVE  (state' = s \/ state' = state \/ state' = NoState) /\ faults' \in 0 .. MaxFaults
BY FaultType DEF SaveState, ClearState, TypeInv, TypeOK

(* A file operation of replaceFile, by whichever goroutine. *)
LEMMA ReplaceType ==
    ASSUME TypeInv, NEW a \in Actors, ReplaceStep(a)
    PROVE  TypeInv'
<1>0. /\ TypeOK /\ AloneInv /\ {bin, prev, staged, aside} \subseteq File
      /\ src \in [Actors -> {"download", "backup"}]
  BY DEF TypeInv, TypeOK
<1>1. pc[a] \in {"stage", "moveAside", "moveIn", "moveBack", "cleanup"} /\ proc' = proc
  BY DEF ReplaceStep, StageBinary, MoveAside, MoveIn, MoveBack, RemoveAside
<1>2. \E to \in {"stage", "moveAside", "moveIn", "moveBack", "cleanup", "clear", "failed", "exit"} :
        /\ Go(a, to)
        /\ a = Main => to \in MainPC \ {"idle"}
        /\ a # Main => to \in UpdaterPC
  BY DEF ReplaceStep, StageBinary, MoveAside, MoveIn, MoveBack, RemoveAside, ReplaceFails, AfterReplace,
         MainPC, UpdaterPC
<1>3. AloneInv' /\ pc' \in [Actors -> PC]
  <2>1. CASE a = Main
    <3>1. proc' # Down /\ pc[Main] # "serve"
      BY <1>0, <1>1, <2>1 DEF AloneInv
    <3> QED BY <1>2, <2>1, <3>1, MainType
  <2>2. CASE a # Main
    <3>1. a \in Updaters
      BY <2>2 DEF Actors
    <3> QED BY <1>1, <1>2, <2>2, <3>1, UpdaterType
  <2> QED BY <2>1, <2>2
<1>4. src' \in [Actors -> {"download", "backup"}]
  BY <1>0 DEF ReplaceStep, StageBinary, MoveAside, MoveIn, MoveBack, RemoveAside, ReplaceFails
<1>5. a # Main => want[a] \in File
  BY <1>0, ConstantFacts DEF TypeOK, Actors
<1>6. Source(a) \in File
  BY <1>0, <1>5 DEF Source
<1>7. {bin', prev', staged', aside'} \subseteq File
  BY <1>0, <1>6, ConstantFacts DEF ReplaceStep, StageBinary, MoveAside, MoveIn, MoveBack, RemoveAside
<1>8. faults' \in 0 .. MaxFaults
  BY <1>0, FaultType DEF ReplaceStep, StageBinary, MoveAside, MoveIn, MoveBack, RemoveAside, FileFails, boundVars,
     TypeOK
<1>10. upset' \in SUBSET Harm
  <2>1. upset' = upset \/ \E why \in SUBSET {"lost"} : ReplaceFails(a, why)
    BY DEF ReplaceStep, StageBinary, MoveAside, MoveIn, MoveBack, RemoveAside
  <2>2. upset \in SUBSET Harm
    BY <1>0 DEF TypeOK
  <2> QED BY <2>1, <2>2 DEF ReplaceFails, Harm
<1>9. UNCHANGED <<state, proc, want, tries, opened, retryable, restarts, crashes>>
  BY DEF ReplaceStep, StageBinary, MoveAside, MoveIn, MoveBack, RemoveAside, boundVars
<1> QED BY <1>0, <1>3, <1>4, <1>7, <1>8, <1>9, <1>10 DEF TypeInv, TypeOK

(* Every step keeps the types. *)
LEMMA NextType == TypeInv /\ [Next]_vars => TypeInv'
<1> SUFFICES ASSUME TypeInv, [Next]_vars PROVE TypeInv'
  OBVIOUS
<1>0. TypeOK /\ AloneInv
  BY DEF TypeInv
<1>1. CASE Boot
  <2>1. Go(Main, "check") /\ pc[Main] # "serve" /\ proc' \in Versions /\ proc' # Down
    BY <1>0, <1>1, ConstantFacts DEF Boot, AloneInv, Down, Absent
  <2>2. AloneInv' /\ pc' \in [Actors -> PC]
    BY <2>1, MainType DEF MainPC
  <2> QED BY <1>0, <1>1, <2>1, <2>2 DEF Boot, TypeInv, TypeOK, fileVars, boundVars
<1>2. CASE CheckPendingUpdate
  <2>1. pc[Main] # "serve" /\ proc' # Down /\ \E to \in {"serve", "verify", "clear", "stage"} : Go(Main, to)
    BY <1>0, <1>2 DEF CheckPendingUpdate, AloneInv
  <2>2. AloneInv' /\ pc' \in [Actors -> PC]
    BY <2>1, MainType DEF MainPC
  <2>3. /\ state' \in [pending : BOOLEAN, from : Versions, to : Versions, attempts : 0 .. MaxAttempts]
        /\ faults' \in 0 .. MaxFaults
    <3> DEFINE counted == [state EXCEPT !.attempts = @ + 1]
    <3>1. CASE UNCHANGED <<state, faults>>
      BY <1>0, <3>1 DEF TypeOK
    <3>2. CASE SaveState(counted) /\ state.attempts < MaxAttempts
      <4>1. counted \in [pending : BOOLEAN, from : Versions, to : Versions, attempts : 0 .. MaxAttempts]
        BY <1>0, <3>2 DEF TypeOK, MaxAttempts
      <4> HIDE DEF counted
      <4>2. (state' = counted \/ state' = state \/ state' = NoState) /\ faults' \in 0 .. MaxFaults
        BY <3>2, SaveType
      <4> QED BY <1>0, <4>1, <4>2, ConstantFacts DEF TypeOK
    <3> QED BY <1>2, <3>1, <3>2 DEF CheckPendingUpdate
  <2>4. upset' \in SUBSET Harm
    BY <1>0, <1>2 DEF CheckPendingUpdate, TypeOK, Harm
  <2> QED BY <1>0, <1>2, <2>2, <2>3, <2>4 DEF CheckPendingUpdate, TypeInv, TypeOK, fileVars
<1>3. CASE VerifyConnectivity
  <2>1. pc[Main] # "serve" /\ proc' # Down /\ \E to \in {"serve", "confirm"} : Go(Main, to)
    BY <1>0, <1>3 DEF VerifyConnectivity, AloneInv
  <2>2. AloneInv' /\ pc' \in [Actors -> PC]
    BY <2>1, MainType DEF MainPC
  <2>3. (state' = state \/ state' = NoState) /\ faults' \in 0 .. MaxFaults
    BY <1>0, <1>3, SaveType DEF VerifyConnectivity, TypeOK
  <2> QED BY <1>0, <1>3, <2>2, <2>3, ConstantFacts DEF VerifyConnectivity, TypeInv, TypeOK, fileVars
<1>4. CASE CleanupBackup
  <2>1. pc[Main] # "serve" /\ proc' # Down /\ Go(Main, "serve")
    BY <1>0, <1>4 DEF CleanupBackup, AloneInv
  <2>2. AloneInv' /\ pc' \in [Actors -> PC]
    BY <2>1, MainType DEF MainPC
  <2> QED BY <1>0, <1>4, <2>2, ConstantFacts DEF CleanupBackup, TypeInv, TypeOK, boundVars
<1>5. ASSUME NEW a \in Actors, ReplaceStep(a) PROVE TypeInv'
  BY <1>5, ReplaceType
<1>6. CASE ExitAfterRollback \/ BadVersionExits \/ \E u \in Updaters : ExitAfterUpdate(u)
  <2>1. (state' = state \/ state' = NoState) /\ faults' \in 0 .. MaxFaults
    BY <1>0, <1>6, SaveType DEF ExitAfterRollback, BadVersionExits, ExitAfterUpdate, boundVars, TypeOK
  <2> QED BY <1>0, <1>6, <2>1, ProcessEndsType DEF ExitAfterRollback, BadVersionExits, ExitAfterUpdate, boundVars,
         TypeOK
<1>7. CASE Restart
  <2>1. restarts' \in 0 .. MaxRestarts
    BY <1>0, <1>7, UpdateConstants DEF Restart, TypeOK
  <2> QED BY <1>0, <1>7, <2>1, ProcessEndsType DEF Restart, TypeOK
<1>8. CASE Crash
  <2>0. LeftBehind \subseteq Harm
    BY DEF LeftBehind, Harm
  <2>1. crashes' \in 0 .. MaxCrashes /\ upset' \in SUBSET Harm
    BY <1>0, <1>8, <2>0, UpdateConstants DEF Crash, TypeOK
  <2>2. /\ \A a \in Actors : pc'[a] = "idle"
        /\ proc' = Down /\ pc' \in [Actors -> PC] /\ want' \in [Updaters -> Versions]
        /\ tries' \in [Updaters -> 0 .. MaxDownloads] /\ src' \in [Actors -> {"download", "backup"}]
        /\ opened' \in [Updaters -> File] /\ retryable' \in SUBSET Updaters
    BY <1>8, ConstantFacts, UpdateConstants DEF Crash, ProcessEnds, PC
  <2>3. AloneInv'
    BY <2>2, ConstantFacts DEF AloneInv, MainPC, UpdaterPC
  <2> QED BY <1>0, <1>8, <2>1, <2>2, <2>3 DEF Crash, TypeInv, TypeOK, fileVars
<1>9. ASSUME NEW u \in Updaters, NEW v \in Versions, HandleUpdate(u, v) PROVE TypeInv'
  <2>1. /\ \E to \in {"failed", "backup"} : Go(u, to)
        /\ pc[Main] = "serve" /\ proc \notin Bad /\ proc' = proc
    BY <1>9 DEF HandleUpdate
  <2>2. AloneInv' /\ pc' \in [Actors -> PC]
    BY <2>1, UpdaterType DEF UpdaterPC
  <2>3. proc \in Versions
    BY <1>0, <2>1 DEF AloneInv, TypeOK
  <2>4. /\ state' \in [pending : BOOLEAN, from : Versions, to : Versions, attempts : 0 .. MaxAttempts]
        /\ faults' \in 0 .. MaxFaults
    <3> DEFINE record == [pending |-> TRUE, from |-> proc, to |-> v, attempts |-> 0]
    <3>1. record \in [pending : BOOLEAN, from : Versions, to : Versions, attempts : 0 .. MaxAttempts]
      BY <2>3 DEF MaxAttempts
    <3>2. SaveState(record)
      BY <1>9 DEF HandleUpdate
    <3> HIDE DEF record
    <3>3. (state' = record \/ state' = state \/ state' = NoState) /\ faults' \in 0 .. MaxFaults
      BY <3>2, SaveType
    <3> QED BY <1>0, <3>1, <3>3, ConstantFacts DEF TypeOK
  <2>5. want' \in [Updaters -> Versions] /\ tries' \in [Updaters -> 0 .. MaxDownloads]
    BY <1>0, <1>9, UpdateConstants DEF HandleUpdate, TypeOK
  <2>6. upset' \in SUBSET Harm
    BY <1>0, <1>9 DEF HandleUpdate, TypeOK, Harm
  <2> QED BY <1>0, <1>9, <2>2, <2>4, <2>5, <2>6 DEF HandleUpdate, TypeInv, TypeOK, fileVars
<1>10. ASSUME NEW u \in Updaters, BackupBegin(u) \/ BackupEnd(u) PROVE TypeInv'
  <2>1. pc[u] # "idle" /\ proc' = proc /\ \E to \in {"copying", "failed", "download"} : Go(u, to)
    BY <1>10 DEF BackupBegin, BackupEnd
  <2>2. AloneInv' /\ pc' \in [Actors -> PC]
    BY <2>1, UpdaterType DEF UpdaterPC
  <2>3. prev' \in File /\ opened' \in [Updaters -> File]
    BY <1>0, <1>10, ConstantFacts DEF BackupBegin, BackupEnd, TypeOK
  <2>4. faults' \in 0 .. MaxFaults
    BY <1>0, <1>10, FaultType DEF BackupBegin, BackupEnd, FileFails, TypeOK
  <2>5. UNCHANGED <<bin, staged, aside, state, proc, want, tries, src, retryable, upset, restarts, crashes>>
    BY <1>10 DEF BackupBegin, BackupEnd
  <2> QED BY <1>0, <2>2, <2>3, <2>4, <2>5 DEF TypeInv, TypeOK
<1>11. ASSUME NEW u \in Updaters, Download(u) \/ DownloadFails(u) PROVE TypeInv'
  <2>1. pc[u] # "idle" /\ proc' = proc /\ Go(u, "stage")
    BY <1>11 DEF Download, DownloadFails
  <2>2. AloneInv' /\ pc' \in [Actors -> PC]
    BY <2>1, UpdaterType DEF UpdaterPC
  <2>3. src' \in [Actors -> {"download", "backup"}] /\ retryable' \in SUBSET Updaters
    BY <1>0, <1>11 DEF Download, DownloadFails, TypeOK
  <2>4. faults' \in 0 .. MaxFaults
    BY <1>0, <1>11, FaultType DEF Download, DownloadFails, TypeOK, boundVars
  <2>5. UNCHANGED <<bin, prev, staged, aside, state, proc, want, tries, opened, upset, restarts, crashes>>
    BY <1>11 DEF Download, DownloadFails, fileVars, boundVars
  <2> QED BY <1>0, <2>2, <2>3, <2>4, <2>5 DEF TypeInv, TypeOK
<1>12. ASSUME NEW u \in Updaters, RetryUpdate(u) PROVE TypeInv'
  <2>1. pc[u] # "idle" /\ proc' = proc /\ Go(u, "backup")
    BY <1>12 DEF RetryUpdate
  <2>2. AloneInv' /\ pc' \in [Actors -> PC]
    BY <2>1, UpdaterType DEF UpdaterPC
  <2>3. tries' \in [Updaters -> 0 .. MaxDownloads] /\ retryable' \in SUBSET Updaters
    BY <1>0, <1>12, UpdateConstants DEF RetryUpdate, TypeOK
  <2> QED BY <1>0, <1>12, <2>2, <2>3 DEF RetryUpdate, TypeInv, TypeOK, fileVars, boundVars
<1>13. ASSUME NEW u \in Updaters, UpdateFailed(u) PROVE TypeInv'
  <2>1. pc[u] # "idle" /\ proc' = proc /\ Go(u, "idle")
    BY <1>13 DEF UpdateFailed
  <2>2. AloneInv' /\ pc' \in [Actors -> PC]
    BY <2>1, UpdaterType DEF UpdaterPC
  <2>3. /\ want' \in [Updaters -> Versions] /\ tries' \in [Updaters -> 0 .. MaxDownloads]
        /\ src' \in [Actors -> {"download", "backup"}] /\ retryable' \in SUBSET Updaters
    BY <1>0, <1>13, ConstantFacts, UpdateConstants DEF UpdateFailed, TypeOK
  <2>4. (state' = state \/ state' = NoState) /\ faults' \in 0 .. MaxFaults
    BY <1>13, SaveType DEF UpdateFailed
  <2>6. LeftBehind \subseteq Harm
    BY DEF LeftBehind, Harm
  <2>5. upset' \in SUBSET Harm
    BY <1>0, <1>13, <2>6 DEF UpdateFailed, TypeOK
  <2> QED BY <1>0, <1>13, <2>2, <2>3, <2>4, <2>5, ConstantFacts DEF UpdateFailed, TypeInv, TypeOK, fileVars
<1>14. CASE UNCHANGED vars
  BY <1>0, <1>14 DEF TypeInv, TypeOK, AloneInv, vars, fileVars, boundVars
<1> QED
  BY <1>1, <1>2, <1>3, <1>4, <1>5, <1>6, <1>7, <1>8, <1>9, <1>10, <1>11, <1>12, <1>13, <1>14, ConstantFacts
  DEF Next, MainStep, UpdaterStep

(* TypeOK is an invariant of the specification. *)
THEOREM TypeCorrect == Spec => []TypeOK
<1>1. TypeInv => TypeOK
  BY DEF TypeInv
<1> QED BY <1>1, InitType, NextType, PTL DEF Spec

-----------------------------------------------------------------------------
(* The files *)

Solo == \A u, v \in Updaters : pc[u] # "idle" /\ pc[v] # "idle" => u = v

(* Nothing happened that may leave no binary. *)
Intact == upset \cap {"overlap", "cut", "lost"} = {}

(* While one update runs: the running version is in place until the binary *)
(* is moved aside, and once the backup is made it is in .prev.             *)
UpdaterInv(u) ==
    /\ pc[u] # "idle" /\ "unsaved" \notin upset => state.pending /\ state.from = proc
    /\ pc[u] \in {"backup", "copying", "download", "stage", "moveAside", "failed"} => bin = proc
    /\ pc[u] = "copying" => opened[u] = proc
    /\ pc[u] \in {"download", "stage", "moveAside", "moveIn", "moveBack", "cleanup", "exit"} => prev = proc
    /\ pc[u] \in {"moveAside", "moveIn"} => staged = Source(u)
    /\ pc[u] \in {"moveIn", "moveBack"} => aside = proc
    /\ pc[u] \in {"cleanup", "exit"} => bin \in Versions
    /\ pc[u] = "cleanup" /\ src[u] = "backup" => bin = proc

(* While none does: the backup of a pending update is whole, it is the     *)
(* version the update replaced if the update was recorded, and Rollback    *)
(* puts it in place or fails and leaves the binary that runs.              *)
BackupOK ==
    state.pending =>
        /\ prev \in Versions \cup {Absent}
        /\ upset \cap {"unsaved", "stale"} = {} => prev \in {Absent, state.from}

RestInv ==
    /\ BackupOK
    /\ pc[Main] \in {"check", "verify", "confirm", "serve"} => bin = proc
    /\ pc[Main] \in {"idle", "stage", "moveAside", "cleanup", "clear"} => bin \in Versions
    /\ pc[Main] \in {"stage", "moveAside", "moveIn", "moveBack", "cleanup"} => state.pending /\ prev # Absent
    /\ pc[Main] \in {"moveAside", "moveIn"} => staged = prev
    /\ pc[Main] \in {"moveIn", "moveBack"} => aside \in Versions
    /\ pc[Main] = "cleanup" => bin = prev
    /\ pc[Main] = "clear" => state.pending /\ (prev # Absent /\ "rollback" \notin upset => bin = prev)

FileInv ==
    Intact =>
        /\ Solo /\ \A u \in Updaters : UpdaterInv(u)
        /\ (\A u \in Updaters : pc[u] = "idle") => RestInv

(* A step of the one update that runs. *)
LEMMA UpdaterKeeps ==
    ASSUME TypeInv, FileInv, Intact, NEW u \in Updaters, pc[u] # "idle", NEW to \in UpdaterPC,
           Go(u, to), UpdaterInv(u)', to = "idle" => RestInv'
    PROVE  FileInv'
<1>1. u \in Actors /\ to \in PC /\ \A v \in Updaters : v \in Actors
  BY ConstantFacts DEF UpdaterPC, PC
<1>2. pc'[u] = to /\ \A b \in Actors : b # u => pc'[b] = pc[b]
  BY <1>1, GoFacts
<1>3. \A v \in Updaters : v # u => pc'[v] = "idle"
  BY <1>1, <1>2 DEF FileInv, Solo
<1>4. Solo'
  BY <1>3 DEF Solo
<1>5. \A v \in Updaters : v # u => UpdaterInv(v)'
  BY <1>3 DEF UpdaterInv
<1>6. (\A v \in Updaters : pc'[v] = "idle") => RestInv'
  BY <1>2
<1> QED BY <1>4, <1>5, <1>6 DEF FileInv

(* A step of the main goroutine while no update runs. *)
LEMMA RestKeeps ==
    ASSUME \A u \in Updaters : pc'[u] = "idle", RestInv'
    PROVE  FileInv'
<1>1. Solo' /\ \A u \in Updaters : UpdaterInv(u)'
  BY DEF Solo, UpdaterInv
<1> QED BY <1>1 DEF FileInv

(* The main goroutine outside "serve" has the files to itself. *)
LEMMA MainAlone ==
    ASSUME TypeInv, FileInv, Intact, pc[Main] # "serve", NEW to \in MainPC, Go(Main, to)
    PROVE  RestInv /\ pc'[Main] = to /\ \A u \in Updaters : pc'[u] = "idle"
<1>1. \A u \in Updaters : pc[u] = "idle" /\ u # Main /\ u \in Actors
  BY ConstantFacts DEF TypeInv, AloneInv
<1>2. to \in PC
  BY DEF MainPC, PC
<1> QED BY <1>1, <1>2, GoFacts, ConstantFacts DEF FileInv

(* What an update knows of the running version. *)
LEMMA Running ==
    ASSUME TypeInv, FileInv, Intact, NEW u \in Updaters, pc[u] # "idle"
    PROVE  /\ proc \in Versions /\ UpdaterInv(u) /\ u # Main /\ u \in Actors
           /\ want[u] \in Versions /\ src[u] \in {"download", "backup"} /\ pc[Main] = "serve"
           /\ pc[u] \in {"stage", "moveAside", "moveIn", "moveBack", "cleanup"} => Source(u) \in Versions
<1>1. proc \in Versions /\ UpdaterInv(u) /\ u # Main /\ u \in Actors /\ want[u] \in Versions /\ pc[Main] = "serve"
  BY ConstantFacts DEF TypeInv, TypeOK, AloneInv, FileInv
<1>2. src[u] \in {"download", "backup"}
  BY <1>1 DEF TypeInv, TypeOK
<1> QED BY <1>1, <1>2 DEF UpdaterInv, Source

(* replaceFile in an update. *)
LEMMA UpdaterReplaces ==
    ASSUME TypeInv, FileInv, Intact, Intact', NEW u \in Updaters, ReplaceStep(u)
    PROVE  FileInv'
<1>0. pc[u] \in {"stage", "moveAside", "moveIn", "moveBack", "cleanup"}
  BY DEF ReplaceStep, StageBinary, MoveAside, MoveIn, MoveBack, RemoveAside
<1>1. /\ proc \in Versions /\ UpdaterInv(u) /\ u # Main /\ u \in Actors
      /\ want[u] \in Versions /\ src[u] \in {"download", "backup"}
      /\ pc[u] \in {"stage", "moveAside", "moveIn", "moveBack", "cleanup"} => Source(u) \in Versions
  BY <1>0, Running
<1>2. UNCHANGED <<state, proc, want, opened>> /\ prev' = prev
  BY DEF ReplaceStep, StageBinary, MoveAside, MoveIn, MoveBack, RemoveAside
<1>3. ASSUME NEW to \in UpdaterPC \ {"idle"}, Go(u, to), pc'[u] = to => UpdaterInv(u)' PROVE FileInv'
  <2>1. pc'[u] = to
    BY <1>1, <1>3, GoFacts DEF UpdaterPC, PC
  <2> QED BY <1>0, <1>3, <2>1, UpdaterKeeps
<1>a. upset' = upset \/ \E why \in SUBSET {"lost"} : ReplaceFails(u, why)
  BY DEF ReplaceStep, StageBinary, MoveAside, MoveIn, MoveBack, RemoveAside
<1>b. upset' = upset
  <2>1. ASSUME NEW why \in SUBSET {"lost"}, ReplaceFails(u, why) PROVE upset' = upset
    BY <1>1, <2>1 DEF ReplaceFails, Intact
  <2> QED BY <1>a, <2>1
<1>c. (* replaceFile has failed with the running version in place *)
      ASSUME NEW why \in SUBSET {"lost"}, ReplaceFails(u, why), bin' = proc PROVE FileInv'
  <2>1. prev = proc
    BY <1>0, <1>1 DEF UpdaterInv
  <2>2. CASE src[u] = "backup"
    BY <1>0, <1>1, <1>2, <1>3, <1>b, <1>c, <2>1, <2>2 DEF ReplaceFails, UpdaterInv, UpdaterPC
  <2>3. CASE src[u] = "download"
    BY <1>0, <1>1, <1>2, <1>3, <1>b, <1>c, <2>1, <2>3 DEF ReplaceFails, UpdaterInv, UpdaterPC
  <2> QED BY <1>1, <2>2, <2>3
<1>4. CASE StageBinary(u)
  <2>1. bin' = bin /\ pc[u] = "stage" /\ bin = proc
    BY <1>1, <1>4 DEF StageBinary, UpdaterInv
  <2>2. ASSUME staged' = Source(u), Go(u, "moveAside"), src' = src PROVE FileInv'
    BY <1>1, <1>2, <1>3, <1>b, <2>1, <2>2 DEF UpdaterInv, Source, UpdaterPC
  <2> QED BY <1>4, <1>c, <2>1, <2>2 DEF StageBinary
<1>5. CASE MoveAside(u)
  <2>1. bin = proc /\ pc[u] = "moveAside" /\ staged = Source(u) /\ prev = proc
    BY <1>1, <1>5 DEF MoveAside, UpdaterInv
  <2>2. ASSUME UNCHANGED <<staged, src>>, Go(u, "moveIn"), aside' = bin PROVE FileInv'
    BY <1>1, <1>2, <1>3, <1>b, <2>1, <2>2 DEF UpdaterInv, Source, UpdaterPC
  <2> QED BY <1>5, <1>c, <2>1, <2>2 DEF MoveAside
<1>6. CASE MoveIn(u)
  <2>1. /\ pc[u] = "moveIn" /\ staged = Source(u) /\ staged \in Versions /\ prev = proc /\ aside = proc
        /\ src' = src /\ aside' = aside
    BY <1>1, <1>6 DEF MoveIn, UpdaterInv
  <2>2. CASE Go(u, "cleanup") /\ bin' = staged
    BY <1>1, <1>2, <1>3, <1>b, <2>1, <2>2 DEF UpdaterInv, Source, UpdaterPC
  <2>3. CASE Go(u, "moveBack")
    BY <1>1, <1>2, <1>3, <1>b, <2>1, <2>3 DEF UpdaterInv, UpdaterPC
  <2> QED BY <1>6, <2>2, <2>3 DEF MoveIn
<1>7. CASE MoveBack(u)
  <2>1. aside = proc /\ pc[u] = "moveBack"
    BY <1>1, <1>7 DEF MoveBack, UpdaterInv
  <2>2. ~ReplaceFails(u, {"lost"})
    BY DEF ReplaceFails, Intact
  <2> QED BY <1>7, <1>c, <2>1, <2>2 DEF MoveBack
<1>8. CASE RemoveAside(u)
  <2>1. pc[u] = "cleanup" /\ UNCHANGED <<bin, src>> /\ Go(u, IF src[u] = "download" THEN "exit" ELSE "failed")
    BY <1>1, <1>8 DEF RemoveAside, AfterReplace
  <2>2. CASE src[u] = "download"
    BY <1>1, <1>2, <1>3, <1>b, <2>1, <2>2 DEF UpdaterInv, UpdaterPC
  <2>3. CASE src[u] = "backup"
    BY <1>1, <1>2, <1>3, <1>b, <2>1, <2>3 DEF UpdaterInv, UpdaterPC
  <2> QED BY <1>1, <2>2, <2>3
<1> QED BY <1>4, <1>5, <1>6, <1>7, <1>8 DEF ReplaceStep

(* replaceFile in a rollback. *)
LEMMA MainReplaces ==
    ASSUME TypeInv, FileInv, Intact, Intact', ReplaceStep(Main)
    PROVE  FileInv'
<1>1. /\ pc[Main] \in {"stage", "moveAside", "moveIn", "moveBack", "cleanup"}
      /\ UNCHANGED <<state, prev, proc>>
  BY DEF ReplaceStep, StageBinary, MoveAside, MoveIn, MoveBack, RemoveAside
<1>2. \A u \in Updaters : pc[u] = "idle"
  BY <1>1 DEF TypeInv, AloneInv
<1>3. RestInv /\ state.pending
  BY <1>1, <1>2 DEF FileInv, RestInv
<1>4. prev \in Versions /\ prev # Absent
  BY <1>1, <1>3 DEF RestInv, BackupOK
<1>5. ASSUME NEW to \in MainPC, Go(Main, to), pc'[Main] = to => RestInv' PROVE FileInv'
  BY <1>1, <1>5, MainAlone, RestKeeps
<1>6. upset \subseteq upset'
  BY DEF ReplaceStep, StageBinary, MoveAside, MoveIn, MoveBack, RemoveAside, ReplaceFails
<1>7. BackupOK'
  BY <1>1, <1>3, <1>6 DEF RestInv, BackupOK
<1>8. (* Rollback has failed with a binary in place *)
      ASSUME NEW why, ReplaceFails(Main, why), bin' \in Versions PROVE FileInv'
  <2>1. Go(Main, "clear") /\ "rollback" \in upset'
    BY <1>8 DEF ReplaceFails
  <2> QED BY <1>1, <1>3, <1>5, <1>7, <1>8, <2>1 DEF RestInv, MainPC
<1>9. CASE StageBinary(Main)
  <2>1. bin' = bin /\ pc[Main] = "stage" /\ bin \in Versions
    BY <1>3, <1>9 DEF StageBinary, RestInv
  <2>2. CASE staged' = Source(Main) /\ Go(Main, "moveAside")
    BY <1>1, <1>3, <1>4, <1>5, <1>7, <2>1, <2>2 DEF RestInv, MainPC, Source
  <2> QED BY <1>8, <1>9, <2>1, <2>2 DEF StageBinary
<1>10. CASE MoveAside(Main)
  <2>1. pc[Main] = "moveAside" /\ bin \in Versions /\ staged = prev
    BY <1>3, <1>10 DEF MoveAside, RestInv
  <2>2. CASE Go(Main, "moveIn") /\ UNCHANGED staged /\ aside' = bin
    BY <1>1, <1>3, <1>4, <1>5, <1>7, <2>1, <2>2 DEF RestInv, MainPC
  <2> QED BY <1>8, <1>10, <2>1, <2>2 DEF MoveAside
<1>11. CASE MoveIn(Main)
  <2>1. pc[Main] = "moveIn" /\ staged = prev /\ aside \in Versions /\ aside' = aside
    BY <1>3, <1>11 DEF MoveIn, RestInv
  <2>2. CASE Go(Main, "cleanup") /\ bin' = staged
    BY <1>1, <1>3, <1>4, <1>5, <1>7, <2>1, <2>2 DEF RestInv, MainPC
  <2>3. CASE Go(Main, "moveBack")
    BY <1>1, <1>3, <1>4, <1>5, <1>7, <2>1, <2>3 DEF RestInv, MainPC
  <2> QED BY <1>11, <2>2, <2>3 DEF MoveIn
<1>12. CASE MoveBack(Main)
  <2>1. aside \in Versions
    BY <1>3, <1>12 DEF MoveBack, RestInv
  <2>2. ~ReplaceFails(Main, {"lost"})
    BY DEF ReplaceFails, Intact
  <2> QED BY <1>8, <1>12, <2>1, <2>2 DEF MoveBack
<1>13. CASE RemoveAside(Main)
  <2>1. pc[Main] = "cleanup" /\ Go(Main, "clear") /\ UNCHANGED bin
    BY <1>13 DEF RemoveAside, AfterReplace
  <2> QED BY <1>1, <1>3, <1>4, <1>5, <1>7, <2>1 DEF RestInv, MainPC
<1> QED BY <1>9, <1>10, <1>11, <1>12, <1>13 DEF ReplaceStep

(* The process ends with a whole binary, and with no backup but that of    *)
(* the pending update.                                                     *)
LEMMA EndsWell ==
    ASSUME ProcessEnds, bin' \in Versions, BackupOK'
    PROVE  FileInv'
<1>1. \A a \in Actors : pc'[a] = "idle"
  BY DEF ProcessEnds
<1>2. pc'[Main] = "idle" /\ \A u \in Updaters : pc'[u] = "idle"
  BY <1>1, ConstantFacts
<1>3. RestInv'
  BY <1>2 DEF RestInv
<1> QED BY <1>2, <1>3, RestKeeps

(* Every step keeps what the files hold. *)
LEMMA NextFiles == TypeInv /\ FileInv /\ [Next]_vars => FileInv'
<1> SUFFICES ASSUME TypeInv, FileInv, [Next]_vars PROVE FileInv'
  OBVIOUS
<1>0. upset \subseteq upset' \cup {"unsaved"}
  <2>1. ASSUME NEW a \in Actors, ReplaceStep(a) PROVE upset \subseteq upset'
    BY <2>1 DEF ReplaceStep, StageBinary, MoveAside, MoveIn, MoveBack, RemoveAside, ReplaceFails
  <2>2. ASSUME NEW u \in Updaters, UpdaterStep(u), ~ReplaceStep(u) PROVE upset \subseteq upset'
    BY <2>2 DEF UpdaterStep, BackupBegin, BackupEnd, Download, DownloadFails, RetryUpdate, UpdateFailed,
       ExitAfterUpdate
  <2>3. ASSUME MainStep, ~ReplaceStep(Main) PROVE upset \subseteq upset'
    BY <2>3 DEF MainStep, CheckPendingUpdate, VerifyConnectivity, CleanupBackup, ExitAfterRollback
  <2>4. ASSUME Boot \/ Restart \/ BadVersionExits \/ Crash \/ UNCHANGED vars PROVE upset \subseteq upset'
    BY <2>4 DEF Boot, Restart, BadVersionExits, Crash, vars
  <2>5. ASSUME NEW u \in Updaters, NEW v \in Versions, HandleUpdate(u, v)
        PROVE  upset \subseteq upset' \cup {"unsaved"}
    BY <2>5 DEF HandleUpdate
  <2>6. Main \in Actors /\ Updaters \subseteq Actors
    BY DEF Actors
  <2> QED BY <2>1, <2>2, <2>3, <2>4, <2>5, <2>6 DEF Next
<1>1. SUFFICES ASSUME Intact' PROVE FileInv'
  BY DEF FileInv
<1>2. Intact
  BY <1>0, <1>1 DEF Intact
<1>3. CASE Boot
  <2>1. pc[Main] = "idle" /\ Go(Main, "check") /\ proc' = bin /\ UNCHANGED <<bin, prev, state, upset>>
    BY <1>3 DEF Boot, TypeInv, AloneInv, fileVars
  <2>2. RestInv /\ pc'[Main] = "check" /\ \A u \in Updaters : pc'[u] = "idle"
    BY <1>2, <2>1, MainAlone DEF MainPC
  <2>3. RestInv'
    BY <2>1, <2>2 DEF RestInv, BackupOK
  <2> QED BY <2>2, <2>3, RestKeeps
<1>4. CASE CheckPendingUpdate
  <2>1. pc[Main] = "check" /\ UNCHANGED <<bin, prev, proc>> /\ upset \subseteq upset'
    BY <1>4 DEF CheckPendingUpdate, fileVars
  <2>2. ASSUME NEW to \in MainPC, Go(Main, to), pc'[Main] = to => RestInv' PROVE FileInv'
    BY <1>2, <2>1, <2>2, MainAlone, RestKeeps
  <2>3. RestInv /\ proc \in Versions
    BY <1>2, <2>1 DEF FileInv, TypeInv, TypeOK, AloneInv
  <2>4. \/ Go(Main, "serve") \/ Go(Main, "verify")
        \/ Go(Main, "clear") /\ prev = Absent /\ state.pending /\ state' = state
        \/ Go(Main, "stage") /\ prev # Absent /\ state.pending /\ state' = state
    BY <1>4 DEF CheckPendingUpdate
  <2>5. ~state'.pending \/ (state.pending /\ state'.from = state.from)
    <3>1. state' = state \/ state' = NoState \/ (state.pending /\ state' = [state EXCEPT !.attempts = @ + 1])
      BY <1>4 DEF CheckPendingUpdate, SaveState
    <3>2. state \in [pending : BOOLEAN, from : Versions, to : Versions, attempts : 0 .. MaxAttempts]
      BY DEF TypeInv, TypeOK
    <3> QED BY <3>1, <3>2, ConstantFacts
  <2>6. BackupOK'
    BY <2>1, <2>3, <2>5 DEF RestInv, BackupOK
  <2> QED BY <2>1, <2>2, <2>3, <2>4, <2>6 DEF RestInv, MainPC
<1>5. CASE VerifyConnectivity
  <2>1. pc[Main] = "verify" /\ UNCHANGED <<bin, prev, proc, upset>> /\ (state' = state \/ ~state'.pending)
    BY <1>5, ConstantFacts DEF VerifyConnectivity, ClearState, fileVars
  <2>2. ASSUME NEW to \in MainPC, Go(Main, to), pc'[Main] = to => RestInv' PROVE FileInv'
    BY <1>2, <2>1, <2>2, MainAlone, RestKeeps
  <2>3. RestInv
    BY <1>2, <2>1 DEF FileInv, TypeInv, AloneInv
  <2>4. Go(Main, "serve") \/ Go(Main, "confirm")
    BY <1>5 DEF VerifyConnectivity
  <2>5. BackupOK'
    BY <2>1, <2>3 DEF RestInv, BackupOK
  <2> QED BY <2>1, <2>2, <2>3, <2>4, <2>5 DEF RestInv, MainPC
<1>6. CASE CleanupBackup
  <2>1. pc[Main] = "confirm" /\ UNCHANGED <<bin, proc, state>> /\ prev' = Absent /\ Go(Main, "serve")
    BY <1>6 DEF CleanupBackup
  <2>2. RestInv /\ pc'[Main] = "serve" /\ \A u \in Updaters : pc'[u] = "idle"
    BY <1>2, <2>1, MainAlone DEF MainPC
  <2>3. RestInv'
    BY <2>1, <2>2 DEF RestInv, BackupOK
  <2> QED BY <2>2, <2>3, RestKeeps
<1>7. CASE ReplaceStep(Main)
  BY <1>1, <1>2, <1>7, MainReplaces
<1>8. CASE ExitAfterRollback
  <2>1. /\ pc[Main] = "clear" /\ (state' = state \/ ~state'.pending) /\ ProcessEnds
        /\ UNCHANGED <<bin, prev, upset>>
    BY <1>8, ConstantFacts DEF ExitAfterRollback, ClearState, fileVars
  <2>2. RestInv
    BY <1>2, <2>1 DEF FileInv, TypeInv, AloneInv
  <2> QED BY <2>1, <2>2, EndsWell DEF RestInv, BackupOK
<1>9. CASE BadVersionExits
  <2>1. pc[Main] = "serve" /\ proc \in Bad /\ ProcessEnds /\ UNCHANGED <<bin, prev, state, upset>>
    BY <1>9 DEF BadVersionExits, fileVars
  <2>2. RestInv /\ proc \in Versions
    BY <1>2, <2>1 DEF FileInv, TypeInv, TypeOK, AloneInv
  <2> QED BY <2>1, <2>2, EndsWell DEF RestInv, BackupOK
<1>10. CASE Restart
  <2>1. proc # Down /\ ~Updating /\ ProcessEnds /\ UNCHANGED <<bin, prev, state, upset>>
    BY <1>10 DEF Restart, fileVars
  <2>2. RestInv /\ proc \in Versions /\ pc[Main] \in {"check", "verify", "confirm", "serve", "clear"}
    BY <1>2, <2>1, ConstantFacts DEF Updating, Replacing, FileInv, TypeInv, TypeOK, AloneInv, MainPC
  <2> QED BY <2>1, <2>2, EndsWell DEF RestInv, BackupOK
<1>b. (* what a crash, or a record that stays, leaves without harm *)
      ASSUME upset' = upset \cup LeftBehind, UNCHANGED <<bin, prev, state>>
      PROVE  bin' \in Versions /\ BackupOK'
  <2>1. "cut" \notin LeftBehind
    BY <1>1, <1>b DEF Intact
  <2>2. bin \in Versions /\ prev # Partial /\ prev \in File
    BY <2>1 DEF LeftBehind, TypeInv, TypeOK
  <2>3. "stale" \notin upset' => prev \in {Absent, state.from}
    BY <1>b DEF LeftBehind
  <2> QED BY <1>b, <2>2, <2>3, ConstantFacts DEF BackupOK
<1>11. CASE Crash
  BY <1>11, <1>b, EndsWell DEF Crash, fileVars
<1>12. ASSUME NEW u \in Updaters, ExitAfterUpdate(u) PROVE FileInv'
  <2>1. pc[u] = "exit" /\ ProcessEnds /\ UNCHANGED <<bin, prev, state, upset>>
    BY <1>12 DEF ExitAfterUpdate, fileVars
  <2>2. UpdaterInv(u) /\ proc \in Versions
    BY <1>2, <2>1, Running
  <2> QED BY <2>1, <2>2, EndsWell DEF UpdaterInv, BackupOK
<1>13. ASSUME NEW u \in Updaters, NEW v \in Versions, HandleUpdate(u, v) PROVE FileInv'
  <2>1. /\ pc[Main] = "serve" /\ UNCHANGED <<bin, proc>>
        /\ \E to \in {"failed", "backup"} : Go(u, to)
        /\ "unsaved" \notin upset' => state'.pending /\ state'.from = proc
    BY <1>13 DEF HandleUpdate, fileVars
  <2>2. \A o \in Updaters : pc[o] = "idle"
    BY <1>1, <1>13 DEF HandleUpdate, Intact
  <2>3. bin = proc
    BY <1>2, <2>1, <2>2 DEF FileInv, RestInv
  <2>4. /\ pc'[u] \in {"failed", "backup"} /\ \A o \in Updaters : o # u => pc'[o] = "idle"
    BY <2>1, <2>2, GoFacts, ConstantFacts DEF PC
  <2>5. \A o \in Updaters : UpdaterInv(o)'
    BY <2>1, <2>3, <2>4 DEF UpdaterInv
  <2> QED BY <2>4, <2>5 DEF FileInv, Solo
<1>14. ASSUME NEW u \in Updaters, NEW to \in UpdaterPC \ {"idle"}, Go(u, to), pc[u] # "idle",
              pc'[u] = to => UpdaterInv(u)'
       PROVE  FileInv'
  <2>1. pc'[u] = to
    BY <1>14, GoFacts, ConstantFacts DEF UpdaterPC, PC
  <2> QED BY <1>2, <1>14, <2>1, UpdaterKeeps
<1>15. ASSUME NEW u \in Updaters, BackupBegin(u) PROVE FileInv'
  <2>1. pc[u] = "backup" /\ UNCHANGED <<bin, proc, state, upset>> /\ opened' = [opened EXCEPT ![u] = bin]
    BY <1>15 DEF BackupBegin
  <2>2. UpdaterInv(u) /\ proc \in Versions /\ opened'[u] = bin
    BY <1>2, <2>1, Running DEF TypeInv, TypeOK
  <2>3. Go(u, "copying") \/ Go(u, "failed")
    BY <1>15 DEF BackupBegin
  <2> QED BY <1>14, <2>1, <2>2, <2>3 DEF UpdaterInv, UpdaterPC
<1>16. ASSUME NEW u \in Updaters, BackupEnd(u) PROVE FileInv'
  <2>1. pc[u] = "copying" /\ UNCHANGED <<bin, proc, state, upset>>
    BY <1>16 DEF BackupEnd
  <2>2. UpdaterInv(u)
    BY <1>2, <2>1, Running
  <2>3. (Go(u, "download") /\ prev' = opened[u]) \/ Go(u, "failed")
    BY <1>16 DEF BackupEnd
  <2> QED BY <1>14, <2>1, <2>2, <2>3 DEF UpdaterInv, UpdaterPC
<1>17. ASSUME NEW u \in Updaters, Download(u) \/ DownloadFails(u) PROVE FileInv'
  <2>1. pc[u] = "download" /\ UNCHANGED <<bin, prev, proc, state, upset>> /\ Go(u, "stage")
    BY <1>17 DEF Download, DownloadFails, fileVars
  <2>2. UpdaterInv(u)
    BY <1>2, <2>1, Running
  <2> QED BY <1>14, <2>1, <2>2 DEF UpdaterInv, UpdaterPC
<1>18. ASSUME NEW u \in Updaters, ReplaceStep(u) PROVE FileInv'
  BY <1>1, <1>2, <1>18, UpdaterReplaces
<1>19. ASSUME NEW u \in Updaters, RetryUpdate(u) PROVE FileInv'
  <2>1. pc[u] = "failed" /\ UNCHANGED <<bin, prev, proc, state, upset>> /\ Go(u, "backup")
    BY <1>19 DEF RetryUpdate, fileVars
  <2>2. UpdaterInv(u)
    BY <1>2, <2>1, Running
  <2> QED BY <1>14, <2>1, <2>2 DEF UpdaterInv, UpdaterPC
<1>20. ASSUME NEW u \in Updaters, UpdateFailed(u) PROVE FileInv'
  <2>1. pc[u] = "failed" /\ UNCHANGED <<bin, prev, proc>> /\ Go(u, "idle")
    BY <1>20 DEF UpdateFailed, fileVars
  <2>2. UpdaterInv(u) /\ pc[Main] = "serve" /\ u # Main /\ u \in Actors
    BY <1>2, <2>1, Running
  <2>3. pc'[u] = "idle" /\ pc'[Main] = "serve"
    BY <2>1, <2>2, GoFacts, ConstantFacts DEF PC
  <2>6. BackupOK'
    <3>1. CASE ~state'.pending
      BY <3>1 DEF BackupOK
    <3>2. CASE state' = state /\ upset' = upset \cup LeftBehind
      BY <1>b, <2>1, <3>2
    <3>3. CASE state' = NoState
      BY <3>3, ConstantFacts DEF BackupOK
    <3> QED BY <1>20, <3>1, <3>2, <3>3 DEF UpdateFailed, ClearState
  <2>4. RestInv'
    BY <2>1, <2>2, <2>3, <2>6 DEF RestInv, UpdaterInv
  <2>5. UpdaterInv(u)'
    BY <2>3 DEF UpdaterInv
  <2> QED BY <1>2, <2>1, <2>4, <2>5, UpdaterKeeps DEF UpdaterPC
<1>21. CASE UNCHANGED vars
  BY <1>21 DEF FileInv, Intact, Solo, UpdaterInv, RestInv, BackupOK, Source, vars, fileVars
<1> QED
  BY <1>3, <1>4, <1>5, <1>6, <1>7, <1>8, <1>9, <1>10, <1>11, <1>12, <1>13, <1>15, <1>16, <1>17, <1>18,
     <1>19, <1>20, <1>21
  DEF Next, MainStep, UpdaterStep

(* The invariants of every behaviour. *)
LEMMA Invariants == Spec => [](TypeInv /\ FileInv)
<1>1. Init => FileInv
  <2> SUFFICES ASSUME Init PROVE FileInv
    OBVIOUS
  <2>1. \A a \in Actors : pc[a] = "idle"
    BY DEF Init
  <2>2. pc[Main] = "idle" /\ \A u \in Updaters : pc[u] = "idle"
    BY <2>1, ConstantFacts
  <2> QED BY <2>2, ConstantFacts DEF Init, FileInv, Solo, UpdaterInv, RestInv, BackupOK, NoState
<1>2. TypeInv /\ FileInv /\ [Next]_vars => (TypeInv /\ FileInv)'
  BY NextType, NextFiles
<1> QED BY <1>1, <1>2, InitType, PTL DEF Spec

(* Bootable is an invariant: whatever downloads, copies, renames and       *)
(* writes of the state file fail in any number of updates and rollbacks    *)
(* one after the other, there is a whole binary whenever systemd has to    *)
(* start one, unless a rename and its undoing both failed or a crash cut a *)
(* copy or a replacement short.                                            *)
THEOREM AlwaysBootable == Spec => []Bootable
<1>1. TypeInv /\ FileInv => Bootable
  <2> SUFFICES ASSUME TypeInv, FileInv, proc = Down, Intact PROVE bin \in Versions
    BY DEF Bootable, Intact
  <2>1. pc[Main] = "idle" /\ \A u \in Updaters : pc[u] = "idle"
    BY DEF TypeInv, AloneInv
  <2> QED BY <2>1 DEF FileInv, RestInv
<1> QED BY <1>1, Invariants, PTL

(* RollbackRestores is an invariant: when the start-up check has rolled an *)
(* update back, the version the update replaced is in place.               *)
THEOREM RollbacksRestore == Spec => []RollbackRestores
<1>1. TypeInv /\ FileInv => RollbackRestores
  <2> SUFFICES ASSUME TypeInv, FileInv, pc[Main] = "clear", prev # Absent, upset = {} PROVE bin = state.from
    BY DEF RollbackRestores
  <2>1. RestInv
    BY DEF TypeInv, AloneInv, FileInv, Intact
  <2> QED BY <2>1 DEF RestInv, BackupOK
<1> QED BY <1>1, Invariants, PTL
=============================================================================
