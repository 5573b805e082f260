-------------------------- MODULE CredentialsProofs --------------------------
(***************************************************************************)
(* Proofs about Credentials, for every set of rotations and every bound on *)
(* keys, crashes and disk outages.                                         *)
(***************************************************************************)
EXTENDS Credentials, TLAPS

(* Steps of an operation that works on the bundle sec.id ... *)
RequestStep == {"key", "csr", "saveRequest"}
ApplyStep == {"cert", "ca", "savePending", "activate", "undoPending", "saveFinal", "rollback",
              "restore"}
ResumeStep == {"resumePointer", "resumeFinal", "resumeRollback", "resumeRestore"}
CutoverStep == ApplyStep \cup ResumeStep

(* ... and what each of them relies on. *)
SectionOK ==
    /\ sec.at \in RequestStep \cup CutoverStep \cup {"discard"} => sec.id \in Rotations
    /\ sec.at = "return" /\ sec.op = "begin" /\ sec.ok => sec.id \in Rotations
    /\ sec.at \in RequestStep => sec.op = "begin"
    /\ sec.at \in ApplyStep => sec.op = "apply"
    /\ sec.at \in ResumeStep => sec.op = "resume"
    /\ sec.at = "discard" => sec.op \in {"apply", "record"}
    /\ sec.at = "saveFailure" => sec.op = "record"
    /\ sec.at = "key" => keys[sec.id] < MaxKeys

ArgOK ==
    /\ pc["hb"] = "send" => arg["hb"].id \in Rotations
    /\ pc["run"] = "http" => arg["run"].id \in Rotations
    /\ \A q \in asked : q.id \in Rotations

(* Whose request the operation works on. *)
OwnerOK ==
    /\ sec.at \in RequestStep => mem.pid \in {None, sec.id}
    /\ sec.at \in CutoverStep => mem.pid = sec.id /\ sec.old.pid = sec.id
    /\ sec.at = "saveFailure" => mem.pid = sec.id

TypeInv == TypeOK /\ SectionOK /\ ArgOK /\ OwnerOK

-----------------------------------------------------------------------------
(* The initial states satisfy the inductive invariant. *)
LEMMA InitType == Init => TypeInv
<1> SUFFICES ASSUME Init PROVE TypeInv
  OBVIOUS
<1>1. InitialConfig \in Config
  BY DEF InitialConfig, Config, Credential, Pointers
<1>2. FreeSection \in Section
  BY <1>1 DEF FreeSection, Section, Step, Goroutine
<1>3. StoreTypeOK
  BY StoreConstants DEF Init, StoreInit, StoreTypeOK, Pointers, File, Content
<1>4. pc \in [Goroutine -> PC] /\ arg \in [Goroutine -> Request]
  BY StoreConstants DEF Init, Goroutine, PC, NoRequest, Request, Content
<1>5. /\ keys \in [Rotations -> Content] /\ issued \in [Rotations -> Content]
      /\ outages \in 0 .. MaxOutages /\ crashes \in 0 .. MaxCrashes
  BY StoreConstants, CredentialConstants DEF Init, Content
<1>6. TypeOK
  BY <1>1, <1>2, <1>3, <1>4, <1>5 DEF Init, TypeOK
<1>7. SectionOK /\ OwnerOK /\ ArgOK
  BY DEF Init, FreeSection, SectionOK, OwnerOK, ArgOK, RequestStep, CutoverStep,
         ApplyStep, ResumeStep, Goroutine
<1> QED BY <1>6, <1>7 DEF TypeInv

(* The configurations that the cutover saves are configurations. *)
LEMMA ConfigSaves ==
    ASSUME NEW cfg \in Config
    PROVE  /\ Cleared(cfg) \in Config
           /\ cfg.pid \in Rotations => Final(cfg) \in Config
BY StoreConstants, CredentialConstants DEF Config, Cleared, Final, Credential, Pointers

(* The operation that holds the locks stays the same when it moves on. *)
SectionKept ==
    /\ sec' \in Section
    /\ sec'.id = sec.id /\ sec'.op = sec.op /\ sec'.by = sec.by
    /\ sec'.old = sec.old /\ sec'.clear = sec.clear

(* Moving to the next step of an operation changes only the step. *)
LEMMA GotoKeeps ==
    ASSUME sec \in Section, NEW at \in Step, Goto(at)
    PROVE  SectionKept /\ sec'.at = at
BY DEF Goto, SectionKept, Section

(* Leaving an operation changes only the step and the outcome. *)
LEMMA LeaveKeeps ==
    ASSUME sec \in Section, NEW ok \in BOOLEAN, Leave(ok)
    PROVE  SectionKept /\ sec'.at = "return" /\ sec'.ok = ok
BY DEF Leave, SectionKept, Section, Step

(* atomicWrite changes one file of one bundle, or nothing when it fails. *)
LEMMA FileWritten ==
    ASSUME StoreTypeOK, NEW r \in Rotations, NEW f \in File, NEW c \in Content,
           WriteFile(r, f, c), UNCHANGED writable
    PROVE  /\ StoreTypeOK'
           /\ writable => bundles'[r][f] = c
           /\ ~writable => bundles' = bundles
           /\ \A q \in Rotations : \A g \in File :
                 q # r \/ g # f => bundles'[q][g] = bundles[q][g]
           /\ pointer' = pointer
BY DEF StoreTypeOK, WriteFile

(* Removing a file touches no other bundle and not the pointer. *)
LEMMA FileRemoved ==
    ASSUME StoreTypeOK, NEW r \in Rotations, NEW f \in File, RemoveFile(r, f), UNCHANGED writable
    PROVE  /\ StoreTypeOK'
           /\ \A q \in Rotations \ {r} : bundles'[q] = bundles[q]
           /\ pointer' = pointer
BY StoreConstants DEF StoreTypeOK, RemoveFile, Content

(* Writing the pointer changes it to the given bundle or not at all. *)
LEMMA PointerWritten ==
    ASSUME StoreTypeOK, NEW p \in Pointers, WritePointer(p) \/ Rollback(p), UNCHANGED writable
    PROVE  /\ StoreTypeOK'
           /\ bundles' = bundles
           /\ pointer' \in {pointer, p}
           /\ writable => pointer' = p
BY DEF StoreTypeOK, WritePointer, Rollback, RollbackWorks

(* SaveConfig and the copy to memory succeed together or change nothing. *)
LEMMA ConfigSaved ==
    ASSUME disk \in Config, mem \in Config, NEW cfg \in Config, SaveCredentialConfig(cfg)
    PROVE  /\ disk' \in Config /\ mem' \in Config
           /\ writable => mem' = cfg
           /\ ~writable => mem' = mem
           /\ mem = disk => mem' = disk'
BY DEF SaveCredentialConfig

(* What no step inside an operation touches keeps its type. *)
LEMMA RestKept ==
    ASSUME TypeOK, ArgOK, InSection, StoreTypeOK', disk' \in Config, mem' \in Config, SectionKept,
           keys' \in [Rotations -> Content]
    PROVE  TypeOK' /\ ArgOK'
BY DEF TypeOK, ArgOK, InSection, SectionKept, serverVars, envVars

(* The parts of the type invariant that the steps of an operation use. *)
LEMMA SectionTypes ==
    ASSUME TypeOK
    PROVE  /\ StoreTypeOK /\ sec \in Section /\ sec.old \in Config /\ mem \in Config /\ disk \in Config
           /\ keys \in [Rotations -> Content] /\ issued \in [Rotations -> Content]
           /\ writable \in BOOLEAN
BY DEF TypeOK, StoreTypeOK, Section

(* Every file operation of an operation keeps the inductive invariant. *)
LEMMA SectionStepType == TypeInv /\ SectionStep /\ ~Return => TypeInv'
<1> SUFFICES ASSUME TypeInv, SectionStep, ~Return PROVE TypeInv'
  OBVIOUS
<1>0. TypeOK /\ SectionOK /\ ArgOK /\ OwnerOK
  BY DEF TypeInv
<1> USE <1>0, SectionTypes
<1>a. ASSUME InSection, UNCHANGED keys, SectionKept, StoreTypeOK', disk' \in Config, mem' \in Config,
             SectionOK', OwnerOK'
      PROVE  TypeInv'
  BY <1>a, RestKept DEF TypeInv
<1>1. CASE WriteRotationKey
  <2>1. sec.id \in Rotations /\ keys[sec.id] + 1 \in Content
    BY <1>1, StoreConstants DEF WriteRotationKey, SectionOK, RequestStep, CutoverStep, ApplyStep, ResumeStep, StoreTypeOK, Content, File
  <2>2. StoreTypeOK' /\ disk' \in Config /\ mem' \in Config /\ keys' \in [Rotations -> Content]
    BY <1>1, <2>1, FileWritten DEF WriteRotationKey, InSection, FilesOnly, File
  <2>3. SectionKept /\ sec'.at \in {"csr", "return"}
    BY <1>1, GotoKeeps, LeaveKeeps DEF WriteRotationKey, Step
  <2>4. SectionOK' /\ OwnerOK'
    BY <1>1, <2>1, <2>3 DEF WriteRotationKey, SectionOK, OwnerOK, SectionKept, RequestStep, CutoverStep, ApplyStep, ResumeStep, FilesOnly
  <2> QED BY <1>1, <2>2, <2>3, <2>4, RestKept DEF WriteRotationKey, TypeInv
<1>2. CASE WriteRotationCSR
  <2>1. sec.id \in Rotations /\ bundles[sec.id]["key"] \in Content
    BY <1>2, StoreConstants DEF WriteRotationCSR, SectionOK, RequestStep, CutoverStep, ApplyStep, ResumeStep, StoreTypeOK, Content, File
  <2>2. StoreTypeOK' /\ disk' \in Config /\ mem' \in Config
    BY <1>2, <2>1, FileWritten DEF WriteRotationCSR, InSection, FilesOnly, File
  <2>3. SectionKept /\ sec'.at \in {"saveRequest", "return"}
    BY <1>2, GotoKeeps, LeaveKeeps DEF WriteRotationCSR, Step
  <2>4. SectionOK' /\ OwnerOK'
    BY <1>2, <2>1, <2>3 DEF WriteRotationCSR, SectionOK, OwnerOK, SectionKept, RequestStep, CutoverStep, ApplyStep, ResumeStep, FilesOnly
  <2> QED BY <1>2, <2>2, <2>3, <2>4, <1>a DEF WriteRotationCSR
<1>3. CASE SaveRequest
  <2>1. sec.id \in Rotations /\ [mem EXCEPT !.pid = sec.id, !.status = "pending"] \in Config
    BY <1>3, ConfigSaves DEF SaveRequest, SectionOK, OwnerOK, RequestStep, CutoverStep, ApplyStep, ResumeStep, Config
  <2>2. StoreTypeOK' /\ disk' \in Config /\ mem' \in Config
    BY <1>3, <2>1, ConfigSaved DEF SaveRequest, InSection, ConfigOnly, StoreTypeOK
  <2>3. SectionKept /\ sec'.at \in {"return"}
    BY <1>3, GotoKeeps, LeaveKeeps DEF SaveRequest, Step
  <2>4. SectionOK' /\ OwnerOK'
    BY <1>3, <2>1, <2>3 DEF SaveRequest, SectionOK, OwnerOK, SectionKept, RequestStep, CutoverStep, ApplyStep, ResumeStep, FilesOnly, SaveCredentialConfig
  <2> QED BY <1>3, <2>2, <2>3, <2>4, <1>a DEF SaveRequest
<1>4. CASE StageCertificate
  <2>1. sec.id \in Rotations /\ issued[sec.id] \in Content
    BY <1>4, StoreConstants DEF StageCertificate, SectionOK, RequestStep, CutoverStep, ApplyStep, ResumeStep, StoreTypeOK, Content, File
  <2>2. StoreTypeOK' /\ disk' \in Config /\ mem' \in Config
    BY <1>4, <2>1, FileWritten DEF StageCertificate, InSection, FilesOnly, File
  <2>3. SectionKept /\ sec'.at \in {"ca", "return"}
    BY <1>4, GotoKeeps, LeaveKeeps DEF StageCertificate, Step
  <2>4. SectionOK' /\ OwnerOK'
    BY <1>4, <2>1, <2>3 DEF StageCertificate, SectionOK, OwnerOK, SectionKept, RequestStep, CutoverStep, ApplyStep, ResumeStep, FilesOnly
  <2> QED BY <1>4, <2>2, <2>3, <2>4, <1>a DEF StageCertificate
<1>5. CASE StageCA
  <2>1. sec.id \in Rotations /\ issued[sec.id] \in Content
    BY <1>5, StoreConstants DEF StageCA, SectionOK, RequestStep, CutoverStep, ApplyStep, ResumeStep, StoreTypeOK, Content, File
  <2>2. StoreTypeOK' /\ disk' \in Config /\ mem' \in Config
    BY <1>5, <2>1, FileWritten DEF StageCA, InSection, FilesOnly, File
  <2>3. SectionKept /\ sec'.at \in {"savePending", "return"}
    BY <1>5, GotoKeeps, LeaveKeeps DEF StageCA, Step
  <2>4. SectionOK' /\ OwnerOK'
    BY <1>5, <2>1, <2>3 DEF StageCA, SectionOK, OwnerOK, SectionKept, RequestStep, CutoverStep, ApplyStep, ResumeStep, FilesOnly
  <2> QED BY <1>5, <2>2, <2>3, <2>4, <1>a DEF StageCA
<1>6. CASE SavePending
  <2>1. sec.id \in Rotations /\ [mem EXCEPT !.ptok = TRUE, !.prev = pointer] \in Config
    BY <1>6, ConfigSaves DEF SavePending, SectionOK, OwnerOK, RequestStep, CutoverStep, ApplyStep, ResumeStep, Config, StoreTypeOK
  <2>2. StoreTypeOK' /\ disk' \in Config /\ mem' \in Config
    BY <1>6, <2>1, ConfigSaved DEF SavePending, InSection, ConfigOnly, StoreTypeOK
  <2>3. SectionKept /\ sec'.at \in {"activate", "discard"}
    BY <1>6, GotoKeeps, LeaveKeeps DEF SavePending, Step
  <2>4. SectionOK' /\ OwnerOK'
    BY <1>6, <2>1, <2>3 DEF SavePending, SectionOK, OwnerOK, SectionKept, RequestStep, CutoverStep, ApplyStep, ResumeStep, FilesOnly, SaveCredentialConfig, Config
  <2> QED BY <1>6, <2>2, <2>3, <2>4, <1>a DEF SavePending
<1>7. CASE ActivateRotation
  <2>1. sec.id \in Rotations /\ sec.id \in Pointers
    BY <1>7 DEF ActivateRotation, SectionOK, CutoverStep, ApplyStep, ResumeStep, Config, Pointers
  <2>2. StoreTypeOK' /\ disk' \in Config /\ mem' \in Config
    BY <1>7, <2>1, PointerWritten DEF ActivateRotation, InSection, FilesOnly, ConfigOnly, StoreTypeOK
  <2>3. SectionKept /\ sec'.at \in {"saveFinal", "undoPending"}
    BY <1>7, GotoKeeps, LeaveKeeps DEF ActivateRotation, Step
  <2>4. SectionOK' /\ OwnerOK'
    BY <1>7, <2>1, <2>3 DEF ActivateRotation, SectionOK, OwnerOK, SectionKept, RequestStep, CutoverStep, ApplyStep, ResumeStep, FilesOnly
  <2> QED BY <1>7, <2>2, <2>3, <2>4, <1>a DEF ActivateRotation
<1>8. CASE UndoPending
  <2>1. sec.id \in Rotations /\ sec.old \in Config
    BY <1>8, ConfigSaves DEF UndoPending, SectionOK, OwnerOK, RequestStep, CutoverStep, ApplyStep, ResumeStep
  <2>2. StoreTypeOK' /\ disk' \in Config /\ mem' \in Config
    BY <1>8, <2>1, ConfigSaved DEF UndoPending, InSection, ConfigOnly, StoreTypeOK
  <2>3. SectionKept /\ sec'.at \in {"discard", "return"}
    BY <1>8, GotoKeeps, LeaveKeeps DEF UndoPending, Step
  <2>4. SectionOK' /\ OwnerOK'
    BY <1>8, <2>1, <2>3 DEF UndoPending, SectionOK, OwnerOK, SectionKept, RequestStep, CutoverStep, ApplyStep, ResumeStep, FilesOnly, SaveCredentialConfig
  <2> QED BY <1>8, <2>2, <2>3, <2>4, <1>a DEF UndoPending
<1>9. CASE SaveFinal
  <2>1. sec.id \in Rotations /\ Final(mem) \in Config
    BY <1>9, ConfigSaves DEF SaveFinal, SectionOK, OwnerOK, RequestStep, CutoverStep, ApplyStep, ResumeStep
  <2>2. StoreTypeOK' /\ disk' \in Config /\ mem' \in Config
    BY <1>9, <2>1, ConfigSaved DEF SaveFinal, InSection, ConfigOnly, StoreTypeOK
  <2>3. SectionKept /\ sec'.at \in {"rollback", "return"} /\ (sec'.at = "rollback" => ~writable)
    BY <1>9, GotoKeeps, LeaveKeeps DEF SaveFinal, Step
  <2>4. SectionOK' /\ OwnerOK'
    BY <1>9, <2>1, <2>3 DEF SaveFinal, SectionOK, OwnerOK, SectionKept, RequestStep, CutoverStep, ApplyStep, ResumeStep, FilesOnly, SaveCredentialConfig
  <2> QED BY <1>9, <2>2, <2>3, <2>4, <1>a DEF SaveFinal
<1>10. CASE RollbackPointer
  <2>1. sec.id \in Rotations /\ mem.prev \in Pointers
    BY <1>10 DEF RollbackPointer, SectionOK, CutoverStep, ApplyStep, ResumeStep, Config, Pointers
  <2>2. StoreTypeOK' /\ disk' \in Config /\ mem' \in Config
    BY <1>10, <2>1, PointerWritten DEF RollbackPointer, InSection, FilesOnly, ConfigOnly, StoreTypeOK
  <2>3. SectionKept /\ sec'.at \in {"restore"}
    BY <1>10, GotoKeeps, LeaveKeeps DEF RollbackPointer, Step
  <2>4. SectionOK' /\ OwnerOK'
    BY <1>10, <2>1, <2>3 DEF RollbackPointer, SectionOK, OwnerOK, SectionKept, RequestStep, CutoverStep, ApplyStep, ResumeStep, FilesOnly
  <2> QED BY <1>10, <2>2, <2>3, <2>4, <1>a DEF RollbackPointer
<1>11. CASE RestoreConfig
  <2>1. sec.id \in Rotations /\ sec.old \in Config
    BY <1>11, ConfigSaves DEF RestoreConfig, SectionOK, OwnerOK, RequestStep, CutoverStep, ApplyStep, ResumeStep
  <2>2. StoreTypeOK' /\ disk' \in Config /\ mem' \in Config
    BY <1>11, <2>1, ConfigSaved DEF RestoreConfig, InSection, ConfigOnly, StoreTypeOK
  <2>3. SectionKept /\ sec'.at \in {"discard", "return"}
    BY <1>11, GotoKeeps, LeaveKeeps DEF RestoreConfig, Step
  <2>4. SectionOK' /\ OwnerOK'
    BY <1>11, <2>1, <2>3 DEF RestoreConfig, SectionOK, OwnerOK, SectionKept, RequestStep, CutoverStep, ApplyStep, ResumeStep, FilesOnly, SaveCredentialConfig
  <2> QED BY <1>11, <2>2, <2>3, <2>4, <1>a DEF RestoreConfig
<1>12. CASE DiscardRotation
  <2>1. sec.id \in Rotations
    BY <1>12 DEF DiscardRotation, SectionOK
  <2>2. StoreTypeOK' /\ disk' \in Config /\ mem' \in Config
    BY <1>12, <2>1, FileRemoved DEF DiscardRotation, InSection, FilesOnly, ConfigOnly, StoreTypeOK
  <2>3. SectionKept /\ sec'.at \in {"discard", "return"}
    BY <1>12, GotoKeeps, LeaveKeeps DEF DiscardRotation, Step, SectionKept
  <2>4. SectionOK' /\ OwnerOK'
    BY <1>12, <2>1, <2>3 DEF DiscardRotation, SectionOK, OwnerOK, SectionKept, RequestStep, CutoverStep, ApplyStep, ResumeStep, FilesOnly
  <2> QED BY <1>12, <2>2, <2>3, <2>4, <1>a DEF DiscardRotation
<1>13. CASE ResumePointer
  <2>1. sec.id \in Rotations /\ sec.id \in Pointers
    BY <1>13 DEF ResumePointer, SectionOK, CutoverStep, ApplyStep, ResumeStep, Config, Pointers
  <2>2. StoreTypeOK' /\ disk' \in Config /\ mem' \in Config
    BY <1>13, <2>1, PointerWritten DEF ResumePointer, InSection, FilesOnly, ConfigOnly, StoreTypeOK
  <2>3. SectionKept /\ sec'.at \in {"resumeFinal", "return"}
    BY <1>13, GotoKeeps, LeaveKeeps DEF ResumePointer, Step
  <2>4. SectionOK' /\ OwnerOK'
    BY <1>13, <2>1, <2>3 DEF ResumePointer, SectionOK, OwnerOK, SectionKept, RequestStep, CutoverStep, ApplyStep, ResumeStep, FilesOnly
  <2> QED BY <1>13, <2>2, <2>3, <2>4, <1>a DEF ResumePointer
<1>14. CASE ResumeFinal
  <2>1. sec.id \in Rotations /\ Final(mem) \in Config
    BY <1>14, ConfigSaves DEF ResumeFinal, SectionOK, OwnerOK, RequestStep, CutoverStep, ApplyStep, ResumeStep
  <2>2. StoreTypeOK' /\ disk' \in Config /\ mem' \in Config
    BY <1>14, <2>1, ConfigSaved DEF ResumeFinal, InSection, ConfigOnly, StoreTypeOK
  <2>3. SectionKept /\ sec'.at \in {"resumeRollback", "return"} /\ (sec'.at = "resumeRollback" => ~writable)
    BY <1>14, GotoKeeps, LeaveKeeps DEF ResumeFinal, Step
  <2>4. SectionOK' /\ OwnerOK'
    BY <1>14, <2>1, <2>3 DEF ResumeFinal, SectionOK, OwnerOK, SectionKept, RequestStep, CutoverStep, ApplyStep, ResumeStep, FilesOnly, SaveCredentialConfig
  <2> QED BY <1>14, <2>2, <2>3, <2>4, <1>a DEF ResumeFinal
<1>15. CASE ResumeRollback
  <2>1. sec.id \in Rotations /\ mem.prev \in Pointers
    BY <1>15 DEF ResumeRollback, SectionOK, CutoverStep, ApplyStep, ResumeStep, Config, Pointers
  <2>2. StoreTypeOK' /\ disk' \in Config /\ mem' \in Config
    BY <1>15, <2>1, PointerWritten DEF ResumeRollback, InSection, FilesOnly, ConfigOnly, StoreTypeOK
  <2>3. SectionKept /\ sec'.at \in {"resumeRestore"}
    BY <1>15, GotoKeeps, LeaveKeeps DEF ResumeRollback, Step
  <2>4. SectionOK' /\ OwnerOK'
    BY <1>15, <2>1, <2>3 DEF ResumeRollback, SectionOK, OwnerOK, SectionKept, RequestStep, CutoverStep, ApplyStep, ResumeStep, FilesOnly
  <2> QED BY <1>15, <2>2, <2>3, <2>4, <1>a DEF ResumeRollback
<1>16. CASE ResumeRestore
  <2>1. sec.id \in Rotations /\ sec.old \in Config
    BY <1>16, ConfigSaves DEF ResumeRestore, SectionOK, OwnerOK, RequestStep, CutoverStep, ApplyStep, ResumeStep
  <2>2. StoreTypeOK' /\ disk' \in Config /\ mem' \in Config
    BY <1>16, <2>1, ConfigSaved DEF ResumeRestore, InSection, ConfigOnly, StoreTypeOK
  <2>3. SectionKept /\ sec'.at \in {"return"}
    BY <1>16, GotoKeeps, LeaveKeeps DEF ResumeRestore, Step
  <2>4. SectionOK' /\ OwnerOK'
    BY <1>16, <2>1, <2>3 DEF ResumeRestore, SectionOK, OwnerOK, SectionKept, RequestStep, CutoverStep, ApplyStep, ResumeStep, FilesOnly
  <2> QED BY <1>16, <2>2, <2>3, <2>4, <1>a DEF ResumeRestore
<1>17. CASE SaveFailure
  <2>1. sec.id = mem.pid /\ (IF sec.clear THEN Cleared([mem EXCEPT !.status = "failed"])
                      ELSE [mem EXCEPT !.status = "failed"]) \in Config
    BY <1>17, ConfigSaves DEF SaveFailure, SectionOK, OwnerOK, RequestStep, CutoverStep, ApplyStep, ResumeStep, Config
  <2>2. StoreTypeOK' /\ disk' \in Config /\ mem' \in Config
    BY <1>17, <2>1, ConfigSaved DEF SaveFailure, InSection, ConfigOnly, StoreTypeOK
  <2>3. SectionKept /\ sec'.at \in {"discard", "return"} /\ (sec'.at = "discard" => sec.id # None)
    BY <1>17, GotoKeeps, LeaveKeeps DEF SaveFailure, Step
  <2>4. SectionOK' /\ OwnerOK'
    BY <1>17, <2>1, <2>3 DEF SaveFailure, SectionOK, OwnerOK, SectionKept, RequestStep, CutoverStep, ApplyStep, ResumeStep, FilesOnly, SaveCredentialConfig, Config
  <2> QED BY <1>17, <2>2, <2>3, <2>4, <1>a DEF SaveFailure
<1> QED BY <1>1, <1>2, <1>3, <1>4, <1>5, <1>6, <1>7, <1>8, <1>9, <1>10, <1>11, <1>12, <1>13, <1>14, <1>15, <1>16, <1>17 DEF SectionStep

(* A goroutine takes the locks. *)
LEMMA LockTypes ==
    ASSUME TypeOK, NEW g \in Goroutine, NEW op \in {"begin", "apply", "resume", "record"},
           NEW id \in Rotations \cup {None}, NEW clear \in BOOLEAN, NEW at \in Step,
           Lock(g, op, id, clear, at)
    PROVE  /\ sec' \in Section /\ pc' \in [Goroutine -> PC]
           /\ sec'.at = at /\ sec'.op = op /\ sec'.id = id /\ sec'.old = mem /\ ~sec'.ok
           /\ sec'.clear = clear
           /\ \A h \in Goroutine : pc'[h] = IF h = g THEN "busy" ELSE pc[h]
<1>1. sec' \in Section /\ sec'.at = at /\ sec'.op = op /\ sec'.id = id /\ sec'.old = mem /\ ~sec'.ok
      /\ sec'.clear = clear
  BY DEF Lock, Section, TypeOK
<1>2. pc' \in [Goroutine -> PC] /\ \A h \in Goroutine : pc'[h] = IF h = g THEN "busy" ELSE pc[h]
  BY DEF Lock, TypeOK, PC
<1> QED BY <1>1, <1>2

(* Steps that leave the store, the configuration and the section alone. *)
LEMMA QuietTypes ==
    ASSUME TypeInv, UNCHANGED <<storeVars, disk, mem, sec, used, keys>>, issued' = issued,
           pc' \in [Goroutine -> PC], arg' \in [Goroutine -> Request], force' \in BOOLEAN,
           lingering' \in SUBSET Goroutine, asked' \in SUBSET Request, ArgOK',
           UNCHANGED envVars
    PROVE  TypeInv'
BY DEF TypeInv, TypeOK, StoreTypeOK, SectionOK, OwnerOK, storeVars, envVars

(* Starting an operation keeps the inductive invariant. *)
LEMMA CallType ==
    ASSUME TypeInv, NEW g \in Goroutine, CallOperation(g)
    PROVE  TypeInv'
<1>0. TypeOK /\ SectionOK /\ ArgOK /\ OwnerOK
  BY DEF TypeInv
<1> USE <1>0, SectionTypes
<1>a. ASSUME UNCHANGED <<storeVars, disk, mem, arg, force, lingering, keys, serverVars, envVars>>,
             used' \in SUBSET Rotations, sec' \in Section, pc' \in [Goroutine -> PC],
             \A h \in Goroutine : pc'[h] \in {"busy", pc[h]}, SectionOK', OwnerOK'
      PROVE  TypeInv'
  <2>1. ArgOK'
    BY <1>a DEF ArgOK, serverVars, Goroutine
  <2>2. TypeOK'
    BY <1>a DEF TypeOK, StoreTypeOK, storeVars, serverVars, envVars
  <2> QED BY <1>a, <2>1, <2>2 DEF TypeInv
<1>1. CASE BeginCredentialRequest(g)
  <2>1. PICK id \in NextRequest :
          /\ Lock(g, "begin", id, FALSE, IF HasCSR(id) THEN "saveRequest" ELSE "key")
          /\ used' = used \cup {id}
          /\ UNCHANGED <<storeVars, disk, mem, arg, force, lingering, keys, serverVars, envVars>>
    BY <1>1 DEF BeginCredentialRequest
  <2>2. id \in Rotations /\ mem.pid \in {None, id} /\ (HasCSR(id) \/ keys[id] < MaxKeys)
    BY DEF NextRequest, CanPrepare, Config
  <2>3. /\ sec' \in Section /\ pc' \in [Goroutine -> PC] /\ sec'.op = "begin" /\ sec'.id = id
        /\ sec'.at = (IF HasCSR(id) THEN "saveRequest" ELSE "key")
        /\ \A h \in Goroutine : pc'[h] \in {"busy", pc[h]}
    BY <2>1, <2>2, LockTypes, ZenonT(40) DEF Step
  <2>4. SectionOK' /\ OwnerOK'
    BY <2>1, <2>2, <2>3 DEF SectionOK, OwnerOK, RequestStep, CutoverStep, ApplyStep, ResumeStep
  <2> QED BY <2>1, <2>2, <2>3, <2>4, <1>a DEF TypeOK
<1>2. CASE CannotPrepare(g)
  <2>1. /\ sec' \in Section /\ pc' \in [Goroutine -> PC] /\ sec'.at = "return" /\ ~sec'.ok
        /\ \A h \in Goroutine : pc'[h] \in {"busy", pc[h]}
    <3>1. Lock(g, "begin", mem.pid, FALSE, "return")
      BY <1>2 DEF CannotPrepare
    <3>2. mem.pid \in Rotations \cup {None} /\ "return" \in Step
      BY DEF Config, Step
    <3> QED BY <3>1, <3>2, LockTypes
  <2>2. SectionOK' /\ OwnerOK'
    BY <2>1 DEF SectionOK, OwnerOK, RequestStep, CutoverStep, ApplyStep, ResumeStep
  <2> QED BY <1>2, <2>1, <2>2, <1>a DEF CannotPrepare, TypeOK
<1>3. CASE ApplyCredentialRotation(g)
  <2>1. arg[g].id \in Rotations \cup {None}
    BY DEF TypeOK, Request
  <2>2. /\ sec' \in Section /\ pc' \in [Goroutine -> PC] /\ sec'.op = "apply" /\ sec'.id = arg[g].id
        /\ sec'.old = mem /\ sec'.at \in {"cert", "return"} /\ ~sec'.ok
        /\ sec'.at = "cert" => Usable(arg[g].id)
        /\ \A h \in Goroutine : pc'[h] \in {"busy", pc[h]}
    <3>1. \/ Usable(arg[g].id) /\ Lock(g, "apply", arg[g].id, FALSE, "cert")
          \/ Lock(g, "apply", arg[g].id, FALSE, "return")
      BY <1>3 DEF ApplyCredentialRotation
    <3>2. "cert" \in Step /\ "return" \in Step
      BY DEF Step
    <3>3. CASE Usable(arg[g].id) /\ Lock(g, "apply", arg[g].id, FALSE, "cert")
      <4>1. Lock(g, "apply", arg[g].id, FALSE, "cert") /\ Usable(arg[g].id)
        BY <3>3
      <4>2. /\ sec' \in Section /\ pc' \in [Goroutine -> PC] /\ sec'.op = "apply"
            /\ sec'.id = arg[g].id /\ sec'.old = mem /\ sec'.at = "cert" /\ ~sec'.ok
            /\ \A h \in Goroutine : pc'[h] = IF h = g THEN "busy" ELSE pc[h]
        BY <2>1, <3>2, <4>1, LockTypes, ZenonT(40)
      <4> QED BY <4>1, <4>2
    <3>4. CASE Lock(g, "apply", arg[g].id, FALSE, "return")
      <4>1. /\ sec' \in Section /\ pc' \in [Goroutine -> PC] /\ sec'.op = "apply"
            /\ sec'.id = arg[g].id /\ sec'.old = mem /\ sec'.at = "return" /\ ~sec'.ok
            /\ \A h \in Goroutine : pc'[h] = IF h = g THEN "busy" ELSE pc[h]
        BY <2>1, <3>2, <3>4, LockTypes, ZenonT(40)
      <4> QED BY <4>1
    <3> QED BY <3>1, <3>3, <3>4
  <2>3. SectionOK' /\ OwnerOK'
    BY <1>3, <2>1, <2>2 DEF ApplyCredentialRotation, Usable, SectionOK, OwnerOK, RequestStep,
       CutoverStep, ApplyStep, ResumeStep
  <2> QED BY <1>3, <2>2, <2>3, <1>a DEF ApplyCredentialRotation, TypeOK
<1>4. CASE RecordCredentialFailure(g)
  <2>1. /\ sec' \in Section /\ pc' \in [Goroutine -> PC] /\ sec'.op = "record" /\ sec'.id = mem.pid
        /\ sec'.at = "saveFailure"
        /\ \A h \in Goroutine : pc'[h] \in {"busy", pc[h]}
    <3>1. Lock(g, "record", mem.pid, pc[g] = "recordClear", "saveFailure")
      BY <1>4 DEF RecordCredentialFailure
    <3>2. mem.pid \in Rotations \cup {None} /\ "saveFailure" \in Step /\ (pc[g] = "recordClear") \in BOOLEAN
      BY DEF Config, Step
    <3> QED BY <3>1, <3>2, LockTypes, ZenonT(40)
  <2>2. SectionOK' /\ OwnerOK'
    BY <1>4, <2>1 DEF RecordCredentialFailure, SectionOK, OwnerOK, RequestStep, CutoverStep,
       ApplyStep, ResumeStep
  <2> QED BY <1>4, <2>1, <2>2, <1>a DEF RecordCredentialFailure, TypeOK
<1> QED BY <1>1, <1>2, <1>3, <1>4 DEF CallOperation

(* Returning from an operation keeps the inductive invariant. *)
LEMMA ReturnType == TypeInv /\ Return => TypeInv'
<1> SUFFICES ASSUME TypeInv, Return PROVE TypeInv'
  OBVIOUS
<1>0. TypeOK /\ SectionOK /\ ArgOK /\ OwnerOK
  BY DEF TypeInv
<1> USE <1>0, SectionTypes
<1> DEFINE next == AfterReturn(sec.by, sec.op, sec.ok)
<1>1. sec.by \in Goroutine /\ sec.op \in {"begin", "apply", "resume", "record"} /\ sec.ok \in BOOLEAN
  BY DEF Section
<1>2. next \in PC /\ (next \in {"http", "send"} <=> sec.op = "begin" /\ sec.ok)
      /\ (next = "http" => sec.by = "run") /\ (next = "send" => sec.by # "run")
  BY <1>1 DEF AfterReturn, PC
<1>3. FreeSection \in Section
  BY StoreConstants DEF FreeSection, Section, Step, Goroutine, InitialConfig, Config, Credential, Pointers
<1>4. pc' \in [Goroutine -> PC]
  BY <1>1, <1>2 DEF Return, TypeOK, PC
<1>5. arg' \in [Goroutine -> Request]
      /\ (sec.op = "begin" /\ sec.ok => arg'[sec.by].id \in Rotations)
      /\ \A h \in Goroutine \ {sec.by} : arg'[h] = arg[h]
  <2>1. [id |-> sec.id, key |-> bundles[sec.id]["csr"]] \in Request
        \/ ~(sec.op = "begin" /\ sec.ok)
    BY DEF Return, SectionOK, Request, StoreTypeOK, File
  <2>2. NoRequest \in Request
    BY StoreConstants DEF NoRequest, Request, Content
  <2> QED BY <1>1, <2>1, <2>2 DEF Return, TypeOK, SectionOK
<1>6. lingering' \in SUBSET Goroutine /\ force' \in BOOLEAN
  BY <1>1 DEF Return, TypeOK, Goroutine
<1>7. ArgOK'
  BY <1>1, <1>2, <1>5 DEF Return, ArgOK, serverVars, Goroutine
<1>8. SectionOK' /\ OwnerOK'
  BY DEF Return, FreeSection, SectionOK, OwnerOK, RequestStep, CutoverStep, ApplyStep, ResumeStep
<1>9. TypeOK'
  BY <1>3, <1>4, <1>5, <1>6 DEF Return, TypeOK, StoreTypeOK, storeVars, serverVars, envVars
<1> QED BY <1>7, <1>8, <1>9 DEF TypeInv

(* The steps of the reconnect loop keep the inductive invariant. *)
LEMMA RunStepType == TypeInv /\ RunStep => TypeInv'
<1> SUFFICES ASSUME TypeInv, RunStep PROVE TypeInv'
  OBVIOUS
<1>0. TypeOK /\ SectionOK /\ ArgOK /\ OwnerOK
  BY DEF TypeInv
<1> USE <1>0
<1>a. ASSUME NEW to \in PC, MoveRun(to), UNCHANGED arg, force' \in BOOLEAN, lingering' \in SUBSET Goroutine,
             asked' \in SUBSET Request, issued' = issued, ArgOK'
      PROVE  TypeInv'
  <2>1. pc' \in [Goroutine -> PC] /\ arg' \in [Goroutine -> Request]
    BY <1>a DEF MoveRun, TypeOK
  <2> QED BY <1>a, <2>1, QuietTypes DEF MoveRun
<1>b. ASSUME NEW to \in PC \ {"http"}, MoveRun(to), UNCHANGED arg, force' \in BOOLEAN,
             lingering' \in SUBSET Goroutine, UNCHANGED serverVars
      PROVE  TypeInv'
  <2>1. ArgOK'
    BY <1>b DEF MoveRun, ArgOK, TypeOK, serverVars, Goroutine
  <2> QED BY <1>a, <1>b, <2>1 DEF serverVars, TypeOK
<1>c. force \in BOOLEAN /\ lingering \in SUBSET Goroutine /\ LeftOver \in SUBSET Goroutine
  BY DEF TypeOK, LeftOver, Goroutine
<1> USE DEF PC
<1>1. CASE ResumePendingCredentialCutover
  <2>1. CASE CutoverPending(mem)
    <3>1. mem.pid \in Rotations
      BY <2>1, SectionTypes DEF CutoverPending, Config
    <3>2. LET at == IF CompleteBundle(mem.pid) THEN "resumePointer" ELSE "return" IN
          at \in Step /\ Lock("run", "resume", mem.pid, FALSE, at)
      BY <1>1, <2>1 DEF ResumePendingCredentialCutover, Step
    <3>3. /\ sec' \in Section /\ pc' \in [Goroutine -> PC] /\ sec'.op = "resume" /\ sec'.id = mem.pid
          /\ sec'.old = mem /\ sec'.at \in {"resumePointer", "return"}
          /\ \A h \in Goroutine : pc'[h] = IF h = "run" THEN "busy" ELSE pc[h]
      BY <3>1, <3>2, LockTypes DEF Goroutine
    <3>4. SectionOK' /\ OwnerOK'
      BY <1>1, <3>1, <3>3 DEF ResumePendingCredentialCutover, SectionOK, OwnerOK, RequestStep,
         CutoverStep, ApplyStep, ResumeStep
    <3>5. ArgOK'
      BY <1>1, <3>3 DEF ResumePendingCredentialCutover, ArgOK, serverVars, Goroutine
    <3>6. TypeOK'
      BY <1>1, <3>3 DEF ResumePendingCredentialCutover, TypeOK, StoreTypeOK, storeVars, serverVars, envVars
    <3> QED BY <3>4, <3>5, <3>6 DEF TypeInv
  <2>2. CASE ~CutoverPending(mem)
    BY <1>1, <1>b, <1>c, <2>2 DEF ResumePendingCredentialCutover, MoveRun
  <2> QED BY <2>1, <2>2
<1>2. CASE UseCredential \/ StartRecovery \/ RecoveryWaits
  BY <1>2, <1>b, <1>c DEF UseCredential, StartRecovery, RecoveryWaits
<1>3. CASE PostRenewal
  <2>1. arg["run"] \in Request /\ arg["run"].id \in Rotations
    BY <1>3 DEF PostRenewal, ArgOK, TypeOK, Goroutine
  <2>2. ArgOK' /\ asked' \in SUBSET Request
    BY <1>3, <2>1 DEF PostRenewal, MoveRun, ArgOK, TypeOK, Goroutine
  <2> QED BY <1>3, <1>a, <1>c, <2>2 DEF PostRenewal
<1>4. CASE RenewalAnswered \/ RenewalFailed \/ Connect \/ DialFails
  BY <1>4, <1>b, <1>c DEF RenewalAnswered, RenewalFailed, Connect, DialFails
<1>5. CASE AuthenticationFails
  BY <1>5, <1>b, <1>c DEF AuthenticationFails
<1>6. CASE Disconnect \/ WaitOver
  BY <1>6, <1>b, <1>c DEF Disconnect, WaitOver
<1> QED BY <1>1, <1>2, <1>3, <1>4, <1>5, <1>6 DEF RunStep

(* The steps of a connection keep the inductive invariant. *)
LEMMA ConnectionStepType == TypeInv /\ ConnectionStep => TypeInv'
<1> SUFFICES ASSUME TypeInv, ConnectionStep PROVE TypeInv'
  OBVIOUS
<1>0. TypeOK /\ SectionOK /\ ArgOK /\ OwnerOK
  BY DEF TypeInv
<1> USE <1>0
<1>1. CASE MaybeRequestCredentialRenewal \/ ReceiveRejection
  <2>1. pc' \in [Goroutine -> PC] /\ ArgOK'
    BY <1>1 DEF MaybeRequestCredentialRenewal, ReceiveRejection, TypeOK, ArgOK, PC, Goroutine, serverVars
  <2> QED BY <1>1, <2>1, QuietTypes DEF MaybeRequestCredentialRenewal, ReceiveRejection, TypeOK, serverVars
<1>2. CASE SendRenewalRequest
  <2>1. arg["hb"] \in Request /\ arg["hb"].id \in Rotations
    BY <1>2 DEF SendRenewalRequest, ArgOK, TypeOK, Goroutine
  <2>2. pc' \in [Goroutine -> PC] /\ ArgOK' /\ asked' \in SUBSET Request
    BY <1>2, <2>1 DEF SendRenewalRequest, TypeOK, ArgOK, PC, Goroutine
  <2> QED BY <1>2, <2>2, QuietTypes DEF SendRenewalRequest, TypeOK
<1>3. CASE SendRequestFails
  <2>1. pc' \in [Goroutine -> PC] /\ ArgOK'
    BY <1>3 DEF SendRequestFails, TypeOK, ArgOK, PC, Goroutine, serverVars
  <2>2. lingering' \in SUBSET Goroutine
    BY <1>3 DEF SendRequestFails, TypeOK, LeftOver, Goroutine
  <2> QED BY <1>3, <2>1, <2>2, QuietTypes DEF SendRequestFails, TypeOK, serverVars
<1>4. ASSUME NEW r \in Rotations, ReceiveRotation(r) PROVE TypeInv'
  <2>1. pc' \in [Goroutine -> PC] /\ arg' \in [Goroutine -> Request] /\ ArgOK'
    BY <1>4, StoreConstants DEF ReceiveRotation, TypeOK, ArgOK, PC, Goroutine, serverVars, Request, Content
  <2> QED BY <1>4, <2>1, QuietTypes DEF ReceiveRotation, TypeOK, serverVars
<1>5. ASSUME NEW t \in Tunnels, HandleTunnelConfig(t) PROVE TypeInv'
  <2>1. [mem EXCEPT !.tunnel = t] \in Config
    BY SectionTypes DEF Config
  <2>2. disk' \in Config /\ mem' \in Config
    BY <1>5, <2>1, SectionTypes, ConfigSaved DEF HandleTunnelConfig
  <2>3. SectionOK' /\ OwnerOK' /\ ArgOK'
    BY <1>5 DEF HandleTunnelConfig, Free, SectionOK, OwnerOK, ArgOK, serverVars, RequestStep,
       CutoverStep, ApplyStep, ResumeStep
  <2> QED BY <1>5, <2>2, <2>3 DEF HandleTunnelConfig, TypeInv, TypeOK, StoreTypeOK, storeVars,
       serverVars, envVars
<1> QED BY <1>1, <1>2, <1>3, <1>4, <1>5 DEF ConnectionStep

(* The control plane, the clock, the disk and crashes keep the invariant. *)
LEMMA EnvironmentType == TypeInv /\ Environment => TypeInv'
<1> SUFFICES ASSUME TypeInv, Environment PROVE TypeInv'
  OBVIOUS
<1>0. TypeOK /\ SectionOK /\ ArgOK /\ OwnerOK
  BY DEF TypeInv
<1> USE <1>0
<1>1. CASE IssueCredential
  <2>1. issued' \in [Rotations -> Content]
    BY <1>1 DEF IssueCredential, TypeOK, ArgOK, Request
  <2> QED BY <1>1, <2>1 DEF IssueCredential, TypeInv, TypeOK, StoreTypeOK, SectionOK, ArgOK, OwnerOK,
       storeVars, agentVars, envVars
<1>2. CASE Expire
  <2>1. expired' \in SUBSET Credential
    BY <1>2, CredentialConstants DEF Expire, TypeOK, Credential
  <2> QED BY <1>2, <2>1 DEF Expire, TypeInv, TypeOK, StoreTypeOK, SectionOK, ArgOK, OwnerOK,
       storeVars, agentVars, serverVars
<1>3. CASE DiskFills \/ DiskFrees
  <2>1. writable' \in BOOLEAN /\ outages' \in 0 .. MaxOutages
    <3>1. CASE DiskFills
      <4>1. writable' = FALSE /\ outages' = outages + 1 /\ outages < MaxOutages
        BY <3>1 DEF DiskFills
      <4>2. outages \in 0 .. MaxOutages
        BY DEF TypeOK
      <4>3. outages' \in 0 .. MaxOutages
        BY <4>1, <4>2, CredentialConstants
      <4> QED BY <4>1, <4>3
    <3>2. CASE DiskFrees
      <4>1. writable' = TRUE /\ outages' = outages
        BY <3>2 DEF DiskFrees, envVars
      <4> QED BY <4>1 DEF TypeOK
    <3> QED BY <1>3, <3>1, <3>2
  <2> QED BY <1>3, <2>1 DEF DiskFills, DiskFrees, TypeInv, TypeOK, StoreTypeOK, SectionOK, ArgOK,
       OwnerOK, agentVars, serverVars, envVars
<1>4. CASE Crash
  <2>1. FreeSection \in Section
    BY StoreConstants DEF FreeSection, Section, Step, Goroutine, InitialConfig, Config, Credential, Pointers
  <2>2. pc' \in [Goroutine -> PC] /\ arg' \in [Goroutine -> Request] /\ crashes' \in 0 .. MaxCrashes
    BY <1>4, StoreConstants, CredentialConstants DEF Crash, TypeOK, Goroutine, PC, NoRequest, Request, Content
  <2>3. SectionOK' /\ OwnerOK' /\ ArgOK'
    BY <1>4 DEF Crash, FreeSection, SectionOK, OwnerOK, ArgOK, serverVars, Goroutine, RequestStep,
       CutoverStep, ApplyStep, ResumeStep
  <2> QED BY <1>4, <2>1, <2>2, <2>3 DEF Crash, TypeInv, TypeOK, StoreTypeOK, storeVars, serverVars
<1> QED BY <1>1, <1>2, <1>3, <1>4 DEF Environment

(* TypeInv is inductive. *)
LEMMA NextType == TypeInv /\ [Next]_vars => TypeInv'
<1> SUFFICES ASSUME TypeInv, [Next]_vars PROVE TypeInv'
  OBVIOUS
<1>1. CASE UNCHANGED vars
  BY <1>1 DEF vars, storeVars, agentVars, serverVars, envVars, TypeInv, TypeOK, StoreTypeOK, SectionOK,
     ArgOK, OwnerOK
<1> QED BY <1>1, SectionStepType, ReturnType, CallType, RunStepType, ConnectionStepType, EnvironmentType
     DEF Next

(* Every variable keeps its type: in particular no operation is ever at a  *)
(* step without a bundle to work on, and no request without an id reaches  *)
(* the control plane.                                                      *)
THEOREM TypeCorrect == Spec => []TypeOK
<1>1. TypeInv => TypeOK
  BY DEF TypeInv
<1> QED BY InitType, NextType, <1>1, PTL DEF Spec

=============================================================================
