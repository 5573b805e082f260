------------------------ MODULE CredentialsStoreProofs ------------------------
(***************************************************************************)
(* The pointer of the certificate store never dangles, tokens reach        *)
(* config.yaml in one way only and its two writers leave each other's part *)
(* alone, whatever disk outages and crashes happen.                        *)
(*                                                                         *)
(* ActiveBundleComplete is not inductive: a rollback writes the pointer    *)
(* that config.yaml or the operation remembers, so the bundles they name   *)
(* must be whole too, and stay whole while other bundles are discarded.    *)
(***************************************************************************)
EXTENDS CredentialsProofs

(* Both writers copy into memory exactly what they have saved. *)
MemFollowsDisk == mem = disk

(* The bundle a recorded cutover would roll back to is whole; it is the    *)
(* bundle being installed only if that one is already active.              *)
PreviousOK(cfg) ==
    cfg.ptok => /\ cfg.pid \in Rotations
                /\ cfg.prev \in Rotations => CompleteBundle(cfg.prev)
                /\ cfg.prev = cfg.pid => pointer = cfg.pid

RecordedStep == {"activate", "undoPending", "saveFinal", "rollback", "restore"} \cup ResumeStep

StoreInv ==
    /\ MemFollowsDisk
    /\ ActiveBundleComplete
    /\ PreviousOK(mem)
    /\ sec.at \in CutoverStep => PreviousOK(sec.old)
    /\ sec.at \in {"cert", "ca"} => issued[sec.id] # 0
    /\ sec.at = "resumePointer" => CompleteBundle(sec.id)
    /\ sec.at = "discard" /\ mem.ptok => mem.pid = sec.id
    /\ sec.at \in RecordedStep =>
          /\ mem.ptok
          /\ sec.old.ptok /\ sec.old.prev = sec.id => mem.prev = sec.id

-----------------------------------------------------------------------------
(* The initial states satisfy the store invariant. *)
LEMMA InitStore == Init => StoreInv
BY StoreConstants DEF Init, StoreInit, InitialConfig, FreeSection, StoreInv, MemFollowsDisk,
   ActiveBundleComplete, PreviousOK, CutoverStep, ApplyStep, ResumeStep, RecordedStep

(* Writing a file leaves whole bundles whole. *)
LEMMA WriteKeepsComplete ==
    ASSUME StoreTypeOK, NEW r \in Rotations, NEW f \in File, NEW c \in Content, c # 0 \/ f = "csr",
           WriteFile(r, f, c), UNCHANGED writable
    PROVE  \A q \in Rotations : CompleteBundle(q) => CompleteBundle(q)'
BY FileWritten DEF CompleteBundle, File

(* Removing a file leaves whole bundles other than its own whole. *)
LEMMA RemoveKeepsOthers ==
    ASSUME StoreTypeOK, NEW r \in Rotations, NEW f \in File, RemoveFile(r, f), UNCHANGED writable
    PROVE  \A q \in Rotations \ {r} : CompleteBundle(q) => CompleteBundle(q)'
BY FileRemoved DEF CompleteBundle

(* A bundle to roll back to stays good while the pointer and it are kept. *)
LEMMA PreviousKept ==
    ASSUME NEW cfg \in Config, PreviousOK(cfg), pointer' = pointer,
           cfg.ptok /\ cfg.prev \in Rotations /\ CompleteBundle(cfg.prev) => CompleteBundle(cfg.prev)'
    PROVE  cfg.ptok => /\ cfg.pid \in Rotations
                       /\ cfg.prev \in Rotations => CompleteBundle(cfg.prev)'
                       /\ cfg.prev = cfg.pid => pointer' = cfg.pid
BY DEF PreviousOK

(* Every file operation of an operation keeps the store invariant. *)
LEMMA SectionStepStore == TypeInv /\ StoreInv /\ SectionStep /\ ~Return => StoreInv'
<1> SUFFICES ASSUME TypeInv, StoreInv, SectionStep, ~Return PROVE StoreInv'
  OBVIOUS
<1>0. TypeOK /\ SectionOK /\ ArgOK /\ OwnerOK
  BY DEF TypeInv
<1> USE <1>0, SectionTypes
<1> DEFINE Whole(q) == CompleteBundle(q)
<1>a. (* an operation that only wrote or removed files *)
      ASSUME SectionKept, FilesOnly, InSection, pointer' = pointer,
             \A q \in Rotations : Whole(q) /\ (sec.at = "discard" => q # sec.id) => Whole(q)',
             sec.at = "discard" => pointer # sec.id,
             sec'.at \in {"csr", "saveRequest", "ca", "savePending", "discard", "return"},
             sec'.at \in {"ca", "savePending"} => sec.at \in {"cert", "ca"},
             sec'.at = "discard" => sec.at = "discard"
      PROVE  StoreInv'
  <2>1. MemFollowsDisk'
    BY <1>a DEF StoreInv, MemFollowsDisk, FilesOnly
  <2>2. ActiveBundleComplete'
    BY <1>a DEF StoreInv, ActiveBundleComplete
  <2>3. PreviousOK(mem)'
    BY <1>a DEF StoreInv, PreviousOK, FilesOnly
  <2>4. sec'.at \in CutoverStep => PreviousOK(sec.old)'
    BY <1>a DEF StoreInv, PreviousOK, SectionKept, CutoverStep, ApplyStep, ResumeStep
  <2>5. sec'.at \in {"cert", "ca"} => issued'[sec'.id] # 0
    BY <1>a DEF StoreInv, SectionKept, InSection, serverVars
  <2>6. sec'.at = "discard" /\ mem'.ptok => mem'.pid = sec'.id
    BY <1>a DEF StoreInv, SectionKept, FilesOnly
  <2> QED BY <1>a, <2>1, <2>2, <2>3, <2>4, <2>5, <2>6 DEF StoreInv, RecordedStep, ResumeStep
<1>1. CASE WriteRotationKey
  <2>1. sec.id \in Rotations /\ keys[sec.id] + 1 \in Content /\ keys[sec.id] + 1 # 0 /\ "key" \in File
    BY <1>1, StoreConstants DEF WriteRotationKey, StoreInv, SectionOK, RequestStep, CutoverStep, ApplyStep,
       StoreTypeOK, Content, File
  <2>2. pointer' = pointer /\ \A q \in Rotations : Whole(q) => Whole(q)'
    BY <1>1, <2>1, FileWritten, WriteKeepsComplete DEF WriteRotationKey, InSection
  <2>3. SectionKept /\ sec'.at \in {"csr", "return"}
    BY <1>1, GotoKeeps, LeaveKeeps DEF WriteRotationKey, Step
  <2> QED BY <1>1, <2>2, <2>3, <1>a DEF WriteRotationKey
<1>2. CASE WriteRotationCSR
  <2>1. sec.id \in Rotations /\ bundles[sec.id]["key"] \in Content /\ "csr" \in File
    BY <1>2, StoreConstants DEF WriteRotationCSR, StoreInv, SectionOK, RequestStep, CutoverStep, ApplyStep,
       StoreTypeOK, Content, File
  <2>2. pointer' = pointer /\ \A q \in Rotations : Whole(q) => Whole(q)'
    BY <1>2, <2>1, FileWritten, WriteKeepsComplete DEF WriteRotationCSR, InSection
  <2>3. SectionKept /\ sec'.at \in {"saveRequest", "return"}
    BY <1>2, GotoKeeps, LeaveKeeps DEF WriteRotationCSR, Step
  <2> QED BY <1>2, <2>2, <2>3, <1>a DEF WriteRotationCSR
<1>4. CASE StageCertificate
  <2>1. sec.id \in Rotations /\ issued[sec.id] \in Content /\ issued[sec.id] # 0 /\ "cert" \in File
    BY <1>4, StoreConstants DEF StageCertificate, StoreInv, SectionOK, RequestStep, CutoverStep, ApplyStep,
       StoreTypeOK, Content, File
  <2>2. pointer' = pointer /\ \A q \in Rotations : Whole(q) => Whole(q)'
    BY <1>4, <2>1, FileWritten, WriteKeepsComplete DEF StageCertificate, InSection
  <2>3. SectionKept /\ sec'.at \in {"ca", "return"}
    BY <1>4, GotoKeeps, LeaveKeeps DEF StageCertificate, Step
  <2> QED BY <1>4, <2>2, <2>3, <1>a DEF StageCertificate
<1>5. CASE StageCA
  <2>1. sec.id \in Rotations /\ issued[sec.id] \in Content /\ issued[sec.id] # 0 /\ "ca" \in File
    BY <1>5, StoreConstants DEF StageCA, StoreInv, SectionOK, RequestStep, CutoverStep, ApplyStep,
       StoreTypeOK, Content, File
  <2>2. pointer' = pointer /\ \A q \in Rotations : Whole(q) => Whole(q)'
    BY <1>5, <2>1, FileWritten, WriteKeepsComplete DEF StageCA, InSection
  <2>3. SectionKept /\ sec'.at \in {"savePending", "return"}
    BY <1>5, GotoKeeps, LeaveKeeps DEF StageCA, Step
  <2> QED BY <1>5, <2>2, <2>3, <1>a DEF StageCA
<1>12. CASE DiscardRotation
  <2>1. sec.id \in Rotations /\ sec.at = "discard"
    BY <1>12 DEF DiscardRotation, SectionOK
  <2>2. CASE MayDiscard(sec.id) /\ ~Emptied(sec.id)
    <3>1. PICK f \in File : RemoveFile(sec.id, f)
      BY <1>12, <2>2 DEF DiscardRotation
    <3>2. /\ UNCHANGED sec /\ pointer' = pointer /\ pointer # sec.id
          /\ \A q \in Rotations \ {sec.id} : Whole(q) => Whole(q)'
      BY <1>12, <2>1, <2>2, <3>1, FileRemoved, RemoveKeepsOthers DEF DiscardRotation, InSection, MayDiscard
    <3>3. SectionKept
      BY <3>2 DEF SectionKept
    <3> QED BY <1>12, <2>1, <3>2, <3>3, <1>a DEF DiscardRotation
  <2>3. CASE ~(MayDiscard(sec.id) /\ ~Emptied(sec.id))
    <3>1. Leave(FALSE) /\ pointer' = pointer /\ bundles' = bundles
      BY <1>12, <2>3 DEF DiscardRotation, ConfigOnly
    <3>2. SectionKept /\ sec'.at = "return"
      BY <3>1, LeaveKeeps
    <3>3. MemFollowsDisk' /\ ActiveBundleComplete' /\ PreviousOK(mem)'
      BY <1>12, <3>1 DEF DiscardRotation, FilesOnly, StoreInv, MemFollowsDisk, ActiveBundleComplete,
         PreviousOK, CompleteBundle
    <3> QED BY <3>2, <3>3 DEF StoreInv, CutoverStep, ApplyStep, ResumeStep, RecordedStep
  <2> QED BY <2>2, <2>3
<1>b. (* an operation that only saved config.yaml *)
      ASSUME NEW cfg \in Config, SaveCredentialConfig(cfg), ConfigOnly, InSection, SectionKept,
             writable => PreviousOK(cfg),
             sec'.at \notin {"cert", "ca", "resumePointer"},
             sec'.at = "discard" /\ mem'.ptok => mem'.pid = sec.id,
             sec'.at \in CutoverStep => sec.at \in CutoverStep,
             sec'.at \in RecordedStep => /\ mem'.ptok
                                         /\ sec.old.ptok /\ sec.old.prev = sec.id => mem'.prev = sec.id
      PROVE  StoreInv'
  <2>1. mem' = disk' /\ mem' \in {mem, cfg} /\ (~writable => mem' = mem)
    BY <1>b, ConfigSaved DEF StoreInv, MemFollowsDisk
  <2>2. pointer' = pointer /\ bundles' = bundles
    BY <1>b DEF ConfigOnly
  <2>3. PreviousOK(mem)'
    BY <1>b, <2>1, <2>2, ConfigSaved DEF StoreInv, PreviousOK, CompleteBundle
  <2>4. sec'.at \in CutoverStep => PreviousOK(sec.old)'
    BY <1>b, <2>2 DEF StoreInv, PreviousOK, CompleteBundle, SectionKept
  <2>5. ActiveBundleComplete'
    BY <2>2 DEF StoreInv, ActiveBundleComplete, CompleteBundle
  <2> QED BY <1>b, <2>1, <2>3, <2>4, <2>5 DEF StoreInv, MemFollowsDisk, SectionKept
<1>c. writable \in BOOLEAN /\ sec.old \in Config /\ mem \in Config /\ disk \in Config
  OBVIOUS
<1>3. CASE SaveRequest
  <2> DEFINE cfg == [mem EXCEPT !.pid = sec.id, !.status = "pending"]
  <2>1. sec.id \in Rotations /\ mem.pid \in {None, sec.id} /\ cfg \in Config
        /\ cfg.pid = sec.id /\ cfg.ptok = mem.ptok /\ cfg.prev = mem.prev
    BY <1>3 DEF SaveRequest, SectionOK, OwnerOK, RequestStep, Config
  <2>2. PreviousOK(cfg)
    BY <2>1, CredentialConstants DEF StoreInv, PreviousOK
  <2>3. SectionKept /\ sec'.at = "return"
    BY <1>3, LeaveKeeps DEF SaveRequest
  <2> HIDE DEF cfg
  <2>4. SaveCredentialConfig(cfg) /\ ConfigOnly /\ InSection
    BY <1>3 DEF SaveRequest, cfg
  <2> QED BY <2>1, <2>2, <2>3, <2>4, <1>b DEF CutoverStep, ApplyStep, ResumeStep, RecordedStep
<1>6. CASE SavePending
  <2> DEFINE cfg == [mem EXCEPT !.ptok = TRUE, !.prev = pointer]
  <2>1. sec.id \in Rotations /\ mem.pid = sec.id /\ cfg \in Config
        /\ cfg.pid = sec.id /\ cfg.ptok /\ cfg.prev = pointer
    BY <1>6 DEF SavePending, SectionOK, OwnerOK, CutoverStep, ApplyStep, Config, StoreTypeOK
  <2>2. PreviousOK(cfg)
    BY <2>1 DEF StoreInv, PreviousOK, ActiveBundleComplete
  <2>3. SectionKept /\ sec'.at = (IF writable THEN "activate" ELSE "discard")
    BY <1>6, GotoKeeps DEF SavePending, Step
  <2>4. sec.at \in CutoverStep /\ PreviousOK(sec.old) /\ sec.old.pid = sec.id
    BY <1>6 DEF SavePending, StoreInv, OwnerOK, CutoverStep, ApplyStep
  <2> HIDE DEF cfg
  <2>5. SaveCredentialConfig(cfg) /\ ConfigOnly /\ InSection
    BY <1>6 DEF SavePending, cfg
  <2>6. (writable => mem' = cfg) /\ (~writable => mem' = mem)
    BY <2>1, <2>5, ConfigSaved
  <2>7. sec.old.ptok /\ sec.old.prev = sec.id => cfg.prev = sec.id
    BY <2>1, <2>4 DEF PreviousOK
  <2> QED BY <2>1, <2>2, <2>3, <2>4, <2>5, <2>6, <2>7, <1>b, <1>c
          DEF CutoverStep, ApplyStep, ResumeStep, RecordedStep
<1>8. CASE UndoPending
  <2>1. sec.old.pid = sec.id /\ PreviousOK(sec.old)
    BY <1>8 DEF UndoPending, StoreInv, OwnerOK, CutoverStep, ApplyStep, ResumeStep
  <2>2. SectionKept /\ sec'.at \in {"discard", "return"} /\ (sec'.at = "discard" => writable)
    BY <1>8, GotoKeeps, LeaveKeeps DEF UndoPending, Step
  <2>3. SaveCredentialConfig(sec.old) /\ ConfigOnly /\ InSection
    BY <1>8 DEF UndoPending
  <2>4. (writable => mem' = sec.old)
    BY <2>3, <1>c, ConfigSaved
  <2> QED BY <2>1, <2>2, <2>3, <2>4, <1>b, <1>c DEF CutoverStep, ApplyStep, ResumeStep, RecordedStep
<1>11. CASE RestoreConfig
  <2>1. sec.old.pid = sec.id /\ PreviousOK(sec.old)
    BY <1>11 DEF RestoreConfig, StoreInv, OwnerOK, CutoverStep, ApplyStep, ResumeStep
  <2>2. SectionKept /\ sec'.at \in {"discard", "return"} /\ (sec'.at = "discard" => writable)
    BY <1>11, GotoKeeps, LeaveKeeps DEF RestoreConfig, Step
  <2>3. SaveCredentialConfig(sec.old) /\ ConfigOnly /\ InSection
    BY <1>11 DEF RestoreConfig
  <2>4. (writable => mem' = sec.old)
    BY <2>3, <1>c, ConfigSaved
  <2> QED BY <2>1, <2>2, <2>3, <2>4, <1>b, <1>c DEF CutoverStep, ApplyStep, ResumeStep, RecordedStep
<1>16. CASE ResumeRestore
  <2>1. sec.old.pid = sec.id /\ PreviousOK(sec.old)
    BY <1>16 DEF ResumeRestore, StoreInv, OwnerOK, CutoverStep, ApplyStep, ResumeStep
  <2>2. SectionKept /\ sec'.at \in {"return"}
    BY <1>16, GotoKeeps, LeaveKeeps DEF ResumeRestore, Step
  <2>3. SaveCredentialConfig(sec.old) /\ ConfigOnly /\ InSection
    BY <1>16 DEF ResumeRestore
  <2>4. (writable => mem' = sec.old)
    BY <2>3, <1>c, ConfigSaved
  <2> QED BY <2>1, <2>2, <2>3, <2>4, <1>b, <1>c DEF CutoverStep, ApplyStep, ResumeStep, RecordedStep
<1>9. CASE SaveFinal
  <2>1. Final(mem) \in Config /\ ~Final(mem).ptok
    BY <1>9, ConfigSaves DEF SaveFinal, SectionOK, OwnerOK, CutoverStep, ApplyStep, ResumeStep, Final, Cleared,
       Config
  <2>2. PreviousOK(Final(mem))
    BY <2>1 DEF PreviousOK
  <2>3. SectionKept /\ sec'.at \in {"rollback", "return"} /\ (sec'.at = "rollback" => ~writable)
    BY <1>9, GotoKeeps, LeaveKeeps DEF SaveFinal, Step
  <2>4. SaveCredentialConfig(Final(mem)) /\ ConfigOnly /\ InSection /\ sec.at \in RecordedStep \cap CutoverStep
    BY <1>9 DEF SaveFinal, RecordedStep, CutoverStep, ApplyStep, ResumeStep
  <2>5. ~writable => mem' = mem
    BY <2>1, <2>4, ConfigSaved
  <2>6. mem.ptok /\ (sec.old.ptok /\ sec.old.prev = sec.id => mem.prev = sec.id)
    BY <2>4 DEF StoreInv
  <2> QED BY <2>1, <2>2, <2>3, <2>4, <2>5, <2>6, <1>b
          DEF CutoverStep, ApplyStep, ResumeStep, RecordedStep
<1>14. CASE ResumeFinal
  <2>1. Final(mem) \in Config /\ ~Final(mem).ptok
    BY <1>14, ConfigSaves DEF ResumeFinal, SectionOK, OwnerOK, CutoverStep, ApplyStep, ResumeStep, Final, Cleared,
       Config
  <2>2. PreviousOK(Final(mem))
    BY <2>1 DEF PreviousOK
  <2>3. SectionKept /\ sec'.at \in {"resumeRollback", "return"} /\ (sec'.at = "resumeRollback" => ~writable)
    BY <1>14, GotoKeeps, LeaveKeeps DEF ResumeFinal, Step
  <2>4. SaveCredentialConfig(Final(mem)) /\ ConfigOnly /\ InSection /\ sec.at \in RecordedStep \cap CutoverStep
    BY <1>14 DEF ResumeFinal, RecordedStep, CutoverStep, ApplyStep, ResumeStep
  <2>5. ~writable => mem' = mem
    BY <2>1, <2>4, ConfigSaved
  <2>6. mem.ptok /\ (sec.old.ptok /\ sec.old.prev = sec.id => mem.prev = sec.id)
    BY <2>4 DEF StoreInv
  <2> QED BY <2>1, <2>2, <2>3, <2>4, <2>5, <2>6, <1>b
          DEF CutoverStep, ApplyStep, ResumeStep, RecordedStep
<1>17. CASE SaveFailure
  <2> DEFINE failed == [mem EXCEPT !.status = "failed"]
             cfg == IF sec.clear THEN Cleared(failed) ELSE failed
  <2>1. failed \in Config /\ failed.ptok = mem.ptok /\ failed.pid = mem.pid /\ failed.prev = mem.prev
    BY DEF Config
  <2>2. cfg \in Config /\ (sec.clear => ~cfg.ptok) /\ (~sec.clear => cfg = failed)
    <3>1. Cleared(failed) \in Config /\ ~Cleared(failed).ptok
      BY <2>1, ConfigSaves DEF Cleared, Config
    <3> QED BY <2>1, <3>1
  <2>3. PreviousOK(cfg)
    BY <2>1, <2>2 DEF StoreInv, PreviousOK
  <2>4. SectionKept /\ sec'.at \in {"discard", "return"} /\ (sec'.at = "discard" => sec.clear)
    BY <1>17, GotoKeeps, LeaveKeeps DEF SaveFailure, Step
  <2>5. sec.id = mem.pid
    BY <1>17 DEF SaveFailure, OwnerOK
  <2> HIDE DEF cfg, failed
  <2>6. SaveCredentialConfig(cfg) /\ ConfigOnly /\ InSection
    BY <1>17 DEF SaveFailure, cfg, failed
  <2>7. (writable => mem' = cfg) /\ (~writable => mem' = mem)
    BY <2>2, <2>6, ConfigSaved
  <2> QED BY <2>2, <2>3, <2>4, <2>5, <2>6, <2>7, <1>b, <1>c
          DEF CutoverStep, ApplyStep, ResumeStep, RecordedStep
<1>d. (* an operation that only wrote the pointer, to p *)
      ASSUME NEW p \in Pointers, bundles' = bundles, pointer' \in {pointer, p},
             FilesOnly, InSection, SectionKept,
             p \in Rotations => CompleteBundle(p),
             mem.ptok /\ mem.prev = mem.pid => p = mem.pid,
             sec.old.ptok /\ sec.old.prev = sec.old.pid => p = sec.old.pid,
             sec.at \in CutoverStep, sec'.at \notin {"cert", "ca", "resumePointer", "discard"},
             sec'.at \in RecordedStep => sec.at \in RecordedStep
      PROVE  StoreInv'
  <2>1. ActiveBundleComplete'
    BY <1>d DEF StoreInv, ActiveBundleComplete, CompleteBundle
  <2>2. PreviousOK(mem)'
    BY <1>d DEF StoreInv, PreviousOK, CompleteBundle, FilesOnly
  <2>3. PreviousOK(sec.old)'
    BY <1>d DEF StoreInv, PreviousOK, CompleteBundle, SectionKept
  <2> QED BY <1>d, <2>1, <2>2, <2>3 DEF StoreInv, MemFollowsDisk, FilesOnly, SectionKept
<1>e. sec.at \in RecordedStep => /\ mem.ptok /\ mem.pid = sec.id /\ sec.old.pid = sec.id
                                 /\ sec.id \in Rotations /\ sec.at \in CutoverStep
                                 /\ PreviousOK(mem)
                                 /\ sec.old.ptok /\ sec.old.prev = sec.id => mem.prev = sec.id
  BY DEF StoreInv, OwnerOK, SectionOK, RecordedStep, CutoverStep, ApplyStep, ResumeStep
<1>7. CASE ActivateRotation
  <2>1. sec.at \in RecordedStep
    BY <1>7 DEF ActivateRotation, RecordedStep
  <2>2. SectionKept /\ sec'.at \in {"saveFinal", "undoPending"}
    BY <1>7, GotoKeeps DEF ActivateRotation, Step
  <2>3. CASE CompleteBundle(sec.id)
    <3>1. bundles' = bundles /\ pointer' \in {pointer, sec.id} /\ sec.id \in Pointers
      BY <1>7, <1>e, <2>1, <2>3, PointerWritten DEF ActivateRotation, InSection, Pointers
    <3>2. FilesOnly /\ InSection
      BY <1>7 DEF ActivateRotation
    <3> QED BY <1>d, <1>e, <2>1, <2>2, <2>3, <3>1, <3>2
  <2>4. CASE ~CompleteBundle(sec.id)
    <3>1. bundles' = bundles /\ pointer' = pointer /\ FilesOnly /\ InSection
      BY <1>7, <2>4 DEF ActivateRotation, ConfigOnly
    <3>2. ActiveBundleComplete' /\ PreviousOK(mem)' /\ MemFollowsDisk'
      BY <3>1 DEF StoreInv, ActiveBundleComplete, CompleteBundle, PreviousOK, FilesOnly, MemFollowsDisk
    <3>3. PreviousOK(sec.old)'
      BY <1>e, <2>1, <2>2, <3>1 DEF StoreInv, PreviousOK, CompleteBundle, SectionKept
    <3> QED BY <1>e, <2>1, <2>2, <3>1, <3>2, <3>3 DEF StoreInv, FilesOnly, SectionKept
  <2> QED BY <2>3, <2>4
<1>13. CASE ResumePointer
  <2>1. sec.at \in RecordedStep /\ CompleteBundle(sec.id)
    BY <1>13 DEF ResumePointer, RecordedStep, ResumeStep, StoreInv
  <2>2. SectionKept /\ sec'.at \in {"resumeFinal", "return"}
    BY <1>13, GotoKeeps, LeaveKeeps DEF ResumePointer, Step
  <2>3. bundles' = bundles /\ pointer' \in {pointer, sec.id} /\ sec.id \in Pointers /\ FilesOnly /\ InSection
    BY <1>13, <1>e, <2>1, PointerWritten DEF ResumePointer, InSection, Pointers
  <2> QED BY <1>d, <1>e, <2>1, <2>2, <2>3
<1>10. CASE RollbackPointer
  <2>1. sec.at \in RecordedStep
    BY <1>10 DEF RollbackPointer, RecordedStep, ResumeStep
  <2>2. SectionKept /\ sec'.at = "restore"
    BY <1>10, GotoKeeps DEF RollbackPointer, Step
  <2>3. mem.prev \in Pointers
    BY DEF Config
  <2>4. bundles' = bundles /\ pointer' \in {pointer, mem.prev} /\ FilesOnly /\ InSection
    BY <1>10, <2>3, PointerWritten DEF RollbackPointer, InSection
  <2>5. mem.prev \in Rotations => CompleteBundle(mem.prev)
    BY <1>e, <2>1 DEF PreviousOK
  <2> QED BY <1>d, <1>e, <2>1, <2>2, <2>3, <2>4, <2>5
<1>15. CASE ResumeRollback
  <2>1. sec.at \in RecordedStep
    BY <1>15 DEF ResumeRollback, RecordedStep, ResumeStep
  <2>2. SectionKept /\ sec'.at = "resumeRestore"
    BY <1>15, GotoKeeps DEF ResumeRollback, Step
  <2>3. mem.prev \in Pointers
    BY DEF Config
  <2>4. bundles' = bundles /\ pointer' \in {pointer, mem.prev} /\ FilesOnly /\ InSection
    BY <1>15, <2>3, PointerWritten DEF ResumeRollback, InSection
  <2>5. mem.prev \in Rotations => CompleteBundle(mem.prev)
    BY <1>e, <2>1 DEF PreviousOK
  <2> QED BY <1>d, <1>e, <2>1, <2>2, <2>3, <2>4, <2>5
<1> QED BY <1>1, <1>2, <1>3, <1>4, <1>5, <1>6, <1>7, <1>8, <1>9, <1>10, <1>11, <1>12, <1>13, <1>14, <1>15, <1>16, <1>17 DEF SectionStep

(* Steps that leave the store and the configuration alone and hold no locks *)
(* afterwards that promise anything.                                         *)
LEMMA QuietStore ==
    ASSUME StoreInv, UNCHANGED <<pointer, bundles, disk, mem>>,
           sec'.at \notin CutoverStep \cup {"discard"}
    PROVE  StoreInv'
<1>1. MemFollowsDisk' /\ ActiveBundleComplete' /\ PreviousOK(mem)'
  BY DEF StoreInv, MemFollowsDisk, ActiveBundleComplete, PreviousOK, CompleteBundle
<1> QED BY <1>1 DEF StoreInv, CutoverStep, ApplyStep, ResumeStep, RecordedStep

(* Steps beside the operation that holds the locks. *)
LEMMA BesideStore ==
    ASSUME StoreInv, UNCHANGED <<pointer, bundles, disk, mem, sec>>,
           sec.at \in {"cert", "ca"} /\ issued[sec.id] # 0 => issued'[sec.id] # 0
    PROVE  StoreInv'
<1>1. MemFollowsDisk' /\ ActiveBundleComplete' /\ PreviousOK(mem)'
  BY DEF StoreInv, MemFollowsDisk, ActiveBundleComplete, PreviousOK, CompleteBundle
<1>2. sec'.at \in CutoverStep => PreviousOK(sec.old)'
  BY DEF StoreInv, PreviousOK, CompleteBundle
<1>3. sec'.at = "resumePointer" => CompleteBundle(sec.id)'
  BY DEF StoreInv, CompleteBundle
<1> QED BY <1>1, <1>2, <1>3 DEF StoreInv

(* Starting an operation keeps the store invariant. *)
LEMMA CallStore ==
    ASSUME TypeInv, StoreInv, NEW g \in Goroutine, CallOperation(g)
    PROVE  StoreInv'
<1>0. TypeOK
  BY DEF TypeInv
<1>1. CASE BeginCredentialRequest(g)
  <2>1. sec'.at \in {"saveRequest", "key"}
    BY <1>1 DEF BeginCredentialRequest, Lock
  <2> QED BY <1>1, <2>1, QuietStore DEF BeginCredentialRequest, storeVars, CutoverStep, ApplyStep, ResumeStep
<1>2. CASE CannotPrepare(g)
  <2>1. sec'.at = "return"
    BY <1>2 DEF CannotPrepare, Lock
  <2> QED BY <1>2, <2>1, QuietStore DEF CannotPrepare, storeVars, CutoverStep, ApplyStep, ResumeStep
<1>3. CASE ApplyCredentialRotation(g)
  <2>1. UNCHANGED <<pointer, bundles, disk, mem, issued>>
    BY <1>3 DEF ApplyCredentialRotation, storeVars, serverVars
  <2>2. CASE Lock(g, "apply", arg[g].id, FALSE, "return")
    <3>1. sec'.at = "return"
      BY <2>2 DEF Lock
    <3> QED BY <2>1, <3>1, QuietStore DEF CutoverStep, ApplyStep, ResumeStep
  <2>3. CASE Usable(arg[g].id) /\ Lock(g, "apply", arg[g].id, FALSE, "cert")
    <3>1. sec'.at = "cert" /\ sec'.id = arg[g].id /\ sec'.old = mem
      BY <2>3 DEF Lock
    <3>2. issued[arg[g].id] # 0
      BY <2>3 DEF Usable, CertificateFits
    <3>3. MemFollowsDisk' /\ ActiveBundleComplete' /\ PreviousOK(mem)'
      BY <2>1 DEF StoreInv, MemFollowsDisk, ActiveBundleComplete, PreviousOK, CompleteBundle
    <3>4. PreviousOK(sec.old)'
      BY <2>1, <3>1 DEF StoreInv, PreviousOK, CompleteBundle
    <3> QED BY <2>1, <3>1, <3>2, <3>3, <3>4 DEF StoreInv, RecordedStep, ResumeStep
  <2> QED BY <1>3, <2>2, <2>3 DEF ApplyCredentialRotation
<1>4. CASE RecordCredentialFailure(g)
  <2>1. sec'.at = "saveFailure"
    BY <1>4 DEF RecordCredentialFailure, Lock
  <2> QED BY <1>4, <2>1, QuietStore DEF RecordCredentialFailure, storeVars, CutoverStep, ApplyStep, ResumeStep
<1> QED BY <1>1, <1>2, <1>3, <1>4 DEF CallOperation

(* Returning from an operation keeps the store invariant. *)
LEMMA ReturnStore == StoreInv /\ Return => StoreInv'
<1> SUFFICES ASSUME StoreInv, Return PROVE StoreInv'
  OBVIOUS
<1>1. sec'.at = "free"
  BY DEF Return, FreeSection
<1> QED BY <1>1, QuietStore DEF Return, storeVars, CutoverStep, ApplyStep, ResumeStep

(* The steps of the reconnect loop keep the store invariant. *)
LEMMA RunStepStore == TypeInv /\ StoreInv /\ RunStep => StoreInv'
<1> SUFFICES ASSUME TypeInv, StoreInv, RunStep PROVE StoreInv'
  OBVIOUS
<1>1. CASE ResumePendingCredentialCutover
  <2>1. UNCHANGED <<pointer, bundles, disk, mem, issued>>
    BY <1>1 DEF ResumePendingCredentialCutover, storeVars, serverVars
  <2>2. CASE ~CutoverPending(mem)
    BY <1>1, <2>1, <2>2, BesideStore DEF ResumePendingCredentialCutover
  <2>3. CASE CutoverPending(mem)
    <3>1. sec'.at \in {"resumePointer", "return"} /\ sec'.id = mem.pid /\ sec'.old = mem
          /\ (sec'.at = "resumePointer" => CompleteBundle(mem.pid))
      BY <1>1, <2>3 DEF ResumePendingCredentialCutover, Lock
    <3>2. MemFollowsDisk' /\ ActiveBundleComplete' /\ PreviousOK(mem)'
      BY <2>1 DEF StoreInv, MemFollowsDisk, ActiveBundleComplete, PreviousOK, CompleteBundle
    <3>3. PreviousOK(sec.old)'
      BY <2>1, <3>1 DEF StoreInv, PreviousOK, CompleteBundle
    <3>4. sec'.at = "resumePointer" => CompleteBundle(sec.id)'
      BY <2>1, <3>1 DEF CompleteBundle
    <3>5. mem'.ptok
      BY <2>1, <2>3 DEF CutoverPending
    <3> QED BY <2>1, <3>1, <3>2, <3>3, <3>4, <3>5 DEF StoreInv
  <2> QED BY <2>2, <2>3
<1>2. CASE \E to \in PC : MoveRun(to) /\ issued' = issued
  BY <1>2, BesideStore DEF MoveRun, storeVars
<1> QED BY <1>1, <1>2 DEF RunStep, UseCredential, StartRecovery, RecoveryWaits, PostRenewal,
     RenewalAnswered, RenewalFailed, Connect, DialFails, AuthenticationFails, Disconnect, WaitOver,
     serverVars, PC

(* The steps of a connection keep the store invariant. *)
LEMMA ConnectionStepStore == TypeInv /\ StoreInv /\ ConnectionStep => StoreInv'
<1> SUFFICES ASSUME TypeInv, StoreInv, ConnectionStep PROVE StoreInv'
  OBVIOUS
<1>1. CASE MaybeRequestCredentialRenewal \/ SendRenewalRequest \/ SendRequestFails \/ ReceiveRejection
  BY <1>1, BesideStore DEF MaybeRequestCredentialRenewal, SendRenewalRequest, SendRequestFails,
     ReceiveRejection, storeVars, serverVars
<1>2. ASSUME NEW r \in Rotations, ReceiveRotation(r) PROVE StoreInv'
  BY <1>2, BesideStore DEF ReceiveRotation, storeVars, serverVars
<1>3. ASSUME NEW t \in Tunnels, HandleTunnelConfig(t) PROVE StoreInv'
  <2> DEFINE cfg == [mem EXCEPT !.tunnel = t]
  <2>1. mem \in Config /\ disk \in Config
    BY DEF TypeInv, TypeOK
  <2>2. cfg \in Config /\ cfg.ptok = mem.ptok /\ cfg.pid = mem.pid /\ cfg.prev = mem.prev
    BY <2>1 DEF Config
  <2> HIDE DEF cfg
  <2>3. SaveCredentialConfig(cfg) /\ UNCHANGED <<pointer, bundles, sec>> /\ sec.at = "free"
    BY <1>3 DEF HandleTunnelConfig, Free, storeVars, cfg
  <2>4. mem' = disk' /\ mem' \in {mem, cfg}
    BY <2>1, <2>2, <2>3, ConfigSaved DEF StoreInv, MemFollowsDisk, SaveCredentialConfig
  <2>5. PreviousOK(mem)'
    BY <2>2, <2>3, <2>4 DEF StoreInv, PreviousOK, CompleteBundle
  <2>6. ActiveBundleComplete'
    BY <2>3 DEF StoreInv, ActiveBundleComplete, CompleteBundle
  <2> QED BY <2>3, <2>4, <2>5, <2>6 DEF StoreInv, MemFollowsDisk, CutoverStep, ApplyStep, ResumeStep,
       RecordedStep
<1> QED BY <1>1, <1>2, <1>3 DEF ConnectionStep

(* The control plane, the clock, the disk and crashes keep it too. *)
LEMMA EnvironmentStore == TypeInv /\ StoreInv /\ Environment => StoreInv'
<1> SUFFICES ASSUME TypeInv, StoreInv, Environment PROVE StoreInv'
  OBVIOUS
<1>1. CASE IssueCredential
  <2>1. PICK q \in asked : issued[q.id] = 0 /\ issued' = [issued EXCEPT ![q.id] = q.key]
    BY <1>1 DEF IssueCredential
  <2>2. sec.at \in {"cert", "ca"} => sec.id \in Rotations
    BY DEF TypeInv, SectionOK, CutoverStep, ApplyStep
  <2>3. sec.at \in {"cert", "ca"} /\ issued[sec.id] # 0 => issued'[sec.id] # 0
    BY <2>1, <2>2 DEF TypeInv, TypeOK
  <2> QED BY <1>1, <2>3, BesideStore DEF IssueCredential, storeVars, agentVars
<1>2. CASE Expire \/ DiskFills \/ DiskFrees
  BY <1>2, BesideStore DEF Expire, DiskFills, DiskFrees, storeVars, agentVars, serverVars
<1>3. CASE Crash
  <2>1. sec'.at = "free" /\ mem' = mem
    BY <1>3 DEF Crash, FreeSection, StoreInv, MemFollowsDisk
  <2> QED BY <1>3, <2>1, QuietStore DEF Crash, storeVars, CutoverStep, ApplyStep, ResumeStep
<1> QED BY <1>1, <1>2, <1>3 DEF Environment

(* StoreInv is inductive relative to TypeInv. *)
LEMMA NextStore == TypeInv /\ StoreInv /\ [Next]_vars => StoreInv'
<1> SUFFICES ASSUME TypeInv, StoreInv, [Next]_vars PROVE StoreInv'
  OBVIOUS
<1>1. CASE UNCHANGED vars
  BY <1>1, BesideStore DEF vars, storeVars, agentVars, serverVars
<1> QED BY <1>1, SectionStepStore, ReturnStore, CallStore, RunStepStore, ConnectionStepStore,
     EnvironmentStore DEF Next

(* The store invariant holds always, for any number of crashes and         *)
(* outages: what certs.Store and config.yaml name can be used or rolled    *)
(* back to.                                                                *)
THEOREM StoreInvariant == Spec => [](TypeInv /\ StoreInv)
<1>1. Init => TypeInv /\ StoreInv
  BY InitType, InitStore
<1>2. TypeInv /\ StoreInv /\ [Next]_vars => (TypeInv /\ StoreInv)'
  BY NextType, NextStore
<1> QED BY <1>1, <1>2, PTL DEF Spec

(* The pointer never names a bundle with a missing file, for any number of *)
(* rotations, keys, disk outages and crashes: DiscardRotation's refusal    *)
(* and ActivateRotation's test are enough although Rollback tests nothing. *)
THEOREM PointerNeverDangles == Spec => []ActiveBundleComplete
<1>1. StoreInv => ActiveBundleComplete
  BY DEF StoreInv
<1> QED BY <1>1, StoreInvariant, PTL

-----------------------------------------------------------------------------
(* How new tokens get into config.yaml.  The copy an operation would       *)
(* restore has the tokens the file has, so that putting it back is not a   *)
(* change of tokens; and the last save of a cutover finds the pointer      *)
(* where it must be.                                                       *)
CommitInv ==
    /\ sec.at \in CutoverStep => sec.old.cred = mem.cred
    /\ sec.at \in {"saveFinal", "resumeFinal"} => pointer = sec.id

(* A step of config.yaml to other tokens is the commit of a recorded cutover. *)
Commits ==
    disk'.cred # disk.cred => CutoverPending(disk) /\ disk'.cred = disk.pid /\ pointer = disk.pid

(* The steps of an operation that write files commit nothing, and those    *)
(* that save config.yaml commit only at the end of a cutover.              *)
LEMMA SectionStepCommits ==
    ASSUME TypeInv, StoreInv, CommitInv, SectionStep, ~Return
    PROVE  CommitInv' /\ Commits
<1>0. TypeOK /\ SectionOK /\ OwnerOK /\ mem = disk
  BY DEF TypeInv, StoreInv, MemFollowsDisk
<1> USE <1>0, SectionTypes
<1> USE DEF CutoverStep, ApplyStep, ResumeStep
<1>a. (* a step that leaves config.yaml alone and goes on with the cutover *)
      ASSUME FilesOnly, SectionKept, sec'.at \in CutoverStep => sec.at \in CutoverStep,
             sec'.at \in {"saveFinal", "resumeFinal"} => pointer' = sec.id
      PROVE  CommitInv' /\ Commits
  BY <1>a DEF CommitInv, Commits, FilesOnly, SectionKept
<1>b. (* a save that keeps the tokens *)
      ASSUME NEW cfg \in Config, SaveCredentialConfig(cfg), SectionKept, cfg.cred = mem.cred,
             sec'.at \in CutoverStep => sec.at \in CutoverStep,
             sec'.at \notin {"saveFinal", "resumeFinal"}
      PROVE  CommitInv' /\ Commits
  BY <1>b DEF CommitInv, Commits, SaveCredentialConfig, SectionKept
<1>1. CASE WriteRotationKey \/ WriteRotationCSR \/ StageCertificate \/ StageCA
  <2>1. SectionKept /\ sec'.at \in {"csr", "saveRequest", "ca", "savePending", "return"}
    BY <1>1, GotoKeeps, LeaveKeeps DEF WriteRotationKey, WriteRotationCSR, StageCertificate, StageCA, Step
  <2>2. FilesOnly
    BY <1>1 DEF WriteRotationKey, WriteRotationCSR, StageCertificate, StageCA
  <2>3. sec'.at \in {"ca", "savePending"} => sec.at \in {"cert", "ca"}
    BY <1>1, GotoKeeps, LeaveKeeps DEF WriteRotationKey, WriteRotationCSR, StageCertificate, StageCA, Step
  <2> QED BY <1>a, <2>1, <2>2, <2>3
<1>2. CASE DiscardRotation
  <2>1. SectionKept /\ sec'.at \in {"discard", "return"} /\ FilesOnly
    BY <1>2, LeaveKeeps DEF DiscardRotation, SectionKept
  <2> QED BY <1>a, <2>1
<1>3. CASE ActivateRotation
  <2>1. SectionKept /\ sec'.at \in {"saveFinal", "undoPending"} /\ FilesOnly /\ sec.at = "activate"
    BY <1>3, GotoKeeps DEF ActivateRotation, Step
  <2>2. sec'.at = "saveFinal" => pointer' = sec.id
    BY <1>3, GotoKeeps DEF ActivateRotation, WritePointer, Step
  <2> QED BY <1>a, <2>1, <2>2
<1>4. CASE ResumePointer
  <2>1. SectionKept /\ sec'.at \in {"resumeFinal", "return"} /\ FilesOnly /\ sec.at = "resumePointer"
    BY <1>4, GotoKeeps, LeaveKeeps DEF ResumePointer, Step
  <2>2. sec'.at = "resumeFinal" => pointer' = sec.id
    BY <1>4, <2>1, LeaveKeeps DEF ResumePointer, WritePointer
  <2> QED BY <1>a, <2>1, <2>2
<1>5. CASE RollbackPointer \/ ResumeRollback
  <2>1. SectionKept /\ sec'.at \in {"restore", "resumeRestore"} /\ FilesOnly /\ sec.at \in CutoverStep
    BY <1>5, GotoKeeps DEF RollbackPointer, ResumeRollback, Step
  <2> QED BY <1>a, <2>1
<1>6. CASE SaveRequest
  <2> DEFINE cfg == [mem EXCEPT !.pid = sec.id, !.status = "pending"]
  <2>1. cfg \in Config /\ cfg.cred = mem.cred
    BY <1>6 DEF SaveRequest, SectionOK, RequestStep, Config
  <2>2. SectionKept /\ sec'.at = "return"
    BY <1>6, LeaveKeeps DEF SaveRequest
  <2> HIDE DEF cfg
  <2>3. SaveCredentialConfig(cfg)
    BY <1>6 DEF SaveRequest, cfg
  <2> QED BY <1>b, <2>1, <2>2, <2>3
<1>7. CASE SavePending
  <2> DEFINE cfg == [mem EXCEPT !.ptok = TRUE, !.prev = pointer]
  <2>1. cfg \in Config /\ cfg.cred = mem.cred
    BY DEF Config, StoreTypeOK
  <2>2. SectionKept /\ sec'.at \in {"activate", "discard"} /\ sec.at = "savePending"
    BY <1>7, GotoKeeps DEF SavePending, Step
  <2> HIDE DEF cfg
  <2>3. SaveCredentialConfig(cfg)
    BY <1>7 DEF SavePending, cfg
  <2> QED BY <1>b, <2>1, <2>2, <2>3
<1>8. CASE UndoPending \/ RestoreConfig \/ ResumeRestore
  <2>1. SectionKept /\ sec'.at \in {"discard", "return"}
    BY <1>8, GotoKeeps, LeaveKeeps DEF UndoPending, RestoreConfig, ResumeRestore, Step
  <2>2. SaveCredentialConfig(sec.old) /\ sec.old.cred = mem.cred
    BY <1>8 DEF UndoPending, RestoreConfig, ResumeRestore, CommitInv
  <2> QED BY <1>b, <2>1, <2>2
<1>9. CASE SaveFailure
  <2> DEFINE failed == [mem EXCEPT !.status = "failed"]
             cfg == IF sec.clear THEN Cleared(failed) ELSE failed
  <2>1. failed \in Config /\ failed.cred = mem.cred
    BY DEF Config
  <2>2. Cleared(failed) \in Config /\ Cleared(failed).cred = failed.cred
    <3> HIDE DEF failed
    <3>1. Cleared(failed) \in Config
      BY <2>1, ConfigSaves
    <3> QED BY <2>1, <3>1 DEF Cleared, Config
  <2>3. cfg \in Config /\ cfg.cred = mem.cred
    BY <2>1, <2>2
  <2>4. SectionKept /\ sec'.at \in {"discard", "return"}
    BY <1>9, GotoKeeps, LeaveKeeps DEF SaveFailure, Step
  <2> HIDE DEF cfg, failed
  <2>5. SaveCredentialConfig(cfg)
    BY <1>9 DEF SaveFailure, cfg, failed
  <2> QED BY <1>b, <2>3, <2>4, <2>5
<1>10. CASE SaveFinal \/ ResumeFinal
  <2>1. /\ sec.at \in {"saveFinal", "resumeFinal"} /\ mem.ptok
        /\ mem.pid = sec.id /\ sec.id \in Rotations /\ pointer = sec.id
    BY <1>10 DEF SaveFinal, ResumeFinal, StoreInv, RecordedStep, OwnerOK, SectionOK, CommitInv
  <2>2. Final(mem).cred = mem.pid
    BY DEF Final, Cleared, Config
  <2>3. SaveCredentialConfig(Final(mem))
    BY <1>10 DEF SaveFinal, ResumeFinal
  <2>4. SectionKept /\ sec'.at \in {"rollback", "resumeRollback", "return"} /\ (sec'.at # "return" => ~writable)
    BY <1>10, GotoKeeps, LeaveKeeps DEF SaveFinal, ResumeFinal, Step
  <2>5. CommitInv'
    BY <2>1, <2>3, <2>4 DEF CommitInv, SaveCredentialConfig, SectionKept
  <2>6. Commits
    BY <2>1, <2>2, <2>3, CredentialConstants DEF Commits, SaveCredentialConfig, CutoverPending
  <2> QED BY <2>5, <2>6
<1> QED BY <1>1, <1>2, <1>3, <1>4, <1>5, <1>6, <1>7, <1>8, <1>9, <1>10 DEF SectionStep

(* Every other step commits nothing: it leaves config.yaml alone or saves  *)
(* another tunnel, and an operation starts with the tokens of memory.      *)
LEMMA NextCommits ==
    ASSUME TypeInv, StoreInv, CommitInv, [Next]_vars
    PROVE  CommitInv' /\ Commits
<1>0. TypeOK /\ mem = disk
  BY DEF TypeInv, StoreInv, MemFollowsDisk
<1> USE DEF CutoverStep, ApplyStep, ResumeStep
<1>1. CASE SectionStep /\ ~Return
  BY <1>1, SectionStepCommits
<1>2. CASE Return \/ Crash
  BY <1>2 DEF Return, Crash, FreeSection, CommitInv, Commits
<1>3. ASSUME NEW g \in Goroutine, CallOperation(g) PROVE CommitInv' /\ Commits
  <2>1. /\ mem' = mem /\ disk' = disk /\ sec'.old = mem
        /\ sec'.at \in {"key", "saveRequest", "return", "cert", "saveFailure"}
    BY <1>3 DEF CallOperation, BeginCredentialRequest, CannotPrepare, ApplyCredentialRotation,
       RecordCredentialFailure, Lock
  <2> QED BY <2>1 DEF CommitInv, Commits
<1>4. CASE ResumePendingCredentialCutover
  <2>1. mem' = mem /\ disk' = disk /\ pointer' = pointer
    BY <1>4 DEF ResumePendingCredentialCutover, storeVars
  <2>2. sec' = sec \/ (sec'.old = mem /\ sec'.at \in {"resumePointer", "return"})
    BY <1>4 DEF ResumePendingCredentialCutover, Lock
  <2> QED BY <2>1, <2>2 DEF CommitInv, Commits
<1>5. CASE UNCHANGED <<pointer, disk, mem, sec>>
  BY <1>5 DEF CommitInv, Commits
<1>6. ASSUME NEW t \in Tunnels, HandleTunnelConfig(t) PROVE CommitInv' /\ Commits
  <2> DEFINE cfg == [mem EXCEPT !.tunnel = t]
  <2>1. cfg.cred = mem.cred
    BY <1>0 DEF TypeOK, Config
  <2>2. disk' \in {disk, cfg} /\ sec' = sec /\ sec.at = "free"
    BY <1>6 DEF HandleTunnelConfig, SaveCredentialConfig, Free
  <2> HIDE DEF cfg
  <2> QED BY <1>0, <2>1, <2>2 DEF CommitInv, Commits
<1>7. RunStep => ResumePendingCredentialCutover \/ UNCHANGED <<pointer, disk, mem, sec>>
  BY DEF RunStep, UseCredential, StartRecovery, RecoveryWaits, PostRenewal, RenewalAnswered, RenewalFailed,
     Connect, DialFails, AuthenticationFails, Disconnect, WaitOver, MoveRun, storeVars
<1>8. ConnectionStep => (\E t \in Tunnels : HandleTunnelConfig(t)) \/ UNCHANGED <<pointer, disk, mem, sec>>
  BY DEF ConnectionStep, MaybeRequestCredentialRenewal, SendRenewalRequest, SendRequestFails,
     ReceiveRotation, ReceiveRejection, storeVars
<1>9. Environment => Crash \/ UNCHANGED <<pointer, disk, mem, sec>>
  BY DEF Environment, IssueCredential, Expire, DiskFills, DiskFrees, storeVars, agentVars
<1>10. CASE UNCHANGED vars
  BY <1>5, <1>10 DEF vars, storeVars, agentVars
<1> QED BY <1>1, <1>2, <1>3, <1>4, <1>5, <1>6, <1>7, <1>8, <1>9, <1>10 DEF Next

(* config.yaml changes to other tokens only as the last step of a cutover  *)
(* recorded before, when the pointer names the new bundle already: for any *)
(* number of disk outages and crashes, although the compensating steps     *)
(* write whole configurations back.                                        *)
THEOREM TokensFollowPointer == Spec => CommitOrder
<1>1. Init => CommitInv
  BY DEF Init, FreeSection, CommitInv, CutoverStep, ApplyStep, ResumeStep
<1>2. TypeInv /\ StoreInv /\ CommitInv /\ [Next]_vars => CommitInv'
  BY NextCommits
<1>3. TypeInv /\ StoreInv /\ CommitInv /\ [Next]_vars
        => [disk'.cred # disk.cred =>
              CutoverPending(disk) /\ disk'.cred = disk.pid /\ pointer = disk.pid]_vars
  BY NextCommits DEF Commits
<1> QED BY <1>1, <1>2, <1>3, StoreInvariant, PTL DEF Spec, CommitOrder

-----------------------------------------------------------------------------
(* The two writers of config.yaml.  Each saves the whole file, so neither  *)
(* takes back the other's part only because what it writes was read under  *)
(* the same locks: the copy an operation would restore has the tunnel the  *)
(* memory has.                                                             *)
TunnelInv == sec.at # "free" => sec.old.tunnel = mem.tunnel

(* No step of an operation on credentials changes the tunnel, in memory or *)
(* in config.yaml, the restores of a failed cutover included.              *)
LEMMA SectionStepKeepsTunnel ==
    ASSUME TypeInv, StoreInv, TunnelInv, SectionStep
    PROVE  mem'.tunnel = mem.tunnel /\ disk'.tunnel = disk.tunnel /\ TunnelInv'
<1>0. TypeOK /\ SectionOK /\ mem = disk
  BY DEF TypeInv, StoreInv, MemFollowsDisk
<1> USE <1>0, SectionTypes
<1>a. (* a step that leaves config.yaml alone *)
      ASSUME FilesOnly, SectionKept, sec.at # "free"
      PROVE  mem'.tunnel = mem.tunnel /\ disk'.tunnel = disk.tunnel /\ TunnelInv'
  BY <1>a DEF TunnelInv, FilesOnly, SectionKept
<1>b. (* a save of a configuration with the same tunnel *)
      ASSUME NEW cfg \in Config, SaveCredentialConfig(cfg), SectionKept, sec.at # "free",
             cfg.tunnel = mem.tunnel
      PROVE  mem'.tunnel = mem.tunnel /\ disk'.tunnel = disk.tunnel /\ TunnelInv'
  BY <1>b DEF TunnelInv, SaveCredentialConfig, SectionKept
<1>1. CASE WriteRotationKey \/ WriteRotationCSR \/ StageCertificate \/ StageCA \/ DiscardRotation
  <2>1. SectionKept /\ FilesOnly /\ sec.at # "free"
    BY <1>1, GotoKeeps, LeaveKeeps DEF WriteRotationKey, WriteRotationCSR, StageCertificate, StageCA,
       DiscardRotation, SectionKept, Step
  <2> QED BY <1>a, <2>1
<1>2. CASE ActivateRotation \/ ResumePointer \/ RollbackPointer \/ ResumeRollback
  <2>1. SectionKept /\ FilesOnly /\ sec.at # "free"
    BY <1>2, GotoKeeps, LeaveKeeps DEF ActivateRotation, ResumePointer, RollbackPointer, ResumeRollback, Step
  <2> QED BY <1>a, <2>1
<1>3. CASE SaveRequest
  <2> DEFINE cfg == [mem EXCEPT !.pid = sec.id, !.status = "pending"]
  <2>1. cfg \in Config /\ cfg.tunnel = mem.tunnel
    BY <1>3 DEF SaveRequest, SectionOK, RequestStep, Config
  <2>2. SectionKept /\ sec.at # "free"
    BY <1>3, LeaveKeeps DEF SaveRequest, Step
  <2> HIDE DEF cfg
  <2>3. SaveCredentialConfig(cfg)
    BY <1>3 DEF SaveRequest, cfg
  <2> QED BY <1>b, <2>1, <2>2, <2>3
<1>4. CASE SavePending
  <2> DEFINE cfg == [mem EXCEPT !.ptok = TRUE, !.prev = pointer]
  <2>1. cfg \in Config /\ cfg.tunnel = mem.tunnel
    BY DEF Config, StoreTypeOK
  <2>2. SectionKept /\ sec.at # "free"
    BY <1>4, GotoKeeps DEF SavePending, Step
  <2> HIDE DEF cfg
  <2>3. SaveCredentialConfig(cfg)
    BY <1>4 DEF SavePending, cfg
  <2> QED BY <1>b, <2>1, <2>2, <2>3
<1>5. CASE UndoPending \/ RestoreConfig \/ ResumeRestore
  <2>1. SectionKept /\ sec.at # "free"
    BY <1>5, GotoKeeps, LeaveKeeps DEF UndoPending, RestoreConfig, ResumeRestore, Step
  <2>2. SaveCredentialConfig(sec.old) /\ sec.old.tunnel = mem.tunnel
    BY <1>5, <2>1 DEF UndoPending, RestoreConfig, ResumeRestore, TunnelInv
  <2> QED BY <1>b, <2>1, <2>2
<1>6. CASE SaveFailure
  <2> DEFINE failed == [mem EXCEPT !.status = "failed"]
             cfg == IF sec.clear THEN Cleared(failed) ELSE failed
  <2>1. failed \in Config /\ failed.tunnel = mem.tunnel
    BY DEF Config
  <2>2. Cleared(failed) \in Config /\ Cleared(failed).tunnel = failed.tunnel
    <3> HIDE DEF failed
    <3>1. Cleared(failed) \in Config
      BY <2>1, ConfigSaves
    <3> QED BY <2>1, <3>1 DEF Cleared, Config
  <2>3. cfg \in Config /\ cfg.tunnel = mem.tunnel
    BY <2>1, <2>2
  <2>4. SectionKept /\ sec.at # "free"
    BY <1>6, GotoKeeps, LeaveKeeps DEF SaveFailure, Step
  <2> HIDE DEF cfg, failed
  <2>5. SaveCredentialConfig(cfg)
    BY <1>6 DEF SaveFailure, cfg, failed
  <2> QED BY <1>b, <2>3, <2>4, <2>5
<1>7. CASE SaveFinal \/ ResumeFinal
  <2> DEFINE cfg == Final(mem)
  <2>1. mem.pid \in Rotations
    BY <1>7 DEF SaveFinal, ResumeFinal, StoreInv, RecordedStep, ResumeStep, PreviousOK
  <2>2. cfg \in Config /\ cfg.tunnel = mem.tunnel
    BY <2>1, ConfigSaves DEF Final, Cleared, Config
  <2>3. SectionKept /\ sec.at # "free"
    BY <1>7, GotoKeeps, LeaveKeeps DEF SaveFinal, ResumeFinal, Step
  <2> HIDE DEF cfg
  <2>4. SaveCredentialConfig(cfg)
    BY <1>7 DEF SaveFinal, ResumeFinal, cfg
  <2> QED BY <1>b, <2>2, <2>3, <2>4
<1>8. CASE Return
  BY <1>8 DEF Return, FreeSection, TunnelInv
<1> QED BY <1>1, <1>2, <1>3, <1>4, <1>5, <1>6, <1>7, <1>8 DEF SectionStep

(* HandleTunnelConfig writes what memory holds with another tunnel, and    *)
(* memory is what config.yaml holds.                                       *)
LEMMA TunnelConfigKeepsRest ==
    ASSUME TypeInv, StoreInv, NEW t \in Tunnels, HandleTunnelConfig(t)
    PROVE  disk' = [disk EXCEPT !.tunnel = disk'.tunnel] /\ sec' = sec /\ sec.at = "free"
<1>1. TypeOK /\ mem = disk
  BY DEF TypeInv, StoreInv, MemFollowsDisk
<1>2. disk' \in {disk, [disk EXCEPT !.tunnel = t]} /\ sec' = sec /\ sec.at = "free"
  BY <1>1 DEF HandleTunnelConfig, SaveCredentialConfig, Free
<1>3. \A c \in Config : c = [c EXCEPT !.tunnel = c.tunnel]
  BY DEF Config
<1>4. \A c \in Config : [c EXCEPT !.tunnel = t] = [c EXCEPT !.tunnel = [c EXCEPT !.tunnel = t].tunnel]
  BY DEF Config
<1>5. disk \in Config
  BY <1>1 DEF TypeOK
<1> QED BY <1>2, <1>3, <1>4, <1>5

(* The tunnel invariant holds always. *)
LEMMA NextTunnel ==
    ASSUME TypeInv, StoreInv, TunnelInv, [Next]_vars
    PROVE  TunnelInv'
<1>1. CASE SectionStep
  BY <1>1, SectionStepKeepsTunnel
<1>2. ASSUME NEW g \in Goroutine, CallOperation(g) PROVE TunnelInv'
  BY <1>2 DEF CallOperation, BeginCredentialRequest, CannotPrepare, ApplyCredentialRotation,
     RecordCredentialFailure, Lock, TunnelInv
<1>3. CASE ResumePendingCredentialCutover
  <2>1. mem' = mem
    BY <1>3 DEF ResumePendingCredentialCutover
  <2>2. sec' = sec \/ sec'.old = mem
    BY <1>3 DEF ResumePendingCredentialCutover, Lock
  <2> QED BY <2>1, <2>2 DEF TunnelInv
<1>4. CASE UNCHANGED <<mem, sec>>
  BY <1>4 DEF TunnelInv
<1>5. ASSUME NEW t \in Tunnels, HandleTunnelConfig(t) PROVE TunnelInv'
  BY <1>5, TunnelConfigKeepsRest DEF TunnelInv
<1>6. CASE Crash
  BY <1>6 DEF Crash, FreeSection, TunnelInv
<1>7. RunStep => ResumePendingCredentialCutover \/ UNCHANGED <<mem, sec>>
  BY DEF RunStep, UseCredential, StartRecovery, RecoveryWaits, PostRenewal, RenewalAnswered, RenewalFailed,
     Connect, DialFails, AuthenticationFails, Disconnect, WaitOver, MoveRun
<1>8. ConnectionStep => (\E t \in Tunnels : HandleTunnelConfig(t)) \/ UNCHANGED <<mem, sec>>
  BY DEF ConnectionStep, MaybeRequestCredentialRenewal, SendRenewalRequest, SendRequestFails,
     ReceiveRotation, ReceiveRejection
<1>9. Environment => Crash \/ UNCHANGED <<mem, sec>>
  BY DEF Environment, IssueCredential, Expire, DiskFills, DiskFrees, agentVars
<1>10. CASE UNCHANGED vars
  BY <1>4, <1>10 DEF vars, agentVars
<1> QED BY <1>1, <1>2, <1>3, <1>4, <1>5, <1>6, <1>7, <1>8, <1>9, <1>10 DEF Next

(* "Preventing either update from clobbering the other's durable state":   *)
(* the rotation of a credential never changes the saved tunnel, nor        *)
(* HandleTunnelConfig anything else, although both save whole files, saves *)
(* fail, and a failed cutover puts an older configuration back.            *)
THEOREM UpdatesNeverClobber == Spec => NoClobber
<1>1. Init => TunnelInv
  BY DEF Init, FreeSection, TunnelInv
<1>2. TypeInv /\ StoreInv /\ TunnelInv /\ [Next]_vars => TunnelInv'
  BY NextTunnel
<1>3. TypeInv /\ StoreInv /\ TunnelInv /\ [Next]_vars
        => [/\ SectionStep => disk'.tunnel = disk.tunnel
            /\ (\E t \in Tunnels : HandleTunnelConfig(t)) => disk' = [disk EXCEPT !.tunnel = disk'.tunnel]]_vars
  BY SectionStepKeepsTunnel, TunnelConfigKeepsRest
<1> QED BY <1>1, <1>2, <1>3, StoreInvariant, PTL DEF Spec, NoClobber

-----------------------------------------------------------------------------
(***************************************************************************)
(* With a disk that accepts every write, a crash at any point of a         *)
(* rotation neither mixes two generations of credentials nor leaves a      *)
(* cutover that cannot be completed, and a key is never separated from its *)
(* certificate or from the request it was made for.                        *)
(*                                                                         *)
(* CrashInv says where a recorded cutover can be seen: inside the          *)
(* operation that completes it, or after a restart, before the reconnect   *)
(* loop has called resumePendingCredentialCutover and while no connection  *)
(* exists that could give the request up.                                  *)
(***************************************************************************)
Selected == IF pointer \in Rotations THEN pointer ELSE Enrolled

CompletingStep == {"activate", "saveFinal", "resumePointer", "resumeFinal"}

Restarted == Free /\ pc["run"] = "resume" /\ pc["hb"] = "idle" /\ pc["recv"] = "idle"

CrashInv ==
    /\ writable
    /\ outages = 0
    /\ mem.ptok => CompleteBundle(mem.pid) /\ (sec.at \in CompletingStep \/ Restarted)
    /\ ~mem.ptok => mem.cred = Selected
    /\ sec.at \in {"saveFinal", "resumeFinal"} => pointer = sec.id
    /\ sec.at = "cert" => bundles[sec.id]["key"] # 0
    /\ sec.at = "ca" => bundles[sec.id]["key"] # 0 /\ bundles[sec.id]["cert"] # 0
    /\ sec.at = "savePending" => CompleteBundle(sec.id)
    /\ sec.at \notin {"undoPending", "rollback", "restore", "resumeRollback", "resumeRestore"}

-----------------------------------------------------------------------------
(* The initial states satisfy the crash invariant. *)
LEMMA InitCrash == Init => CrashInv
BY StoreConstants DEF Init, StoreInit, InitialConfig, FreeSection, CrashInv, Selected

(* Every file operation of an operation keeps the crash invariant. *)
LEMMA SectionStepCrash ==
    ASSUME TypeInv, StoreInv, CrashInv, SectionStep, ~Return
    PROVE  CrashInv'
<1>0. TypeOK /\ SectionOK /\ OwnerOK /\ writable
  BY DEF TypeInv, CrashInv
<1> USE <1>0, SectionTypes
<1>a. ASSUME InSection, sec'.at \notin {"undoPending", "rollback", "restore", "resumeRollback", "resumeRestore"},
             mem'.ptok => CompleteBundle(mem.pid)' /\ sec'.at \in CompletingStep,
             ~mem'.ptok => mem'.cred = Selected',
             sec'.at \in {"saveFinal", "resumeFinal"} => pointer' = sec'.id,
             sec'.at # "cert",
             sec'.at = "ca" => bundles'[sec'.id]["key"] # 0 /\ bundles'[sec'.id]["cert"] # 0,
             sec'.at = "savePending" => CompleteBundle(sec.id)'
      PROVE  CrashInv'
  BY <1>a DEF CrashInv, InSection, envVars
<1>b. sec.at \notin CompletingStep \cup {"free"} => ~mem.ptok /\ mem.cred = Selected
  BY DEF CrashInv, Restarted, Free
<1>c. sec.at \in RequestStep \cup CutoverStep \cup {"discard"} => sec.id \in Rotations
  BY DEF SectionOK
<1> USE DEF CompletingStep
<1>1. CASE WriteRotationKey
  <2>1. SectionKept /\ sec'.at = "csr"
    BY <1>1, GotoKeeps DEF WriteRotationKey, Step
  <2>2. ~mem'.ptok /\ mem'.cred = Selected'
    BY <1>1, <1>b DEF WriteRotationKey, FilesOnly, WriteFile, Selected
  <2> QED BY <1>1, <2>1, <2>2, <1>a DEF WriteRotationKey
<1>2. CASE WriteRotationCSR
  <2>1. SectionKept /\ sec'.at = "saveRequest"
    BY <1>2, GotoKeeps DEF WriteRotationCSR, Step
  <2>2. ~mem'.ptok /\ mem'.cred = Selected'
    BY <1>2, <1>b DEF WriteRotationCSR, FilesOnly, WriteFile, Selected
  <2> QED BY <1>2, <2>1, <2>2, <1>a DEF WriteRotationCSR
<1>3. CASE SaveRequest
  <2> DEFINE cfg == [mem EXCEPT !.pid = sec.id, !.status = "pending"]
  <2>1. SectionKept /\ sec'.at = "return"
    BY <1>3, LeaveKeeps DEF SaveRequest
  <2>2. mem' = cfg /\ cfg.ptok = mem.ptok /\ cfg.cred = mem.cred
    BY <1>3 DEF SaveRequest, SaveCredentialConfig, Config
  <2>3. ~mem'.ptok /\ mem'.cred = Selected'
    BY <1>3, <1>b, <2>2 DEF SaveRequest, ConfigOnly, Selected
  <2> QED BY <1>3, <2>1, <2>3, <1>a DEF SaveRequest
<1>4. CASE StageCertificate
  <2>1. SectionKept /\ sec'.at = "ca"
    BY <1>4, GotoKeeps DEF StageCertificate, Step
  <2>2. sec.id \in Rotations /\ issued[sec.id] \in Content /\ issued[sec.id] # 0
    BY <1>4, <1>c DEF StageCertificate, StoreInv, CutoverStep, ApplyStep
  <2>3. bundles'[sec.id]["cert"] # 0 /\ bundles'[sec.id]["key"] = bundles[sec.id]["key"]
    BY <1>4, <2>2, FileWritten DEF StageCertificate, InSection, File
  <2>4. ~mem'.ptok /\ mem'.cred = Selected'
    BY <1>4, <1>b DEF StageCertificate, FilesOnly, WriteFile, Selected
  <2> QED BY <1>4, <2>1, <2>3, <2>4, <1>a DEF StageCertificate, CrashInv, SectionKept
<1>5. CASE StageCA
  <2>1. SectionKept /\ sec'.at = "savePending"
    BY <1>5, GotoKeeps DEF StageCA, Step
  <2>2. sec.id \in Rotations /\ issued[sec.id] \in Content /\ issued[sec.id] # 0
    BY <1>5, <1>c DEF StageCA, StoreInv, CutoverStep, ApplyStep
  <2>3. /\ bundles'[sec.id]["ca"] # 0
        /\ bundles'[sec.id]["key"] = bundles[sec.id]["key"]
        /\ bundles'[sec.id]["cert"] = bundles[sec.id]["cert"]
    BY <1>5, <2>2, FileWritten DEF StageCA, InSection, File
  <2>4. CompleteBundle(sec.id)'
    BY <1>5, <2>1, <2>3 DEF StageCA, CrashInv, CompleteBundle, SectionKept
  <2>5. ~mem'.ptok /\ mem'.cred = Selected'
    BY <1>5, <1>b DEF StageCA, FilesOnly, WriteFile, Selected
  <2> QED BY <1>5, <2>1, <2>4, <2>5, <1>a DEF StageCA
<1>6. CASE SavePending
  <2> DEFINE cfg == [mem EXCEPT !.ptok = TRUE, !.prev = pointer]
  <2>1. SectionKept /\ sec'.at = "activate"
    BY <1>6, GotoKeeps DEF SavePending, Step
  <2>2. mem' = cfg /\ cfg.ptok /\ cfg.pid = mem.pid
    BY <1>6 DEF SavePending, SaveCredentialConfig, Config
  <2>3. mem.pid = sec.id /\ CompleteBundle(sec.id)
    BY <1>6 DEF SavePending, CrashInv, OwnerOK, CutoverStep, ApplyStep
  <2>4. CompleteBundle(mem.pid)'
    BY <1>6, <2>2, <2>3 DEF SavePending, ConfigOnly, CompleteBundle
  <2> QED BY <1>6, <2>1, <2>2, <2>4, <1>a DEF SavePending
<1>d. sec.at \in CompletingStep => mem.ptok /\ mem.pid = sec.id /\ CompleteBundle(sec.id)
  BY DEF StoreInv, CrashInv, RecordedStep, ResumeStep, OwnerOK, CutoverStep, ApplyStep
<1>7. CASE ActivateRotation
  <2>1. mem.ptok /\ mem.pid = sec.id /\ CompleteBundle(sec.id)
    BY <1>7, <1>d DEF ActivateRotation
  <2>2. SectionKept /\ sec'.at = "saveFinal"
    BY <1>7, <2>1, GotoKeeps DEF ActivateRotation, Step
  <2>3. pointer' = sec.id /\ bundles' = bundles /\ mem' = mem
    BY <1>7, <2>1 DEF ActivateRotation, WritePointer, FilesOnly
  <2>4. CompleteBundle(mem.pid)'
    BY <2>1, <2>3 DEF CompleteBundle
  <2> QED BY <1>7, <2>1, <2>2, <2>3, <2>4, <1>a DEF ActivateRotation, SectionKept
<1>13. CASE ResumePointer
  <2>1. mem.ptok /\ mem.pid = sec.id /\ CompleteBundle(sec.id)
    BY <1>13, <1>d DEF ResumePointer
  <2>2. SectionKept /\ sec'.at = "resumeFinal"
    BY <1>13, <2>1, GotoKeeps DEF ResumePointer, Step
  <2>3. pointer' = sec.id /\ bundles' = bundles /\ mem' = mem
    BY <1>13, <2>1 DEF ResumePointer, WritePointer, FilesOnly
  <2>4. CompleteBundle(mem.pid)'
    BY <2>1, <2>3 DEF CompleteBundle
  <2> QED BY <1>13, <2>1, <2>2, <2>3, <2>4, <1>a DEF ResumePointer, SectionKept
<1>9. CASE SaveFinal
  <2>1. mem.pid = sec.id /\ sec.id \in Rotations /\ pointer = sec.id
    BY <1>9, <1>c, <1>d DEF SaveFinal, CrashInv, CutoverStep, ApplyStep, ResumeStep
  <2>2. SectionKept /\ sec'.at = "return"
    BY <1>9, LeaveKeeps DEF SaveFinal
  <2>3. mem' = Final(mem) /\ pointer' = pointer
    BY <1>9 DEF SaveFinal, SaveCredentialConfig, ConfigOnly
  <2>4. ~Final(mem).ptok /\ Final(mem).cred = mem.pid
    BY DEF Final, Cleared, Config
  <2> QED BY <1>9, <2>1, <2>2, <2>3, <2>4, <1>a DEF SaveFinal, Selected
<1>14. CASE ResumeFinal
  <2>1. mem.pid = sec.id /\ sec.id \in Rotations /\ pointer = sec.id
    BY <1>14, <1>c, <1>d DEF ResumeFinal, CrashInv, CutoverStep, ApplyStep, ResumeStep
  <2>2. SectionKept /\ sec'.at = "return"
    BY <1>14, LeaveKeeps DEF ResumeFinal
  <2>3. mem' = Final(mem) /\ pointer' = pointer
    BY <1>14 DEF ResumeFinal, SaveCredentialConfig, ConfigOnly
  <2>4. ~Final(mem).ptok /\ Final(mem).cred = mem.pid
    BY DEF Final, Cleared, Config
  <2> QED BY <1>14, <2>1, <2>2, <2>3, <2>4, <1>a DEF ResumeFinal, Selected
<1>12. CASE DiscardRotation
  <2>1. ~mem'.ptok /\ mem'.cred = Selected'
    BY <1>12, <1>b DEF DiscardRotation, FilesOnly, ConfigOnly, RemoveFile, Selected
  <2>2. sec'.at \in {"discard", "return"}
    BY <1>12, LeaveKeeps DEF DiscardRotation
  <2> QED BY <1>12, <2>1, <2>2, <1>a DEF DiscardRotation
<1>17. CASE SaveFailure
  <2> DEFINE failed == [mem EXCEPT !.status = "failed"]
  <2>1. ~mem.ptok /\ mem.cred = Selected
    BY <1>17, <1>b DEF SaveFailure
  <2>2. /\ ~failed.ptok /\ failed.cred = mem.cred
        /\ ~Cleared(failed).ptok /\ Cleared(failed).cred = mem.cred
    BY <2>1 DEF Cleared, Config
  <2>3. mem' \in {failed, Cleared(failed)} /\ pointer' = pointer
    BY <1>17 DEF SaveFailure, SaveCredentialConfig, ConfigOnly
  <2>4. sec'.at \in {"discard", "return"}
    BY <1>17, GotoKeeps, LeaveKeeps DEF SaveFailure, Step
  <2> HIDE DEF failed
  <2>5. ~mem'.ptok /\ mem'.cred = Selected'
    BY <2>1, <2>2, <2>3 DEF Selected
  <2> QED BY <1>17, <2>4, <2>5, <1>a DEF SaveFailure
<1>8. ~(UndoPending \/ RollbackPointer \/ RestoreConfig \/ ResumeRollback \/ ResumeRestore)
  BY DEF CrashInv, UndoPending, RollbackPointer, RestoreConfig, ResumeRollback, ResumeRestore
<1> QED BY <1>1, <1>2, <1>3, <1>4, <1>5, <1>6, <1>7, <1>8, <1>9, <1>12, <1>13, <1>14, <1>17 DEF SectionStep

(* Steps after which the locks are free or an operation begins that does   *)
(* not work on a bundle yet.                                               *)
LEMMA QuietCrash ==
    ASSUME CrashInv, UNCHANGED <<pointer, bundles, writable, mem, outages>>, mem.ptok => Restarted',
           sec'.at \in {"free", "key", "saveRequest", "return", "saveFailure"}
    PROVE  CrashInv'
<1>1. mem'.ptok => CompleteBundle(mem.pid)'
  BY DEF CrashInv, CompleteBundle
<1> QED BY <1>1 DEF CrashInv, Selected

(* Steps beside the operation that holds the locks, if any. *)
LEMMA BesideCrash ==
    ASSUME CrashInv, UNCHANGED <<pointer, bundles, writable, mem, sec, outages>>, Restarted => Restarted'
    PROVE  CrashInv'
<1>1. mem'.ptok => CompleteBundle(mem.pid)'
  BY DEF CrashInv, CompleteBundle
<1>2. sec'.at = "savePending" => CompleteBundle(sec.id)'
  BY DEF CrashInv, CompleteBundle
<1> QED BY <1>1, <1>2 DEF CrashInv, Selected

(* Starting an operation keeps the crash invariant. *)
LEMMA CallCrash ==
    ASSUME TypeInv, StoreInv, CrashInv, NEW g \in Goroutine, CallOperation(g)
    PROVE  CrashInv'
<1>1. UNCHANGED <<pointer, bundles, writable, mem, outages>>
  BY DEF CallOperation, BeginCredentialRequest, CannotPrepare, ApplyCredentialRotation,
     RecordCredentialFailure, storeVars, envVars
<1>2. ~mem.ptok
  <2>1. pc[g] \in {"begin", "apply", "recordKeep", "recordClear"} /\ Free
    BY DEF CallOperation, BeginCredentialRequest, CannotPrepare, ApplyCredentialRotation,
       RecordCredentialFailure, Lock
  <2> QED BY <2>1 DEF CrashInv, Restarted, Free, Goroutine, CompletingStep
<1>3. CASE sec'.at \in {"key", "saveRequest", "return", "saveFailure"}
  BY <1>1, <1>2, <1>3, QuietCrash
<1>4. CASE Usable(arg[g].id) /\ Lock(g, "apply", arg[g].id, FALSE, "cert")
  <2>1. sec'.at = "cert" /\ sec'.id = arg[g].id
    BY <1>4 DEF Lock
  <2>2. bundles'[sec'.id]["key"] # 0
    BY <1>1, <1>4, <2>1 DEF Usable, CertificateFits
  <2> QED BY <1>1, <1>2, <2>1, <2>2 DEF CrashInv, Selected
<1>5. sec'.at \in {"key", "saveRequest", "return", "saveFailure"}
      \/ (Usable(arg[g].id) /\ Lock(g, "apply", arg[g].id, FALSE, "cert"))
  BY DEF CallOperation, BeginCredentialRequest, CannotPrepare, ApplyCredentialRotation,
     RecordCredentialFailure, Lock
<1> QED BY <1>3, <1>4, <1>5

(* Returning from an operation keeps the crash invariant. *)
LEMMA ReturnCrash == CrashInv /\ Return => CrashInv'
<1> SUFFICES ASSUME CrashInv, Return PROVE CrashInv'
  OBVIOUS
<1>1. ~mem.ptok
  BY DEF Return, CrashInv, Restarted, Free, CompletingStep
<1>2. sec'.at = "free"
  BY DEF Return, FreeSection
<1> QED BY <1>1, <1>2, QuietCrash DEF Return, storeVars, envVars

(* The steps of the reconnect loop keep the crash invariant. *)
LEMMA RunStepCrash == TypeInv /\ StoreInv /\ CrashInv /\ RunStep => CrashInv'
<1> SUFFICES ASSUME TypeInv, StoreInv, CrashInv, RunStep PROVE CrashInv'
  OBVIOUS
<1>1. CASE ResumePendingCredentialCutover
  <2>1. UNCHANGED <<pointer, bundles, writable, mem, outages>>
    BY <1>1 DEF ResumePendingCredentialCutover, storeVars, envVars
  <2>2. CASE ~CutoverPending(mem)
    <3>1. ~mem.ptok
      BY <2>2, CredentialConstants DEF StoreInv, PreviousOK, CutoverPending
    <3>2. sec' = sec /\ sec.at = "free"
      BY <1>1, <2>2 DEF ResumePendingCredentialCutover, Free
    <3> QED BY <2>1, <3>1, <3>2, QuietCrash
  <2>3. CASE CutoverPending(mem)
    <3>1. mem.ptok /\ CompleteBundle(mem.pid)
      BY <2>3 DEF CutoverPending, CrashInv
    <3>2. sec'.at = "resumePointer"
      BY <1>1, <2>3, <3>1 DEF ResumePendingCredentialCutover, Lock
    <3>3. CompleteBundle(mem.pid)'
      BY <2>1, <3>1 DEF CompleteBundle
    <3> QED BY <2>1, <3>1, <3>2, <3>3 DEF CrashInv, CompletingStep
  <2> QED BY <2>2, <2>3
<1>2. CASE pc["run"] # "resume" /\ \E to \in PC : MoveRun(to)
  <2>1. ~Restarted
    BY <1>2 DEF Restarted
  <2> QED BY <1>2, <2>1, BesideCrash DEF MoveRun, storeVars, envVars
<1> QED BY <1>1, <1>2 DEF RunStep, UseCredential, StartRecovery, RecoveryWaits, PostRenewal,
     RenewalAnswered, RenewalFailed, Connect, DialFails, AuthenticationFails, Disconnect, WaitOver, PC

(* The steps of a connection keep the crash invariant. *)
LEMMA ConnectionStepCrash == TypeInv /\ StoreInv /\ CrashInv /\ ConnectionStep => CrashInv'
<1> SUFFICES ASSUME TypeInv, StoreInv, CrashInv, ConnectionStep PROVE CrashInv'
  OBVIOUS
<1>1. CASE MaybeRequestCredentialRenewal \/ SendRenewalRequest \/ SendRequestFails \/ ReceiveRejection
  <2>1. ~Restarted
    BY <1>1 DEF MaybeRequestCredentialRenewal, SendRenewalRequest, SendRequestFails, ReceiveRejection,
       Restarted
  <2> QED BY <1>1, <2>1, BesideCrash DEF MaybeRequestCredentialRenewal, SendRenewalRequest,
       SendRequestFails, ReceiveRejection, storeVars, envVars
<1>2. ASSUME NEW r \in Rotations, ReceiveRotation(r) PROVE CrashInv'
  BY <1>2, BesideCrash DEF ReceiveRotation, Restarted, storeVars, envVars
<1>3. ASSUME NEW t \in Tunnels, HandleTunnelConfig(t) PROVE CrashInv'
  <2> DEFINE cfg == [mem EXCEPT !.tunnel = t]
  <2>1. mem \in Config
    BY DEF TypeInv, TypeOK
  <2>2. ~mem.ptok /\ mem.cred = Selected /\ sec.at = "free"
    BY <1>3 DEF HandleTunnelConfig, CrashInv, Restarted, Free, CompletingStep
  <2>3. cfg.ptok = mem.ptok /\ cfg.cred = mem.cred
    BY <2>1 DEF Config
  <2> HIDE DEF cfg
  <2>4. mem' \in {mem, cfg} /\ UNCHANGED <<pointer, bundles, writable, sec, outages>>
    BY <1>3 DEF HandleTunnelConfig, SaveCredentialConfig, storeVars, envVars, cfg
  <2> QED BY <2>2, <2>3, <2>4 DEF CrashInv, Selected
<1> QED BY <1>1, <1>2, <1>3 DEF ConnectionStep

(* Without outages, crashes and the control plane keep it too. *)
LEMMA EnvironmentCrash ==
    ASSUME MaxOutages = 0, TypeInv, StoreInv, CrashInv, Environment
    PROVE  CrashInv'
<1>1. CASE IssueCredential \/ Expire
  BY <1>1, BesideCrash DEF IssueCredential, Expire, storeVars, agentVars, envVars, Restarted, Free
<1>2. ~DiskFills /\ ~DiskFrees
  BY DEF DiskFills, DiskFrees, CrashInv
<1>3. CASE Crash
  <2>1. sec'.at = "free" /\ mem' = mem /\ Restarted'
    BY <1>3 DEF Crash, FreeSection, StoreInv, MemFollowsDisk, Restarted, Free, Goroutine
  <2> QED BY <1>3, <2>1, QuietCrash DEF Crash, storeVars
<1> QED BY <1>1, <1>2, <1>3 DEF Environment

(* With MaxOutages = 0 every step keeps the crash invariant. *)
THEOREM CrashInvariant ==
    ASSUME MaxOutages = 0
    PROVE  Spec => [](TypeInv /\ StoreInv /\ CrashInv)
<1>1. Init => TypeInv /\ StoreInv /\ CrashInv
  BY InitType, InitStore, InitCrash
<1>2. TypeInv /\ StoreInv /\ CrashInv /\ [Next]_vars => (TypeInv /\ StoreInv /\ CrashInv)'
  <2> SUFFICES ASSUME TypeInv, StoreInv, CrashInv, [Next]_vars PROVE CrashInv'
    BY NextType, NextStore
  <2>1. CASE UNCHANGED vars
    BY <2>1, BesideCrash DEF vars, storeVars, agentVars, envVars, Restarted, Free
  <2> QED BY <2>1, SectionStepCrash, ReturnCrash, CallCrash, RunStepCrash, ConnectionStepCrash,
       EnvironmentCrash DEF Next
<1> QED BY <1>1, <1>2, PTL DEF Spec

(* Without disk outages, the active certificate and the tokens in          *)
(* config.yaml come from one rotation whenever no operation is running and *)
(* no cutover is recorded: for any number of rotations and crashes.        *)
THEOREM CrashNeverMixesCredentials ==
    ASSUME MaxOutages = 0
    PROVE  Spec => []NoMixedCredentials
<1>1. TypeInv /\ StoreInv /\ CrashInv => NoMixedCredentials
  <2> SUFFICES ASSUME TypeInv, StoreInv, CrashInv, ~CutoverPending(disk) PROVE disk.cred = ActiveCredential
    BY DEF NoMixedCredentials
  <2>1. ~mem.ptok
    BY CredentialConstants DEF StoreInv, MemFollowsDisk, PreviousOK, CutoverPending
  <2> QED BY <2>1 DEF CrashInv, StoreInv, MemFollowsDisk, ActiveBundleComplete, Selected, ActiveCredential
<1> QED BY <1>1, CrashInvariant, PTL

(* Without disk outages, a cutover recorded in config.yaml always finds    *)
(* its bundle whole, so resumePendingCredentialCutover can complete it.    *)
THEOREM CrashedCutoverCanResume ==
    ASSUME MaxOutages = 0
    PROVE  Spec => []CutoverCanResume
<1>1. StoreInv /\ CrashInv => CutoverCanResume
  BY DEF StoreInv, MemFollowsDisk, CrashInv, CutoverCanResume, CutoverPending
<1> QED BY <1>1, CrashInvariant, PTL

-----------------------------------------------------------------------------
(* The keys of a rotation.  A request is answered for the key its CSR was  *)
(* made with; the bundle must keep that key while the request is pending   *)
(* and get a certificate for it before it becomes active.                  *)

Matches(r) == bundles[r]["key"] = bundles[r]["cert"]

(* Requests that have reached the control plane or are about to. *)
Travels(q) ==
    \/ q \in asked
    \/ \E g \in Goroutine : pc[g] \in {"send", "http"} /\ q = arg[g]

(* Ids that are not in use yet, or whose key is being made. *)
Fresh(r) == r \notin used \/ (sec.at \in RequestStep /\ sec.id = r /\ mem.pid = None)

PendingInv ==
    mem.pid \in Rotations =>
        /\ mem.pid \in used
        /\ bundles[mem.pid]["csr"] # 0
        /\ bundles[mem.pid]["key"] = bundles[mem.pid]["csr"]
        /\ issued[mem.pid] \in {0, bundles[mem.pid]["csr"]}
        /\ \A q \in Request : Travels(q) /\ q.id = mem.pid => q.key = bundles[mem.pid]["csr"]
        /\ mem.ptok \/ pointer # mem.pid
        /\ mem.ptok => Matches(mem.pid)

FreshInv ==
    \A r \in Rotations : Fresh(r) =>
        /\ pointer # r
        /\ issued[r] = 0
        /\ \A q \in Request : Travels(q) => q.id # r
        /\ r \notin used => bundles[r]["csr"] = 0

WorkInv ==
    /\ sec.at \in {"key", "csr", "discard"} => mem.pid = None
    /\ sec.at = "csr" => bundles[sec.id]["key"] # 0
    /\ sec.at = "saveRequest" =>
          bundles[sec.id]["csr"] # 0 /\ bundles[sec.id]["key"] = bundles[sec.id]["csr"]
    /\ sec.at \in RequestStep => sec.id \in used
    /\ sec.at = "return" /\ sec.op = "begin" /\ sec.ok => sec.id \in used
    /\ sec.at = "ca" => bundles[sec.id]["cert"] = issued[sec.id]
    /\ sec.at = "savePending" => Matches(sec.id)

KeyInv == ActiveKeyMatches /\ PendingInv /\ FreshInv /\ WorkInv

(* Initially no id is in use and nothing is pending. *)
LEMMA InitKey == Init => KeyInv
<1> SUFFICES ASSUME Init PROVE KeyInv
  OBVIOUS
<1>1. mem.pid = None /\ sec.at = "free" /\ None \notin Rotations /\ pointer \notin Rotations
  BY StoreConstants, CredentialConstants DEF Init, StoreInit, InitialConfig, FreeSection
<1>2. \A q \in Request : ~Travels(q)
  BY DEF Init, Travels, Goroutine
<1>3. FreshInv
  BY <1>1, <1>2 DEF Init, StoreInit, FreshInv, File
<1> QED BY <1>1, <1>3 DEF KeyInv, ActiveKeyMatches, PendingInv, WorkInv, RequestStep

(* A step inside an operation lets no request travel and uses no new id. *)
LEMMA NoRequestSent ==
    ASSUME InSection
    PROVE  UNCHANGED <<used, issued>> /\ \A q \in Request : Travels(q)' <=> Travels(q)
BY DEF InSection, serverVars, Travels

(* Every file operation of an operation keeps the invariant of the keys. *)
LEMMA SectionStepKey ==
    ASSUME TypeInv, StoreInv, CrashInv, KeyInv, SectionStep, ~Return
    PROVE  KeyInv'
<1>0. TypeOK /\ SectionOK /\ OwnerOK /\ writable
  BY DEF TypeInv, CrashInv
<1> USE <1>0, SectionTypes
<1>a. sec.at \notin CompletingStep \cup {"free"} => ~mem.ptok
  BY DEF CrashInv, Restarted, Free
<1>b. sec.at \in RequestStep \cup CutoverStep \cup {"discard"} => sec.id \in Rotations
  BY DEF SectionOK
<1>c. None \notin Rotations
  BY CredentialConstants
<1>d. (* a file of the bundle written that memory does not name *)
      ASSUME NEW f \in File, NEW c \in Content, sec.id \in Rotations, WriteFile(sec.id, f, c), FilesOnly,
             InSection, SectionKept, sec.at \in {"key", "csr"}, sec'.at \in RequestStep, WorkInv'
      PROVE  KeyInv'
  <2>1. /\ pointer' = pointer /\ mem' = mem /\ mem.pid = None /\ sec.id \in used
        /\ \A q \in Rotations \ {sec.id} : \A g \in File : bundles'[q][g] = bundles[q][g]
    BY <1>d, FileWritten DEF FilesOnly, InSection, KeyInv, WorkInv, RequestStep
  <2>2. \A r \in Rotations : Fresh(r)' <=> Fresh(r)
    BY <1>d, <2>1, NoRequestSent DEF Fresh, RequestStep, SectionKept
  <2>3. pointer # sec.id
    BY <1>d, <2>1 DEF KeyInv, FreshInv, Fresh, RequestStep
  <2>4. ActiveKeyMatches'
    BY <2>1, <2>3 DEF KeyInv, ActiveKeyMatches, File
  <2>5. FreshInv'
    BY <1>d, <2>1, <2>2, NoRequestSent DEF KeyInv, FreshInv, File
  <2> QED BY <1>c, <1>d, <2>1, <2>4, <2>5 DEF KeyInv, PendingInv
<1>1. CASE WriteRotationKey
  <2>1. sec.id \in Rotations /\ keys[sec.id] + 1 \in Content /\ keys[sec.id] + 1 # 0 /\ "key" \in File
    BY <1>1, StoreConstants DEF WriteRotationKey, SectionOK, RequestStep, Content, File
  <2>2. SectionKept /\ sec'.at = "csr" /\ sec.at = "key"
    BY <1>1, GotoKeeps DEF WriteRotationKey, Step
  <2>3. bundles'[sec.id]["key"] # 0 /\ mem' = mem /\ used' = used
    BY <1>1, <2>1, FileWritten DEF WriteRotationKey, InSection, FilesOnly
  <2>4. WorkInv'
    BY <2>2, <2>3 DEF KeyInv, WorkInv, RequestStep, SectionKept
  <2> QED BY <1>1, <1>d, <2>1, <2>2, <2>4 DEF WriteRotationKey, RequestStep
<1>2. CASE WriteRotationCSR
  <2>1. sec.id \in Rotations /\ bundles[sec.id]["key"] \in Content /\ bundles[sec.id]["key"] # 0
        /\ "csr" \in File /\ "key" \in File
    BY <1>2 DEF WriteRotationCSR, SectionOK, RequestStep, File, StoreTypeOK, KeyInv, WorkInv
  <2>2. SectionKept /\ sec'.at = "saveRequest" /\ sec.at = "csr"
    BY <1>2, GotoKeeps DEF WriteRotationCSR, Step
  <2>3. /\ bundles'[sec.id]["csr"] = bundles[sec.id]["key"]
        /\ bundles'[sec.id]["key"] = bundles[sec.id]["key"] /\ mem' = mem /\ used' = used
    BY <1>2, <2>1, FileWritten DEF WriteRotationCSR, InSection, FilesOnly
  <2>4. WorkInv'
    BY <2>1, <2>2, <2>3 DEF KeyInv, WorkInv, RequestStep, SectionKept
  <2> QED BY <1>2, <1>d, <2>1, <2>2, <2>4 DEF WriteRotationCSR, RequestStep
<1>e. (* a step that left the bundles, the pointer and the ids alone *)
      ASSUME ConfigOnly, InSection, SectionKept, sec'.at \notin RequestStep \cup {"ca", "savePending"},
             sec'.at = "return" /\ sec.op = "begin" => sec.id \in used,
             sec'.at = "discard" => mem'.pid = None
      PROVE  ActiveKeyMatches' /\ FreshInv' /\ WorkInv'
  <2>1. pointer' = pointer /\ bundles' = bundles /\ used' = used /\ issued' = issued
    BY <1>e, NoRequestSent DEF ConfigOnly
  <2>2. \A r \in Rotations : Fresh(r)' => r \notin used
    BY <1>e, <2>1 DEF Fresh
  <2>3. FreshInv'
    BY <1>e, <2>1, <2>2, NoRequestSent DEF KeyInv, FreshInv, Fresh
  <2>4. WorkInv'
    BY <1>e, <2>1 DEF WorkInv, RequestStep, SectionKept
  <2> QED BY <2>1, <2>3, <2>4 DEF KeyInv, ActiveKeyMatches
<1>3. CASE SaveRequest
  <2> DEFINE cfg == [mem EXCEPT !.pid = sec.id, !.status = "pending"]
  <2>1. SectionKept /\ sec'.at = "return" /\ sec.at = "saveRequest" /\ ConfigOnly /\ InSection
    BY <1>3, LeaveKeeps DEF SaveRequest
  <2>2. mem' = cfg /\ cfg.ptok = mem.ptok /\ cfg.pid = sec.id
    BY <1>3 DEF SaveRequest, SaveCredentialConfig, Config
  <2> HIDE DEF cfg
  <2>3. /\ sec.id \in Rotations /\ mem.pid \in {None, sec.id} /\ ~mem.ptok /\ sec.id \in used
        /\ bundles[sec.id]["csr"] # 0 /\ bundles[sec.id]["key"] = bundles[sec.id]["csr"]
    BY <1>a, <2>1 DEF SectionOK, OwnerOK, RequestStep, CompletingStep, KeyInv, WorkInv
  <2>4. ActiveKeyMatches' /\ FreshInv' /\ WorkInv'
    BY <1>e, <2>1, <2>3 DEF RequestStep
  <2>5. /\ issued[sec.id] \in {0, bundles[sec.id]["csr"]} /\ pointer # sec.id
        /\ \A q \in Request : Travels(q) /\ q.id = sec.id => q.key = bundles[sec.id]["csr"]
    <3>1. CASE mem.pid = sec.id
      BY <2>3, <3>1 DEF KeyInv, PendingInv
    <3>2. CASE mem.pid = None
      BY <2>1, <2>3, <3>2 DEF KeyInv, FreshInv, Fresh, RequestStep
    <3> QED BY <2>3, <3>1, <3>2
  <2>6. PendingInv'
    BY <2>1, <2>2, <2>3, <2>5, NoRequestSent DEF PendingInv, ConfigOnly
  <2> QED BY <2>4, <2>6 DEF KeyInv
<1>f. sec.at \in ApplyStep => mem.pid = sec.id /\ sec.id \in Rotations /\ sec.op = "apply"
  BY DEF SectionOK, OwnerOK, CutoverStep
<1>4. CASE StageCertificate \/ StageCA
  <2>1. PICK f \in {"cert", "ca"} : sec.at = f /\ WriteFile(sec.id, f, issued[sec.id])
    BY <1>4 DEF StageCertificate, StageCA
  <2>2. /\ SectionKept /\ FilesOnly /\ InSection
        /\ sec'.at = (IF sec.at = "cert" THEN "ca" ELSE "savePending")
    BY <1>4, GotoKeeps DEF StageCertificate, StageCA, Step
  <2>3. /\ mem.pid = sec.id /\ sec.id \in Rotations /\ ~mem.ptok /\ f \in File
        /\ issued[sec.id] \in Content /\ issued[sec.id] # 0
    BY <1>a, <1>f, <2>1 DEF ApplyStep, CompletingStep, File, StoreInv
  <2>4. /\ pointer' = pointer /\ mem' = mem
        /\ bundles'[sec.id][f] = issued[sec.id]
        /\ \A q \in Rotations : \A g \in File : q # sec.id \/ g # f => bundles'[q][g] = bundles[q][g]
    BY <2>1, <2>2, <2>3, FileWritten DEF InSection, FilesOnly
  <2>5. /\ pointer # sec.id /\ bundles[sec.id]["key"] = issued[sec.id]
        /\ bundles'[sec.id]["key"] = bundles[sec.id]["key"] /\ bundles'[sec.id]["csr"] = bundles[sec.id]["csr"]
    BY <2>1, <2>3, <2>4 DEF KeyInv, PendingInv, File
  <2>6. ActiveKeyMatches'
    BY <2>4, <2>5 DEF KeyInv, ActiveKeyMatches, File
  <2>7. PendingInv'
    BY <2>2, <2>3, <2>4, <2>5, NoRequestSent DEF KeyInv, PendingInv
  <2>8. \A r \in Rotations : Fresh(r)' => r \notin used
    BY <2>2, NoRequestSent DEF Fresh, RequestStep
  <2>9. FreshInv'
    BY <2>1, <2>2, <2>4, <2>8, NoRequestSent DEF KeyInv, FreshInv, Fresh, File
  <2>10. sec'.at = "savePending" => bundles[sec.id]["cert"] = issued[sec.id] /\ f = "ca"
    BY <2>1, <2>2 DEF KeyInv, WorkInv
  <2>11. sec'.at = "ca" => bundles'[sec'.id]["cert"] = issued'[sec'.id]
    BY <2>1, <2>2, <2>4, NoRequestSent DEF SectionKept
  <2>12. sec'.at = "savePending" => bundles'[sec'.id]["key"] = bundles'[sec'.id]["cert"]
    BY <2>2, <2>3, <2>4, <2>5, <2>10 DEF SectionKept, File
  <2>13. WorkInv'
    BY <2>2, <2>11, <2>12 DEF WorkInv, RequestStep, Matches
  <2> QED BY <2>6, <2>7, <2>9, <2>13 DEF KeyInv
<1>6. CASE SavePending
  <2> DEFINE cfg == [mem EXCEPT !.ptok = TRUE, !.prev = pointer]
  <2>1. SectionKept /\ sec'.at = "activate" /\ sec.at = "savePending" /\ ConfigOnly /\ InSection
    BY <1>6, GotoKeeps DEF SavePending, Step
  <2>2. mem' = cfg /\ cfg.ptok /\ cfg.pid = mem.pid
    BY <1>6 DEF SavePending, SaveCredentialConfig, Config
  <2> HIDE DEF cfg
  <2>3. mem.pid = sec.id /\ Matches(sec.id)
    BY <1>f, <2>1 DEF ApplyStep, KeyInv, WorkInv
  <2>4. ActiveKeyMatches' /\ FreshInv' /\ WorkInv'
    BY <1>e, <2>1 DEF RequestStep
  <2>5. PendingInv'
    BY <2>1, <2>2, <2>3, NoRequestSent DEF KeyInv, PendingInv, ConfigOnly, Matches
  <2> QED BY <2>4, <2>5 DEF KeyInv
<1>g. sec.at \in CompletingStep => /\ mem.ptok /\ mem.pid = sec.id /\ CompleteBundle(sec.id)
                                   /\ sec.id \in Rotations /\ sec.op # "begin"
  BY DEF StoreInv, CrashInv, CompletingStep, RecordedStep, ResumeStep, SectionOK, OwnerOK, CutoverStep, ApplyStep
<1>7. CASE ActivateRotation \/ ResumePointer
  <2>1. sec.at \in CompletingStep /\ mem.ptok /\ mem.pid = sec.id /\ CompleteBundle(sec.id)
        /\ sec.id \in Rotations
    BY <1>7, <1>g DEF ActivateRotation, ResumePointer, CompletingStep
  <2>2. SectionKept /\ sec'.at \in {"saveFinal", "resumeFinal"} /\ InSection
    BY <1>7, <2>1, GotoKeeps DEF ActivateRotation, ResumePointer, Step
  <2>3. pointer' = sec.id /\ bundles' = bundles /\ mem' = mem
    BY <1>7, <2>1 DEF ActivateRotation, ResumePointer, WritePointer, FilesOnly
  <2>4. Matches(sec.id) /\ sec.id \in used
    BY <2>1 DEF KeyInv, PendingInv
  <2>5. ActiveKeyMatches'
    BY <2>3, <2>4 DEF ActiveKeyMatches, Matches
  <2>6. PendingInv'
    BY <2>1, <2>2, <2>3, NoRequestSent DEF KeyInv, PendingInv, Matches
  <2>7. \A r \in Rotations : Fresh(r)' => r \notin used
    BY <2>2, NoRequestSent DEF Fresh, RequestStep
  <2>8. FreshInv'
    BY <2>2, <2>3, <2>4, <2>7, NoRequestSent DEF KeyInv, FreshInv, Fresh
  <2>9. WorkInv'
    BY <2>2 DEF WorkInv, RequestStep
  <2> QED BY <2>5, <2>6, <2>8, <2>9 DEF KeyInv
<1>9. CASE SaveFinal \/ ResumeFinal
  <2>1. sec.at \in CompletingStep /\ ConfigOnly /\ InSection
    BY <1>9 DEF SaveFinal, ResumeFinal, CompletingStep
  <2>2. SectionKept /\ sec'.at = "return"
    BY <1>9, LeaveKeeps DEF SaveFinal, ResumeFinal
  <2>3. mem' = Final(mem)
    BY <1>9 DEF SaveFinal, ResumeFinal, SaveCredentialConfig
  <2>4. Final(mem).pid = None
    BY DEF Final, Cleared, Config
  <2>5. ActiveKeyMatches' /\ FreshInv' /\ WorkInv'
    BY <1>e, <1>g, <2>1, <2>2 DEF RequestStep
  <2> QED BY <1>c, <2>3, <2>4, <2>5 DEF KeyInv, PendingInv
<1>12. CASE DiscardRotation
  <2>1. sec.id \in Rotations /\ sec.at = "discard" /\ mem.pid = None /\ sec.op # "begin"
    BY <1>12 DEF DiscardRotation, SectionOK, KeyInv, WorkInv
  <2>2. InSection /\ mem' = mem
    BY <1>12 DEF DiscardRotation, FilesOnly
  <2>3. CASE MayDiscard(sec.id) /\ ~Emptied(sec.id)
    <3>1. PICK f \in File : RemoveFile(sec.id, f)
      BY <1>12, <2>3 DEF DiscardRotation
    <3>2. /\ sec' = sec /\ pointer' = pointer /\ pointer # sec.id
          /\ \A q \in Rotations \ {sec.id} : bundles'[q] = bundles[q]
      BY <1>12, <2>1, <2>2, <2>3, <3>1, FileRemoved DEF DiscardRotation, InSection, MayDiscard
    <3>3. \A g \in File : bundles'[sec.id][g] \in {0, bundles[sec.id][g]}
      BY <2>1, <3>1 DEF RemoveFile, StoreTypeOK
    <3>4. ActiveKeyMatches'
      BY <3>2 DEF KeyInv, ActiveKeyMatches
    <3>5. \A r \in Rotations : Fresh(r)' <=> Fresh(r)
      BY <2>1, <2>2, <3>2, NoRequestSent DEF Fresh
    <3>6. \A r \in Rotations : bundles'[r]["csr"] \in {0, bundles[r]["csr"]}
      BY <3>2, <3>3 DEF File
    <3>7. FreshInv'
      BY <2>2, <3>2, <3>5, <3>6, NoRequestSent DEF KeyInv, FreshInv
    <3>8. WorkInv'
      BY <2>1, <2>2, <3>2 DEF WorkInv, RequestStep
    <3> QED BY <1>c, <2>1, <2>2, <3>4, <3>7, <3>8 DEF KeyInv, PendingInv
  <2>4. CASE ~(MayDiscard(sec.id) /\ ~Emptied(sec.id))
    <3>1. Leave(FALSE) /\ ConfigOnly
      BY <1>12, <2>4 DEF DiscardRotation
    <3>2. SectionKept /\ sec'.at = "return"
      BY <3>1, LeaveKeeps
    <3>3. ActiveKeyMatches' /\ FreshInv' /\ WorkInv'
      BY <1>e, <2>1, <2>2, <3>1, <3>2 DEF RequestStep
    <3> QED BY <1>c, <2>1, <2>2, <3>3 DEF KeyInv, PendingInv
  <2> QED BY <2>3, <2>4
<1>17. CASE SaveFailure
  <2> DEFINE failed == [mem EXCEPT !.status = "failed"]
  <2>1. ~mem.ptok /\ sec.op # "begin"
    BY <1>17, <1>a DEF SaveFailure, CompletingStep, SectionOK
  <2>2. failed.ptok = mem.ptok /\ failed.pid = mem.pid /\ Cleared(failed).pid = None
    BY DEF Cleared, Config
  <2>3. mem' = (IF sec.clear THEN Cleared(failed) ELSE failed) /\ ConfigOnly /\ InSection
    BY <1>17 DEF SaveFailure, SaveCredentialConfig
  <2>4. SectionKept /\ sec'.at \in {"discard", "return"} /\ (sec'.at = "discard" => sec.clear)
    BY <1>17, GotoKeeps, LeaveKeeps DEF SaveFailure, Step
  <2> HIDE DEF failed
  <2>5. ActiveKeyMatches' /\ FreshInv' /\ WorkInv'
    BY <1>e, <2>1, <2>2, <2>3, <2>4 DEF RequestStep
  <2>6. CASE mem'.pid = None
    BY <1>c, <2>5, <2>6 DEF KeyInv, PendingInv
  <2>7. CASE mem' = failed
    <3>1. PendingInv'
      BY <2>1, <2>2, <2>3, <2>7, NoRequestSent DEF KeyInv, PendingInv, ConfigOnly
    <3> QED BY <2>5, <3>1 DEF KeyInv
  <2> QED BY <2>2, <2>3, <2>6, <2>7
<1>8. ~(UndoPending \/ RollbackPointer \/ RestoreConfig \/ ResumeRollback \/ ResumeRestore)
  BY DEF CrashInv, UndoPending, RollbackPointer, RestoreConfig, ResumeRollback, ResumeRestore
<1> QED BY <1>1, <1>2, <1>3, <1>4, <1>6, <1>7, <1>8, <1>9, <1>12, <1>17 DEF SectionStep

(* A step after which an operation has not begun to work on a bundle keeps *)
(* the invariant of the keys, if no request sets out.                      *)
LEMMA QuietKey ==
    ASSUME KeyInv, UNCHANGED <<pointer, bundles, issued, used>>,
           mem'.pid = mem.pid, mem'.ptok = mem.ptok,
           \A q \in Request : Travels(q)' => Travels(q),
           \/ sec' = sec
           \/ sec'.at \in {"free", "cert", "resumePointer", "saveFailure"}
           \/ sec'.at = "return" /\ ~sec'.ok
    PROVE  KeyInv'
<1>1. \A r \in Rotations : Fresh(r)' => Fresh(r)
  BY DEF Fresh, RequestStep
<1>2. ActiveKeyMatches' /\ PendingInv'
  BY DEF KeyInv, ActiveKeyMatches, PendingInv, Matches
<1>3. FreshInv'
  BY <1>1 DEF KeyInv, FreshInv
<1>4. WorkInv'
  BY DEF KeyInv, WorkInv, RequestStep, Matches
<1> QED BY <1>2, <1>3, <1>4 DEF KeyInv

(* A goroutine that calls an operation has no request on its way. *)
LEMMA LockTravels ==
    ASSUME NEW g \in Goroutine, pc \in [Goroutine -> PC], pc' = [pc EXCEPT ![g] = "busy"],
           UNCHANGED <<arg, asked>>
    PROVE  \A q \in Request : Travels(q)' => Travels(q)
BY DEF Travels

(* Starting an operation keeps the invariant of the keys. *)
LEMMA CallKey ==
    ASSUME TypeInv, StoreInv, CrashInv, KeyInv, NEW g \in Goroutine, CallOperation(g)
    PROVE  KeyInv'
<1>0. TypeOK /\ pc \in [Goroutine -> PC] /\ mem \in Config
  BY DEF TypeInv, TypeOK
<1>1. UNCHANGED <<pointer, bundles, mem, arg, asked, issued>> /\ pc' = [pc EXCEPT ![g] = "busy"]
  BY DEF CallOperation, BeginCredentialRequest, CannotPrepare, ApplyCredentialRotation,
     RecordCredentialFailure, Lock, storeVars, serverVars
<1>2. \A q \in Request : Travels(q)' => Travels(q)
  BY <1>0, <1>1, LockTravels
<1>3. CASE CannotPrepare(g) \/ ApplyCredentialRotation(g) \/ RecordCredentialFailure(g)
  <2>1. used' = used /\ (sec'.at \in {"cert", "saveFailure"} \/ (sec'.at = "return" /\ ~sec'.ok))
    BY <1>3 DEF CannotPrepare, ApplyCredentialRotation, RecordCredentialFailure, Lock
  <2> QED BY <1>1, <1>2, <2>1, QuietKey
<1>4. CASE BeginCredentialRequest(g)
  <2>1. PICK id \in NextRequest :
             /\ sec'.at = (IF HasCSR(id) THEN "saveRequest" ELSE "key")
             /\ sec'.id = id /\ used' = used \cup {id}
    BY <1>4 DEF BeginCredentialRequest, Lock
  <2>2. id \in Rotations /\ (mem.pid = None => id \notin used) /\ (mem.pid # None => id = mem.pid)
    BY <1>0, <2>1 DEF NextRequest, Config
  <2>3. IF mem.pid = None THEN sec'.at = "key" ELSE sec'.at = "saveRequest"
    BY <2>1, <2>2 DEF KeyInv, PendingInv, FreshInv, Fresh, HasCSR
  <2>4. \A r \in Rotations : Fresh(r)' => r \notin used
    <3> SUFFICES ASSUME NEW r \in Rotations, Fresh(r)', r \in used PROVE FALSE
      OBVIOUS
    <3>1. r \in used'
      BY <2>1
    <3>2. r = id /\ mem.pid = None
      BY <1>1, <2>1, <3>1 DEF Fresh
    <3> QED BY <2>2, <3>2
  <2>5. FreshInv'
    BY <1>1, <1>2, <2>1, <2>4 DEF KeyInv, FreshInv, Fresh
  <2>6. ActiveKeyMatches'
    BY <1>1 DEF KeyInv, ActiveKeyMatches
  <2>7. PendingInv'
    BY <1>1, <1>2, <2>1 DEF KeyInv, PendingInv, Matches
  <2>8. WorkInv'
    BY <1>1, <2>1, <2>2, <2>3 DEF KeyInv, PendingInv, WorkInv, RequestStep
  <2> QED BY <2>5, <2>6, <2>7, <2>8 DEF KeyInv
<1> QED BY <1>3, <1>4 DEF CallOperation

(* The request that beginCredentialRequest returns is for the key in the   *)
(* pending bundle.                                                         *)
LEMMA ReturnKey == TypeInv /\ KeyInv /\ Return => KeyInv'
<1> SUFFICES ASSUME TypeInv, KeyInv, Return PROVE KeyInv'
  OBVIOUS
<1>0. /\ pc \in [Goroutine -> PC] /\ arg \in [Goroutine -> Request] /\ sec.by \in Goroutine
      /\ sec.op \in {"begin", "apply", "resume", "record"} /\ sec.ok \in BOOLEAN
  BY DEF TypeInv, TypeOK, Section
<1>1. UNCHANGED <<pointer, bundles, mem, used, asked, issued>> /\ sec'.at = "free" /\ sec.at = "return"
  BY DEF Return, storeVars, serverVars, FreeSection
<1>2. PICK g \in Goroutine : g = sec.by
  BY <1>0
<1>3. AfterReturn(g, sec.op, sec.ok) \in {"send", "http"} => sec.op = "begin" /\ sec.ok
  BY <1>0 DEF AfterReturn
<1>4. /\ pc'[g] \in {"send", "http"} => sec.op = "begin" /\ sec.ok
      /\ sec.op = "begin" /\ sec.ok => arg'[g] = [id |-> sec.id, key |-> bundles[sec.id]["csr"]]
  BY <1>0, <1>2, <1>3 DEF Return
<1>5. \A h \in Goroutine \ {g} : arg'[h] = arg[h] /\ (pc'[h] \in {"send", "http"} => pc'[h] = pc[h])
  BY <1>0, <1>2 DEF Return
<1>6. \A q \in Request : Travels(q)' =>
         Travels(q) \/ (sec.op = "begin" /\ sec.ok /\ q.id = sec.id /\ q.key = bundles[sec.id]["csr"])
  BY <1>1, <1>4, <1>5 DEF Travels
<1>7. sec.op = "begin" /\ sec.ok => sec.id \in used
  BY <1>1 DEF KeyInv, WorkInv
<1>8. \A r \in Rotations : Fresh(r)' => r \notin used
  BY <1>1 DEF Fresh, RequestStep
<1>9. FreshInv'
  BY <1>1, <1>6, <1>7, <1>8 DEF KeyInv, FreshInv, Fresh
<1>10. PendingInv'
  BY <1>1, <1>6 DEF KeyInv, PendingInv, Matches
<1>11. ActiveKeyMatches' /\ WorkInv'
  BY <1>1 DEF KeyInv, ActiveKeyMatches, WorkInv, RequestStep
<1> QED BY <1>9, <1>10, <1>11 DEF KeyInv

(* The steps of the reconnect loop keep the invariant of the keys. *)
LEMMA RunStepKey == TypeInv /\ KeyInv /\ RunStep => KeyInv'
<1> SUFFICES ASSUME TypeInv, KeyInv, RunStep PROVE KeyInv'
  OBVIOUS
<1>0. pc \in [Goroutine -> PC] /\ arg \in [Goroutine -> Request] /\ "run" \in Goroutine
  BY DEF TypeInv, TypeOK, Goroutine
<1>1. CASE ResumePendingCredentialCutover
  <2>1. UNCHANGED <<pointer, bundles, mem, arg, asked, issued, used>>
    BY <1>1 DEF ResumePendingCredentialCutover, storeVars, serverVars
  <2>2. pc' = [pc EXCEPT !["run"] = "busy"] \/ pc' = [pc EXCEPT !["run"] = "check"]
    BY <1>1 DEF ResumePendingCredentialCutover, Lock
  <2>3. \A q \in Request : Travels(q)' => Travels(q)
    BY <1>0, <2>1, <2>2 DEF Travels
  <2>4. sec' = sec \/ sec'.at = "resumePointer" \/ (sec'.at = "return" /\ ~sec'.ok)
    BY <1>1 DEF ResumePendingCredentialCutover, Lock
  <2> QED BY <2>1, <2>3, <2>4, QuietKey
<1>2. CASE RunStep /\ ~ResumePendingCredentialCutover
  <2>1. UNCHANGED <<pointer, bundles, mem, sec, used, arg, issued>>
    BY <1>2 DEF RunStep, UseCredential, StartRecovery, RecoveryWaits, PostRenewal, RenewalAnswered,
       RenewalFailed, Connect, DialFails, AuthenticationFails, Disconnect, WaitOver, MoveRun, storeVars,
       serverVars
  <2>2. PICK to \in PC : /\ pc' = [pc EXCEPT !["run"] = to]
                         /\ \/ to \notin {"send", "http"} /\ asked' = asked
                            \/ pc["run"] = "http" /\ to = "http" /\ asked' = asked \cup {arg["run"]}
    BY <1>2 DEF RunStep, UseCredential, StartRecovery, RecoveryWaits, PostRenewal, RenewalAnswered,
       RenewalFailed, Connect, DialFails, AuthenticationFails, Disconnect, WaitOver, MoveRun, serverVars, PC
  <2>3. \A q \in Request : Travels(q)' => Travels(q)
    BY <1>0, <2>1, <2>2 DEF Travels
  <2> QED BY <2>1, <2>3, QuietKey
<1> QED BY <1>1, <1>2

(* The steps of a connection keep the invariant of the keys. *)
LEMMA ConnectionStepKey == TypeInv /\ KeyInv /\ ConnectionStep => KeyInv'
<1> SUFFICES ASSUME TypeInv, KeyInv, ConnectionStep PROVE KeyInv'
  OBVIOUS
<1>0. /\ pc \in [Goroutine -> PC] /\ arg \in [Goroutine -> Request] /\ mem \in Config
      /\ {"run", "hb", "recv"} \subseteq Goroutine
  BY DEF TypeInv, TypeOK, Goroutine
<1>1. CASE MaybeRequestCredentialRenewal \/ SendRequestFails \/ ReceiveRejection
  <2>1. UNCHANGED <<pointer, bundles, mem, sec, used, arg, issued, asked>>
    BY <1>1 DEF MaybeRequestCredentialRenewal, SendRequestFails, ReceiveRejection, storeVars, serverVars
  <2>2. \A g \in Goroutine : pc'[g] \in {"send", "http"} => pc'[g] = pc[g]
    BY <1>0, <1>1 DEF MaybeRequestCredentialRenewal, SendRequestFails, ReceiveRejection
  <2>3. \A q \in Request : Travels(q)' => Travels(q)
    BY <2>1, <2>2 DEF Travels
  <2> QED BY <2>1, <2>3, QuietKey
<1>2. CASE SendRenewalRequest
  <2>1. UNCHANGED <<pointer, bundles, mem, sec, used, arg, issued>>
    BY <1>2 DEF SendRenewalRequest, storeVars
  <2>2. \A q \in Request : Travels(q)' => Travels(q)
    BY <1>0, <1>2 DEF SendRenewalRequest, Travels
  <2> QED BY <2>1, <2>2, QuietKey
<1>3. ASSUME NEW r \in Rotations, ReceiveRotation(r) PROVE KeyInv'
  <2>1. UNCHANGED <<pointer, bundles, mem, sec, used, issued, asked>>
    BY <1>3 DEF ReceiveRotation, storeVars, serverVars
  <2>2. \A g \in Goroutine : pc'[g] \in {"send", "http"} => pc'[g] = pc[g] /\ arg'[g] = arg[g]
    BY <1>0, <1>3 DEF ReceiveRotation
  <2>3. \A q \in Request : Travels(q)' => Travels(q)
    BY <2>1, <2>2 DEF Travels
  <2> QED BY <2>1, <2>3, QuietKey
<1>4. ASSUME NEW t \in Tunnels, HandleTunnelConfig(t) PROVE KeyInv'
  <2> DEFINE cfg == [mem EXCEPT !.tunnel = t]
  <2>1. cfg.pid = mem.pid /\ cfg.ptok = mem.ptok
    BY <1>0 DEF Config
  <2>2. mem' \in {mem, cfg} /\ UNCHANGED <<pointer, bundles, sec, pc, arg, used, asked, issued>>
    BY <1>4 DEF HandleTunnelConfig, SaveCredentialConfig, storeVars, serverVars
  <2> HIDE DEF cfg
  <2>3. mem'.pid = mem.pid /\ mem'.ptok = mem.ptok
    BY <2>1, <2>2
  <2>4. \A q \in Request : Travels(q)' => Travels(q)
    BY <2>2 DEF Travels
  <2> QED BY <2>2, <2>3, <2>4, QuietKey
<1> QED BY <1>1, <1>2, <1>3, <1>4 DEF ConnectionStep

(* The control plane signs the key of the request, so it keeps the         *)
(* invariant; the clock, the disk and crashes do not touch the keys.       *)
LEMMA EnvironmentKey == TypeInv /\ StoreInv /\ KeyInv /\ Environment => KeyInv'
<1> SUFFICES ASSUME TypeInv, StoreInv, KeyInv, Environment PROVE KeyInv'
  OBVIOUS
<1>1. CASE IssueCredential
  <2>1. PICK q \in asked : issued[q.id] = 0 /\ issued' = [issued EXCEPT ![q.id] = q.key]
    BY <1>1 DEF IssueCredential
  <2>2. UNCHANGED <<pointer, bundles, mem, sec, used, pc, arg, asked>>
    BY <1>1 DEF IssueCredential, storeVars, agentVars
  <2>3. q \in Request /\ Travels(q) /\ q.id \in Rotations /\ issued \in [Rotations -> Content]
    BY DEF TypeInv, TypeOK, ArgOK, Travels
  <2>4. \A p \in Request : Travels(p)' <=> Travels(p)
    BY <2>2 DEF Travels
  <2>5. \A r \in Rotations : Fresh(r)' <=> Fresh(r)
    BY <2>2 DEF Fresh
  <2>6. FreshInv'
    BY <2>1, <2>2, <2>3, <2>4, <2>5 DEF KeyInv, FreshInv
  <2>7. PendingInv'
    BY <2>1, <2>2, <2>3, <2>4 DEF KeyInv, PendingInv, Matches
  <2>8. sec.at = "ca" => sec.id \in Rotations /\ issued[sec.id] # 0
    BY DEF TypeInv, SectionOK, CutoverStep, ApplyStep, StoreInv
  <2>9. WorkInv'
    BY <2>1, <2>2, <2>3, <2>8 DEF KeyInv, WorkInv, Matches
  <2> QED BY <2>2, <2>6, <2>7, <2>9 DEF KeyInv, ActiveKeyMatches
<1>2. CASE Expire \/ DiskFills \/ DiskFrees
  <2>1. UNCHANGED <<pointer, bundles, mem, sec, used, pc, arg, asked, issued>>
    BY <1>2 DEF Expire, DiskFills, DiskFrees, storeVars, agentVars, serverVars
  <2>2. \A q \in Request : Travels(q)' => Travels(q)
    BY <2>1 DEF Travels
  <2> QED BY <2>1, <2>2, QuietKey
<1>3. CASE Crash
  <2>1. UNCHANGED <<pointer, bundles, mem, used, asked, issued>> /\ sec'.at = "free"
    BY <1>3 DEF Crash, storeVars, serverVars, FreeSection, StoreInv, MemFollowsDisk
  <2>2. \A q \in Request : Travels(q)' => Travels(q)
    BY <1>3, <2>1 DEF Crash, Travels, Goroutine
  <2> QED BY <2>1, <2>2, QuietKey
<1> QED BY <1>1, <1>2, <1>3 DEF Environment

(* With MaxOutages = 0 every step keeps the invariant of the keys. *)
THEOREM KeyInvariant ==
    ASSUME MaxOutages = 0
    PROVE  Spec => [](StoreInv /\ KeyInv)
<1>1. TypeInv /\ StoreInv /\ CrashInv /\ KeyInv /\ [Next]_vars => KeyInv'
  <2> SUFFICES ASSUME TypeInv, StoreInv, CrashInv, KeyInv, [Next]_vars PROVE KeyInv'
    OBVIOUS
  <2>1. CASE UNCHANGED vars
    <3>1. UNCHANGED <<pointer, bundles, mem, sec, used, pc, arg, asked, issued>>
      BY <2>1 DEF vars, storeVars, agentVars, serverVars
    <3>2. \A q \in Request : Travels(q)' => Travels(q)
      BY <3>1 DEF Travels
    <3> QED BY <3>1, <3>2, QuietKey
  <2> QED BY <2>1, SectionStepKey, ReturnKey, CallKey, RunStepKey, ConnectionStepKey, EnvironmentKey
          DEF Next
<1> QED BY <1>1, InitKey, CrashInvariant, PTL DEF Spec

(* Without disk outages, the active certificate belongs to the active      *)
(* private key, although PrepareRotation and StageRotation rewrite files   *)
(* of a bundle in place: for any number of rotations, keys and crashes.    *)
THEOREM ActiveKeyAlwaysMatches ==
    ASSUME MaxOutages = 0
    PROVE  Spec => []ActiveKeyMatches
<1>1. KeyInv => ActiveKeyMatches
  BY DEF KeyInv
<1> QED BY <1>1, KeyInvariant, PTL

(* Without disk outages, the key that the control plane signed is kept as  *)
(* long as its request is pending, so that the answer can be installed     *)
(* however often the agent crashes and asks again.                         *)
THEOREM SignedKeyIsKept ==
    ASSUME MaxOutages = 0
    PROVE  Spec => []RequestKeyKept
<1>1. TypeInv /\ StoreInv /\ KeyInv => RequestKeyKept
  BY DEF TypeInv, TypeOK, Config, StoreInv, MemFollowsDisk, KeyInv, PendingInv, RequestKeyKept
<1> QED BY <1>1, KeyInvariant, StoreInvariant, PTL

-----------------------------------------------------------------------------
(* Keys through disk outages.  With outages a save fails while the discard *)
(* after it goes on, so a request id may stay pending without its bundle   *)
(* and a bundle may be filled again.  What keeps certificate and key       *)
(* together is that a discard, once begun, takes every file away.          *)

(* Everything asked for or issued under r is for a key made before key k. *)
Older(r, k) == issued[r] < k /\ \A q \in Request : Travels(q) /\ q.id = r => q.key < k

(* The bundle is not in the middle of a discard. *)
Whole(r) == sec.at = "discard" /\ sec.id = r => pointer = r

(* A bundle without CSR has no certificate, and none can come for its key; *)
(* a certificate is the one of the key beside it.                          *)
HeldBundle(r) ==
    /\ bundles[r]["csr"] = 0 =>
          bundles[r]["cert"] = 0 /\ (bundles[r]["key"] # 0 => Older(r, bundles[r]["key"]))
    /\ bundles[r]["cert"] # 0 => bundles[r]["key"] = bundles[r]["cert"]

(* What the operation at work found before it writes a key or a certificate. *)
HeldWork ==
    /\ sec.at = "cert" => issued[sec.id] # 0 /\ bundles[sec.id]["key"] = issued[sec.id]
    /\ sec.at = "key" => bundles[sec.id]["csr"] = 0

HeldInv ==
    /\ \A r \in Rotations : /\ bundles[r]["key"] <= keys[r] /\ bundles[r]["csr"] <= keys[r]
                            /\ Older(r, keys[r] + 1)
    /\ \A r \in Rotations : Whole(r) => HeldBundle(r)
    /\ HeldWork

(* No crash cuts DiscardRotation's os.RemoveAll short. *)
UncutDiscard == sec.at = "discard" => crashes' = crashes

(* The types that the proofs below compute with. *)
LEMMA HeldTypes ==
    ASSUME TypeInv
    PROVE  /\ \A r \in Rotations : keys[r] \in Nat /\ issued[r] \in Nat
           /\ \A r \in Rotations, f \in File : bundles[r][f] \in Nat
           /\ \A q \in Request : q.key \in Nat
           /\ {"key", "csr", "cert", "ca"} \subseteq File /\ None \notin Rotations
BY StoreConstants, CredentialConstants DEF TypeInv, TypeOK, StoreTypeOK, Content, Request, File

(* Initially there is no file, no request and no key. *)
LEMMA InitHeld == Init => HeldInv
<1> SUFFICES ASSUME Init PROVE HeldInv
  OBVIOUS
<1>1. sec.at = "free"
  BY DEF Init, FreeSection
<1>2. \A q \in Request : ~Travels(q)
  BY DEF Init, Travels, Goroutine
<1>3. \A r \in Rotations : keys[r] = 0 /\ issued[r] = 0 /\ \A f \in File : bundles[r][f] = 0
  BY DEF Init, StoreInit
<1> QED BY <1>1, <1>2, <1>3 DEF HeldInv, HeldBundle, HeldWork, Older, File

(* A step that leaves bundles, keys and certificates alone and sends no    *)
(* request but for the key of a stored CSR keeps the invariant.            *)
LEMMA QuietHeld ==
    ASSUME TypeInv, HeldInv, UNCHANGED <<bundles, keys, issued>>,
           \A q \in Request : Travels(q)' => Travels(q) \/ q.key = bundles[q.id]["csr"],
           \A r \in Rotations : Whole(r)' => Whole(r) \/ Emptied(r),
           HeldWork'
    PROVE  HeldInv'
<1>1. \A r \in Rotations : /\ bundles'[r]["key"] <= keys'[r] /\ bundles'[r]["csr"] <= keys'[r]
                           /\ Older(r, keys[r] + 1)'
  BY HeldTypes DEF HeldInv, Older
<1>2. ASSUME NEW r \in Rotations, Whole(r) PROVE HeldBundle(r)'
  BY <1>2, HeldTypes DEF HeldInv, HeldBundle, Older
<1>3. ASSUME NEW r \in Rotations, Emptied(r) PROVE HeldBundle(r)'
  BY <1>3, HeldTypes DEF Emptied, HeldBundle, Older
<1> QED BY <1>1, <1>2, <1>3 DEF HeldInv, Older

(* Writing one file of a bundle outside a discard keeps the invariant if   *)
(* the bundle it leaves is a good one.                                     *)
LEMMA WriteHeld ==
    ASSUME TypeInv, HeldInv, NEW b \in Rotations, NEW f \in File, issued' = issued,
           \A q \in Request : Travels(q)' <=> Travels(q),
           sec.at # "discard", sec'.at \notin {"key", "cert"},
           \A r \in Rotations, g \in File : r # b \/ g # f => bundles'[r][g] = bundles[r][g],
           \A r \in Rotations : keys'[r] \in {keys[r], keys[r] + 1},
           bundles'[b][f] \in {bundles[b][f], keys'[b]} \/ f \in {"cert", "ca"}
             \/ (f = "csr" /\ bundles'[b][f] = bundles[b]["key"]),
           HeldBundle(b)'
    PROVE  HeldInv'
<1>1. ASSUME NEW r \in Rotations
      PROVE  /\ bundles'[r]["key"] <= keys'[r] /\ bundles'[r]["csr"] <= keys'[r]
             /\ Older(r, keys[r] + 1)'
  <2>1. Older(r, keys[r] + 1) /\ bundles[r]["key"] <= keys[r] /\ bundles[r]["csr"] <= keys[r]
    BY DEF HeldInv
  <2>2. Older(r, keys[r] + 1)'
    BY <2>1, HeldTypes DEF Older
  <2>3. bundles'[r]["key"] <= keys'[r] /\ bundles'[r]["csr"] <= keys'[r]
    BY <2>1, HeldTypes
  <2> QED BY <2>2, <2>3
<1>2. ASSUME NEW r \in Rotations \ {b} PROVE HeldBundle(r)'
  <2>1. HeldBundle(r)
    BY DEF HeldInv, Whole
  <2>2. /\ bundles'[r]["key"] = bundles[r]["key"] /\ bundles'[r]["csr"] = bundles[r]["csr"]
        /\ bundles'[r]["cert"] = bundles[r]["cert"]
    BY <1>2, HeldTypes
  <2> QED BY <2>1, <2>2 DEF HeldBundle, Older
<1> QED BY <1>1, <1>2 DEF HeldInv, HeldWork

(* So does every file operation of an operation. *)
LEMMA SectionStepHeld ==
    ASSUME TypeInv, HeldInv, SectionStep, ~Return
    PROVE  HeldInv'
<1>0. TypeOK /\ SectionOK /\ sec \in Section
  BY DEF TypeInv, TypeOK
<1> USE <1>0, SectionTypes
<1>1. InSection
  BY DEF SectionStep, WriteRotationKey, WriteRotationCSR, SaveRequest, StageCertificate, StageCA, SavePending,
     ActivateRotation, UndoPending, SaveFinal, RollbackPointer, RestoreConfig, DiscardRotation, ResumePointer,
     ResumeFinal, ResumeRollback, ResumeRestore, SaveFailure
<1>2. issued' = issued /\ writable' = writable /\ \A q \in Request : Travels(q)' <=> Travels(q)
  BY <1>1, NoRequestSent DEF InSection
<1>3. sec.at # "discard" => \A r \in Rotations : HeldBundle(r)
  BY DEF HeldInv, Whole
<1>4. CASE WriteRotationKey
  <2>1. PICK b \in Rotations : b = sec.id
    BY <1>4 DEF WriteRotationKey, SectionOK, RequestStep
  <2>2. sec.at = "key" /\ keys[b] + 1 \in Content /\ bundles[b]["csr"] = 0
    BY <1>4, <2>1, StoreConstants DEF WriteRotationKey, SectionOK, Content, HeldInv, HeldWork
  <2>3. sec'.at \in {"csr", "return"}
    BY <1>4, GotoKeeps, LeaveKeeps DEF WriteRotationKey, Step
  <2>4. keys'[b] = keys[b] + 1 /\ \A r \in Rotations \ {b} : keys'[r] = keys[r]
    BY <1>4, <2>1 DEF WriteRotationKey
  <2>5. /\ bundles'[b]["key"] = IF writable THEN keys[b] + 1 ELSE bundles[b]["key"]
        /\ \A r \in Rotations, f \in File : r # b \/ f # "key" => bundles'[r][f] = bundles[r][f]
    BY <1>2, <1>4, <2>1, <2>2, FileWritten, HeldTypes DEF WriteRotationKey
  <2>6. /\ bundles'[b]["csr"] = 0 /\ bundles'[b]["cert"] = 0 /\ Older(b, keys[b] + 1)
        /\ bundles[b]["key"] # 0 => Older(b, bundles[b]["key"])
    BY <1>3, <2>2, <2>5, HeldTypes DEF HeldBundle, HeldInv
  <2>7. HeldBundle(b)'
    BY <1>2, <2>5, <2>6 DEF HeldBundle, Older
  <2> QED BY <1>2, <2>2, <2>3, <2>4, <2>5, <2>7, WriteHeld, HeldTypes
<1>5. CASE WriteRotationCSR
  <2>1. PICK b \in Rotations : b = sec.id
    BY <1>5 DEF WriteRotationCSR, SectionOK, RequestStep
  <2>2. sec.at = "csr" /\ sec'.at \in {"saveRequest", "return"} /\ keys' = keys
    BY <1>5, GotoKeeps, LeaveKeeps DEF WriteRotationCSR, Step
  <2>3. /\ bundles'[b]["csr"] = IF writable THEN bundles[b]["key"] ELSE bundles[b]["csr"]
        /\ \A r \in Rotations, f \in File : r # b \/ f # "csr" => bundles'[r][f] = bundles[r][f]
    <3>1. bundles[b]["key"] \in Content
      BY <2>1, HeldTypes DEF StoreTypeOK
    <3> QED BY <1>2, <1>5, <2>1, <3>1, FileWritten, HeldTypes DEF WriteRotationCSR
  <2>4. bundles'[b]["key"] = bundles[b]["key"] /\ bundles'[b]["cert"] = bundles[b]["cert"] /\ HeldBundle(b)
    BY <1>3, <2>2, <2>3, HeldTypes
  <2>5. HeldBundle(b)'
    BY <1>2, <2>3, <2>4 DEF HeldBundle, Older
  <2> QED BY <1>2, <2>2, <2>3, <2>5, WriteHeld, HeldTypes
<1>6. CASE StageCertificate
  <2>1. PICK b \in Rotations : b = sec.id
    BY <1>6 DEF StageCertificate, SectionOK, CutoverStep, ApplyStep
  <2>2. sec.at = "cert" /\ sec'.at \in {"ca", "return"} /\ keys' = keys
    BY <1>6, GotoKeeps, LeaveKeeps DEF StageCertificate, Step
  <2>3. /\ bundles'[b]["cert"] = IF writable THEN issued[b] ELSE bundles[b]["cert"]
        /\ \A r \in Rotations, f \in File : r # b \/ f # "cert" => bundles'[r][f] = bundles[r][f]
    BY <1>2, <1>6, <2>1, FileWritten, HeldTypes DEF StageCertificate
  <2>4. bundles'[b]["key"] = bundles[b]["key"] /\ bundles'[b]["csr"] = bundles[b]["csr"] /\ HeldBundle(b)
    BY <1>3, <2>2, <2>3, HeldTypes
  <2>5. bundles[b]["csr"] # 0 /\ bundles[b]["key"] = issued[b]
    (* a key without CSR would be younger than every certificate issued *)
    BY <2>1, <2>2, <2>4, HeldTypes DEF HeldInv, HeldWork, HeldBundle, Older
  <2>6. HeldBundle(b)'
    BY <1>2, <2>3, <2>4, <2>5 DEF HeldBundle, Older
  <2> QED BY <1>2, <2>2, <2>3, <2>6, WriteHeld, HeldTypes
<1>7. CASE StageCA
  <2>1. PICK b \in Rotations : b = sec.id
    BY <1>7 DEF StageCA, SectionOK, CutoverStep, ApplyStep
  <2>2. sec.at = "ca" /\ sec'.at \in {"savePending", "return"} /\ keys' = keys
    BY <1>7, GotoKeeps, LeaveKeeps DEF StageCA, Step
  <2>3. \A r \in Rotations, f \in File : r # b \/ f # "ca" => bundles'[r][f] = bundles[r][f]
    BY <1>2, <1>7, <2>1, FileWritten, HeldTypes DEF StageCA
  <2>4. /\ bundles'[b]["key"] = bundles[b]["key"] /\ bundles'[b]["csr"] = bundles[b]["csr"]
        /\ bundles'[b]["cert"] = bundles[b]["cert"] /\ HeldBundle(b)
    BY <1>3, <2>2, <2>3, HeldTypes
  <2>5. HeldBundle(b)'
    BY <1>2, <2>4 DEF HeldBundle, Older
  <2> QED BY <1>2, <2>2, <2>3, <2>5, WriteHeld, HeldTypes
<1>8. CASE DiscardRotation
  <2>1. PICK b \in Rotations : b = sec.id
    BY <1>8 DEF DiscardRotation, SectionOK
  <2>2. sec.at = "discard" /\ keys' = keys
    BY <1>8 DEF DiscardRotation
  <2>3. CASE MayDiscard(b) /\ ~Emptied(b)
    <3>1. PICK f \in File : RemoveFile(b, f) /\ sec' = sec
      BY <1>8, <2>1, <2>3 DEF DiscardRotation
    <3>2. pointer' = pointer /\ pointer # b /\ bundles'[b][f] = 0
          /\ \A r \in Rotations, g \in File : r # b \/ g # f => bundles'[r][g] = bundles[r][g]
      BY <2>1, <2>3, <3>1, HeldTypes DEF RemoveFile, MayDiscard, StoreTypeOK
    <3>3. ASSUME NEW r \in Rotations, Whole(r)' PROVE HeldBundle(r)'
      <4>1. r # b /\ HeldBundle(r)
        BY <2>1, <2>2, <3>1, <3>2, <3>3 DEF Whole, HeldInv
      <4>2. /\ bundles'[r]["key"] = bundles[r]["key"] /\ bundles'[r]["csr"] = bundles[r]["csr"]
            /\ bundles'[r]["cert"] = bundles[r]["cert"]
        BY <3>2, <4>1, HeldTypes
      <4> QED BY <1>2, <4>1, <4>2 DEF HeldBundle, Older
    <3>4. ASSUME NEW r \in Rotations
          PROVE  /\ bundles'[r]["key"] <= keys'[r] /\ bundles'[r]["csr"] <= keys'[r]
                 /\ Older(r, keys[r] + 1)'
      <4>1. /\ bundles'[r]["key"] \in {0, bundles[r]["key"]} /\ bundles'[r]["csr"] \in {0, bundles[r]["csr"]}
        BY <3>2, HeldTypes
      <4> QED BY <1>2, <2>2, <4>1, HeldTypes DEF HeldInv, Older
    <3> QED BY <2>2, <3>1, <3>3, <3>4 DEF HeldInv, HeldWork
  <2>4. CASE ~(MayDiscard(b) /\ ~Emptied(b))
    <3>1. UNCHANGED <<pointer, bundles>> /\ sec'.at = "return"
      BY <1>8, <2>1, <2>4, LeaveKeeps DEF DiscardRotation, ConfigOnly
    <3>2. \A r \in Rotations : Whole(r)' => Whole(r) \/ Emptied(r)
      BY <2>1, <2>4, <3>1 DEF Whole, MayDiscard
    <3> QED BY <1>2, <2>2, <3>1, <3>2, QuietHeld DEF HeldWork
  <2> QED BY <2>3, <2>4
<1>9. CASE \/ SaveRequest \/ SavePending \/ ActivateRotation \/ UndoPending \/ SaveFinal \/ RollbackPointer
          \/ RestoreConfig \/ ResumePointer \/ ResumeFinal \/ ResumeRollback \/ ResumeRestore \/ SaveFailure
  <2>1. bundles' = bundles /\ keys' = keys /\ sec.at # "discard"
    BY <1>9 DEF SaveRequest, SavePending, ActivateRotation, UndoPending, SaveFinal, RollbackPointer, RestoreConfig,
       ResumePointer, ResumeFinal, ResumeRollback, ResumeRestore, SaveFailure, ConfigOnly, WritePointer, Rollback
  <2>2. sec'.at \notin {"key", "cert"}
    BY <1>9 DEF SaveRequest, SavePending, ActivateRotation, UndoPending, SaveFinal, RollbackPointer, RestoreConfig,
       ResumePointer, ResumeFinal, ResumeRollback, ResumeRestore, SaveFailure, Goto, Leave, Section
  <2> QED BY <1>2, <2>1, <2>2, QuietHeld DEF HeldWork, Whole
<1> QED BY <1>4, <1>5, <1>6, <1>7, <1>8, <1>9 DEF SectionStep

(* Starting an operation keeps the invariant: beginCredentialRequest makes *)
(* a key only where no CSR can be read, and StageRotation checked the      *)
(* certificate against the key.                                            *)
LEMMA CallHeld ==
    ASSUME TypeInv, HeldInv, NEW g \in Goroutine, CallOperation(g)
    PROVE  HeldInv'
<1>0. pc \in [Goroutine -> PC]
  BY DEF TypeInv, TypeOK
<1>1. /\ UNCHANGED <<pointer, bundles, keys, arg, asked, issued>> /\ pc' = [pc EXCEPT ![g] = "busy"]
      /\ sec.at = "free"
  BY DEF CallOperation, BeginCredentialRequest, CannotPrepare, ApplyCredentialRotation,
     RecordCredentialFailure, Lock, Free, storeVars, serverVars
<1>2. \A q \in Request : Travels(q)' => Travels(q)
  BY <1>0, <1>1, LockTravels
<1>3. \/ sec'.at \in {"return", "saveFailure", "saveRequest"}
      \/ sec'.at = "key" /\ bundles[sec'.id]["csr"] = 0
      \/ sec'.at = "cert" /\ bundles[sec'.id]["key"] # 0 /\ bundles[sec'.id]["key"] = issued[sec'.id]
  BY DEF CallOperation, BeginCredentialRequest, CannotPrepare, ApplyCredentialRotation,
     RecordCredentialFailure, Lock, HasCSR, Usable, CertificateFits
<1> QED BY <1>1, <1>2, <1>3, QuietHeld DEF HeldWork, Whole

(* The request that beginCredentialRequest returns is for the stored CSR. *)
LEMMA ReturnHeld ==
    ASSUME TypeInv, HeldInv, Return
    PROVE  HeldInv'
<1>0. /\ pc \in [Goroutine -> PC] /\ arg \in [Goroutine -> Request] /\ sec.by \in Goroutine
      /\ sec.op \in {"begin", "apply", "resume", "record"} /\ sec.ok \in BOOLEAN
  BY DEF TypeInv, TypeOK, Section
<1>1. UNCHANGED <<bundles, keys, asked, issued>> /\ sec'.at = "free" /\ sec.at = "return"
  BY DEF Return, storeVars, serverVars, FreeSection
<1>2. PICK g \in Goroutine : g = sec.by
  BY <1>0
<1>3. AfterReturn(g, sec.op, sec.ok) \in {"send", "http"} => sec.op = "begin" /\ sec.ok
  BY <1>0 DEF AfterReturn
<1>4. /\ pc'[g] \in {"send", "http"} => sec.op = "begin" /\ sec.ok
      /\ sec.op = "begin" /\ sec.ok => arg'[g] = [id |-> sec.id, key |-> bundles[sec.id]["csr"]]
  BY <1>0, <1>2, <1>3 DEF Return
<1>5. \A h \in Goroutine \ {g} : arg'[h] = arg[h] /\ (pc'[h] \in {"send", "http"} => pc'[h] = pc[h])
  BY <1>0, <1>2 DEF Return
<1>6. \A q \in Request : Travels(q)' => Travels(q) \/ q.key = bundles[q.id]["csr"]
  BY <1>1, <1>4, <1>5 DEF Travels
<1> QED BY <1>1, <1>6, QuietHeld DEF HeldWork, Whole

(* Outside the operations no file is written; a request is sent again, a   *)
(* rotation received, a key signed; no crash comes during a discard.       *)
LEMMA RestHeld ==
    ASSUME TypeInv, HeldInv, RunStep \/ ConnectionStep \/ Environment, UncutDiscard
    PROVE  HeldInv'
<1>0. /\ pc \in [Goroutine -> PC] /\ arg \in [Goroutine -> Request]
      /\ {"run", "hb", "recv"} \subseteq Goroutine /\ crashes \in Nat
  BY CredentialConstants DEF TypeInv, TypeOK, Goroutine
<1>1. CASE ResumePendingCredentialCutover
  <2>1. UNCHANGED <<pointer, bundles, keys, arg, asked, issued>> /\ sec.at = "free"
    BY <1>1 DEF ResumePendingCredentialCutover, Free, storeVars, serverVars
  <2>2. pc' = [pc EXCEPT !["run"] = "busy"] \/ pc' = [pc EXCEPT !["run"] = "check"]
    BY <1>1 DEF ResumePendingCredentialCutover, Lock
  <2>3. \A q \in Request : Travels(q)' => Travels(q)
    BY <1>0, <2>1, <2>2 DEF Travels
  <2>4. sec'.at \in {"free", "resumePointer", "return"}
    BY <1>1, <2>1 DEF ResumePendingCredentialCutover, Lock
  <2> QED BY <2>1, <2>3, <2>4, QuietHeld DEF HeldWork, Whole
<1>2. CASE RunStep /\ ~ResumePendingCredentialCutover
  <2>1. UNCHANGED <<pointer, bundles, keys, sec, arg, issued>>
    BY <1>2 DEF RunStep, UseCredential, StartRecovery, RecoveryWaits, PostRenewal, RenewalAnswered,
       RenewalFailed, Connect, DialFails, AuthenticationFails, Disconnect, WaitOver, MoveRun, storeVars,
       serverVars
  <2>2. PICK to \in PC : /\ pc' = [pc EXCEPT !["run"] = to]
                         /\ \/ to \notin {"send", "http"} /\ asked' = asked
                            \/ pc["run"] = "http" /\ to = "http" /\ asked' = asked \cup {arg["run"]}
    BY <1>2 DEF RunStep, UseCredential, StartRecovery, RecoveryWaits, PostRenewal, RenewalAnswered,
       RenewalFailed, Connect, DialFails, AuthenticationFails, Disconnect, WaitOver, MoveRun, serverVars, PC
  <2>3. \A q \in Request : Travels(q)' => Travels(q)
    BY <1>0, <2>1, <2>2 DEF Travels
  <2> QED BY <2>1, <2>3, QuietHeld DEF HeldInv, HeldWork, Whole
<1>3. CASE ConnectionStep
  <2>1. UNCHANGED <<pointer, bundles, keys, sec, issued>>
    BY <1>3 DEF ConnectionStep, MaybeRequestCredentialRenewal, SendRenewalRequest, SendRequestFails,
       ReceiveRotation, ReceiveRejection, HandleTunnelConfig, storeVars, serverVars
  <2>2. /\ asked' = asked \/ (pc["hb"] = "send" /\ asked' = asked \cup {arg["hb"]})
        /\ \A g \in Goroutine : pc'[g] \in {"send", "http"} => pc'[g] = pc[g] /\ arg'[g] = arg[g]
    BY <1>0, <1>3 DEF ConnectionStep, MaybeRequestCredentialRenewal, SendRenewalRequest, SendRequestFails,
       ReceiveRotation, ReceiveRejection, HandleTunnelConfig, storeVars, serverVars
  <2>3. \A q \in Request : Travels(q)' => Travels(q)
    BY <1>0, <2>2 DEF Travels
  <2> QED BY <2>1, <2>3, QuietHeld DEF HeldInv, HeldWork, Whole
<1>4. CASE IssueCredential
  <2>1. PICK p \in asked : issued[p.id] = 0 /\ issued' = [issued EXCEPT ![p.id] = p.key]
    BY <1>4 DEF IssueCredential
  <2>2. UNCHANGED <<pointer, bundles, keys, sec, pc, arg, asked>>
    BY <1>4 DEF IssueCredential, storeVars, agentVars
  <2>3. p \in Request /\ Travels(p) /\ p.id \in Rotations /\ issued \in [Rotations -> Content]
    BY DEF TypeInv, TypeOK, ArgOK, Travels
  <2>4. \A q \in Request : Travels(q)' <=> Travels(q)
    BY <2>2 DEF Travels
  <2>5. \A r \in Rotations : issued'[r] = issued[r] \/ (r = p.id /\ issued'[r] = p.key)
    BY <2>1, <2>3
  <2>6. ASSUME NEW r \in Rotations, Whole(r)' PROVE HeldBundle(r)'
    <3>1. HeldBundle(r)
      BY <2>2, <2>6 DEF HeldInv, Whole
    <3> QED BY <2>2, <2>3, <2>4, <2>5, <3>1 DEF HeldBundle, Older
  <2>7. \A r \in Rotations : Older(r, keys[r] + 1)'
    BY <2>2, <2>3, <2>4, <2>5 DEF HeldInv, Older
  <2>8. HeldWork'
    <3>1. sec.at = "cert" => sec.id \in Rotations /\ sec.id # p.id
      BY <2>1 DEF TypeInv, SectionOK, CutoverStep, ApplyStep, HeldInv, HeldWork
    <3> QED BY <2>2, <2>5, <3>1 DEF HeldInv, HeldWork
  <2> QED BY <2>2, <2>6, <2>7, <2>8 DEF HeldInv
<1>5. CASE Expire \/ DiskFills \/ DiskFrees
  <2>1. UNCHANGED <<pointer, bundles, keys, sec, pc, arg, asked, issued>>
    BY <1>5 DEF Expire, DiskFills, DiskFrees, storeVars, agentVars, serverVars
  <2>2. \A q \in Request : Travels(q)' => Travels(q)
    BY <2>1 DEF Travels
  <2> QED BY <2>1, <2>2, QuietHeld DEF HeldInv, HeldWork, Whole
<1>6. CASE Crash
  <2>1. UNCHANGED <<pointer, bundles, keys, asked, issued>> /\ sec'.at = "free" /\ crashes' = crashes + 1
    BY <1>6 DEF Crash, storeVars, serverVars, FreeSection
  <2>2. sec.at # "discard"
    BY <1>0, <2>1 DEF UncutDiscard
  <2>3. \A q \in Request : Travels(q)' => Travels(q)
    BY <1>6, <2>1 DEF Crash, Travels, Goroutine
  <2> QED BY <2>1, <2>2, <2>3, QuietHeld DEF HeldWork, Whole
<1> QED BY <1>1, <1>2, <1>3, <1>4, <1>5, <1>6 DEF Environment

(* The active certificate belongs to the active private key through any    *)
(* number of disk outages, rotations and crashes, as long as no crash cuts *)
(* the discard of a bundle short.  (Two outages and one crash inside a     *)
(* discard are enough to break it: the id stays pending, its bundle has    *)
(* lost the CSR and kept the signed key, the certificate is installed, and *)
(* the next request replaces the key of the bundle the pointer names.)     *)
THEOREM KeysMatchThroughOutages == Spec /\ [][UncutDiscard]_vars => []ActiveKeyMatches
<1>1. TypeInv /\ HeldInv /\ [Next]_vars /\ [UncutDiscard]_vars => HeldInv'
  <2> SUFFICES ASSUME TypeInv, HeldInv, [Next]_vars, [UncutDiscard]_vars PROVE HeldInv'
    OBVIOUS
  <2>1. CASE UNCHANGED vars
    <3>1. UNCHANGED <<pointer, bundles, keys, sec, pc, arg, asked, issued>>
      BY <2>1 DEF vars, storeVars, agentVars, serverVars
    <3>2. \A q \in Request : Travels(q)' => Travels(q)
      BY <3>1 DEF Travels
    <3> QED BY <3>1, <3>2, QuietHeld DEF HeldInv, HeldWork, Whole
  <2>2. CASE Next /\ UncutDiscard
    BY <2>2, SectionStepHeld, ReturnHeld, CallHeld, RestHeld DEF Next
  <2> QED BY <2>1, <2>2
<1>2. TypeInv /\ StoreInv /\ HeldInv => ActiveKeyMatches
  BY HeldTypes DEF StoreInv, ActiveBundleComplete, CompleteBundle, HeldInv, Whole, HeldBundle, ActiveKeyMatches
<1> QED BY <1>1, <1>2, InitHeld, StoreInvariant, PTL DEF Spec

(* So without crashes it holds whatever the disk does. *)
THEOREM KeysMatchWithoutCrashes ==
    ASSUME MaxCrashes = 0
    PROVE  Spec => []ActiveKeyMatches
<1>1. TypeInv /\ TypeInv' => UncutDiscard
  BY DEF TypeInv, TypeOK, UncutDiscard
<1> QED BY <1>1, KeysMatchThroughOutages, StoreInvariant, PTL

=============================================================================
