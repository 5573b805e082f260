------------------------------ MODULE CertStore ------------------------------
(***************************************************************************)
(* The certificate store of the agent (internal/certs/store.go): a         *)
(* directory with one bundle directory per rotation request and one        *)
(* pointer file, current-credentials, naming the bundle in use.            *)
(*                                                                         *)
(* Abstractions.  A file's content is the number of the key it was made    *)
(* for (0: no such file), so "the certificate matches the key" is an       *)
(* equality.  The file system either accepts writes or, while the disk is  *)
(* full or read-only, refuses all of them; a removal always succeeds,      *)
(* which is what a full disk does.  atomicWrite's temporary file and       *)
(* rename make one write one step: a reader or a crash sees the old file   *)
(* or the new one.  PEM, X.509 chains and validity dates are not modelled. *)
(***************************************************************************)
EXTENDS Naturals

CONSTANTS
    Rotations,   \* rotation request ids, which are also bundle names
    Enrolled,    \* the name of the bundle written by enrollment
    Legacy,      \* "no pointer file": the three-file installation
    MaxKeys      \* bound: keys generated per rotation id

ASSUME StoreConstants ==
    /\ Enrolled \notin Rotations
    /\ Legacy \notin Rotations
    /\ Enrolled # Legacy
    /\ MaxKeys \in Nat \ {0}

VARIABLES
    pointer,     \* content of the current-credentials file
    bundles,     \* files of each rotation's bundle directory
    writable     \* FALSE while every write fails

storeVars == <<pointer, bundles, writable>>

File == {"key", "csr", "cert", "ca"}
Pointers == Rotations \cup {Enrolled, Legacy}
Content == 0 .. MaxKeys

StoreTypeOK ==
    /\ pointer \in Pointers
    /\ bundles \in [Rotations -> [File -> Content]]
    /\ writable \in BOOLEAN

StoreInit ==
    /\ pointer \in {Enrolled, Legacy}
    /\ bundles = [r \in Rotations |-> [f \in File |-> 0]]
    /\ writable = TRUE

-----------------------------------------------------------------------------
(* Reading the store *)

CompleteBundle(r) == \A f \in {"cert", "key", "ca"} : bundles[r][f] # 0

(* ActivePaths: the credential the pointer selects; the enrollment bundle, *)
(* the legacy files and the fallback for an incomplete bundle are the      *)
(* credential the agent was enrolled with.                                 *)
ActiveCredential ==
    IF pointer \in Rotations /\ CompleteBundle(pointer) THEN pointer ELSE Enrolled

HasCSR_Never(r) == FALSE

(* PrepareRotation reuses a request whose CSR file can be read. *)
HasCSR(r) == bundles[r]["csr"] # 0

(* StageRotation's validateBundle: the key of the request can be read and  *)
(* the certificate the server made, for key number k, belongs to it.       *)
CertificateFits_Any(r, k) == bundles[r]["key"] # 0

CertificateFits(r, k) == bundles[r]["key"] # 0 /\ bundles[r]["key"] = k

-----------------------------------------------------------------------------
(* Writing the store.  Each operator is one disk operation; OK is its      *)
(* outcome.                                                                *)

WriteFile(r, f, content) ==
    /\ bundles' = IF writable THEN [bundles EXCEPT ![r][f] = content] ELSE bundles
    /\ UNCHANGED pointer

(* ActivateRotation after its completeness test. *)
WritePointer(r) ==
    /\ pointer' = IF writable THEN r ELSE pointer
    /\ UNCHANGED bundles

(* Rollback: a legacy installation removes the pointer file, which needs no *)
(* space; any other rewrites the previous name.                             *)
RollbackWorks(previous) == previous = Legacy \/ writable

Rollback(previous) ==
    /\ pointer' = IF RollbackWorks(previous) THEN previous ELSE pointer
    /\ UNCHANGED bundles

(* DiscardRotation refuses the active bundle ... *)
MayDiscard_Any(r) == TRUE

MayDiscard(r) == pointer # r

(* ... and os.RemoveAll unlinks the files one by one, in directory order. *)
RemoveFile(r, f) ==
    /\ bundles[r][f] # 0
    /\ bundles' = [bundles EXCEPT ![r][f] = 0]
    /\ UNCHANGED pointer

Emptied(r) == \A f \in File : bundles[r][f] = 0
=============================================================================
