----------------------------- MODULE LedgerFile -----------------------------
(***************************************************************************)
(* Pool::save taken apart (pool.rs): write a temporary file, rename it over  *)
(* the ledger.  Every caller changes the ledger and copies it under the      *)
(* pool's lock, then saves the copy without it; all of them (the two         *)
(* background tasks and each request handler that settles a share) use the   *)
(* same temporary file.  PoolLedger treats a save as one step.               *)
(*                                                                           *)
(* External part: the file system.  A path names a file; a file that was     *)
(* opened stays the same file when its path is renamed or replaced.          *)
(*                                                                           *)
(* The ledger is its version number: what is in it is PoolLedger's matter.   *)
(***************************************************************************)
EXTENDS Integers

CONSTANTS
  Saver,        \* tasks and handlers that save
  NoFile,       \* what a path names when there is no file
  Empty,        \* content of a file that nothing was written to yet
  Torn,         \* content of one that two writes of different lengths overlap in
  MaxVersion    \* bound: changes of the ledger

VARIABLES
  ledger,       \* PoolState.ledger
  tmp, disk,    \* what state_path with extension tmp, and state_path, name
  saver         \* what each call of save holds

vars == <<ledger, tmp, disk, saver>>

Idle == [at |-> "idle", copy |-> 0, fd |-> "none"]

\* The critical section: change, copy, unlock.
ChangeLedger(s) ==
  /\ saver[s].at = "idle"
  /\ ledger < MaxVersion
  /\ ledger' = ledger + 1
  /\ saver' = [saver EXCEPT ![s] = [at |-> "create", copy |-> ledger', fd |-> "none"]]
  /\ UNCHANGED <<tmp, disk>>

\* std::fs::write, first half: create the file or truncate the one there.
CreateTmp(s) ==
  /\ saver[s].at = "create"
  /\ tmp' = Empty
  /\ saver' = [saver EXCEPT ![s].at = "write", ![s].fd = "tmp"]
  /\ UNCHANGED <<ledger, disk>>

\* Writing over another call's text leaves a tail of it if that was longer.
AfterWrite(content, copy) == IF content = Empty THEN {copy} ELSE {copy, Torn}

\* std::fs::write, second half: the open file is the one tmp or disk names by
\* now, or none of them.
WriteTmp(s) ==
  /\ saver[s].at = "write"
  /\ saver' = [saver EXCEPT ![s].at = "rename", ![s].fd = "none"]
  /\ \/ /\ saver[s].fd = "tmp"
        /\ tmp' \in AfterWrite(tmp, saver[s].copy)
        /\ UNCHANGED disk
     \/ /\ saver[s].fd = "disk"
        /\ disk' \in AfterWrite(disk, saver[s].copy)
        /\ UNCHANGED tmp
     \/ /\ saver[s].fd = "replaced"
        /\ UNCHANGED <<tmp, disk>>
  /\ UNCHANGED ledger

FdAfterRename(fd) ==
  CASE fd = "tmp" -> "disk" [] fd = "disk" -> "replaced" [] OTHER -> fd

\* std::fs::rename.
RenameTmp(s) ==
  /\ saver[s].at = "rename"
  /\ tmp # NoFile
  /\ disk' = tmp
  /\ tmp' = NoFile
  /\ saver' = [u \in Saver |->
       IF u = s THEN Idle ELSE [saver[u] EXCEPT !.fd = FdAfterRename(@)]]
  /\ UNCHANGED ledger

\* Another call's rename took the file away: an error that is only logged.
RenameFails(s) ==
  /\ saver[s].at = "rename"
  /\ tmp = NoFile
  /\ saver' = [saver EXCEPT ![s] = Idle]
  /\ UNCHANGED <<ledger, tmp, disk>>

Init ==
  /\ ledger = 0
  /\ tmp = NoFile
  /\ disk = NoFile
  /\ saver = [s \in Saver |-> Idle]

Next ==
  \E s \in Saver :
    ChangeLedger(s) \/ CreateTmp(s) \/ WriteTmp(s) \/ RenameTmp(s) \/ RenameFails(s)

Spec == Init /\ [][Next]_vars

-----------------------------------------------------------------------------
(* Properties                                                                *)

\* pool.rs:177: the ledger is written to a temporary file and renamed "so an
\* interrupted write can never leave a half-written ledger behind": whenever the
\* process is interrupted, what state_path names is some whole copy.
LedgerFileIsWhole == disk \notin {Empty, Torn}
=============================================================================
