----------------------------- MODULE AtomicStore -----------------------------
(***************************************************************************)
(* xc_store_atomic_write (store.c:53-115) with the configuration of the     *)
(* sidecar as its file: a temporary file is written, synced and renamed     *)
(* over the old one, and the directory is synced.  "disk" holds what a loss *)
(* of power now could leave of the file; "torn" is a part of a write.       *)
(***************************************************************************)

VARIABLES
    temp,   \* the temporary file: "none", "written" or "synced"
    file,   \* what the file says: "token" or "blank"
    disk    \* what may be left of it after a loss of power

storeVars == <<temp, file, disk>>

StoreInit == temp = "none" /\ file \in {"token", "blank"} /\ disk = {file}

\* openat with O_EXCL and the write loop.
WriteTemp == temp = "none" /\ temp' = "written" /\ UNCHANGED <<file, disk>>

\* Mutant: the file is not synced before it takes the other one's place.
SyncTempSkipped == temp = "written" /\ UNCHANGED storeVars

SyncTemp == temp = "written" /\ temp' = "synced" /\ UNCHANGED <<file, disk>>

\* The rename is seen at once and is on the disk sooner or later.
Rename(content) ==
    /\ temp' = "none"
    /\ file' = content
    /\ disk' = disk \cup {content} \cup (IF temp = "synced" THEN {} ELSE {"torn"})

\* The directory is synced: XC_STORE_COMMITTED_DURABLE.
SyncDirectory == disk' = {file} /\ UNCHANGED <<temp, file>>

\* XC_STORE_FAILED before the rename: the temporary file is removed.
Abandon == temp' = "none" /\ UNCHANGED <<file, disk>>
=============================================================================
