---------------------------- MODULE SecretStore ----------------------------
(***************************************************************************)
(* crates/agent/src/secret_store.rs: one secret (service, account) of the  *)
(* daemon, on the three platforms.  On Linux it is a private file replaced *)
(* by rename, on macOS a keychain item: one cell.  On Windows it is an     *)
(* encrypted file, whose key is a Credential Manager entry named after the *)
(* identity of the secrets directory, and an earlier version may have left *)
(* the secret itself in Credential Manager (the legacy value).  Threads    *)
(* and a second daemon instance (Procs) use the same directory, under an   *)
(* advisory lock that the operating system releases when a process dies.   *)
(***************************************************************************)
EXTENDS FiniteSets

CONSTANTS Procs,   \* threads and processes that use one state directory
          Vals,    \* secrets
          Keys     \* random file keys

\* Keys never repeat, so one more than the file's and the entry's is enough.
ASSUME KeysDistinct == {"missing", "malformed", "none"} \cap Keys = {}
ASSUME ValsDistinct == {"absent", "unreadable", "none", "ok", "error"} \cap Vals = {}

Absent == "absent"
Unreadable == "unreadable"
NoFile == [key |-> "none", val |-> Absent]
Files == {NoFile} \cup [key : Keys \cup {"none"}, val : Vals]
Ops == [kind : {"get", "delete"}, arg : {Absent}] \cup [kind : {"set"}, arg : Vals]
Results == Vals \cup {Absent, Unreadable, "none", "ok", "error"}

VARIABLES windows,  \* the platform keeps secrets in envelopes
          file,     \* the entry: sealed with a key, or (not on Windows) plain
          hasId,    \* .store-id exists and is well formed
          fkey,     \* the Credential Manager entry under that identity
          legacy,   \* the secret's own Credential Manager entry
          writer,   \* processes that hold the lock exclusively
          readers,  \* processes that hold it shared
          pc,       \* per process: where its call is
          op,       \* per process: the call
          sealed,   \* per process: the file a read has loaded
          held,     \* per process: the key a write seals with
          ret       \* per process: what the last call returned

store == <<file, hasId, fkey, legacy>>
vars == <<windows, store, writer, readers, pc, op, sealed, held, ret>>

Labels == {"idle", "lock", "direct", "read_sealed", "read_key", "store_id", "key",
           "remove_file", "new_key", "write_sealed", "clean", "del_legacy", "del_file",
           "del_key", "done"}

\* The entry on disk, its key and the calls under way have their types.
TypeOK ==
  /\ windows \in BOOLEAN
  /\ file \in Files
  /\ hasId \in BOOLEAN
  /\ fkey \in Keys \cup {"missing", "malformed"}
  /\ legacy \in Vals \cup {Absent}
  /\ writer \in SUBSET Procs /\ readers \in SUBSET Procs
  /\ pc \in [Procs -> Labels]
  /\ op \in [Procs -> Ops]
  /\ sealed \in [Procs -> Files]
  /\ held \in [Procs -> Keys \cup {"none"}]
  /\ ret \in [Procs -> Results]

\* An installation: plain storage, empty or not; or Windows, new or upgraded
\* from the version that stored the secret in Credential Manager.
Init ==
  /\ windows \in BOOLEAN
  /\ \E v \in Vals \cup {Absent} :
       /\ legacy = IF windows THEN v ELSE Absent
       /\ file = IF windows \/ v = Absent THEN NoFile ELSE [key |-> "none", val |-> v]
  /\ hasId = FALSE /\ fkey = "missing"
  /\ writer = {} /\ readers = {}
  /\ pc = [p \in Procs |-> "idle"]
  /\ op = [p \in Procs |-> [kind |-> "get", arg |-> Absent]]
  /\ sealed = [p \in Procs |-> NoFile]
  /\ held = [p \in Procs |-> "none"]
  /\ ret = [p \in Procs |-> "none"]

(***************************************************************************)
(* Reading: what a stored key is, and what opening a file with it gives.   *)
(***************************************************************************)

read_key(id, k) == IF id THEN k ELSE "missing"

Opened(f, k) ==
  CASE k = "missing" -> Absent
    [] k = "malformed" -> Unreadable
    [] k \notin {"missing", "malformed"} -> IF k = f.key THEN f.val ELSE Unreadable

\* What a read of this state returns.
Visible(w, f, id, k, l) ==
  IF ~w THEN f.val
  ELSE IF f = NoFile THEN l ELSE Opened(f, read_key(id, k))

(***************************************************************************)
(* Steps common to the calls.                                              *)
(***************************************************************************)

Goto(p, l) == pc' = [pc EXCEPT ![p] = l]

\* A sibling temporary file renamed over the entry: it changes at once or,
\* when a step before the rename fails, not at all.
atomic_write(f) == file' = f

Invoke(p) ==
  /\ pc[p] = "idle"
  /\ \E o \in Ops : op' = [op EXCEPT ![p] = o]
  /\ ret' = [ret EXCEPT ![p] = "none"]
  /\ Goto(p, IF windows THEN "lock" ELSE "direct")
  /\ UNCHANGED <<windows, store, writer, readers, sealed, held>>

\* Returning drops the lock file.
Finish(p, r) ==
  /\ pc' = [pc EXCEPT ![p] = "idle"]
  /\ ret' = [ret EXCEPT ![p] = r]
  /\ writer' = writer \ {p} /\ readers' = readers \ {p}
  /\ sealed' = [sealed EXCEPT ![p] = NoFile]
  /\ held' = [held EXCEPT ![p] = "none"]
  /\ UNCHANGED <<windows, op>>

\* Every call into the file system or the credential store may fail.
Fails(p) ==
  /\ pc[p] \notin {"idle", "clean", "done"}
  /\ Finish(p, "error")
  /\ UNCHANGED store

\* Not Windows: the file (atomic_write, remove_file) or the keychain item.
DirectGet(p) ==
  /\ pc[p] = "direct" /\ op[p].kind = "get"
  /\ Finish(p, file.val)
  /\ UNCHANGED store

DirectWrite(p) ==
  /\ pc[p] = "direct" /\ op[p].kind \in {"set", "delete"}
  /\ IF op[p].kind = "set"
     THEN atomic_write([key |-> "none", val |-> op[p].arg])
     ELSE file' = NoFile
  /\ Goto(p, "done")
  /\ UNCHANGED <<windows, hasId, fkey, legacy, writer, readers, op, sealed, held, ret>>

\* Writes and deletes take the lock exclusively, reads shared.
lock_store(p) ==
  /\ pc[p] = "lock"
  /\ writer = {}
  /\ IF op[p].kind = "get"
     THEN /\ readers' = readers \cup {p} /\ UNCHANGED writer
          /\ Goto(p, "read_sealed")
     ELSE /\ readers = {}
          /\ writer' = {p} /\ UNCHANGED readers
          /\ Goto(p, IF op[p].kind = "set" THEN "store_id" ELSE "del_legacy")
  /\ UNCHANGED <<windows, store, op, sealed, held, ret>>

(***************************************************************************)
(* envelope::get                                                           *)
(***************************************************************************)

\* No file: the legacy value, or none at all.
read_sealed(p) ==
  /\ pc[p] = "read_sealed"
  /\ IF file = NoFile
     THEN /\ Finish(p, legacy)
     ELSE /\ sealed' = [sealed EXCEPT ![p] = file]
          /\ Goto(p, "read_key")
          /\ UNCHANGED <<windows, writer, readers, op, held, ret>>
  /\ UNCHANGED store

open(p) ==
  /\ pc[p] = "read_key"
  /\ Finish(p, Opened(sealed[p], read_key(hasId, fkey)))
  /\ UNCHANGED store

(***************************************************************************)
(* envelope::set                                                           *)
(***************************************************************************)

\* A new identity has no key entry yet.
create_store_id(p) ==
  /\ pc[p] = "store_id"
  /\ hasId' = TRUE
  /\ fkey' = read_key(hasId, fkey)
  /\ Goto(p, "key")
  /\ UNCHANGED <<windows, file, legacy, writer, readers, op, sealed, held, ret>>

read_stored_key(p) ==
  /\ pc[p] = "key"
  /\ IF fkey \in Keys
     THEN held' = [held EXCEPT ![p] = fkey] /\ Goto(p, "write_sealed")
     ELSE UNCHANGED held /\ Goto(p, "remove_file")
  /\ UNCHANGED <<windows, store, writer, readers, op, sealed, ret>>

\* Mutant of remove_file: the file that no key opens is left.
LeaveFile(p) ==
  /\ pc[p] = "remove_file"
  /\ Goto(p, "new_key")
  /\ UNCHANGED <<windows, store, writer, readers, op, sealed, held, ret>>

\* Nothing can open a file left from before, so it goes first.
remove_file(p) ==
  /\ pc[p] = "remove_file"
  /\ file' = NoFile
  /\ Goto(p, "new_key")
  /\ UNCHANGED <<windows, hasId, fkey, legacy, writer, readers, op, sealed, held, ret>>

new_key(p) ==
  /\ pc[p] = "new_key"
  /\ \E k \in Keys \ {file.key, fkey} :
       /\ fkey' = k
       /\ held' = [held EXCEPT ![p] = k]
  /\ Goto(p, "write_sealed")
  /\ UNCHANGED <<windows, file, hasId, legacy, writer, readers, op, sealed, ret>>

\* Only a first write looks for a legacy value to remove.
write_sealed(p) ==
  /\ pc[p] = "write_sealed"
  /\ atomic_write([key |-> held[p], val |-> op[p].arg])
  /\ Goto(p, IF file = NoFile THEN "clean" ELSE "done")
  /\ UNCHANGED <<windows, hasId, fkey, legacy, writer, readers, op, sealed, held, ret>>

\* A failure to remove it is only logged.
clean_legacy(p) ==
  /\ pc[p] = "clean"
  /\ legacy' \in {Absent, legacy}
  /\ Goto(p, "done")
  /\ UNCHANGED <<windows, file, hasId, fkey, writer, readers, op, sealed, held, ret>>

(***************************************************************************)
(* envelope::delete                                                        *)
(***************************************************************************)

\* Mutant of delete_legacy: a value that the file shadows is left.
DeleteLegacyUnlessShadowed(p) ==
  /\ pc[p] = "del_legacy"
  /\ legacy' = IF file = NoFile THEN Absent ELSE legacy
  /\ Goto(p, "del_file")
  /\ UNCHANGED <<windows, file, hasId, fkey, writer, readers, op, sealed, held, ret>>

delete_legacy(p) ==
  /\ pc[p] = "del_legacy"
  /\ legacy' = Absent
  /\ Goto(p, "del_file")
  /\ UNCHANGED <<windows, file, hasId, fkey, writer, readers, op, sealed, held, ret>>

delete_file(p) ==
  /\ pc[p] = "del_file"
  /\ file' = NoFile
  /\ Goto(p, "del_key")
  /\ UNCHANGED <<windows, hasId, fkey, legacy, writer, readers, op, sealed, held, ret>>

delete_key(p) ==
  /\ pc[p] = "del_key"
  /\ fkey' = IF hasId THEN "missing" ELSE fkey
  /\ Goto(p, "done")
  /\ UNCHANGED <<windows, file, hasId, legacy, writer, readers, op, sealed, held, ret>>

Return(p) ==
  /\ pc[p] = "done"
  /\ Finish(p, "ok")
  /\ UNCHANGED store

(***************************************************************************)
(* Faults.                                                                 *)
(***************************************************************************)

\* The process dies: its locks go with it.
Crash(p) ==
  /\ pc[p] # "idle"
  /\ Finish(p, ret[p])
  /\ UNCHANGED store

\* Between writes, Windows is reset or the directory restored: the credential
\* entries are gone, the key's entry is damaged, or the identity is.
Damage ==
  /\ windows /\ writer = {}
  /\ \/ fkey' = "missing" /\ legacy' = Absent /\ UNCHANGED hasId
     \/ fkey \in Keys /\ fkey' = "malformed" /\ UNCHANGED <<hasId, legacy>>
     \/ hasId /\ hasId' = FALSE /\ UNCHANGED <<fkey, legacy>>
  /\ UNCHANGED <<windows, file, writer, readers, pc, op, sealed, held, ret>>

Next ==
  \/ \E p \in Procs :
       \/ Invoke(p) \/ Fails(p) \/ Return(p) \/ Crash(p)
       \/ DirectGet(p) \/ DirectWrite(p)
       \/ lock_store(p) \/ read_sealed(p) \/ open(p)
       \/ create_store_id(p) \/ read_stored_key(p) \/ remove_file(p) \/ new_key(p)
       \/ write_sealed(p) \/ clean_legacy(p)
       \/ delete_legacy(p) \/ delete_file(p) \/ delete_key(p)
  \/ Damage

Spec == Init /\ [][Next]_vars

(***************************************************************************)
(* Properties.                                                             *)
(***************************************************************************)

\* A file never stands next to the wrong key: whenever the entry under the
\* identity holds a key, it is the one that opens the file (lock_store's
\* comment).  Two first writes, a write racing a delete, and a write that
\* stopped halfway are the ways to break it.
FileMatchesKey ==
  windows /\ hasId /\ fkey \in Keys /\ file # NoFile => file.key = fkey

\* What a read would return, and how far a call is: it is pending until the
\* step that changes what a read would return.
Value == Visible(windows, file, hasId, fkey, legacy)
StageOf(l) ==
  IF l = "idle" THEN "idle" ELSE IF l \in {"clean", "del_key", "done"} THEN "taken" ELSE "pending"
Stage == [p \in Procs |-> StageOf(pc[p])]

\* The refinement mapping.
Abs == INSTANCE AtomicStore WITH value <- Value, leftover <- legacy, st <- Stage

\* On every platform the store behaves as AtomicStore's one cell: a call that
\* returns success took effect, a read returns the current secret, a failed or
\* interrupted call leaves the old or the new secret, only the operating system
\* makes one unreadable, and an older copy never replaces a readable secret
\* (the reasons given for the order of the steps of envelope::set and delete).
Implements == Abs!Spec
=============================================================================
