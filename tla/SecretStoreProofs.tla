------------------------- MODULE SecretStoreProofs -------------------------
(***************************************************************************)
(* Proofs about SecretStore, for any number of processes, secrets and      *)
(* keys: FileMatchesKey, and that the store implements AtomicStore.        *)
(***************************************************************************)
EXTENDS SecretStore, TLAPS

\* Where a call is while it holds the lock exclusively or shared, and which
\* calls get there.
Writing == {"store_id", "key", "remove_file", "new_key", "write_sealed", "clean", "del_legacy",
            "del_file", "del_key"}
Reading == {"read_sealed", "read_key"}
Setting == {"store_id", "key", "remove_file", "new_key", "write_sealed", "clean"}
Deleting == {"del_legacy", "del_file", "del_key"}

\* The lock: a writer is alone.
Exclusion ==
  /\ \A p \in Procs : pc[p] \in Writing => writer = {p}
  /\ \A p \in Procs : pc[p] \in Reading => p \in readers
  /\ writer # {} => readers = {}

\* The label of a call fits its kind and the platform.
Kinds ==
  \A p \in Procs :
    /\ pc[p] \in Setting => op[p].kind = "set"
    /\ pc[p] \in Deleting => op[p].kind = "delete"
    /\ pc[p] \in Reading => op[p].kind = "get"
    /\ pc[p] = "done" => op[p].kind \in {"set", "delete"}
    /\ pc[p] = "direct" => ~windows
    /\ pc[p] \in Writing \cup Reading \cup {"lock"} => windows

\* What a call knows of the store between its steps.
Progress ==
  \A p \in Procs :
    /\ pc[p] \in {"key", "remove_file", "new_key", "write_sealed"} => hasId
    /\ pc[p] \in {"remove_file", "new_key"} => fkey \notin Keys
    /\ pc[p] = "new_key" => file = NoFile
    /\ pc[p] = "write_sealed" => fkey \in Keys /\ held[p] = fkey
    /\ pc[p] = "clean" => file # NoFile
    /\ pc[p] \in {"del_file", "del_key"} => legacy = Absent
    /\ pc[p] = "del_key" => file = NoFile
    /\ pc[p] = "read_key" => sealed[p] = file /\ file # NoFile

\* The forms of the entry on the two kinds of platform.
Form ==
  /\ ~windows => legacy = Absent
  /\ windows /\ file # NoFile => file.key \in Keys

\* The inductive invariant: without the lock (Exclusion) two writers could
\* disturb what each knows of the store (Progress), and with that the step
\* that seals a file with the stored key.
IInv == TypeOK /\ Exclusion /\ Kinds /\ Progress /\ Form /\ FileMatchesKey

-----------------------------------------------------------------------------
\* A new or upgraded installation satisfies the invariant.
LEMMA InitIInv == Init => IInv
<1> SUFFICES ASSUME Init PROVE IInv
  BY Zenon
<1>1. PICK v \in Vals \cup {Absent} :
        /\ legacy = IF windows THEN v ELSE Absent
        /\ file = IF windows \/ v = Absent THEN NoFile ELSE [key |-> "none", val |-> v]
  BY Zenon DEF Init
<1>2. file \in Files /\ legacy \in Vals \cup {Absent}
  BY <1>1, Zenon DEF Files
<1>3. TypeOK
  BY <1>2, Zenon DEF Init, TypeOK, Files, Ops, Labels, Results
<1>4. Form /\ FileMatchesKey
  BY <1>1, Zenon DEF Init, Form, FileMatchesKey
<1>5. Exclusion /\ Kinds /\ Progress
  BY Zenon DEF Init, Exclusion, Kinds, Progress, Writing, Reading, Setting, Deleting
<1> QED
  BY <1>3, <1>4, <1>5, Zenon DEF IInv

\* A writer is the only call with a label that Progress speaks of.
Known(p, l) ==
  /\ l \in {"key", "remove_file", "new_key", "write_sealed"} => hasId'
  /\ l \in {"remove_file", "new_key"} => fkey' \notin Keys
  /\ l = "new_key" => file' = NoFile
  /\ l = "write_sealed" => fkey' \in Keys /\ held'[p] = fkey'
  /\ l = "clean" => file' # NoFile
  /\ l \in {"del_file", "del_key"} => legacy' = Absent
  /\ l = "del_key" => file' = NoFile
  /\ l = "read_key" => sealed'[p] = file' /\ file' # NoFile

LEMMA WriterProgress ==
  ASSUME IInv, NEW q \in Procs, pc[q] \in Writing, NEW l, pc' = [pc EXCEPT ![q] = l], Known(q, l)
  PROVE  Progress'
<1>1. pc = [p \in Procs |-> pc[p]]
  BY Zenon DEF IInv, TypeOK
<1>2. pc'[q] = l /\ \A p \in Procs : p # q => pc'[p] = pc[p]
  BY <1>1, Zenon
<1>3. \A p \in Procs : p # q => pc[p] \notin Writing /\ pc[p] \notin Reading
  BY Zenon DEF IInv, Exclusion
<1>4. \A p \in Procs : p # q => Known(p, pc'[p])
  BY <1>2, <1>3, Zenon DEF Known, Writing, Reading
<1> QED
  BY <1>2, <1>4, Zenon DEF Progress, Known

\* Every step of a call, a fault or damage keeps it: one case per action.
LEMMA StepIInv == IInv /\ [Next]_vars => IInv'
<1> SUFFICES ASSUME IInv, [Next]_vars PROVE IInv'
  BY Zenon
<1> USE ValsDistinct, KeysDistinct
<1>1. ASSUME NEW q \in Procs, Invoke(q) PROVE IInv'
  <2>1. TypeOK'
    BY <1>1 DEF IInv, Invoke, Goto, store, TypeOK, Files, NoFile, Ops, Labels, Results, Absent,
       Unreadable
  <2>2. Exclusion'
    BY <1>1, Zenon DEF IInv, Invoke, Goto, store, Exclusion, Writing, Reading, TypeOK
  <2>3. Kinds'
    BY <1>1 DEF IInv, Invoke, Goto, store, Kinds, Writing, Reading, Setting, Deleting, TypeOK, Ops
  <2>4. Progress'
    BY <1>1 DEF IInv, Invoke, Goto, store, Progress, Exclusion, Kinds, Writing, Reading, TypeOK,
       NoFile
  <2>5. Form' /\ FileMatchesKey'
    BY <1>1, Zenon DEF IInv, Invoke, Goto, store, Form, FileMatchesKey, Progress, Kinds, TypeOK, NoFile,
       Writing, Reading
  <2> QED
    BY <2>1, <2>2, <2>3, <2>4, <2>5, Zenon DEF IInv
<1>2. ASSUME NEW q \in Procs, Fails(q) PROVE IInv'
  <2>1. TypeOK'
    BY <1>2, Zenon DEF IInv, Fails, Finish, store, TypeOK, Files, NoFile, Ops, Labels, Results, Absent,
       Unreadable
  <2>2. Exclusion'
    BY <1>2, Zenon DEF IInv, Fails, Finish, store, Exclusion, Writing, Reading, TypeOK
  <2>3. Kinds'
    BY <1>2, Zenon DEF IInv, Fails, Finish, store, Kinds, Writing, Reading, Setting, Deleting, TypeOK, Ops
  <2>4. Progress'
    BY <1>2 DEF IInv, Fails, Finish, store, Progress, Exclusion, Kinds, Writing, Reading, TypeOK,
       NoFile
  <2>5. Form' /\ FileMatchesKey'
    BY <1>2, Zenon DEF IInv, Fails, Finish, store, Form, FileMatchesKey, Progress, Kinds, TypeOK, NoFile,
       Writing, Reading
  <2> QED
    BY <2>1, <2>2, <2>3, <2>4, <2>5, Zenon DEF IInv
<1>3. ASSUME NEW q \in Procs, Return(q) PROVE IInv'
  <2>1. TypeOK'
    BY <1>3, Zenon DEF IInv, Return, Finish, store, TypeOK, Files, NoFile, Ops, Labels, Results, Absent,
       Unreadable
  <2>2. Exclusion'
    BY <1>3, Zenon DEF IInv, Return, Finish, store, Exclusion, Writing, Reading, TypeOK
  <2>3. Kinds'
    BY <1>3, Zenon DEF IInv, Return, Finish, store, Kinds, Writing, Reading, Setting, Deleting, TypeOK, Ops
  <2>4. Progress'
    BY <1>3 DEF IInv, Return, Finish, store, Progress, Exclusion, Kinds, Writing, Reading, TypeOK,
       NoFile
  <2>5. Form' /\ FileMatchesKey'
    BY <1>3, Zenon DEF IInv, Return, Finish, store, Form, FileMatchesKey, Progress, Kinds, TypeOK, NoFile,
       Writing, Reading
  <2> QED
    BY <2>1, <2>2, <2>3, <2>4, <2>5, Zenon DEF IInv
<1>4. ASSUME NEW q \in Procs, Crash(q) PROVE IInv'
  <2>1. TypeOK'
    BY <1>4, Zenon DEF IInv, Crash, Finish, store, TypeOK, Files, NoFile, Ops, Labels, Results, Absent,
       Unreadable
  <2>2. Exclusion'
    BY <1>4, Zenon DEF IInv, Crash, Finish, store, Exclusion, Writing, Reading, TypeOK
  <2>3. Kinds'
    BY <1>4, Zenon DEF IInv, Crash, Finish, store, Kinds, Writing, Reading, Setting, Deleting, TypeOK, Ops
  <2>4. Progress'
    BY <1>4 DEF IInv, Crash, Finish, store, Progress, Exclusion, Kinds, Writing, Reading, TypeOK,
       NoFile
  <2>5. Form' /\ FileMatchesKey'
    BY <1>4, Zenon DEF IInv, Crash, Finish, store, Form, FileMatchesKey, Progress, Kinds, TypeOK, NoFile,
       Writing, Reading
  <2> QED
    BY <2>1, <2>2, <2>3, <2>4, <2>5, Zenon DEF IInv
<1>5. ASSUME NEW q \in Procs, DirectGet(q) PROVE IInv'
  <2>1. TypeOK'
    BY <1>5 DEF IInv, DirectGet, Finish, store, TypeOK, Files, NoFile, Ops, Labels, Results,
       Absent, Unreadable
  <2>2. Exclusion'
    BY <1>5, Zenon DEF IInv, DirectGet, Finish, store, Exclusion, Writing, Reading, TypeOK
  <2>3. Kinds'
    BY <1>5, Zenon DEF IInv, DirectGet, Finish, store, Kinds, Writing, Reading, Setting, Deleting, TypeOK,
       Ops
  <2>4. Progress'
    BY <1>5 DEF IInv, DirectGet, Finish, store, Progress, Exclusion, Kinds, Writing, Reading,
       TypeOK, NoFile
  <2>5. Form' /\ FileMatchesKey'
    BY <1>5, Zenon DEF IInv, DirectGet, Finish, store, Form, FileMatchesKey, Progress, Kinds, TypeOK,
       NoFile, Writing, Reading
  <2> QED
    BY <2>1, <2>2, <2>3, <2>4, <2>5, Zenon DEF IInv
<1>6. ASSUME NEW q \in Procs, DirectWrite(q) PROVE IInv'
  <2>1. TypeOK'
    BY <1>6 DEF IInv, DirectWrite, Goto, atomic_write, store, TypeOK, Files, NoFile, Ops, Labels,
       Results, Absent, Unreadable
  <2>2. Exclusion'
    BY <1>6, Zenon DEF IInv, DirectWrite, Goto, atomic_write, store, Exclusion, Writing, Reading, TypeOK
  <2>3. Kinds'
    BY <1>6, Zenon DEF IInv, DirectWrite, Goto, atomic_write, store, Kinds, Writing, Reading, Setting,
       Deleting, TypeOK, Ops
  <2>4. Progress'
    BY <1>6 DEF IInv, DirectWrite, Goto, atomic_write, store, Progress, Exclusion, Kinds, Writing,
       Reading, TypeOK, NoFile
  <2>5. Form' /\ FileMatchesKey'
    BY <1>6, Zenon DEF IInv, DirectWrite, Goto, atomic_write, store, Form, FileMatchesKey, Progress,
       Kinds, TypeOK, NoFile, Writing, Reading
  <2> QED
    BY <2>1, <2>2, <2>3, <2>4, <2>5, Zenon DEF IInv
<1>7. ASSUME NEW q \in Procs, lock_store(q) PROVE IInv'
  <2>1. TypeOK'
    BY <1>7 DEF IInv, lock_store, Goto, store, TypeOK, Files, NoFile, Ops, Labels, Results, Absent,
       Unreadable
  <2>2. Exclusion'
    BY <1>7 DEF IInv, lock_store, Goto, store, Exclusion, Writing, Reading, TypeOK
  <2>3. Kinds'
    BY <1>7 DEF IInv, lock_store, Goto, store, Kinds, Writing, Reading, Setting, Deleting, TypeOK,
       Ops
  <2>4. Progress'
    BY <1>7 DEF IInv, lock_store, Goto, store, Progress, Exclusion, Kinds, Writing, Reading,
       TypeOK, NoFile
  <2>5. Form' /\ FileMatchesKey'
    BY <1>7, Zenon DEF IInv, lock_store, Goto, store, Form, FileMatchesKey, Progress, Kinds, TypeOK,
       NoFile, Writing, Reading
  <2> QED
    BY <2>1, <2>2, <2>3, <2>4, <2>5, Zenon DEF IInv
<1>8. ASSUME NEW q \in Procs, read_sealed(q) PROVE IInv'
  <2>1. TypeOK'
    BY <1>8, SMTT(30) DEF IInv, read_sealed, Finish, Goto, store, TypeOK, Files, NoFile, Ops, Labels,
       Results, Absent, Unreadable
  <2>2. Exclusion'
    BY <1>8 DEF IInv, read_sealed, Finish, Goto, store, Exclusion, Writing, Reading, TypeOK
  <2>3. Kinds'
    BY <1>8 DEF IInv, read_sealed, Finish, Goto, store, Kinds, Writing, Reading, Setting, Deleting,
       TypeOK, Ops
  <2>4. Progress'
    BY <1>8 DEF IInv, read_sealed, Finish, Goto, store, Progress, Exclusion, Kinds, Writing,
       Reading, TypeOK, NoFile
  <2>5. Form' /\ FileMatchesKey'
    BY <1>8, Zenon DEF IInv, read_sealed, Finish, Goto, store, Form, FileMatchesKey, Progress, Kinds,
       TypeOK, NoFile, Writing, Reading
  <2> QED
    BY <2>1, <2>2, <2>3, <2>4, <2>5, Zenon DEF IInv
<1>9. ASSUME NEW q \in Procs, open(q) PROVE IInv'
  <2>1. TypeOK'
    BY <1>9 DEF IInv, open, Finish, Opened, read_key, store, TypeOK, Files, NoFile, Ops, Labels,
       Results, Absent, Unreadable
  <2>2. Exclusion'
    BY <1>9, Zenon DEF IInv, open, Finish, Opened, read_key, store, Exclusion, Writing, Reading, TypeOK
  <2>3. Kinds'
    BY <1>9, Zenon DEF IInv, open, Finish, Opened, read_key, store, Kinds, Writing, Reading, Setting,
       Deleting, TypeOK, Ops
  <2>4. Progress'
    BY <1>9 DEF IInv, open, Finish, Opened, read_key, store, Progress, Exclusion, Kinds, Writing,
       Reading, TypeOK, NoFile
  <2>5. Form' /\ FileMatchesKey'
    BY <1>9, Zenon DEF IInv, open, Finish, Opened, read_key, store, Form, FileMatchesKey, Progress, Kinds,
       TypeOK, NoFile, Writing, Reading
  <2> QED
    BY <2>1, <2>2, <2>3, <2>4, <2>5, Zenon DEF IInv
<1>10. ASSUME NEW q \in Procs, create_store_id(q) PROVE IInv'
  <2>1. TypeOK'
    BY <1>10, Zenon DEF IInv, create_store_id, Goto, read_key, store, TypeOK, Files, NoFile, Ops, Labels,
       Results, Absent, Unreadable
  <2>2. Exclusion'
    BY <1>10, Zenon DEF IInv, create_store_id, Goto, read_key, store, Exclusion, Writing, Reading, TypeOK
  <2>3. Kinds'
    BY <1>10, Zenon DEF IInv, create_store_id, Goto, read_key, store, Kinds, Writing, Reading, Setting,
       Deleting, TypeOK, Ops
  <2>4. Progress'
    BY <1>10, Zenon DEF IInv, create_store_id, Goto, read_key, store, Progress, Exclusion, Kinds, Writing,
       Reading, TypeOK, NoFile
  <2>5. Form' /\ FileMatchesKey'
    BY <1>10, Zenon DEF IInv, create_store_id, Goto, read_key, store, Form, FileMatchesKey, Progress,
       Kinds, TypeOK, NoFile, Writing, Reading
  <2> QED
    BY <2>1, <2>2, <2>3, <2>4, <2>5, Zenon DEF IInv
<1>11. ASSUME NEW q \in Procs, read_stored_key(q) PROVE IInv'
  <2>1. TypeOK'
    BY <1>11 DEF IInv, read_stored_key, Goto, store, TypeOK, Files, NoFile, Ops, Labels, Results,
       Absent, Unreadable
  <2>2. Exclusion'
    BY <1>11 DEF IInv, read_stored_key, Goto, store, Exclusion, Writing, Reading, TypeOK
  <2>3. Kinds'
    BY <1>11 DEF IInv, read_stored_key, Goto, store, Kinds, Writing, Reading, Setting, Deleting,
       TypeOK, Ops
  <2>4. Progress'
    BY <1>11 DEF IInv, read_stored_key, Goto, store, Progress, Exclusion, Kinds, Writing, Reading,
       TypeOK, NoFile
  <2>5. Form' /\ FileMatchesKey'
    BY <1>11, Zenon DEF IInv, read_stored_key, Goto, store, Form, FileMatchesKey, Progress, Kinds, TypeOK,
       NoFile, Writing, Reading
  <2> QED
    BY <2>1, <2>2, <2>3, <2>4, <2>5, Zenon DEF IInv
<1>12. ASSUME NEW q \in Procs, remove_file(q) PROVE IInv'
  <2>1. TypeOK'
    BY <1>12, Zenon DEF IInv, remove_file, Goto, store, TypeOK, Files, NoFile, Ops, Labels, Results,
       Absent, Unreadable
  <2>2. Exclusion'
    BY <1>12, Zenon DEF IInv, remove_file, Goto, store, Exclusion, Writing, Reading, TypeOK
  <2>3. Kinds'
    BY <1>12, Zenon DEF IInv, remove_file, Goto, store, Kinds, Writing, Reading, Setting, Deleting,
       TypeOK, Ops
  <2>4. Progress'
    <3>1. pc[q] \in Writing /\ pc' = [pc EXCEPT ![q] = "new_key"] /\ Known(q, "new_key")
      BY <1>12, Zenon DEF IInv, Progress, remove_file, Goto, Writing, Known
    <3> QED
      BY <3>1, WriterProgress, Zenon
  <2>5. Form' /\ FileMatchesKey'
    BY <1>12, Zenon DEF IInv, remove_file, Goto, store, Form, FileMatchesKey, Progress, Kinds, TypeOK,
       NoFile, Writing, Reading
  <2> QED
    BY <2>1, <2>2, <2>3, <2>4, <2>5, Zenon DEF IInv
<1>13. ASSUME NEW q \in Procs, new_key(q) PROVE IInv'
  <2>1. TypeOK'
    BY <1>13 DEF IInv, new_key, Goto, store, TypeOK, Files, NoFile, Ops, Labels, Results, Absent,
       Unreadable
  <2>2. Exclusion'
    BY <1>13, Zenon DEF IInv, new_key, Goto, store, Exclusion, Writing, Reading, TypeOK
  <2>3. Kinds'
    BY <1>13, Zenon DEF IInv, new_key, Goto, store, Kinds, Writing, Reading, Setting, Deleting, TypeOK, Ops
  <2>4. Progress'
    <3>1. pc[q] \in Writing /\ pc' = [pc EXCEPT ![q] = "write_sealed"]
      BY <1>13, Zenon DEF new_key, Goto, Writing
    <3>2. hasId' /\ fkey' \in Keys /\ held'[q] = fkey'
      BY <1>13, Zenon DEF IInv, TypeOK, Progress, new_key
    <3>3. Known(q, "write_sealed")
      BY <3>2, Zenon DEF Known
    <3> QED
      BY <3>1, <3>3, WriterProgress, Zenon
  <2>5. Form' /\ FileMatchesKey'
    BY <1>13, Zenon DEF IInv, new_key, Goto, store, Form, FileMatchesKey, Progress, Kinds, TypeOK, NoFile,
       Writing, Reading
  <2> QED
    BY <2>1, <2>2, <2>3, <2>4, <2>5, Zenon DEF IInv
<1>14. ASSUME NEW q \in Procs, write_sealed(q) PROVE IInv'
  <2> held[q] \in Keys /\ op[q].arg \in Vals
    BY <1>14, Zenon DEF IInv, write_sealed, Progress, Kinds, Setting, TypeOK, Ops
  <2>1. TypeOK'
    BY <1>14, Zenon DEF IInv, write_sealed, Goto, atomic_write, TypeOK, Files, Labels
  <2>2. Exclusion'
    BY <1>14, Zenon DEF IInv, write_sealed, Goto, atomic_write, store, Exclusion, Writing, Reading, TypeOK
  <2>3. Kinds'
    BY <1>14, Zenon DEF IInv, write_sealed, Goto, atomic_write, store, Kinds, Writing, Reading, Setting,
       Deleting, TypeOK, Ops
  <2>4. Progress'
    <3>1. file' # NoFile
      BY <1>14 DEF write_sealed, atomic_write, NoFile
    <3>2. PICK l \in {"clean", "done"} : pc[q] \in Writing /\ pc' = [pc EXCEPT ![q] = l]
      BY <1>14, Zenon DEF write_sealed, Goto, Writing
    <3>3. Known(q, l)
      BY <3>1, Zenon DEF Known
    <3> QED
      BY <3>2, <3>3, WriterProgress, Zenon
  <2>5. Form' /\ FileMatchesKey'
    BY <1>14, Zenon DEF IInv, write_sealed, Goto, atomic_write, store, Form, FileMatchesKey, Progress,
       Kinds, TypeOK, NoFile, Writing, Reading
  <2> QED
    BY <2>1, <2>2, <2>3, <2>4, <2>5, Zenon DEF IInv
<1>15. ASSUME NEW q \in Procs, clean_legacy(q) PROVE IInv'
  <2>1. TypeOK'
    BY <1>15, Zenon DEF IInv, clean_legacy, Goto, store, TypeOK, Files, NoFile, Ops, Labels, Results,
       Absent, Unreadable
  <2>2. Exclusion'
    BY <1>15, Zenon DEF IInv, clean_legacy, Goto, store, Exclusion, Writing, Reading, TypeOK
  <2>3. Kinds'
    BY <1>15, Zenon DEF IInv, clean_legacy, Goto, store, Kinds, Writing, Reading, Setting, Deleting,
       TypeOK, Ops
  <2>4. Progress'
    BY <1>15, Zenon DEF IInv, clean_legacy, Goto, store, Progress, Exclusion, Kinds, Writing, Reading,
       TypeOK, NoFile
  <2>5. Form' /\ FileMatchesKey'
    BY <1>15, Zenon DEF IInv, clean_legacy, Goto, store, Form, FileMatchesKey, Progress, Kinds, TypeOK,
       NoFile, Writing, Reading
  <2> QED
    BY <2>1, <2>2, <2>3, <2>4, <2>5, Zenon DEF IInv
<1>16. ASSUME NEW q \in Procs, delete_legacy(q) PROVE IInv'
  <2>1. TypeOK'
    BY <1>16, Zenon DEF IInv, delete_legacy, Goto, store, TypeOK, Files, NoFile, Ops, Labels, Results,
       Absent, Unreadable
  <2>2. Exclusion'
    BY <1>16, Zenon DEF IInv, delete_legacy, Goto, store, Exclusion, Writing, Reading, TypeOK
  <2>3. Kinds'
    BY <1>16, Zenon DEF IInv, delete_legacy, Goto, store, Kinds, Writing, Reading, Setting, Deleting,
       TypeOK, Ops
  <2>4. Progress'
    BY <1>16, Zenon DEF IInv, delete_legacy, Goto, store, Progress, Exclusion, Kinds, Writing, Reading,
       TypeOK, NoFile
  <2>5. Form' /\ FileMatchesKey'
    BY <1>16, Zenon DEF IInv, delete_legacy, Goto, store, Form, FileMatchesKey, Progress, Kinds, TypeOK,
       NoFile, Writing, Reading
  <2> QED
    BY <2>1, <2>2, <2>3, <2>4, <2>5, Zenon DEF IInv
<1>17. ASSUME NEW q \in Procs, delete_file(q) PROVE IInv'
  <2>1. TypeOK'
    BY <1>17, Zenon DEF IInv, delete_file, Goto, store, TypeOK, Files, NoFile, Ops, Labels, Results,
       Absent, Unreadable
  <2>2. Exclusion'
    BY <1>17, Zenon DEF IInv, delete_file, Goto, store, Exclusion, Writing, Reading, TypeOK
  <2>3. Kinds'
    BY <1>17, Zenon DEF IInv, delete_file, Goto, store, Kinds, Writing, Reading, Setting, Deleting,
       TypeOK, Ops
  <2>4. Progress'
    BY <1>17 DEF IInv, delete_file, Goto, store, Progress, Exclusion, Kinds, Writing, Reading,
       TypeOK, NoFile
  <2>5. Form' /\ FileMatchesKey'
    BY <1>17, Zenon DEF IInv, delete_file, Goto, store, Form, FileMatchesKey, Progress, Kinds, TypeOK,
       NoFile, Writing, Reading
  <2> QED
    BY <2>1, <2>2, <2>3, <2>4, <2>5, Zenon DEF IInv
<1>18. ASSUME NEW q \in Procs, delete_key(q) PROVE IInv'
  <2>1. TypeOK'
    BY <1>18, Zenon DEF IInv, delete_key, Goto, store, TypeOK, Files, NoFile, Ops, Labels, Results,
       Absent, Unreadable
  <2>2. Exclusion'
    BY <1>18, Zenon DEF IInv, delete_key, Goto, store, Exclusion, Writing, Reading, TypeOK
  <2>3. Kinds'
    BY <1>18, Zenon DEF IInv, delete_key, Goto, store, Kinds, Writing, Reading, Setting, Deleting, TypeOK,
       Ops
  <2>4. Progress'
    BY <1>18 DEF IInv, delete_key, Goto, store, Progress, Exclusion, Kinds, Writing, Reading,
       TypeOK, NoFile
  <2>5. Form' /\ FileMatchesKey'
    BY <1>18, Zenon DEF IInv, delete_key, Goto, store, Form, FileMatchesKey, Progress, Kinds, TypeOK,
       NoFile, Writing, Reading
  <2> QED
    BY <2>1, <2>2, <2>3, <2>4, <2>5, Zenon DEF IInv
<1>19. CASE Damage
  <2>1. TypeOK'
    BY <1>19, Zenon DEF IInv, Damage, store, TypeOK, Absent
  <2>2. Exclusion'
    BY <1>19, Zenon DEF IInv, Damage, store, Exclusion, Writing, Reading, TypeOK
  <2>3. Kinds'
    BY <1>19, Zenon DEF IInv, Damage, store, Kinds
  <2>4. Progress'
    BY <1>19, Zenon DEF IInv, Damage, store, Progress, Exclusion, Writing
  <2>5. Form' /\ FileMatchesKey'
    BY <1>19, Zenon DEF IInv, Damage, store, Form, FileMatchesKey, Absent
  <2> QED
    BY <2>1, <2>2, <2>3, <2>4, <2>5, Zenon DEF IInv
<1>20. CASE UNCHANGED vars
  BY <1>20 DEF IInv, vars, store, TypeOK, Exclusion, Kinds, Progress, Form, FileMatchesKey
<1> QED
  BY <1>1, <1>2, <1>3, <1>4, <1>5, <1>6, <1>7, <1>8, <1>9, <1>10, <1>11, <1>12, <1>13, <1>14,
     <1>15, <1>16, <1>17, <1>18, <1>19, <1>20, Zenon DEF Next

(* The lock file, the order of the writes and the removal of a file that   *)
(* no key opens keep file and key together, for any number of processes.   *)
THEOREM KeyOpensFile == Spec => []FileMatchesKey
<1>1. IInv => FileMatchesKey
  BY Zenon DEF IInv
<1> QED
  BY <1>1, InitIInv, StepIInv, PTL DEF Spec

-----------------------------------------------------------------------------
\* A step to another label moves the stage of that call alone.
LEMMA StageMoves ==
  ASSUME TypeOK, NEW q \in Procs, NEW l, pc' = [pc EXCEPT ![q] = l]
  PROVE  Stage' = [Stage EXCEPT ![q] = StageOf(l)] /\ Stage[q] = StageOf(pc[q])
BY Zenon DEF TypeOK, Stage

\* A step to a label of the same stage does not show.
LEMMA StageStays ==
  ASSUME TypeOK, NEW q \in Procs, NEW l, pc' = [pc EXCEPT ![q] = l], StageOf(l) = StageOf(pc[q])
  PROVE  Stage' = Stage
BY Zenon DEF TypeOK, Stage

\* The initial states map to initial states of the cell.
LEMMA InitRefines == Init => Abs!Init
<1> SUFFICES ASSUME Init PROVE Abs!Init
  BY Zenon
<1>1. Value \in Vals \cup {Absent} /\ legacy \in {Absent, Value}
  BY DEF Init, Value, Visible, NoFile, Absent
<1>2. Stage = [p \in Procs |-> "idle"]
  BY Zenon DEF Init, Stage, StageOf
<1> QED
  BY <1>1, <1>2, Zenon DEF Init, Abs!Init, Abs!Absent, Absent

\* Each step of the store is a step of the cell or leaves it alone.
LEMMA StepRefines == IInv /\ [Next]_vars => [Abs!Next]_(Abs!vars)
<1> SUFFICES ASSUME IInv, [Next]_vars PROVE [Abs!Next]_(Abs!vars)
  BY Zenon
<1> USE ValsDistinct, KeysDistinct
<1> TypeOK
  BY Zenon DEF IInv
<1>0. ASSUME UNCHANGED store, UNCHANGED windows PROVE Value' = Value /\ legacy' = legacy
  BY <1>0, Zenon DEF store, Value
<1>1. ASSUME NEW q \in Procs, Invoke(q) PROVE Abs!Invoke(q)
  <2>1. Stage' = [Stage EXCEPT ![q] = "pending"] /\ Stage[q] = "idle"
    <3>1. PICK l \in {"lock", "direct"} : pc' = [pc EXCEPT ![q] = l]
      BY <1>1, Zenon DEF Invoke, Goto
    <3>2. StageOf(l) = "pending" /\ StageOf(pc[q]) = "idle"
      BY <1>1, Zenon DEF Invoke, StageOf
    <3> QED
      BY <3>1, <3>2, StageMoves, Zenon
  <2> QED
    BY <1>0, <1>1, <2>1, Zenon DEF Invoke, Abs!Invoke, Abs!Ops, Ops, Abs!Absent, Absent
<1>2. ASSUME NEW q \in Procs, Fails(q) PROVE Abs!Return(q)
  <2>1. Stage' = [Stage EXCEPT ![q] = "idle"] /\ Stage[q] # "idle"
    BY <1>2, StageMoves, Zenon DEF Fails, Finish, StageOf
  <2> QED
    BY <1>0, <1>2, <2>1, Zenon DEF Fails, Finish, Abs!Return
<1>3. ASSUME NEW q \in Procs, Return(q) PROVE Abs!Return(q)
  <2>1. Stage' = [Stage EXCEPT ![q] = "idle"] /\ Stage[q] = "taken"
    BY <1>3, StageMoves, Zenon DEF Return, Finish, StageOf
  <2> QED
    BY <1>0, <1>3, <2>1, Zenon DEF Return, Finish, Abs!Return
<1>4. ASSUME NEW q \in Procs, Crash(q) PROVE Abs!Crash(q)
  <2>1. Stage' = [Stage EXCEPT ![q] = "idle"] /\ Stage[q] # "idle"
    BY <1>4, StageMoves, Zenon DEF Crash, Finish, StageOf
  <2>2. ret' = ret
    BY <1>4, Zenon DEF Crash, Finish, TypeOK
  <2> QED
    BY <1>0, <1>4, <2>1, <2>2, Zenon DEF Crash, Finish, Abs!Crash
\* A read returns what the cell holds.
<1>5. ASSUME NEW q \in Procs, pc[q] \in {"direct", "read_sealed", "read_key"}, op[q].kind = "get",
             Finish(q, Value), UNCHANGED store
      PROVE  Abs!Read(q)
  <2>1. Stage' = [Stage EXCEPT ![q] = "idle"] /\ Stage[q] = "pending"
    BY <1>5, StageMoves, Zenon DEF Finish, StageOf
  <2> QED
    BY <1>0, <1>5, <2>1, Zenon DEF Finish, Abs!Read
<1>6. ASSUME NEW q \in Procs, DirectGet(q) PROVE Abs!Read(q)
  <2>1. Value = file.val
    BY <1>6, Zenon DEF DirectGet, IInv, Kinds, Value, Visible
  <2> QED
    BY <1>5, <1>6, <2>1, Zenon DEF DirectGet
<1>7. ASSUME NEW q \in Procs, read_sealed(q) PROVE Abs!Read(q) \/ UNCHANGED Abs!vars
  <2>1. CASE file = NoFile
    <3>1. Value = legacy /\ op[q].kind = "get"
      BY <1>7, <2>1, Zenon DEF read_sealed, IInv, Kinds, Reading, Value, Visible
    <3> QED
      BY <1>5, <1>7, <2>1, <3>1, Zenon DEF read_sealed
  <2>2. CASE file # NoFile
    <3>1. Stage' = Stage
      BY <1>7, <2>2, StageStays, Zenon DEF read_sealed, Goto, StageOf
    <3> QED
      BY <1>0, <1>7, <2>2, <3>1, Zenon DEF read_sealed, Abs!vars
  <2> QED
    BY <2>1, <2>2, Zenon
<1>8. ASSUME NEW q \in Procs, open(q) PROVE Abs!Read(q)
  <2>1. Value = Opened(sealed[q], read_key(hasId, fkey)) /\ op[q].kind = "get"
    BY <1>8, Zenon DEF open, IInv, Kinds, Progress, Reading, Value, Visible
  <2> QED
    BY <1>5, <1>8, <2>1, Zenon DEF open
\* A write or a delete takes effect.
<1>9. ASSUME NEW q \in Procs, DirectWrite(q) PROVE Abs!Take(q)
  <2>1. Stage' = [Stage EXCEPT ![q] = "taken"] /\ Stage[q] = "pending"
    BY <1>9, StageMoves, Zenon DEF DirectWrite, Goto, StageOf
  <2>2. ~windows /\ ~windows' /\ legacy = Absent /\ legacy' = Absent
    BY <1>9, Zenon DEF DirectWrite, IInv, Kinds, Form
  <2>3. Value' = op[q].arg
    BY <1>9, <2>2 DEF DirectWrite, atomic_write, TypeOK, Ops, NoFile, Value, Visible
  <2> QED
    BY <1>9, <2>1, <2>2, <2>3, Zenon DEF DirectWrite, Abs!Take, Abs!Absent, Absent
<1>10. ASSUME NEW q \in Procs, write_sealed(q) PROVE Abs!Take(q)
  <2>1. Stage' = [Stage EXCEPT ![q] = "taken"] /\ Stage[q] = "pending"
    BY <1>10, StageMoves, Zenon DEF write_sealed, Goto, StageOf
  <2>2. /\ op[q].kind = "set" /\ op[q].arg \in Vals /\ windows' /\ hasId'
        /\ fkey' \in Keys /\ file' = [key |-> fkey', val |-> op[q].arg]
    BY <1>10, Zenon DEF write_sealed, atomic_write, IInv, Kinds, Progress, Setting, Writing, TypeOK, Ops
  <2>3. file' # NoFile
    BY <2>2, Zenon DEF NoFile, Absent
  <2>4. Value' = op[q].arg
    BY <2>2, <2>3, Zenon DEF Value, Visible, Opened, read_key
  <2> QED
    BY <1>10, <2>1, <2>2, <2>4, Zenon DEF write_sealed, Abs!Take
<1>11. ASSUME NEW q \in Procs, delete_file(q) PROVE Abs!Take(q)
  <2>1. Stage' = [Stage EXCEPT ![q] = "taken"] /\ Stage[q] = "pending"
    BY <1>11, StageMoves, Zenon DEF delete_file, Goto, StageOf
  <2>2. op[q].kind = "delete" /\ op[q].arg = Absent /\ windows' /\ legacy' = Absent
    BY <1>11, Zenon DEF delete_file, IInv, Kinds, Progress, Deleting, Writing, TypeOK, Ops
  <2>3. Value' = Absent
    BY <1>11, <2>2, Zenon DEF delete_file, Value, Visible
  <2> QED
    BY <1>11, <2>1, <2>2, <2>3, Zenon DEF delete_file, Abs!Take, Abs!Absent, Absent
\* The older copy goes, or shows where a lost secret was.
<1>12. ASSUME NEW q \in Procs, clean_legacy(q) PROVE Abs!Clean(q) \/ UNCHANGED Abs!vars
  <2>1. Stage' = Stage /\ Stage[q] = "taken"
    BY <1>12, StageMoves, StageStays, Zenon DEF clean_legacy, Goto, StageOf
  <2>2. Value' = Value /\ op[q].kind = "set"
    BY <1>12, Zenon DEF clean_legacy, IInv, Kinds, Progress, Setting, Writing, Value, Visible
  <2> QED
    BY <1>12, <2>1, <2>2, Zenon DEF clean_legacy, Abs!Clean, Abs!vars, Abs!Absent, Absent
<1>13. ASSUME NEW q \in Procs, delete_legacy(q) PROVE Abs!Clean(q)
  <2>1. Stage' = Stage /\ Stage[q] = "pending"
    BY <1>13, StageMoves, StageStays, Zenon DEF delete_legacy, Goto, StageOf
  <2>2. Value' \in {Value, Absent} /\ op[q].kind = "delete"
    BY <1>13, Zenon DEF delete_legacy, IInv, Kinds, Deleting, Writing, Value, Visible
  <2> QED
    BY <1>13, <2>1, <2>2, Zenon DEF delete_legacy, Abs!Clean, Abs!Absent, Absent
<1>14. ASSUME NEW q \in Procs, remove_file(q) PROVE Abs!Uncover(q) \/ UNCHANGED Abs!vars
  <2>1. Stage' = Stage /\ Stage[q] = "pending"
    BY <1>14, StageMoves, StageStays, Zenon DEF remove_file, Goto, StageOf
  <2>2. windows /\ hasId /\ fkey \in {"missing", "malformed"} /\ op[q].kind = "set"
    BY <1>14, Zenon DEF remove_file, IInv, Kinds, Progress, Setting, Writing, TypeOK
  <2>3. Value' = legacy
    BY <1>14, <2>2, Zenon DEF remove_file, Value, Visible
  <2>4. CASE file = NoFile
    BY <1>14, <2>1, <2>2, <2>3, <2>4, Zenon DEF remove_file, Value, Visible, Abs!vars
  <2>5. CASE file # NoFile
    <3>1. Value \notin Vals
      BY <2>2, <2>5, Zenon DEF Value, Visible, Opened, read_key, Absent, Unreadable
    <3> QED
      BY <1>14, <2>1, <2>2, <2>3, <3>1, Zenon DEF remove_file, Abs!Uncover
  <2> QED
    BY <2>4, <2>5
\* The other steps cannot be seen., Zenon
<1>15. ASSUME NEW q \in Procs, lock_store(q) PROVE UNCHANGED Abs!vars
  <2>1. Stage' = Stage
    <3>1. CASE op[q].kind = "get"
      BY <1>15, <3>1, StageStays, Zenon DEF lock_store, Goto, StageOf
    <3>2. CASE op[q].kind = "set"
      BY <1>15, <3>2, StageStays, Zenon DEF lock_store, Goto, StageOf
    <3>3. CASE op[q].kind \notin {"get", "set"}
      BY <1>15, <3>3, StageStays, Zenon DEF lock_store, Goto, StageOf
    <3> QED
      BY <3>1, <3>2, <3>3, Zenon
  <2> QED
    BY <1>0, <1>15, <2>1, Zenon DEF lock_store, Abs!vars
<1>16. ASSUME NEW q \in Procs, create_store_id(q) PROVE UNCHANGED Abs!vars
  <2>1. Stage' = Stage
    BY <1>16, StageStays, Zenon DEF create_store_id, Goto, StageOf
  <2>2. Value' = Value
    BY <1>16, Zenon DEF create_store_id, Value, Visible, read_key
  <2> QED
    BY <1>16, <2>1, <2>2, Zenon DEF create_store_id, Abs!vars
<1>17. ASSUME NEW q \in Procs, read_stored_key(q) PROVE UNCHANGED Abs!vars
  <2>1. Stage' = Stage
    <3>1. CASE fkey \in Keys
      BY <1>17, <3>1, StageStays, Zenon DEF read_stored_key, Goto, StageOf
    <3>2. CASE fkey \notin Keys
      BY <1>17, <3>2, StageStays, Zenon DEF read_stored_key, Goto, StageOf
    <3> QED
      BY <3>1, <3>2, Zenon
  <2> QED
    BY <1>0, <1>17, <2>1, Zenon DEF read_stored_key, Abs!vars
<1>18. ASSUME NEW q \in Procs, new_key(q) PROVE UNCHANGED Abs!vars
  <2>1. Stage' = Stage
    BY <1>18, StageStays, Zenon DEF new_key, Goto, StageOf
  <2>2. Value' = Value
    BY <1>18, Zenon DEF new_key, IInv, Kinds, Progress, Writing, Value, Visible
  <2> QED
    BY <1>18, <2>1, <2>2, Zenon DEF new_key, Abs!vars
<1>19. ASSUME NEW q \in Procs, delete_key(q) PROVE UNCHANGED Abs!vars
  <2>1. Stage' = Stage
    BY <1>19, StageStays, Zenon DEF delete_key, Goto, StageOf
  <2>2. Value' = Value
    BY <1>19, Zenon DEF delete_key, IInv, Kinds, Progress, Writing, Value, Visible
  <2> QED
    BY <1>19, <2>1, <2>2, Zenon DEF delete_key, Abs!vars
<1>20. CASE Damage
  <2>1. Stage' = Stage
    BY <1>20, Zenon DEF Damage, Stage
  <2>2. Value' \in {Value, Absent} \/ (Value \in Vals /\ Value' = Unreadable)
    <3>1. CASE file = NoFile
      BY <1>20, <3>1, Zenon DEF Damage, Value, Visible
    <3>2. CASE file # NoFile
      BY <1>20, <3>2 DEF Damage, IInv, FileMatchesKey, TypeOK, Files, Value, Visible, Opened,
         read_key
    <3> QED
      BY <3>1, <3>2, Zenon
  <2>3. Abs!Lose
    BY <1>20, <2>1, <2>2, Zenon DEF Damage, Abs!Lose, Abs!Absent, Absent, Abs!Unreadable, Unreadable
  <2> QED
    BY <2>3, Zenon DEF Abs!Next
<1>21. CASE UNCHANGED vars
  BY <1>0, <1>21, Zenon DEF vars, Stage, Abs!vars
<1> QED
  BY <1>1, <1>2, <1>3, <1>4, <1>6, <1>7, <1>8, <1>9, <1>10, <1>11, <1>12, <1>13, <1>14, <1>15,
     <1>16, <1>17, <1>18, <1>19, <1>20, <1>21, Zenon DEF Next, Abs!Next

(* However calls interleave, fail or die, and whatever the system loses,   *)
(* the store of every platform is one cell whose calls take effect at one  *)
(* point each.                                                             *)
THEOREM StoreIsAtomic == Spec => Implements
<1> QED
  BY InitIInv, StepIInv, InitRefines, StepRefines, PTL DEF Spec, Implements, Abs!Spec
=============================================================================
