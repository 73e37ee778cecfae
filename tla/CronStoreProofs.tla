--------------------------- MODULE CronStoreProofs ---------------------------
(***************************************************************************)
(* Proofs about the cron job file, for any number of jobs and threads.     *)
(***************************************************************************)
EXTENDS CronStore, FiniteSetTheorems, TLAPS

(* What holds of a call of persist.  The first part: it knows every job of  *)
(* the table it has passed, and what its caller asked for.                  *)
SnapshotOK(r) ==
  /\ r.at # "scan" => r.todo = {}
  /\ r.snap \subseteq used
  /\ r.job # NoJob => r.job \in used
  /\ r.job # NoJob /\ r.owes = "in" /\ r.job \in table => r.job \in r.snap \cup r.todo
  /\ r.job # NoJob /\ r.owes = "out" => r.job \notin table /\ r.job \notin r.snap

(* Alone, it has the temporary file to itself; overlaps are on record.      *)
PrivateTmp(r) ==
  /\ ~r.alone => clash
  /\ r.alone /\ r.at = "write" => r.where = "tmp" /\ tmp = Empty
  /\ r.alone /\ r.at = "rename" => tmp = r.snap

(* It will write nothing that contradicts what a caller was promised.       *)
HonoursSaved(r) ==
  \A j \in Jobs : /\ saved[j] = "in" /\ j \notin missed => j \in r.snap \cup r.todo
                  /\ saved[j] = "out" => j \notin r.snap

SavesOK ==
  \A th \in Threads : IsSaving(th) =>
    /\ SnapshotOK(thread[th]) /\ PrivateTmp(thread[th]) /\ HonoursSaved(thread[th])

AloneMeansAlone ==
  \A th, u \in Threads : th # u /\ IsSaving(th) /\ thread[th].alone => ~IsSaving(u)

(* Ids are given out once.                                                  *)
FreshIds ==
  /\ table \subseteq used
  /\ Whole(tmp) => tmp \subseteq used
  /\ Whole(file) => file \subseteq used
  /\ \A th \in Threads : At(th, "insert") =>
       /\ thread[th].job \in used \ table
       /\ \A u \in Threads \ {th} : thread[u] # Idle => thread[u].job # thread[th].job

(* A call has written the temporary file and may rename it.                 *)
TmpInUse == \E th \in Threads : At(th, "write") \/ At(th, "rename")

(* A promise that no boot has missed is kept by the table, the file and the *)
(* file that may replace it.                                                *)
PromisesKept ==
  \A j \in Jobs :
    /\ saved[j] = "in" /\ j \notin missed =>
         /\ up => j \in table
         /\ file # NoFile
         /\ TmpInUse /\ Whole(tmp) => j \in tmp
         /\ Whole(file) => j \in file
    /\ saved[j] = "out" =>
         /\ j \notin table
         /\ TmpInUse /\ Whole(tmp) => j \notin tmp
         /\ Whole(file) => j \notin file

NoThreadsWhenDown == ~up => \A th \in Threads : thread[th] = Idle

IInv ==
  /\ TypeOK /\ SavesOK /\ AloneMeansAlone /\ FreshIds /\ PromisesKept /\ NoThreadsWhenDown
  /\ WholeUnlessOverlap

(* Threads that have passed the check count as jobs already.                *)
Inserting == {th \in Threads : At(th, "insert")}

RoomForInserting ==
  Inserting # {} =>
    Cardinality(table) + Cardinality(Inserting) <= MaxTotal + Cardinality(Threads) - 1
-----------------------------------------------------------------------------
(* The initial states satisfy the inductive invariant.                      *)
LEMMA InitIInv == Init => IInv
  BY ConstantsAssumption DEF Init, IInv, TypeOK, SavesOK, AloneMeansAlone, FreshIds, PromisesKept, NoThreadsWhenDown,
         WholeUnlessOverlap, Content, IsSaving, At, Whole, Unreadable

(* A thread in persist has the record of a call of persist.                 *)
LEMMA SavingType ==
  ASSUME TypeOK, NEW th \in Threads
  PROVE  /\ IsSaving(th) => thread[th] \in Saving
         /\ At(th, "insert") => thread[th] \in Adding
         /\ \A pc \in {"scan", "open", "write", "rename"} : At(th, pc) => IsSaving(th)
  BY DEF TypeOK, IsSaving, At, Adding, Saving

(* A new call of persist knows that others are under way, and they learn of *)
(* it; nothing else of them changes.                                        *)
LEMMA StartSaveEffect ==
  ASSUME TypeOK, NEW th \in Threads, NEW j \in {NoJob} \cup Jobs, NEW owes \in {"in", "out"},
         StartSave(th, NewSave(th, j, owes))
  PROVE  /\ thread' \in [Threads -> {Idle} \cup Adding \cup Saving]
         /\ clash' \in BOOLEAN /\ (clash => clash')
         /\ thread'[th] = NewSave(th, j, owes)
         /\ NewSave(th, j, owes) \in Saving
         /\ \A u \in Threads \ {th} : ~IsSaving(u) => thread'[u] = thread[u]
         /\ \A u \in Threads \ {th} : IsSaving(u) =>
              /\ ~NewSave(th, j, owes).alone /\ clash'
              /\ thread'[u] = [thread[u] EXCEPT !.alone = FALSE]
              /\ thread'[u] \in Saving
         /\ ~NewSave(th, j, owes).alone => clash'
  <1>1. NewSave(th, j, owes) \in Saving
    BY DEF NewSave, Saving
  <1>2. \A u \in Threads : IsSaving(u) => [thread[u] EXCEPT !.alone = FALSE] \in Saving
    BY SavingType DEF Saving
  <1>3. \A u \in Threads \ {th} : IsSaving(u) => ~NewSave(th, j, owes).alone
    BY DEF NewSave
  <1>4. thread' = [u \in Threads |-> IF u = th THEN NewSave(th, j, owes)
                                     ELSE IF IsSaving(u) THEN [thread[u] EXCEPT !.alone = FALSE]
                                     ELSE thread[u]]
    BY DEF StartSave
  <1>5. clash' = (clash \/ ~NewSave(th, j, owes).alone)
    BY DEF StartSave
  <1>6. thread' \in [Threads -> {Idle} \cup Adding \cup Saving]
    BY <1>1, <1>2, <1>4 DEF TypeOK
  <1> QED
    BY <1>1, <1>2, <1>3, <1>4, <1>5, <1>6 DEF TypeOK, Saving

(* A call of persist that begins after job j was inserted or removed, or on *)
(* nobody's behalf, keeps the invariant.                                    *)
LEMMA StartSaveKeeps ==
  ASSUME IInv, NEW th \in Threads, NEW j \in {NoJob} \cup Jobs, NEW owes \in {"in", "out"},
         StartSave(th, NewSave(th, j, owes)), up,
         UNCHANGED <<up, used, tmp, file, missed>>,
         table' \in SUBSET Jobs, table' \subseteq used, saved' \in [Jobs -> {"in", "out", "unknown"}],
         \A k \in Jobs \ {j} : (k \in table' <=> k \in table) /\ saved'[k] = saved[k],
         j # NoJob => /\ j \in used /\ saved'[j] = "unknown" /\ (owes = "out" => j \notin table')
                      /\ \A u \in Threads \ {th} : At(u, "insert") => thread[u].job # j
                      /\ \A u \in Threads \ {th} : IsSaving(u) /\ thread[u].job = j => j \notin table',
         thread[th] # Idle => thread[th].job = j
  PROVE  IInv'
  <1> DEFINE save == NewSave(th, j, owes)
  <1>0. TypeOK
    BY DEF IInv
  <1>a. NoJob \notin Jobs
    BY ConstantsAssumption
  <1>1. /\ thread' \in [Threads -> {Idle} \cup Adding \cup Saving]
        /\ clash' \in BOOLEAN /\ (clash => clash')
        /\ thread'[th] = save
        /\ save \in Saving
        /\ \A u \in Threads \ {th} : ~IsSaving(u) => thread'[u] = thread[u]
        /\ \A u \in Threads \ {th} : IsSaving(u) =>
             /\ ~save.alone /\ clash'
             /\ thread'[u] = [thread[u] EXCEPT !.alone = FALSE]
             /\ thread'[u] \in Saving
        /\ ~save.alone => clash'
    BY <1>0, StartSaveEffect
  <1>2. TypeOK'
    BY <1>0, <1>1 DEF TypeOK
  <1>3. /\ save.at = "scan" /\ save.job = j /\ save.owes = owes
        /\ save.todo = Jobs /\ save.snap = {}
        /\ save.alone = (\A u \in Threads \ {th} : ~IsSaving(u))
    BY DEF NewSave
  <1>4. ASSUME NEW u \in Threads \ {th}, IsSaving(u)
        PROVE  /\ thread[u] \in Saving
               /\ thread'[u].at = thread[u].at /\ thread'[u].job = thread[u].job
               /\ thread'[u].owes = thread[u].owes
               /\ thread'[u].todo = thread[u].todo /\ thread'[u].snap = thread[u].snap
               /\ ~thread'[u].alone
    BY <1>0, <1>1, <1>4, SavingType DEF Saving
  <1>5. \A u \in Threads \ {th} : IsSaving(u)' => IsSaving(u)
    BY <1>1 DEF IsSaving
  <1>6. SavesOK'
    <2>1. ASSUME NEW u \in Threads, u # th, IsSaving(u)'
          PROVE  SnapshotOK(thread[u])' /\ PrivateTmp(thread[u])' /\ HonoursSaved(thread[u])'
      <3>1. /\ IsSaving(u)
            /\ SnapshotOK(thread[u]) /\ HonoursSaved(thread[u])
        BY <1>5, <2>1 DEF IInv, SavesOK
      <3>2. SnapshotOK(thread[u])'
        BY <1>a, <1>4, <2>1, <3>1 DEF SnapshotOK, Saving
      <3>3. PrivateTmp(thread[u])'
        BY <1>1, <1>4, <2>1, <3>1 DEF PrivateTmp
      <3>4. HonoursSaved(thread[u])'
        BY <1>a, <1>4, <2>1, <3>1 DEF HonoursSaved
      <3> QED
        BY <3>2, <3>3, <3>4
    <2>2. SnapshotOK(thread[th])' /\ PrivateTmp(thread[th])' /\ HonoursSaved(thread[th])'
      BY <1>1, <1>3 DEF SnapshotOK, PrivateTmp, HonoursSaved
    <2> QED
      BY <2>1, <2>2 DEF SavesOK
  <1>7. AloneMeansAlone'
    BY <1>1, <1>3, <1>4, <1>5 DEF AloneMeansAlone
  <1>8. FreshIds'
    <2>1. \A u \in Threads : At(u, "insert")' => u # th /\ At(u, "insert") /\ thread'[u] = thread[u]
      BY <1>1, <1>3, <1>4 DEF At, IsSaving
    <2>2. \A u \in Threads \ {th} : thread'[u] # Idle => thread[u] # Idle /\ thread'[u].job = thread[u].job
      BY <1>1, <1>4 DEF IsSaving
    <2>3. ASSUME NEW u \in Threads, At(u, "insert")'
          PROVE  /\ thread'[u].job \in used \ table'
                 /\ \A v \in Threads \ {u} : thread'[v] # Idle => thread'[v].job # thread'[u].job
      <3>1. At(u, "insert") /\ u # th /\ thread'[u] = thread[u] /\ thread[u] \in Adding
        BY <1>0, <2>1, <2>3, SavingType
      <3>2. thread[u].job \in used \ table /\ thread[u].job \in Jobs /\ thread[u].job # j
        BY <1>a, <3>1 DEF IInv, FreshIds, Adding
      <3>3. \A v \in Threads \ {u} : thread'[v] # Idle => thread'[v].job # thread'[u].job
        BY <1>1, <1>3, <2>2, <3>1, <3>2 DEF IInv, FreshIds
      <3> QED
        BY <3>1, <3>2, <3>3
    <2> QED
      BY <2>3 DEF IInv, FreshIds, Whole
  <1>9. PromisesKept'
    <2>1. TmpInUse' => TmpInUse
      BY <1>1, <1>3, <1>4 DEF TmpInUse, At, IsSaving
    <2> QED
      BY <1>a, <2>1 DEF IInv, PromisesKept, Whole
  <1>10. NoThreadsWhenDown' /\ WholeUnlessOverlap'
    BY <1>1 DEF IInv, NoThreadsWhenDown, WholeUnlessOverlap, Unreadable
  <1> QED
    BY <1>2, <1>6, <1>7, <1>8, <1>9, <1>10 DEF IInv
-----------------------------------------------------------------------------
(* Passing the check reserves an id that nobody has used.                   *)
LEMMA CheckLimitKeeps ==
  ASSUME IInv, NEW th \in Threads, NEW j \in Jobs, NEW saves \in BOOLEAN,
         CheckLimit(th, j, saves)
  PROVE  IInv'
  <1> DEFINE add == [at |-> "insert", job |-> j, saves |-> saves]
  <1>0. TypeOK /\ add \in Adding /\ add.at = "insert" /\ add.job = j
    BY DEF IInv, Adding
  <1>1. /\ thread' \in [Threads -> {Idle} \cup Adding \cup Saving]
        /\ thread'[th] = add
        /\ \A u \in Threads \ {th} : thread'[u] = thread[u]
        /\ used' = used \cup {j} /\ j \notin used
        /\ UNCHANGED <<up, table, tmp, file, saved, missed, clash>> /\ up
    BY <1>0 DEF CheckLimit, TypeOK
  <1>2. TypeOK'
    BY <1>0, <1>1 DEF TypeOK
  <1>3. \A u \in Threads : IsSaving(u)' => u # th /\ IsSaving(u) /\ thread'[u] = thread[u]
    BY <1>0, <1>1 DEF IsSaving
  <1>4. SavesOK'
    BY <1>1, <1>3 DEF IInv, SavesOK, SnapshotOK, PrivateTmp, HonoursSaved
  <1>5. AloneMeansAlone'
    BY <1>3 DEF IInv, AloneMeansAlone
  <1>6. \A u \in Threads \ {th} : thread[u] # Idle => thread[u].job # j
    <2>1. ASSUME NEW u \in Threads \ {th}, thread[u] # Idle
          PROVE  thread[u].job # j
      <3>1. CASE IsSaving(u)
        BY <1>1, <3>1, ConstantsAssumption DEF IInv, SavesOK, SnapshotOK
      <3>2. CASE At(u, "insert")
        BY <1>1, <3>2 DEF IInv, FreshIds
      <3> QED
        BY <2>1, <3>1, <3>2 DEF IsSaving, At
    <2> QED
      BY <2>1
  <1>7. FreshIds'
    BY <1>0, <1>1, <1>6 DEF IInv, FreshIds, At, Whole
  <1>8. PromisesKept' /\ NoThreadsWhenDown' /\ WholeUnlessOverlap'
    <2>1. TmpInUse' => TmpInUse
      BY <1>0, <1>1 DEF TmpInUse, At
    <2> QED
      BY <1>1, <2>1 DEF IInv, PromisesKept, NoThreadsWhenDown, WholeUnlessOverlap, Whole, Unreadable
  <1> QED
    BY <1>2, <1>4, <1>5, <1>7, <1>8 DEF IInv

(* An operation on the table without a persist keeps the invariant.         *)
LEMMA UnsavedChangeKeeps ==
  ASSUME IInv, NEW th \in Threads, NEW j \in Jobs, up, ~IsSaving(th),
         UNCHANGED <<up, used, tmp, file, missed, clash>>,
         thread' = [thread EXCEPT ![th] = Idle],
         table' \in SUBSET Jobs, table' \subseteq used, saved' = [saved EXCEPT ![j] = "unknown"],
         \A k \in Jobs \ {j} : k \in table' <=> k \in table,
         \A u \in Threads \ {th} : At(u, "insert") => thread[u].job # j,
         \A u \in Threads \ {th} : IsSaving(u) /\ thread[u].job = j => j \notin table'
  PROVE  IInv'
  <1>0. TypeOK /\ NoJob \notin Jobs
    BY ConstantsAssumption DEF IInv
  <1>1. TypeOK'
    BY <1>0 DEF TypeOK
  <1>2. \A u \in Threads \ {th} : thread'[u] = thread[u]
    BY <1>0 DEF TypeOK
  <1>3. thread'[th] = Idle /\ ~At(th, "insert")' /\ ~IsSaving(th)'
    BY <1>0 DEF TypeOK, At, IsSaving
  <1>4. \A k \in Jobs : saved'[k] = IF k = j THEN "unknown" ELSE saved[k]
    BY <1>0 DEF TypeOK
  <1>5. SavesOK'
    <2>1. ASSUME NEW u \in Threads \ {th}, IsSaving(u)'
          PROVE  SnapshotOK(thread[u])' /\ PrivateTmp(thread[u])' /\ HonoursSaved(thread[u])'
      <3>1. /\ IsSaving(u) /\ thread'[u] = thread[u] /\ thread[u] \in Saving
            /\ SnapshotOK(thread[u]) /\ PrivateTmp(thread[u]) /\ HonoursSaved(thread[u])
        BY <1>0, <1>2, <2>1, SavingType DEF IInv, SavesOK, IsSaving
      <3>2. SnapshotOK(thread[u])'
        BY <1>0, <3>1 DEF SnapshotOK, Saving
      <3>3. PrivateTmp(thread[u])' /\ HonoursSaved(thread[u])'
        BY <1>4, <3>1 DEF PrivateTmp, HonoursSaved
      <3> QED
        BY <3>2, <3>3
    <2> QED
      BY <1>3, <2>1 DEF SavesOK
  <1>6. AloneMeansAlone'
    BY <1>2, <1>3 DEF IInv, AloneMeansAlone, IsSaving
  <1>7. FreshIds'
    <2>1. ASSUME NEW u \in Threads, At(u, "insert")'
          PROVE  /\ thread'[u].job \in used \ table'
                 /\ \A v \in Threads \ {u} : thread'[v] # Idle => thread'[v].job # thread'[u].job
      <3>1. u # th /\ At(u, "insert") /\ thread'[u] = thread[u] /\ thread[u] \in Adding
        BY <1>0, <1>2, <1>3, <2>1, SavingType DEF At
      <3>2. thread[u].job \in used \ table' /\ thread[u].job \in Jobs
        BY <3>1 DEF IInv, FreshIds, Adding
      <3> QED
        BY <1>2, <1>3, <3>1, <3>2 DEF IInv, FreshIds
    <2> QED
      BY <2>1 DEF IInv, FreshIds, Whole
  <1>8. PromisesKept' /\ NoThreadsWhenDown' /\ WholeUnlessOverlap'
    <2>1. TmpInUse' => TmpInUse
      BY <1>2, <1>3 DEF TmpInUse, At
    <2> QED
      BY <1>4, <2>1 DEF IInv, PromisesKept, NoThreadsWhenDown, WholeUnlessOverlap, Whole, Unreadable
  <1> QED
    BY <1>1, <1>5, <1>6, <1>7, <1>8 DEF IInv

(* The insertion is the only one of its id.                                 *)
LEMMA InsertKeeps ==
  ASSUME IInv, NEW th \in Threads, Insert(th)
  PROVE  IInv'
  <1>1. PICK j \in Jobs : j = thread[th].job
    BY SavingType DEF IInv, Insert, Adding
  <1>2. /\ At(th, "insert") /\ ~IsSaving(th) /\ thread[th] # Idle /\ up
        /\ table' = table \cup {j} /\ saved' = [saved EXCEPT ![j] = "unknown"]
        /\ UNCHANGED <<up, used, tmp, file, missed>>
    BY <1>1 DEF Insert, At, IsSaving, IInv, NoThreadsWhenDown
  <1>3. /\ j \in used /\ j \notin table /\ table' \subseteq used /\ table' \in SUBSET Jobs
        /\ \A u \in Threads \ {th} : thread[u] # Idle => thread[u].job # j
    BY <1>1, <1>2 DEF IInv, FreshIds, TypeOK
  <1>4. \A u \in Threads \ {th} : /\ At(u, "insert") => thread[u].job # j
                                  /\ IsSaving(u) => thread[u].job # j
    BY <1>3 DEF At, IsSaving
  <1>5. /\ saved' \in [Jobs -> {"in", "out", "unknown"}] /\ saved'[j] = "unknown"
        /\ \A k \in Jobs \ {j} : (k \in table' <=> k \in table) /\ saved'[k] = saved[k]
    BY <1>2 DEF IInv, TypeOK
  <1>6. CASE thread[th].saves
    <2>1. StartSave(th, NewSave(th, j, "in"))
      BY <1>1, <1>6 DEF Insert
    <2> QED
      BY <1>1, <1>2, <1>3, <1>4, <1>5, <2>1, StartSaveKeeps
  <1>7. CASE ~thread[th].saves
    <2>1. thread' = [thread EXCEPT ![th] = Idle] /\ clash' = clash
      BY <1>1, <1>7 DEF Insert, Finish
    <2> QED
      BY <1>2, <1>3, <1>4, <1>5, <2>1, UnsavedChangeKeeps
  <1> QED
    BY <1>6, <1>7

(* A removed job is in nobody's way: its id is not given out again.         *)
LEMMA RemoveKeeps ==
  ASSUME IInv, NEW th \in Threads, NEW j \in Jobs, NEW saves \in BOOLEAN, Remove(th, j, saves)
  PROVE  IInv'
  <1>1. /\ thread[th] = Idle /\ up /\ j \in table
        /\ table' = table \ {j} /\ saved' = [saved EXCEPT ![j] = "unknown"]
        /\ UNCHANGED <<up, used, tmp, file, missed>>
    BY DEF Remove
  <1>2. /\ j \in used /\ table' \subseteq used /\ table' \in SUBSET Jobs /\ ~IsSaving(th)
        /\ \A u \in Threads \ {th} : At(u, "insert") => thread[u].job # j
    BY <1>1 DEF IInv, FreshIds, TypeOK, IsSaving
  <1>3. /\ saved' \in [Jobs -> {"in", "out", "unknown"}] /\ saved'[j] = "unknown"
        /\ j \notin table'
        /\ \A k \in Jobs \ {j} : (k \in table' <=> k \in table) /\ saved'[k] = saved[k]
    BY <1>1 DEF IInv, TypeOK
  <1>4. CASE saves
    <2>1. StartSave(th, NewSave(th, j, "out"))
      BY <1>4 DEF Remove
    <2> QED
      BY <1>1, <1>2, <1>3, <2>1, StartSaveKeeps
  <1>5. CASE ~saves
    <2>1. thread' = thread /\ clash' = clash
      BY <1>5 DEF Remove
    <2>2. thread' = [thread EXCEPT ![th] = Idle]
      BY <1>1, <2>1 DEF IInv, TypeOK
    <2> QED
      BY <1>1, <1>2, <1>3, <2>1, <2>2, UnsavedChangeKeeps
  <1> QED
    BY <1>4, <1>5

(* The tick loop persists what is there.                                    *)
LEMMA PeriodicSaveKeeps ==
  ASSUME IInv, NEW th \in Threads, PeriodicSave(th)
  PROVE  IInv'
  <1>1. /\ thread[th] = Idle /\ up /\ StartSave(th, NewSave(th, NoJob, "in"))
        /\ UNCHANGED <<up, table, used, tmp, file, saved, missed>>
    BY DEF PeriodicSave
  <1>2. /\ table' \in SUBSET Jobs /\ table' \subseteq used
        /\ saved' \in [Jobs -> {"in", "out", "unknown"}]
    BY <1>1 DEF IInv, TypeOK, FreshIds
  <1> QED
    BY <1>1, <1>2, StartSaveKeeps
-----------------------------------------------------------------------------
(* A step of one call of persist leaves to the others what they know; if    *)
(* there are others, none of them is alone.                                 *)
SameButWhere(u) ==
  \/ thread'[u] = thread[u]
  \/ /\ IsSaving(u) /\ thread'[u] \in Saving
     /\ thread'[u].at = thread[u].at /\ thread'[u].job = thread[u].job
     /\ thread'[u].owes = thread[u].owes
     /\ thread'[u].todo = thread[u].todo /\ thread'[u].snap = thread[u].snap
     /\ (thread'[u].alone <=> thread[u].alone)

LEMMA PersistFrame ==
  ASSUME IInv, TypeOK', NEW th \in Threads, IsSaving(th),
         UNCHANGED <<up, table, used, missed>>,
         \A u \in Threads \ {th} : SameButWhere(u),
         \/ saved' = saved /\ clash' = clash
         \/ thread[th].alone /\ thread'[th] = Idle,
         \/ thread'[th] = Idle
         \/ /\ thread'[th] \in Saving
            /\ thread'[th].job = thread[th].job
            /\ (thread'[th].alone <=> thread[th].alone)
            /\ SnapshotOK(thread'[th]) /\ PrivateTmp(thread[th])' /\ HonoursSaved(thread'[th])
            /\ saved' = saved,
         Whole(tmp') => tmp' \subseteq used,
         Whole(file') => file' \subseteq used
  PROVE  SavesOK' /\ AloneMeansAlone' /\ FreshIds' /\ NoThreadsWhenDown' /\ up
  <1>0. TypeOK /\ up
    BY DEF IInv, NoThreadsWhenDown, IsSaving
  <1>1. \A u \in Threads \ {th} : IsSaving(u) => ~thread[u].alone /\ clash /\ ~thread[th].alone
    BY DEF IInv, AloneMeansAlone, SavesOK, PrivateTmp
  <1>2. \A u \in Threads \ {th} : IsSaving(u)' => IsSaving(u)
    BY DEF SameButWhere, IsSaving
  <1>3. SavesOK'
    <2>1. ASSUME NEW u \in Threads \ {th}, IsSaving(u)'
          PROVE  SnapshotOK(thread[u])' /\ PrivateTmp(thread[u])' /\ HonoursSaved(thread[u])'
      <3>1. /\ IsSaving(u) /\ ~thread[u].alone /\ clash /\ saved' = saved /\ clash' = clash
            /\ SnapshotOK(thread[u]) /\ HonoursSaved(thread[u])
        BY <1>1, <1>2, <2>1 DEF IInv, SavesOK
      <3>2. /\ thread'[u].at = thread[u].at /\ thread'[u].job = thread[u].job
            /\ thread'[u].owes = thread[u].owes
            /\ thread'[u].todo = thread[u].todo /\ thread'[u].snap = thread[u].snap
            /\ ~thread'[u].alone
        BY <3>1 DEF SameButWhere
      <3>3. SnapshotOK(thread[u])'
        BY <3>1, <3>2 DEF SnapshotOK
      <3>4. PrivateTmp(thread[u])' /\ HonoursSaved(thread[u])'
        BY <3>1, <3>2 DEF PrivateTmp, HonoursSaved
      <3> QED
        BY <3>3, <3>4
    <2>2. ASSUME IsSaving(th)'
          PROVE  SnapshotOK(thread[th])' /\ PrivateTmp(thread[th])' /\ HonoursSaved(thread[th])'
      BY <2>2 DEF IsSaving, SnapshotOK, HonoursSaved
    <2> QED
      BY <2>1, <2>2 DEF SavesOK
  <1>4. AloneMeansAlone'
    <2>1. ASSUME NEW u \in Threads, NEW v \in Threads, u # v, IsSaving(u)', thread'[u].alone
          PROVE  ~IsSaving(v)'
      <3>1. CASE u = th
        BY <1>1, <1>2, <2>1, <3>1 DEF IsSaving
      <3>2. CASE u # th
        BY <1>1, <1>2, <2>1, <3>2 DEF SameButWhere
      <3> QED
        BY <3>1, <3>2
    <2> QED
      BY <2>1 DEF AloneMeansAlone
  <1>5. FreshIds'
    <2>1. \A u \in Threads : thread'[u] # Idle => thread[u] # Idle /\ thread'[u].job = thread[u].job
      BY DEF SameButWhere, IsSaving
    <2>2. \A u \in Threads : At(u, "insert")' => At(u, "insert")
      BY DEF SameButWhere, IsSaving, At, Saving
    <2> QED
      BY <2>1, <2>2 DEF IInv, FreshIds, At, Whole
  <1> QED
    BY <1>0, <1>3, <1>4, <1>5 DEF NoThreadsWhenDown

(* Taking the snapshot keeps the invariant.                                 *)
LEMMA ScanKeeps ==
  ASSUME IInv, NEW th \in Threads, (\E j \in Jobs : ScanJob(th, j)) \/ Serialize(th)
  PROVE  IInv'
  <1>0. TypeOK /\ IsSaving(th) /\ thread[th] \in Saving /\ thread[th].at = "scan"
    BY SavingType DEF IInv, ScanJob, Serialize, At
  <1>1. /\ SnapshotOK(thread[th]) /\ PrivateTmp(thread[th]) /\ HonoursSaved(thread[th])
        /\ up /\ UNCHANGED <<up, table, used, tmp, file, saved, missed, clash>>
    BY <1>0 DEF IInv, SavesOK, ScanJob, Serialize, NoThreadsWhenDown, IsSaving
  <1>2. \A u \in Threads \ {th} : thread'[u] = thread[u]
    BY <1>0 DEF ScanJob, Serialize, TypeOK
  <1> DEFINE Scanned ==
        /\ thread' \in [Threads -> {Idle} \cup Adding \cup Saving]
        /\ thread'[th] \in Saving /\ thread'[th].job = thread[th].job
        /\ (thread'[th].alone <=> thread[th].alone)
        /\ thread'[th].at \in {"scan", "open"}
        /\ SnapshotOK(thread'[th]) /\ HonoursSaved(thread'[th])
  <1>3. Scanned
    <2>1. CASE Serialize(th)
      <3>1. thread[th].todo = {} /\ thread' = [thread EXCEPT ![th].at = "open"]
        BY <2>1 DEF Serialize
      <3>2. /\ thread' \in [Threads -> {Idle} \cup Adding \cup Saving]
            /\ thread'[th] \in Saving /\ thread'[th].job = thread[th].job
            /\ thread'[th].at = "open" /\ thread'[th].owes = thread[th].owes
            /\ thread'[th].todo = thread[th].todo /\ thread'[th].snap = thread[th].snap
            /\ (thread'[th].alone <=> thread[th].alone)
        BY <1>0, <3>1 DEF TypeOK, Saving
      <3> QED
        BY <1>1, <3>1, <3>2 DEF SnapshotOK, HonoursSaved
    <2>2. ASSUME NEW j \in Jobs, ScanJob(th, j)
          PROVE  Scanned
      <3>1. /\ j \in thread[th].todo
            /\ thread' = [thread EXCEPT ![th].todo = @ \ {j},
                                        ![th].snap = IF j \in table THEN @ \cup {j} ELSE @]
        BY <2>2 DEF ScanJob
      <3>2. /\ thread' \in [Threads -> {Idle} \cup Adding \cup Saving]
            /\ thread'[th] \in Saving /\ thread'[th].job = thread[th].job
            /\ thread'[th].at = "scan" /\ thread'[th].owes = thread[th].owes
            /\ thread'[th].todo = thread[th].todo \ {j}
            /\ thread'[th].snap = IF j \in table THEN thread[th].snap \cup {j} ELSE thread[th].snap
            /\ (thread'[th].alone <=> thread[th].alone)
        BY <1>0, <3>1 DEF TypeOK, Saving
      <3>3. SnapshotOK(thread'[th])
        BY <1>1, <3>2 DEF SnapshotOK, IInv, FreshIds
      <3>4. HonoursSaved(thread'[th])
        BY <1>1, <3>2 DEF HonoursSaved, IInv, PromisesKept
      <3> QED
        BY <3>2, <3>3, <3>4
    <2> QED
      BY <2>1, <2>2
  <1>4. TypeOK'
    BY <1>0, <1>1, <1>3 DEF TypeOK
  <1>5. PrivateTmp(thread[th])'
    BY <1>1, <1>3 DEF PrivateTmp
  <1>6. SavesOK' /\ AloneMeansAlone' /\ FreshIds' /\ NoThreadsWhenDown'
    BY <1>0, <1>1, <1>2, <1>3, <1>4, <1>5, PersistFrame DEF SameButWhere, IInv, FreshIds, Whole
  <1>7. PromisesKept' /\ WholeUnlessOverlap'
    <2>1. TmpInUse' => TmpInUse
      BY <1>2, <1>3 DEF TmpInUse, At
    <2> QED
      BY <1>1, <2>1 DEF IInv, PromisesKept, WholeUnlessOverlap, Whole, Unreadable
  <1> QED
    BY <1>4, <1>6, <1>7 DEF IInv
(* Opening the temporary file empties it.                                   *)
LEMMA OpenKeeps ==
  ASSUME IInv, NEW th \in Threads, OpenTmp(th)
  PROVE  IInv'
  <1>0. TypeOK /\ IsSaving(th) /\ thread[th] \in Saving /\ thread[th].at = "open"
    BY SavingType DEF IInv, OpenTmp, At
  <1>1. /\ SnapshotOK(thread[th]) /\ PrivateTmp(thread[th]) /\ HonoursSaved(thread[th])
        /\ tmp' = Empty /\ UNCHANGED <<up, table, used, file, saved, missed, clash>>
    BY <1>0 DEF IInv, SavesOK, OpenTmp
  <1>2. \A u \in Threads \ {th} : thread'[u] = thread[u]
    BY <1>0 DEF OpenTmp, TypeOK
  <1>3. /\ thread' \in [Threads -> {Idle} \cup Adding \cup Saving]
        /\ thread'[th] \in Saving /\ thread'[th].job = thread[th].job
        /\ thread'[th].at = "write" /\ thread'[th].owes = thread[th].owes
        /\ thread'[th].where = "tmp"
        /\ thread'[th].todo = thread[th].todo /\ thread'[th].snap = thread[th].snap
        /\ (thread'[th].alone <=> thread[th].alone)
    BY <1>0 DEF OpenTmp, TypeOK, Saving
  <1>4. TypeOK'
    BY <1>0, <1>1, <1>3 DEF TypeOK, Content
  <1>5. SnapshotOK(thread'[th]) /\ HonoursSaved(thread'[th])
    BY <1>0, <1>1, <1>3 DEF SnapshotOK, HonoursSaved
  <1>6. PrivateTmp(thread[th])'
    BY <1>1, <1>3 DEF PrivateTmp
  <1>7. SavesOK' /\ AloneMeansAlone' /\ FreshIds' /\ NoThreadsWhenDown'
    BY <1>0, <1>1, <1>2, <1>3, <1>4, <1>5, <1>6, PersistFrame DEF SameButWhere, IInv, FreshIds, Whole
  <1>8. PromisesKept' /\ WholeUnlessOverlap'
    BY <1>1 DEF IInv, PromisesKept, WholeUnlessOverlap, Whole, Unreadable
  <1> QED
    BY <1>4, <1>7, <1>8 DEF IInv

(* A call that is alone writes its snapshot to an empty temporary file; any *)
(* other writes a snapshot that honours the promises, or tears a file.      *)
LEMMA WriteKeeps ==
  ASSUME IInv, NEW th \in Threads, WriteTmp(th)
  PROVE  IInv'
  <1> DEFINE snap == thread[th].snap
  <1>0. TypeOK /\ IsSaving(th) /\ thread[th] \in Saving /\ thread[th].at = "write"
    BY SavingType DEF IInv, WriteTmp, At
  <1>1. /\ SnapshotOK(thread[th]) /\ PrivateTmp(thread[th]) /\ HonoursSaved(thread[th])
        /\ UNCHANGED <<up, table, used, saved, missed, clash>>
    BY <1>0 DEF IInv, SavesOK, WriteTmp
  <1>2. \A u \in Threads \ {th} : thread'[u] = thread[u]
    BY <1>0 DEF WriteTmp, TypeOK
  <1>3. /\ thread' \in [Threads -> {Idle} \cup Adding \cup Saving]
        /\ thread'[th] \in Saving /\ thread'[th].job = thread[th].job
        /\ thread'[th].at = "rename" /\ thread'[th].owes = thread[th].owes
        /\ thread'[th].todo = thread[th].todo /\ thread'[th].snap = snap
        /\ (thread'[th].alone <=> thread[th].alone)
    BY <1>0 DEF WriteTmp, TypeOK, Saving
  <1>4. /\ snap \in SUBSET Jobs /\ snap \subseteq used
        /\ \A j \in Jobs : /\ saved[j] = "in" /\ j \notin missed => j \in snap
                           /\ saved[j] = "out" => j \notin snap
    BY <1>0, <1>1 DEF SnapshotOK, HonoursSaved, Saving
  <1>5. /\ tmp' \in {tmp, snap, Torn} /\ file' \in {file, snap, Torn}
        /\ thread[th].alone => tmp' = snap /\ file' = file
    <2>1. CASE thread[th].where = "tmp"
      BY <1>0, <1>1, <2>1 DEF WriteTmp, Overwrite, PrivateTmp
    <2>2. CASE thread[th].where = "file"
      BY <1>0, <1>1, <2>2 DEF WriteTmp, Overwrite, PrivateTmp
    <2>3. CASE thread[th].where = "gone"
      BY <1>0, <1>1, <2>3 DEF WriteTmp, PrivateTmp
    <2> QED
      BY <1>0, <2>1, <2>2, <2>3 DEF Saving
  <1>6. TypeOK'
    BY <1>0, <1>1, <1>3, <1>4, <1>5 DEF TypeOK, Content
  <1>7. SnapshotOK(thread'[th]) /\ HonoursSaved(thread'[th])
    BY <1>0, <1>1, <1>3 DEF SnapshotOK, HonoursSaved
  <1>8. PrivateTmp(thread[th])'
    BY <1>1, <1>3, <1>5 DEF PrivateTmp
  <1>9. (Whole(tmp') => tmp' \subseteq used) /\ (Whole(file') => file' \subseteq used)
    BY <1>4, <1>5 DEF IInv, FreshIds, Whole
  <1>10. SavesOK' /\ AloneMeansAlone' /\ FreshIds' /\ NoThreadsWhenDown'
    BY <1>0, <1>1, <1>2, <1>3, <1>6, <1>7, <1>8, <1>9, PersistFrame DEF SameButWhere
  <1>11. PromisesKept'
    <2>1. file' = NoFile => file = NoFile
      BY <1>4, <1>5, ConstantsAssumption
    <2>2. \A j \in Jobs :
            /\ saved[j] = "in" /\ j \notin missed =>
                 (Whole(tmp') => j \in tmp') /\ (Whole(file') => j \in file')
            /\ saved[j] = "out" => (Whole(tmp') => j \notin tmp') /\ (Whole(file') => j \notin file')
      <3>1. TmpInUse
        BY <1>0 DEF TmpInUse, At, IsSaving
      <3>2. ASSUME NEW j \in Jobs, saved[j] = "in", j \notin missed
            PROVE  (Whole(tmp') => j \in tmp') /\ (Whole(file') => j \in file')
        <4>1. j \in snap /\ (Whole(tmp) => j \in tmp) /\ (Whole(file) => j \in file)
          BY <1>4, <3>1, <3>2 DEF IInv, PromisesKept
        <4> QED
          BY <1>5, <4>1 DEF Whole
      <3>3. ASSUME NEW j \in Jobs, saved[j] = "out"
            PROVE  (Whole(tmp') => j \notin tmp') /\ (Whole(file') => j \notin file')
        <4>1. j \notin snap /\ (Whole(tmp) => j \notin tmp) /\ (Whole(file) => j \notin file)
          BY <1>4, <3>1, <3>3 DEF IInv, PromisesKept
        <4> QED
          BY <1>5, <4>1 DEF Whole
      <3> QED
        BY <3>2, <3>3
    <2> QED
      BY <1>1, <2>1, <2>2 DEF IInv, PromisesKept, Whole
  <1>12. WholeUnlessOverlap'
    BY <1>1, <1>5 DEF IInv, WholeUnlessOverlap, Unreadable, PrivateTmp
  <1> QED
    BY <1>6, <1>10, <1>11, <1>12 DEF IInv

(* The rename publishes the snapshot of a call that was alone, or a content *)
(* that honours the promises.                                               *)
LEMMA RenameKeeps ==
  ASSUME IInv, NEW th \in Threads, Rename(th)
  PROVE  IInv'
  <1> DEFINE me == thread[th]
  <1>0. TypeOK /\ IsSaving(th) /\ me \in Saving /\ me.at = "rename"
    BY SavingType DEF IInv, Rename, At
  <1>1. /\ SnapshotOK(me) /\ PrivateTmp(me) /\ HonoursSaved(me)
        /\ tmp # NoFile /\ file' = tmp /\ tmp' = NoFile /\ thread' = Returned(th)
        /\ saved' = IF me.alone /\ me.job # NoJob /\ (me.owes = "in") = (me.job \in table)
                    THEN [saved EXCEPT ![me.job] = me.owes] ELSE saved
        /\ clash' = (clash /\ ~me.alone)
        /\ UNCHANGED <<up, table, used, missed>>
    BY <1>0 DEF IInv, SavesOK, Rename
  <1>2. thread'[th] = Idle
    BY <1>1 DEF Returned
  <1>3. \A u \in Threads \ {th} : SameButWhere(u) /\ thread'[u] \in {Idle} \cup Adding \cup Saving
    <2>1. ASSUME NEW u \in Threads \ {th}, At(u, "write")
          PROVE  SameButWhere(u) /\ thread'[u] \in Saving
      <3>1. /\ IsSaving(u) /\ thread[u] \in Saving
            /\ thread'[u] = [thread[u] EXCEPT !.where = Moved(@)]
        BY <1>0, <1>1, <2>1, SavingType DEF Returned
      <3>2. Moved(thread[u].where) \in {"tmp", "file", "gone"}
        BY DEF Moved
      <3> QED
        BY <3>1, <3>2 DEF SameButWhere, Saving
    <2>2. ASSUME NEW u \in Threads \ {th}, ~At(u, "write")
          PROVE  thread'[u] = thread[u]
      BY <1>1, <2>2 DEF Returned
    <2> QED
      BY <1>0, <2>1, <2>2 DEF SameButWhere, TypeOK
  <1>4. thread' \in [Threads -> {Idle} \cup Adding \cup Saving]
    <2>1. thread' = [u \in Threads |-> thread'[u]]
      BY <1>1 DEF Returned
    <2> QED
      BY <1>2, <1>3, <2>1
  <1>5. saved' \in [Jobs -> {"in", "out", "unknown"}] /\ clash' \in BOOLEAN
    BY <1>0, <1>1 DEF TypeOK, Saving
  <1>6. TypeOK'
    BY <1>0, <1>1, <1>4, <1>5 DEF TypeOK
  <1>7. Whole(file') => file' \subseteq used
    BY <1>1 DEF IInv, FreshIds
  <1>8. \/ saved' = saved /\ clash' = clash
        \/ me.alone /\ thread'[th] = Idle
    BY <1>0, <1>1, <1>2 DEF TypeOK
  <1>9. SavesOK' /\ AloneMeansAlone' /\ FreshIds' /\ NoThreadsWhenDown'
    <2>1. ~Whole(tmp')
      BY <1>1 DEF Whole
    <2> QED
      BY <1>0, <1>1, <1>2, <1>3, <1>6, <1>7, <1>8, <2>1, PersistFrame
  <1>10. PromisesKept'
    <2>1. ASSUME NEW j \in Jobs
          PROVE  /\ saved'[j] = "in" /\ j \notin missed =>
                      (up => j \in table) /\ (Whole(file') => j \in file')
                 /\ saved'[j] = "out" => j \notin table /\ (Whole(file') => j \notin file')
      <3>1. CASE saved'[j] = saved[j]
        <4>1. TmpInUse
          BY <1>0 DEF TmpInUse, At, IsSaving
        <4> QED
          BY <1>1, <3>1, <4>1 DEF IInv, PromisesKept
      <3>2. CASE saved'[j] # saved[j]
        <4>1. /\ me.alone /\ j = me.job /\ saved'[j] = me.owes
              /\ (me.owes = "in") = (me.job \in table)
          BY <1>0, <1>1, <3>2 DEF TypeOK
        <4>2. tmp = me.snap /\ me.todo = {} /\ j # NoJob
          BY <1>0, <1>1, <4>1, ConstantsAssumption DEF PrivateTmp, SnapshotOK
        <4>3. CASE me.owes = "in"
          <5>1. j \in table
            BY <4>1, <4>3
          <5>2. j \in me.snap
            BY <1>1, <4>1, <4>2, <4>3, <5>1 DEF SnapshotOK
          <5> QED
            BY <1>1, <4>1, <4>2, <4>3, <5>1, <5>2
        <4>4. CASE me.owes = "out"
          BY <1>1, <4>1, <4>2, <4>4 DEF SnapshotOK
        <4> QED
          BY <1>0, <4>3, <4>4 DEF Saving
      <3> QED
        BY <3>1, <3>2
    <2> QED
      BY <1>1, <2>1 DEF PromisesKept, Whole
  <1>11. WholeUnlessOverlap'
    <2>1. CASE me.alone
      <3>1. tmp \in SUBSET Jobs
        BY <1>0, <1>1, <2>1 DEF PrivateTmp, Saving
      <3> QED
        BY <1>1, <3>1, ConstantsAssumption DEF WholeUnlessOverlap, Unreadable
    <2>2. CASE ~me.alone
      BY <1>1, <2>2 DEF WholeUnlessOverlap, PrivateTmp
    <2> QED
      BY <2>1, <2>2
  <1> QED
    BY <1>6, <1>9, <1>10, <1>11 DEF IInv
(* A call that fails may leave a torn temporary file, or a torn file if it  *)
(* was not alone.                                                           *)
LEMMA FailKeeps ==
  ASSUME IInv, NEW th \in Threads, RenameNothing(th) \/ SaveFails(th)
  PROVE  IInv'
  <1>0. TypeOK /\ IsSaving(th) /\ thread[th] \in Saving
    BY SavingType DEF IInv, RenameNothing, SaveFails
  <1>1. /\ PrivateTmp(thread[th])
        /\ thread' = [thread EXCEPT ![th] = Idle] /\ UNCHANGED <<up, table, used, saved, missed, clash>>
    BY <1>0 DEF IInv, SavesOK, RenameNothing, SaveFails, Finish
  <1>2. /\ \A u \in Threads \ {th} : thread'[u] = thread[u]
        /\ thread'[th] = Idle
    BY <1>0, <1>1 DEF TypeOK
  <1>3. tmp' \in {tmp, Torn} /\ file' \in {file, Torn} /\ (thread[th].alone => file' = file)
    BY <1>1 DEF RenameNothing, SaveFails, PrivateTmp, At
  <1>4. TypeOK'
    BY <1>0, <1>1, <1>3 DEF TypeOK, Content
  <1>5. (Whole(tmp') => tmp' \subseteq used) /\ (Whole(file') => file' \subseteq used)
    BY <1>3 DEF IInv, FreshIds, Whole
  <1>6. SavesOK' /\ AloneMeansAlone' /\ FreshIds' /\ NoThreadsWhenDown'
    BY <1>0, <1>1, <1>2, <1>4, <1>5, PersistFrame DEF SameButWhere
  <1>7. PromisesKept'
    <2>1. TmpInUse' => TmpInUse
      BY <1>2 DEF TmpInUse, At
    <2> QED
      BY <1>1, <1>3, <2>1, ConstantsAssumption DEF IInv, PromisesKept, Whole
  <1>8. WholeUnlessOverlap'
    BY <1>1, <1>3 DEF IInv, WholeUnlessOverlap, Unreadable, PrivateTmp
  <1> QED
    BY <1>4, <1>6, <1>7, <1>8 DEF IInv

(* The process dies and comes back: a promise is in the file, or the boot   *)
(* could not load it.                                                       *)
LEMMA CrashBootKeeps ==
  ASSUME IInv, Crash \/ Boot
  PROVE  IInv'
  <1>0. TypeOK
    BY DEF IInv
  <1>1. \A th \in Threads : thread'[th] = Idle
    BY DEF Crash, Boot, IInv, NoThreadsWhenDown
  <1>2. UNCHANGED <<used, tmp, file, clash>>
    BY DEF Crash, Boot
  <1>3. TypeOK'
    BY <1>0, ConstantsAssumption DEF Crash, Boot, TypeOK, Whole, Content
  <1>4. SavesOK' /\ AloneMeansAlone' /\ NoThreadsWhenDown'
    BY <1>1 DEF SavesOK, AloneMeansAlone, NoThreadsWhenDown, IsSaving
  <1>5. FreshIds'
    BY <1>1, <1>2 DEF IInv, FreshIds, At, Whole, Crash, Boot
  <1>6. PromisesKept'
    <2>1. ~TmpInUse'
      BY <1>1 DEF TmpInUse, At
    <2> QED
      BY <1>2, <2>1 DEF IInv, PromisesKept, Whole, Unreadable, Crash, Boot
  <1>7. WholeUnlessOverlap'
    BY <1>2 DEF IInv, WholeUnlessOverlap, Unreadable
  <1> QED
    BY <1>3, <1>4, <1>5, <1>6, <1>7 DEF IInv

(* Every step keeps the inductive invariant.                                *)
LEMMA NextKeeps == IInv /\ [Next]_vars => IInv'
  <1> SUFFICES ASSUME IInv, [Next]_vars
               PROVE  IInv'
    OBVIOUS
  <1>1. CASE \E th \in Threads : Change(th)
    BY <1>1, CheckLimitKeeps, RemoveKeeps, InsertKeeps, PeriodicSaveKeeps DEF Change
  <1>2. CASE \E th \in Threads : Persist(th)
    BY <1>2, ScanKeeps, OpenKeeps, WriteKeeps, RenameKeeps, FailKeeps DEF Persist
  <1>3. CASE Crash \/ Boot
    BY <1>3, CrashBootKeeps
  <1>4. CASE UNCHANGED vars
    BY <1>4 DEF vars, IInv, TypeOK, SavesOK, SnapshotOK, PrivateTmp, HonoursSaved, AloneMeansAlone,
                FreshIds, PromisesKept, TmpInUse, NoThreadsWhenDown, WholeUnlessOverlap, IsSaving, At, Whole,
                Unreadable
  <1> QED
    BY <1>1, <1>2, <1>3, <1>4 DEF Next

(* The inductive invariant holds in every reachable state.                  *)
LEMMA Invariant == Spec => []IInv
  BY InitIInv, NextKeeps, PTL DEF Spec

-----------------------------------------------------------------------------
(* The table and the threads that have passed the check of the limit.       *)
LEMMA Finite ==
  ASSUME TypeOK
  PROVE  /\ IsFiniteSet(table) /\ Cardinality(table) \in Nat
         /\ IsFiniteSet(Inserting) /\ Cardinality(Inserting) \in Nat
         /\ Cardinality(Inserting) <= Cardinality(Threads)
         /\ Cardinality(Threads) \in Nat /\ MaxTotal \in Nat
  <1>1. table \subseteq Jobs /\ Inserting \subseteq Threads
    BY DEF TypeOK, Inserting
  <1> QED
    BY <1>1, ConstantsAssumption, FS_Subset, FS_CardinalityType

(* An insertion turns one of those threads into one more job.               *)
LEMMA InsertCounts ==
  ASSUME TypeOK, TypeOK', NEW th \in Threads, Insert(th)
  PROVE  /\ th \in Inserting
         /\ Inserting' = Inserting \ {th}
         /\ Cardinality(table') <= Cardinality(table) + 1
  <1>1. PICK j \in Jobs : j = thread[th].job
    BY SavingType DEF Insert, Adding
  <1>2. th \in Inserting
    BY DEF Insert, Inserting
  <1>3. Cardinality(table') <= Cardinality(table) + 1
    <2>1. table' = table \cup {j}
      BY <1>1 DEF Insert
    <2>2. IsFiniteSet(table) /\ Cardinality(table) \in Nat
      BY Finite
    <2>3. Cardinality(table \cup {j}) = IF j \in table THEN Cardinality(table) ELSE Cardinality(table) + 1
      BY <2>2, FS_AddElement
    <2> QED
      BY <2>1, <2>2, <2>3
  <1>4. CASE thread[th].saves
    <2>1. StartSave(th, NewSave(th, j, "in"))
      BY <1>1, <1>4 DEF Insert
    <2>2. /\ thread'[th] = NewSave(th, j, "in")
          /\ \A u \in Threads \ {th} : ~IsSaving(u) => thread'[u] = thread[u]
          /\ \A u \in Threads \ {th} : IsSaving(u) => thread'[u] \in Saving
      BY <2>1, StartSaveEffect
    <2>3. Inserting' = Inserting \ {th}
      BY <2>2 DEF Inserting, At, IsSaving, NewSave, Saving
    <2> QED
      BY <1>2, <1>3, <2>3
  <1>5. CASE ~thread[th].saves
    <2>1. thread' = [thread EXCEPT ![th] = Idle]
      BY <1>5 DEF Insert, Finish
    <2>2. Inserting' = Inserting \ {th}
      BY <2>1 DEF Inserting, At, TypeOK
    <2> QED
      BY <1>2, <1>3, <2>2
  <1> QED
    BY <1>4, <1>5

(* No other step lets a thread pass the check, or adds a job while one has. *)
LEMMA OthersCount ==
  ASSUME IInv, TypeOK', [Next]_vars,
         \A th \in Threads : ~Insert(th),
         \A th \in Threads, j \in Jobs, saves \in BOOLEAN : ~CheckLimit(th, j, saves)
  PROVE  /\ Inserting' \subseteq Inserting
         /\ Inserting' # {} => table' \subseteq table
  <1>0. TypeOK
    BY DEF IInv
  <1>1. ASSUME NEW th \in Threads, Change(th)
        PROVE  Inserting' \subseteq Inserting /\ table' \subseteq table
    <2>1. CASE \E j \in Jobs : Remove(th, j, TRUE)
      <3>1. PICK j \in Jobs : Remove(th, j, TRUE)
        BY <2>1
      <3>2. table' \subseteq table /\ StartSave(th, NewSave(th, j, "out"))
        BY <3>1 DEF Remove
      <3>3. /\ thread'[th] = NewSave(th, j, "out")
            /\ \A u \in Threads \ {th} : ~IsSaving(u) => thread'[u] = thread[u]
            /\ \A u \in Threads \ {th} : IsSaving(u) => thread'[u] \in Saving
        BY <1>0, <3>2, StartSaveEffect
      <3> QED
        BY <3>2, <3>3 DEF Inserting, At, IsSaving, NewSave, Saving
    <2>2. CASE \E j \in Jobs : Remove(th, j, FALSE)
      BY <2>2 DEF Remove, Inserting, At
    <2>3. CASE PeriodicSave(th)
      <3>1. /\ thread'[th] = NewSave(th, NoJob, "in")
            /\ \A u \in Threads \ {th} : ~IsSaving(u) => thread'[u] = thread[u]
            /\ \A u \in Threads \ {th} : IsSaving(u) => thread'[u] \in Saving
        BY <1>0, <2>3, StartSaveEffect DEF PeriodicSave
      <3> QED
        BY <2>3, <3>1 DEF PeriodicSave, Inserting, At, IsSaving, NewSave, Saving
    <2> QED
      BY <1>1, <2>1, <2>2, <2>3 DEF Change
  <1>2. ASSUME NEW th \in Threads, Persist(th)
        PROVE  Inserting' \subseteq Inserting /\ table' \subseteq table
    <2>1. table' = table
      BY <1>2 DEF Persist, ScanJob, Serialize, OpenTmp, WriteTmp, Rename, RenameNothing, SaveFails
    <2>2. CASE Rename(th)
      BY <1>0, <2>1, <2>2, SavingType DEF Rename, Returned, Inserting, At, Saving
    <2>3. CASE RenameNothing(th) \/ SaveFails(th)
      BY <1>0, <2>1, <2>3 DEF RenameNothing, SaveFails, Finish, TypeOK, Inserting, At
    <2>4. CASE (\E j \in Jobs : ScanJob(th, j)) \/ Serialize(th) \/ OpenTmp(th) \/ WriteTmp(th)
      <3>1. thread[th] \in Saving
        BY <1>0, <2>4, SavingType DEF ScanJob, Serialize, OpenTmp, WriteTmp
      <3>2. thread'[th].at # "insert" /\ \A u \in Threads \ {th} : thread'[u] = thread[u]
        <4>1. CASE \E j \in Jobs : ScanJob(th, j)
          BY <1>0, <3>1, <4>1 DEF ScanJob, TypeOK, Saving, At
        <4>2. CASE Serialize(th)
          BY <1>0, <3>1, <4>2 DEF Serialize, TypeOK, Saving, At
        <4>3. CASE OpenTmp(th)
          BY <1>0, <3>1, <4>3 DEF OpenTmp, TypeOK, Saving, At
        <4>4. CASE WriteTmp(th)
          BY <1>0, <3>1, <4>4 DEF WriteTmp, TypeOK, Saving, At
        <4> QED
          BY <2>4, <4>1, <4>2, <4>3, <4>4
      <3> QED
        BY <2>1, <3>2 DEF Inserting, At
    <2> QED
      BY <1>2, <2>2, <2>3, <2>4 DEF Persist
  <1>3. CASE Crash \/ Boot
    <2>1. \A th \in Threads : thread'[th] = Idle
      BY <1>3 DEF Crash, Boot, IInv, NoThreadsWhenDown
    <2> QED
      BY <2>1 DEF Inserting, At
  <1>4. CASE UNCHANGED vars
    BY <1>4 DEF vars, Inserting, At
  <1> QED
    BY <1>1, <1>2, <1>3, <1>4 DEF Next

(* There is room for the threads that have passed the check, up to one less *)
(* than there are threads.                                                  *)
LEMMA RoomKept ==
  ASSUME IInv, IInv', RoomForInserting, [Next]_vars
  PROVE  RoomForInserting'
  <1>0. TypeOK /\ TypeOK'
    BY DEF IInv
  <1>1. /\ IsFiniteSet(table) /\ Cardinality(table) \in Nat
        /\ IsFiniteSet(Inserting) /\ Cardinality(Inserting) \in Nat
        /\ IsFiniteSet(table') /\ Cardinality(table') \in Nat
        /\ IsFiniteSet(Inserting') /\ Cardinality(Inserting') \in Nat
        /\ Cardinality(Inserting') <= Cardinality(Threads)
        /\ Cardinality(Threads) \in Nat /\ MaxTotal \in Nat
    <2>1. (/\ IsFiniteSet(table) /\ Cardinality(table) \in Nat
           /\ IsFiniteSet(Inserting) /\ Cardinality(Inserting) \in Nat
           /\ Cardinality(Inserting) <= Cardinality(Threads))'
      BY <1>0, Finite, PTL
    <2> QED
      BY <1>0, <2>1, Finite
  <1>2. CASE \E th \in Threads : Insert(th)
    <2>1. PICK th \in Threads : Insert(th)
      BY <1>2
    <2>2. /\ th \in Inserting /\ Inserting' = Inserting \ {th}
          /\ Cardinality(table') <= Cardinality(table) + 1
      BY <1>0, <2>1, InsertCounts
    <2>3. Cardinality(Inserting') = Cardinality(Inserting) - 1
      BY <1>1, <2>2, FS_RemoveElement
    <2> QED
      BY <1>1, <2>2, <2>3 DEF RoomForInserting
  <1>3. CASE \E th \in Threads, j \in Jobs, saves \in BOOLEAN : CheckLimit(th, j, saves)
    <2>1. table' = table /\ Cardinality(table) < MaxTotal
      BY <1>3 DEF CheckLimit
    <2> QED
      BY <1>1, <2>1 DEF RoomForInserting
  <1>4. CASE /\ \A th \in Threads : ~Insert(th)
             /\ \A th \in Threads, j \in Jobs, saves \in BOOLEAN : ~CheckLimit(th, j, saves)
    <2>1. /\ Inserting' \subseteq Inserting
          /\ Inserting' # {} => table' \subseteq table
      BY <1>0, <1>4, OthersCount
    <2>2. Cardinality(Inserting') <= Cardinality(Inserting)
      BY <1>1, <2>1, FS_Subset
    <2>3. Inserting' # {} => Cardinality(table') <= Cardinality(table)
      BY <1>1, <2>1, FS_Subset
    <2> QED
      BY <1>1, <2>1, <2>2, <2>3 DEF RoomForInserting
  <1> QED
    BY <1>2, <1>3, <1>4

-----------------------------------------------------------------------------
(* Type correctness of the table, the files and the threads.                *)
THEOREM TypeCorrect == Spec => []TypeOK
  <1>1. IInv => TypeOK
    BY DEF IInv
  <1> QED
    BY <1>1, Invariant, PTL

(* persist never publishes a file that does not parse unless two calls      *)
(* overlap, and any later call that runs alone repairs it.                  *)
THEOREM WholeUnlessOverlapHolds == Spec => []WholeUnlessOverlap
  <1>1. IInv => WholeUnlessOverlap
    BY DEF IInv
  <1> QED
    BY <1>1, Invariant, PTL

(* Additions and removals persisted by a call that ran alone survive every  *)
(* later crash and every later overlap that leaves the file readable, as    *)
(* long as no boot fails to load the file and goes on with an empty table.  *)
THEOREM SavedSurvivesHolds == Spec => []SavedSurvives
  <1>1. IInv => SavedSurvives
    BY DEF IInv, PromisesKept, SavedSurvives
  <1> QED
    BY <1>1, Invariant, PTL

(* n threads exceed the global limit of add_job by at most n - 1 jobs.      *)
THEOREM InsertBoundedHolds == Spec => InsertBounded
  <1>1. Init => RoomForInserting
    BY DEF Init, RoomForInserting, Inserting, At
  <1>2. IInv /\ IInv' /\ RoomForInserting /\ [Next]_vars => RoomForInserting'
    BY RoomKept
  <1>3. ASSUME IInv, IInv', RoomForInserting, NEW th \in Threads, Insert(th)
        PROVE  Cardinality(table') <= MaxTotal + Cardinality(Threads) - 1
    <2>0. TypeOK /\ TypeOK'
      BY <1>3 DEF IInv
    <2>1. th \in Inserting /\ Cardinality(table') <= Cardinality(table) + 1
      BY <2>0, <1>3, InsertCounts
    <2>2. Cardinality(Inserting) >= 1
      BY <2>0, <2>1, Finite, FS_EmptySet, ConstantsAssumption
    <2>3. Cardinality(table') \in Nat
      BY <2>0, FS_Subset, FS_CardinalityType, ConstantsAssumption DEF TypeOK
    <2>4. Cardinality(table) + Cardinality(Inserting) <= MaxTotal + Cardinality(Threads) - 1
      BY <1>3, <2>1 DEF RoomForInserting
    <2> QED
      BY <2>0, <2>1, <2>2, <2>3, <2>4, Finite
  <1>4. IInv /\ IInv' /\ RoomForInserting /\ [Next]_vars
          => [\A th \in Threads : Insert(th) =>
                Cardinality(table') <= MaxTotal + Cardinality(Threads) - 1]_vars
    BY <1>3
  <1> QED
    BY <1>1, <1>2, <1>4, Invariant, PTL DEF Spec, InsertBounded
=============================================================================
