------------------------------ MODULE CronStore ------------------------------
(***************************************************************************)
(* The cron job table and its file: load and persist of                    *)
(* openfang-kernel/src/cron.rs, the operations that add and remove jobs,   *)
(* and a process that may die at any moment.                               *)
(*                                                                         *)
(* Nothing serialises persist: every API call, chat command, agent tool    *)
(* and the tick loop runs it in a thread of its own, through one temporary *)
(* file.  The jobs map is locked shard by shard, so a snapshot is taken    *)
(* job by job.  Jobs are their ids here; what the fields of a job do is    *)
(* the subject of CronScheduler.  A crash is a crash of the process: what  *)
(* was written stays written.                                              *)
(***************************************************************************)
EXTENDS Integers, FiniteSets

CONSTANTS
  Jobs,       \* job ids; each is given to one new job
  Threads,    \* threads that work on the table at the same time
  MaxTotal,   \* max_total_jobs
  NoFile,     \* no such file
  Empty,      \* a file just created or truncated: it does not parse
  Torn,       \* the bytes of two snapshots mixed: it does not parse either
  NoJob,      \* a persist on nobody's behalf
  Idle        \* a thread without work

ASSUME ConstantsAssumption ==
  /\ IsFiniteSet(Threads)
  /\ IsFiniteSet(Jobs)
  /\ MaxTotal \in Nat
  /\ \A s \in SUBSET Jobs : s \notin {NoFile, Empty, Torn}
  /\ NoFile \notin {Empty, Torn}
  /\ NoJob \notin Jobs

VARIABLES
  up,       \* whether the process is running
  table,    \* CronScheduler.jobs
  used,     \* the ids given out so far
  tmp,      \* cron_jobs.json.tmp
  file,     \* cron_jobs.json
  thread,   \* what the threads do
  saved,    \* history: what a caller was told of each job
  missed,   \* history: jobs said to be saved that the last boot did not load
  clash     \* history: persist calls overlapped since the last one that ran alone

vars == <<up, table, used, tmp, file, thread, saved, missed, clash>>

Content == {Empty, Torn} \cup SUBSET Jobs

(* `where' says which path now leads to the file the thread has open, if    *)
(* any does.  History: `owes' is what the caller asked for, `alone' says    *)
(* that no other persist overlapped this one.                               *)
Adding == [at : {"insert"}, job : Jobs, saves : BOOLEAN]
Saving == [at : {"scan", "open", "write", "rename"}, job : {NoJob} \cup Jobs,
           owes : {"in", "out"}, todo : SUBSET Jobs, snap : SUBSET Jobs, where : {"tmp", "file", "gone"},
           alone : BOOLEAN]

(* The table, the two files and the threads are well typed.                 *)
TypeOK ==
  /\ up \in BOOLEAN
  /\ table \in SUBSET Jobs
  /\ used \in SUBSET Jobs
  /\ tmp \in {NoFile} \cup Content
  /\ file \in {NoFile} \cup Content
  /\ thread \in [Threads -> {Idle} \cup Adding \cup Saving]
  /\ saved \in [Jobs -> {"in", "out", "unknown"}]
  /\ missed \in SUBSET Jobs
  /\ clash \in BOOLEAN

At(th, pc)  == thread[th] # Idle /\ thread[th].at = pc
IsSaving(th) == thread[th] # Idle /\ thread[th].at # "insert"
Unreadable(content) == content \in {Empty, Torn}
Whole(content) == content \notin {NoFile, Empty, Torn}

-----------------------------------------------------------------------------
(* persist starts: no file is open yet.                                     *)
NewSave(th, j, owes) ==
  [at |-> "scan", job |-> j, owes |-> owes, todo |-> Jobs, snap |-> {}, where |-> "tmp",
   alone |-> \A u \in Threads \ {th} : ~IsSaving(u)]

StartSave(th, save) ==
  /\ thread' = [u \in Threads |-> IF u = th THEN save
                                  ELSE IF IsSaving(u) THEN [thread[u] EXCEPT !.alone = FALSE]
                                  ELSE thread[u]]
  /\ clash' = (clash \/ ~save.alone)

Finish(th) == thread' = [thread EXCEPT ![th] = Idle] /\ UNCHANGED clash

(* Mutant of CheckLimit: one job too many.                                  *)
CheckLimitOffByOne(th, j, saves) ==
  /\ up
  /\ thread[th] = Idle
  /\ j \notin used
  /\ Cardinality(table) <= MaxTotal
  /\ used' = used \cup {j}
  /\ thread' = [thread EXCEPT ![th] = [at |-> "insert", job |-> j, saves |-> saves]]
  /\ UNCHANGED <<up, table, tmp, file, saved, missed, clash>>

(* add_job compares the size of the map with the limit ...                  *)
CheckLimit(th, j, saves) ==
  /\ up
  /\ thread[th] = Idle
  /\ j \notin used
  /\ Cardinality(table) < MaxTotal
  /\ used' = used \cup {j}
  /\ thread' = [thread EXCEPT ![th] = [at |-> "insert", job |-> j, saves |-> saves]]
  /\ UNCHANGED <<up, table, tmp, file, saved, missed, clash>>

(* Mutant of Insert: the snapshot is taken before the insertion.            *)
InsertAfterSnapshot(th) ==
  /\ At(th, "insert")
  /\ LET j == thread[th].job IN
       /\ table' = table \cup {j}
       /\ IF thread[th].saves
          THEN StartSave(th, [NewSave(th, j, "in") EXCEPT !.todo = {}, !.snap = table])
          ELSE Finish(th)
       /\ saved' = [saved EXCEPT ![j] = "unknown"]
  /\ UNCHANGED <<up, used, tmp, file, missed>>

(* ... and inserts without looking again.  cron_create persists; the chat   *)
(* command /schedule add does not.                                          *)
Insert(th) ==
  /\ At(th, "insert")
  /\ LET j == thread[th].job IN
       /\ table' = table \cup {j}
       /\ IF thread[th].saves THEN StartSave(th, NewSave(th, j, "in")) ELSE Finish(th)
       /\ saved' = [saved EXCEPT ![j] = "unknown"]
  /\ UNCHANGED <<up, used, tmp, file, missed>>

(* cron_cancel and the API persist; /schedule del and the success of a      *)
(* one-shot job do not.  Bulk removals are several of these.                *)
Remove(th, j, saves) ==
  /\ up
  /\ thread[th] = Idle
  /\ j \in table
  /\ table' = table \ {j}
  /\ IF saves THEN StartSave(th, NewSave(th, j, "out")) ELSE UNCHANGED <<thread, clash>>
  /\ saved' = [saved EXCEPT ![j] = "unknown"]
  /\ UNCHANGED <<up, used, tmp, file, missed>>

(* The tick loop, every twenty ticks and on shutdown; the end of boot.      *)
PeriodicSave(th) ==
  /\ up
  /\ thread[th] = Idle
  /\ StartSave(th, NewSave(th, NoJob, "in"))
  /\ UNCHANGED <<up, table, used, tmp, file, saved, missed>>

-----------------------------------------------------------------------------
(* persist.                                                                 *)

ScanJob(th, j) ==
  /\ At(th, "scan")
  /\ j \in thread[th].todo
  /\ thread' = [thread EXCEPT ![th].todo = @ \ {j},
                              ![th].snap = IF j \in table THEN @ \cup {j} ELSE @]
  /\ UNCHANGED <<up, table, used, tmp, file, saved, missed, clash>>

Serialize(th) ==
  /\ At(th, "scan")
  /\ thread[th].todo = {}
  /\ thread' = [thread EXCEPT ![th].at = "open"]
  /\ UNCHANGED <<up, table, used, tmp, file, saved, missed, clash>>

(* Mutant of OpenTmp: cron_jobs.json is written in place.                   *)
OpenInPlace(th) ==
  /\ At(th, "open")
  /\ file' = Empty
  /\ thread' = [thread EXCEPT ![th].at = "write", ![th].where = "file"]
  /\ UNCHANGED <<up, table, used, tmp, saved, missed, clash>>

(* fs::write creates or truncates the temporary file ...                    *)
OpenTmp(th) ==
  /\ At(th, "open")
  /\ tmp' = Empty
  /\ thread' = [thread EXCEPT ![th].at = "write", ![th].where = "tmp"]
  /\ UNCHANGED <<up, table, used, file, saved, missed, clash>>

(* ... and writes to what it opened, from the start: over another snapshot, *)
(* a longer one shows at the end.                                           *)
Overwrite(content, content1, snap) ==
  content1 \in IF content = Empty THEN {snap} ELSE {snap, Torn}

WriteTmp(th) ==
  /\ At(th, "write")
  /\ thread' = [thread EXCEPT ![th].at = "rename"]
  /\ \/ /\ thread[th].where = "tmp"
        /\ \E c \in Content : Overwrite(tmp, c, thread[th].snap) /\ tmp' = c
        /\ UNCHANGED file
     \/ /\ thread[th].where = "file"
        /\ \E c \in Content : Overwrite(file, c, thread[th].snap) /\ file' = c
        /\ UNCHANGED tmp
     \/ thread[th].where = "gone" /\ UNCHANGED <<tmp, file>>
  /\ UNCHANGED <<up, table, used, saved, missed, clash>>

(* The temporary file takes the name of the other; whoever has one of them  *)
(* open keeps it open.                                                      *)
Moved(where) == IF where = "tmp" THEN "file" ELSE "gone"

Returned(th) ==
  [u \in Threads |-> IF u = th THEN Idle
                     ELSE IF At(u, "write") THEN [thread[u] EXCEPT !.where = Moved(@)]
                     ELSE thread[u]]

(* The caller of a persist that ran alone may rely on what it asked for,    *)
(* unless the job was removed meanwhile.                                    *)
Rename(th) ==
  /\ At(th, "rename")
  /\ tmp # NoFile
  /\ file' = tmp
  /\ tmp' = NoFile
  /\ thread' = Returned(th)
  /\ LET me == thread[th] IN
       /\ saved' = IF me.alone /\ me.job # NoJob /\ (me.owes = "in") = (me.job \in table)
                   THEN [saved EXCEPT ![me.job] = me.owes] ELSE saved
       /\ clash' = (clash /\ ~me.alone)
  /\ UNCHANGED <<up, table, used, missed>>

(* Another call has renamed the file.                                       *)
RenameNothing(th) ==
  /\ At(th, "rename")
  /\ tmp = NoFile
  /\ Finish(th)
  /\ UNCHANGED <<up, table, used, tmp, file, saved, missed>>

(* An I/O error; callers log it or not and report success.  A write that    *)
(* fails may have written a part.                                           *)
SaveFails(th) ==
  /\ \/ At(th, "open") \/ At(th, "rename")
     \/ At(th, "write")
  /\ Finish(th)
  /\ IF At(th, "write") /\ thread[th].where = "tmp" THEN tmp' \in {tmp, Torn} ELSE tmp' = tmp
  /\ IF At(th, "write") /\ thread[th].where = "file" THEN file' \in {file, Torn} ELSE file' = file
  /\ UNCHANGED <<up, table, used, saved, missed>>

-----------------------------------------------------------------------------
Crash ==
  /\ up
  /\ up' = FALSE
  /\ table' = {}
  /\ thread' = [th \in Threads |-> Idle]
  /\ UNCHANGED <<used, tmp, file, saved, missed, clash>>

(* Mutant of Boot: a file that does not parse is taken for a job.           *)
BootUnchecked ==
  /\ ~up
  /\ up' = TRUE
  /\ table' = IF Whole(file) THEN file ELSE IF Unreadable(file) THEN {NoJob} ELSE {}
  /\ UNCHANGED <<used, tmp, file, thread, saved, missed, clash>>

(* load: there is no file, or it is read and parsed; or it cannot be read,  *)
(* whole or not, or does not parse.  Then boot logs a warning and goes on   *)
(* with an empty table, which the next persist writes over the file.        *)
Boot ==
  /\ ~up
  /\ up' = TRUE
  /\ \/ /\ ~Unreadable(file)
        /\ table' = IF Whole(file) THEN file ELSE {}
        /\ missed' = missed \ table'
     \/ /\ file # NoFile
        /\ table' = {}
        /\ missed' = missed \cup {j \in Jobs : saved[j] = "in"}
  /\ UNCHANGED <<used, tmp, file, thread, saved, clash>>

Init ==
  /\ up = TRUE
  /\ table = {}
  /\ used = {}
  /\ tmp = NoFile
  /\ file = NoFile
  /\ thread = [th \in Threads |-> Idle]
  /\ saved = [j \in Jobs |-> "unknown"]
  /\ missed = {}
  /\ clash = FALSE

Change(th) ==
  \/ \E j \in Jobs, saves \in BOOLEAN : CheckLimit(th, j, saves) \/ Remove(th, j, saves)
  \/ Insert(th)
  \/ PeriodicSave(th)

Persist(th) ==
  \/ \E j \in Jobs : ScanJob(th, j)
  \/ Serialize(th) \/ OpenTmp(th) \/ WriteTmp(th)
  \/ Rename(th) \/ RenameNothing(th) \/ SaveFails(th)

Next ==
  \/ \E th \in Threads : Change(th) \/ Persist(th)
  \/ Crash \/ Boot

Spec == Init /\ [][Next]_vars

-----------------------------------------------------------------------------
(* Writing a temporary file and renaming it keeps the file whole as long as *)
(* no two calls of persist overlap, whatever fails and whenever the process *)
(* dies: a file that does not parse goes back to an overlap, and the next   *)
(* call that runs alone repairs it (persist).                               *)
WholeUnlessOverlap == Unreadable(file) => clash

(* A job whose addition was persisted by a call that ran alone is in the    *)
(* file, and one whose removal was is not, until the next change of that    *)
(* job: neither a crash nor later calls, that may overlap and tear the      *)
(* file, bring back an older table.  A job that was saved is lost in one    *)
(* way only: a boot could not load the file, went on with an empty table,   *)
(* and a later call wrote that over the file (persist, load, boot).         *)
SavedSurvives ==
  Whole(file) =>
    \A j \in Jobs : /\ saved[j] = "in"  => j \in file \/ j \in missed
                    /\ saved[j] = "out" => j \notin file

(* The limit is checked before the insertion and not under a lock, so n     *)
(* threads may exceed it, but only by n - 1 jobs, and whatever table was    *)
(* loaded at boot (add_job).                                                *)
InsertBounded ==
  [][\A th \in Threads : Insert(th) =>
       Cardinality(table') <= MaxTotal + Cardinality(Threads) - 1]_vars
=============================================================================
