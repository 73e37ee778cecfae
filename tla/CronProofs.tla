----------------------------- MODULE CronProofs -----------------------------
(***************************************************************************)
(* Proofs about CronScheduler, for every set of jobs, agents, schedules    *)
(* and runners and every bound.                                            *)
(*                                                                         *)
(* The inductive invariant says of every job in the table that it is well  *)
(* typed, within its error budget while enabled, and, if it runs on an     *)
(* interval, not due before a whole interval has passed since the tick     *)
(* last returned it.  Every operation changes an entry through one of the  *)
(* helpers of the module, so each helper gets a lemma and each action a    *)
(* step that cites it.                                                     *)
(***************************************************************************)
EXTENDS CronScheduler, WellFoundedInduction, TLAPS

(* What the invariant says of an entry, given when it was last due.         *)
Good(m, d) ==
  /\ m \in JobMeta
  /\ m.enabled => m.errs < MaxErrors
  /\ m.sched.kind = "every" /\ d # Never => m.next >= d + m.sched.t

GoodTable(table, due) ==
  /\ table \in [JobId -> JobMeta \cup {Unborn, Removed}]
  /\ \A j \in JobId : table[j] \notin {Unborn, Removed} => Good(table[j], due[j])

IInv ==
  /\ TypeOK
  /\ \A j \in JobId : lastDue[j] <= now
  /\ GoodTable(jobs, lastDue)

-----------------------------------------------------------------------------
(* The next fire time of a schedule is a natural number; for an interval    *)
(* it lies one interval ahead.                                              *)
LEMMA NextRun ==
  ASSUME NEW s \in Schedules, NEW t \in Time
  PROVE  /\ ComputeNextRunAfter(s, t) \in Nat
         /\ s.kind = "every" => ComputeNextRunAfter(s, t) = t + s.t
         /\ s.kind \in {"at", "every", "cron"}
         /\ s.t \in Nat
<1>1. s \in [kind : {"at", "every", "cron"}, t : Nat]
  BY ScheduleAssumption
<1>2. t \in Nat
  BY ConstantsAssumption DEF Time
<1>3. CASE s.kind = "at"
  BY <1>1, <1>2, <1>3 DEF ComputeNextRunAfter
<1>4. CASE s.kind = "every"
  BY <1>1, <1>2, <1>4 DEF ComputeNextRunAfter
<1>5. CASE s.kind = "cron"
  BY <1>1, <1>2, <1>5, CronCrateAssumption DEF ComputeNextRunAfter
<1>6. QED
  BY <1>1, <1>3, <1>4, <1>5

(* Recomputing next_run from now keeps an entry good, also when the tick    *)
(* returns it as due at this moment.                                        *)
LEMMA Recomputed ==
  ASSUME NEW m \in JobMeta, NEW e \in BOOLEAN, NEW n \in Nat, NEW d \in Time \cup {Never},
         now \in Time, d <= now, e => n < MaxErrors
  PROVE  Good([m EXCEPT !.enabled = e, !.errs = n,
                        !.next = ComputeNextRunAfter(m.sched, now)], d)
<1> DEFINE r == [m EXCEPT !.enabled = e, !.errs = n,
                          !.next = ComputeNextRunAfter(m.sched, now)]
<1>1. m.sched \in Schedules
  BY DEF JobMeta
<1>2. /\ ComputeNextRunAfter(m.sched, now) \in Nat
      /\ m.sched.kind = "every" => ComputeNextRunAfter(m.sched, now) = now + m.sched.t
      /\ m.sched.t \in Nat
  BY <1>1, NextRun
<1>3. r \in JobMeta /\ r.sched = m.sched /\ r.enabled = e /\ r.errs = n
      /\ r.next = ComputeNextRunAfter(m.sched, now)
  BY <1>2 DEF JobMeta
<1>4. now \in Nat /\ d \in Int
  BY ConstantsAssumption DEF Time, Never
<1>5. r.sched.kind = "every" /\ d # Never => r.next >= d + r.sched.t
  BY <1>2, <1>3, <1>4
<1> HIDE DEF r
<1>6. Good(r, d)
  BY <1>3, <1>5 DEF Good
<1>7. QED
  BY <1>6 DEF r

(* Each helper the actions change an entry with keeps it good.              *)
LEMMA SkipOverdueGood ==
  ASSUME NEW m, NEW d \in Time \cup {Never}, now \in Time, d <= now, Good(m, d)
  PROVE  Good(SkipOverdue(m), d) /\ (m.next > now => SkipOverdue(m).next = m.next)
<1>1. m \in JobMeta
  BY DEF Good
<1>2. now \in Nat /\ m.next \in Nat
  BY <1>1, ConstantsAssumption DEF Time, JobMeta
<1>3. CASE m.next <= now
  <2> m.enabled \in BOOLEAN /\ m.errs \in Nat /\ (m.enabled => m.errs < MaxErrors)
    BY <1>1 DEF Good, JobMeta
  <2>1. Good([m EXCEPT !.enabled = m.enabled, !.errs = m.errs,
                       !.next = ComputeNextRunAfter(m.sched, now)], d)
    BY <1>1, Recomputed
  <2>2. SkipOverdue(m) = [m EXCEPT !.enabled = m.enabled, !.errs = m.errs,
                                   !.next = ComputeNextRunAfter(m.sched, now)]
    BY <1>1, <1>3 DEF SkipOverdue, JobMeta
  <2>3. QED
    BY <1>2, <1>3, <2>1, <2>2
<1>4. CASE m.next > now
  <2>1. SkipOverdue(m) = m
    BY <1>1, <1>2, <1>4 DEF SkipOverdue, JobMeta
  <2>2. QED
    BY <2>1
<1>5. QED
  BY <1>2, <1>3, <1>4

(* Re-enabling a job (set_enabled) keeps its entry good.                    *)
LEMMA ReenabledGood ==
  ASSUME NEW m \in JobMeta, NEW d \in Time \cup {Never}, now \in Time, d <= now
  PROVE  Good(Reenabled(m), d)
<1>1. Reenabled(m) = [m EXCEPT !.enabled = TRUE, !.errs = 0,
                               !.next = ComputeNextRunAfter(m.sched, now)]
  BY DEF Reenabled
<1>2. 0 < MaxErrors
  BY ConstantsAssumption
<1>3. QED
  BY <1>1, <1>2, Recomputed

(* Disabling a job keeps its entry good.                                    *)
LEMMA DisabledGood ==
  ASSUME NEW m, NEW d \in Time \cup {Never}, Good(m, d)
  PROVE  Good([m EXCEPT !.enabled = FALSE], d)
BY DEF Good, JobMeta

(* add_job creates a good entry.                                            *)
LEMMA NewMetaGood ==
  ASSUME NEW def \in JobInputs, NEW d \in Time \cup {Never}, now \in Time, d <= now
  PROVE  Good(NewMeta(def), d)
<1> DEFINE m == NewMeta(def)
<1>1. def \in JobDef
  BY ConstantsAssumption
<1>2. /\ ComputeNextRunAfter(def.sched, now) \in Nat
      /\ def.sched.kind = "every" => ComputeNextRunAfter(def.sched, now) = now + def.sched.t
      /\ def.sched.t \in Nat
  BY <1>1, NextRun DEF JobDef
<1>3. m \in JobMeta /\ m.next = ComputeNextRunAfter(def.sched, now) /\ m.sched = def.sched
      /\ m.errs = 0 /\ 0 < MaxErrors
  BY <1>1, <1>2, ConstantsAssumption DEF NewMeta, JobMeta, JobDef
<1> HIDE DEF m
<1>4. now \in Nat /\ d \in Int
  BY ConstantsAssumption DEF Time, Never
<1>5. Good(m, d)
  BY <1>2, <1>3, <1>4 DEF Good
<1>6. QED
  BY <1>5 DEF m

(* update_job writes a good entry; its history starts afresh.               *)
LEMMA RewrittenGood ==
  ASSUME NEW m \in JobMeta, NEW def \in JobInputs, now \in Time
  PROVE  Good(Rewritten(m, def), Never)
<1>1. def \in JobDef
  BY ConstantsAssumption
<1>2. ComputeNextRunAfter(def.sched, now) \in Nat
  BY <1>1, NextRun DEF JobDef
<1>3. 0 < MaxErrors
  BY ConstantsAssumption
<1>4. QED
  BY <1>1, <1>2, <1>3 DEF Rewritten, Good, JobMeta, JobDef

(* due_jobs leaves an entry good although it was due just now.              *)
LEMMA PreAdvancedGood ==
  ASSUME NEW m, NEW d, now \in Time, Good(m, d)
  PROVE  Good(PreAdvanced(m), now)
<1>1. m \in JobMeta
  BY DEF Good
<1>2. PreAdvanced(m) = [m EXCEPT !.enabled = m.enabled, !.errs = m.errs,
                                 !.next = ComputeNextRunAfter(m.sched, now)]
  BY <1>1 DEF PreAdvanced, JobMeta
<1>3. m.enabled \in BOOLEAN /\ m.errs \in Nat /\ (m.enabled => m.errs < MaxErrors)
  BY <1>1 DEF Good, JobMeta
<1>4. now <= now
  BY ConstantsAssumption DEF Time
<1>5. QED
  BY <1>1, <1>2, <1>3, <1>4, Recomputed

(* A recorded success keeps an entry good and its next_run in place.        *)
LEMMA AfterSuccessGood ==
  ASSUME NEW m, NEW d \in Time \cup {Never}, Good(m, d)
  PROVE  Good(AfterSuccess(m), d) /\ AfterSuccess(m).next = m.next
<1>1. 0 < MaxErrors
  BY ConstantsAssumption
<1>2. QED
  BY <1>1 DEF Good, AfterSuccess, JobMeta

(* A recorded failure keeps an entry good, a future next_run in place.      *)
LEMMA AfterFailureGood ==
  ASSUME NEW m, NEW d \in Time \cup {Never}, NEW missing \in BOOLEAN,
         now \in Time, d <= now, Good(m, d)
  PROVE  Good(AfterFailure(m, missing), d)
         /\ (m.next > now => AfterFailure(m, missing).next = m.next)
<1> DEFINE failed == [m EXCEPT !.errs = m.errs + 1, !.agentMissing = missing]
<1>1. m \in JobMeta
  BY DEF Good
<1>2. failed \in JobMeta /\ failed.errs \in Nat /\ failed.next = m.next /\ failed.sched = m.sched
  <2>1. m.errs + 1 \in Nat
    BY <1>1 DEF JobMeta
  <2>2. failed.errs = m.errs + 1 /\ failed.next = m.next /\ failed.sched = m.sched
    BY <1>1 DEF JobMeta
  <2>3. failed \in JobMeta
    BY <1>1, <2>1 DEF JobMeta
  <2>4. QED
    BY <2>1, <2>2, <2>3
<1>3. MaxErrors \in Nat
  BY ConstantsAssumption
<1>4. AfterFailure(m, missing) = IF failed.errs >= MaxErrors
                                 THEN [failed EXCEPT !.enabled = FALSE]
                                 ELSE SkipOverdue(failed)
  BY DEF AfterFailure
<1>5. m.sched.kind = "every" /\ d # Never => m.next >= d + m.sched.t
  BY DEF Good
<1> HIDE DEF failed
<1>6. CASE failed.errs >= MaxErrors
  <2> DEFINE off == [failed EXCEPT !.enabled = FALSE]
  <2>1. off \in JobMeta /\ off.enabled = FALSE /\ off.next = m.next /\ off.sched = m.sched
    BY <1>2 DEF JobMeta
  <2> HIDE DEF off
  <2>2. Good(off, d)
    BY <2>1, <1>5 DEF Good
  <2>3. AfterFailure(m, missing) = off
    BY <1>4, <1>6 DEF off
  <2>4. QED
    BY <2>1, <2>2, <2>3
<1>7. CASE ~(failed.errs >= MaxErrors)
  <2>1. failed.errs < MaxErrors
    BY <1>2, <1>3, <1>7
  <2>2. Good(failed, d)
    BY <1>2, <1>5, <2>1 DEF Good
  <2>3. AfterFailure(m, missing) = SkipOverdue(failed)
    BY <1>4, <1>7
  <2>4. QED
    BY <1>2, <2>2, <2>3, SkipOverdueGood
<1>8. QED
  BY <1>6, <1>7

-----------------------------------------------------------------------------
(* Updates of the whole table.  Writing a good entry, or Removed, at one id *)
(* keeps the table good, and so do the operations of the kernel on all the  *)
(* jobs of an agent.                                                        *)
LEMMA EntryUpdate ==
  ASSUME NEW table, NEW due, GoodTable(table, due), NEW j \in JobId, NEW v,
         v = Removed \/ Good(v, due[j])
  PROVE  GoodTable([table EXCEPT ![j] = v], due)
<1>1. v \in JobMeta \cup {Unborn, Removed}
  BY DEF Good
<1>2. QED
  BY <1>1 DEF GoodTable

(* Removing the jobs of an agent keeps the table good.                      *)
LEMMA RemoveAgentJobsGood ==
  ASSUME NEW table, NEW due, GoodTable(table, due), NEW a
  PROVE  GoodTable(RemoveAgentJobs(table, a), due)
BY DEF GoodTable, RemoveAgentJobs

(* Removing duplicates keeps the table good.                                *)
LEMMA DedupeGood ==
  ASSUME NEW table, NEW due, GoodTable(table, due)
  PROVE  GoodTable(DedupeByName(table), due) /\ GoodTable(DedupeByProgram(table), due)
<1>1. \A j \in JobId : /\ DedupeByName(table)[j] \in {Removed, table[j]}
                       /\ DedupeByProgram(table)[j] \in {Removed, table[j]}
  BY DEF DedupeByName, DedupeByProgram, Dedupe
<1>2. /\ DedupeByName(table) \in [JobId -> JobMeta \cup {Unborn, Removed}]
      /\ DedupeByProgram(table) \in [JobId -> JobMeta \cup {Unborn, Removed}]
  BY DEF DedupeByName, DedupeByProgram, Dedupe, GoodTable
<1>3. QED
  BY <1>1, <1>2 DEF GoodTable

(* An entry that changes agent with its errors reset, and with next_run     *)
(* recomputed if it is enabled anew, stays good.                            *)
LEMMA MovedGood ==
  ASSUME NEW m, NEW d \in Time \cup {Never}, NEW a \in Agents, NEW e \in BOOLEAN,
         now \in Time, d <= now, Good(m, d)
  PROVE  /\ Good([m EXCEPT !.agent = a, !.errs = 0], d)
         /\ Good([m EXCEPT !.agent = a, !.errs = 0, !.enabled = e,
                           !.next = ComputeNextRunAfter(m.sched, now)], d)
         /\ Good([m EXCEPT !.agent = a, !.errs = 0,
                           !.next = ComputeNextRunAfter(m.sched, now), !.enabled = e], d)
<1>1. m \in JobMeta /\ 0 < MaxErrors
  BY ConstantsAssumption DEF Good
<1>2. Good([m EXCEPT !.agent = a, !.errs = 0], d)
  BY <1>1 DEF Good, JobMeta
<1> DEFINE r == [m EXCEPT !.enabled = e, !.errs = 0,
                          !.next = ComputeNextRunAfter(m.sched, now)]
           q == [r EXCEPT !.agent = a]
<1>3. Good(r, d)
  BY <1>1, Recomputed
<1>4. q = [m EXCEPT !.agent = a, !.errs = 0, !.enabled = e,
                    !.next = ComputeNextRunAfter(m.sched, now)]
  BY <1>1 DEF JobMeta
<1>5. q = [m EXCEPT !.agent = a, !.errs = 0,
                    !.next = ComputeNextRunAfter(m.sched, now), !.enabled = e]
  BY <1>1 DEF JobMeta
<1> HIDE DEF r
<1>6. Good(q, d)
  BY <1>3 DEF Good, JobMeta
<1>7. QED
  BY <1>2, <1>4, <1>5, <1>6

(* Moving the jobs of an agent to another keeps the table good.             *)
LEMMA ReassignAgentJobsGood ==
  ASSUME NEW table, GoodTable(table, lastDue), IInv, NEW old, NEW new \in Agents
  PROVE  GoodTable(ReassignAgentJobs(table, old, new), lastDue)
<1> DEFINE t == ReassignAgentJobs(table, old, new)
<1>1. ASSUME NEW j \in JobId
      PROVE  t[j] \in {Unborn, Removed} \/ Good(t[j], lastDue[j])
  <2>1. now \in Time /\ lastDue[j] \in Time \cup {Never} /\ lastDue[j] <= now
    BY DEF IInv, TypeOK
  <2>2. CASE table[j] \in {Unborn, Removed}
    BY <2>2 DEF ReassignAgentJobs
  <2>3. CASE table[j] \notin {Unborn, Removed} /\ table[j].agent # old
    BY <2>3 DEF ReassignAgentJobs, GoodTable
  <2>4. CASE table[j] \notin {Unborn, Removed} /\ table[j].agent = old
    <3> DEFINE m == table[j]
    <3>1. Good(m, lastDue[j])
      BY <2>4 DEF GoodTable
    <3>2. t[j] = [m EXCEPT !.agent = new, !.errs = 0]
          \/ t[j] = [m EXCEPT !.agent = new, !.errs = 0, !.enabled = TRUE,
                              !.next = ComputeNextRunAfter(m.sched, now)]
      BY <2>4 DEF ReassignAgentJobs
    <3>3. /\ Good([m EXCEPT !.agent = new, !.errs = 0], lastDue[j])
          /\ Good([m EXCEPT !.agent = new, !.errs = 0, !.enabled = TRUE,
                            !.next = ComputeNextRunAfter(m.sched, now)], lastDue[j])
      <4> HIDE DEF m
      <4> QED BY <2>1, <3>1, MovedGood
    <3>4. QED
      BY <3>2, <3>3
  <2>5. QED
    BY <2>2, <2>3, <2>4
<1>2. t = [j \in JobId |-> t[j]]
  BY DEF ReassignAgentJobs
<1> HIDE DEF t
<1>3. \A j \in JobId : t[j] \in JobMeta \cup {Unborn, Removed}
  BY <1>1 DEF Good
<1>4. QED
  BY <1>1, <1>2, <1>3 DEF GoodTable, t

(* So does moving the jobs of agents that are gone.                         *)
LEMMA ReassignFromMissingGood ==
  ASSUME IInv, NEW fallback \in Agents
  PROVE  GoodTable(ReassignFromMissing(jobs, fallback), lastDue)
<1> DEFINE t == ReassignFromMissing(jobs, fallback)
<1>1. ASSUME NEW j \in JobId
      PROVE  t[j] \in {Unborn, Removed} \/ Good(t[j], lastDue[j])
  <2>1. now \in Time /\ lastDue[j] \in Time \cup {Never} /\ lastDue[j] <= now
    BY DEF IInv, TypeOK
  <2>2. CASE jobs[j] \in {Unborn, Removed}
    BY <2>2 DEF ReassignFromMissing
  <2>3. CASE jobs[j] \notin {Unborn, Removed} /\ jobs[j].agent \in alive
    BY <2>3 DEF ReassignFromMissing, GoodTable, IInv
  <2>4. CASE jobs[j] \notin {Unborn, Removed} /\ jobs[j].agent \notin alive
    <3> DEFINE m == jobs[j]
               e == m.enabled \/ m.agentMissing
    <3>1. Good(m, lastDue[j])
      BY <2>4 DEF GoodTable, IInv
    <3>2. t[j] = [m EXCEPT !.agent = fallback, !.errs = 0,
                           !.next = ComputeNextRunAfter(m.sched, now), !.enabled = e]
      BY <2>4 DEF ReassignFromMissing
    <3>3. e \in BOOLEAN
      OBVIOUS
    <3>4. Good([m EXCEPT !.agent = fallback, !.errs = 0,
                         !.next = ComputeNextRunAfter(m.sched, now), !.enabled = e], lastDue[j])
      <4> HIDE DEF m, e
      <4> QED BY <2>1, <3>1, <3>3, MovedGood
    <3>5. QED
      BY <3>2, <3>4
  <2>5. QED
    BY <2>2, <2>3, <2>4
<1>2. t = [j \in JobId |-> t[j]]
  BY DEF ReassignFromMissing
<1> HIDE DEF t
<1>3. \A j \in JobId : t[j] \in JobMeta \cup {Unborn, Removed}
  BY <1>1 DEF Good
<1>4. QED
  BY <1>1, <1>2, <1>3 DEF GoodTable, t

-----------------------------------------------------------------------------
(* What reconcile_persisted_cron_jobs leaves.  A nonempty set of job ids    *)
(* has a lowest one: the survivor of a group of duplicates.                 *)
LEMMA LowestId ==
  ASSUME NEW T, T \subseteq JobId, T # {}
  PROVE  \E x \in T : \A y \in T : x <= y
<1>1. T \subseteq Nat
  BY ConstantsAssumption
<1>2. PICK x \in T : \A y \in T : <<y, x>> \notin OpToRel(<, Nat)
  BY <1>1, NatLessThanWellFounded, WFMin
<1>3. \A y \in T : ~(y < x)
  BY <1>1, <1>2 DEF OpToRel
<1>4. QED
  BY <1>1, <1>3

(* The jobs that moved keep their name, schedule and program, and every job *)
(* is on an agent of the registry.                                          *)
LEMMA MissingMoved ==
  ASSUME GoodTable(jobs, lastDue), now \in Time, alive \subseteq Agents,
         NEW fallback \in alive, NEW j \in JobId
  PROVE  LET m == ReassignFromMissing(jobs, fallback)[j] IN
         IF Live(j)
         THEN /\ m \notin {Unborn, Removed} /\ m.agent \in alive
              /\ m.name = jobs[j].name
              /\ m.sched = jobs[j].sched
              /\ m.program = jobs[j].program
         ELSE m = jobs[j]
<1> DEFINE m == ReassignFromMissing(jobs, fallback)[j]
<1>1. CASE ~Live(j)
  BY <1>1 DEF ReassignFromMissing, Live
<1>2. CASE Live(j) /\ jobs[j].agent \in alive
  BY <1>2 DEF ReassignFromMissing, Live
<1>3. CASE Live(j) /\ jobs[j].agent \notin alive
  <2>1. jobs[j] \in JobMeta
    BY <1>3 DEF GoodTable, Good, Live
  <2>2. m = [jobs[j] EXCEPT !.agent = fallback, !.errs = 0,
                            !.next = ComputeNextRunAfter(jobs[j].sched, now),
                            !.enabled = jobs[j].enabled \/ jobs[j].agentMissing]
    BY <1>3 DEF ReassignFromMissing, Live
  <2>3. m.agent = fallback /\ m.name = jobs[j].name /\ m.sched = jobs[j].sched
        /\ m.program = jobs[j].program
    BY <2>1, <2>2 DEF JobMeta
  <2>4. m \in JobMeta
    <3>1. ComputeNextRunAfter(jobs[j].sched, now) \in Nat
      BY <2>1, NextRun DEF JobMeta
    <3> DEFINE e == jobs[j].enabled \/ jobs[j].agentMissing
    <3>2. e \in BOOLEAN
      OBVIOUS
    <3>3. m = [jobs[j] EXCEPT !.agent = fallback, !.errs = 0,
                              !.next = ComputeNextRunAfter(jobs[j].sched, now), !.enabled = e]
      BY <2>2
    <3> HIDE DEF e, m
    <3>4. QED
      BY <2>1, <3>1, <3>2, <3>3 DEF JobMeta
  <2>5. m \notin {Unborn, Removed}
    BY <2>4, ConstantsAssumption
  <2>6. QED
    BY <1>3, <2>3, <2>5
<1>4. QED
  BY <1>1, <1>2, <1>3

(* dedupe_jobs_by_name leaves one job of each name, the lowest, unchanged.  *)
LEMMA DedupeByNameLeaves ==
  ASSUME NEW t
  PROVE  LET d == DedupeByName(t) IN
         /\ \A j \in JobId : d[j] \notin {Unborn, Removed} =>
              d[j] = t[j] /\ t[j] \notin {Unborn, Removed}
         /\ \A j, k \in JobId : /\ d[j] \notin {Unborn, Removed}
                                /\ d[k] \notin {Unborn, Removed}
                                /\ d[j].name = d[k].name
                                => j = k
         /\ \A j \in JobId : t[j] \notin {Unborn, Removed} =>
              \E k \in JobId : /\ k <= j
                               /\ t[k].name = t[j].name
                               /\ d[k] = t[k] /\ t[k] \notin {Unborn, Removed}
<1> DEFINE d == DedupeByName(t)
           On(j) == t[j] \notin {Unborn, Removed}
<1>1. \A j \in JobId :
        d[j] = IF On(j) /\ (\E k \in JobId : k < j /\ On(k) /\ t[k].name = t[j].name)
               THEN Removed ELSE t[j]
  BY DEF DedupeByName, Dedupe, SameName
<1> HIDE DEF d
<1>2. \A j \in JobId : d[j] \notin {Unborn, Removed} => d[j] = t[j] /\ On(j)
  BY <1>1
<1>3. \A j, k \in JobId :
        d[j] \notin {Unborn, Removed} /\ d[k] \notin {Unborn, Removed} /\ t[j].name = t[k].name
        => ~(j < k)
  BY <1>1
<1>4. ASSUME NEW j \in JobId, NEW k \in JobId, d[j] \notin {Unborn, Removed},
             d[k] \notin {Unborn, Removed}, d[j].name = d[k].name
      PROVE  j = k
  <2>1. t[j].name = t[k].name
    BY <1>2, <1>4
  <2>2. ~(j < k) /\ ~(k < j)
    BY <1>3, <1>4, <2>1
  <2>3. j \in Nat /\ k \in Nat
    BY ConstantsAssumption
  <2>4. QED
    BY <2>2, <2>3
<1>5. ASSUME NEW j \in JobId, On(j)
      PROVE  \E k \in JobId : k <= j /\ t[k].name = t[j].name /\ d[k] = t[k] /\ On(k)
  <2> DEFINE S == {k \in JobId : On(k) /\ t[k].name = t[j].name}
  <2>1. j \in S /\ S \subseteq JobId
    BY <1>5
  <2>2. PICK k \in S : \A y \in S : k <= y
    <3> HIDE DEF S
    <3> QED BY <2>1, LowestId
  <2>3. ~\E y \in JobId : y < k /\ On(y) /\ t[y].name = t[k].name
    BY <2>2, ConstantsAssumption
  <2>4. d[k] = t[k]
    BY <1>1, <2>3
  <2>5. QED
    BY <2>1, <2>2, <2>4
<1>6. QED
  BY <1>2, <1>4, <1>5 DEF d

(* dedupe_ainl_run_jobs_same_signature leaves one AinlRun of each agent,    *)
(* schedule and program, the lowest.                                        *)
LEMMA DedupeByProgramLeaves ==
  ASSUME NEW t
  PROVE  LET d == DedupeByProgram(t) IN
         /\ \A j \in JobId : d[j] \notin {Unborn, Removed} =>
              d[j] = t[j] /\ t[j] \notin {Unborn, Removed}
         /\ \A j, k \in JobId : /\ d[j] \notin {Unborn, Removed}
                                /\ d[k] \notin {Unborn, Removed}
                                /\ SameProgram(d[j], d[k])
                                => j = k
         /\ \A j \in JobId : t[j] \notin {Unborn, Removed} =>
              \/ d[j] = t[j]
              \/ \E k \in JobId : /\ k < j
                                  /\ SameProgram(t[k], t[j])
                                  /\ d[k] = t[k] /\ t[k] \notin {Unborn, Removed}
<1> DEFINE d == DedupeByProgram(t)
           On(j) == t[j] \notin {Unborn, Removed}
<1>1. \A j \in JobId :
        d[j] = IF On(j) /\ (\E k \in JobId : k < j /\ On(k) /\ SameProgram(t[k], t[j]))
               THEN Removed ELSE t[j]
  BY DEF DedupeByProgram, Dedupe
<1> HIDE DEF d
<1>0. \A a, b, c : /\ SameProgram(a, b) => SameProgram(b, a)
                   /\ SameProgram(a, b) /\ SameProgram(b, c) => SameProgram(a, c)
  BY DEF SameProgram
<1>2. \A j \in JobId : d[j] \notin {Unborn, Removed} => d[j] = t[j] /\ On(j)
  BY <1>1
<1>3. \A j, k \in JobId :
        d[j] \notin {Unborn, Removed} /\ d[k] \notin {Unborn, Removed} /\ SameProgram(t[j], t[k])
        => ~(j < k)
  BY <1>1
<1>4. ASSUME NEW j \in JobId, NEW k \in JobId, d[j] \notin {Unborn, Removed},
             d[k] \notin {Unborn, Removed}, SameProgram(d[j], d[k])
      PROVE  j = k
  <2>1. SameProgram(t[j], t[k]) /\ SameProgram(t[k], t[j])
    BY <1>0, <1>2, <1>4
  <2>2. ~(j < k) /\ ~(k < j)
    BY <1>3, <1>4, <2>1
  <2>3. j \in Nat /\ k \in Nat
    BY ConstantsAssumption
  <2>4. QED
    BY <2>2, <2>3
<1>5. ASSUME NEW j \in JobId, On(j), d[j] # t[j]
      PROVE  \E k \in JobId : k < j /\ SameProgram(t[k], t[j]) /\ d[k] = t[k] /\ On(k)
  <2> DEFINE S == {k \in JobId : k < j /\ On(k) /\ SameProgram(t[k], t[j])}
  <2>1. S # {} /\ S \subseteq JobId
    BY <1>1, <1>5
  <2>2. PICK k \in S : \A y \in S : k <= y
    <3> HIDE DEF S
    <3> QED BY <2>1, LowestId
  <2>3. ASSUME NEW y \in JobId, y < k, On(y), SameProgram(t[y], t[k]) PROVE FALSE
    <3>1. y < j
      BY <2>2, <2>3, ConstantsAssumption
    <3>2. y \in S
      BY <1>0, <2>2, <2>3, <3>1
    <3>3. QED
      BY <2>2, <2>3, <3>2, ConstantsAssumption
  <2>4. d[k] = t[k]
    BY <1>1, <2>3
  <2>5. QED
    BY <2>2, <2>4
<1>6. QED
  BY <1>2, <1>4, <1>5 DEF d

-----------------------------------------------------------------------------
(* The invariant holds at the start.                                        *)
LEMMA InitIInv == Init => IInv
<1> SUFFICES ASSUME Init PROVE IInv
  OBVIOUS
<1>1. now = 0 /\ 0 \in Time /\ Never <= 0
  BY ConstantsAssumption DEF Init, Time, Never
<1>2. TypeOK
  BY <1>1, ConstantsAssumption DEF Init, TypeOK, Never, Runners
<1>3. \A j \in JobId : jobs[j] = Unborn /\ lastDue[j] = Never
  BY DEF Init
<1>4. QED
  BY <1>1, <1>2, <1>3 DEF IInv, GoodTable, TypeOK

(* A run holds a snapshot of a job and of its agent.                        *)
LEMMA RunFacts ==
  ASSUME IInv, NEW r \in Runners, run[r] # Idle
  PROVE  /\ run[r] \in Run
         /\ run[r].snap.job \in JobId
         /\ run[r].snap.agent \in Agents
<1>1. run[r] \in Run
  BY DEF IInv, TypeOK
<1>2. QED
  BY <1>1 DEF Run, Snapshot

(* Every step keeps the table good; the rest of the state keeps its type.   *)
LEMMA NextIInv == IInv /\ [Next]_vars => IInv'
<1> SUFFICES ASSUME IInv, [Next]_vars PROVE IInv'
  OBVIOUS
<1>0. /\ TypeOK
      /\ now \in Time /\ now \in Nat /\ MaxTime \in Nat
      /\ GoodTable(jobs, lastDue)
      /\ \A j \in JobId : lastDue[j] \in Time \cup {Never} /\ lastDue[j] <= now
      /\ \A j \in JobId : Live(j) => Good(jobs[j], lastDue[j]) /\ jobs[j] \in JobMeta
  BY ConstantsAssumption DEF IInv, TypeOK, Time, GoodTable, Live, Good
<1> DEFINE Rest == /\ now' \in Time
                   /\ edit' \in JobId \cup {Idle}
                   /\ alive' \subseteq Agents
                   /\ hands' \in [active : Nat, paused : Nat]
                   /\ queue' \subseteq Snapshot
                   /\ run' \in [Runners -> Run \cup {Idle}]
                   /\ lastDue' \in [JobId -> Time \cup {Never}]
                   /\ \A j \in JobId : lastDue'[j] <= now'
<1>00. Rest /\ GoodTable(jobs', lastDue') => IInv'
  BY DEF IInv, TypeOK, GoodTable
<1>a. UNCHANGED <<now, edit, alive, hands, queue, run, lastDue>> => Rest
  BY <1>0 DEF TypeOK
<1>1. CASE UNCHANGED vars
  BY <1>0, <1>00, <1>1 DEF vars, TypeOK
<1>2. CASE Elapse
  <2>1. now' \in Time /\ \A j \in JobId : lastDue'[j] <= now'
    BY <1>0, <1>2 DEF Elapse, Time, Never
  <2>2. QED
    BY <1>0, <1>00, <1>2, <2>1 DEF Elapse, TypeOK
<1>3. ASSUME NEW j \in JobId, NEW def \in JobInputs, AddJob(j, def) PROVE IInv'
  <2>1. Good(NewMeta(def), lastDue[j])
    BY <1>0, NewMetaGood
  <2>2. jobs' = [jobs EXCEPT ![j] = NewMeta(def)] /\ lastDue' = lastDue
    BY <1>3 DEF AddJob
  <2>3. GoodTable(jobs', lastDue')
    BY <1>0, <2>1, <2>2, EntryUpdate
  <2>4. QED
    BY <1>00, <1>3, <1>a, <2>3 DEF AddJob
<1>4. ASSUME NEW j \in JobId, RemoveJob(j) PROVE IInv'
  <2>1. jobs' = [jobs EXCEPT ![j] = Removed] /\ lastDue' = lastDue
    BY <1>4 DEF RemoveJob
  <2>2. GoodTable(jobs', lastDue')
    BY <1>0, <2>1, EntryUpdate
  <2>3. QED
    BY <1>00, <1>4, <1>a, <2>2 DEF RemoveJob
<1>5. ASSUME NEW j \in JobId, UpdateJobLookup(j) PROVE IInv'
  BY <1>0, <1>00, <1>5 DEF UpdateJobLookup, TypeOK
<1>6. ASSUME NEW def \in JobInputs, UpdateJobWrite(def) PROVE IInv'
  <2>1. CASE Live(edit) /\ Valid(def, JobsOf(def.agent) \ {edit})
    <3>1. edit \in JobId
      BY <1>0, <1>6 DEF UpdateJobWrite, TypeOK
    <3>2. /\ jobs' = [jobs EXCEPT ![edit] = Rewritten(jobs[edit], def)]
          /\ lastDue' = [lastDue EXCEPT ![edit] = Never]
      BY <1>6, <2>1 DEF UpdateJobWrite
    <3>3. Good(Rewritten(jobs[edit], def), Never)
      BY <1>0, <2>1, <3>1, RewrittenGood
    <3>4. GoodTable(jobs, lastDue')
      <4>1. \A j \in JobId : Live(j) => Good(jobs[j], lastDue'[j])
        BY <1>0, <3>1, <3>2 DEF TypeOK, Good
      <4>2. QED
        BY <1>0, <4>1 DEF GoodTable, Live
    <3>5. lastDue'[edit] = Never /\ \A j \in JobId : lastDue'[j] \in {lastDue[j], Never}
      BY <1>0, <3>1, <3>2 DEF TypeOK
    <3>6. GoodTable(jobs', lastDue')
      BY <3>1, <3>2, <3>3, <3>4, <3>5, EntryUpdate
    <3>7. lastDue' \in [JobId -> Time \cup {Never}]
      BY <1>0, <3>2 DEF TypeOK
    <3>8. Never <= now
      BY <1>0 DEF Never
    <3>9. QED
      BY <1>0, <1>00, <1>6, <3>5, <3>6, <3>7, <3>8 DEF UpdateJobWrite, TypeOK
  <2>2. CASE ~(Live(edit) /\ Valid(def, JobsOf(def.agent) \ {edit}))
    BY <1>0, <1>00, <1>6, <2>2 DEF UpdateJobWrite, TypeOK
  <2>3. QED
    BY <2>1, <2>2
<1>7. ASSUME NEW j \in JobId, NEW e \in BOOLEAN, SetEnabled(j, e) PROVE IInv'
  <2> DEFINE v == IF e THEN Reenabled(jobs[j]) ELSE [jobs[j] EXCEPT !.enabled = FALSE]
  <2>1. Good(Reenabled(jobs[j]), lastDue[j]) /\ Good([jobs[j] EXCEPT !.enabled = FALSE], lastDue[j])
    BY <1>0, <1>7, ReenabledGood, DisabledGood DEF SetEnabled
  <2>2. Good(v, lastDue[j])
    BY <2>1
  <2>3. jobs' = [jobs EXCEPT ![j] = v] /\ lastDue' = lastDue
    BY <1>7 DEF SetEnabled
  <2> HIDE DEF v
  <2>4. GoodTable(jobs', lastDue')
    BY <1>0, <2>2, <2>3, EntryUpdate
  <2>5. QED
    BY <1>00, <1>7, <1>a, <2>4 DEF SetEnabled
<1>8. ASSUME NEW a \in Agents, SpawnAgent(a) PROVE IInv'
  BY <1>0, <1>00, <1>8 DEF SpawnAgent, TypeOK
<1>9. ASSUME NEW a \in Agents, KillAgent(a) PROVE IInv'
  <2>1. GoodTable(jobs', lastDue')
    BY <1>0, <1>9, RemoveAgentJobsGood DEF KillAgent
  <2>2. QED
    BY <1>0, <1>00, <1>9, <2>1 DEF KillAgent, TypeOK
<1>10. ASSUME NEW spawned \in BOOLEAN, ActivateHand(spawned) PROVE IInv'
  <2>1. HandAgent \in Agents
    BY ConstantsAssumption
  <2>2. /\ GoodTable(RemoveAgentJobs(jobs, HandAgent), lastDue)
        /\ GoodTable(ReassignAgentJobs(RemoveAgentJobs(jobs, HandAgent), HandAgent, HandAgent),
                     lastDue)
    BY <1>0, <2>1, RemoveAgentJobsGood, ReassignAgentJobsGood
  <2>3. GoodTable(jobs', lastDue')
    BY <1>0, <1>10, <2>2 DEF ActivateHand
  <2>4. alive' \subseteq Agents
    BY <1>0, <1>10, <2>1 DEF ActivateHand, TypeOK
  <2>5. hands' \in [active : Nat, paused : Nat]
    BY <1>0, <1>10 DEF ActivateHand, TypeOK
  <2>6. QED
    BY <1>0, <1>00, <1>10, <2>3, <2>4, <2>5 DEF ActivateHand, TypeOK
<1>11. CASE PauseHand \/ ResumeHand
  <2>1. hands' \in [active : Nat, paused : Nat]
    BY <1>0, <1>11 DEF PauseHand, ResumeHand, TypeOK
  <2>2. QED
    BY <1>0, <1>00, <1>11, <2>1 DEF PauseHand, ResumeHand, TypeOK
<1>12. CASE DeactivateHand
  <2>1. GoodTable(jobs', lastDue')
    BY <1>0, <1>12, RemoveAgentJobsGood DEF DeactivateHand
  <2>2. hands' \in [active : Nat, paused : Nat]
    BY <1>0, <1>12 DEF DeactivateHand, TypeOK
  <2>3. QED
    BY <1>0, <1>00, <1>12, <2>1, <2>2 DEF DeactivateHand, TypeOK
<1>13. CASE ReconcileJobs
  <2>1. PICK fallback \in alive :
          jobs' = DedupeByProgram(DedupeByName(ReassignFromMissing(jobs, fallback)))
    BY <1>13 DEF ReconcileJobs, Reconciled
  <2>2. fallback \in Agents
    BY <1>0 DEF TypeOK
  <2>3. GoodTable(jobs', lastDue)
    BY <2>1, <2>2, ReassignFromMissingGood, DedupeGood
  <2>4. QED
    BY <1>00, <1>13, <1>a, <2>3 DEF ReconcileJobs
<1>14. CASE DueJobs
  <2> DEFINE due == {j \in JobId : Due(j)}
  <2>1. /\ queue' = {[job |-> j, agent |-> jobs[j].agent] : j \in due}
        /\ jobs' = [j \in JobId |-> IF j \in due THEN PreAdvanced(jobs[j]) ELSE jobs[j]]
        /\ lastDue' = [j \in JobId |-> IF j \in due THEN now ELSE lastDue[j]]
        /\ UNCHANGED <<now, edit, alive, hands, run>>
    BY <1>14 DEF DueJobs
  <2>2. \A j \in due : j \in JobId /\ Live(j) /\ Good(PreAdvanced(jobs[j]), now)
    BY <1>0, PreAdvancedGood DEF Due
  <2>3. \A j \in due : jobs[j].agent \in Agents
    BY <1>0, <2>2 DEF JobMeta
  <2> HIDE DEF due
  <2>4. queue' \subseteq Snapshot
    BY <2>1, <2>2, <2>3 DEF Snapshot
  <2>5. ASSUME NEW j \in JobId
        PROVE  jobs'[j] \in {Unborn, Removed} \/ Good(jobs'[j], lastDue'[j])
    BY <1>0, <2>1, <2>2 DEF Live
  <2>6. jobs' \in [JobId -> JobMeta \cup {Unborn, Removed}]
    BY <1>0, <2>1, <2>2 DEF Good, GoodTable
  <2>7. GoodTable(jobs', lastDue')
    BY <2>5, <2>6 DEF GoodTable
  <2>8. lastDue' \in [JobId -> Time \cup {Never}] /\ \A j \in JobId : lastDue'[j] <= now'
    BY <1>0, <2>1 DEF TypeOK
  <2>9. QED
    BY <1>0, <1>00, <2>1, <2>4, <2>7, <2>8 DEF TypeOK
<1>15. CASE StartDue
  <2>1. PICK q \in queue : run' = [run EXCEPT ![Tick] = [snap |-> q, phase |-> "executing"]]
    BY <1>15 DEF StartDue
  <2>2. [snap |-> q, phase |-> "executing"] \in Run
    BY <1>0 DEF Run, TypeOK
  <2>3. run' \in [Runners -> Run \cup {Idle}]
    BY <1>0, <2>1, <2>2 DEF TypeOK
  <2>4. queue' \subseteq Snapshot
    BY <1>0, <1>15 DEF StartDue, TypeOK
  <2>5. QED
    BY <1>0, <1>00, <1>15, <2>3, <2>4 DEF StartDue, TypeOK
<1>16. ASSUME NEW r \in ManualRunners, NEW j \in JobId, TryClaimForRun(r, j) PROVE IInv'
  <2>1. Good(SkipOverdue(jobs[j]), lastDue[j])
    BY <1>0, <1>16, SkipOverdueGood DEF TryClaimForRun
  <2>2. jobs' = [jobs EXCEPT ![j] = SkipOverdue(jobs[j])] /\ lastDue' = lastDue
    BY <1>16 DEF TryClaimForRun
  <2>3. GoodTable(jobs', lastDue')
    BY <1>0, <2>1, <2>2, EntryUpdate
  <2> DEFINE c == [snap |-> [job |-> j, agent |-> jobs[j].agent], phase |-> "executing"]
  <2>4. c \in Run
    BY <1>0, <1>16 DEF TryClaimForRun, Run, Snapshot, JobMeta
  <2>5. run' = [run EXCEPT ![r] = c] /\ UNCHANGED <<now, edit, alive, hands, queue, lastDue>>
    BY <1>16 DEF TryClaimForRun
  <2> HIDE DEF c
  <2>6. QED
    BY <1>0, <1>00, <2>3, <2>4, <2>5 DEF TypeOK
<1>16a. ASSUME NEW r \in ManualRunners, NEW j \in JobId, RunFromChat(r, j) PROVE IInv'
  <2> DEFINE c == [snap |-> [job |-> j, agent |-> jobs[j].agent], phase |-> "executing"]
  <2>1. c \in Run
    BY <1>0, <1>16a DEF RunFromChat, Run, Snapshot, JobMeta
  <2>2. run' = [run EXCEPT ![r] = c] /\ UNCHANGED <<now, jobs, edit, alive, hands, queue, lastDue>>
    BY <1>16a DEF RunFromChat
  <2> HIDE DEF c
  <2>3. QED
    BY <1>0, <1>00, <2>1, <2>2 DEF TypeOK
<1>17. ASSUME NEW r \in Runners, RecordSuccess(r) PROVE IInv'
  <2> DEFINE j == run[r].snap.job
  <2>1. run[r] \in Run /\ j \in JobId
    BY <1>17, RunFacts DEF RecordSuccess
  <2>2. UNCHANGED <<now, edit, alive, hands, queue, lastDue>>
    BY <1>17 DEF RecordSuccess
  <2>3. CASE Live(j)
    <3>1. /\ jobs' = [jobs EXCEPT ![j] = AfterSuccess(jobs[j])]
          /\ run' = [run EXCEPT ![r] = IF jobs[j].oneShot
                                       THEN [run[r] EXCEPT !.phase = "removing"] ELSE Idle]
      BY <1>17, <2>3 DEF RecordSuccess
    <3>2. [run[r] EXCEPT !.phase = "removing"] \in Run
      BY <2>1 DEF Run
    <3>3. run' \in [Runners -> Run \cup {Idle}]
      BY <1>0, <3>1, <3>2 DEF TypeOK
    <3> HIDE DEF j
    <3>4. Good(AfterSuccess(jobs[j]), lastDue[j])
      BY <1>0, <2>1, <2>3, AfterSuccessGood
    <3>5. GoodTable(jobs', lastDue')
      BY <1>0, <2>1, <2>2, <3>1, <3>4, EntryUpdate
    <3>6. QED
      BY <1>0, <1>00, <2>2, <3>3, <3>5 DEF TypeOK
  <2>4. CASE ~Live(j)
    BY <1>0, <1>00, <1>17, <2>4 DEF RecordSuccess, TypeOK
  <2>5. QED
    BY <2>3, <2>4
<1>18. ASSUME NEW r \in Runners, RemoveOneShot(r) PROVE IInv'
  <2> DEFINE j == run[r].snap.job
  <2>1. j \in JobId
    BY <1>18, RunFacts DEF RemoveOneShot
  <2>2. /\ jobs' = IF Live(j) THEN [jobs EXCEPT ![j] = Removed] ELSE jobs
        /\ run' = [run EXCEPT ![r] = Idle]
        /\ UNCHANGED <<now, edit, alive, hands, queue, lastDue>>
    BY <1>18 DEF RemoveOneShot
  <2> HIDE DEF j
  <2>3. GoodTable(jobs', lastDue')
    BY <1>0, <2>1, <2>2, EntryUpdate
  <2>4. QED
    BY <1>0, <1>00, <2>2, <2>3 DEF TypeOK
<1>19. ASSUME NEW r \in Runners, RecordFailure(r) PROVE IInv'
  <2> DEFINE j == run[r].snap.job
  <2>0. PICK missing \in BOOLEAN :
          jobs' = IF Live(j) THEN [jobs EXCEPT ![j] = AfterFailure(jobs[j], missing)] ELSE jobs
    BY <1>19 DEF RecordFailure
  <2>1. j \in JobId
    BY <1>19, RunFacts DEF RecordFailure
  <2>2. /\ jobs' = IF Live(j) THEN [jobs EXCEPT ![j] = AfterFailure(jobs[j], missing)] ELSE jobs
        /\ run' = [run EXCEPT ![r] = Idle]
        /\ UNCHANGED <<now, edit, alive, hands, queue, lastDue>>
    BY <1>19, <2>0 DEF RecordFailure
  <2> HIDE DEF j
  <2>3. Live(j) => Good(AfterFailure(jobs[j], missing), lastDue[j])
    BY <1>0, <2>1, AfterFailureGood
  <2>4. GoodTable(jobs', lastDue')
    BY <1>0, <2>1, <2>2, <2>3, EntryUpdate
  <2>5. QED
    BY <1>0, <1>00, <2>2, <2>4 DEF TypeOK
<1>20. QED
  BY <1>1, <1>2, <1>3, <1>4, <1>5, <1>6, <1>7, <1>8, <1>9, <1>10, <1>11, <1>12, <1>13,
     <1>14, <1>15, <1>16, <1>16a, <1>17, <1>18, <1>19
     DEF Next, Crud, AgentChange, Outcome, ManualRun

-----------------------------------------------------------------------------
(* The inductive invariant holds in every reachable state.                  *)
THEOREM Invariance == Spec => []IInv
<1>1. Init => IInv
  BY InitIInv
<1>2. IInv /\ [Next]_vars => IInv'
  BY NextIInv
<1>3. QED
  BY <1>1, <1>2, PTL DEF Spec

(* The job table, the tick loop and the runners are always well typed: in   *)
(* particular every job in the table has a next_run.                        *)
THEOREM TypeCorrect == Spec => []TypeOK
<1>1. IInv => TypeOK
  BY DEF IInv
<1>2. QED
  BY <1>1, Invariance, PTL

(* No interleaving leaves an enabled job at its error budget.               *)
THEOREM ErrorBudgetHolds == Spec => []ErrorBudget
<1>1. IInv => ErrorBudget
  BY DEF IInv, ErrorBudget, GoodTable, Good, Live
<1>2. QED
  BY <1>1, Invariance, PTL

(* The tick never fires an interval job twice within its interval.          *)
THEOREM IntervalHolds == Spec => IntervalRespected
<1>1. IInv /\ [Next]_vars => [IntervalStep]_vars
  <2> SUFFICES ASSUME IInv, Next PROVE IntervalStep
    BY DEF vars, IntervalStep
  <2> SUFFICES ASSUME NEW j \in JobId, Live(j), jobs[j].sched.kind = "every",
                      lastDue[j] # Never, lastDue'[j] # lastDue[j], lastDue'[j] # Never
               PROVE  lastDue'[j] >= lastDue[j] + jobs[j].sched.t
    BY DEF IntervalStep
  <2>1. Due(j) /\ lastDue'[j] = now
    <3>1. CASE DueJobs
      BY <3>1 DEF DueJobs
    <3>2. ASSUME NEW def \in JobInputs, UpdateJobWrite(def) PROVE FALSE
      <4>1. lastDue' = lastDue \/ lastDue' = [lastDue EXCEPT ![edit] = Never]
        BY <3>2 DEF UpdateJobWrite
      <4>2. lastDue'[j] \in {lastDue[j], Never}
        BY <4>1 DEF IInv, TypeOK
      <4>3. QED
        BY <4>2
    <3>3. CASE ~DueJobs /\ ~\E def \in JobInputs : UpdateJobWrite(def)
      <4>1. lastDue' = lastDue
        BY <3>3 DEF Next, Crud, AgentChange, Outcome, ManualRun, Elapse, AddJob, RemoveJob,
                    UpdateJobLookup, SetEnabled, SpawnAgent, KillAgent, ActivateHand, PauseHand, ResumeHand,
                    DeactivateHand, ReconcileJobs, StartDue, TryClaimForRun, RunFromChat, RecordSuccess,
                    RemoveOneShot, RecordFailure
      <4>2. QED
        BY <4>1
    <3>4. QED
      BY <3>1, <3>2, <3>3
  <2>2. jobs[j].next >= lastDue[j] + jobs[j].sched.t /\ jobs[j] \in JobMeta
    BY DEF IInv, GoodTable, Good, Live
  <2>3. jobs[j].next <= now
    BY <2>1 DEF Due
  <2>4. now \in Int /\ lastDue[j] \in Int /\ jobs[j].next \in Int /\ jobs[j].sched.t \in Int
    <3>1. jobs[j].sched \in Schedules /\ jobs[j].next \in Int /\ now \in Time
      BY <2>2 DEF JobMeta, IInv, TypeOK
    <3>2. now \in Int /\ lastDue[j] \in Int
      BY <3>1, ConstantsAssumption DEF IInv, TypeOK, Time, Never
    <3>3. jobs[j].sched.t \in Int
      BY <3>1, NextRun
    <3>4. QED
      BY <3>1, <3>2, <3>3
  <2>5. QED
    BY <2>1, <2>2, <2>3, <2>4
<1>2. QED
  BY <1>1, Invariance, PTL DEF Spec, IntervalRespected

(* A deleted job never comes back.                                          *)
THEOREM RemovedHolds == Spec => RemovedStaysRemoved
<1>1. IInv /\ [Next]_vars => [RemovedStep]_vars
  <2> SUFFICES ASSUME IInv, [Next]_vars, NEW j \in JobId, jobs[j] = Removed
               PROVE  jobs'[j] = Removed
    BY DEF RemovedStep
  <2>0. jobs \in [JobId -> JobMeta \cup {Unborn, Removed}] /\ ~Live(j) /\ jobs[j] # Unborn
    BY ConstantsAssumption DEF IInv, TypeOK, Live
  <2>1. CASE UNCHANGED jobs
    BY <2>1
  <2>2. ASSUME NEW k \in JobId, k # j, NEW v, jobs' = [jobs EXCEPT ![k] = v]
        PROVE  jobs'[j] = Removed
    BY <2>0, <2>2
  <2>3. ASSUME NEW k \in JobId, NEW def \in JobInputs, AddJob(k, def) PROVE jobs'[j] = Removed
    BY <2>0, <2>2, <2>3 DEF AddJob
  <2>4. ASSUME NEW k \in JobId, RemoveJob(k) PROVE jobs'[j] = Removed
    BY <2>0, <2>2, <2>4 DEF RemoveJob
  <2>5. ASSUME NEW def \in JobInputs, UpdateJobWrite(def) PROVE jobs'[j] = Removed
    <3>1. edit \in JobId
      BY <2>5 DEF UpdateJobWrite, IInv, TypeOK
    <3>2. QED
      BY <2>0, <2>1, <2>2, <2>5, <3>1 DEF UpdateJobWrite
  <2>6. ASSUME NEW k \in JobId, NEW e \in BOOLEAN, SetEnabled(k, e) PROVE jobs'[j] = Removed
    BY <2>0, <2>2, <2>6 DEF SetEnabled
  <2>7. \A t, a, b : t[j] = Removed =>
          /\ RemoveAgentJobs(t, a)[j] = Removed
          /\ ReassignAgentJobs(t, a, b)[j] = Removed
          /\ ReassignFromMissing(t, a)[j] = Removed
          /\ DedupeByName(t)[j] = Removed
          /\ DedupeByProgram(t)[j] = Removed
    BY DEF RemoveAgentJobs, ReassignAgentJobs, ReassignFromMissing, DedupeByName,
           DedupeByProgram, Dedupe
  <2>8. CASE AgentChange
    <3>1. CASE ReconcileJobs
      <4>1. PICK fallback \in alive :
              jobs' = DedupeByProgram(DedupeByName(ReassignFromMissing(jobs, fallback)))
        BY <3>1 DEF ReconcileJobs, Reconciled
      <4>2. DedupeByName(ReassignFromMissing(jobs, fallback))[j] = Removed
        BY <2>7
      <4>3. QED
        BY <2>7, <4>1, <4>2
    <3>2. ASSUME NEW spawned \in BOOLEAN, ActivateHand(spawned) PROVE jobs'[j] = Removed
      <4>1. /\ RemoveAgentJobs(jobs, HandAgent)[j] = Removed
            /\ ReassignAgentJobs(RemoveAgentJobs(jobs, HandAgent), HandAgent, HandAgent)[j] = Removed
        BY <2>7
      <4>2. QED
        BY <3>2, <4>1 DEF ActivateHand
    <3>3. ASSUME NEW a \in Agents, KillAgent(a) PROVE jobs'[j] = Removed
      BY <2>7, <3>3 DEF KillAgent
    <3>4. CASE DeactivateHand
      BY <2>7, <3>4 DEF DeactivateHand
    <3>5. CASE (\E a \in Agents : SpawnAgent(a)) \/ PauseHand \/ ResumeHand
      BY <2>1, <3>5 DEF SpawnAgent, PauseHand, ResumeHand
    <3>6. QED
      BY <2>8, <3>1, <3>2, <3>3, <3>4, <3>5 DEF AgentChange
  <2>9. CASE DueJobs
    BY <2>0, <2>9 DEF DueJobs, Due
  <2>10. ASSUME NEW r \in ManualRunners, NEW k \in JobId, TryClaimForRun(r, k)
         PROVE  jobs'[j] = Removed
    BY <2>0, <2>2, <2>10 DEF TryClaimForRun
  <2>11. ASSUME NEW r \in Runners, Outcome(r) PROVE jobs'[j] = Removed
    <3>1. run[r].snap.job \in JobId
      BY <2>11, RunFacts DEF Outcome, RecordSuccess, RemoveOneShot, RecordFailure
    <3>2. QED
      BY <2>0, <2>2, <2>11, <3>1 DEF Outcome, RecordSuccess, RemoveOneShot, RecordFailure
  <2>12. QED
    BY <2>1, <2>3, <2>4, <2>5, <2>6, <2>8, <2>9, <2>10, <2>11
       DEF Next, vars, Crud, ManualRun, RunFromChat, Elapse, StartDue, UpdateJobLookup
<1>2. QED
  BY <1>1, Invariance, PTL DEF Spec, RemovedStaysRemoved

(* An on-demand run and the outcome of any run leave a scheduled fire that  *)
(* is still ahead where it is.                                              *)
THEOREM KeepsScheduleHolds == Spec => ManualRunKeepsSchedule
<1>1. IInv /\ [Next]_vars => [KeepsScheduleStep]_vars
  <2> SUFFICES ASSUME IInv, ManualRun \/ (\E r \in Runners : Outcome(r)),
                      NEW j \in JobId, Live(j), jobs[j].next > now, jobs'[j] # Removed
               PROVE  jobs'[j].next = jobs[j].next
    BY DEF KeepsScheduleStep
  <2>0. /\ jobs \in [JobId -> JobMeta \cup {Unborn, Removed}]
        /\ Good(jobs[j], lastDue[j])
        /\ now \in Time /\ lastDue[j] \in Time \cup {Never} /\ lastDue[j] <= now
    BY DEF IInv, TypeOK, GoodTable, Live
  <2>1. ASSUME NEW k \in JobId, NEW v, jobs' = [jobs EXCEPT ![k] = v],
               k = j => v.next = jobs[j].next
        PROVE  jobs'[j].next = jobs[j].next
    BY <2>0, <2>1
  <2>2. CASE ManualRun
    <3>1. PICK r \in ManualRunners, k \in JobId : TryClaimForRun(r, k) \/ RunFromChat(r, k)
      BY <2>2 DEF ManualRun
    <3>2. SkipOverdue(jobs[j]).next = jobs[j].next
      BY <2>0, SkipOverdueGood
    <3>3. QED
      BY <2>1, <3>1, <3>2 DEF TryClaimForRun, RunFromChat
  <2>3. ASSUME NEW r \in Runners, Outcome(r) PROVE jobs'[j].next = jobs[j].next
    <3>1. run[r].snap.job \in JobId
      BY <2>3, RunFacts DEF Outcome, RecordSuccess, RemoveOneShot, RecordFailure
    <3>2. AfterSuccess(jobs[j]).next = jobs[j].next
      BY <2>0, AfterSuccessGood
    <3>3. \A missing \in BOOLEAN : AfterFailure(jobs[j], missing).next = jobs[j].next
      BY <2>0, AfterFailureGood
    <3>4. CASE RecordSuccess(r)
      BY <2>1, <3>1, <3>2, <3>4 DEF RecordSuccess
    <3>5. CASE RemoveOneShot(r)
      BY <2>0, <3>1, <3>5 DEF RemoveOneShot
    <3>6. CASE RecordFailure(r)
      BY <2>1, <3>1, <3>3, <3>6 DEF RecordFailure
    <3>7. QED
      BY <2>3, <3>4, <3>5, <3>6 DEF Outcome
  <2>4. QED
    BY <2>2, <2>3
<1>2. QED
  BY <1>1, Invariance, PTL DEF Spec, ManualRunKeepsSchedule

(* Reconciling a table (reconcile_persisted_cron_jobs) leaves every job a   *)
(* registered agent and no duplicates, and drops no job without a reason.   *)
THEOREM ReconcileHolds == Spec => []ReconcileClean
<1>1. IInv => ReconcileClean
  <2> SUFFICES ASSUME IInv, NEW fallback \in alive PROVE LeavesClean(Reconciled(jobs, fallback))
    BY DEF ReconcileClean
  <2>0. GoodTable(jobs, lastDue) /\ now \in Time /\ alive \subseteq Agents
    BY DEF IInv, TypeOK
  <2> DEFINE t == ReassignFromMissing(jobs, fallback)
             d == DedupeByName(t)
             r == Reconciled(jobs, fallback)
             left == {j \in JobId : r[j] \notin {Unborn, Removed}}
  <2>2. \A j \in JobId : t[j] \notin {Unborn, Removed} => Live(j)
    BY <2>0, MissingMoved DEF Live
  <2>3. \A j \in JobId : Live(j) => /\ t[j] \notin {Unborn, Removed}
                                    /\ t[j].agent \in alive
                                    /\ t[j].name = jobs[j].name
                                    /\ t[j].sched = jobs[j].sched
                                    /\ t[j].program = jobs[j].program
    BY <2>0, MissingMoved
  <2>4. /\ \A j \in JobId : d[j] \notin {Unborn, Removed} =>
             d[j] = t[j] /\ t[j] \notin {Unborn, Removed}
        /\ \A j, k \in JobId : /\ d[j] \notin {Unborn, Removed}
                               /\ d[k] \notin {Unborn, Removed}
                               /\ d[j].name = d[k].name
                               => j = k
        /\ \A j \in JobId : t[j] \notin {Unborn, Removed} =>
             \E k \in JobId : /\ k <= j
                              /\ t[k].name = t[j].name
                              /\ d[k] = t[k] /\ t[k] \notin {Unborn, Removed}
    <3> HIDE DEF t
    <3> QED BY DedupeByNameLeaves
  <2>5. /\ \A j \in JobId : r[j] \notin {Unborn, Removed} =>
             r[j] = d[j] /\ d[j] \notin {Unborn, Removed}
        /\ \A j, k \in JobId : /\ r[j] \notin {Unborn, Removed}
                               /\ r[k] \notin {Unborn, Removed}
                               /\ SameProgram(r[j], r[k])
                               => j = k
        /\ \A j \in JobId : d[j] \notin {Unborn, Removed} =>
             \/ r[j] = d[j]
             \/ \E k \in JobId : /\ k < j
                                 /\ SameProgram(d[k], d[j])
                                 /\ r[k] = d[k] /\ d[k] \notin {Unborn, Removed}
    <3>1. r = DedupeByProgram(d)
      BY DEF Reconciled
    <3> HIDE DEF d, r
    <3> QED BY <3>1, DedupeByProgramLeaves
  <2> HIDE DEF t, d, r
  <2>6. \A j \in left : r[j] = t[j] /\ d[j] = t[j] /\ Live(j)
    BY <2>2, <2>4, <2>5
  <2>7. \A j \in left : r[j].agent \in alive
    BY <2>0, <2>3, <2>6
  <2>8. ASSUME NEW j \in left, NEW k \in left, j # k
        PROVE  /\ r[j].name # r[k].name
               /\ \/ r[j].program = NoProgram
                  \/ \E f \in {"agent", "sched", "program"} : r[j][f] # r[k][f]
    <3>1. r[j].name # r[k].name
      BY <2>4, <2>5, <2>8
    <3>2. ~SameProgram(r[j], r[k])
      BY <2>5, <2>8
    <3>3. QED
      BY <3>1, <3>2 DEF SameProgram
  <2>9. ASSUME NEW j \in LiveJobs
        PROVE  \E k \in LiveJobs :
                 /\ k <= j
                 /\ jobs[k].name = jobs[j].name
                 /\ \/ k \in left
                    \/ \E l \in left : /\ l < k
                                       /\ r[l].program = jobs[k].program
                                       /\ r[l].program # NoProgram
                                       /\ r[l].sched = jobs[k].sched
    <3>1. j \in JobId /\ Live(j) /\ t[j] \notin {Unborn, Removed}
      BY <2>3 DEF LiveJobs
    <3>2. PICK k \in JobId : /\ k <= j
                             /\ t[k].name = t[j].name
                             /\ d[k] = t[k] /\ t[k] \notin {Unborn, Removed}
      BY <2>4, <3>1
    <3>3. k \in LiveJobs /\ jobs[k].name = jobs[j].name
      BY <2>2, <2>3, <3>1, <3>2 DEF LiveJobs
    <3>4. CASE r[k] = d[k]
      BY <3>2, <3>3, <3>4
    <3>5. CASE r[k] # d[k]
      <4>1. PICK l \in JobId : /\ l < k
                               /\ SameProgram(d[l], d[k])
                               /\ r[l] = d[l] /\ d[l] \notin {Unborn, Removed}
        BY <2>5, <3>2, <3>5
      <4>2. r[l].program = jobs[k].program /\ r[l].program # NoProgram
            /\ r[l].sched = jobs[k].sched
        BY <2>3, <3>2, <3>3, <4>1 DEF SameProgram, LiveJobs
      <4>3. QED
        BY <3>2, <3>3, <4>1, <4>2
    <3>6. QED
      BY <3>4, <3>5
  <2>10. QED
    BY <2>7, <2>8, <2>9 DEF LeavesClean, r
<1>2. QED
  BY <1>1, Invariance, PTL
=============================================================================
