------------------------------ MODULE TaskQueue ------------------------------
(***************************************************************************)
(* The shared task queue of the memory substrate: task_post, task_claim    *)
(* and task_complete of openfang-memory/src/substrate.rs, as agents call   *)
(* them through the tools of the same names.                               *)
(*                                                                         *)
(* Every call takes a connection of the r2d2 pool and runs its statements  *)
(* in autocommit mode: each statement is one atomic step on the table, and *)
(* nothing holds the table between the SELECT of a claim and its UPDATE.   *)
(* A statement may fail (SQLITE_BUSY after the busy timeout); the call     *)
(* then returns the error and changes nothing.                             *)
(***************************************************************************)
EXTENDS Integers

CONSTANTS
  Tasks,        \* task ids, named by their created_at: numbers
  Agents,       \* agent ids
  Traces,       \* orchestration trace ids
  Priorities,   \* priorities of tasks: numbers
  PostInputs,   \* what callers post
  Calls,        \* task_claim calls that may be in flight together
  Asks,         \* what callers ask for when they claim
  Worker,       \* the call of an agent that polls the queue for ever
  WorkerAsks,   \* what that agent asks for
  Unassigned,   \* the empty assigned_to; the id of a caller that has none
  NoTrace,      \* no orchestration.trace_id in the payload, or none preferred
  Absent,       \* no row with this id
  Idle          \* no call in flight

Claimants  == Agents \cup {Unassigned}
Status     == {"pending", "in_progress", "completed"}
Strategies == {"default", "prefer_unassigned", "sticky_only"}

Row == [status : Status, assigned : Claimants, trace : Traces \cup {NoTrace},
        priority : Priorities]

PostInput == [assigned : Claimants, trace : Traces \cup {NoTrace}, priority : Priorities]

(* The arguments of task_claim.                                             *)
Ask == [agent : Claimants, prefer : Traces \cup {NoTrace}, strategy : Strategies]

(* A call about to run its next statement.  `settled' and `known' are       *)
(* history: the tasks that had already been claimed or completed when the   *)
(* call began, and those that had been posted.                              *)
Call == [ask : Ask, at : {"sticky", "any"}, settled : SUBSET Tasks, known : SUBSET Tasks]
        \cup [ask : Ask, at : {"update"}, task : Tasks, settled : SUBSET Tasks,
              known : SUBSET Tasks]

ASSUME ConstantsAssumption ==
  /\ Tasks \subseteq Nat
  /\ Priorities \subseteq Int
  /\ PostInputs \subseteq PostInput
  /\ Worker \in Calls
  /\ WorkerAsks \in Ask
  /\ Asks \subseteq Ask
  /\ Absent \notin Row
  /\ Idle \notin Call \cup [agent : Claimants, settled : SUBSET Tasks]
  /\ NoTrace \notin Traces

VARIABLES
  rows,        \* the task_queue table
  call,        \* the task_claim calls in flight
  addressee,   \* history: whom each task was posted for
  claimed      \* history: who was given each task

vars == <<rows, call, addressee, claimed>>

(* The queue and the calls in flight are well typed; a call that is about   *)
(* to update a row has selected one.                                        *)
TypeOK ==
  /\ rows \in [Tasks -> Row \cup {Absent}]
  /\ call \in [Calls -> Call \cup {Idle}]
  /\ addressee \in [Tasks -> Claimants]
  /\ claimed \in [Tasks -> SUBSET Claimants]

Present(t) == rows[t] # Absent
Pending(t) == Present(t) /\ rows[t].status = "pending"
Posted     == {t \in Tasks : Present(t)}
Settled    == {t \in Tasks : Present(t) /\ rows[t].status # "pending"}
At(c, pc)  == call[c] # Idle /\ call[c].at = pc

-----------------------------------------------------------------------------
(* Posting.  created_at is read before the connection is taken, so rows may *)
(* be inserted in another order than their ids.                             *)

TaskPost(t, in) ==
  /\ rows[t] = Absent
  /\ rows' = [rows EXCEPT ![t] = [status |-> "pending", assigned |-> in.assigned,
                                  trace |-> in.trace, priority |-> in.priority]]
  /\ addressee' = [addressee EXCEPT ![t] = in.assigned]
  /\ UNCHANGED <<call, claimed>>

-----------------------------------------------------------------------------
(* Claiming.                                                                *)

(* Mutant of Claimable: the status of the row is not looked at.             *)
ClaimableAnyStatus(t, ask) ==
  Present(t) /\ rows[t].assigned \in {ask.agent, Unassigned}

(* Mutant of Claimable: any pending row may be taken.                       *)
ClaimableAnyAddressee(t, ask) == Pending(t)

Claimable(t, ask) == Pending(t) /\ rows[t].assigned \in {ask.agent, Unassigned}

Sticky(t, ask) == Claimable(t, ask) /\ rows[t].trace = ask.prefer

(* ORDER BY priority DESC, created_at ASC; with prefer_unassigned, rows     *)
(* without an assignee come first (not in the sticky query).                *)
Before(t, u) ==
  \/ rows[t].priority > rows[u].priority
  \/ rows[t].priority = rows[u].priority /\ t < u

(* Mutant of BeforeFor: rows without an assignee come last.                 *)
BeforeForAssigned(strategy, t, u) ==
  IF strategy = "prefer_unassigned" /\ (rows[t].assigned = Unassigned) # (rows[u].assigned = Unassigned)
  THEN rows[t].assigned # Unassigned
  ELSE Before(t, u)

BeforeFor(strategy, t, u) ==
  IF strategy = "prefer_unassigned" /\ (rows[t].assigned = Unassigned) # (rows[u].assigned = Unassigned)
  THEN rows[t].assigned = Unassigned
  ELSE Before(t, u)

(* sticky_only without a preferred trace returns None at once.              *)
BeginClaim(c, ask) ==
  /\ call[c] = Idle
  /\ ~(ask.strategy = "sticky_only" /\ ask.prefer = NoTrace)
  /\ call' = [call EXCEPT ![c] = [ask |-> ask, settled |-> Settled, known |-> Posted,
                                  at |-> IF ask.prefer = NoTrace THEN "any" ELSE "sticky"]]
  /\ UNCHANGED <<rows, addressee, claimed>>

Chosen(c, t) ==
  call' = [call EXCEPT ![c] = [ask |-> call[c].ask, at |-> "update", task |-> t,
                               settled |-> call[c].settled, known |-> call[c].known]]

SelectSticky(c) ==
  /\ At(c, "sticky")
  /\ \E t \in Tasks :
       /\ Sticky(t, call[c].ask)
       /\ \A u \in Tasks \ {t} : Sticky(u, call[c].ask) => Before(t, u)
       /\ Chosen(c, t)
  /\ UNCHANGED <<rows, addressee, claimed>>

(* Mutant of FallBack: no row of the preferred trace, no task.              *)
NoFallBack(c) ==
  /\ At(c, "sticky")
  /\ \A t \in Tasks : ~Sticky(t, call[c].ask)
  /\ call' = [call EXCEPT ![c] = Idle]
  /\ UNCHANGED <<rows, addressee, claimed>>

(* Mutant of FallBack: goes on to finish_claim without a row.               *)
FallThrough(c) ==
  /\ At(c, "sticky")
  /\ \A t \in Tasks : ~Sticky(t, call[c].ask)
  /\ call' = [call EXCEPT ![c].at = "update"]
  /\ UNCHANGED <<rows, addressee, claimed>>

(* No row of the preferred trace: sticky_only gives up, the other           *)
(* strategies go on with the default query.                                 *)
FallBack(c) ==
  /\ At(c, "sticky")
  /\ \A t \in Tasks : ~Sticky(t, call[c].ask)
  /\ call' = [call EXCEPT ![c] = IF @.ask.strategy = "sticky_only" THEN Idle
                                 ELSE [@ EXCEPT !.at = "any"]]
  /\ UNCHANGED <<rows, addressee, claimed>>

SelectAny(c) ==
  /\ At(c, "any")
  /\ LET ask == call[c].ask IN
       \E t \in Tasks :
         /\ Claimable(t, ask)
         /\ \A u \in Tasks \ {t} : Claimable(u, ask) => BeforeFor(ask.strategy, t, u)
         /\ Chosen(c, t)
  /\ UNCHANGED <<rows, addressee, claimed>>

NothingToClaim(c) ==
  /\ At(c, "any")
  /\ \A t \in Tasks : ~Claimable(t, call[c].ask)
  /\ call' = [call EXCEPT ![c] = Idle]
  /\ UNCHANGED <<rows, addressee, claimed>>

(* Mutant of FinishClaim: the status of the row is left as it is.           *)
FinishClaimKeepStatus(c) ==
  /\ At(c, "update")
  /\ LET t == call[c].task  a == call[c].ask.agent IN
       /\ rows' = [rows EXCEPT ![t].assigned = a]
       /\ claimed' = [claimed EXCEPT ![t] = @ \cup {a}]
  /\ call' = [call EXCEPT ![c] = Idle]
  /\ UNCHANGED addressee

(* finish_claim updates by id alone: the row may have been claimed or       *)
(* completed since it was selected.                                         *)
FinishClaim(c) ==
  /\ At(c, "update")
  /\ LET t == call[c].task  a == call[c].ask.agent IN
       /\ rows' = [rows EXCEPT ![t].status = "in_progress", ![t].assigned = a]
       /\ claimed' = [claimed EXCEPT ![t] = @ \cup {a}]
  /\ call' = [call EXCEPT ![c] = Idle]
  /\ UNCHANGED addressee

StatementFails(c) ==
  /\ call[c] # Idle
  /\ call' = [call EXCEPT ![c] = Idle]
  /\ UNCHANGED <<rows, addressee, claimed>>

-----------------------------------------------------------------------------
(* task_complete asks neither who calls nor what the status is; an id       *)
(* without a row is an error.  The result column is left out.               *)
TaskComplete(t) ==
  /\ Present(t)
  /\ rows' = [rows EXCEPT ![t].status = "completed"]
  /\ UNCHANGED <<call, addressee, claimed>>

-----------------------------------------------------------------------------
Init ==
  /\ rows = [t \in Tasks |-> Absent]
  /\ call = [c \in Calls |-> Idle]
  /\ addressee = [t \in Tasks |-> Unassigned]
  /\ claimed = [t \in Tasks |-> {}]

ClaimStep(c) ==
  SelectSticky(c) \/ FallBack(c) \/ SelectAny(c) \/ NothingToClaim(c) \/ FinishClaim(c)

Next ==
  \/ \E t \in Tasks, in \in PostInputs : TaskPost(t, in)
  \/ \E c \in Calls \ {Worker}, ask \in Asks : BeginClaim(c, ask)
  \/ BeginClaim(Worker, WorkerAsks)
  \/ \E c \in Calls : ClaimStep(c)
  \/ \E c \in Calls : StatementFails(c)
  \/ \E t \in Tasks : TaskComplete(t)

(* A statement that is retried often enough succeeds: the busy timeout      *)
(* bounds how long one writer keeps the others out.  The polling agent is   *)
(* an autonomous one, prompted at every tick to look for pending tasks.     *)
Fairness ==
  /\ WF_vars(BeginClaim(Worker, WorkerAsks))
  /\ SF_vars(SelectSticky(Worker))
  /\ SF_vars(FallBack(Worker))
  /\ SF_vars(SelectAny(Worker))
  /\ SF_vars(FinishClaim(Worker))

Spec == Init /\ [][Next]_vars /\ Fairness

-----------------------------------------------------------------------------
(* A task posted for one agent is never given to another, although a claim  *)
(* decides on a row it read earlier and the update does not look again      *)
(* (task_claim's WHERE assigned_to = ?1 OR assigned_to = '').               *)
AddresseeOnly ==
  \A t \in Tasks : addressee[t] # Unassigned => claimed[t] \subseteq {addressee[t]}

(* Double claims need overlapping calls: a call never picks a task that was *)
(* claimed or completed before the call began, so agents that claim one     *)
(* after the other each get a task of their own (task_claim's WHERE status  *)
(* = 'pending').                                                            *)
NoLateClaim ==
  \A c \in Calls : At(c, "update") => call[c].task \notin call[c].settled

(* The order of the default query, by the addressee a task was posted with: *)
(* its row may have been given to another agent since it was selected.      *)
Precedes(ask, t, u) ==
  IF ask.strategy = "prefer_unassigned" /\ (addressee[t] = Unassigned) # (addressee[u] = Unassigned)
  THEN addressee[t] = Unassigned
  ELSE \/ rows[t].priority > rows[u].priority
       \/ rows[t].priority = rows[u].priority /\ t < u

OfTrace(t, ask) == ask.prefer # NoTrace /\ rows[t].trace = ask.prefer

(* A claim never passes over a task that was waiting for it during the      *)
(* whole call: not a task of the preferred trace for one of another trace,  *)
(* and within each of the two queries not a more urgent or an older one,    *)
(* whatever was posted, claimed or completed between its statements         *)
(* (task_claim's two queries and their ORDER BY).                           *)
PriorityRespected ==
  \A c \in Calls : At(c, "update") =>
    LET ask == call[c].ask  t == call[c].task IN
      \A u \in call[c].known \ {t} : Claimable(u, ask) =>
        IF OfTrace(u, ask) THEN OfTrace(t, ask) /\ Before(t, u)
        ELSE OfTrace(t, ask) \/ Precedes(ask, t, u)

(* The statements of overlapping calls implement a board on which a claim   *)
(* is one step: what it is given was open when it began and may go to its   *)
(* agent, and a task once claimed or completed is never open again.  Both   *)
(* are settled on the board, so it does not see a completed row that a late *)
(* UPDATE sets back to in_progress.                                         *)
Pull == [c \in Calls |-> IF call[c] = Idle THEN Idle
                         ELSE [agent |-> call[c].ask.agent, settled |-> call[c].settled]]
Board == INSTANCE TaskBoard WITH posted <- Posted, settled <- Settled, given <- claimed,
                                 pull <- Pull
BoardSpec == Board!Spec

(* The task that the polling agent is to get next.                          *)
FirstInLine(t) ==
  LET ask == WorkerAsks IN
    /\ Claimable(t, ask)
    /\ ask.strategy = "sticky_only" => OfTrace(t, ask)
    /\ \A u \in Tasks \ {t} : Claimable(u, ask) =>
         IF OfTrace(u, ask) THEN OfTrace(t, ask) /\ Before(t, u)
         ELSE OfTrace(t, ask) \/ BeforeFor(ask.strategy, t, u)

(* As long as an agent keeps polling, no task stays first in line for it:   *)
(* the task is taken, or one that goes before it is posted, whatever trace  *)
(* the agent prefers, whichever statements fail and whoever else claims     *)
(* (task_claim's fall-back to the default query).  This is all a task can   *)
(* count on: while more urgent tasks keep coming, ORDER BY priority DESC    *)
(* lets it wait for ever.                                                   *)
FirstInLineTaken == \A t \in Tasks : []<>~FirstInLine(t)

(* What the documentation says of task_claim, "Claim the next pending       *)
(* task": a task that one agent claimed is not pending, so no other agent   *)
(* is given it.                                                             *)
ClaimedByOne ==
  \A t \in Tasks : \A x, y \in claimed[t] : x = y
=============================================================================
