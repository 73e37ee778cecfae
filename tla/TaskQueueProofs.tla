--------------------------- MODULE TaskQueueProofs ---------------------------
(***************************************************************************)
(* Proofs about the shared task queue, for any number of tasks, agents and *)
(* overlapping calls.                                                      *)
(***************************************************************************)
EXTENDS TaskQueue, TLAPS

(* The row of a task posted for one agent keeps that agent as assignee,     *)
(* claims included.                                                         *)
AssigneeKept ==
  \A t \in Tasks : /\ Present(t) /\ addressee[t] # Unassigned => rows[t].assigned = addressee[t]
                   /\ ~Present(t) => claimed[t] = {}

(* What a call selected stays selectable for its agent until it updates:    *)
(* rows are never deleted.                                                  *)
SelectionValid ==
  \A c \in Calls : At(c, "update") =>
    /\ Present(call[c].task)
    /\ addressee[call[c].task] \in {call[c].ask.agent, Unassigned}

(* A task that has left the pending state never returns to it.              *)
SettledKept ==
  \A c \in Calls : call[c] # Idle => call[c].settled \subseteq Settled

IInv == TypeOK /\ AssigneeKept /\ SelectionValid /\ SettledKept /\ AddresseeOnly /\ NoLateClaim

(* The initial states satisfy the inductive invariant.                      *)
LEMMA InitIInv == Init => IInv
  BY ConstantsAssumption
  DEF Init, IInv, TypeOK, AssigneeKept, SelectionValid, SettledKept, AddresseeOnly,
      NoLateClaim, Present, Settled, At, Claimants

(* Posting inserts an unclaimed row and disturbs no call.                   *)
LEMMA PostKeeps ==
  ASSUME IInv, NEW t \in Tasks, NEW in \in PostInputs, TaskPost(t, in)
  PROVE  IInv'
  <1>0. in \in PostInput
    BY ConstantsAssumption
  <1>1. TypeOK'
    BY <1>0 DEF IInv, TypeOK, TaskPost, PostInput, Row, Status
  <1>2. Present(t)'
    BY ConstantsAssumption, <1>1, <1>0 DEF TaskPost, Present, TypeOK, Row, Status, PostInput, IInv
  <1>3. \A u \in Tasks \ {t} : rows'[u] = rows[u] /\ addressee'[u] = addressee[u]
    BY DEF IInv, TypeOK, TaskPost
  <1>4. rows'[t].assigned = in.assigned /\ addressee'[t] = in.assigned
    BY DEF IInv, TypeOK, TaskPost
  <1>5. ~Present(t)
    BY DEF TaskPost, Present
  <1>6. AssigneeKept'
    BY <1>2, <1>3, <1>4 DEF IInv, AssigneeKept, TaskPost, Present
  <1>7. SelectionValid'
    BY <1>2, <1>3, <1>5 DEF IInv, SelectionValid, TypeOK, Call, TaskPost, Present, At
  <1>8. Settled \subseteq Settled'
    BY <1>3, <1>5 DEF Settled, Present
  <1>9. SettledKept'
    BY <1>8 DEF IInv, SettledKept, TaskPost
  <1>10. AddresseeOnly'
    BY <1>3, <1>5 DEF IInv, AddresseeOnly, AssigneeKept, TaskPost
  <1>11. NoLateClaim'
    BY DEF IInv, NoLateClaim, TaskPost, At
  <1> QED
    BY <1>1, <1>6, <1>7, <1>9, <1>10, <1>11 DEF IInv

(* A step of a call that leaves the table alone keeps the invariant when    *)
(* the call's new state satisfies the parts about calls.                    *)
LEMMA CallStepKeeps ==
  ASSUME IInv, NEW c \in Calls, NEW v \in Call \cup {Idle},
         call' = [call EXCEPT ![c] = v], UNCHANGED <<rows, addressee, claimed>>,
         v # Idle => v.settled \subseteq Settled,
         v # Idle /\ v.at = "update" =>
           /\ Present(v.task) /\ v.task \notin v.settled
           /\ addressee[v.task] \in {v.ask.agent, Unassigned}
  PROVE  IInv'
  <1>1. call'[c] = v /\ \A d \in Calls \ {c} : call'[d] = call[d]
    BY DEF IInv, TypeOK
  <1>2. TypeOK'
    BY <1>1 DEF IInv, TypeOK
  <1>3. AssigneeKept' /\ AddresseeOnly'
    BY DEF IInv, AssigneeKept, AddresseeOnly, Present
  <1>4. SelectionValid'
    BY <1>1 DEF IInv, SelectionValid, At, Present
  <1>5. SettledKept'
    BY <1>1 DEF IInv, SettledKept, Settled, Present
  <1>6. NoLateClaim'
    BY <1>1 DEF IInv, NoLateClaim, At
  <1> QED
    BY <1>2, <1>3, <1>4, <1>5, <1>6 DEF IInv

(* A call begins with what is settled at that moment.                       *)
LEMMA BeginKeeps ==
  ASSUME IInv, NEW c \in Calls, NEW ask \in Ask, BeginClaim(c, ask)
  PROVE  IInv'
  <1> DEFINE v == [ask |-> ask, settled |-> Settled, known |-> Posted,
                   at |-> IF ask.prefer = NoTrace THEN "any" ELSE "sticky"]
  <1>1. v \in Call /\ v.at # "update" /\ v.settled = Settled
    BY DEF Call, Settled, Posted
  <1>2. call' = [call EXCEPT ![c] = v] /\ UNCHANGED <<rows, addressee, claimed>>
    BY DEF BeginClaim
  <1> HIDE DEF v
  <1> QED
    BY <1>1, <1>2, CallStepKeeps

(* A query picks a pending row its agent may take.                          *)
LEMMA ChooseKeeps ==
  ASSUME IInv, NEW c \in Calls, call[c] # Idle, NEW t \in Tasks,
         Claimable(t, call[c].ask), Chosen(c, t), UNCHANGED <<rows, addressee, claimed>>
  PROVE  IInv'
  <1> DEFINE v == [ask |-> call[c].ask, at |-> "update", task |-> t,
                   settled |-> call[c].settled, known |-> call[c].known]
  <1>0. call[c] \in Call
    BY DEF IInv, TypeOK
  <1>1. call[c].ask \in Ask /\ call[c].settled \in SUBSET Tasks /\ call[c].known \in SUBSET Tasks
    BY <1>0 DEF Call
  <1>2. v \in Call /\ v.at = "update" /\ v.task = t /\ v.ask = call[c].ask /\ v.settled = call[c].settled
    BY <1>1 DEF Call
  <1>3. call[c].settled \subseteq Settled
    BY DEF IInv, SettledKept
  <1>4. Present(t) /\ t \notin Settled
    BY DEF Claimable, Pending, Settled
  <1>5. addressee[t] \in {call[c].ask.agent, Unassigned}
    BY <1>4 DEF Claimable, IInv, AssigneeKept
  <1>6. call' = [call EXCEPT ![c] = v]
    BY DEF Chosen
  <1> HIDE DEF v
  <1> QED
    BY <1>2, <1>3, <1>4, <1>5, <1>6, CallStepKeeps

(* Going on to the default query, and returning without a task.             *)
LEMMA GiveUpKeeps ==
  ASSUME IInv, NEW c \in Calls,
         FallBack(c) \/ NothingToClaim(c) \/ StatementFails(c)
  PROVE  IInv'
  <1>1. CASE call' = [call EXCEPT ![c] = Idle] /\ UNCHANGED <<rows, addressee, claimed>>
    BY <1>1, CallStepKeeps
  <1>2. CASE FallBack(c) /\ call[c].ask.strategy # "sticky_only"
    <2> DEFINE v == [call[c] EXCEPT !.at = "any"]
    <2>1. call[c] \in Call /\ call[c].at = "sticky"
      BY <1>2 DEF FallBack, At, IInv, TypeOK
    <2>2. v \in Call /\ v.at = "any" /\ v.settled = call[c].settled
      BY <2>1 DEF Call
    <2>3. call[c].settled \subseteq Settled
      BY <1>2 DEF IInv, SettledKept, FallBack, At
    <2>4. call' = [call EXCEPT ![c] = v] /\ UNCHANGED <<rows, addressee, claimed>>
      BY <1>2 DEF FallBack, IInv, TypeOK
    <2> HIDE DEF v
    <2> QED
      BY <2>2, <2>3, <2>4, CallStepKeeps
  <1>3. CASE FallBack(c) /\ call[c].ask.strategy = "sticky_only"
    <2>1. call' = [call EXCEPT ![c] = Idle] /\ UNCHANGED <<rows, addressee, claimed>>
      BY <1>3 DEF FallBack, IInv, TypeOK
    <2> QED
      BY <2>1, <1>1
  <1> QED
    BY <1>1, <1>2, <1>3 DEF NothingToClaim, StatementFails

(* task_claim settles the row for an agent that the task may go to.         *)
LEMMA FinishKeeps ==
  ASSUME IInv, NEW c \in Calls, FinishClaim(c)
  PROVE  IInv'
  <1>1. call[c] \in Call /\ call[c].at = "update"
    BY DEF FinishClaim, At, IInv, TypeOK
  <1>2. PICK t \in Tasks, a \in Claimants : t = call[c].task /\ a = call[c].ask.agent
    BY <1>1 DEF Call, Ask
  <1>3. rows[t] \in Row /\ addressee[t] \in {a, Unassigned}
    BY <1>2 DEF IInv, TypeOK, SelectionValid, FinishClaim, Present
  <1>4. rows'[t] \in Row /\ rows'[t].status = "in_progress" /\ rows'[t].assigned = a
    BY <1>2, <1>3 DEF FinishClaim, IInv, TypeOK, Row, Status
  <1>5. \A u \in Tasks \ {t} : rows'[u] = rows[u] /\ claimed'[u] = claimed[u]
    BY <1>2 DEF FinishClaim, IInv, TypeOK
  <1>6. claimed'[t] = claimed[t] \cup {a}
    BY <1>2 DEF FinishClaim, IInv, TypeOK
  <1>7. Present(t)'
    BY <1>4, ConstantsAssumption DEF Present
  <1>8. call'[c] = Idle /\ \A d \in Calls \ {c} : call'[d] = call[d]
    BY DEF FinishClaim, IInv, TypeOK
  <1>9. TypeOK'
    <2>1. rows' \in [Tasks -> Row \cup {Absent}]
      BY <1>4, <1>5 DEF FinishClaim, IInv, TypeOK
    <2>2. claimed' \in [Tasks -> SUBSET Claimants]
      BY <1>2, <1>5, <1>6 DEF FinishClaim, IInv, TypeOK
    <2>3. call' \in [Calls -> Call \cup {Idle}]
      BY DEF FinishClaim, IInv, TypeOK
    <2> QED
      BY <2>1, <2>2, <2>3 DEF FinishClaim, IInv, TypeOK
  <1>10. \A u \in Tasks : Present(u) => Present(u)'
    BY <1>5, <1>7 DEF Present
  <1>11. Settled \subseteq Settled'
    BY <1>4, <1>5, <1>7 DEF Settled, Present
  <1>12. addressee' = addressee
    BY DEF FinishClaim
  <1>13. AssigneeKept'
    BY <1>2, <1>3, <1>4, <1>5, <1>7, <1>12 DEF IInv, AssigneeKept, Present
  <1>14. SelectionValid'
    <2> SUFFICES ASSUME NEW d \in Calls, At(d, "update")'
                 PROVE  /\ Present(call[d].task)' 
                        /\ (addressee[call[d].task] \in {call[d].ask.agent, Unassigned})'
      BY DEF SelectionValid
    <2>1. d # c /\ call'[d] = call[d] /\ At(d, "update")
      BY <1>8 DEF At
    <2>2. call[d].task \in Tasks
      BY <2>1 DEF At, IInv, TypeOK, Call
    <2>3. Present(call[d].task) /\ addressee[call[d].task] \in {call[d].ask.agent, Unassigned}
      BY <2>1 DEF IInv, SelectionValid
    <2> QED
      BY <2>1, <2>2, <2>3, <1>10, <1>12 DEF Present
  <1>15. SettledKept'
    BY <1>8, <1>11 DEF IInv, SettledKept
  <1>16. AddresseeOnly'
    BY <1>2, <1>3, <1>5, <1>6, <1>12 DEF IInv, AddresseeOnly
  <1>17. NoLateClaim'
    BY <1>8 DEF IInv, NoLateClaim, At
  <1> QED
    BY <1>9, <1>13, <1>14, <1>15, <1>16, <1>17 DEF IInv

(* task_complete settles the row and keeps its assignee.                    *)
LEMMA CompleteKeeps ==
  ASSUME IInv, NEW t \in Tasks, TaskComplete(t)
  PROVE  IInv'
  <1>1. rows[t] \in Row
    BY DEF TaskComplete, Present, IInv, TypeOK
  <1>2. rows'[t] \in Row /\ rows'[t].status = "completed" /\ rows'[t].assigned = rows[t].assigned
    BY <1>1 DEF TaskComplete, IInv, TypeOK, Row, Status
  <1>3. \A u \in Tasks \ {t} : rows'[u] = rows[u]
    BY DEF TaskComplete, IInv, TypeOK
  <1>4. Present(t)'
    BY <1>2, ConstantsAssumption DEF Present
  <1>5. TypeOK'
    BY <1>2, <1>3 DEF TaskComplete, IInv, TypeOK
  <1>6. \A u \in Tasks : Present(u)' <=> Present(u)
    BY <1>3, <1>4 DEF Present, TaskComplete
  <1>7. Settled \subseteq Settled'
    BY <1>2, <1>3, <1>4 DEF Settled, Present
  <1>8. AssigneeKept'
    BY <1>2, <1>3, <1>6 DEF IInv, AssigneeKept, TaskComplete
  <1>9. SelectionValid'
    <2> SUFFICES ASSUME NEW d \in Calls, At(d, "update")'
                 PROVE  /\ Present(call[d].task)'
                        /\ (addressee[call[d].task] \in {call[d].ask.agent, Unassigned})'
      BY DEF SelectionValid
    <2>1. call' = call /\ addressee' = addressee /\ At(d, "update")
      BY DEF TaskComplete, At
    <2>2. call[d].task \in Tasks
      BY <2>1 DEF At, IInv, TypeOK, Call
    <2> QED
      BY <2>1, <2>2, <1>6 DEF IInv, SelectionValid, Present
  <1>10. SettledKept'
    BY <1>7 DEF IInv, SettledKept, TaskComplete
  <1>11. AddresseeOnly' /\ NoLateClaim'
    BY DEF IInv, AddresseeOnly, NoLateClaim, TaskComplete, At
  <1> QED
    BY <1>5, <1>8, <1>9, <1>10, <1>11 DEF IInv

(* Every step of the queue keeps the inductive invariant.                   *)
LEMMA NextKeeps == IInv /\ [Next]_vars => IInv'
  <1> SUFFICES ASSUME IInv, [Next]_vars PROVE IInv'
    OBVIOUS
  <1>1. CASE \E t \in Tasks, in \in PostInputs : TaskPost(t, in)
    BY <1>1, PostKeeps
  <1>2. CASE \E c \in Calls \ {Worker}, ask \in Asks : BeginClaim(c, ask)
    BY <1>2, BeginKeeps, ConstantsAssumption
  <1>3. CASE BeginClaim(Worker, WorkerAsks)
    BY <1>3, BeginKeeps, ConstantsAssumption
  <1>4. CASE \E c \in Calls : ClaimStep(c)
    <2> PICK c \in Calls : ClaimStep(c)
      BY <1>4
    <2>1. CASE SelectSticky(c)
      BY <2>1, ChooseKeeps DEF SelectSticky, Sticky, At
    <2>2. CASE SelectAny(c)
      BY <2>2, ChooseKeeps DEF SelectAny, At
    <2>3. CASE FallBack(c) \/ NothingToClaim(c)
      BY <2>3, GiveUpKeeps
    <2>4. CASE FinishClaim(c)
      BY <2>4, FinishKeeps
    <2> QED
      BY <2>1, <2>2, <2>3, <2>4 DEF ClaimStep
  <1>5. CASE \E c \in Calls : StatementFails(c)
    BY <1>5, GiveUpKeeps
  <1>6. CASE \E t \in Tasks : TaskComplete(t)
    BY <1>6, CompleteKeeps
  <1>7. CASE UNCHANGED vars
    BY <1>7 DEF vars, IInv, TypeOK, AssigneeKept, SelectionValid, SettledKept,
                AddresseeOnly, NoLateClaim, Present, Settled, At
  <1> QED
    BY <1>1, <1>2, <1>3, <1>4, <1>5, <1>6, <1>7 DEF Next

(* The inductive invariant holds throughout.                                *)
THEOREM Invariant == Spec => []IInv
  BY InitIInv, NextKeeps, PTL DEF Spec

(* The queue is well typed: a call about to update has selected a task.     *)
THEOREM TypeCorrect == Spec => []TypeOK
  <1>1. IInv => TypeOK
    BY DEF IInv
  <1> QED
    BY <1>1, Invariant, PTL

(* However many calls overlap, a task posted for one agent is given to no   *)
(* other (the assigned_to condition of task_claim).                         *)
THEOREM AddresseeHolds == Spec => []AddresseeOnly
  <1>1. IInv => AddresseeOnly
    BY DEF IInv
  <1> QED
    BY <1>1, Invariant, PTL

(* Double claims need overlapping calls: none picks a task that was claimed *)
(* or completed before the call began (the status condition of task_claim). *)
THEOREM NoLateClaimHolds == Spec => []NoLateClaim
  <1>1. IInv => NoLateClaim
    BY DEF IInv
  <1> QED
    BY <1>1, Invariant, PTL
-----------------------------------------------------------------------------
(* The order of claims.  What a query has ruled out stays ruled out: of the *)
(* tasks that were posted when the call began, none becomes pending again,  *)
(* and a pending row is as it was posted.                                   *)
Ordered(k) ==
  /\ k.known \subseteq Posted
  /\ k.at = "sticky" => k.ask.prefer # NoTrace
  /\ k.at = "any" => \A u \in k.known : Claimable(u, k.ask) => ~OfTrace(u, k.ask)
  /\ k.at = "update" =>
       \A u \in k.known \ {k.task} : Claimable(u, k.ask) =>
         IF OfTrace(u, k.ask) THEN OfTrace(k.task, k.ask) /\ Before(k.task, u)
         ELSE OfTrace(k.task, k.ask) \/ Precedes(k.ask, k.task, u)

OrderInv ==
  /\ \A t \in Tasks : Pending(t) => rows[t].assigned = addressee[t]
  /\ \A c \in Calls : call[c] # Idle => Ordered(call[c])

(* A step on the table keeps the rows that are there, except that a row may *)
(* leave the pending state: what is ordered stays so.                       *)
TableKept ==
  \A u \in Posted :
    /\ u \in Posted' /\ addressee'[u] = addressee[u]
    /\ rows'[u].priority = rows[u].priority /\ rows'[u].trace = rows[u].trace
    /\ Pending(u)' => Pending(u) /\ rows'[u].assigned = rows[u].assigned

(* A call that does not move stays ordered.                                 *)
LEMMA OrderedKept ==
  ASSUME TableKept, NEW k \in Call, Ordered(k), k.at = "update" => k.task \in Posted
  PROVE  Ordered(k)'
  <1>1. \A u \in k.known : Claimable(u, k.ask)' => Claimable(u, k.ask)
    BY DEF TableKept, Claimable, Ordered
  <1>2. \A u \in Posted : OfTrace(u, k.ask)' <=> OfTrace(u, k.ask)
    BY DEF TableKept, OfTrace
  <1>3. \A t, u \in Posted : Before(t, u) => Before(t, u)'
    BY DEF TableKept, Before
  <1>4. \A t, u \in Posted : Precedes(k.ask, t, u) => Precedes(k.ask, t, u)'
    BY DEF TableKept, Precedes
  <1>5. (k.known \subseteq Posted)' /\ k.known \subseteq Posted
    BY DEF TableKept, Ordered
  <1>6. k.at = "any" => \A u \in k.known : Claimable(u, k.ask)' => ~OfTrace(u, k.ask)'
    BY <1>1, <1>2, <1>5 DEF Ordered
  <1>7. ASSUME k.at = "update", NEW u \in k.known \ {k.task}, Claimable(u, k.ask)'
        PROVE  IF OfTrace(u, k.ask)' THEN OfTrace(k.task, k.ask)' /\ Before(k.task, u)'
               ELSE OfTrace(k.task, k.ask)' \/ Precedes(k.ask, k.task, u)'
    <2>1. IF OfTrace(u, k.ask) THEN OfTrace(k.task, k.ask) /\ Before(k.task, u)
          ELSE OfTrace(k.task, k.ask) \/ Precedes(k.ask, k.task, u)
      BY <1>1, <1>7 DEF Ordered
    <2>2. u \in Posted /\ k.task \in Posted
      BY <1>5, <1>7
    <2> QED
      BY <1>2, <1>3, <1>4, <2>1, <2>2
  <1>8. k.at = "sticky" => k.ask.prefer # NoTrace
    BY DEF Ordered
  <1> QED
    BY <1>5, <1>6, <1>7, <1>8 DEF Ordered

(* A step on the table that moves no call except to its end.                *)
LEMMA TableStepOrdered ==
  ASSUME IInv, OrderInv, TableKept,
         \A t \in Tasks : Pending(t)' /\ ~Pending(t) => rows'[t].assigned = addressee'[t],
         \A c \in Calls : call'[c] \in {call[c], Idle}
  PROVE  OrderInv'
  <1>1. \A t \in Tasks : Pending(t)' => rows'[t].assigned = addressee'[t]
    BY DEF TableKept, OrderInv, Posted, Pending
  <1>2. ASSUME NEW c \in Calls, call'[c] # Idle PROVE Ordered(call[c])'
    <2>1. call'[c] = call[c] /\ call[c] # Idle
      BY <1>2
    <2>2. PICK k \in Call : k = call[c]
      BY <2>1 DEF IInv, TypeOK
    <2>3. Ordered(k)
      BY <2>1, <2>2 DEF OrderInv
    <2>4. k.at = "update" => k.task \in Posted
      BY <2>1, <2>2 DEF IInv, SelectionValid, At, Posted, Call
    <2>5. Ordered(k)'
      BY <2>2, <2>3, <2>4, OrderedKept
    <2>6. k = call'[c]
      BY <2>1, <2>2
    <2> QED
      BY <2>5, <2>6 DEF Ordered
  <1> QED
    BY <1>1, <1>2 DEF OrderInv

(* A step of one call that leaves the table alone.                          *)
LEMMA CallStepOrdered ==
  ASSUME IInv, OrderInv, NEW c \in Calls, NEW v, v = Idle \/ Ordered(v),
         call' = [call EXCEPT ![c] = v], UNCHANGED <<rows, addressee>>
  PROVE  OrderInv'
  <1>1. call'[c] = v /\ \A d \in Calls \ {c} : call'[d] = call[d]
    BY DEF IInv, TypeOK
  <1>2. \A k : Ordered(k) => Ordered(k)'
    BY DEF Ordered, Posted, Present, Claimable, Pending, OfTrace, Before, Precedes
  <1>3. ASSUME NEW d \in Calls, call'[d] # Idle PROVE Ordered(call[d])'
    <2>1. PICK k : k = call'[d]
      OBVIOUS
    <2>2. Ordered(k)
      BY <1>1, <1>3, <2>1 DEF OrderInv
    <2>3. Ordered(k)'
      BY <1>2, <2>2
    <2> QED
      BY <2>1, <2>3 DEF Ordered
  <1>4. \A t \in Tasks : Pending(t)' => rows'[t].assigned = addressee'[t]
    BY DEF OrderInv, Pending, Present
  <1> QED
    BY <1>3, <1>4 DEF OrderInv
(* Posting adds a row and touches none.                                     *)
LEMMA PostOrdered ==
  ASSUME IInv, OrderInv, NEW t \in Tasks, NEW in \in PostInputs, TaskPost(t, in)
  PROVE  OrderInv'
  <1>1. \A u \in Tasks \ {t} : rows'[u] = rows[u] /\ addressee'[u] = addressee[u]
    BY DEF IInv, TypeOK, TaskPost
  <1>2. rows'[t].assigned = addressee'[t] /\ ~Present(t)
    BY DEF IInv, TypeOK, TaskPost, Present
  <1>3. TableKept
    BY <1>1, <1>2 DEF TableKept, Posted, Pending, Present
  <1>4. \A u \in Tasks : Pending(u)' /\ ~Pending(u) => rows'[u].assigned = addressee'[u]
    BY <1>1, <1>2 DEF Pending, Present
  <1>5. \A c \in Calls : call'[c] = call[c]
    BY DEF TaskPost
  <1> QED
    BY <1>3, <1>4, <1>5, TableStepOrdered

(* Claiming and completing take a row out of the pending state.             *)
LEMMA SettleOrdered ==
  ASSUME IInv, OrderInv, NEW t \in Tasks, Present(t),
         rows'[t] \in Row, rows'[t].status # "pending",
         rows'[t].priority = rows[t].priority, rows'[t].trace = rows[t].trace,
         \A u \in Tasks \ {t} : rows'[u] = rows[u],
         UNCHANGED addressee, \A c \in Calls : call'[c] \in {call[c], Idle}
  PROVE  OrderInv'
  <1>1. Present(t)' /\ ~Pending(t)'
    BY ConstantsAssumption DEF Present, Pending
  <1>2. TableKept
    BY <1>1 DEF TableKept, Posted, Pending, Present
  <1>3. \A u \in Tasks : Pending(u)' /\ ~Pending(u) => rows'[u].assigned = addressee'[u]
    BY <1>1 DEF Pending, Present
  <1> QED
    BY <1>2, <1>3, TableStepOrdered

(* The sticky query picks the most urgent task of the preferred trace.      *)
LEMMA SelectStickyOrdered ==
  ASSUME IInv, OrderInv, NEW c \in Calls, SelectSticky(c)
  PROVE  OrderInv'
  <1> DEFINE ask == call[c].ask
  <1>1. PICK t \in Tasks : /\ Sticky(t, ask)
                           /\ \A u \in Tasks \ {t} : Sticky(u, ask) => Before(t, u)
                           /\ Chosen(c, t)
    BY DEF SelectSticky
  <1>2. PICK v : v = [ask |-> ask, at |-> "update", task |-> t,
                      settled |-> call[c].settled, known |-> call[c].known]
    OBVIOUS
  <1>3. Ordered(call[c]) /\ call[c].at = "sticky"
    BY DEF SelectSticky, At, OrderInv
  <1>4. v.ask = ask /\ v.at = "update" /\ v.task = t /\ v.known = call[c].known
    BY <1>2
  <1>5. OfTrace(t, ask)
    BY <1>1, <1>3 DEF Ordered, OfTrace, Sticky
  <1>6. v.known \subseteq Posted
    BY <1>3, <1>4 DEF Ordered
  <1>7. \A u \in v.known \ {t} : Claimable(u, ask) /\ OfTrace(u, ask) => Before(t, u)
    BY <1>1, <1>6 DEF Sticky, OfTrace, Posted
  <1>8. Ordered(v)
    BY <1>4, <1>5, <1>6, <1>7 DEF Ordered
  <1>9. call' = [call EXCEPT ![c] = v] /\ UNCHANGED <<rows, addressee>>
    BY <1>1, <1>2 DEF Chosen, SelectSticky
  <1> QED
    BY <1>8, <1>9, CallStepOrdered

(* The default query picks the first in its order; none that was waiting    *)
(* from the start is of the preferred trace by then.                        *)
LEMMA SelectAnyOrdered ==
  ASSUME IInv, OrderInv, NEW c \in Calls, SelectAny(c)
  PROVE  OrderInv'
  <1> DEFINE ask == call[c].ask
  <1>1. PICK t \in Tasks :
          /\ Claimable(t, ask)
          /\ \A u \in Tasks \ {t} : Claimable(u, ask) => BeforeFor(ask.strategy, t, u)
          /\ Chosen(c, t)
    BY DEF SelectAny
  <1>2. PICK v : v = [ask |-> ask, at |-> "update", task |-> t,
                      settled |-> call[c].settled, known |-> call[c].known]
    OBVIOUS
  <1>3. Ordered(call[c]) /\ call[c].at = "any"
    BY DEF SelectAny, At, OrderInv
  <1>4. v.ask = ask /\ v.at = "update" /\ v.task = t /\ v.known = call[c].known
    BY <1>2
  <1>5. \A u \in v.known : u \in Posted /\ (Claimable(u, ask) => ~OfTrace(u, ask))
    BY <1>3, <1>4 DEF Ordered
  <1>6. \A u \in Tasks : Claimable(u, ask) => rows[u].assigned = addressee[u]
    BY DEF OrderInv, Claimable
  <1>7. ASSUME NEW u \in v.known \ {t}, Claimable(u, ask) PROVE Precedes(ask, t, u)
    <2>1. u \in Tasks
      BY <1>5, <1>7 DEF Posted
    <2>2. BeforeFor(ask.strategy, t, u)
      BY <1>1, <1>7, <2>1
    <2>3. rows[u].assigned = addressee[u] /\ rows[t].assigned = addressee[t]
      BY <1>1, <1>6, <1>7, <2>1
    <2> QED
      BY <2>2, <2>3 DEF BeforeFor, Before, Precedes
  <1>8. Ordered(v)
    BY <1>4, <1>5, <1>7 DEF Ordered
  <1>9. call' = [call EXCEPT ![c] = v] /\ UNCHANGED <<rows, addressee>>
    BY <1>1, <1>2 DEF Chosen, SelectAny
  <1> QED
    BY <1>8, <1>9, CallStepOrdered

(* A call falls back only when no task of the preferred trace is waiting.   *)
LEMMA FallBackOrdered ==
  ASSUME IInv, OrderInv, NEW c \in Calls, FallBack(c)
  PROVE  OrderInv'
  <1>0. call[c] \in Call /\ call[c].at = "sticky" /\ Ordered(call[c])
    BY DEF FallBack, At, IInv, TypeOK, OrderInv
  <1>1. CASE call[c].ask.strategy = "sticky_only"
    <2>1. call' = [call EXCEPT ![c] = Idle] /\ UNCHANGED <<rows, addressee>>
      BY <1>1 DEF FallBack, IInv, TypeOK
    <2> QED
      BY <2>1, CallStepOrdered
  <1>2. CASE call[c].ask.strategy # "sticky_only"
    <2>1. PICK v : v = [call[c] EXCEPT !.at = "any"]
      OBVIOUS
    <2>2. v.at = "any" /\ v.ask = call[c].ask /\ v.known = call[c].known
      BY <1>0, <2>1 DEF Call
    <2>3. \A u \in v.known : Claimable(u, v.ask) => ~OfTrace(u, v.ask)
      BY <1>0, <2>2 DEF FallBack, Sticky, OfTrace, Ordered, Posted
    <2>4. Ordered(v)
      BY <1>0, <2>2, <2>3 DEF Ordered
    <2>5. call' = [call EXCEPT ![c] = v] /\ UNCHANGED <<rows, addressee>>
      BY <1>2, <2>1 DEF FallBack, IInv, TypeOK
    <2> QED
      BY <2>4, <2>5, CallStepOrdered
  <1> QED
    BY <1>1, <1>2

(* Every step of the queue keeps the order.                                 *)
LEMMA NextOrdered == IInv /\ OrderInv /\ [Next]_vars => OrderInv'
  <1> SUFFICES ASSUME IInv, OrderInv, [Next]_vars PROVE OrderInv'
    OBVIOUS
  <1>1. CASE \E t \in Tasks, in \in PostInputs : TaskPost(t, in)
    BY <1>1, PostOrdered
  <1>2. ASSUME NEW c \in Calls, NEW ask \in Ask, BeginClaim(c, ask) PROVE OrderInv'
    <2>1. PICK v : v = [ask |-> ask, settled |-> Settled, known |-> Posted,
                        at |-> IF ask.prefer = NoTrace THEN "any" ELSE "sticky"]
      OBVIOUS
    <2>2. Ordered(v)
      BY <2>1 DEF Ordered, OfTrace
    <2>3. call' = [call EXCEPT ![c] = v] /\ UNCHANGED <<rows, addressee>>
      BY <1>2, <2>1 DEF BeginClaim
    <2> QED
      BY <2>2, <2>3, CallStepOrdered
  <1>3. ASSUME NEW c \in Calls, NothingToClaim(c) \/ StatementFails(c) PROVE OrderInv'
    <2>1. call' = [call EXCEPT ![c] = Idle] /\ UNCHANGED <<rows, addressee>>
      BY <1>3 DEF NothingToClaim, StatementFails
    <2> QED
      BY <2>1, CallStepOrdered
  <1>4. ASSUME NEW c \in Calls, FinishClaim(c) PROVE OrderInv'
    <2>1. call[c] \in Call /\ call[c].at = "update"
      BY <1>4 DEF FinishClaim, At, IInv, TypeOK
    <2>2. PICK t \in Tasks, a \in Claimants : t = call[c].task /\ a = call[c].ask.agent
      BY <2>1 DEF Call, Ask
    <2>3. Present(t) /\ rows[t] \in Row
      BY <1>4, <2>2 DEF IInv, TypeOK, SelectionValid, FinishClaim, Present
    <2>4. /\ rows'[t] \in Row /\ rows'[t].status = "in_progress"
          /\ rows'[t].priority = rows[t].priority /\ rows'[t].trace = rows[t].trace
          /\ \A u \in Tasks \ {t} : rows'[u] = rows[u]
      BY <1>4, <2>2, <2>3 DEF FinishClaim, IInv, TypeOK, Row, Status
    <2>5. UNCHANGED addressee /\ \A d \in Calls : call'[d] \in {call[d], Idle}
      BY <1>4 DEF FinishClaim, IInv, TypeOK
    <2> QED
      BY <2>3, <2>4, <2>5, SettleOrdered
  <1>5. ASSUME NEW t \in Tasks, TaskComplete(t) PROVE OrderInv'
    <2>1. Present(t) /\ rows[t] \in Row
      BY <1>5 DEF TaskComplete, Present, IInv, TypeOK
    <2>2. /\ rows'[t] \in Row /\ rows'[t].status = "completed"
          /\ rows'[t].priority = rows[t].priority /\ rows'[t].trace = rows[t].trace
          /\ \A u \in Tasks \ {t} : rows'[u] = rows[u]
      BY <1>5, <2>1 DEF TaskComplete, IInv, TypeOK, Row, Status
    <2>3. UNCHANGED addressee /\ \A d \in Calls : call'[d] \in {call[d], Idle}
      BY <1>5 DEF TaskComplete
    <2> QED
      BY <2>1, <2>2, <2>3, SettleOrdered
  <1>6. CASE UNCHANGED vars
    BY <1>6 DEF vars, OrderInv, Ordered, Posted, Pending, Present, Claimable, OfTrace, Before, Precedes
  <1> QED
    BY <1>1, <1>2, <1>3, <1>4, <1>5, <1>6, SelectStickyOrdered, SelectAnyOrdered, FallBackOrdered,
       ConstantsAssumption
       DEF Next, ClaimStep

(* No interleaving of posts, claims and completions makes a claim pass over *)
(* a more urgent task, or one of the preferred trace, that was waiting      *)
(* during the whole call (the queries of task_claim).                       *)
THEOREM PriorityHolds == Spec => []PriorityRespected
  <1>1. Init => OrderInv
    BY DEF Init, OrderInv, Pending, Present
  <1>2. IInv /\ OrderInv /\ [Next]_vars => OrderInv'
    BY NextOrdered
  <1>3. OrderInv => PriorityRespected
    BY DEF OrderInv, Ordered, PriorityRespected, At
  <1> QED
    BY <1>1, <1>2, <1>3, Invariant, PTL DEF Spec

-----------------------------------------------------------------------------
(* The refinement.                                                          *)

(* A step that moves one call moves the abstract claim with it.             *)
LEMMA PullMoves ==
  ASSUME TypeOK, NEW c \in Calls, NEW v, call' = [call EXCEPT ![c] = v]
  PROVE  Pull' = [Pull EXCEPT ![c] = IF v = Idle THEN Idle
                                     ELSE [agent |-> v.ask.agent, settled |-> v.settled]]
  BY DEF Pull, TypeOK

(* A call in flight is a claim that has begun.                              *)
LEMMA PullIsNotIdle ==
  ASSUME TypeOK, NEW c \in Calls, call[c] # Idle
  PROVE  Pull[c] # Idle
  <1>1. call[c].ask.agent \in Claimants /\ call[c].settled \in SUBSET Tasks
    BY DEF TypeOK, Call, Ask
  <1>2. Pull[c] = [agent |-> call[c].ask.agent, settled |-> call[c].settled]
    BY DEF Pull
  <1> QED
    BY <1>1, <1>2, ConstantsAssumption

(* The statements of a claim implement the one step of the board, and a     *)
(* settled task is never open again, in every behaviour.                    *)
THEOREM Refinement == Spec => BoardSpec
  <1>1. Init => Board!Init
    BY DEF Init, Board!Init, Posted, Settled, Present, Pull
  <1>2. IInv /\ [Next]_vars => [Board!Next]_Board!vars
    <2> SUFFICES ASSUME IInv, [Next]_vars PROVE Board!Next \/ UNCHANGED Board!vars
      OBVIOUS
    <2>0. TypeOK
      BY DEF IInv
    <2>1. UNCHANGED rows => UNCHANGED <<Posted, Settled>>
      BY DEF Posted, Settled, Present
    <2>2. UNCHANGED call => UNCHANGED Pull
      BY DEF Pull
    <2>3. ASSUME NEW t \in Tasks, NEW in \in PostInputs, TaskPost(t, in) PROVE Board!Next
      <3>1. in.assigned \in Claimants /\ in.priority \in Priorities /\ in.trace \in Traces \cup {NoTrace}
        BY ConstantsAssumption DEF PostInput
      <3>2. rows'[t] \in Row /\ rows'[t].status = "pending"
            /\ \A u \in Tasks \ {t} : rows'[u] = rows[u]
        BY <2>0, <2>3, <3>1 DEF TaskPost, TypeOK, Row, Status
      <3>3. rows[t] = Absent /\ rows'[t] # Absent
        BY <2>3, <3>2, ConstantsAssumption DEF TaskPost
      <3>4. t \notin Posted /\ Posted' = Posted \cup {t} /\ Settled' = Settled
        BY <3>2, <3>3 DEF Posted, Settled, Present
      <3>5. Board!Post(t, in.assigned)
        BY <2>2, <2>3, <3>4 DEF Board!Post, TaskPost
      <3> QED
        BY <3>1, <3>5 DEF Board!Next
    <2>4. ASSUME NEW c \in Calls, NEW ask \in Ask, BeginClaim(c, ask) PROVE Board!Next
      <3>1. PICK v : v = [ask |-> ask, settled |-> Settled, known |-> Posted,
                          at |-> IF ask.prefer = NoTrace THEN "any" ELSE "sticky"]
        OBVIOUS
      <3>2. v \in Call
        BY <3>1 DEF Call, Settled, Posted
      <3>3. call[c] = Idle /\ call' = [call EXCEPT ![c] = v] /\ UNCHANGED <<rows, addressee, claimed>>
        BY <2>4, <3>1 DEF BeginClaim
      <3>4. Pull' = [Pull EXCEPT ![c] = [agent |-> ask.agent, settled |-> Settled]]
        BY <2>0, <3>1, <3>2, <3>3, PullMoves, ConstantsAssumption
      <3>5. Pull[c] = Idle
        BY <3>3 DEF Pull
      <3>6. Board!Begin(c, ask.agent)
        BY <2>1, <3>3, <3>4, <3>5 DEF Board!Begin
      <3>7. ask.agent \in Claimants
        BY DEF Ask
      <3> QED
        BY <3>6, <3>7 DEF Board!Next
    <2>5. ASSUME NEW c \in Calls, call[c] # Idle, call' = [call EXCEPT ![c] = Idle],
                 UNCHANGED <<rows, addressee, claimed>>
          PROVE  Board!Next
      <3>1. Pull' = [Pull EXCEPT ![c] = Idle]
        BY <2>0, <2>5, PullMoves
      <3>2. Pull[c] # Idle
        BY <2>0, <2>5, PullIsNotIdle
      <3>3. Board!Return(c)
        BY <2>1, <2>5, <3>1, <3>2 DEF Board!Return
      <3> QED
        BY <3>3 DEF Board!Next
    <2>6. ASSUME NEW c \in Calls, NEW v, call[c] # Idle, v # Idle, v.ask = call[c].ask,
                 v.settled = call[c].settled, call' = [call EXCEPT ![c] = v],
                 UNCHANGED <<rows, addressee, claimed>>
          PROVE  UNCHANGED Board!vars
      <3>1. Pull' = [Pull EXCEPT ![c] = [agent |-> call[c].ask.agent, settled |-> call[c].settled]]
        BY <2>0, <2>6, PullMoves
      <3>2. Pull' = Pull
        BY <2>6, <3>1 DEF Pull
      <3> QED
        BY <2>1, <2>6, <3>2 DEF Board!vars
    <2>7. ASSUME NEW c \in Calls, NEW t \in Tasks, call[c] # Idle, Chosen(c, t),
                 UNCHANGED <<rows, addressee, claimed>>
          PROVE  UNCHANGED Board!vars
      <3>1. PICK v : v = [ask |-> call[c].ask, at |-> "update", task |-> t,
                          settled |-> call[c].settled, known |-> call[c].known]
        OBVIOUS
      <3>2. call[c] \in Call
        BY <2>0, <2>7 DEF TypeOK
      <3>3. v \in Call
        BY <3>1, <3>2 DEF Call
      <3>4. call' = [call EXCEPT ![c] = v]
        BY <2>7, <3>1 DEF Chosen
      <3> QED
        BY <2>6, <2>7, <3>1, <3>3, <3>4, ConstantsAssumption
    <2>8. ASSUME NEW c \in Calls, FallBack(c) PROVE Board!Next \/ UNCHANGED Board!vars
      <3>0. call[c] \in Call /\ call[c] # Idle
        BY <2>0, <2>8 DEF FallBack, At, TypeOK
      <3>1. CASE call[c].ask.strategy = "sticky_only"
        <4>1. call' = [call EXCEPT ![c] = Idle]
          BY <2>0, <2>8, <3>1 DEF FallBack, TypeOK
        <4> QED
          BY <2>5, <2>8, <3>0, <4>1 DEF FallBack
      <3>2. CASE call[c].ask.strategy # "sticky_only"
        <4>1. PICK v : v = [call[c] EXCEPT !.at = "any"]
          OBVIOUS
        <4>2. call[c].at = "sticky"
          BY <2>8 DEF FallBack, At
        <4>3. v \in Call /\ v.ask = call[c].ask /\ v.settled = call[c].settled
          BY <3>0, <4>1, <4>2 DEF Call
        <4>4. call' = [call EXCEPT ![c] = v]
          BY <2>0, <2>8, <3>2, <4>1 DEF FallBack, TypeOK
        <4> QED
          BY <2>6, <2>8, <3>0, <4>3, <4>4, ConstantsAssumption DEF FallBack
      <3> QED
        BY <3>1, <3>2
    <2>9. ASSUME NEW c \in Calls, FinishClaim(c) PROVE Board!Next
      <3>1. call[c] \in Call /\ call[c].at = "update" /\ call[c] # Idle
        BY <2>0, <2>9 DEF FinishClaim, At, TypeOK
      <3>2. PICK t \in Tasks, a \in Claimants : t = call[c].task /\ a = call[c].ask.agent
        BY <3>1 DEF Call, Ask
      <3>3. rows[t] \in Row /\ addressee[t] \in {a, Unassigned} /\ t \notin call[c].settled
        BY <2>9, <3>2 DEF IInv, TypeOK, SelectionValid, NoLateClaim, FinishClaim, Present
      <3>4. rows'[t] \in Row /\ rows'[t].status = "in_progress"
            /\ \A u \in Tasks \ {t} : rows'[u] = rows[u]
        BY <2>0, <2>9, <3>2, <3>3 DEF FinishClaim, TypeOK, Row, Status
      <3>5. rows[t] # Absent /\ rows'[t] # Absent
        BY <3>3, <3>4, ConstantsAssumption
      <3>6. t \in Posted /\ Posted' = Posted /\ Settled' = Settled \cup {t}
        BY <3>4, <3>5 DEF Posted, Settled, Present
      <3>7. Pull' = [Pull EXCEPT ![c] = Idle]
        BY <2>0, <2>9, PullMoves DEF FinishClaim
      <3>8. Pull[c] = [agent |-> a, settled |-> call[c].settled] /\ Pull[c] # Idle
        BY <2>0, <3>1, <3>2, PullIsNotIdle DEF Pull
      <3>9. claimed' = [claimed EXCEPT ![t] = @ \cup {a}] /\ UNCHANGED addressee
        BY <2>9, <3>2 DEF FinishClaim
      <3>10. Board!Give(c, t)
        BY <3>3, <3>6, <3>7, <3>8, <3>9 DEF Board!Give
      <3> QED
        BY <3>10 DEF Board!Next
    <2>10. ASSUME NEW t \in Tasks, TaskComplete(t) PROVE Board!Next
      <3>1. Present(t) /\ rows[t] \in Row
        BY <2>0, <2>10 DEF TaskComplete, Present, TypeOK
      <3>2. rows'[t] \in Row /\ rows'[t].status = "completed"
            /\ \A u \in Tasks \ {t} : rows'[u] = rows[u]
        BY <2>0, <2>10, <3>1 DEF TaskComplete, TypeOK, Row, Status
      <3>3. rows'[t] # Absent
        BY <3>2, ConstantsAssumption
      <3>4. t \in Posted /\ Posted' = Posted /\ Settled' = Settled \cup {t}
        BY <3>1, <3>2, <3>3 DEF Posted, Settled, Present
      <3>5. Board!Complete(t)
        BY <2>2, <2>10, <3>4 DEF Board!Complete, TaskComplete
      <3> QED
        BY <3>5 DEF Board!Next
    <2>11. CASE UNCHANGED vars
      BY <2>1, <2>2, <2>11 DEF vars, Board!vars
    <2>12. ASSUME NEW c \in Calls, ClaimStep(c) \/ StatementFails(c)
           PROVE  Board!Next \/ UNCHANGED Board!vars
      <3>1. CASE SelectSticky(c) \/ SelectAny(c)
        BY <2>7, <3>1 DEF SelectSticky, SelectAny, At
      <3>2. CASE NothingToClaim(c) \/ StatementFails(c)
        BY <2>5, <3>2 DEF NothingToClaim, StatementFails, At
      <3> QED
        BY <2>8, <2>9, <2>12, <3>1, <3>2 DEF ClaimStep
    <2> QED
      BY <2>3, <2>4, <2>10, <2>11, <2>12, ConstantsAssumption DEF Next
  <1> QED
    BY <1>1, <1>2, Invariant, PTL DEF Spec, BoardSpec, Board!Spec
=============================================================================
