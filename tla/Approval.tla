------------------------------ MODULE Approval ------------------------------
(***************************************************************************)
(* The ApprovalManager of openfang-kernel/src/approval.rs: agents (and the *)
(* HTTP API) submit requests and wait on a oneshot channel with a timeout, *)
(* people resolve them from the dashboard or a chat channel.               *)
(*                                                                         *)
(* request_approval and resolve run on different worker threads and share  *)
(* only the concurrent map `pending', the mutex around `recent' and the    *)
(* channel, so each access to one of these is a step of its own.  A        *)
(* request's future may be dropped while it waits: the tool call it guards *)
(* has a timeout of its own, and stop_agent_run aborts the whole turn.     *)
(***************************************************************************)
EXTENDS Naturals, Sequences, FiniteSets

CONSTANTS
  Requests,     \* request ids (fresh Uuids)
  Agents,
  AgentOf,      \* the agent each request is made for
  Resolvers,    \* concurrent calls of resolve
  MaxPending,   \* MAX_PENDING_PER_AGENT
  MaxRecent,    \* MAX_RECENT_APPROVALS
  Idle          \* a resolver not in a call

ASSUME ApprovalAssumption ==
  /\ AgentOf \in [Requests -> Agents]
  /\ MaxPending \in Nat \ {0}
  /\ MaxRecent \in Nat \ {0}
  /\ IsFiniteSet(Requests)

VARIABLES
  pc,        \* where each request_approval call is
  pending,   \* keys of ApprovalManager.pending
  channel,   \* the oneshot: "open" until a decision is sent on it
  recent,    \* ApprovalManager.recent, newest first
  outcome,   \* what request_approval returned
  call,      \* resolve calls in progress
  answered,  \* what resolve answered (or is about to answer) to the person
  raced      \* history: agents two of whose requests were between the limit
             \* check and the insertion at the same time
vars == <<pc, pending, channel, recent, outcome, call, answered, raced>>

Decisions == {"approved", "denied"}
Record    == [req : Requests, decision : Decisions \cup {"timedOut"}]
Call      == [req : Requests, decision : Decisions, step : {"taken", "recorded"}]

(* The state is well typed: what a call returned is a decision or a timeout *)
(* and the history holds complete records.                                  *)
TypeOK ==
  /\ pc \in [Requests -> {"new", "checked", "announcing", "waiting", "expired",
                          "unlisted", "done", "dropped"}]
  /\ pending \subseteq Requests
  /\ channel \in [Requests -> {"open"} \cup Decisions]
  /\ recent \in Seq(Record)
  /\ outcome \in [Requests -> {"none", "timedOut"} \cup Decisions]
  /\ call \in [Resolvers -> Call \cup {Idle}]
  /\ answered \in [Requests -> {"none"} \cup Decisions]
  /\ raced \subseteq Agents

PendingOf(a) == {r \in pending : AgentOf[r] = a}
CheckedOf(a) == {r \in Requests : pc[r] = "checked" /\ AgentOf[r] = a}

(* push_recent: newest first, the oldest dropped beyond the limit.          *)
PushRecent(rec) ==
  LET longer == <<rec>> \o recent
  IN  IF Len(longer) > MaxRecent THEN SubSeq(longer, 1, MaxRecent) ELSE longer

-----------------------------------------------------------------------------
(* request_approval.                                                        *)

(* Mutant of CheckLimit: one request too many passes the check.             *)
CheckLimitOffByOne(r) ==
  /\ pc[r] = "new"
  /\ IF Cardinality(PendingOf(AgentOf[r])) > MaxPending
     THEN /\ pc' = [pc EXCEPT ![r] = "done"]
          /\ outcome' = [outcome EXCEPT ![r] = "denied"]
          /\ UNCHANGED raced
     ELSE /\ pc' = [pc EXCEPT ![r] = "checked"]
          /\ raced' = IF CheckedOf(AgentOf[r]) # {} THEN raced \cup {AgentOf[r]} ELSE raced
          /\ UNCHANGED outcome
  /\ UNCHANGED <<pending, channel, recent, call, answered>>

CheckLimit(r) ==
  /\ pc[r] = "new"
  /\ IF Cardinality(PendingOf(AgentOf[r])) >= MaxPending
     THEN /\ pc' = [pc EXCEPT ![r] = "done"]
          /\ outcome' = [outcome EXCEPT ![r] = "denied"]
          /\ UNCHANGED raced
     ELSE /\ pc' = [pc EXCEPT ![r] = "checked"]
          /\ raced' = IF CheckedOf(AgentOf[r]) # {} THEN raced \cup {AgentOf[r]} ELSE raced
          /\ UNCHANGED outcome
  /\ UNCHANGED <<pending, channel, recent, call, answered>>

InsertPending(r) ==
  /\ pc[r] = "checked"
  /\ pending' = pending \cup {r}
  /\ pc' = [pc EXCEPT ![r] = "announcing"]
  /\ UNCHANGED <<channel, recent, outcome, call, answered, raced>>

PublishPending(r) ==
  /\ pc[r] = "announcing"
  /\ pc' = [pc EXCEPT ![r] = "waiting"]
  /\ UNCHANGED <<pending, channel, recent, outcome, call, answered, raced>>

(* Mutant of Receive: a decision counts only while the request is listed.   *)
ReceiveListed(r) ==
  /\ pc[r] = "waiting"
  /\ channel[r] # "open"
  /\ r \in pending
  /\ outcome' = [outcome EXCEPT ![r] = channel[r]]
  /\ pc' = [pc EXCEPT ![r] = "done"]
  /\ UNCHANGED <<pending, channel, recent, call, answered, raced>>

(* Mutant of Receive: the call returns before a decision was sent.          *)
ReceiveUnsent(r) ==
  /\ pc[r] = "waiting"
  /\ outcome' = [outcome EXCEPT ![r] = channel[r]]
  /\ pc' = [pc EXCEPT ![r] = "done"]
  /\ UNCHANGED <<pending, channel, recent, call, answered, raced>>

(* tokio::time::timeout polls the channel before the timer: a decision that *)
(* has been sent is received even if the time is up.                        *)
Receive(r) ==
  /\ pc[r] = "waiting"
  /\ channel[r] # "open"
  /\ outcome' = [outcome EXCEPT ![r] = channel[r]]
  /\ pc' = [pc EXCEPT ![r] = "done"]
  /\ UNCHANGED <<pending, channel, recent, call, answered, raced>>

Expire(r) ==
  /\ pc[r] = "waiting"
  /\ channel[r] = "open"
  /\ pc' = [pc EXCEPT ![r] = "expired"]
  /\ UNCHANGED <<pending, channel, recent, outcome, call, answered, raced>>

(* Mutant of Unlist: a request that timed out stays listed.                 *)
LeaveListed(r) ==
  /\ pc[r] = "expired"
  /\ pc' = [pc EXCEPT ![r] = "unlisted"]
  /\ UNCHANGED <<pending, channel, recent, outcome, call, answered, raced>>

(* The entry may be gone already: a resolver can have taken it and not yet  *)
(* sent its decision.  The request times out all the same.                  *)
Unlist(r) ==
  /\ pc[r] = "expired"
  /\ pending' = pending \ {r}
  /\ pc' = [pc EXCEPT ![r] = "unlisted"]
  /\ UNCHANGED <<channel, recent, outcome, call, answered, raced>>

RecordTimeout(r) ==
  /\ pc[r] = "unlisted"
  /\ recent' = PushRecent([req |-> r, decision |-> "timedOut"])
  /\ outcome' = [outcome EXCEPT ![r] = "timedOut"]
  /\ pc' = [pc EXCEPT ![r] = "done"]
  /\ UNCHANGED <<pending, channel, call, answered, raced>>

(* The caller drops the future at an await point; nothing cleans `pending'. *)
Drop(r) ==
  /\ pc[r] \in {"announcing", "waiting"}
  /\ pc' = [pc EXCEPT ![r] = "dropped"]
  /\ UNCHANGED <<pending, channel, recent, outcome, call, answered, raced>>

-----------------------------------------------------------------------------
(* resolve: take the entry out of the map, record the decision, send it.    *)
(* An id that is not pending is an error and changes nothing.               *)

(* Mutant of Take: the entry is read and left in the map.                   *)
Peek(h, r, d) ==
  /\ call[h] = Idle
  /\ r \in pending
  /\ answered' = [answered EXCEPT ![r] = d]
  /\ call' = [call EXCEPT ![h] = [req |-> r, decision |-> d, step |-> "taken"]]
  /\ UNCHANGED <<pc, pending, channel, recent, outcome, raced>>

Take(h, r, d) ==
  /\ call[h] = Idle
  /\ r \in pending
  /\ pending' = pending \ {r}
  /\ answered' = [answered EXCEPT ![r] = d]
  /\ call' = [call EXCEPT ![h] = [req |-> r, decision |-> d, step |-> "taken"]]
  /\ UNCHANGED <<pc, channel, recent, outcome, raced>>

RecordDecision(h) ==
  /\ call[h] # Idle
  /\ call[h].step = "taken"
  /\ recent' = PushRecent([req |-> call[h].req, decision |-> call[h].decision])
  /\ call' = [call EXCEPT ![h].step = "recorded"]
  /\ UNCHANGED <<pc, pending, channel, outcome, answered, raced>>

(* Mutant of Send: the decision is sent before it is recorded.              *)
SendFirst(h) ==
  /\ call[h] # Idle
  /\ call[h].step = "taken"
  /\ channel' = [channel EXCEPT ![call[h].req] = call[h].decision]
  /\ call' = [call EXCEPT ![h] = Idle]
  /\ UNCHANGED <<pc, pending, recent, outcome, answered, raced>>

Send(h) ==
  /\ call[h] # Idle
  /\ call[h].step = "recorded"
  /\ channel' = [channel EXCEPT ![call[h].req] = call[h].decision]
  /\ call' = [call EXCEPT ![h] = Idle]
  /\ UNCHANGED <<pc, pending, recent, outcome, answered, raced>>

-----------------------------------------------------------------------------
Init ==
  /\ pc = [r \in Requests |-> "new"]
  /\ pending = {}
  /\ channel = [r \in Requests |-> "open"]
  /\ recent = <<>>
  /\ outcome = [r \in Requests |-> "none"]
  /\ call = [h \in Resolvers |-> Idle]
  /\ answered = [r \in Requests |-> "none"]
  /\ raced = {}

Progress(r) == \/ InsertPending(r) \/ PublishPending(r) \/ Receive(r)
               \/ Expire(r) \/ Unlist(r) \/ RecordTimeout(r)

Finish(h) == RecordDecision(h) \/ Send(h)

Next ==
  \/ \E r \in Requests : CheckLimit(r) \/ Progress(r) \/ Drop(r)
  \/ \E h \in Resolvers, r \in Requests, d \in Decisions : Take(h, r, d)
  \/ \E h \in Resolvers : Finish(h)

(* A request that was submitted is polled again until it returns: the event *)
(* bus never blocks a publisher and the timer fires.  Nobody has to answer. *)
Fairness == \A r \in Requests : WF_vars(Progress(r))

Spec == Init /\ [][Next]_vars /\ Fairness

-----------------------------------------------------------------------------
(* Properties.                                                              *)

(* The threads implement the gate: a person's decision is final, and a tool *)
(* call proceeds only on an approval a person was told about, in every      *)
(* interleaving of resolve with the timeout.                                *)
Effect == [r \in Requests |-> CASE outcome[r] = "none"     -> "none"
                                [] outcome[r] = "approved" -> "run"
                                [] OTHER                   -> "refused"]
Gate == INSTANCE ApprovalGate WITH verdict <- answered, effect <- Effect
GateSpec == Gate!Spec

(* A request that is offered for a decision is still open: its call has not *)
(* returned, by a timeout or otherwise, and no other person has answered    *)
(* it, sent or not.                                                         *)
NotListedOnceDecided ==
  \A r \in pending : outcome[r] = "none" /\ channel[r] = "open" /\ answered[r] = "none"

(* resolve records the decision before it wakes the agent up: as long as    *)
(* nothing has been evicted, a tool call that proceeds is in the history as *)
(* approved.                                                                *)
RecordedBeforeActed ==
  \A r \in Requests :
    outcome[r] = "approved" /\ Len(recent) < MaxRecent
      => \E i \in 1..Len(recent) : recent[i] = [req |-> r, decision |-> "approved"]

(* The cap on pending requests holds unless two requests of the same agent  *)
(* were between the check and the insertion together (the check and the     *)
(* insertion are not atomic).                                               *)
CapUnlessRaced ==
  \A a \in Agents : a \notin raced => Cardinality(PendingOf(a)) <= MaxPending

(* Every request that passed the check returns or is dropped, answered or   *)
(* not, also when a resolver took it and the timer fired meanwhile.         *)
RequestsReturn ==
  \A r \in Requests : pc[r] = "checked" ~> pc[r] \in {"done", "dropped"}
=============================================================================
