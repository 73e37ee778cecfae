--------------------------- MODULE ApprovalProofs ---------------------------
(***************************************************************************)
(* Proofs about Approval, for every set of requests, agents and resolvers  *)
(* and every limit: the threads implement ApprovalGate, a request that is  *)
(* listed is open, the cap holds for an agent whose requests never raced,  *)
(* and a decision is on record before it takes effect.                     *)
(***************************************************************************)
EXTENDS Approval, SequenceTheorems, FiniteSetTheorems, TLAPS

(* What ties a decision to its way through the threads: it is unmade while  *)
(* the request is listed, and from the moment a resolver takes the request  *)
(* the call, the channel and the answer agree.                              *)
DecisionInv ==
  /\ \A r \in pending : answered[r] = "none"
                        /\ pc[r] \in {"announcing", "waiting", "expired", "dropped"}
  /\ \A r \in Requests : pc[r] \in {"new", "checked"} => answered[r] = "none"
  /\ \A r \in Requests : channel[r] # "open" => answered[r] = channel[r]
  /\ \A h \in Resolvers : call[h] # Idle => answered[call[h].req] = call[h].decision
  /\ \A r \in Requests : outcome[r] # "none" <=> pc[r] = "done"

AInv == TypeOK /\ DecisionInv

-----------------------------------------------------------------------------
(* The history stays a sequence of records.                                 *)
LEMMA PushRecentType ==
  ASSUME recent \in Seq(Record), NEW rec \in Record
  PROVE  PushRecent(rec) \in Seq(Record)
<1> DEFINE longer == <<rec>> \o recent
<1>1. <<rec>> \in Seq(Record)
  OBVIOUS
<1>2. longer \in Seq(Record)
  BY <1>1, ConcatProperties
<1>3. MaxRecent \in Nat
  BY ApprovalAssumption
<1> HIDE DEF longer
<1>4. Len(longer) > MaxRecent => SubSeq(longer, 1, MaxRecent) \in Seq(Record)
  <2> SUFFICES ASSUME Len(longer) > MaxRecent PROVE SubSeq(longer, 1, MaxRecent) \in Seq(Record)
    OBVIOUS
  <2>1. Len(longer) \in Nat /\ \A i \in 1..Len(longer) : longer[i] \in Record
    BY <1>2, ElementOfSeq, LenProperties
  <2>2. \A i \in 1..MaxRecent : longer[i] \in Record
    BY <1>3, <2>1
  <2>3. QED
    BY <1>3, <2>2, SubSeqProperties
<1>5. PushRecent(rec) = IF Len(longer) > MaxRecent THEN SubSeq(longer, 1, MaxRecent) ELSE longer
  BY DEF PushRecent, longer
<1>6. QED
  BY <1>2, <1>4, <1>5

(* The invariant holds at the start.                                        *)
LEMMA InitAInv == Init => AInv
<1> SUFFICES ASSUME Init PROVE AInv
  OBVIOUS
<1>1. <<>> \in Seq(Record)
  OBVIOUS
<1>2. TypeOK
  BY <1>1 DEF Init, TypeOK
<1>3. DecisionInv
  BY DEF Init, DecisionInv
<1>4. QED
  BY <1>2, <1>3 DEF AInv

(* One step per action.                                                     *)
LEMMA NextAInv == AInv /\ [Next]_vars => AInv'
<1> SUFFICES ASSUME AInv, [Next]_vars PROVE AInv'
  OBVIOUS
<1> USE DEF AInv, Decisions
<1>1. CASE UNCHANGED vars
  BY <1>1 DEF vars, TypeOK, DecisionInv
<1>2. ASSUME NEW r \in Requests, CheckLimit(r) PROVE AInv'
  <2>1. /\ pc' \in [Requests -> {"new", "checked", "announcing", "waiting", "expired",
                                 "unlisted", "done", "dropped"}]
        /\ outcome' \in [Requests -> {"none", "timedOut"} \cup Decisions]
    BY <1>2 DEF CheckLimit, TypeOK
  <2>2. raced' \subseteq Agents
    BY <1>2, ApprovalAssumption DEF CheckLimit, TypeOK
  <2>3. TypeOK'
    BY <1>2, <2>1, <2>2 DEF CheckLimit, TypeOK
  <2>4. DecisionInv'
    <3>1. pc[r] = "new" /\ r \notin pending
          /\ UNCHANGED <<pending, channel, recent, call, answered>>
      BY <1>2 DEF CheckLimit, DecisionInv
    <3>2. CASE pc' = [pc EXCEPT ![r] = "done"] /\ outcome' = [outcome EXCEPT ![r] = "denied"]
      BY <3>1, <3>2 DEF TypeOK, DecisionInv
    <3>3. CASE pc' = [pc EXCEPT ![r] = "checked"] /\ UNCHANGED outcome
      BY <3>1, <3>3 DEF TypeOK, DecisionInv
    <3>4. QED
      BY <1>2, <3>2, <3>3 DEF CheckLimit
  <2>5. QED
    BY <2>3, <2>4
<1>3. ASSUME NEW r \in Requests, InsertPending(r) PROVE AInv'
  BY <1>3 DEF InsertPending, TypeOK, DecisionInv
<1>4. ASSUME NEW r \in Requests, PublishPending(r) PROVE AInv'
  BY <1>4 DEF PublishPending, TypeOK, DecisionInv
<1>5. ASSUME NEW r \in Requests, Receive(r) PROVE AInv'
  BY <1>5 DEF Receive, TypeOK, DecisionInv
<1>6. ASSUME NEW r \in Requests, Expire(r) PROVE AInv'
  BY <1>6 DEF Expire, TypeOK, DecisionInv
<1>7. ASSUME NEW r \in Requests, Unlist(r) PROVE AInv'
  BY <1>7 DEF Unlist, TypeOK, DecisionInv
<1>8. ASSUME NEW r \in Requests, RecordTimeout(r) PROVE AInv'
  <2>1. recent' \in Seq(Record)
    BY <1>8, PushRecentType DEF RecordTimeout, Record, TypeOK
  <2>2. TypeOK'
    BY <1>8, <2>1 DEF RecordTimeout, TypeOK
  <2>3. DecisionInv'
    BY <1>8 DEF RecordTimeout, TypeOK, DecisionInv
  <2>4. QED
    BY <2>2, <2>3
<1>9. ASSUME NEW r \in Requests, Drop(r) PROVE AInv'
  BY <1>9 DEF Drop, TypeOK, DecisionInv
<1>10. ASSUME NEW h \in Resolvers, NEW r \in Requests, NEW d \in Decisions, Take(h, r, d)
       PROVE  AInv'
  <2>1. TypeOK'
    BY <1>10 DEF Take, TypeOK, Call
  <2>2. answered[r] = "none" /\ \A k \in Resolvers : call[k] # Idle => call[k].req # r
    BY <1>10 DEF Take, DecisionInv, TypeOK, Call
  <2>3. DecisionInv'
    BY <1>10, <2>2 DEF Take, TypeOK, DecisionInv
  <2>4. QED
    BY <2>1, <2>3
<1>11. ASSUME NEW h \in Resolvers, RecordDecision(h) PROVE AInv'
  <2>1. call[h] \in Call /\ [req |-> call[h].req, decision |-> call[h].decision] \in Record
    BY <1>11 DEF RecordDecision, TypeOK, Call, Record
  <2>2. recent' \in Seq(Record)
    BY <1>11, <2>1, PushRecentType DEF RecordDecision, TypeOK
  <2>3. call' = [call EXCEPT ![h] = [call[h] EXCEPT !.step = "recorded"]]
    BY <1>11 DEF RecordDecision
  <2>4. [call[h] EXCEPT !.step = "recorded"] \in Call
        /\ [call[h] EXCEPT !.step = "recorded"].req = call[h].req
        /\ [call[h] EXCEPT !.step = "recorded"].decision = call[h].decision
    BY <2>1 DEF Call
  <2>5. TypeOK'
    BY <1>11, <2>2, <2>3, <2>4 DEF RecordDecision, TypeOK
  <2>6. DecisionInv'
    BY <1>11, <2>3, <2>4 DEF RecordDecision, TypeOK, DecisionInv
  <2>7. QED
    BY <2>5, <2>6
<1>12. ASSUME NEW h \in Resolvers, Send(h) PROVE AInv'
  <2>1. call[h].req \in Requests /\ call[h].decision \in Decisions
    BY <1>12 DEF Send, TypeOK, Call
  <2>2. TypeOK'
    BY <1>12, <2>1 DEF Send, TypeOK
  <2>3. DecisionInv'
    BY <1>12, <2>1 DEF Send, TypeOK, DecisionInv
  <2>4. QED
    BY <2>2, <2>3
<1>13. QED
  BY <1>1, <1>2, <1>3, <1>4, <1>5, <1>6, <1>7, <1>8, <1>9, <1>10, <1>11, <1>12
     DEF Next, Progress, Finish

-----------------------------------------------------------------------------
(* Decisions, channels, calls and outcomes agree in every reachable state.  *)
THEOREM Invariance == Spec => []AInv
<1>1. Init => AInv
  BY InitAInv
<1>2. AInv /\ [Next]_vars => AInv'
  BY NextAInv
<1>3. QED
  BY <1>1, <1>2, PTL DEF Spec

(* The state of the manager and of every call on it is well typed.          *)
THEOREM TypeCorrect == Spec => []TypeOK
<1>1. AInv => TypeOK
  BY DEF AInv
<1>2. QED
  BY <1>1, Invariance, PTL

(* A request that is offered for a decision has not returned and has not    *)
(* been answered.                                                           *)
THEOREM NotListed == Spec => []NotListedOnceDecided
<1>1. AInv => NotListedOnceDecided
  BY DEF AInv, DecisionInv, NotListedOnceDecided, TypeOK, Decisions
<1>2. QED
  BY <1>1, Invariance, PTL

(* The threads implement the gate: no tool call proceeds without the        *)
(* approval of a person, and no person overrides another.                   *)
THEOREM Refinement == Spec => GateSpec
<1> USE DEF Decisions
<1>1. Init => Gate!Init
  BY DEF Init, Gate!Init, Effect
<1>2. AInv /\ [Next]_vars => [Gate!Next]_Gate!vars
  <2> SUFFICES ASSUME AInv, [Next]_vars PROVE [Gate!Next]_Gate!vars
    OBVIOUS
  <2>0. TypeOK /\ DecisionInv
    BY DEF AInv
  <2>1. UNCHANGED outcome => UNCHANGED Effect
    BY DEF Effect
  <2>2. CASE UNCHANGED <<outcome, answered>>
    BY <2>1, <2>2 DEF Gate!vars
  <2>3. ASSUME NEW r \in Requests, NEW o \in {"denied", "timedOut"}, outcome[r] = "none",
               outcome' = [outcome EXCEPT ![r] = o], UNCHANGED answered
        PROVE  Gate!Refuse(r)
    <3>1. Effect[r] = "none"
      BY <2>3 DEF Effect
    <3>2. Effect' = [Effect EXCEPT ![r] = "refused"]
      BY <2>0, <2>3 DEF Effect, TypeOK
    <3>3. QED
      BY <2>3, <3>1, <3>2 DEF Gate!Refuse
  <2>4. ASSUME NEW r \in Requests, CheckLimit(r) PROVE Gate!Next \/ UNCHANGED Gate!vars
    <3>1. outcome[r] = "none" /\ UNCHANGED answered
      BY <2>0, <2>4 DEF CheckLimit, DecisionInv
    <3>2. CASE outcome' = [outcome EXCEPT ![r] = "denied"]
      BY <2>3, <3>1, <3>2 DEF Gate!Next
    <3>3. CASE UNCHANGED outcome
      BY <2>1, <3>1, <3>3 DEF Gate!vars
    <3>4. QED
      BY <2>4, <3>2, <3>3 DEF CheckLimit
  <2>5. ASSUME NEW r \in Requests, RecordTimeout(r) PROVE Gate!Next
    <3>1. outcome[r] = "none" /\ UNCHANGED answered
      BY <2>0, <2>5 DEF RecordTimeout, DecisionInv
    <3>2. outcome' = [outcome EXCEPT ![r] = "timedOut"]
      BY <2>5 DEF RecordTimeout
    <3>3. QED
      BY <2>3, <3>1, <3>2 DEF Gate!Next
  <2>6. ASSUME NEW r \in Requests, Receive(r) PROVE Gate!Next
    <3>1. outcome[r] = "none" /\ answered[r] = channel[r] /\ UNCHANGED answered
          /\ channel[r] \in Decisions
      BY <2>0, <2>6 DEF Receive, DecisionInv, TypeOK
    <3>2. CASE channel[r] = "denied"
      BY <2>3, <2>6, <3>1, <3>2 DEF Receive, Gate!Next
    <3>3. CASE channel[r] = "approved"
      <4>1. Effect[r] = "none"
        BY <3>1 DEF Effect
      <4>2. Effect' = [Effect EXCEPT ![r] = "run"]
        BY <2>0, <2>6, <3>3 DEF Receive, Effect, TypeOK
      <4>3. Gate!RunTool(r)
        BY <3>1, <3>3, <4>1, <4>2 DEF Gate!RunTool
      <4>4. QED
        BY <4>3 DEF Gate!Next
    <3>4. QED
      BY <3>1, <3>2, <3>3
  <2>7. ASSUME NEW h \in Resolvers, NEW r \in Requests, NEW d \in Decisions, Take(h, r, d)
        PROVE  Gate!Next
    <3>1. answered[r] = "none" /\ answered' = [answered EXCEPT ![r] = d] /\ UNCHANGED outcome
      BY <2>0, <2>7 DEF Take, DecisionInv
    <3>2. Gate!Decide(r, d)
      BY <2>1, <3>1 DEF Gate!Decide
    <3>3. QED
      BY <3>2 DEF Gate!Next
  <2>8. QED
    BY <2>2, <2>4, <2>5, <2>6, <2>7
       DEF Next, vars, Progress, Finish, InsertPending, PublishPending, Expire, Unlist, Drop,
           RecordDecision, Send
<1>3. QED
  BY <1>1, <1>2, Invariance, PTL DEF Spec, GateSpec, Gate!Spec

-----------------------------------------------------------------------------
(* While the requests of an agent do not race, at most one of them is       *)
(* between the check and the insertion, and there is room for it.           *)
CapInv ==
  \A a \in Agents \ raced :
    /\ Cardinality(PendingOf(a)) <= MaxPending
    /\ \A r, s \in CheckedOf(a) : r = s
    /\ CheckedOf(a) # {} => Cardinality(PendingOf(a)) < MaxPending

(* The pending requests of an agent are finitely many.                      *)
LEMMA PendingFinite ==
  ASSUME TypeOK, NEW a
  PROVE  IsFiniteSet(PendingOf(a)) /\ Cardinality(PendingOf(a)) \in Nat
<1>1. PendingOf(a) \in SUBSET Requests
  BY DEF PendingOf, TypeOK
<1>2. QED
  BY <1>1, ApprovalAssumption, FS_Subset, FS_CardinalityType

(* A step that lists no new request and admits none keeps the cap.          *)
LEMMA CapShrinks ==
  ASSUME TypeOK, CapInv, pending' \subseteq pending, raced \subseteq raced',
         \A r \in Requests : pc'[r] = "checked" => pc[r] = "checked"
  PROVE  CapInv'
<1> SUFFICES ASSUME NEW a \in Agents \ raced'
             PROVE  /\ Cardinality(PendingOf(a)') <= MaxPending
                    /\ \A r, s \in CheckedOf(a)' : r = s
                    /\ CheckedOf(a)' # {} => Cardinality(PendingOf(a)') < MaxPending
  BY DEF CapInv
<1>1. PendingOf(a)' \in SUBSET PendingOf(a) /\ CheckedOf(a)' \subseteq CheckedOf(a)
  BY DEF PendingOf, CheckedOf
<1>2. /\ Cardinality(PendingOf(a)') <= Cardinality(PendingOf(a))
      /\ Cardinality(PendingOf(a)) \in Nat
      /\ Cardinality(PendingOf(a)') \in Nat
  BY <1>1, PendingFinite, FS_Subset, FS_CardinalityType
<1>3. /\ Cardinality(PendingOf(a)) <= MaxPending
      /\ \A r, s \in CheckedOf(a) : r = s
      /\ CheckedOf(a) # {} => Cardinality(PendingOf(a)) < MaxPending
  BY DEF CapInv
<1>4. MaxPending \in Nat
  BY ApprovalAssumption
<1>5. QED
  BY <1>1, <1>2, <1>3, <1>4

(* The cap on pending requests holds for every agent whose requests never   *)
(* raced between the check and the insertion.                               *)
THEOREM CapHolds == Spec => []CapUnlessRaced
<1>1. Init => CapInv
  <2> SUFFICES ASSUME Init, NEW a \in Agents
               PROVE  PendingOf(a) = {} /\ CheckedOf(a) = {}
    <3>1. 0 <= MaxPending
      BY ApprovalAssumption
    <3>2. QED
      BY <3>1, FS_EmptySet DEF CapInv
  <2>1. QED
    BY DEF Init, PendingOf, CheckedOf
<1>2. AInv /\ CapInv /\ [Next]_vars => CapInv'
  <2> SUFFICES ASSUME AInv, CapInv, [Next]_vars PROVE CapInv'
    OBVIOUS
  <2>0. TypeOK /\ DecisionInv
    BY DEF AInv
  <2>1. ASSUME NEW r \in Requests, CheckLimit(r) PROVE CapInv'
    <3> DEFINE b == AgentOf[r]
    <3>1. CASE Cardinality(PendingOf(b)) >= MaxPending
      <4>1. pc' = [pc EXCEPT ![r] = "done"] /\ UNCHANGED <<raced, pending>>
        BY <2>1, <3>1 DEF CheckLimit
      <4>2. QED
        BY <2>0, <4>1, CapShrinks DEF TypeOK
    <3>2. CASE ~(Cardinality(PendingOf(b)) >= MaxPending)
      <4>1. /\ pc' = [pc EXCEPT ![r] = "checked"]
            /\ raced' = IF CheckedOf(b) # {} THEN raced \cup {b} ELSE raced
            /\ UNCHANGED pending
        BY <2>1, <3>2 DEF CheckLimit
      <4>2. Cardinality(PendingOf(b)) < MaxPending
        BY <2>0, <3>2, PendingFinite, ApprovalAssumption
      <4> SUFFICES ASSUME NEW a \in Agents \ raced'
                   PROVE  /\ Cardinality(PendingOf(a)) <= MaxPending
                          /\ \A s, t \in CheckedOf(a)' : s = t
                          /\ CheckedOf(a)' # {} => Cardinality(PendingOf(a)) < MaxPending
        BY <4>1 DEF CapInv, PendingOf
      <4>3. a \notin raced
        BY <4>1
      <4>4. CASE a = b
        <5>1. CheckedOf(a) = {}
          BY <4>1, <4>4
        <5>2. CheckedOf(a)' = {r}
          BY <2>0, <4>1, <4>4, <5>1 DEF CheckedOf, TypeOK
        <5>3. QED
          BY <4>2, <4>4, <5>2, <4>3 DEF CapInv
      <4>5. CASE a # b
        <5>1. CheckedOf(a)' = CheckedOf(a)
          BY <2>0, <4>1, <4>5 DEF CheckedOf, TypeOK
        <5>2. QED
          BY <4>3, <5>1 DEF CapInv
      <4>6. QED
        BY <4>4, <4>5
    <3>3. QED
      BY <3>1, <3>2
  <2>2. ASSUME NEW r \in Requests, InsertPending(r) PROVE CapInv'
    <3>1. pc[r] = "checked" /\ pending' = pending \cup {r} /\ UNCHANGED raced
          /\ pc' = [pc EXCEPT ![r] = "announcing"]
      BY <2>2 DEF InsertPending
    <3> SUFFICES ASSUME NEW a \in Agents \ raced
                 PROVE  /\ Cardinality(PendingOf(a)') <= MaxPending
                        /\ \A s, t \in CheckedOf(a)' : s = t
                        /\ CheckedOf(a)' # {} => Cardinality(PendingOf(a)') < MaxPending
      BY <3>1 DEF CapInv
    <3>2. /\ Cardinality(PendingOf(a)) <= MaxPending
          /\ \A s, t \in CheckedOf(a) : s = t
          /\ CheckedOf(a) # {} => Cardinality(PendingOf(a)) < MaxPending
      BY DEF CapInv
    <3>3. CASE AgentOf[r] = a
      <4>1. r \in CheckedOf(a) /\ CheckedOf(a)' = {}
        BY <2>0, <3>1, <3>2, <3>3 DEF CheckedOf, TypeOK
      <4>2. PendingOf(a)' = PendingOf(a) \cup {r}
        BY <3>1, <3>3 DEF PendingOf
      <4>3. Cardinality(PendingOf(a)') <= Cardinality(PendingOf(a)) + 1
        BY <2>0, <4>2, PendingFinite, FS_AddElement
      <4>4. Cardinality(PendingOf(a)) \in Nat /\ Cardinality(PendingOf(a)') \in Nat
        BY <2>0, <4>2, PendingFinite, FS_AddElement
      <4>5. QED
        BY <3>2, <4>1, <4>3, <4>4, ApprovalAssumption
    <3>4. CASE AgentOf[r] # a
      <4>1. PendingOf(a)' = PendingOf(a) /\ CheckedOf(a)' = CheckedOf(a)
        BY <2>0, <3>1, <3>4 DEF PendingOf, CheckedOf, TypeOK
      <4>2. QED
        BY <3>2, <4>1
    <3>5. QED
      BY <3>3, <3>4
  <2>3. ASSUME NEW r \in Requests,
               PublishPending(r) \/ Receive(r) \/ Expire(r) \/ Unlist(r) \/ RecordTimeout(r) \/ Drop(r)
        PROVE  CapInv'
    BY <2>0, <2>3, CapShrinks
       DEF PublishPending, Receive, Expire, Unlist, RecordTimeout, Drop, TypeOK
  <2>4. ASSUME NEW h \in Resolvers, NEW r \in Requests, NEW d \in Decisions, Take(h, r, d)
        PROVE  CapInv'
    BY <2>0, <2>4, CapShrinks DEF Take
  <2>5. ASSUME NEW h \in Resolvers, Finish(h) PROVE CapInv'
    BY <2>0, <2>5, CapShrinks DEF Finish, RecordDecision, Send
  <2>6. CASE UNCHANGED vars
    BY <2>0, <2>6, CapShrinks DEF vars
  <2>7. QED
    BY <2>1, <2>2, <2>3, <2>4, <2>5, <2>6 DEF Next, Progress
<1>3. CapInv => CapUnlessRaced
  BY DEF CapInv, CapUnlessRaced
<1>4. QED
  BY <1>1, <1>2, <1>3, Invariance, PTL DEF Spec
-----------------------------------------------------------------------------
(* The history.  A decision passes from the record to the channel and from  *)
(* the channel to the outcome, and a history that is not full has lost      *)
(* nothing, so what was sent is still in it.                                *)
InHistory(rec) == \E i \in 1..Len(recent) : recent[i] = rec

HistoryInv ==
  /\ Len(recent) <= MaxRecent
  /\ Len(recent) < MaxRecent =>
       /\ \A h \in Resolvers : call[h] # Idle /\ call[h].step = "recorded" =>
            InHistory([req |-> call[h].req, decision |-> call[h].decision])
       /\ \A r \in Requests : channel[r] # "open" =>
            InHistory([req |-> r, decision |-> channel[r]])
  /\ \A r \in Requests : outcome[r] = "approved" => channel[r] = "approved"

(* push_recent keeps within the limit; while the result is below the limit  *)
(* nothing was evicted, before or now, and the new record has been added.   *)
LEMMA PushRecentKeeps ==
  ASSUME recent \in Seq(Record), Len(recent) <= MaxRecent,
         NEW rec \in Record, recent' = PushRecent(rec)
  PROVE  /\ Len(recent') <= MaxRecent
         /\ Len(recent') < MaxRecent =>
              /\ Len(recent) < MaxRecent
              /\ InHistory(rec)'
              /\ \A old : InHistory(old) => InHistory(old)'
<1> DEFINE longer == <<rec>> \o recent
<1>1. MaxRecent \in Nat \ {0} /\ Len(recent) \in Nat
  BY ApprovalAssumption
<1>2. /\ Len(longer) = Len(recent) + 1
      /\ longer[1] = rec
      /\ \A i \in 1..Len(recent) : longer[i + 1] = recent[i]
  OBVIOUS
<1>3. recent' = IF Len(longer) > MaxRecent THEN SubSeq(longer, 1, MaxRecent) ELSE longer
  BY DEF PushRecent
<1>4. longer \in Seq(Record)
  OBVIOUS
<1> HIDE DEF longer
<1>5. CASE Len(longer) > MaxRecent
  <2>1. \A i \in 1..MaxRecent : longer[i] \in Record
    BY <1>1, <1>4, <1>5, ElementOfSeq, LenProperties
  <2>2. Len(recent') = MaxRecent
    BY <1>1, <1>3, <1>5, <2>1, SubSeqProperties
  <2>3. QED
    BY <1>1, <2>2
<1>6. CASE ~(Len(longer) > MaxRecent)
  <2>1. recent' = longer /\ Len(recent') = Len(recent) + 1 /\ Len(recent) < MaxRecent
    BY <1>1, <1>2, <1>3, <1>6
  <2>2. InHistory(rec)'
    BY <1>1, <1>2, <2>1 DEF InHistory
  <2>3. ASSUME NEW old, InHistory(old) PROVE InHistory(old)'
    <3>1. PICK i \in 1..Len(recent) : recent[i] = old
      BY <2>3 DEF InHistory
    <3>2. recent'[i + 1] = old /\ i + 1 \in 1..Len(recent')
      BY <1>1, <1>2, <2>1, <3>1
    <3>3. QED
      BY <3>2 DEF InHistory
  <2>4. QED
    BY <1>1, <1>2, <1>6, <2>1, <2>2, <2>3
<1>7. QED
  BY <1>5, <1>6

(* The history is kept by the steps that leave it alone, and a record that  *)
(* is pushed reaches the channel only afterwards.                           *)
LEMMA NextHistory == AInv /\ HistoryInv /\ [Next]_vars => HistoryInv'
<1> SUFFICES ASSUME AInv, HistoryInv, [Next]_vars PROVE HistoryInv'
  OBVIOUS
<1>0. TypeOK /\ DecisionInv
  BY DEF AInv
<1>1. CASE UNCHANGED <<recent, call, channel, outcome>>
  BY <1>1 DEF HistoryInv, InHistory
<1>2. ASSUME NEW r \in Requests, CheckLimit(r) PROVE HistoryInv'
  <2>1. UNCHANGED <<recent, call, channel>>
    BY <1>2 DEF CheckLimit
  <2>2. outcome' = outcome \/ outcome' = [outcome EXCEPT ![r] = "denied"]
    BY <1>2 DEF CheckLimit
  <2>3. \A s \in Requests : outcome'[s] = "approved" => outcome[s] = "approved"
    BY <1>0, <2>2 DEF TypeOK
  <2>4. QED
    BY <2>1, <2>3 DEF HistoryInv, InHistory
<1>3. ASSUME NEW r \in Requests, Receive(r) PROVE HistoryInv'
  <2>1. UNCHANGED <<recent, call, channel>>
    BY <1>3 DEF Receive
  <2>2. \A s \in Requests : outcome'[s] = "approved" => outcome[s] = "approved" \/ channel[s] = "approved"
    BY <1>0, <1>3 DEF Receive, TypeOK
  <2>3. QED
    BY <2>1, <2>2 DEF HistoryInv, InHistory
<1>4. ASSUME NEW r \in Requests, RecordTimeout(r) PROVE HistoryInv'
  <2> PICK rec \in Record : rec = [req |-> r, decision |-> "timedOut"]
    BY DEF Record
  <2>1. recent' = PushRecent(rec) /\ UNCHANGED <<call, channel>>
    BY <1>4 DEF RecordTimeout
  <2>2. \A s \in Requests : outcome'[s] = "approved" => outcome[s] = "approved"
    BY <1>0, <1>4 DEF RecordTimeout, TypeOK
  <2>3. /\ Len(recent') <= MaxRecent
        /\ Len(recent') < MaxRecent =>
             /\ Len(recent) < MaxRecent
             /\ \A old : InHistory(old) => InHistory(old)'
    BY <1>0, <2>1, PushRecentKeeps DEF HistoryInv, TypeOK
  <2>4. QED
    BY <2>1, <2>2, <2>3 DEF HistoryInv
<1>5. ASSUME NEW h \in Resolvers, NEW r \in Requests, NEW d \in Decisions, Take(h, r, d)
      PROVE  HistoryInv'
  <2>1. call'[h].step = "taken" /\ \A k \in Resolvers \ {h} : call'[k] = call[k]
    BY <1>0, <1>5 DEF Take, TypeOK
  <2>2. UNCHANGED <<recent, channel, outcome>>
    BY <1>5 DEF Take
  <2>3. QED
    BY <2>1, <2>2 DEF HistoryInv, InHistory
<1>6. ASSUME NEW h \in Resolvers, RecordDecision(h) PROVE HistoryInv'
  <2>1. call[h] \in Call
    BY <1>0, <1>6 DEF RecordDecision, TypeOK
  <2> PICK rec \in Record : rec = [req |-> call[h].req, decision |-> call[h].decision]
    BY <2>1 DEF Record, Call
  <2>2. recent' = PushRecent(rec) /\ UNCHANGED <<channel, outcome>>
    BY <1>6 DEF RecordDecision
  <2>3. /\ call'[h].req = call[h].req /\ call'[h].decision = call[h].decision
        /\ \A k \in Resolvers \ {h} : call'[k] = call[k]
    BY <1>0, <1>6, <2>1 DEF RecordDecision, TypeOK, Call
  <2>4. [req |-> call'[h].req, decision |-> call'[h].decision] = rec
    BY <2>3
  <2>5. /\ Len(recent') <= MaxRecent
        /\ Len(recent') < MaxRecent =>
             /\ Len(recent) < MaxRecent
             /\ InHistory(rec)'
             /\ \A old : InHistory(old) => InHistory(old)'
    BY <1>0, <2>2, PushRecentKeeps DEF HistoryInv, TypeOK
  <2>6. ASSUME Len(recent') < MaxRecent, NEW k \in Resolvers,
               call'[k] # Idle, call'[k].step = "recorded"
        PROVE  InHistory([req |-> call[k].req, decision |-> call[k].decision])'
    <3>1. CASE k = h
      BY <2>4, <2>5, <2>6, <3>1
    <3>2. CASE k # h
      BY <2>3, <2>5, <2>6, <3>2 DEF HistoryInv
    <3>3. QED
      BY <3>1, <3>2
  <2>7. QED
    BY <2>2, <2>5, <2>6 DEF HistoryInv
<1>7. ASSUME NEW h \in Resolvers, Send(h) PROVE HistoryInv'
  <2> DEFINE q == call[h].req
  <2>1. /\ q \in Requests /\ channel'[q] = call[h].decision
        /\ \A r \in Requests \ {q} : channel'[r] = channel[r]
        /\ call'[h] = Idle /\ \A k \in Resolvers \ {h} : call'[k] = call[k]
        /\ UNCHANGED <<recent, outcome>>
    BY <1>0, <1>7 DEF Send, TypeOK, Call
  <2>2. channel[q] # "open" => channel'[q] = channel[q]
    BY <1>0, <1>7, <2>1 DEF DecisionInv, Send
  <2>3. \A r \in Requests : outcome[r] = "approved" => channel'[r] = "approved"
    BY <2>1, <2>2 DEF HistoryInv
  <2>4. Len(recent) < MaxRecent => InHistory([req |-> q, decision |-> channel'[q]])
    BY <1>7, <2>1 DEF HistoryInv, Send
  <2>5. QED
    BY <2>1, <2>3, <2>4 DEF HistoryInv, InHistory
<1>8. QED
  BY <1>1, <1>2, <1>3, <1>4, <1>5, <1>6, <1>7
     DEF Next, Progress, Finish, InsertPending, PublishPending, Expire, Unlist, Drop, vars

(* What was sent is in the history, in every reachable state.               *)
LEMMA HistoryKept == Spec => []HistoryInv
<1>1. Init => HistoryInv
  <2>1. Len(<<>>) = 0 /\ MaxRecent \in Nat
    BY ApprovalAssumption
  <2>2. QED
    BY <2>1 DEF Init, HistoryInv
<1>2. AInv /\ HistoryInv /\ [Next]_vars => HistoryInv'
  BY NextHistory
<1>3. QED
  BY <1>1, <1>2, Invariance, PTL DEF Spec

(* The decision of a person is on record before the tool call it allows     *)
(* proceeds (resolve calls push_recent before it sends), as long as nothing *)
(* has been evicted from the history.                                       *)
THEOREM RecordedFirst == Spec => []RecordedBeforeActed
<1>1. HistoryInv => RecordedBeforeActed
  BY DEF HistoryInv, InHistory, RecordedBeforeActed
<1>2. QED
  BY <1>1, HistoryKept, PTL

(* The history never holds more than MAX_RECENT_APPROVALS records.          *)
THEOREM HistoryBounded == Spec => [](Len(recent) <= MaxRecent)
<1>1. HistoryInv => Len(recent) <= MaxRecent
  BY DEF HistoryInv
<1>2. QED
  BY <1>1, HistoryKept, PTL
=============================================================================
