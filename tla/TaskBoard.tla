------------------------------ MODULE TaskBoard ------------------------------
(***************************************************************************)
(* What the shared task queue promises to the agents that use it: claiming *)
(* is one step.  A claim that began at some moment takes any task that was *)
(* not settled at that moment and may go to its agent, or nothing.  A task *)
(* that has been claimed or completed is settled for good.                 *)
(***************************************************************************)
CONSTANTS Tasks, Claimants, Calls, Unassigned, Idle

VARIABLES posted,     \* the tasks on the board
          addressee,  \* whom each of them is for; Unassigned: anyone
          settled,    \* those claimed or completed
          given,      \* who was given each task
          pull        \* claims that have begun: the agent, and what was settled
vars == <<posted, addressee, settled, given, pull>>

Init ==
  /\ posted = {}
  /\ addressee = [t \in Tasks |-> Unassigned]
  /\ settled = {}
  /\ given = [t \in Tasks |-> {}]
  /\ pull = [c \in Calls |-> Idle]

Post(t, a) ==
  /\ t \notin posted
  /\ posted' = posted \cup {t}
  /\ addressee' = [addressee EXCEPT ![t] = a]
  /\ UNCHANGED <<settled, given, pull>>

Begin(c, a) ==
  /\ pull[c] = Idle
  /\ pull' = [pull EXCEPT ![c] = [agent |-> a, settled |-> settled]]
  /\ UNCHANGED <<posted, addressee, settled, given>>

Give(c, t) ==
  /\ pull[c] # Idle
  /\ t \in posted \ pull[c].settled
  /\ addressee[t] \in {pull[c].agent, Unassigned}
  /\ given' = [given EXCEPT ![t] = @ \cup {pull[c].agent}]
  /\ settled' = settled \cup {t}
  /\ pull' = [pull EXCEPT ![c] = Idle]
  /\ UNCHANGED <<posted, addressee>>

Return(c) ==
  /\ pull[c] # Idle
  /\ pull' = [pull EXCEPT ![c] = Idle]
  /\ UNCHANGED <<posted, addressee, settled, given>>

Complete(t) ==
  /\ t \in posted
  /\ settled' = settled \cup {t}
  /\ UNCHANGED <<posted, addressee, given, pull>>

Next ==
  \/ \E t \in Tasks, a \in Claimants : Post(t, a)
  \/ \E c \in Calls, a \in Claimants : Begin(c, a)
  \/ \E c \in Calls, t \in Tasks : Give(c, t)
  \/ \E c \in Calls : Return(c)
  \/ \E t \in Tasks : Complete(t)

Spec == Init /\ [][Next]_vars
=============================================================================
