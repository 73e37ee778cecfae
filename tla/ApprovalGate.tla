----------------------------- MODULE ApprovalGate -----------------------------
(* What the execution-approval gate promises, whatever threads and timers   *)
(* do: a human decides a request at most once, the guarded tool runs at     *)
(* most once and only after a human approved it, and refusing is always     *)
(* possible (a denial, a timeout, too many requests).                       *)
CONSTANT Requests

VARIABLES verdict,  \* what a human was told his decision on the request is
          effect    \* what became of the guarded tool call
vars == <<verdict, effect>>

Init ==
  /\ verdict = [r \in Requests |-> "none"]
  /\ effect  = [r \in Requests |-> "none"]

Decide(r, d) ==
  /\ verdict[r] = "none"
  /\ verdict' = [verdict EXCEPT ![r] = d]
  /\ UNCHANGED effect

RunTool(r) ==
  /\ effect[r] = "none"
  /\ verdict[r] = "approved"
  /\ effect' = [effect EXCEPT ![r] = "run"]
  /\ UNCHANGED verdict

Refuse(r) ==
  /\ effect[r] = "none"
  /\ effect' = [effect EXCEPT ![r] = "refused"]
  /\ UNCHANGED verdict

Next == \E r \in Requests : \/ \E d \in {"approved", "denied"} : Decide(r, d)
                            \/ RunTool(r)
                            \/ Refuse(r)

Spec == Init /\ [][Next]_vars
=============================================================================
