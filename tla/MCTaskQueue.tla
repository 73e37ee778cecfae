----------------------------- MODULE MCTaskQueue -----------------------------
(* Small instances of the task queue.                                       *)
EXTENDS TaskQueue

CONSTANTS alice, bob, tr

TwoPriorities == {0, 1}

In(assigned, trace, priority) ==
  [assigned |-> assigned, trace |-> trace, priority |-> priority]

(* Posts for anyone and for either agent, with and without a trace, at two  *)
(* priorities.                                                              *)
SomePosts == {In(Unassigned, tr, 0), In(alice, NoTrace, 0), In(bob, tr, 1), In(Unassigned, NoTrace, 1)}

Asking(agent, prefer, strategy) ==
  [agent |-> agent, prefer |-> prefer, strategy |-> strategy]

(* Every strategy, with and without a preferred trace, by agents and by a   *)
(* caller without an id.                                                    *)
SomeAsks == {Asking(bob, tr, "sticky_only"), Asking(bob, NoTrace, "prefer_unassigned"),
             Asking(Unassigned, tr, "prefer_unassigned")}

(* The polling agent works on one trace and takes other work when there is  *)
(* none of it.                                                              *)
AgentAWorks == Asking(alice, tr, "default")
=============================================================================
