----------------------------- MODULE TaskBoard -----------------------------
(***************************************************************************)
(* What the runtime promises about the tasks, whatever is queued, cached   *)
(* or recomputed: who may move which task, and when.                       *)
(*   - An agent only ever takes an open digital task without a gate whose  *)
(*     dependencies are all tasks that are Done, and only finishes what it *)
(*     holds.                                                              *)
(*   - A decision is taken once per gate, while it is Pending, and moves   *)
(*     its Auth gate together with the record of the decision.             *)
(*   - The ids operators name in claim and complete commands are theirs to *)
(*     move at any time.                                                   *)
(* There is no bus, no critical path and no tick here.                     *)
(***************************************************************************)
EXTENDS Naturals

CONSTANTS Tasks, Fixtures, ClaimTargets

VARIABLES graph, status, claimedBy, pending

board == <<graph, status, claimedBy, pending>>

NewBoard(g) ==
    /\ graph' = g
    /\ status' = [t \in Tasks |-> "Open"]
    /\ claimedBy' = [t \in Tasks |-> "nobody"]

Init ==
    /\ graph.nodes = {}
    /\ status = [t \in Tasks |-> "Open"]
    /\ claimedBy = [t \in Tasks |-> "nobody"]
    /\ pending = [t \in Tasks |-> "absent"]

\* Loading never withdraws a decision, and asks for one at every Auth gate without one.
Load ==
    \E f \in Fixtures :
       /\ NewBoard(f)
       /\ pending' = [t \in Tasks |->
             IF t \in f.nodes /\ f.gate[t] = "Auth" /\ pending[t] \notin {"Approved", "Denied"}
             THEN "Pending" ELSE pending[t]]

Ready(t) ==
    /\ t \in graph.nodes
    /\ graph.gate[t] = "None"
    /\ status[t] = "Open"
    /\ \A p \in graph.deps[t] : p \in graph.nodes /\ status[p] = "Done"

AgentTakes(t) ==
    /\ Ready(t)
    /\ status' = [status EXCEPT ![t] = "Claimed"]
    /\ claimedBy' = [claimedBy EXCEPT ![t] = "swarm-digital-1"]
    /\ UNCHANGED <<graph, pending>>

AgentFinishes(t) ==
    /\ t \in graph.nodes
    /\ graph.gate[t] = "None"
    /\ claimedBy[t] = "swarm-digital-1"
    /\ status[t] = "Claimed"
    /\ status' = [status EXCEPT ![t] = "Done"]
    /\ UNCHANGED <<graph, claimedBy, pending>>

IsGate(t) == t \in graph.nodes /\ graph.gate[t] = "Auth"

Decides(t, verdict, outcome) ==
    /\ pending[t] = "Pending"
    /\ pending' = [pending EXCEPT ![t] = verdict]
    /\ status' = IF IsGate(t) THEN [status EXCEPT ![t] = outcome] ELSE status
    /\ UNCHANGED <<graph, claimedBy>>

HumanTakes(t) ==
    /\ t \in graph.nodes
    /\ status' = [status EXCEPT ![t] = "Claimed"]
    /\ claimedBy' = [claimedBy EXCEPT ![t] = "human"]
    /\ UNCHANGED <<graph, pending>>

HumanFinishes(t) ==
    /\ t \in graph.nodes
    /\ status' = [status EXCEPT ![t] = "Done"]
    /\ UNCHANGED <<graph, claimedBy, pending>>

Next ==
    \/ Load
    \/ \E t \in Tasks :
          \/ AgentTakes(t)
          \/ AgentFinishes(t)
          \/ Decides(t, "Approved", "Done")
          \/ Decides(t, "Denied", "Blocked")
    \/ \E t \in ClaimTargets : HumanTakes(t) \/ HumanFinishes(t)

Spec == Init /\ [][Next]_board
=============================================================================
