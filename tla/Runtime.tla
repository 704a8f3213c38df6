------------------------------ MODULE Runtime ------------------------------
(***************************************************************************)
(* The kernel runtime (runtime.rs): a single owner of the life-state S     *)
(* (graph, cached critical path, regime), of the wait snapshot (the human  *)
(* decisions) and of the message bus.  A host calls load_actions,          *)
(* enqueue_manual and tick; tick drains the bus, lets the agent take at    *)
(* most one step, and drains again.                                        *)
(*                                                                         *)
(* One action is the handling of one message or one agent step.  Nothing   *)
(* else runs inside a tick (the runtime is held by &mut), so the grain     *)
(* only serves to tell the steps apart: hosts act when pc is "idle".       *)
(*                                                                         *)
(* Left out: the memory sink and the TickReport (written, never read by a  *)
(* control decision), timestamps, snapshot history, and the status and     *)
(* phase of the snapshot, which derive_status computes from pending.       *)
(***************************************************************************)
EXTENDS CriticalPath, MsgBus

CONSTANTS
    Fixtures,      \* the graphs hosts load
    ClaimTargets,  \* the ids operators name in ClaimPhysical and CompletePhysical
    Capacity,      \* of the bus (64 in Runtime::new)
    MaxManuals,    \* bound: commands enqueued in a behaviour
    MaxLoads       \* bound: loads in a behaviour

ASSUME FixturesAssumption == Fixtures \subseteq Graph
\* derive_triggers iterates a HashMap; with one due task its order is determined.
ASSUME DueAssumption == \A f \in Fixtures : \A s, t \in f.due : s = t
ASSUME ClaimTargetsAssumption == ClaimTargets \subseteq Tasks
ASSUME BoundsAssumption ==
    /\ Capacity \in Nat \ {0}
    /\ MaxManuals \in Nat
    /\ MaxLoads \in Nat

VARIABLES
    graph, status, claimedBy,    \* LifeState.graph, its nodes' status and claimed_by
    cp, fp, regime, version,     \* LifeState.critical_path, .fingerprint, .regime, .version
    metrics,                     \* LifeState.metrics
    pending, physical,           \* Snapshot.pending and .physical, by action id
    bus,                         \* Runtime.bus
    prev,                        \* Runtime.prev_fp .. prev_hootl, the edge state of triggers
    pc, auto,                    \* where tick is, and its auto_agent argument
    issued                       \* commands enqueued so far

life == <<graph, status, claimedBy, cp, fp, regime, version, metrics>>
snapshot == <<pending, physical>>
vars == <<life, snapshot, bus, prev, pc, auto, issued>>

NoOne == "nobody"
Agent1 == "swarm-digital-1"
Human == "human"

Absent == "absent"
ApprovalStatus == {"Pending", "Approved", "Denied"}
PhysicalStatus == {"Open", "Claimed", "Completed"}
Resolved == {"Approved", "Denied"}

NoFingerprint == [none |-> TRUE]

Init ==
    /\ graph = EmptyGraph
    /\ status = AllOpen
    /\ claimedBy = [t \in Tasks |-> NoOne]
    /\ cp = NoReport
    /\ fp = NoFingerprint
    /\ regime = "Hootl"
    /\ version = 1
    /\ metrics = [hootl_completed |-> 0, hitl_surfaces |-> 0]
    /\ pending = [t \in Tasks |-> Absent]
    /\ physical = [t \in Tasks |-> Absent]
    /\ bus = NewBus(Capacity)
    /\ prev = [fp |-> NoFingerprint, path |-> <<>>,
               auth |-> NoTask, physical |-> NoTask, hootl |-> NoTask]
    /\ pc = "idle"
    /\ auto = FALSE
    /\ issued = 0

-----------------------------------------------------------------------------
(* LifeState::recompute and Runtime::emit_triggers *)

RegimeOf(g, st, path) == IF NeedsHitl(g, st, path) THEN "HitlWait" ELSE "Hootl"

\* recompute, after the graph has become g with statuses st.
Recompute(g, st) ==
    /\ cp' = compute_critical_path(g, st)
    /\ fp' = fingerprint(g, st)
    /\ regime' = RegimeOf(g, st, cp'.path)

\* hitl_surfaces counts the recomputes that enter HitlWait.
Surfaces(next) ==
    IF regime # "HitlWait" /\ next = "HitlWait" THEN metrics.hitl_surfaces + 1
                                                ELSE metrics.hitl_surfaces

\* What emit_triggers remembers of graph g, statuses st, report r and fingerprint f.
EdgeState(g, st, r, f) ==
    [fp |-> f, path |-> r.path,
     auth |-> next_auth_gate(g, st, r.path),
     physical |-> next_physical_beacon(g, st, r.path),
     hootl |-> next_hootl_digital(g, st, r.path)]

Appears(now, before) == now # NoTask /\ now # before

\* derive_triggers, each trigger pushed in the order it is derived.
PushTriggers(g, e, b) ==
    LET b1 == PushIf(e.fp # prev.fp, b, Trigger("GraphChanged"))
        b2 == PushIf(e.path # prev.path, b1, Trigger("CriticalPathChanged"))
        b3 == PushIf(g.due \cap g.nodes # {}, b2, Trigger("DeadlineApproaching"))
        b4 == PushIf(Appears(e.auth, prev.auth), b3, Trigger("AuthNeeded"))
        b5 == PushIf(Appears(e.physical, prev.physical), b4, Trigger("PhysicalBeacon"))
    IN  PushIf(Appears(e.hootl, prev.hootl), b5, Trigger("HootlWorkAvailable"))

\* emit_triggers into bus b, after Recompute(g, st).
EmitTriggers(g, st, b) ==
    /\ prev' = EdgeState(g, st, cp', fp')
    /\ bus' = PushTriggers(g, prev', b)

-----------------------------------------------------------------------------
(* The host's calls *)

\* upsert_pending_from_actions: decided rows stay, every other Auth gate is Pending.
upsert_pending(f) ==
    [t \in Tasks |-> IF t \in f.nodes /\ f.gate[t] = "Auth" /\ pending[t] \notin Resolved
                     THEN "Pending" ELSE pending[t]]

\* upsert_physical: rows keep their status, a new one is Open.
upsert_physical(f) ==
    [t \in Tasks |-> IF t \in f.nodes /\ f.gate[t] = "Physical" /\ physical[t] = Absent
                     THEN "Open" ELSE physical[t]]

\* load_actions with the actions whose graph is f; a cyclic graph is refused.
Load(f) ==
    /\ pc = "idle"
    /\ version <= MaxLoads
    /\ HasTopoOrder(f)
    /\ graph' = f
    /\ status' = AllOpen
    /\ claimedBy' = [t \in Tasks |-> NoOne]
    /\ Recompute(f, AllOpen)
    /\ metrics' = [metrics EXCEPT !.hitl_surfaces = Surfaces(regime')]
    /\ version' = version + 1
    /\ pending' = upsert_pending(f)
    /\ physical' = upsert_physical(f)
    /\ EmitTriggers(f, AllOpen, bus)
    /\ UNCHANGED <<pc, auto, issued>>

\* What a command can name; Recompute (and LoadGraph, which is the same) names nothing.
NamedBy(c) == CASE c = "Recompute"              -> {NoTask}
                [] c \in {"Claim", "Complete"}  -> ClaimTargets
                [] OTHER                        -> Tasks

EnqueueManual(c, t) ==
    /\ pc = "idle"
    /\ issued < MaxManuals
    /\ bus' = Push(bus, Manual(c, t))
    /\ issued' = issued + 1
    /\ UNCHANGED <<life, snapshot, prev, pc, auto>>

BeginTick(a) ==
    /\ pc = "idle"
    /\ pc' = "drain"
    /\ auto' = a
    /\ UNCHANGED <<life, snapshot, bus, prev, issued>>

-----------------------------------------------------------------------------
(* tick: draining the bus *)

Draining == pc \in {"drain", "drain2"}

\* The message apply_message is given is the manual command c naming t.
Applies(c, t) == Draining /\ bus.queue # <<>> /\ Head(bus.queue) = Manual(c, t)

\* AuthNeeded and PhysicalBeacon put the regime in HitlWait whatever the graph is by now.
ApplyTrigger ==
    /\ Draining
    /\ bus.queue # <<>>
    /\ Head(bus.queue).type = "Trigger"
    /\ regime' = IF Head(bus.queue).kind \in {"AuthNeeded", "PhysicalBeacon"}
                 THEN "HitlWait" ELSE regime
    /\ bus' = Pop(bus)
    /\ UNCHANGED <<graph, status, claimedBy, cp, fp, version, metrics, snapshot, prev,
                   pc, auto, issued>>

\* Claimed and Completed reports change nothing.
ApplyReport ==
    /\ Draining
    /\ bus.queue # <<>>
    /\ Head(bus.queue).type = "Agent"
    /\ bus' = Pop(bus)
    /\ UNCHANGED <<life, snapshot, prev, pc, auto, issued>>

ApplyRecompute ==
    /\ Applies("Recompute", NoTask)
    /\ Recompute(graph, status)
    /\ metrics' = [metrics EXCEPT !.hitl_surfaces = Surfaces(regime')]
    /\ EmitTriggers(graph, status, Pop(bus))
    /\ UNCHANGED <<graph, status, claimedBy, version, snapshot, pc, auto, issued>>

Verdict(c)  == IF c = "Approve" THEN "Approved" ELSE "Denied"
\* Mutant: the node is given the approval's status instead of the task's.
Outcome_verdict(c) == IF c = "Approve" THEN "Approved" ELSE "Denied"

Outcome(c)  == IF c = "Approve" THEN "Done" ELSE "Blocked"

\* Approve or Deny: the row must be Pending; only an Auth node follows the decision.
ApplyDecision(c, t) ==
    /\ c \in {"Approve", "Deny"}
    /\ Applies(c, t)
    /\ pending[t] = "Pending"
    /\ pending' = [pending EXCEPT ![t] = Verdict(c)]
    /\ status' = IF t \in graph.nodes /\ graph.gate[t] = "Auth"
                 THEN [status EXCEPT ![t] = Outcome(c)] ELSE status
    /\ Recompute(graph, status')
    /\ metrics' = [metrics EXCEPT !.hitl_surfaces = Surfaces(regime')]
    /\ EmitTriggers(graph, status', Pop(bus))
    /\ UNCHANGED <<graph, claimedBy, version, physical, pc, auto, issued>>

\* Mutant: the graph is written before the snapshot accepts the decision.
RejectDecision_graphFirst(c, t) ==
    /\ c \in {"Approve", "Deny"}
    /\ Applies(c, t)
    /\ pending[t] # "Pending"
    /\ status' = IF t \in graph.nodes /\ graph.gate[t] = "Auth"
                 THEN [status EXCEPT ![t] = Outcome(c)] ELSE status
    /\ Recompute(graph, status')
    /\ bus' = Pop(bus)
    /\ pc' = "idle"
    /\ UNCHANGED <<graph, claimedBy, version, metrics, snapshot, prev, auto, issued>>

\* Mutant: the refused command is peeked, not popped.
RejectDecision_stays(c, t) ==
    /\ c \in {"Approve", "Deny"}
    /\ Applies(c, t)
    /\ pending[t] # "Pending"
    /\ pc' = "idle"
    /\ UNCHANGED <<life, snapshot, bus, prev, auto, issued>>

\* NotFound or AlreadyResolved ends the tick; the command is gone, the rest stays queued.
RejectDecision(c, t) ==
    /\ c \in {"Approve", "Deny"}
    /\ Applies(c, t)
    /\ pending[t] # "Pending"
    /\ bus' = Pop(bus)
    /\ pc' = "idle"
    /\ UNCHANGED <<life, snapshot, prev, auto, issued>>

\* Mutant: a claim does not recompute.
ApplyClaim_stale(t) ==
    /\ Applies("Claim", t)
    /\ physical' = [physical EXCEPT ![t] = "Claimed"]
    /\ status' = IF t \in graph.nodes THEN [status EXCEPT ![t] = "Claimed"] ELSE status
    /\ claimedBy' = IF t \in graph.nodes THEN [claimedBy EXCEPT ![t] = Human] ELSE claimedBy
    /\ bus' = Pop(bus)
    /\ UNCHANGED <<graph, cp, fp, regime, metrics, version, pending, prev, pc, auto, issued>>

\* ClaimPhysical: a row is made when there is none; any node is claimed; nothing is emitted.
ApplyClaim(t) ==
    /\ Applies("Claim", t)
    /\ physical' = [physical EXCEPT ![t] = "Claimed"]
    /\ status' = IF t \in graph.nodes THEN [status EXCEPT ![t] = "Claimed"] ELSE status
    /\ claimedBy' = IF t \in graph.nodes THEN [claimedBy EXCEPT ![t] = Human] ELSE claimedBy
    /\ Recompute(graph, status')
    /\ metrics' = [metrics EXCEPT !.hitl_surfaces = Surfaces(regime')]
    /\ bus' = Pop(bus)
    /\ UNCHANGED <<graph, version, pending, prev, pc, auto, issued>>

\* CompletePhysical: any node is Done; claimed_by stays.
ApplyComplete(t) ==
    /\ Applies("Complete", t)
    /\ physical' = [physical EXCEPT ![t] = "Completed"]
    /\ status' = IF t \in graph.nodes THEN [status EXCEPT ![t] = "Done"] ELSE status
    /\ Recompute(graph, status')
    /\ metrics' = [metrics EXCEPT !.hitl_surfaces = Surfaces(regime')]
    /\ EmitTriggers(graph, status', Pop(bus))
    /\ UNCHANGED <<graph, claimedBy, version, pending, pc, auto, issued>>

\* The bus is empty: the agent's turn, once, when the host asked for it.
DrainDone ==
    /\ Draining
    /\ bus.queue = <<>>
    /\ pc' = IF pc = "drain" /\ auto /\ cp.some THEN "agent" ELSE "idle"
    /\ UNCHANGED <<life, snapshot, bus, prev, auto, issued>>

-----------------------------------------------------------------------------
(* tick: the agent's step *)

Owned == {t \in graph.nodes : /\ claimedBy[t] = Agent1
                              /\ status[t] = "Claimed"
                              /\ graph.gate[t] = "None"}

\* Mutant: the agent trusts the path and does not look at the predecessors.
Claimable_anyPreds(t) ==
    /\ OnPath(cp.path, t) \/ t \in cp.critical
    /\ t \in graph.nodes
    /\ graph.gate[t] = "None"
    /\ status[t] = "Open"

\* AgentWorker::claim accepts t.
Claimable(t) ==
    /\ OnPath(cp.path, t) \/ t \in cp.critical
    /\ t \in graph.nodes
    /\ graph.gate[t] = "None"
    /\ status[t] = "Open"
    /\ \A p \in graph.deps[t] : p \in graph.nodes /\ status[p] = "Done"

\* Any owned task: owned_claimed is the first in HashMap order.
AgentComplete(t) ==
    /\ pc = "agent"
    /\ t \in Owned
    /\ status' = [status EXCEPT ![t] = "Done"]
    /\ Recompute(graph, status')
    /\ metrics' = [hootl_completed |-> metrics.hootl_completed + 1,
                   hitl_surfaces |-> Surfaces(regime')]
    /\ EmitTriggers(graph, status', Push(bus, Agent("Completed")))
    /\ pc' = "drain2"
    /\ UNCHANGED <<graph, claimedBy, version, snapshot, auto, issued>>

AgentClaim(t) ==
    /\ pc = "agent"
    /\ Owned = {}
    /\ t = next_hootl_digital(graph, status, cp.path)
    /\ Claimable(t)
    /\ status' = [status EXCEPT ![t] = "Claimed"]
    /\ claimedBy' = [claimedBy EXCEPT ![t] = Agent1]
    /\ Recompute(graph, status')
    /\ metrics' = [metrics EXCEPT !.hitl_surfaces = Surfaces(regime')]
    /\ EmitTriggers(graph, status', Push(bus, Agent("Claimed")))
    /\ pc' = "drain2"
    /\ UNCHANGED <<graph, version, snapshot, auto, issued>>

\* NoWork, or NotClaimable: the tick ends.
AgentQuiet ==
    /\ pc = "agent"
    /\ Owned = {}
    /\ ~Claimable(next_hootl_digital(graph, status, cp.path))
    /\ pc' = "idle"
    /\ UNCHANGED <<life, snapshot, bus, prev, auto, issued>>

-----------------------------------------------------------------------------

TickStep ==
    \/ ApplyTrigger
    \/ ApplyReport
    \/ ApplyRecompute
    \/ DrainDone
    \/ AgentQuiet
    \/ \E t \in Tasks :
          \/ ApplyClaim(t)
          \/ ApplyComplete(t)
          \/ AgentComplete(t)
          \/ AgentClaim(t)
          \/ \E c \in Command : ApplyDecision(c, t) \/ RejectDecision(c, t)

Next ==
    \/ \E f \in Fixtures : Load(f)
    \/ \E c \in Command : \E t \in NamedBy(c) : EnqueueManual(c, t)
    \/ \E a \in BOOLEAN : BeginTick(a)
    \/ TickStep

Spec == Init /\ [][Next]_vars

\* A tick, once begun, keeps stepping: WF_vars(TickStep) spelled out, because a TickStep
\* is possible exactly when pc # "idle" and then nothing else is.
TicksRun == []<>(pc = "idle") \/ []<><<pc # "idle">>_vars

\* And the host keeps ticking with the agent on.
FairSpec == Spec /\ TicksRun /\ SF_vars(BeginTick(TRUE))

-----------------------------------------------------------------------------
(* Properties *)

\* The types; cp, fp and prev only ever hold what CriticalPath computes.
TypeOK ==
    /\ graph \in Graph
    /\ status \in [Tasks -> TaskStatus]
    /\ claimedBy \in [Tasks -> {NoOne, Agent1, Human}]
    /\ regime \in {"Hootl", "HitlWait"}
    /\ version \in Nat
    /\ metrics \in [hootl_completed : Nat, hitl_surfaces : Nat]
    /\ pending \in [Tasks -> ApprovalStatus \cup {Absent}]
    /\ physical \in [Tasks -> PhysicalStatus \cup {Absent}]
    /\ bus \in Bus
    /\ pc \in {"idle", "drain", "agent", "drain2"}
    /\ auto \in BOOLEAN
    /\ issued \in Nat

HumanGates == {t \in graph.nodes : graph.gate[t] # "None"}

\* "Never hide human work": whatever sits in the queue, the regime says HitlWait as long
\* as a human gate is open or claimed (recompute after every change of the graph, and
\* no trigger or report that takes the regime back).
NoHiddenGate ==
    (\E t \in HumanGates : status[t] \in {"Open", "Claimed"}) => regime = "HitlWait"

\* The cached critical path and fingerprint are those of the graph as it is now, so the
\* agent, the surfaces and the edge triggers never work from a stale path: every command
\* and every agent step that touches a node recomputes.
CacheFresh ==
    cp.some => /\ cp = compute_critical_path(graph, status)
               /\ fp = fingerprint(graph, status)

\* The snapshot and the graph agree about every Auth gate no operator moves by claim or
\* complete: it has a row, an undecided gate is Open, a Done gate was approved and a
\* Blocked one denied (Approve and Deny write both, Load resets one and upserts the other).
DecisionsAgree ==
    \A t \in graph.nodes \ ClaimTargets :
       graph.gate[t] = "Auth" =>
          /\ pending[t] # Absent
          /\ pending[t] = "Pending" => status[t] = "Open"
          /\ status[t] = "Done"     => pending[t] = "Approved"
          /\ status[t] = "Blocked"  => pending[t] = "Denied"
          /\ status[t] # "Claimed"

\* Queue r holds what queue q holds but for triggers dropped from q's front: the messages
\* behind them open r, in their order and with nothing between them.
LosesTriggersOnly(q, r) ==
    \E d \in 0..Len(q) :
       /\ \A i \in 1..d : q[i].type = "Trigger"
       /\ Len(q) - d <= Len(r)
       /\ \A i \in (d + 1)..Len(q) : r[i - d] = q[i]

\* Back-pressure drops triggers only: the commands and reports in the queue stay, in
\* their order, until tick pops them at the front (MsgBus::push: "never drop Manual").
CommandsSurvive ==
    [][IF Draining /\ bus.queue # <<>> /\ Head(bus.queue).type # "Trigger"
       THEN LosesTriggersOnly(Tail(bus.queue), bus'.queue)
       ELSE LosesTriggersOnly(bus.queue, bus'.queue)]_vars

Board == INSTANCE TaskBoard WITH graph <- graph, status <- status,
                                 claimedBy <- claimedBy, pending <- pending

\* The runtime implements the task board: through queues, aborted ticks, reloads and
\* edge triggers, agents and operators move tasks only as TaskBoard allows.
BoardSpec == Board!Spec

HumanHolds == \E t \in graph.nodes : status[t] = "Claimed" /\ claimedBy[t] = Human

\* With no human gate left and no task in human hands, the agent clears all digital work
\* of this load: the critical path always leads it to a task it may claim, and commands
\* that abort a tick delay it but do not stop it.  (Or a person takes a task, or a host
\* loads anew.)
DigitalWorkClears ==
    \A v \in 2..(MaxLoads + 1) :
       (version = v /\ \A t \in HumanGates : status[t] = "Done")
          ~> \/ version # v
             \/ HumanHolds
             \/ \A t \in graph.nodes : status[t] = "Done"

-----------------------------------------------------------------------------
(* What the documentation says of the program and the program does not do *)

\* GLOSSARY: an AuthGate is the "next pending approval".  So the gate surfaced to the
\* operator has a Pending row, which approve or deny can still resolve.
SurfacedGateIsPending ==
    LET t == next_auth_gate(graph, status, cp.path)
    IN  t # NoTask => pending[t] = "Pending"

\* GLOSSARY: an AuthGate is "cleared only by an explicit human approve/deny".
ClearedOnlyByDecision ==
    \A t \in HumanGates : graph.gate[t] = "Auth" /\ status[t] = "Done" => pending[t] = "Approved"
=============================================================================
