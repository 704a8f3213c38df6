--------------------------- MODULE RuntimeProofs ---------------------------
(***************************************************************************)
(* Proofs about Runtime, for every set of tasks, graphs and claim targets  *)
(* and every capacity and bound.                                           *)
(***************************************************************************)
EXTENDS Runtime, SequenceTheorems, WellFoundedInduction, TLAPS

-----------------------------------------------------------------------------
(* The bus *)

\* A nonempty set of naturals has a least element.
LEMMA LeastNatural ==
    ASSUME NEW S, S \subseteq Nat, S # {}
    PROVE  \E x \in S : \A y \in S : x <= y
<1> DEFINE R == OpToRel(<, Nat)
<1>1. \A m, n \in Nat : m < n => <<m, n>> \in R
    BY DEF OpToRel
<1>2. IsWellFoundedOn(R, Nat)
    BY NatLessThanWellFounded
<1> HIDE DEF R
<1>3. PICK x \in S : \A y \in S : ~(<<y, x>> \in R)
    BY <1>2, WFMin
<1>4. \A y \in S : ~(y < x)
    BY <1>1, <1>3
<1>5. \A y \in S : x <= y
    BY <1>4
<1> QED
    BY <1>5

\* The loop of MsgBus::push terminates: it drops a number of messages the queue has, and
\* goes on only while it does not stop.
LEMMA FrontDropsType ==
    ASSUME NEW b \in Bus
    PROVE  /\ FrontDrops(b) \in 0..Len(b.queue)
           /\ \A j \in 0..(FrontDrops(b) - 1) : ~StopsAfter(b, j)
<1> DEFINE S == {k \in 0..Len(b.queue) : StopsAfter(b, k)}
<1>1. Len(b.queue) \in Nat /\ b.capacity \in Nat \ {0}
    BY DEF Bus
<1>2. Len(b.queue) \in S
    BY <1>1 DEF StopsAfter
<1>3. PICK k \in S : \A j \in S : k <= j
  <2>1. S \subseteq Nat /\ S # {}
      BY <1>1, <1>2
  <2> HIDE DEF S
  <2> QED
      BY <2>1, LeastNatural
<1>4. \A j \in 0..(k - 1) : ~StopsAfter(b, j)
    BY <1>1, <1>3
<1> QED
    BY <1>3, <1>4 DEF FrontDrops

\* What push leaves of a queue over M is a queue over M.
LEMMA RestType ==
    ASSUME NEW b \in Bus, NEW M, b.queue \in Seq(M)
    PROVE  SubSeq(b.queue, FrontDrops(b) + 1, Len(b.queue)) \in Seq(M)
<1> DEFINE k == FrontDrops(b)
<1>1. k \in Nat /\ k + 1 \in Int /\ Len(b.queue) \in Nat
    BY FrontDropsType
<1>2. \A i \in (k + 1)..Len(b.queue) : b.queue[i] \in M
    BY <1>1
<1> HIDE DEF k
<1>3. SubSeq(b.queue, k + 1, Len(b.queue)) \in Seq(M)
    BY <1>1, <1>2, SubSeqProperties
<1> QED
    BY <1>3 DEF k

\* Pushing onto a queue over M, a message of M, gives a queue over M.
LEMMA PushKeeps ==
    ASSUME NEW b \in Bus, NEW M, b.queue \in Seq(M), NEW m \in M
    PROVE  Push(b, m).queue \in Seq(M)
<1> DEFINE rest == SubSeq(b.queue, FrontDrops(b) + 1, Len(b.queue))
<1>1. rest \in Seq(M)
    BY RestType
<1>2. Append(b.queue, m) \in Seq(M)
    OBVIOUS
<1> HIDE DEF rest
<1>3. Append(rest, m) \in Seq(M)
    BY <1>1
<1>4. Push(b, m).queue \in {Append(b.queue, m), rest, Append(rest, m)}
    BY DEF Push, PushManual, PushOther, rest
<1> QED
    BY <1>1, <1>2, <1>3, <1>4

\* Whatever is pushed, a bus stays a bus.
LEMMA PushType ==
    ASSUME NEW b \in Bus, NEW m \in BusMessage
    PROVE  Push(b, m) \in Bus
<1> DEFINE k    == FrontDrops(b)
           rest == SubSeq(b.queue, k + 1, Len(b.queue))
<1>1. b.queue \in Seq(BusMessage) /\ b.capacity \in Nat \ {0} /\ b.dropped \in Nat
    BY DEF Bus
<1>2. PushManual(b, m) \in Bus
    BY <1>1 DEF PushManual, Bus
<1>3. rest \in Seq(BusMessage)
    BY <1>1, RestType
<1> HIDE DEF rest
<1>4. b.dropped + k \in Nat /\ b.dropped + k + 1 \in Nat
    BY <1>1, FrontDropsType
<1>5. [queue |-> rest, capacity |-> b.capacity, dropped |-> b.dropped + k + 1] \in Bus
    BY <1>1, <1>3, <1>4 DEF Bus
<1>6. [queue |-> Append(rest, m), capacity |-> b.capacity, dropped |-> b.dropped + k] \in Bus
    BY <1>1, <1>3, <1>4 DEF Bus
<1>7. PushOther(b, m) \in Bus
    BY <1>5, <1>6, Zenon DEF PushOther, k, rest
<1> QED
    BY <1>2, <1>7 DEF Push

LEMMA PopType ==
    ASSUME NEW b \in Bus, b.queue # <<>>
    PROVE  Pop(b) \in Bus
<1>1. b.queue \in Seq(BusMessage)
    BY DEF Bus
<1>2. Tail(b.queue) \in Seq(BusMessage)
    BY <1>1, HeadTailProperties
<1> QED
    BY <1>2 DEF Pop, Bus

LEMMA MessageTypes ==
    /\ \A k \in TriggerKind : Trigger(k) \in BusMessage
    /\ \A k \in ReportKind : Agent(k) \in BusMessage
    /\ \A c \in Command, t \in Nat : Manual(c, t) \in BusMessage
BY DEF Trigger, Agent, Manual, BusMessage

LEMMA PushIfType ==
    ASSUME NEW c, NEW b \in Bus, NEW k \in TriggerKind
    PROVE  PushIf(c, b, Trigger(k)) \in Bus
BY PushType, MessageTypes DEF PushIf

\* Emitting triggers keeps the bus a bus.
LEMMA PushTriggersType ==
    ASSUME NEW g, NEW e, NEW b \in Bus
    PROVE  PushTriggers(g, e, b) \in Bus
<1> DEFINE b1 == PushIf(e.fp # prev.fp, b, Trigger("GraphChanged"))
           b2 == PushIf(e.path # prev.path, b1, Trigger("CriticalPathChanged"))
           b3 == PushIf(g.due \cap g.nodes # {}, b2, Trigger("DeadlineApproaching"))
           b4 == PushIf(Appears(e.auth, prev.auth), b3, Trigger("AuthNeeded"))
           b5 == PushIf(Appears(e.physical, prev.physical), b4, Trigger("PhysicalBeacon"))
           b6 == PushIf(Appears(e.hootl, prev.hootl), b5, Trigger("HootlWorkAvailable"))
<1>0. {"GraphChanged", "CriticalPathChanged", "DeadlineApproaching", "AuthNeeded",
       "PhysicalBeacon", "HootlWorkAvailable"} \subseteq TriggerKind
    BY DEF TriggerKind
<1>1. b1 \in Bus
    BY <1>0, PushIfType
<1>2. b2 \in Bus
    BY <1>0, <1>1, PushIfType
<1>3. b3 \in Bus
    BY <1>0, <1>2, PushIfType
<1>4. b4 \in Bus
    BY <1>0, <1>3, PushIfType
<1>5. b5 \in Bus
    BY <1>0, <1>4, PushIfType
<1>6. b6 \in Bus
    BY <1>0, <1>5, PushIfType
<1> QED
    BY <1>6 DEF PushTriggers

-----------------------------------------------------------------------------
(* Types *)

LEMMA InitType == Init => TypeOK
<1> SUFFICES ASSUME Init PROVE TypeOK
    OBVIOUS
<1>1. graph \in Graph
    BY DEF Init, EmptyGraph, Graph, GateKind
<1>2. status \in [Tasks -> TaskStatus]
    BY DEF Init, AllOpen, TaskStatus
<1>3. bus \in Bus
    BY BoundsAssumption DEF Init, NewBus, Bus
<1> QED
    BY <1>1, <1>2, <1>3 DEF Init, TypeOK

\* What every recompute leaves behind.
LEMMA RecomputeType ==
    ASSUME NEW g, NEW st, TypeOK, Recompute(g, st)
    PROVE  regime' \in {"Hootl", "HitlWait"} /\ Surfaces(regime') \in Nat
BY DEF Recompute, RegimeOf, Surfaces, TypeOK

LEMMA EmitType ==
    ASSUME NEW g, NEW st, NEW b \in Bus, EmitTriggers(g, st, b)
    PROVE  bus' \in Bus
BY PushTriggersType DEF EmitTriggers

\* Types are kept by every step: messages are queued and taken, statuses move, the
\* runtime recomputes, and everything stays in its set.
LEMMA StepType == TypeOK /\ [Next]_vars => TypeOK'
<1> SUFFICES ASSUME TypeOK, [Next]_vars PROVE TypeOK'
    OBVIOUS
<1> USE DEF TypeOK
<1>pop. bus.queue # <<>> => Pop(bus) \in Bus
    BY PopType
<1>1. ASSUME NEW f \in Fixtures, Load(f) PROVE TypeOK'
  <2>1. graph' \in Graph /\ status' \in [Tasks -> TaskStatus]
      BY <1>1, FixturesAssumption DEF Load, AllOpen, TaskStatus
  <2>2. regime' \in {"Hootl", "HitlWait"} /\ metrics' \in [hootl_completed : Nat, hitl_surfaces : Nat]
      BY <1>1, RecomputeType DEF Load
  <2>3. pending' \in [Tasks -> ApprovalStatus \cup {Absent}]
      BY <1>1 DEF Load, upsert_pending, ApprovalStatus
  <2>4. physical' \in [Tasks -> PhysicalStatus \cup {Absent}]
      BY <1>1 DEF Load, upsert_physical, PhysicalStatus
  <2>5. bus' \in Bus
      BY <1>1, EmitType DEF Load
  <2> QED
      BY <1>1, <2>1, <2>2, <2>3, <2>4, <2>5 DEF Load
<1>2. ASSUME NEW c \in Command, NEW t \in NamedBy(c), EnqueueManual(c, t) PROVE TypeOK'
  <2>1. t \in Nat
      BY TasksAssumption, ClaimTargetsAssumption DEF NamedBy, NoTask
  <2>2. bus' \in Bus
      BY <1>2, <2>1, PushType, MessageTypes DEF EnqueueManual
  <2> QED
      BY <1>2, <2>2 DEF EnqueueManual, life, snapshot
<1>3. ASSUME NEW a \in BOOLEAN, BeginTick(a) PROVE TypeOK'
    BY <1>3 DEF BeginTick, life, snapshot
<1>4. CASE ApplyTrigger
    BY <1>4, <1>pop DEF ApplyTrigger, snapshot
<1>5. CASE ApplyReport
    BY <1>5, <1>pop DEF ApplyReport, life, snapshot
<1>6. CASE ApplyRecompute
  <2>1. bus' \in Bus
      BY <1>6, <1>pop, EmitType DEF ApplyRecompute, Applies
  <2>2. regime' \in {"Hootl", "HitlWait"} /\ metrics' \in [hootl_completed : Nat, hitl_surfaces : Nat]
      BY <1>6, RecomputeType DEF ApplyRecompute
  <2> QED
      BY <1>6, <2>1, <2>2 DEF ApplyRecompute, snapshot
<1>7. CASE DrainDone
    BY <1>7 DEF DrainDone, life, snapshot
<1>8. CASE AgentQuiet
    BY <1>8 DEF AgentQuiet, life, snapshot
<1>9. ASSUME NEW t \in Tasks, ApplyClaim(t) PROVE TypeOK'
  <2>1. bus' \in Bus
      BY <1>9, <1>pop DEF ApplyClaim, Applies
  <2>2. regime' \in {"Hootl", "HitlWait"} /\ metrics' \in [hootl_completed : Nat, hitl_surfaces : Nat]
      BY <1>9, RecomputeType DEF ApplyClaim
  <2>3. /\ status' \in [Tasks -> TaskStatus]
        /\ claimedBy' \in [Tasks -> {NoOne, Agent1, Human}]
        /\ physical' \in [Tasks -> PhysicalStatus \cup {Absent}]
      BY <1>9 DEF ApplyClaim, TaskStatus, PhysicalStatus
  <2> QED
      BY <1>9, <2>1, <2>2, <2>3 DEF ApplyClaim
<1>10. ASSUME NEW t \in Tasks, ApplyComplete(t) PROVE TypeOK'
  <2>1. bus' \in Bus
      BY <1>10, <1>pop, EmitType DEF ApplyComplete, Applies
  <2>2. regime' \in {"Hootl", "HitlWait"} /\ metrics' \in [hootl_completed : Nat, hitl_surfaces : Nat]
      BY <1>10, RecomputeType DEF ApplyComplete
  <2>3. /\ status' \in [Tasks -> TaskStatus]
        /\ physical' \in [Tasks -> PhysicalStatus \cup {Absent}]
      BY <1>10 DEF ApplyComplete, TaskStatus, PhysicalStatus
  <2> QED
      BY <1>10, <2>1, <2>2, <2>3 DEF ApplyComplete
<1>11. ASSUME NEW t \in Tasks, AgentComplete(t) PROVE TypeOK'
  <2>1. Push(bus, Agent("Completed")) \in Bus
      BY PushType, MessageTypes DEF ReportKind
  <2>2. bus' \in Bus
      BY <1>11, <2>1, EmitType DEF AgentComplete
  <2>3. regime' \in {"Hootl", "HitlWait"} /\ metrics' \in [hootl_completed : Nat, hitl_surfaces : Nat]
      BY <1>11, RecomputeType DEF AgentComplete
  <2>4. status' \in [Tasks -> TaskStatus]
      BY <1>11 DEF AgentComplete, TaskStatus
  <2> QED
      BY <1>11, <2>2, <2>3, <2>4 DEF AgentComplete, snapshot
<1>12. ASSUME NEW t \in Tasks, AgentClaim(t) PROVE TypeOK'
  <2>1. Push(bus, Agent("Claimed")) \in Bus
      BY PushType, MessageTypes DEF ReportKind
  <2>2. bus' \in Bus
      BY <1>12, <2>1, EmitType DEF AgentClaim
  <2>3. regime' \in {"Hootl", "HitlWait"} /\ metrics' \in [hootl_completed : Nat, hitl_surfaces : Nat]
      BY <1>12, RecomputeType DEF AgentClaim
  <2>4. /\ status' \in [Tasks -> TaskStatus]
        /\ claimedBy' \in [Tasks -> {NoOne, Agent1, Human}]
      BY <1>12 DEF AgentClaim, TaskStatus
  <2> QED
      BY <1>12, <2>2, <2>3, <2>4 DEF AgentClaim, snapshot
<1>13. ASSUME NEW t \in Tasks, NEW c \in Command, ApplyDecision(c, t) PROVE TypeOK'
  <2>1. bus' \in Bus
      BY <1>13, <1>pop, EmitType DEF ApplyDecision, Applies
  <2>2. regime' \in {"Hootl", "HitlWait"} /\ metrics' \in [hootl_completed : Nat, hitl_surfaces : Nat]
      BY <1>13, RecomputeType DEF ApplyDecision
  <2>3. status' \in [Tasks -> TaskStatus]
      BY <1>13 DEF ApplyDecision, Outcome, TaskStatus
  <2>4. pending' \in [Tasks -> ApprovalStatus \cup {Absent}]
      BY <1>13 DEF ApplyDecision, Verdict, ApprovalStatus
  <2> QED
      BY <1>13, <2>1, <2>2, <2>3, <2>4 DEF ApplyDecision
<1>14. ASSUME NEW t \in Tasks, NEW c \in Command, RejectDecision(c, t) PROVE TypeOK'
    BY <1>14, <1>pop DEF RejectDecision, Applies, life, snapshot
<1>15. CASE UNCHANGED vars
    BY <1>15 DEF vars, life, snapshot
<1> QED
    BY <1>1, <1>2, <1>3, <1>4, <1>5, <1>6, <1>7, <1>8, <1>9, <1>10, <1>11, <1>12, <1>13,
       <1>14, <1>15 DEF Next, TickStep

\* The runtime's variables keep their types, through any commands, loads and ticks.
THEOREM TypeCorrect == Spec => []TypeOK
BY InitType, StepType, PTL DEF Spec

-----------------------------------------------------------------------------
(* The cached path and the regime *)

\* Either a step recomputes for the graph and statuses it ends with, or it touches neither
\* and can move the regime to HitlWait only.
LEMMA StepRecomputes ==
    ASSUME [Next]_vars
    PROVE  \/ Recompute(graph', status')
           \/ UNCHANGED <<graph, status, cp, fp>> /\ regime' \in {regime, "HitlWait"}
<1> DEFINE Goal == \/ Recompute(graph', status')
                   \/ UNCHANGED <<graph, status, cp, fp>> /\ regime' \in {regime, "HitlWait"}
<1>1. ASSUME NEW f \in Fixtures, Load(f) PROVE Goal
    BY <1>1, Zenon DEF Load
<1>2. ASSUME NEW c \in Command, NEW t \in NamedBy(c), EnqueueManual(c, t) PROVE Goal
    BY <1>2 DEF EnqueueManual, life
<1>3. ASSUME NEW a \in BOOLEAN, BeginTick(a) PROVE Goal
    BY <1>3 DEF BeginTick, life
<1>4. CASE ApplyTrigger
    BY <1>4 DEF ApplyTrigger
<1>5. CASE ApplyReport \/ DrainDone \/ AgentQuiet
    BY <1>5 DEF ApplyReport, DrainDone, AgentQuiet, life
<1>6. CASE ApplyRecompute
    BY <1>6, Zenon DEF ApplyRecompute
<1>7. ASSUME NEW t \in Tasks,
             ApplyClaim(t) \/ ApplyComplete(t) \/ AgentComplete(t) \/ AgentClaim(t)
      PROVE  Goal
    BY <1>7, Zenon DEF ApplyClaim, ApplyComplete, AgentComplete, AgentClaim
<1>8. ASSUME NEW t \in Tasks, NEW c \in Command, ApplyDecision(c, t) PROVE Goal
    BY <1>8, Zenon DEF ApplyDecision
<1>9. ASSUME NEW t \in Tasks, NEW c \in Command, RejectDecision(c, t) PROVE Goal
    BY <1>9 DEF RejectDecision, life
<1>10. CASE UNCHANGED vars
    BY <1>10 DEF vars, life
<1> QED
    BY <1>1, <1>2, <1>3, <1>4, <1>5, <1>6, <1>7, <1>8, <1>9, <1>10 DEF Next, TickStep

LEMMA InitCache == Init => CacheFresh /\ NoHiddenGate
BY DEF Init, CacheFresh, NoReport, NoHiddenGate, HumanGates, EmptyGraph

\* The agent and the surfaces never see a stale path: CacheFresh is inductive by itself.
THEOREM CacheAlwaysFresh == Spec => []CacheFresh
<1>1. CacheFresh /\ [Next]_vars => CacheFresh'
  <2> SUFFICES ASSUME CacheFresh, [Next]_vars PROVE CacheFresh'
      OBVIOUS
  <2>1. CASE Recompute(graph', status')
      BY <2>1 DEF Recompute, CacheFresh
  <2>2. CASE UNCHANGED <<graph, status, cp, fp>>
      BY <2>2 DEF CacheFresh
  <2> QED
      BY <2>1, <2>2, StepRecomputes
<1> QED
    BY <1>1, InitCache, PTL DEF Spec

\* As long as a human gate is open or claimed, the regime is HitlWait, on the critical
\* path or off it and whatever messages are still queued.
THEOREM HumanWorkNeverHidden == Spec => []NoHiddenGate
<1>1. TypeOK /\ NoHiddenGate /\ [Next]_vars => NoHiddenGate'
  <2> SUFFICES ASSUME TypeOK, NoHiddenGate, [Next]_vars PROVE NoHiddenGate'
      OBVIOUS
  <2>1. CASE Recompute(graph', status')
    <3>1. SUFFICES ASSUME NEW t \in HumanGates', status'[t] \in {"Open", "Claimed"}
                   PROVE  regime' = "HitlWait"
        BY DEF NoHiddenGate
    <3>2. NeedsHitl(graph', status', cp'.path)
        BY <3>1 DEF NeedsHitl, HumanGates
    <3> QED
        BY <2>1, <3>2 DEF Recompute, RegimeOf
  <2>2. CASE UNCHANGED <<graph, status, cp, fp>> /\ regime' \in {regime, "HitlWait"}
      BY <2>2 DEF NoHiddenGate, HumanGates
  <2> QED
      BY <2>1, <2>2, StepRecomputes
<1> QED
    BY <1>1, InitCache, TypeCorrect, PTL DEF Spec

-----------------------------------------------------------------------------
(* The commands in the queue *)

\* Claim and complete commands name claim targets only.  DecisionsAgree and the task board
\* need this of the commands still queued, so it strengthens the invariant.
Named == {m \in BusMessage : m.kind \in {"Claim", "Complete"} => m.id \in ClaimTargets}

QueueNamed == bus.queue \in Seq(Named)

LEMMA NamedMessages ==
    /\ \A k \in TriggerKind : Trigger(k) \in Named
    /\ \A k \in ReportKind : Agent(k) \in Named
    /\ \A c \in Command : \A t \in NamedBy(c) : Manual(c, t) \in Named
<1>1. \A k \in TriggerKind : Trigger(k) \in Named
    BY MessageTypes DEF Trigger, TriggerKind, Named
<1>2. \A k \in ReportKind : Agent(k) \in Named
    BY MessageTypes DEF Agent, ReportKind, Named
<1>3. ASSUME NEW c \in Command, NEW t \in NamedBy(c) PROVE Manual(c, t) \in Named
  <2>1. t \in Nat
      BY TasksAssumption, ClaimTargetsAssumption DEF NamedBy, NoTask
  <2>2. c \in {"Claim", "Complete"} => t \in ClaimTargets
      BY DEF NamedBy
  <2> QED
      BY <2>1, <2>2, MessageTypes DEF Manual, Named
<1> QED
    BY <1>1, <1>2, <1>3

LEMMA PushIfNamed ==
    ASSUME NEW c, NEW b \in Bus, b.queue \in Seq(Named), NEW k \in TriggerKind
    PROVE  PushIf(c, b, Trigger(k)).queue \in Seq(Named)
BY PushKeeps, NamedMessages DEF PushIf

LEMMA EmitNamed ==
    ASSUME NEW g, NEW st, NEW b \in Bus, b.queue \in Seq(Named), EmitTriggers(g, st, b)
    PROVE  bus'.queue \in Seq(Named)
<1> DEFINE e  == prev'
           b1 == PushIf(e.fp # prev.fp, b, Trigger("GraphChanged"))
           b2 == PushIf(e.path # prev.path, b1, Trigger("CriticalPathChanged"))
           b3 == PushIf(g.due \cap g.nodes # {}, b2, Trigger("DeadlineApproaching"))
           b4 == PushIf(Appears(e.auth, prev.auth), b3, Trigger("AuthNeeded"))
           b5 == PushIf(Appears(e.physical, prev.physical), b4, Trigger("PhysicalBeacon"))
           b6 == PushIf(Appears(e.hootl, prev.hootl), b5, Trigger("HootlWorkAvailable"))
<1>0. {"GraphChanged", "CriticalPathChanged", "DeadlineApproaching", "AuthNeeded",
       "PhysicalBeacon", "HootlWorkAvailable"} \subseteq TriggerKind
    BY DEF TriggerKind
<1>1. b1 \in Bus /\ b1.queue \in Seq(Named)
    BY <1>0, PushIfType, PushIfNamed
<1>2. b2 \in Bus /\ b2.queue \in Seq(Named)
    BY <1>0, <1>1, PushIfType, PushIfNamed
<1>3. b3 \in Bus /\ b3.queue \in Seq(Named)
    BY <1>0, <1>2, PushIfType, PushIfNamed
<1>4. b4 \in Bus /\ b4.queue \in Seq(Named)
    BY <1>0, <1>3, PushIfType, PushIfNamed
<1>5. b5 \in Bus /\ b5.queue \in Seq(Named)
    BY <1>0, <1>4, PushIfType, PushIfNamed
<1>6. b6 \in Bus /\ b6.queue \in Seq(Named)
    BY <1>0, <1>5, PushIfType, PushIfNamed
<1> QED
    BY <1>6 DEF EmitTriggers, PushTriggers

LEMMA PopNamed ==
    ASSUME NEW b \in Bus, b.queue \in Seq(Named), b.queue # <<>>
    PROVE  Pop(b) \in Bus /\ Pop(b).queue \in Seq(Named)
<1>1. Pop(b) \in Bus
    BY PopType
<1>2. Pop(b).queue = Tail(b.queue)
    BY DEF Pop, Bus
<1> QED
    BY <1>1, <1>2, HeadTailProperties

LEMMA InitNamed == Init => QueueNamed
BY DEF Init, NewBus, QueueNamed

LEMMA StepNamed == TypeOK /\ QueueNamed /\ [Next]_vars => QueueNamed'
<1> SUFFICES ASSUME TypeOK, QueueNamed, [Next]_vars PROVE QueueNamed'
    OBVIOUS
<1> USE DEF QueueNamed
<1>bus. bus \in Bus
    BY DEF TypeOK
<1>pop. bus.queue # <<>> => Pop(bus) \in Bus /\ Pop(bus).queue \in Seq(Named)
    BY <1>bus, PopNamed
<1>1. ASSUME NEW f \in Fixtures, Load(f) PROVE QueueNamed'
    BY <1>1, <1>bus, EmitNamed DEF Load
<1>2. ASSUME NEW c \in Command, NEW t \in NamedBy(c), EnqueueManual(c, t) PROVE QueueNamed'
    BY <1>2, <1>bus, PushKeeps, NamedMessages DEF EnqueueManual
<1>3. CASE ApplyTrigger \/ ApplyReport
    BY <1>3, <1>pop DEF ApplyTrigger, ApplyReport
<1>4. CASE ApplyRecompute
    BY <1>4, <1>pop, EmitNamed DEF ApplyRecompute, Applies
<1>5. ASSUME NEW t \in Tasks, ApplyClaim(t) PROVE QueueNamed'
    BY <1>5, <1>pop DEF ApplyClaim, Applies
<1>6. ASSUME NEW t \in Tasks, ApplyComplete(t) PROVE QueueNamed'
    BY <1>6, <1>pop, EmitNamed DEF ApplyComplete, Applies
<1>7. ASSUME NEW t \in Tasks, AgentComplete(t) \/ AgentClaim(t) PROVE QueueNamed'
  <2>1. \A k \in ReportKind : Push(bus, Agent(k)) \in Bus /\ Push(bus, Agent(k)).queue \in Seq(Named)
      BY <1>bus, PushType, PushKeeps, MessageTypes, NamedMessages
  <2> QED
      BY <1>7, <2>1, EmitNamed DEF AgentComplete, AgentClaim, ReportKind
<1>8. ASSUME NEW t \in Tasks, NEW c \in Command, ApplyDecision(c, t) PROVE QueueNamed'
    BY <1>8, <1>pop, EmitNamed DEF ApplyDecision, Applies
<1>9. ASSUME NEW t \in Tasks, NEW c \in Command, RejectDecision(c, t) PROVE QueueNamed'
    BY <1>9, <1>pop DEF RejectDecision, Applies
<1>10. ASSUME UNCHANGED bus PROVE QueueNamed'
    BY <1>10
<1> QED
    BY <1>1, <1>2, <1>3, <1>4, <1>5, <1>6, <1>7, <1>8, <1>9, <1>10
    DEF Next, TickStep, BeginTick, DrainDone, AgentQuiet, vars

\* A claim or complete command being applied names a claim target.
LEMMA AppliedIsTarget ==
    ASSUME QueueNamed, NEW c \in {"Claim", "Complete"}, NEW t \in Tasks, Applies(c, t)
    PROVE  t \in ClaimTargets
<1>1. Head(bus.queue) \in Named
    BY HeadTailProperties DEF QueueNamed, Applies
<1> QED
    BY <1>1 DEF Applies, Named, Manual

-----------------------------------------------------------------------------
(* The task board *)

LEMMA InitBoard == Init => Board!Init
BY DEF Init, Board!Init, EmptyGraph, AllOpen, NoOne, Absent

\* Each step of the runtime is a step of the task board or leaves it unchanged.
LEMMA StepBoard == QueueNamed /\ [Next]_vars => [Board!Next]_Board!board
<1> SUFFICES ASSUME QueueNamed, [Next]_vars PROVE [Board!Next]_Board!board
    OBVIOUS
<1> USE DEF Board!board, Board!Next
<1>1. ASSUME NEW f \in Fixtures, Load(f) PROVE Board!Load
    BY <1>1 DEF Load, Board!Load, Board!NewBoard, upsert_pending, AllOpen, NoOne, Resolved
<1>2. ASSUME NEW t \in Tasks, AgentClaim(t) PROVE Board!AgentTakes(t)
    BY <1>2 DEF AgentClaim, Claimable, Board!AgentTakes, Board!Ready, Agent1, snapshot
<1>3. ASSUME NEW t \in Tasks, AgentComplete(t) PROVE Board!AgentFinishes(t)
    BY <1>3 DEF AgentComplete, Owned, Board!AgentFinishes, Agent1, snapshot
<1>4. ASSUME NEW t \in Tasks, NEW c \in Command, ApplyDecision(c, t)
      PROVE  Board!Decides(t, "Approved", "Done") \/ Board!Decides(t, "Denied", "Blocked")
  <2>1. CASE c = "Approve"
      BY <1>4, <2>1 DEF ApplyDecision, Verdict, Outcome, Board!Decides, Board!IsGate
  <2>2. CASE c = "Deny"
      BY <1>4, <2>2 DEF ApplyDecision, Verdict, Outcome, Board!Decides, Board!IsGate
  <2> QED
      BY <1>4, <2>1, <2>2 DEF ApplyDecision
<1>5. ASSUME NEW t \in Tasks, ApplyClaim(t)
      PROVE  t \in ClaimTargets /\ (Board!HumanTakes(t) \/ UNCHANGED Board!board)
  <2>1. t \in ClaimTargets
      BY <1>5, AppliedIsTarget DEF ApplyClaim
  <2> QED
      BY <1>5, <2>1 DEF ApplyClaim, Board!HumanTakes, Human
<1>6. ASSUME NEW t \in Tasks, ApplyComplete(t)
      PROVE  t \in ClaimTargets /\ (Board!HumanFinishes(t) \/ UNCHANGED Board!board)
  <2>1. t \in ClaimTargets
      BY <1>6, AppliedIsTarget DEF ApplyComplete
  <2> QED
      BY <1>6, <2>1 DEF ApplyComplete, Board!HumanFinishes
<1>7. ASSUME UNCHANGED <<life, snapshot>> PROVE UNCHANGED Board!board
    BY <1>7 DEF life, snapshot
<1>8. ASSUME ApplyTrigger \/ ApplyRecompute PROVE UNCHANGED Board!board
    BY <1>8 DEF ApplyTrigger, ApplyRecompute, snapshot
<1>9. ASSUME NEW t \in Tasks, NEW c \in Command, RejectDecision(c, t)
      PROVE  UNCHANGED <<life, snapshot>>
    BY <1>9 DEF RejectDecision
<1> QED
    BY <1>1, <1>2, <1>3, <1>4, <1>5, <1>6, <1>7, <1>8, <1>9
    DEF Next, TickStep, EnqueueManual, BeginTick, ApplyReport, DrainDone, AgentQuiet, vars

\* The runtime implements the task board, for any graphs, claim targets and capacity:
\* nothing queued, dropped, cached, rejected or reloaded lets an agent or an operator move
\* a task otherwise.
THEOREM RuntimeImplementsBoard == Spec => BoardSpec
BY InitBoard, StepBoard, InitNamed, StepNamed, InitType, StepType, PTL
DEF Spec, BoardSpec, Board!Spec

-----------------------------------------------------------------------------
(* Decisions *)

LEMMA InitDecisions == Init => DecisionsAgree
BY DEF Init, DecisionsAgree, EmptyGraph

LEMMA StepDecisions ==
    TypeOK /\ QueueNamed /\ DecisionsAgree /\ [Next]_vars => DecisionsAgree'
<1> SUFFICES ASSUME TypeOK, QueueNamed, DecisionsAgree, [Board!Next]_Board!board
             PROVE  DecisionsAgree'
    BY StepBoard
<1> USE DEF DecisionsAgree
<1>types. /\ graph.nodes \subseteq Tasks
          /\ status \in [Tasks -> TaskStatus]
          /\ pending \in [Tasks -> ApprovalStatus \cup {Absent}]
    BY DEF TypeOK, Graph
<1>1. CASE Board!Load
  <2>1. PICK f \in Fixtures :
           /\ graph' = f
           /\ status' = [t \in Tasks |-> "Open"]
           /\ pending' = [t \in Tasks |->
                IF t \in f.nodes /\ f.gate[t] = "Auth" /\ pending[t] \notin {"Approved", "Denied"}
                THEN "Pending" ELSE pending[t]]
      BY <1>1 DEF Board!Load, Board!NewBoard
  <2>2. f.nodes \subseteq Tasks
      BY FixturesAssumption DEF Graph
  <2> QED
      BY <2>1, <2>2, <1>types DEF Absent
<1>2. ASSUME NEW t \in Tasks, Board!AgentTakes(t) \/ Board!AgentFinishes(t)
      PROVE  DecisionsAgree'
    BY <1>2, <1>types DEF Board!AgentTakes, Board!Ready, Board!AgentFinishes
<1>3. ASSUME NEW t \in Tasks, Board!Decides(t, "Approved", "Done") PROVE DecisionsAgree'
    BY <1>3, <1>types DEF Board!Decides, Board!IsGate, Absent
<1>4. ASSUME NEW t \in Tasks, Board!Decides(t, "Denied", "Blocked") PROVE DecisionsAgree'
    BY <1>4, <1>types DEF Board!Decides, Board!IsGate, Absent
<1>5. ASSUME NEW t \in ClaimTargets, Board!HumanTakes(t) \/ Board!HumanFinishes(t)
      PROVE  DecisionsAgree'
    BY <1>5, <1>types DEF Board!HumanTakes, Board!HumanFinishes
<1>6. CASE UNCHANGED Board!board
    BY <1>6 DEF Board!board
<1> QED
    BY <1>1, <1>2, <1>3, <1>4, <1>5, <1>6 DEF Board!Next

\* The snapshot and the graph never disagree about an approval gate: what is Done was
\* approved, what is Blocked was denied, and what is undecided is Open.
THEOREM DecisionsAlwaysAgree == Spec => []DecisionsAgree
BY InitType, StepType, InitNamed, StepNamed, InitDecisions, StepDecisions, PTL DEF Spec

-----------------------------------------------------------------------------
(* What back-pressure drops *)

LEMMA LosesNothing ==
    ASSUME NEW M, NEW q \in Seq(M)
    PROVE  LosesTriggersOnly(q, q)
<1>1. Len(q) \in Nat
    OBVIOUS
<1>2. \A i \in (0 + 1)..Len(q) : q[i - 0] = q[i]
    BY <1>1
<1>3. \A i \in 1..0 : q[i].type = "Trigger"
    OBVIOUS
<1> QED
    BY <1>1, <1>2, <1>3 DEF LosesTriggersOnly

\* Two losses of triggers at the front are one.
LEMMA LosesTransitive ==
    ASSUME NEW M, NEW q \in Seq(M), NEW r \in Seq(M), NEW s \in Seq(M),
           LosesTriggersOnly(q, r), LosesTriggersOnly(r, s)
    PROVE  LosesTriggersOnly(q, s)
<1>len. Len(q) \in Nat /\ Len(r) \in Nat /\ Len(s) \in Nat
    OBVIOUS
<1>1. PICK d \in 0..Len(q) :
         /\ \A i \in 1..d : q[i].type = "Trigger"
         /\ Len(q) - d <= Len(r)
         /\ \A i \in (d + 1)..Len(q) : r[i - d] = q[i]
    BY DEF LosesTriggersOnly
<1>2. PICK e \in 0..Len(r) :
         /\ \A i \in 1..e : r[i].type = "Trigger"
         /\ Len(r) - e <= Len(s)
         /\ \A i \in (e + 1)..Len(r) : s[i - e] = r[i]
    BY DEF LosesTriggersOnly
<1>3. CASE d + e <= Len(q)
  <2>1. d + e \in 0..Len(q)
      BY <1>len, <1>3
  <2>2. ASSUME NEW i \in 1..(d + e) PROVE q[i].type = "Trigger"
    <3>1. CASE i <= d
        BY <1>1, <3>1
    <3>2. CASE i > d
      <4>1. i - d \in 1..e /\ i \in (d + 1)..Len(q)
          BY <1>len, <1>3, <3>2
      <4> QED
          BY <4>1, <1>1, <1>2
    <3> QED
        BY <3>1, <3>2
  <2>3. Len(q) - (d + e) <= Len(s)
      BY <1>len, <1>1, <1>2
  <2>4. ASSUME NEW i \in ((d + e) + 1)..Len(q) PROVE s[i - (d + e)] = q[i]
    <3>1. i - d \in (e + 1)..Len(r) /\ i \in (d + 1)..Len(q)
        BY <1>len, <1>1
    <3>2. s[(i - d) - e] = q[i]
        BY <3>1, <1>1, <1>2
    <3>3. (i - d) - e = i - (d + e)
        OBVIOUS
    <3> QED
        BY <3>2, <3>3
  <2> QED
      BY <2>1, <2>2, <2>3, <2>4 DEF LosesTriggersOnly
<1>4. CASE d + e > Len(q)
  <2>1. ASSUME NEW i \in 1..Len(q) PROVE q[i].type = "Trigger"
    <3>1. CASE i <= d
        BY <1>1, <3>1
    <3>2. CASE i > d
      <4>1. i - d \in 1..e /\ i \in (d + 1)..Len(q)
          BY <1>len, <1>4, <3>2
      <4> QED
          BY <4>1, <1>1, <1>2
    <3> QED
        BY <3>1, <3>2
  <2>2. Len(q) - Len(q) <= Len(s) /\ Len(q) \in 0..Len(q)
      BY <1>len
  <2>3. \A i \in (Len(q) + 1)..Len(q) : s[i - Len(q)] = q[i]
      BY <1>len
  <2> QED
      BY <2>1, <2>2, <2>3 DEF LosesTriggersOnly
<1> QED
    BY <1>len, <1>3, <1>4

\* A message popped from the front is a loss of triggers when it is one.
LEMMA PopLoses ==
    ASSUME NEW b \in Bus, b.queue # <<>>, Head(b.queue).type = "Trigger"
    PROVE  LosesTriggersOnly(b.queue, Pop(b).queue)
<1> DEFINE q == b.queue
<1>1. q \in Seq(BusMessage) /\ Pop(b).queue = Tail(q)
    BY DEF Bus, Pop
<1>2. /\ Len(q) \in Nat /\ 1 \in 0..Len(q) /\ Len(Tail(q)) = Len(q) - 1
      /\ \A i \in 1..Len(Tail(q)) : Tail(q)[i] = q[i + 1]
      /\ Head(q) = q[1]
    BY <1>1, HeadTailProperties, EmptySeq
<1>3. \A i \in (1 + 1)..Len(q) : Tail(q)[i - 1] = q[i]
    BY <1>2
<1>4. \A i \in 1..1 : q[i].type = "Trigger"
    BY <1>2
<1> HIDE DEF q
<1>5. LosesTriggersOnly(q, Tail(q))
    BY <1>2, <1>3, <1>4 DEF LosesTriggersOnly
<1> QED
    BY <1>1, <1>5 DEF q

\* push loses nothing but triggers at the front, whatever is pushed.
LEMMA PushLoses ==
    ASSUME NEW b \in Bus, NEW m \in BusMessage
    PROVE  LosesTriggersOnly(b.queue, Push(b, m).queue)
<1> DEFINE q    == b.queue
           k    == FrontDrops(b)
           rest == SubSeq(q, k + 1, Len(q))
<1>1. q \in Seq(BusMessage) /\ Len(q) \in Nat /\ k \in 0..Len(q)
    BY FrontDropsType DEF Bus
<1>2. ASSUME NEW i \in 1..k PROVE q[i].type = "Trigger"
  <2>1. i - 1 \in 0..(k - 1)
      BY <1>1
  <2>2. ~StopsAfter(b, i - 1)
      BY <2>1, FrontDropsType
  <2>3. (i - 1) + 1 = i
      BY <1>1
  <2> QED
      BY <2>2, <2>3 DEF StopsAfter
<1> HIDE DEF k
<1>3. \A i \in (k + 1)..Len(q) : q[i] \in BusMessage
    BY <1>1
<1>4. /\ rest \in Seq(BusMessage)
      /\ Len(rest) = Len(q) - k
      /\ \A i \in 1..Len(rest) : rest[i] = q[k + i]
  <2>1. k + 1 \in Int /\ Len(q) \in Int /\ k + 1 <= Len(q) + 1
      BY <1>1
  <2>2. /\ rest \in Seq(BusMessage)
        /\ Len(rest) = IF k + 1 <= Len(q) THEN Len(q) - (k + 1) + 1 ELSE 0
        /\ \A i \in 1..(Len(q) - (k + 1) + 1) : rest[i] = q[(k + 1) + i - 1]
      BY <2>1, <1>3, SubSeqProperties
  <2>3. Len(rest) = Len(q) - k
      BY <2>2, <1>1
  <2>4. ASSUME NEW i \in 1..Len(rest) PROVE rest[i] = q[k + i]
    <3>1. i \in 1..(Len(q) - (k + 1) + 1) /\ (k + 1) + i - 1 = k + i
        BY <2>3, <1>1
    <3> QED
        BY <3>1, <2>2
  <2> QED
      BY <2>2, <2>3, <2>4
<1> HIDE DEF rest
<1>5. LosesTriggersOnly(q, rest)
  <2>1. \A i \in (k + 1)..Len(q) : rest[i - k] = q[i]
      BY <1>1, <1>4
  <2>2. Len(q) - k <= Len(rest)
      BY <1>1, <1>4
  <2> HIDE DEF q
  <2> QED
      BY <1>1, <1>2, <2>1, <2>2 DEF LosesTriggersOnly
<1>6. ASSUME NEW s \in Seq(BusMessage) PROVE LosesTriggersOnly(s, Append(s, m))
  <2>1. /\ Len(s) \in Nat
        /\ Len(Append(s, m)) = Len(s) + 1
        /\ \A i \in 1..Len(s) : Append(s, m)[i] = s[i]
      BY AppendProperties
  <2>2. \A i \in (0 + 1)..Len(s) : Append(s, m)[i - 0] = s[i]
      BY <2>1
  <2> QED
      BY <2>1, <2>2 DEF LosesTriggersOnly
<1>7. LosesTriggersOnly(q, Append(rest, m))
  <2>1. LosesTriggersOnly(rest, Append(rest, m)) /\ Append(rest, m) \in Seq(BusMessage)
      BY <1>4, <1>6
  <2> HIDE DEF q
  <2> QED
      BY <2>1, <1>1, <1>4, <1>5, LosesTransitive
<1>8. LosesTriggersOnly(q, Append(q, m))
    BY <1>1, <1>6
<1>9. Push(b, m).queue \in {Append(q, m), rest, Append(rest, m)}
    BY DEF Push, PushManual, PushOther, rest, k
<1> QED
    BY <1>5, <1>7, <1>8, <1>9

LEMMA PushIfLoses ==
    ASSUME NEW c, NEW b \in Bus, NEW k \in TriggerKind
    PROVE  LosesTriggersOnly(b.queue, PushIf(c, b, Trigger(k)).queue)
<1>1. b.queue \in Seq(BusMessage)
    BY DEF Bus
<1>2. LosesTriggersOnly(b.queue, b.queue)
    BY <1>1, LosesNothing
<1>3. LosesTriggersOnly(b.queue, Push(b, Trigger(k)).queue)
    BY PushLoses, MessageTypes
<1> QED
    BY <1>2, <1>3 DEF PushIf

\* Emitting triggers into a full bus may drop older ones, and nothing else.
LEMMA EmitLoses ==
    ASSUME NEW g, NEW st, NEW b \in Bus, EmitTriggers(g, st, b)
    PROVE  LosesTriggersOnly(b.queue, bus'.queue)
<1> DEFINE e  == prev'
           b1 == PushIf(e.fp # prev.fp, b, Trigger("GraphChanged"))
           b2 == PushIf(e.path # prev.path, b1, Trigger("CriticalPathChanged"))
           b3 == PushIf(g.due \cap g.nodes # {}, b2, Trigger("DeadlineApproaching"))
           b4 == PushIf(Appears(e.auth, prev.auth), b3, Trigger("AuthNeeded"))
           b5 == PushIf(Appears(e.physical, prev.physical), b4, Trigger("PhysicalBeacon"))
           b6 == PushIf(Appears(e.hootl, prev.hootl), b5, Trigger("HootlWorkAvailable"))
<1>0. {"GraphChanged", "CriticalPathChanged", "DeadlineApproaching", "AuthNeeded",
       "PhysicalBeacon", "HootlWorkAvailable"} \subseteq TriggerKind
    BY DEF TriggerKind
<1>1. b1 \in Bus /\ LosesTriggersOnly(b.queue, b1.queue)
    BY <1>0, PushIfType, PushIfLoses
<1>2. b2 \in Bus /\ LosesTriggersOnly(b1.queue, b2.queue)
    BY <1>0, <1>1, PushIfType, PushIfLoses
<1>3. b3 \in Bus /\ LosesTriggersOnly(b2.queue, b3.queue)
    BY <1>0, <1>2, PushIfType, PushIfLoses
<1>4. b4 \in Bus /\ LosesTriggersOnly(b3.queue, b4.queue)
    BY <1>0, <1>3, PushIfType, PushIfLoses
<1>5. b5 \in Bus /\ LosesTriggersOnly(b4.queue, b5.queue)
    BY <1>0, <1>4, PushIfType, PushIfLoses
<1>6. b6 \in Bus /\ LosesTriggersOnly(b5.queue, b6.queue)
    BY <1>0, <1>5, PushIfType, PushIfLoses
<1>7. bus' = b6
    BY DEF EmitTriggers, PushTriggers
<1> HIDE DEF b1, b2, b3, b4, b5, b6
<1>8. \A x, y, z \in Bus :
         LosesTriggersOnly(x.queue, y.queue) /\ LosesTriggersOnly(y.queue, z.queue)
            => LosesTriggersOnly(x.queue, z.queue)
  <2>1. \A x \in Bus : x.queue \in Seq(BusMessage)
      BY DEF Bus
  <2> QED
      BY <2>1, LosesTransitive
<1>9. LosesTriggersOnly(b.queue, b3.queue)
    BY <1>1, <1>2, <1>3, <1>8
<1> QED
    BY <1>9, <1>4, <1>5, <1>6, <1>7, <1>8, <1>1, <1>2, <1>3

\* What a step does to the queue: before a command or a report is applied it leaves the
\* queue, and then, as in every other step, triggers at the front may be lost.
LEMMA StepLoses ==
    ASSUME TypeOK, Next
    PROVE  IF Draining /\ bus.queue # <<>> /\ Head(bus.queue).type # "Trigger"
           THEN LosesTriggersOnly(Tail(bus.queue), bus'.queue)
           ELSE LosesTriggersOnly(bus.queue, bus'.queue)
<1> DEFINE Takes == Draining /\ bus.queue # <<>> /\ Head(bus.queue).type # "Trigger"
           Goal  == IF Takes THEN LosesTriggersOnly(Tail(bus.queue), bus'.queue)
                             ELSE LosesTriggersOnly(bus.queue, bus'.queue)
<1>bus. bus \in Bus /\ bus.queue \in Seq(BusMessage)
    BY DEF TypeOK, Bus
<1>same. LosesTriggersOnly(bus.queue, bus.queue)
    BY <1>bus, LosesNothing
<1>pop. ASSUME bus.queue # <<>>
        PROVE  /\ Pop(bus) \in Bus /\ Pop(bus).queue = Tail(bus.queue)
               /\ LosesTriggersOnly(Tail(bus.queue), Pop(bus).queue)
  <2>1. Tail(bus.queue) \in Seq(BusMessage)
      BY <1>bus, <1>pop, HeadTailProperties
  <2>2. Pop(bus).queue = Tail(bus.queue)
      BY <1>bus DEF Pop, Bus
  <2>3. Pop(bus) \in Bus
      BY <1>bus, <1>pop, PopType
  <2>4. LosesTriggersOnly(Tail(bus.queue), Tail(bus.queue))
      BY <2>1, LosesNothing
  <2> QED
      BY <2>2, <2>3, <2>4
<1>applies. ASSUME NEW c, NEW t, Applies(c, t) PROVE Takes
    BY <1>applies DEF Applies, Manual
<1>push. ASSUME NEW m \in BusMessage
         PROVE  Push(bus, m) \in Bus /\ LosesTriggersOnly(bus.queue, Push(bus, m).queue)
    BY <1>bus, PushType, PushLoses
<1>1. ASSUME NEW f \in Fixtures, Load(f) PROVE Goal
    BY <1>1, <1>bus, EmitLoses DEF Load, Draining
<1>2. ASSUME NEW c \in Command, NEW t \in NamedBy(c), EnqueueManual(c, t) PROVE Goal
  <2>1. t \in Nat
      BY TasksAssumption, ClaimTargetsAssumption DEF NamedBy, NoTask
  <2>2. Manual(c, t) \in BusMessage
      BY <2>1, MessageTypes
  <2> QED
      BY <1>2, <2>2, <1>push DEF EnqueueManual, Draining
<1>3. ASSUME NEW a \in BOOLEAN, BeginTick(a) PROVE Goal
    BY <1>3, <1>same DEF BeginTick, Draining
<1>4. CASE ApplyTrigger
    BY <1>4, <1>bus, PopLoses DEF ApplyTrigger
<1>5. CASE ApplyReport
    BY <1>5, <1>pop DEF ApplyReport
<1>6. CASE ApplyRecompute
  <2>1. Takes
      BY <1>6, <1>applies DEF ApplyRecompute
  <2>2. LosesTriggersOnly(Pop(bus).queue, bus'.queue)
      BY <1>6, <2>1, <1>pop, EmitLoses DEF ApplyRecompute
  <2> QED
      BY <2>1, <2>2, <1>pop
<1>7. CASE DrainDone
    BY <1>7, <1>same DEF DrainDone
<1>8. CASE AgentQuiet
    BY <1>8, <1>same DEF AgentQuiet, Draining
<1>9. ASSUME NEW t \in Tasks, ApplyClaim(t) PROVE Goal
    BY <1>9, <1>applies, <1>pop DEF ApplyClaim
<1>10. ASSUME NEW t \in Tasks, ApplyComplete(t) PROVE Goal
  <2>1. Takes
      BY <1>10, <1>applies DEF ApplyComplete
  <2>2. LosesTriggersOnly(Pop(bus).queue, bus'.queue)
      BY <1>10, <2>1, <1>pop, EmitLoses DEF ApplyComplete
  <2> QED
      BY <2>1, <2>2, <1>pop
<1>11. ASSUME NEW t \in Tasks, NEW k \in ReportKind, NEW st, ~Draining,
              EmitTriggers(graph, st, Push(bus, Agent(k)))
       PROVE  Goal
  <2>1. /\ Push(bus, Agent(k)) \in Bus
        /\ LosesTriggersOnly(bus.queue, Push(bus, Agent(k)).queue)
      BY <1>push, MessageTypes
  <2>2. LosesTriggersOnly(Push(bus, Agent(k)).queue, bus'.queue) /\ bus' \in Bus
      BY <1>11, <2>1, EmitLoses, EmitType
  <2>3. Push(bus, Agent(k)).queue \in Seq(BusMessage) /\ bus'.queue \in Seq(BusMessage)
      BY <2>1, <2>2 DEF Bus
  <2>4. LosesTriggersOnly(bus.queue, bus'.queue)
      BY <2>1, <2>2, <2>3, <1>bus, LosesTransitive
  <2> QED
      BY <1>11, <2>4
<1>12. ASSUME NEW t \in Tasks, AgentComplete(t) PROVE Goal
    BY <1>12, <1>11 DEF AgentComplete, Draining, ReportKind
<1>13. ASSUME NEW t \in Tasks, AgentClaim(t) PROVE Goal
    BY <1>13, <1>11 DEF AgentClaim, Draining, ReportKind
<1>14. ASSUME NEW t \in Tasks, NEW c \in Command, ApplyDecision(c, t) PROVE Goal
  <2>1. Takes
      BY <1>14, <1>applies DEF ApplyDecision
  <2>2. LosesTriggersOnly(Pop(bus).queue, bus'.queue)
      BY <1>14, <2>1, <1>pop, EmitLoses DEF ApplyDecision
  <2> QED
      BY <2>1, <2>2, <1>pop
<1>15. ASSUME NEW t \in Tasks, NEW c \in Command, RejectDecision(c, t) PROVE Goal
    BY <1>15, <1>applies, <1>pop DEF RejectDecision
<1> QED
    BY <1>1, <1>2, <1>3, <1>4, <1>5, <1>6, <1>7, <1>8, <1>9, <1>10, <1>12, <1>13, <1>14,
       <1>15 DEF Next, TickStep

\* No command and no report is ever lost to back-pressure, reordered or overtaken, for any
\* capacity and however many triggers a step emits.
THEOREM CommandsAlwaysSurvive == Spec => CommandsSurvive
<1>1. TypeOK /\ [Next]_vars
         => [IF Draining /\ bus.queue # <<>> /\ Head(bus.queue).type # "Trigger"
             THEN LosesTriggersOnly(Tail(bus.queue), bus'.queue)
             ELSE LosesTriggersOnly(bus.queue, bus'.queue)]_vars
    BY StepLoses
<1> QED
    BY <1>1, TypeCorrect, PTL DEF Spec, CommandsSurvive
=============================================================================
