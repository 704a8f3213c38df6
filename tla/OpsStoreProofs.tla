--------------------------- MODULE OpsStoreProofs ---------------------------
(***************************************************************************)
(* Proofs about OpsStore: what is stored keeps its types (TypeOK), the     *)
(* stored pair agrees (StoredPairAgrees), a decision once stored stays     *)
(* (DecidedStays), and an approved bill has its dry run (ApprovedFlowRan). *)
(*                                                                         *)
(* The inductive invariant Inv says which command stands at which label    *)
(* (Control), what every command that is going to write has read and that  *)
(* nobody has written since (Read), that rows, packs and the packs just    *)
(* opened have their types (Typed), and that the pairs in them agree       *)
(* (Agreed).  That nobody writes between a read and the write that rests   *)
(* on it is the assumption of one operator: the lemma OneWriter.           *)
(***************************************************************************)
EXTENDS OpsStore, TLAPS

-----------------------------------------------------------------------------
(* What commands make of a pair *)

\* A life state a command works on: stored, or the empty one.
LifeTyped(life) ==
    /\ life.g \in Graph
    /\ life.st \in [Tasks -> TaskStatus]
    /\ life.by \in [Tasks -> {NoOne, Agent1, Human}]
    /\ life = [g |-> life.g, st |-> life.st, by |-> life.by, path |-> life.path]

\* The decisions of snap are those of new too.
KeepsDecided(snap, new) ==
    \A t \in Tasks : snap.pending[t] \in Resolved => new.pending[t] = snap.pending[t]

LEMMA EmptyGraphTyped == EmptyGraph \in Graph
  BY SMT DEF EmptyGraph, Graph, GateKind

LEMMA EmptyLifeTyped == LifeTyped(EmptyLife) /\ Gated(EmptyLife.g, "Auth") = {}
  <1>1. EmptyLife.g = EmptyGraph /\ EmptyGraph.nodes = {}
    BY DEF EmptyLife, EmptyGraph
  <1>2. EmptyLife.st \in [Tasks -> TaskStatus]
    BY DEF EmptyLife, AllOpen, TaskStatus
  <1>3. EmptyLife.by \in [Tasks -> {NoOne, Agent1, Human}]
    BY DEF EmptyLife
  <1>4. EmptyLife = [g |-> EmptyLife.g, st |-> EmptyLife.st, by |-> EmptyLife.by,
                     path |-> EmptyLife.path]
    BY DEF EmptyLife
  <1> QED
    BY <1>1, <1>2, <1>3, <1>4, EmptyGraphTyped DEF LifeTyped, Gated

LEMMA EmptySnapTyped == EmptySnap \in Snap /\ EmptySnap.flow = Absent
  BY SMT DEF EmptySnap, Snap, Absent

LEMMA StoredLifeTyped == ASSUME NEW life, IsLife(life) PROVE LifeTyped(life)
  BY DEF IsLife, LifeTyped, Recomputed

LEMMA RecomputedTyped ==
  ASSUME NEW life, LifeTyped(life)
  PROVE  IsLife(Recomputed(life))
  BY DEF IsLife, LifeTyped, Recomputed

LEMMA WithPendingTyped ==
  ASSUME NEW snap \in Snap, NEW rows \in [Tasks -> Resolved \cup {Absent, "Pending"}]
  PROVE  /\ WithPending(snap, rows) \in Snap
         /\ WithPending(snap, rows).flow = snap.flow
         /\ WithPending(snap, rows).pending = rows
  BY SMT DEF WithPending, Snap

LEMMA WithPhysicalTyped ==
  ASSUME NEW snap \in Snap,
         NEW rows \in [Tasks -> {Absent, "Open", "Claimed", "Completed"}]
  PROVE  /\ WithPhysical(snap, rows) \in Snap
         /\ WithPhysical(snap, rows).flow = snap.flow
         /\ WithPhysical(snap, rows).pending = snap.pending
  BY SMT DEF WithPhysical, Snap

\* New approvals are written where nothing is decided yet, and nowhere else.
LEMMA UpsertPending ==
  ASSUME NEW snap \in Snap, NEW listed
  PROVE  /\ upsert_pending(listed, snap) \in Snap
         /\ upsert_pending(listed, snap).flow = snap.flow
         /\ KeepsDecided(snap, upsert_pending(listed, snap))
         /\ \A t \in Tasks : \/ upsert_pending(listed, snap).pending[t] = snap.pending[t]
                             \/ /\ upsert_pending(listed, snap).pending[t] = "Pending"
                                /\ snap.pending[t] \notin Resolved
         /\ \A t \in Tasks \cap listed :
               upsert_pending(listed, snap).pending[t] \in Resolved \cup {"Pending"}
  <1> DEFINE rows == [t \in Tasks |-> IF t \in listed /\ snap.pending[t] \notin Resolved
                                      THEN "Pending" ELSE snap.pending[t]]
  <1>1. snap.pending \in [Tasks -> Resolved \cup {Absent, "Pending"}]
    BY DEF Snap
  <1>2. rows \in [Tasks -> Resolved \cup {Absent, "Pending"}]
    BY <1>1
  <1>3. upsert_pending(listed, snap) = WithPending(snap, rows)
    BY DEF upsert_pending
  <1>4. /\ WithPending(snap, rows) \in Snap
        /\ WithPending(snap, rows).flow = snap.flow
        /\ WithPending(snap, rows).pending = rows
    BY <1>2, WithPendingTyped
  <1>5. \A t \in Tasks : snap.pending[t] \in Resolved => rows[t] = snap.pending[t]
    OBVIOUS
  <1>6. \A t \in Tasks : \/ rows[t] = snap.pending[t]
                         \/ rows[t] = "Pending" /\ snap.pending[t] \notin Resolved
    OBVIOUS
  <1>7. \A t \in Tasks \cap listed : rows[t] \in Resolved \cup {"Pending"}
    OBVIOUS
  <1> HIDE DEF rows
  <1> QED
    BY <1>3, <1>4, <1>5, <1>6, <1>7 DEF KeepsDecided

LEMMA UpsertPhysical ==
  ASSUME NEW snap \in Snap, NEW errands
  PROVE  /\ upsert_physical(errands, snap) \in Snap
         /\ upsert_physical(errands, snap).flow = snap.flow
         /\ upsert_physical(errands, snap).pending = snap.pending
  <1> DEFINE rows == [t \in Tasks |-> IF t \in errands /\ snap.physical[t] = Absent
                                      THEN "Open" ELSE snap.physical[t]]
  <1>1. snap.physical \in [Tasks -> {Absent, "Open", "Claimed", "Completed"}]
    BY DEF Snap
  <1>2. rows \in [Tasks -> {Absent, "Open", "Claimed", "Completed"}]
    BY <1>1
  <1>3. upsert_physical(errands, snap) = WithPhysical(snap, rows)
    BY DEF upsert_physical
  <1> HIDE DEF rows
  <1> QED
    BY <1>2, <1>3, WithPhysicalTyped

\* What ensure_snap saves: all that was decided, and a life state it agreed with still
\* agrees with it.
LEMMA ProjectKeeps ==
  ASSUME NEW a, NEW snap \in Snap
  PROVE  /\ Project(a, snap) \in Snap
         /\ Project(a, snap).flow = snap.flow
         /\ KeepsDecided(snap, Project(a, snap))
         /\ \A life : life.g \in Graph /\ Tied(life, snap) => Tied(life, Project(a, snap))
  <1> DEFINE up  == upsert_pending((AuthKinds \cap a.g.nodes) \cup a.finance, snap)
             new == Project(a, snap)
  <1>1. /\ up \in Snap /\ up.flow = snap.flow /\ KeepsDecided(snap, up)
        /\ \A t \in Tasks : \/ up.pending[t] = snap.pending[t]
                            \/ up.pending[t] = "Pending" /\ snap.pending[t] \notin Resolved
    BY UpsertPending
  <1>2. new = upsert_physical(Gated(a.g, "Physical"), up)
    BY DEF Project
  <1> HIDE DEF up
  <1>3. new \in Snap /\ new.flow = up.flow /\ new.pending = up.pending
    BY <1>1, <1>2, UpsertPhysical
  <1> HIDE DEF new
  <1>4. ASSUME NEW life, life.g \in Graph, Tied(life, snap)
        PROVE  Tied(life, new)
    <2>1. SUFFICES ASSUME NEW t \in Gated(life.g, "Auth") \ ClaimTargets
                   PROVE  /\ new.pending[t] # Absent
                          /\ new.pending[t] = "Pending" => life.st[t] = "Open"
                          /\ life.st[t] = "Done" => new.pending[t] = "Approved"
                          /\ life.st[t] = "Blocked" => new.pending[t] = "Denied"
      BY DEF Tied
    <2>2. t \in Tasks
      BY <1>4 DEF Gated, Graph
    <2>3. /\ snap.pending[t] # Absent
          /\ snap.pending[t] = "Pending" => life.st[t] = "Open"
          /\ life.st[t] = "Done" => snap.pending[t] = "Approved"
          /\ life.st[t] = "Blocked" => snap.pending[t] = "Denied"
      BY <1>4 DEF Tied
    <2>4. snap.pending[t] \in Resolved \cup {"Pending"}
      <3>1. snap.pending[t] \in Resolved \cup {Absent, "Pending"}
        BY <2>2 DEF Snap
      <3> QED
        BY <2>3, <3>1
    <2> QED
      BY <1>1, <1>3, <2>2, <2>3, <2>4 DEF Resolved, Absent
  <1> QED
    BY <1>1, <1>3, <1>4 DEF KeepsDecided, new

\* A pair made of another one is typed, keeps the row of the flow and all decisions,
\* and agrees when the other did.
Follows(q, life, snap) ==
    /\ IsLife(q.life)
    /\ q.snap \in Snap
    /\ q.snap.flow = snap.flow
    /\ KeepsDecided(snap, q.snap)
    /\ Tied(life, snap) => Tied(q.life, q.snap)

LEMMA PairIs ==
  ASSUME NEW life, NEW snap, LifeTyped(life)
  PROVE  /\ IsLife(Pair(life, snap).life)
         /\ Pair(life, snap).snap = snap
         /\ Tied(life, snap) => Tied(Pair(life, snap).life, snap)
  <1>1. Pair(life, snap).life = Recomputed(life) /\ Pair(life, snap).snap = snap
    BY DEF Pair
  <1>2. Recomputed(life).g = life.g /\ Recomputed(life).st = life.st
    BY DEF Recomputed
  <1>3. Tied(life, snap) => Tied(Recomputed(life), snap)
    BY <1>2 DEF Tied, Gated
  <1> QED
    BY <1>1, <1>3, RecomputedTyped

\* A freshly loaded runtime agrees with whatever snapshot it was loaded from.
LEMMA LoadPairFollows ==
  ASSUME NEW g \in Graph, NEW snap \in Snap
  PROVE  /\ \A life : Follows(LoadPair(g, snap), life, snap)
         /\ Tied(LoadPair(g, snap).life, LoadPair(g, snap).snap)
  <1> DEFINE up   == upsert_pending(Gated(g, "Auth"), snap)
             new  == upsert_physical(Gated(g, "Physical"), up)
             life == with_graph(g)
  <1>1. /\ up \in Snap /\ up.flow = snap.flow /\ KeepsDecided(snap, up)
        /\ \A t \in Tasks \cap Gated(g, "Auth") : up.pending[t] \in Resolved \cup {"Pending"}
    BY UpsertPending
  <1>2. LoadPair(g, snap) = Pair(life, new)
    BY DEF LoadPair
  <1> HIDE DEF up
  <1>3. new \in Snap /\ new.flow = up.flow /\ new.pending = up.pending
    BY <1>1, UpsertPhysical
  <1> HIDE DEF new
  <1>4. life.g = g /\ life.st = AllOpen
    BY DEF with_graph
  <1>5. LifeTyped(life)
    <2>1. EmptyLife.by \in [Tasks -> {NoOne, Agent1, Human}]
      BY EmptyLifeTyped DEF LifeTyped
    <2>2. AllOpen \in [Tasks -> TaskStatus]
      BY DEF AllOpen, TaskStatus
    <2> QED
      BY <2>1, <2>2 DEF LifeTyped, with_graph
  <1> HIDE DEF life
  <1>6. Tied(life, new)
    <2>1. SUFFICES ASSUME NEW t \in Gated(life.g, "Auth")
                   PROVE  /\ new.pending[t] # Absent
                          /\ life.st[t] = "Open"
      BY <2>1 DEF Tied
    <2>2. t \in Tasks /\ t \in Gated(g, "Auth")
      BY <1>4 DEF Gated, Graph
    <2>3. new.pending[t] \in Resolved \cup {"Pending"}
      BY <1>1, <1>3, <2>2
    <2> QED
      BY <1>4, <2>2, <2>3 DEF Resolved, Absent, AllOpen
  <1>7. /\ IsLife(LoadPair(g, snap).life) /\ LoadPair(g, snap).snap = new
        /\ Tied(LoadPair(g, snap).life, new)
    BY <1>2, <1>5, <1>6, PairIs
  <1> QED
    BY <1>1, <1>3, <1>7 DEF Follows, KeepsDecided

\* An agent works on tasks that nobody has to approve.
LEMMA AgentTurnKeeps ==
  ASSUME NEW life, LifeTyped(life), NEW l \in AgentTurn(life)
  PROVE  /\ LifeTyped(l)
         /\ l.g = life.g
         /\ \A t \in Gated(life.g, "Auth") : l.st[t] = life.st[t]
  <1> DEFINE g == life.g
             owned == {t \in g.nodes : life.by[t] = Agent1 /\ life.st[t] = "Claimed"
                                                           /\ g.gate[t] = "None"}
             next == next_hootl_digital(g, life.st, life.path)
             Changed(t, st, by) == WithTasks(life, [life.st EXCEPT ![t] = st], by)
  <1>1. \/ l = life
        \/ \E t \in owned : l = Changed(t, "Done", life.by)
        \/ next # NoTask /\ l = Changed(next, "Claimed", [life.by EXCEPT ![next] = Agent1])
    <2>1. CASE owned # {}
      BY <2>1 DEF AgentTurn
    <2>2. CASE owned = {}
      BY <2>2 DEF AgentTurn
    <2> QED
      BY <2>1, <2>2
  <1>2. ASSUME NEW t \in g.nodes, g.gate[t] = "None", NEW st \in TaskStatus,
               NEW by \in [Tasks -> {NoOne, Agent1, Human}], l = Changed(t, st, by)
        PROVE  /\ LifeTyped(l) /\ l.g = life.g
               /\ \A u \in Gated(life.g, "Auth") : l.st[u] = life.st[u]
    <2>1. life.st \in [Tasks -> TaskStatus] /\ life.g \in Graph
      BY DEF LifeTyped
    <2>2. l = [g |-> life.g, st |-> [life.st EXCEPT ![t] = st], by |-> by,
               path |-> life.path]
      BY <1>2 DEF WithTasks
    <2>3. [life.st EXCEPT ![t] = st] \in [Tasks -> TaskStatus]
      BY <2>1
    <2>4. LifeTyped(l)
      BY <2>1, <2>2, <2>3 DEF LifeTyped
    <2>5. \A u \in Gated(life.g, "Auth") : u \in Tasks /\ u # t
      BY <1>2, <2>1 DEF Gated, Graph
    <2> QED
      BY <2>1, <2>2, <2>4, <2>5
  <1>3. CASE l = life
    BY <1>3
  <1>4. CASE \E t \in owned : l = Changed(t, "Done", life.by)
    <2>1. PICK t \in owned : l = Changed(t, "Done", life.by)
      BY <1>4
    <2>2. t \in g.nodes /\ g.gate[t] = "None"
      OBVIOUS
    <2>3. "Done" \in TaskStatus /\ life.by \in [Tasks -> {NoOne, Agent1, Human}]
      BY DEF TaskStatus, LifeTyped
    <2> HIDE DEF g, owned, Changed
    <2> QED
      BY <1>2, <2>1, <2>2, <2>3
  <1>5. CASE /\ next # NoTask
             /\ l = Changed(next, "Claimed", [life.by EXCEPT ![next] = Agent1])
    <2>1. next \in OpenWithGate(g, life.st, "None")
      <3> DEFINE S == OpenWithGate(g, life.st, "None")
      <3>1. next = FirstOf(life.path, S)
        BY DEF next_hootl_digital
      <3> HIDE DEF S
      <3>2. FirstOf(life.path, S) # NoTask => FirstOf(life.path, S) \in S
        BY DEF FirstOf
      <3> QED
        BY <1>5, <3>1, <3>2 DEF S
    <2>2. next \in g.nodes /\ g.gate[next] = "None"
      BY <2>1 DEF OpenWithGate
    <2>3. "Claimed" \in TaskStatus
      BY DEF TaskStatus
    <2>4. [life.by EXCEPT ![next] = Agent1] \in [Tasks -> {NoOne, Agent1, Human}]
      BY DEF LifeTyped
    <2> HIDE DEF g, next, Changed
    <2> QED
      BY <1>2, <1>5, <2>2, <2>3, <2>4
  <1> QED
    BY <1>1, <1>3, <1>4, <1>5

\* Status changes of one task, whoever makes them.
LEMMA WithStatusTyped ==
  ASSUME NEW life, LifeTyped(life), NEW t \in Tasks, NEW st \in TaskStatus
  PROVE  /\ LifeTyped(WithStatus(life, t, st))
         /\ WithStatus(life, t, st).g = life.g
         /\ t \in life.g.nodes => WithStatus(life, t, st).st[t] = st
         /\ \A u \in Tasks : u # t => WithStatus(life, t, st).st[u] = life.st[u]
  <1>1. CASE t \notin life.g.nodes
    BY <1>1 DEF WithStatus
  <1>2. CASE t \in life.g.nodes
    <2> DEFINE sts == [life.st EXCEPT ![t] = st]
    <2>1. WithStatus(life, t, st) = [g |-> life.g, st |-> sts, by |-> life.by,
                                     path |-> life.path]
      BY <1>2 DEF WithStatus, WithTasks
    <2>2. /\ sts \in [Tasks -> TaskStatus] /\ sts[t] = st
          /\ \A u \in Tasks : u # t => sts[u] = life.st[u]
      BY DEF LifeTyped
    <2> HIDE DEF sts
    <2> QED
      BY <2>1, <2>2 DEF LifeTyped
  <1> QED
    BY <1>1, <1>2

LEMMA ByHumanTyped ==
  ASSUME NEW life, LifeTyped(life), NEW t \in Tasks
  PROVE  /\ LifeTyped(ByHuman(life, t))
         /\ ByHuman(life, t).g = life.g
         /\ \A u \in Tasks : u # t => ByHuman(life, t).st[u] = life.st[u]
  <1>1. CASE t \notin life.g.nodes
    BY <1>1 DEF ByHuman
  <1>2. CASE t \in life.g.nodes
    <2> DEFINE sts == [life.st EXCEPT ![t] = "Claimed"]
               bys == [life.by EXCEPT ![t] = Human]
    <2>1. ByHuman(life, t) = [g |-> life.g, st |-> sts, by |-> bys, path |-> life.path]
      BY <1>2 DEF ByHuman, WithTasks
    <2>2. /\ sts \in [Tasks -> TaskStatus]
          /\ \A u \in Tasks : u # t => sts[u] = life.st[u]
      BY DEF LifeTyped, TaskStatus
    <2>3. bys \in [Tasks -> {NoOne, Agent1, Human}]
      BY DEF LifeTyped
    <2> HIDE DEF sts, bys
    <2> QED
      BY <2>1, <2>2, <2>3 DEF LifeTyped
  <1> QED
    BY <1>1, <1>2

\* A claim or a completion: only the task named changes, and nobody relies on its row.
LEMMA ErrandFollows ==
  ASSUME NEW life, LifeTyped(life), NEW l, LifeTyped(l), l.g = life.g,
         NEW t \in ClaimTargets, \A u \in Tasks : u # t => l.st[u] = life.st[u],
         NEW snap \in Snap, NEW st \in {"Claimed", "Completed"}
  PROVE  Follows(Pair(l, apply_physical_decision(snap, t, st)), life, snap)
  <1> DEFINE new == apply_physical_decision(snap, t, st)
  <1>1. /\ new \in Snap /\ new.flow = snap.flow /\ new.pending = snap.pending
    <2>1. [snap.physical EXCEPT ![t] = st] \in [Tasks -> {Absent, "Open", "Claimed", "Completed"}]
      BY DEF Snap
    <2> QED
      BY <2>1, WithPhysicalTyped DEF apply_physical_decision
  <1> HIDE DEF new
  <1>2. /\ IsLife(Pair(l, new).life) /\ Pair(l, new).snap = new
        /\ Tied(l, new) => Tied(Pair(l, new).life, new)
    BY PairIs
  <1>3. Tied(life, snap) => Tied(l, new)
    <2>1. \A u \in Gated(life.g, "Auth") : u \in Tasks
      BY DEF LifeTyped, Gated, Graph
    <2>2. Gated(l.g, "Auth") = Gated(life.g, "Auth")
      BY DEF Gated
    <2> QED
      BY <1>1, <2>1, <2>2 DEF Tied
  <1>4. Follows(Pair(l, new), life, snap)
    BY <1>1, <1>2, <1>3 DEF Follows, KeepsDecided
  <1> QED
    BY <1>4 DEF new

\* A decision sets the row and, when the task waits for one, the task.
LEMMA DecisionFollows ==
  ASSUME NEW life, LifeTyped(life), NEW snap \in Snap,
         NEW c \in {"Approve", "Deny"}, NEW t \in list_pending(snap)
  PROVE  Follows(Pair(decide_task(c, t, life), apply_decision(snap, t, Verdict(c))), life, snap)
  <1> DEFINE new  == apply_decision(snap, t, Verdict(c))
             rows == [snap.pending EXCEPT ![t] = Verdict(c)]
             l    == decide_task(c, t, life)
  <1>1. t \in Tasks /\ snap.pending[t] = "Pending"
    BY DEF list_pending
  <1>2. snap.pending \in [Tasks -> Resolved \cup {Absent, "Pending"}]
    BY DEF Snap
  <1>3. /\ Verdict(c) \in Resolved /\ Outcome(c) \in TaskStatus
        /\ \/ Verdict(c) = "Approved" /\ Outcome(c) = "Done"
           \/ Verdict(c) = "Denied" /\ Outcome(c) = "Blocked"
    BY DEF Verdict, Outcome, Resolved, TaskStatus
  <1>4. /\ rows \in [Tasks -> Resolved \cup {Absent, "Pending"}]
        /\ rows[t] = Verdict(c)
        /\ \A u \in Tasks : u # t => rows[u] = snap.pending[u]
    BY <1>1, <1>2, <1>3
  <1>5. new = WithPending(snap, rows)
    BY DEF apply_decision
  <1> HIDE DEF rows, new
  <1>6. new \in Snap /\ new.flow = snap.flow /\ new.pending = rows
    BY <1>4, <1>5, WithPendingTyped
  <1>7. KeepsDecided(snap, new)
    BY <1>1, <1>4, <1>6 DEF KeepsDecided, Resolved
  <1>8. /\ LifeTyped(l) /\ l.g = life.g
        /\ t \in Gated(life.g, "Auth") => l.st[t] = Outcome(c)
        /\ \A u \in Tasks : u # t => l.st[u] = life.st[u]
    <2> DEFINE w == WithStatus(life, t, Outcome(c))
    <2>1. /\ LifeTyped(w) /\ w.g = life.g
          /\ t \in life.g.nodes => w.st[t] = Outcome(c)
          /\ \A u \in Tasks : u # t => w.st[u] = life.st[u]
      BY <1>1, <1>3, WithStatusTyped
    <2>2. l = IF life.g.gate[t] = "Auth" THEN w ELSE life
      BY DEF decide_task
    <2>3. t \in Gated(life.g, "Auth") => t \in life.g.nodes /\ life.g.gate[t] = "Auth"
      BY DEF Gated
    <2> HIDE DEF w, l
    <2> QED
      BY <2>1, <2>2, <2>3
  <1> HIDE DEF l
  <1>9. Tied(life, snap) => Tied(l, new)
    <2>1. SUFFICES ASSUME Tied(life, snap), NEW u \in Gated(l.g, "Auth") \ ClaimTargets
                   PROVE  /\ rows[u] # Absent
                          /\ rows[u] = "Pending" => l.st[u] = "Open"
                          /\ l.st[u] = "Done" => rows[u] = "Approved"
                          /\ l.st[u] = "Blocked" => rows[u] = "Denied"
      BY <1>6 DEF Tied
    <2>2. u \in Tasks /\ u \in Gated(life.g, "Auth") \ ClaimTargets
      BY <1>8, <2>1 DEF LifeTyped, Gated, Graph
    <2>3. CASE u = t
      BY <1>3, <1>4, <1>8, <2>2, <2>3 DEF Absent
    <2>4. CASE u # t
      BY <1>4, <1>8, <2>1, <2>2, <2>4 DEF Tied
    <2> QED
      BY <2>3, <2>4
  <1>10. /\ IsLife(Pair(l, new).life) /\ Pair(l, new).snap = new
         /\ Tied(l, new) => Tied(Pair(l, new).life, new)
    BY <1>8, PairIs
  <1>11. Follows(Pair(l, new), life, snap)
    BY <1>6, <1>7, <1>9, <1>10 DEF Follows
  <1> QED
    BY <1>11 DEF l, new

RuntimeOps == {"load", "tick", "manual", "gate"}

\* Whatever a runtime command makes of the pair it read follows it.
LEMMA OutcomesFollow ==
  ASSUME NEW p \in Procs, NEW c \in Calls[p], c.op \in RuntimeOps,
         NEW life, LifeTyped(life), NEW snap \in Snap,
         NEW q \in Outcomes(c, life, snap)
  PROVE  Follows(q, life, snap)
  <1>1. CASE c.op = "load"
    <2>1. c.g \in Graph
      BY <1>1, OpsCallsAssumption, OpsFixturesAssumption
    <2>2. q = LoadPair(c.g, snap)
      <3>1. Outcomes(c, life, snap) =
              IF HasTopoOrder(c.g) THEN {LoadPair(c.g, snap)} ELSE {}
        BY <1>1 DEF Outcomes
      <3> QED
        BY <3>1
    <2> QED
      BY <2>1, <2>2, LoadPairFollows
  <1>2. CASE c.op = "tick"
    <2>1. PICK l \in (IF c.agent THEN AgentTurn(life) ELSE {life}) : q = Pair(l, snap)
      BY <1>2 DEF Outcomes
    <2>2. l \in AgentTurn(life) \/ l = life
      BY <2>1
    <2>3. /\ LifeTyped(l) /\ l.g = life.g
          /\ \A t \in Gated(life.g, "Auth") : l.st[t] = life.st[t]
      BY <2>2, AgentTurnKeeps
    <2>4. Tied(life, snap) => Tied(l, snap)
      BY <2>3 DEF Tied
    <2> QED
      BY <2>1, <2>3, <2>4, PairIs DEF Follows, KeepsDecided
  <1>3. CASE c.op \in {"manual", "gate"}
    <2>1. /\ c.c \in Decisions /\ c.t \in Tasks
          /\ c.c \in {"Claim", "Complete"} => c.t \in ClaimTargets
      BY <1>3, OpsCallsAssumption
    <2>2. q \in Manually(c.c, c.t, life, snap)
      BY <1>3 DEF Outcomes
    <2>3. CASE c.c \in {"Approve", "Deny"}
      <3>1. /\ c.t \in list_pending(snap)
            /\ q = Pair(decide_task(c.c, c.t, life), apply_decision(snap, c.t, Verdict(c.c)))
        <4>1. Manually(c.c, c.t, life, snap) =
                IF c.t \in list_pending(snap)
                THEN {Pair(decide_task(c.c, c.t, life),
                           apply_decision(snap, c.t, Verdict(c.c)))}
                ELSE {}
          BY <2>3 DEF Manually
        <4> QED
          BY <2>2, <4>1
      <3> QED
        BY <2>3, <3>1, DecisionFollows
    <2>4. CASE c.c = "Claim"
      <3>1. q = Pair(ByHuman(life, c.t), apply_physical_decision(snap, c.t, "Claimed"))
        BY <2>2, <2>4 DEF Manually
      <3>2. c.t \in ClaimTargets
        BY <2>1, <2>4
      <3> DEFINE l == ByHuman(life, c.t)
      <3>3. /\ LifeTyped(l) /\ l.g = life.g
            /\ \A u \in Tasks : u # c.t => l.st[u] = life.st[u]
        BY <2>1, ByHumanTyped
      <3> HIDE DEF l
      <3>4. Follows(Pair(l, apply_physical_decision(snap, c.t, "Claimed")), life, snap)
        BY <3>2, <3>3, ErrandFollows
      <3> QED
        BY <3>1, <3>4 DEF l
    <2>5. CASE c.c = "Complete"
      <3>1. q = Pair(WithStatus(life, c.t, "Done"),
                     apply_physical_decision(snap, c.t, "Completed"))
        BY <2>2, <2>5 DEF Manually
      <3>2. c.t \in ClaimTargets
        BY <2>1, <2>5
      <3> DEFINE l == WithStatus(life, c.t, "Done")
      <3>3. "Done" \in TaskStatus
        BY DEF TaskStatus
      <3>4. /\ LifeTyped(l) /\ l.g = life.g
            /\ \A u \in Tasks : u # c.t => l.st[u] = life.st[u]
        BY <2>1, <3>3, WithStatusTyped
      <3> HIDE DEF l
      <3>5. Follows(Pair(l, apply_physical_decision(snap, c.t, "Completed")), life, snap)
        BY <3>2, <3>4, ErrandFollows
      <3> QED
        BY <3>1, <3>5 DEF l
    <2> QED
      BY <2>1, <2>3, <2>4, <2>5 DEF Decisions
  <1> QED
    BY <1>1, <1>2, <1>3 DEF RuntimeOps

-----------------------------------------------------------------------------
(* The inductive invariant *)

PulseLabels == {"pulse_snap", "pulse_life", "pulse_diff", "pulse_open", "pulse_write"}
FlowLabels  == {"flow", "flow_save", "flow_snap", "flow_row"}
TurnLabels  == {"ensure", "ensure_save", "focus", "turn_pair"}

\* Where nothing read is relied on by a write to the rows.
Quiet == {"idle", "seed", "seed_snap"} \cup PulseLabels

\* Process p stands at label l, having read r.
Stands(p, l, r) ==
    /\ l = "idle" => r = Idle
    /\ l # "idle" => r.c \in Calls[p] /\ r.c.op # "none"
    /\ l \in {"life", "snap", "pair"} => r.c.op \in RuntimeOps
    /\ l \in TurnLabels => r.c.op = "turn"
    /\ l \in FlowLabels => r.c.op = "cycle"
    /\ l \in {"export", "pack_open", "pack_write"} => r.c.op = "backup"
    /\ l \in {"unpack", "import"} => r.c.op = "restore"
    /\ l \in Quiet \cup {"life", "snap", "pair"} \cup TurnLabels \cup FlowLabels
               \cup {"export", "pack_open", "pack_write", "unpack", "import"}

\* What a process at label l has read, beside the rows as they are.
Read(l, r, rows) ==
    /\ l \in {"snap", "pair"} => r.life = OrElse(rows.life, EmptyLife)
    /\ l \in {"pair", "ensure_save", "flow_row"} => r.snap = OrElse(rows.snap, EmptySnap)
    /\ l \in TurnLabels => r.a.g \in Graph
    /\ l = "turn_pair" => rows.life = Missing
    /\ l \in {"flow_save", "flow_snap", "flow_row"} => r.flow = "DryRunOk"
    /\ l \in {"flow_snap", "flow_row"} => rows.flow = "DryRunOk"
    /\ l \in {"pack_open", "pack_write"} => r.bundle.rows = rows

Control ==
    /\ DOMAIN pc = Procs /\ DOMAIN run = Procs
    /\ \A p \in Procs : Stands(p, pc[p], run[p])

ReadNow == \A p \in Procs : Read(pc[p], run[p], kv)

Counted == mixed \in BOOLEAN /\ calls \in 0..MaxCalls /\ deaths \in 0..MaxDeaths

Sound(rows) == Rows(rows) /\ FlowRan(rows)

Typed ==
    /\ Sound(kv)
    /\ pack \in {Missing, Torn} \/ Sound(pack.rows)
    /\ \A p \in Procs : pc[p] = "import" => Sound(run[p].bundle.rows)

Agreed ==
    mixed \/ /\ Agree(kv)
             /\ pack \notin {Missing, Torn} => Agree(pack.rows)
             /\ \A p \in Procs : pc[p] = "import" => Agree(run[p].bundle.rows)

Inv == Control /\ ReadNow /\ Counted /\ Typed /\ Agreed

-----------------------------------------------------------------------------
(* Steps *)

LEMMA IdleIs == Idle.c.op = "none" /\ Idle = Started([op |-> "none"], NoActions, Missing)
  BY DEF Idle, Started

LEMMA StartedIs ==
  ASSUME NEW c, NEW a, NEW ir
  PROVE  Started(c, a, ir).c = c /\ Started(c, a, ir).a = a
  BY DEF Started

\* Only process p moves.
Moved(p) ==
    /\ DOMAIN pc' = Procs /\ DOMAIN run' = Procs
    /\ \A q \in Procs : q # p => pc'[q] = pc[q] /\ run'[q] = run[q]

LEMMA GotoIs ==
  ASSUME Control, NEW p \in Procs, NEW l, Goto(p, l)
  PROVE  DOMAIN pc' = Procs /\ pc'[p] = l /\ \A q \in Procs : q # p => pc'[q] = pc[q]
  BY DEF Control, Goto

LEMMA StaysAt ==
  ASSUME Control, NEW p \in Procs, NEW l, Goto(p, l), run' = run
  PROVE  Moved(p) /\ pc'[p] = l /\ run'[p] = run[p]
  BY GotoIs DEF Control, Moved

\* Reading one field leaves the others.
LEMMA GetsIs ==
  ASSUME Control, NEW p \in Procs, NEW l, Goto(p, l), NEW f, NEW v, Gets(p, f, v)
  PROVE  /\ Moved(p) /\ pc'[p] = l
         /\ \A g \in DOMAIN Idle : run'[p][g] = IF g = f THEN v ELSE run[p][g]
  <1>1. DOMAIN pc' = Procs /\ pc'[p] = l /\ \A q \in Procs : q # p => pc'[q] = pc[q]
    BY GotoIs
  <1> DEFINE r == [g \in DOMAIN Idle |-> IF g = f THEN v ELSE run[p][g]]
  <1>2. run' = [run EXCEPT ![p] = r]
    BY DEF Gets
  <1>3. \A g \in DOMAIN Idle : r[g] = IF g = f THEN v ELSE run[p][g]
    OBVIOUS
  <1> HIDE DEF r
  <1>4. DOMAIN run' = Procs /\ run'[p] = r /\ \A q \in Procs : q # p => run'[q] = run[q]
    BY <1>2 DEF Control
  <1> QED
    BY <1>1, <1>3, <1>4 DEF Moved

LEMMA Fields == DOMAIN Idle = {"c", "life", "snap", "flow", "a", "bundle", "ir"}
  BY DEF Idle, Started

LEMMA GetsLife ==
  ASSUME Control, NEW p \in Procs, NEW l, Goto(p, l), NEW v, Gets(p, "life", v)
  PROVE  /\ Moved(p) /\ pc'[p] = l
         /\ run'[p].life = v /\ run'[p].c = run[p].c
  BY GetsIs, Fields

LEMMA GetsSnap ==
  ASSUME Control, NEW p \in Procs, NEW l, Goto(p, l), NEW v, Gets(p, "snap", v)
  PROVE  /\ Moved(p) /\ pc'[p] = l
         /\ run'[p].snap = v /\ run'[p].c = run[p].c
         /\ run'[p].life = run[p].life /\ run'[p].a = run[p].a /\ run'[p].flow = run[p].flow
  <1>1. /\ Moved(p) /\ pc'[p] = l
        /\ \A g \in DOMAIN Idle : run'[p][g] = IF g = "snap" THEN v ELSE run[p][g]
    BY GetsIs
  <1> QED
    BY <1>1, Fields

LEMMA GetsA ==
  ASSUME Control, NEW p \in Procs, NEW l, Goto(p, l), NEW v, Gets(p, "a", v)
  PROVE  /\ Moved(p) /\ pc'[p] = l
         /\ run'[p].a = v /\ run'[p].c = run[p].c
  BY GetsIs, Fields

LEMMA GetsFlow ==
  ASSUME Control, NEW p \in Procs, NEW l, Goto(p, l), NEW v, Gets(p, "flow", v)
  PROVE  /\ Moved(p) /\ pc'[p] = l
         /\ run'[p].flow = v /\ run'[p].c = run[p].c
  BY GetsIs, Fields

LEMMA GetsBundle ==
  ASSUME Control, NEW p \in Procs, NEW l, Goto(p, l), NEW v, Gets(p, "bundle", v)
  PROVE  /\ Moved(p) /\ pc'[p] = l
         /\ run'[p].bundle = v /\ run'[p].c = run[p].c
  BY GetsIs, Fields

LEMMA EndIs ==
  ASSUME Control, NEW p \in Procs, End(p)
  PROVE  Moved(p) /\ pc'[p] = "idle" /\ run'[p] = Idle
  <1>1. DOMAIN pc' = Procs /\ pc'[p] = "idle" /\ \A q \in Procs : q # p => pc'[q] = pc[q]
    BY GotoIs DEF End
  <1>2. DOMAIN run' = Procs /\ run'[p] = Idle /\ \A q \in Procs : q # p => run'[q] = run[q]
    BY DEF End, Control
  <1> QED
    BY <1>1, <1>2 DEF Moved

\* Beside a process that is going to write, the others stand at quiet labels.
LEMMA OneWriter ==
  ASSUME Control, NEW p \in Procs, pc[p] \notin Quiet, NEW q \in Procs, q # p
  PROVE  pc[q] \in Quiet
  <1>1. run[p].c \in Calls[p] /\ run[p].c.op \notin {"pulse", "none"}
    <2>1. Stands(p, pc[p], run[p])
      BY DEF Control
    <2>2. pc[p] # "idle"
      BY DEF Quiet
    <2> QED
      BY <2>1, <2>2 DEF Stands, RuntimeOps
  <1>2. CASE pc[q] = "idle"
    BY <1>2 DEF Quiet
  <1>3. CASE pc[q] # "idle"
    <2>1. Stands(q, pc[q], run[q])
      BY DEF Control
    <2>2. run[q].c \in Calls[q]
      BY <1>3, <2>1 DEF Stands
    <2>3. run[q].c.op = "pulse"
      BY <1>1, <2>2, OpsCallsAssumption
    <2> QED
      BY <2>1, <2>3 DEF Stands, RuntimeOps
  <1> QED
    BY <1>2, <1>3

LEMMA QuietReads ==
  ASSUME NEW l \in Quiet, NEW r, NEW rows
  PROVE  Read(l, r, rows)
  BY DEF Quiet, PulseLabels, Read, TurnLabels

LEMMA IdleStands == ASSUME NEW p \in Procs PROVE Stands(p, "idle", Idle)
  BY DEF Stands, Quiet, PulseLabels, TurnLabels, FlowLabels

\* A step of p that leaves the rows and the pack alone.
LEMMA RowsKept ==
  ASSUME Inv, NEW p \in Procs, Moved(p), kv' = kv, pack' = pack, mixed' = mixed, Counted',
         Stands(p, pc'[p], run'[p]), Read(pc'[p], run'[p], kv),
         pc'[p] = "import" => /\ Sound(run'[p].bundle.rows)
                              /\ mixed \/ Agree(run'[p].bundle.rows)
  PROVE  Inv'
  <1>1. Control'
    <2>1. \A q \in Procs : Stands(q, pc'[q], run'[q])
      BY DEF Inv, Control, Moved
    <2> QED
      BY <2>1 DEF Control, Moved
  <1>2. ReadNow'
    BY DEF Inv, ReadNow, Moved
  <1>3. Typed'
    BY DEF Inv, Typed, Moved
  <1>4. Agreed'
    BY DEF Inv, Agreed, Moved
  <1> QED
    BY <1>1, <1>2, <1>3, <1>4 DEF Inv

\* A step of p that writes the rows, where p alone relied on them.
LEMMA RowsWritten ==
  ASSUME Inv, NEW p \in Procs, Moved(p), pc[p] \notin Quiet, pack' = pack, Counted',
         Stands(p, pc'[p], run'[p]), Read(pc'[p], run'[p], kv'), pc'[p] # "import",
         Sound(kv'), mixed' \/ (~mixed /\ Agree(kv'))
  PROVE  Inv'
  <1>1. Control'
    <2>1. \A q \in Procs : Stands(q, pc'[q], run'[q])
      BY DEF Inv, Control, Moved
    <2> QED
      BY <2>1 DEF Control, Moved
  <1>2. ReadNow'
    <2>1. SUFFICES ASSUME NEW q \in Procs PROVE Read(pc'[q], run'[q], kv')
      BY DEF ReadNow
    <2>2. CASE q # p
      <3>1. pc'[q] \in Quiet
        BY <2>2, OneWriter DEF Inv, Moved
      <3> QED
        BY <3>1, QuietReads
    <2> QED
      BY <2>2
  <1>3. Typed'
    BY DEF Inv, Typed, Moved
  <1>4. Agreed'
    BY DEF Inv, Agreed, Moved
  <1> QED
    BY <1>1, <1>2, <1>3, <1>4 DEF Inv

\* A step of p that writes the pack.
LEMMA PackWritten ==
  ASSUME Inv, NEW p \in Procs, Moved(p), kv' = kv, mixed' = mixed, Counted',
         Stands(p, pc'[p], run'[p]), Read(pc'[p], run'[p], kv), pc'[p] # "import",
         pack' \in {Missing, Torn} \/ Sound(pack'.rows),
         mixed \/ pack' \in {Missing, Torn} \/ Agree(pack'.rows)
  PROVE  Inv'
  <1>1. Control'
    <2>1. \A q \in Procs : Stands(q, pc'[q], run'[q])
      BY DEF Inv, Control, Moved
    <2> QED
      BY <2>1 DEF Control, Moved
  <1>2. ReadNow'
    BY DEF Inv, ReadNow, Moved
  <1>3. Typed'
    BY DEF Inv, Typed, Moved
  <1>4. Agreed'
    BY DEF Inv, Agreed, Moved
  <1> QED
    BY <1>1, <1>2, <1>3, <1>4 DEF Inv

\* A command that ends leaves all as it is, or has just written.
LEMMA EndsQuietly ==
  ASSUME Inv, NEW p \in Procs, End(p), kv' = kv, pack' = pack, mixed' = mixed, Counted'
  PROVE  Inv'
  <1>1. Moved(p) /\ pc'[p] = "idle" /\ run'[p] = Idle
    BY EndIs DEF Inv
  <1>2. Stands(p, pc'[p], run'[p])
    BY <1>1, IdleStands
  <1>3. Read(pc'[p], run'[p], kv)
    BY <1>1, QuietReads DEF Quiet
  <1>4. pc'[p] # "import"
    BY <1>1
  <1> QED
    BY <1>1, <1>2, <1>3, <1>4, RowsKept

\* What the invariant says of the process at hand.
LEMMA AtLabel ==
  ASSUME Inv, NEW p \in Procs
  PROVE  /\ Control
         /\ Stands(p, pc[p], run[p])
         /\ Read(pc[p], run[p], kv)
  BY DEF Inv, Control, ReadNow

LEMMA CountedStays ==
  ASSUME Inv, UNCHANGED <<calls, deaths>>, mixed' = mixed
  PROVE  Counted'
  BY DEF Inv, Counted

LEMMA StoredSnap ==
  ASSUME Inv
  PROVE  /\ OrElse(kv.snap, EmptySnap) \in Snap
         /\ OrElse(kv.snap, EmptySnap).flow = "Approved" => kv.flow = "DryRunOk"
  <1>1. Sound(kv)
    BY DEF Inv, Typed
  <1>2. kv.snap = Missing \/ kv.snap \in Snap
    BY <1>1 DEF Sound, Rows
  <1> QED
    BY <1>1, <1>2, EmptySnapTyped DEF Sound, FlowRan, OrElse, Absent

LEMMA StoredLife ==
  ASSUME Inv
  PROVE  LifeTyped(OrElse(kv.life, EmptyLife))
  <1>1. kv.life = Missing \/ IsLife(kv.life)
    BY DEF Inv, Typed, Sound, Rows
  <1> QED
    BY <1>1, EmptyLifeTyped, StoredLifeTyped DEF OrElse

\* The pair a command reads agrees: no life state is the empty one.
LEMMA StoredTied ==
  ASSUME Inv, ~mixed
  PROVE  Tied(OrElse(kv.life, EmptyLife), OrElse(kv.snap, EmptySnap))
  <1>1. Agree(kv)
    BY DEF Inv, Agreed
  <1>2. CASE kv.life = Missing
    <2>1. OrElse(kv.life, EmptyLife) = EmptyLife
      BY <1>2 DEF OrElse
    <2> QED
      BY <2>1, EmptyLifeTyped DEF Tied
  <1>3. CASE kv.life # Missing
    BY <1>1, <1>3 DEF Agree, OrElse
  <1> QED
    BY <1>2, <1>3

LEMMA ReadLifeKeeps == ASSUME Inv, NEW p \in Procs, ReadLife(p) PROVE Inv'
  <1>1. /\ pc[p] = "life" /\ kv' = kv /\ pack' = pack /\ mixed' = mixed /\ Counted'
    BY CountedStays DEF ReadLife, At, Reads
  <1>2. CASE End(p)
    BY <1>1, <1>2, EndsQuietly
  <1>3. CASE Goto(p, "snap") /\ Gets(p, "life", OrElse(kv.life, EmptyLife))
    <2>1. /\ Moved(p) /\ pc'[p] = "snap"
          /\ run'[p].life = OrElse(kv.life, EmptyLife) /\ run'[p].c = run[p].c
      BY <1>3, GetsLife, AtLabel
    <2>2. Stands(p, pc'[p], run'[p])
      <3>1. Stands(p, pc[p], run[p])
        BY AtLabel
      <3> QED
        BY <1>1, <2>1, <3>1 DEF Stands, Quiet, PulseLabels, TurnLabels, FlowLabels
    <2>3. Read(pc'[p], run'[p], kv)
      BY <2>1 DEF Read, TurnLabels
    <2> QED
      BY <1>1, <2>1, <2>2, <2>3, RowsKept
  <1> QED
    BY <1>2, <1>3 DEF ReadLife

LEMMA ReadSnapshotKeeps == ASSUME Inv, NEW p \in Procs, ReadSnapshot(p) PROVE Inv'
  <1>1. /\ pc[p] = "snap" /\ kv' = kv /\ pack' = pack /\ mixed' = mixed /\ Counted'
    BY CountedStays DEF ReadSnapshot, At, Reads
  <1>2. Goto(p, "pair") /\ Gets(p, "snap", OrElse(kv.snap, EmptySnap))
    BY DEF ReadSnapshot
  <1>3. /\ Moved(p) /\ pc'[p] = "pair"
        /\ run'[p].snap = OrElse(kv.snap, EmptySnap) /\ run'[p].c = run[p].c
        /\ run'[p].life = run[p].life
    BY <1>2, GetsSnap, AtLabel
  <1>4. Stands(p, pc[p], run[p]) /\ Read(pc[p], run[p], kv)
    BY AtLabel
  <1>5. Stands(p, pc'[p], run'[p])
    BY <1>1, <1>3, <1>4 DEF Stands, Quiet, PulseLabels, TurnLabels, FlowLabels
  <1>6. Read(pc'[p], run'[p], kv)
    BY <1>1, <1>3, <1>4 DEF Read, TurnLabels
  <1> QED
    BY <1>1, <1>3, <1>5, <1>6, RowsKept

\* The pair a runtime command saves follows the stored one.
LEMMA SavedPair ==
  ASSUME Inv, NEW p \in Procs, SavePair(p)
  PROVE  \E q : /\ Follows(q, OrElse(kv.life, EmptyLife), OrElse(kv.snap, EmptySnap))
                /\ kv' = [life |-> q.life, snap |-> q.snap, flow |-> kv.flow]
                /\ UNCHANGED <<pack, pulse, mixed>>
  <1>1. pc[p] = "pair"
    BY DEF SavePair, At
  <1>2. Stands(p, pc[p], run[p]) /\ Read(pc[p], run[p], kv)
    BY AtLabel
  <1>3. /\ run[p].c \in Calls[p] /\ run[p].c.op \in RuntimeOps
        /\ run[p].life = OrElse(kv.life, EmptyLife)
        /\ run[p].snap = OrElse(kv.snap, EmptySnap)
    BY <1>1, <1>2 DEF Stands, Read
  <1>4. PICK q \in Outcomes(run[p].c, run[p].life, run[p].snap) :
               Saves(q.life, q.snap, kv.flow)
    BY DEF SavePair
  <1>5. LifeTyped(run[p].life)
    BY <1>3, StoredLife
  <1>6. run[p].snap \in Snap
    BY <1>3, StoredSnap
  <1>7. Follows(q, run[p].life, run[p].snap)
    BY <1>3, <1>5, <1>6, OutcomesFollow
  <1> QED
    BY <1>3, <1>4, <1>7 DEF Saves

LEMMA SavePairKeeps == ASSUME Inv, NEW p \in Procs, SavePair(p) PROVE Inv'
  <1> DEFINE snap == OrElse(kv.snap, EmptySnap)
             life == OrElse(kv.life, EmptyLife)
  <1>1. PICK q : /\ Follows(q, life, snap)
                 /\ kv' = [life |-> q.life, snap |-> q.snap, flow |-> kv.flow]
                 /\ UNCHANGED <<pack, pulse, mixed>>
    BY SavedPair
  <1>2. pc[p] = "pair" /\ End(p) /\ Counted'
    BY <1>1, CountedStays DEF SavePair, At
  <1>3. Moved(p) /\ pc'[p] = "idle" /\ run'[p] = Idle
    BY <1>2, EndIs DEF Inv
  <1>4. snap \in Snap /\ (snap.flow = "Approved" => kv.flow = "DryRunOk")
    BY StoredSnap
  <1>5. ~mixed => Tied(life, snap)
    BY StoredTied
  <1> HIDE DEF snap, life
  <1>6. Sound(kv')
    <2>1. kv.flow \in {Missing, "DryRunOk"}
      BY DEF Inv, Typed, Sound, Rows
    <2> QED
      BY <1>1, <1>4, <2>1 DEF Sound, Rows, FlowRan, Follows
  <1>7. ~mixed => Agree(kv')
    BY <1>1, <1>5, MissingAssumption DEF Agree, Follows
  <1>8. pc[p] \notin Quiet
    BY <1>2 DEF Quiet, PulseLabels
  <1>9. Stands(p, pc'[p], run'[p]) /\ Read(pc'[p], run'[p], kv') /\ pc'[p] # "import"
    BY <1>3, IdleStands, QuietReads DEF Quiet
  <1>10. mixed' \/ (~mixed /\ Agree(kv'))
    BY <1>1, <1>7
  <1> QED
    BY <1>1, <1>2, <1>3, <1>6, <1>8, <1>9, <1>10, RowsWritten

LEMMA RefusePairKeeps == ASSUME Inv, NEW p \in Procs, RefusePair(p) PROVE Inv'
  <1>1. /\ End(p) /\ kv' = kv /\ pack' = pack /\ mixed' = mixed /\ Counted'
    BY CountedStays DEF RefusePair, At, Reads
  <1> QED
    BY <1>1, EndsQuietly

LEMMA FromGraphIs == ASSUME NEW g PROVE FromGraph(g).g = g
  BY DEF FromGraph

LEMMA SeedTyped ==
  ASSUME NEW snap, snap = Missing \/ snap \in Snap
  PROVE  SnapSeed(snap).g \in Graph
  <1>1. CASE snap = Missing
    BY <1>1, EmptyGraphTyped DEF SnapSeed, NoActions
  <1>2. CASE snap # Missing
    <2> DEFINE errands == {t \in Tasks : snap.physical[t] \in {"Open", "Claimed"}}
               gates   == list_pending(snap) \ errands
               gate    == [t \in Tasks |-> CASE t \in errands -> "Physical"
                                             [] t \in gates \cap AuthKinds -> "Auth"
                                             [] OTHER -> "None"]
               dur     == [t \in Tasks |-> duration_heuristic(IF t \in errands
                                                              THEN BodyRow ELSE GateRow)]
    <2>1. SnapSeed(snap).g = [nodes |-> errands \cup gates, gate |-> gate,
                              deps |-> EmptyGraph.deps, dur |-> dur, due |-> {}]
      BY <1>2 DEF SnapSeed, FromSnapshot
    <2>2. errands \cup gates \in SUBSET Tasks
      BY DEF list_pending
    <2>3. gate \in [Tasks -> GateKind]
      BY DEF GateKind
    <2>4. dur \in [Tasks -> Nat \ {0}]
      <3>1. duration_heuristic(BodyRow) = 12 /\ duration_heuristic(GateRow) = 14
        BY DEF duration_heuristic, BodyRow, GateRow
      <3> QED
        BY <3>1
    <2>5. EmptyGraph.deps \in [Tasks -> SUBSET Tasks]
      BY DEF EmptyGraph
    <2> HIDE DEF errands, gates, gate, dur
    <2> QED
      BY <2>1, <2>2, <2>3, <2>4, <2>5 DEF Graph
  <1> QED
    BY <1>1, <1>2

LEMMA BeginKeeps ==
  ASSUME Inv, NEW p \in Procs, NEW c \in Calls[p], Begin(p, c)
  PROVE  Inv'
  <1> DEFINE a == IF c.op = "turn" /\ c.g # Missing THEN FromGraph(c.g) ELSE NoActions
             l == FirstStep(c)
  <1>1. /\ pc[p] = "idle" /\ Goto(p, l)
        /\ run' = [run EXCEPT ![p] = Started(c, a, Missing)]
        /\ kv' = kv /\ pack' = pack /\ mixed' = mixed
    BY DEF Begin
  <1>2. DOMAIN pc' = Procs /\ pc'[p] = l /\ \A q \in Procs : q # p => pc'[q] = pc[q]
    BY <1>1, GotoIs DEF Inv
  <1>3. /\ DOMAIN run' = Procs /\ run'[p] = Started(c, a, Missing)
        /\ \A q \in Procs : q # p => run'[q] = run[q]
    BY <1>1 DEF Inv, Control
  <1>4. run'[p].c = c /\ run'[p].a = a
    BY <1>3, StartedIs
  <1>5. Counted'
    <2>1. /\ mixed \in BOOLEAN /\ calls \in 0..MaxCalls /\ deaths \in 0..MaxDeaths
      BY DEF Inv, Counted
    <2>2. calls' \in 0..MaxCalls
      <3>1. CASE c.op = "pulse"
        BY <2>1, <3>1 DEF Begin
      <3>2. CASE c.op # "pulse"
        <4>1. calls < MaxCalls /\ calls' = calls + 1
          BY <3>2 DEF Begin
        <4> QED
          BY <2>1, <4>1, OpsBoundsAssumption
      <3> QED
        BY <3>1, <3>2
    <2>3. deaths' = deaths
      BY DEF Begin
    <2> QED
      BY <1>1, <2>1, <2>2, <2>3 DEF Counted
  <1>6. \/ c.op \in RuntimeOps /\ l = "life"
        \/ c.op = "turn" /\ l \in {"ensure", "seed"}
        \/ c.op = "pulse" /\ l = "seed"
        \/ c.op = "cycle" /\ l = "flow"
        \/ c.op = "backup" /\ l = "export"
        \/ c.op = "restore" /\ l = "unpack"
    <2>1. c.op \in RuntimeOps \cup {"turn", "pulse", "cycle", "backup", "restore"}
      BY OpsCallsAssumption DEF RuntimeOps
    <2> QED
      BY <2>1 DEF FirstStep, RuntimeOps
  <1>7. l = "ensure" => a.g \in Graph
    <2>1. SUFFICES ASSUME l = "ensure" PROVE a.g \in Graph
      OBVIOUS
    <2>2. c.op = "turn"
      BY <1>6, <2>1 DEF RuntimeOps
    <2>3. c.g # Missing
      BY <2>1, <2>2 DEF FirstStep
    <2>4. c.g \in Graph
      BY <2>2, <2>3, OpsCallsAssumption, OpsFixturesAssumption
    <2> QED
      BY <2>2, <2>3, <2>4, FromGraphIs
  <1> HIDE DEF a, l
  <1>8. Stands(p, pc'[p], run'[p])
    BY <1>2, <1>4, <1>6
       DEF Stands, RuntimeOps, Quiet, PulseLabels, TurnLabels, FlowLabels
  <1>9. Read(pc'[p], run'[p], kv) /\ pc'[p] # "import"
    BY <1>2, <1>4, <1>6, <1>7 DEF Read, TurnLabels
  <1>10. Moved(p)
    BY <1>2, <1>3 DEF Moved
  <1> QED
    BY <1>1, <1>5, <1>8, <1>9, <1>10, RowsKept

LEMMA DieKeeps == ASSUME Inv, NEW p \in Procs, Die(p) PROVE Inv'
  <1>1. /\ End(p) /\ kv' = kv /\ pack' = pack /\ mixed' = mixed
        /\ deaths < MaxDeaths /\ deaths' = deaths + 1 /\ calls' = calls
    BY DEF Die
  <1>2. Counted'
    BY <1>1, OpsBoundsAssumption DEF Inv, Counted
  <1> QED
    BY <1>1, <1>2, EndsQuietly

LEMMA SeedFromLifeKeeps == ASSUME Inv, NEW p \in Procs, SeedFromLife(p) PROVE Inv'
  <1>1. /\ pc[p] = "seed" /\ kv' = kv /\ pack' = pack /\ mixed' = mixed /\ Counted'
    BY CountedStays DEF SeedFromLife, At, Reads
  <1>2. Stands(p, pc[p], run[p])
    BY AtLabel
  <1>3. CASE HasTasks(kv.life)
    <2> DEFINE l == IF run[p].c.op = "turn" THEN "ensure" ELSE "pulse_snap"
    <2>1. Gets(p, "a", FromGraph(kv.life.g)) /\ Goto(p, l)
      BY <1>3 DEF SeedFromLife
    <2>2. Moved(p) /\ pc'[p] = l /\ run'[p].a = FromGraph(kv.life.g) /\ run'[p].c = run[p].c
      BY <2>1, GetsA, AtLabel
    <2>3. run'[p].a.g \in Graph
      BY <1>3, <2>2, FromGraphIs DEF HasTasks, Inv, Typed, Sound, Rows, IsLife
    <2>4. Stands(p, pc'[p], run'[p])
      BY <1>1, <1>2, <2>2 DEF Stands, Quiet, PulseLabels, TurnLabels, FlowLabels
    <2>5. Read(pc'[p], run'[p], kv) /\ pc'[p] # "import"
      BY <2>2, <2>3 DEF Read, TurnLabels
    <2> QED
      BY <1>1, <2>2, <2>4, <2>5, RowsKept
  <1>4. CASE ~HasTasks(kv.life)
    <2>1. Goto(p, "seed_snap") /\ run' = run
      BY <1>4 DEF SeedFromLife
    <2>2. Moved(p) /\ pc'[p] = "seed_snap" /\ run'[p] = run[p]
      BY <2>1, StaysAt, AtLabel
    <2>3. Stands(p, pc'[p], run'[p])
      BY <1>1, <1>2, <2>2 DEF Stands, Quiet, PulseLabels, TurnLabels, FlowLabels
    <2>4. Read(pc'[p], run'[p], kv) /\ pc'[p] # "import"
      BY <2>2, QuietReads DEF Quiet
    <2> QED
      BY <1>1, <2>2, <2>3, <2>4, RowsKept
  <1> QED
    BY <1>3, <1>4

LEMMA SeedFromSnapshotKeeps == ASSUME Inv, NEW p \in Procs, SeedFromSnapshot(p) PROVE Inv'
  <1>1. /\ pc[p] = "seed_snap" /\ kv' = kv /\ pack' = pack /\ mixed' = mixed /\ Counted'
    BY CountedStays DEF SeedFromSnapshot, At, Reads
  <1>2. Stands(p, pc[p], run[p])
    BY AtLabel
  <1> DEFINE a == SnapSeed(kv.snap)
             l == IF run[p].c.op = "turn" THEN "ensure" ELSE "pulse_snap"
  <1>3. CASE End(p)
    BY <1>1, <1>3, EndsQuietly
  <1>4. CASE Gets(p, "a", a) /\ Goto(p, l)
    <2>1. a.g \in Graph
      <3>1. kv.snap = Missing \/ kv.snap \in Snap
        BY DEF Inv, Typed, Sound, Rows
      <3> QED
        BY <3>1, SeedTyped
    <2> HIDE DEF a
    <2>2. Moved(p) /\ pc'[p] = l /\ run'[p].a = a /\ run'[p].c = run[p].c
      BY <1>4, GetsA, AtLabel
    <2>3. Stands(p, pc'[p], run'[p])
      BY <1>1, <1>2, <2>2 DEF Stands, Quiet, PulseLabels, TurnLabels, FlowLabels
    <2>4. Read(pc'[p], run'[p], kv) /\ pc'[p] # "import"
      BY <2>1, <2>2 DEF Read, TurnLabels
    <2> QED
      BY <1>1, <2>2, <2>3, <2>4, RowsKept
  <1> QED
    BY <1>3, <1>4 DEF SeedFromSnapshot

LEMMA EnsureReadKeeps == ASSUME Inv, NEW p \in Procs, EnsureRead(p) PROVE Inv'
  <1>1. /\ pc[p] = "ensure" /\ kv' = kv /\ pack' = pack /\ mixed' = mixed /\ Counted'
    BY CountedStays DEF EnsureRead, At, Reads
  <1>2. Goto(p, "ensure_save") /\ Gets(p, "snap", OrElse(kv.snap, EmptySnap))
    BY DEF EnsureRead
  <1>3. /\ Moved(p) /\ pc'[p] = "ensure_save"
        /\ run'[p].snap = OrElse(kv.snap, EmptySnap) /\ run'[p].c = run[p].c
        /\ run'[p].a = run[p].a
    BY <1>2, GetsSnap, AtLabel
  <1>4. Stands(p, pc[p], run[p]) /\ Read(pc[p], run[p], kv)
    BY AtLabel
  <1>5. Stands(p, pc'[p], run'[p])
    BY <1>1, <1>3, <1>4 DEF Stands, Quiet, PulseLabels, TurnLabels, FlowLabels
  <1>6. Read(pc'[p], run'[p], kv)
    BY <1>1, <1>3, <1>4 DEF Read, TurnLabels
  <1> QED
    BY <1>1, <1>3, <1>5, <1>6, RowsKept

LEMMA EnsureSaveKeeps == ASSUME Inv, NEW p \in Procs, EnsureSave(p) PROVE Inv'
  <1> DEFINE snap == OrElse(kv.snap, EmptySnap)
             new  == Project(run[p].a, snap)
  <1>1. pc[p] = "ensure_save" /\ Goto(p, "focus") /\ run' = run
    BY DEF EnsureSave, At
  <1>2. Stands(p, pc[p], run[p]) /\ Read(pc[p], run[p], kv)
    BY AtLabel
  <1>3. run[p].snap = snap
    BY <1>1, <1>2 DEF Read
  <1>4. /\ kv' = [life |-> kv.life, snap |-> new, flow |-> kv.flow]
        /\ pack' = pack /\ mixed' = mixed /\ Counted'
    BY <1>3, CountedStays DEF EnsureSave, Saves, At
  <1>5. snap \in Snap /\ (snap.flow = "Approved" => kv.flow = "DryRunOk")
    BY StoredSnap
  <1>6. ~mixed => Tied(OrElse(kv.life, EmptyLife), snap)
    BY StoredTied
  <1> HIDE DEF snap
  <1>7. /\ new \in Snap /\ new.flow = snap.flow
        /\ \A life : life.g \in Graph /\ Tied(life, snap) => Tied(life, new)
    BY <1>5, ProjectKeeps
  <1> HIDE DEF new
  <1>8. /\ kv.flow \in {Missing, "DryRunOk"}
        /\ kv.life = Missing \/ IsLife(kv.life)
    BY DEF Inv, Typed, Sound, Rows
  <1>9. Sound(kv')
    BY <1>4, <1>5, <1>7, <1>8 DEF Sound, Rows, FlowRan
  <1>10. ~mixed => Agree(kv')
    <2>1. SUFFICES ASSUME ~mixed, kv.life # Missing PROVE Tied(kv.life, new)
      BY <1>4, <1>7, MissingAssumption DEF Agree
    <2>2. OrElse(kv.life, EmptyLife) = kv.life /\ kv.life.g \in Graph
      BY <1>8, <2>1 DEF OrElse, IsLife
    <2> QED
      BY <1>6, <1>7, <2>1, <2>2
  <1>11. Moved(p) /\ pc'[p] = "focus" /\ run'[p] = run[p]
    BY <1>1, StaysAt, AtLabel
  <1>12. pc[p] \notin Quiet
    BY <1>1 DEF Quiet, PulseLabels
  <1>13. Stands(p, pc'[p], run'[p])
    BY <1>1, <1>2, <1>11 DEF Stands, Quiet, PulseLabels, TurnLabels, FlowLabels
  <1>14. Read(pc'[p], run'[p], kv') /\ pc'[p] # "import"
    BY <1>1, <1>2, <1>11 DEF Read, TurnLabels
  <1>15. mixed' \/ (~mixed /\ Agree(kv'))
    BY <1>4, <1>10
  <1> QED
    BY <1>4, <1>9, <1>11, <1>12, <1>13, <1>14, <1>15, RowsWritten

LEMMA FocusKeeps == ASSUME Inv, NEW p \in Procs, Focus(p) PROVE Inv'
  <1>1. /\ pc[p] = "focus" /\ kv' = kv /\ pack' = pack /\ mixed' = mixed /\ Counted'
    BY CountedStays DEF Focus, At, Reads
  <1>2. CASE End(p)
    BY <1>1, <1>2, EndsQuietly
  <1>3. CASE kv.life = Missing /\ Goto(p, "turn_pair") /\ run' = run
    <2>1. Moved(p) /\ pc'[p] = "turn_pair" /\ run'[p] = run[p]
      BY <1>3, StaysAt, AtLabel
    <2>2. Stands(p, pc[p], run[p]) /\ Read(pc[p], run[p], kv)
      BY AtLabel
    <2>3. Stands(p, pc'[p], run'[p])
      BY <1>1, <2>1, <2>2 DEF Stands, Quiet, PulseLabels, TurnLabels, FlowLabels
    <2>4. Read(pc'[p], run'[p], kv) /\ pc'[p] # "import"
      BY <1>1, <1>3, <2>1, <2>2 DEF Read, TurnLabels
    <2> QED
      BY <1>1, <2>1, <2>3, <2>4, RowsKept
  <1> QED
    BY <1>2, <1>3 DEF Focus

\* A process that writes the rows and ends.
LEMMA WritesAndEnds ==
  ASSUME Inv, NEW p \in Procs, pc[p] \notin Quiet, End(p), pack' = pack, Counted',
         Sound(kv'), mixed' \/ (~mixed /\ Agree(kv'))
  PROVE  Inv'
  <1>1. Moved(p) /\ pc'[p] = "idle" /\ run'[p] = Idle
    BY EndIs DEF Inv
  <1>2. Stands(p, pc'[p], run'[p]) /\ Read(pc'[p], run'[p], kv') /\ pc'[p] # "import"
    BY <1>1, IdleStands, QuietReads DEF Quiet
  <1> QED
    BY <1>1, <1>2, RowsWritten

LEMMA TurnPairKeeps == ASSUME Inv, NEW p \in Procs, TurnPair(p) PROVE Inv'
  <1> DEFINE q == LoadPair(run[p].a.g, EmptySnap)
  <1>1. /\ pc[p] = "turn_pair" /\ End(p)
        /\ kv' = [life |-> q.life, snap |-> q.snap, flow |-> kv.flow]
        /\ pack' = pack /\ mixed' = mixed /\ Counted'
    BY CountedStays DEF TurnPair, At, Saves
  <1>2. run[p].a.g \in Graph
    BY <1>1, AtLabel DEF Read, TurnLabels
  <1>3. Follows(q, EmptyLife, EmptySnap) /\ Tied(q.life, q.snap)
    BY <1>2, EmptySnapTyped, LoadPairFollows
  <1> HIDE DEF q
  <1>4. Sound(kv')
    <2>1. kv.flow \in {Missing, "DryRunOk"}
      BY DEF Inv, Typed, Sound, Rows
    <2> QED
      BY <1>1, <1>3, <2>1, EmptySnapTyped DEF Sound, Rows, FlowRan, Follows, Absent
  <1>5. Agree(kv')
    BY <1>1, <1>3, MissingAssumption DEF Agree, Follows
  <1>6. pc[p] \notin Quiet
    BY <1>1 DEF Quiet, PulseLabels
  <1>7. mixed' \/ (~mixed /\ Agree(kv'))
    BY <1>1, <1>5 DEF Inv, Counted
  <1> QED
    BY <1>1, <1>4, <1>6, <1>7, WritesAndEnds

-----------------------------------------------------------------------------
(* digital-flow cycle *)

\* A cycle that succeeds has run the dry run, whatever the flow was before.
LEMMA CycleRuns == ASSUME NEW f PROVE run_cycle(f) \in {Missing, "DryRunOk"}
  <1> DEFINE d == decide(activate(f), "approve")
  <1>1. d \in {Missing, "Approved"}
    BY DEF decide
  <1>2. run_cycle(f) = execute_dry_run(d)
    BY DEF run_cycle
  <1> HIDE DEF d
  <1> QED
    BY <1>1, <1>2 DEF execute_dry_run

LEMMA ReadFlowKeeps == ASSUME Inv, NEW p \in Procs, ReadFlow(p) PROVE Inv'
  <1> DEFINE f == run_cycle(OrElse(kv.flow, bill_pay))
  <1>1. /\ pc[p] = "flow" /\ kv' = kv /\ pack' = pack /\ mixed' = mixed /\ Counted'
    BY CountedStays DEF ReadFlow, At, Reads
  <1>2. f \in {Missing, "DryRunOk"}
    BY CycleRuns
  <1>3. CASE f = Missing
    <2>1. End(p)
      BY <1>3 DEF ReadFlow
    <2> QED
      BY <1>1, <2>1, EndsQuietly
  <1>4. CASE f # Missing
    <2>1. Gets(p, "flow", f) /\ Goto(p, "flow_save")
      BY <1>4 DEF ReadFlow
    <2> HIDE DEF f
    <2>2. Moved(p) /\ pc'[p] = "flow_save" /\ run'[p].flow = f /\ run'[p].c = run[p].c
      BY <2>1, GetsFlow, AtLabel
    <2>3. Stands(p, pc[p], run[p])
      BY AtLabel
    <2>4. Stands(p, pc'[p], run'[p])
      BY <1>1, <2>2, <2>3 DEF Stands, Quiet, PulseLabels, TurnLabels, FlowLabels
    <2>5. Read(pc'[p], run'[p], kv) /\ pc'[p] # "import"
      BY <1>2, <1>4, <2>2 DEF Read, TurnLabels
    <2> QED
      BY <1>1, <2>2, <2>4, <2>5, RowsKept
  <1> QED
    BY <1>3, <1>4

LEMMA SaveFlowKeeps == ASSUME Inv, NEW p \in Procs, SaveFlow(p) PROVE Inv'
  <1>1. /\ pc[p] = "flow_save" /\ Goto(p, "flow_snap") /\ run' = run
        /\ kv' = [life |-> kv.life, snap |-> kv.snap, flow |-> run[p].flow]
        /\ pack' = pack /\ mixed' = mixed /\ Counted'
    BY CountedStays DEF SaveFlow, At, Saves
  <1>2. Stands(p, pc[p], run[p]) /\ Read(pc[p], run[p], kv)
    BY AtLabel
  <1>3. run[p].flow = "DryRunOk"
    BY <1>1, <1>2 DEF Read
  <1>4. Moved(p) /\ pc'[p] = "flow_snap" /\ run'[p] = run[p]
    BY <1>1, StaysAt, AtLabel
  <1>5. Stands(p, pc'[p], run'[p])
    BY <1>1, <1>2, <1>4 DEF Stands, Quiet, PulseLabels, TurnLabels, FlowLabels
  <1>6. Read(pc'[p], run'[p], kv') /\ pc'[p] # "import"
    BY <1>1, <1>3, <1>4 DEF Read, TurnLabels
  <1>7. Sound(kv')
    BY <1>1, <1>3 DEF Inv, Typed, Sound, Rows, FlowRan
  <1>8. mixed' \/ (~mixed /\ Agree(kv'))
    <2>1. kv'.life = kv.life /\ kv'.snap = kv.snap
      BY <1>1
    <2>2. Agree(kv) => Agree(kv')
      BY <2>1 DEF Agree
    <2>3. mixed \/ (~mixed /\ Agree(kv))
      BY DEF Inv, Agreed
    <2> QED
      BY <1>1, <2>2, <2>3
  <1>9. pc[p] \notin Quiet
    BY <1>1 DEF Quiet, PulseLabels
  <1> QED
    BY <1>1, <1>4, <1>5, <1>6, <1>7, <1>8, <1>9, RowsWritten

LEMMA FlowReadSnapshotKeeps == ASSUME Inv, NEW p \in Procs, FlowReadSnapshot(p) PROVE Inv'
  <1>1. /\ pc[p] = "flow_snap" /\ kv' = kv /\ pack' = pack /\ mixed' = mixed /\ Counted'
    BY CountedStays DEF FlowReadSnapshot, At, Reads
  <1>2. Goto(p, "flow_row") /\ Gets(p, "snap", OrElse(kv.snap, EmptySnap))
    BY DEF FlowReadSnapshot
  <1>3. /\ Moved(p) /\ pc'[p] = "flow_row"
        /\ run'[p].snap = OrElse(kv.snap, EmptySnap) /\ run'[p].c = run[p].c
        /\ run'[p].flow = run[p].flow
    BY <1>2, GetsSnap, AtLabel
  <1>4. Stands(p, pc[p], run[p]) /\ Read(pc[p], run[p], kv)
    BY AtLabel
  <1>5. Stands(p, pc'[p], run'[p])
    BY <1>1, <1>3, <1>4 DEF Stands, Quiet, PulseLabels, TurnLabels, FlowLabels
  <1>6. Read(pc'[p], run'[p], kv) /\ pc'[p] # "import"
    BY <1>1, <1>3, <1>4 DEF Read, TurnLabels
  <1> QED
    BY <1>1, <1>3, <1>5, <1>6, RowsKept

LEMMA SaveFlowRowKeeps == ASSUME Inv, NEW p \in Procs, SaveFlowRow(p) PROVE Inv'
  <1> DEFINE snap == OrElse(kv.snap, EmptySnap)
             new  == [pending |-> snap.pending, physical |-> snap.physical,
                      flow |-> FlowApproval(run[p].flow)]
  <1>1. /\ pc[p] = "flow_row" /\ End(p)
        /\ pack' = pack /\ mixed' = mixed /\ Counted'
    BY CountedStays DEF SaveFlowRow, At, Saves
  <1>2. Read(pc[p], run[p], kv)
    BY AtLabel
  <1>3. run[p].snap = snap /\ run[p].flow = "DryRunOk" /\ kv.flow = "DryRunOk"
    BY <1>1, <1>2 DEF Read
  <1>4. kv' = [life |-> kv.life, snap |-> new, flow |-> kv.flow]
    BY <1>3 DEF SaveFlowRow, Saves
  <1>5. snap \in Snap
    BY StoredSnap
  <1>6. FlowApproval(run[p].flow) = "Approved"
    BY <1>3 DEF FlowApproval
  <1>7. ~mixed => Tied(OrElse(kv.life, EmptyLife), snap)
    BY StoredTied
  <1> HIDE DEF snap
  <1>8. new \in Snap /\ new.pending = snap.pending
    BY <1>5, <1>6 DEF Snap, Resolved
  <1> HIDE DEF new
  <1>9. Sound(kv')
    BY <1>3, <1>4, <1>8 DEF Inv, Typed, Sound, Rows, FlowRan
  <1>10. ~mixed => Agree(kv')
    <2>1. SUFFICES ASSUME ~mixed, kv.life # Missing PROVE Tied(kv.life, new)
      BY <1>4, <1>8, MissingAssumption DEF Agree
    <2>2. OrElse(kv.life, EmptyLife) = kv.life
      BY <2>1 DEF OrElse
    <2> QED
      BY <1>7, <1>8, <2>1, <2>2 DEF Tied
  <1>11. pc[p] \notin Quiet
    BY <1>1 DEF Quiet, PulseLabels
  <1>12. mixed' \/ (~mixed /\ Agree(kv'))
    BY <1>1, <1>10
  <1> QED
    BY <1>1, <1>9, <1>11, <1>12, WritesAndEnds

-----------------------------------------------------------------------------
(* backup, restore-apply *)

LEMMA ExportKeeps == ASSUME Inv, NEW p \in Procs, Export(p) PROVE Inv'
  <1>1. /\ pc[p] = "export" /\ kv' = kv /\ pack' = pack /\ mixed' = mixed /\ Counted'
    BY CountedStays DEF Export, At, Reads
  <1>2. Goto(p, "pack_open") /\ Gets(p, "bundle", seal(run[p].c.key, kv))
    BY DEF Export
  <1>3. /\ Moved(p) /\ pc'[p] = "pack_open"
        /\ run'[p].bundle = seal(run[p].c.key, kv) /\ run'[p].c = run[p].c
    BY <1>2, GetsBundle, AtLabel
  <1>4. run'[p].bundle.rows = kv
    BY <1>3 DEF seal
  <1>5. Stands(p, pc[p], run[p])
    BY AtLabel
  <1>6. Stands(p, pc'[p], run'[p])
    BY <1>1, <1>3, <1>5 DEF Stands, Quiet, PulseLabels, TurnLabels, FlowLabels
  <1>7. Read(pc'[p], run'[p], kv) /\ pc'[p] # "import"
    BY <1>3, <1>4 DEF Read, TurnLabels
  <1> QED
    BY <1>1, <1>3, <1>6, <1>7, RowsKept

LEMMA OpenPackKeeps == ASSUME Inv, NEW p \in Procs, OpenPack(p) PROVE Inv'
  <1>1. /\ pc[p] = "pack_open" /\ Goto(p, "pack_write") /\ run' = run
        /\ pack' = Torn /\ kv' = kv /\ mixed' = mixed /\ Counted'
    BY CountedStays DEF OpenPack, At
  <1>2. Stands(p, pc[p], run[p]) /\ Read(pc[p], run[p], kv)
    BY AtLabel
  <1>3. Moved(p) /\ pc'[p] = "pack_write" /\ run'[p] = run[p]
    BY <1>1, StaysAt, AtLabel
  <1>4. Stands(p, pc'[p], run'[p])
    BY <1>1, <1>2, <1>3 DEF Stands, Quiet, PulseLabels, TurnLabels, FlowLabels
  <1>5. Read(pc'[p], run'[p], kv) /\ pc'[p] # "import"
    BY <1>1, <1>2, <1>3 DEF Read, TurnLabels
  <1> QED
    BY <1>1, <1>3, <1>4, <1>5, PackWritten

LEMMA WritePackKeeps == ASSUME Inv, NEW p \in Procs, WritePack(p) PROVE Inv'
  <1>1. /\ pc[p] = "pack_write" /\ End(p)
        /\ pack' = run[p].bundle /\ kv' = kv /\ mixed' = mixed /\ Counted'
    BY CountedStays DEF WritePack, At
  <1>2. run[p].bundle.rows = kv
    BY <1>1, AtLabel DEF Read
  <1>3. pack'.rows = kv
    BY <1>1, <1>2
  <1>4. Sound(kv) /\ (mixed \/ Agree(kv))
    BY DEF Inv, Typed, Agreed
  <1>5. Moved(p) /\ pc'[p] = "idle" /\ run'[p] = Idle
    BY <1>1, EndIs DEF Inv
  <1>6. Stands(p, pc'[p], run'[p]) /\ Read(pc'[p], run'[p], kv) /\ pc'[p] # "import"
    BY <1>5, IdleStands, QuietReads DEF Quiet
  <1>7. Sound(pack'.rows)
    BY <1>3, <1>4
  <1>8. mixed \/ Agree(pack'.rows)
    BY <1>3, <1>4
  <1> QED
    BY <1>1, <1>5, <1>6, <1>7, <1>8, PackWritten

LEMMA UnpackKeeps == ASSUME Inv, NEW p \in Procs, Unpack(p) PROVE Inv'
  <1>1. /\ pc[p] = "unpack" /\ kv' = kv /\ pack' = pack /\ mixed' = mixed /\ Counted'
    BY CountedStays DEF Unpack, At, Reads
  <1>2. CASE End(p)
    BY <1>1, <1>2, EndsQuietly
  <1>3. CASE restore_apply(pack, run[p].c.key) /\ Gets(p, "bundle", pack) /\ Goto(p, "import")
    <2>1. pack \notin {Missing, Torn}
      BY <1>3 DEF restore_apply, Legible
    <2>2. Moved(p) /\ pc'[p] = "import" /\ run'[p].bundle = pack /\ run'[p].c = run[p].c
      BY <1>3, GetsBundle, AtLabel
    <2>3. Sound(pack.rows)
      BY <2>1 DEF Inv, Typed
    <2>4. mixed \/ Agree(pack.rows)
      BY <2>1 DEF Inv, Agreed
    <2>5. Stands(p, pc[p], run[p])
      BY AtLabel
    <2>6. Stands(p, pc'[p], run'[p])
      BY <1>1, <2>2, <2>5 DEF Stands, Quiet, PulseLabels, TurnLabels, FlowLabels
    <2>7. Read(pc'[p], run'[p], kv)
      BY <2>2 DEF Read, TurnLabels
    <2>8. Sound(run'[p].bundle.rows)
      BY <2>2, <2>3
    <2>9. mixed \/ Agree(run'[p].bundle.rows)
      BY <2>2, <2>4
    <2> QED
      BY <1>1, <2>2, <2>6, <2>7, <2>8, <2>9, RowsKept
  <1> QED
    BY <1>2, <1>3 DEF Unpack

\* The rows of a pack go in together; only a pack without a life state can part the pair,
\* and then it is counted as mixed.
LEMMA ImportKeeps == ASSUME Inv, NEW p \in Procs, Import(p) PROVE Inv'
  <1> DEFINE rows == run[p].bundle.rows
  <1>1. /\ pc[p] = "import" /\ End(p) /\ pack' = pack
        /\ kv' = [life |-> OrElse(rows.life, kv.life), snap |-> OrElse(rows.snap, kv.snap),
                  flow |-> OrElse(rows.flow, kv.flow)]
    BY DEF Import, At, import_bundle
  <1>2. mixed' = \/ mixed
                 \/ rows.life = Missing /\ kv.life # Missing /\ rows.snap # Missing
    BY DEF Import
  <1>3. Counted'
    <2>1. calls' = calls /\ deaths' = deaths
      BY DEF Import, At
    <2>2. mixed' \in BOOLEAN
      BY <1>2
    <2> QED
      BY <2>1, <2>2 DEF Inv, Counted
  <1>4. Sound(rows) /\ Sound(kv)
    BY <1>1 DEF Inv, Typed
  <1>5. mixed \/ (Agree(rows) /\ Agree(kv))
    BY <1>1 DEF Inv, Agreed
  <1> HIDE DEF rows
  <1>6. Sound(kv')
    <2>1. Rows(kv')
      BY <1>1, <1>4 DEF Sound, Rows, OrElse
    <2>2. FlowRan(kv')
      BY <1>1, <1>4, MissingAssumption DEF Sound, Rows, FlowRan, OrElse
    <2> QED
      BY <2>1, <2>2 DEF Sound
  <1>7. ASSUME ~mixed' PROVE ~mixed /\ Agree(kv')
    <2>1. ~mixed
      BY <1>2, <1>7
    <2>2. kv.life = Missing \/ rows.life # Missing \/ rows.snap = Missing
      BY <1>2, <1>7
    <2>3. Agree(rows) /\ Agree(kv)
      BY <1>5, <2>1
    <2>4. Agree(kv')
      <3>1. ASSUME rows.life # Missing PROVE Agree(kv')
        <4>1. kv'.life = rows.life /\ kv'.snap = OrElse(rows.snap, kv.snap)
          BY <1>1, <3>1 DEF OrElse
        <4> QED
          BY <2>3, <3>1, <4>1 DEF Agree, OrElse
      <3>2. ASSUME rows.life = Missing, kv.life = Missing PROVE Agree(kv')
        BY <1>1, <3>2 DEF Agree, OrElse
      <3>3. ASSUME rows.life = Missing, rows.snap = Missing PROVE Agree(kv')
        <4>1. kv'.life = kv.life /\ kv'.snap = kv.snap
          BY <1>1, <3>3 DEF OrElse
        <4> QED
          BY <2>3, <4>1 DEF Agree
      <3> QED
        BY <2>2, <3>1, <3>2, <3>3
    <2> QED
      BY <2>1, <2>4
  <1>8. pc[p] \notin Quiet
    BY <1>1 DEF Quiet, PulseLabels
  <1>9. mixed' \/ (~mixed /\ Agree(kv'))
    BY <1>7
  <1> QED
    BY <1>1, <1>3, <1>6, <1>8, <1>9, WritesAndEnds

-----------------------------------------------------------------------------
(* channel-pulse reconcile: it writes none of the rows *)

\* A reconciliation goes on from one quiet label to the next.
LEMMA PulseGoesOn ==
  ASSUME Inv, NEW p \in Procs, pc[p] # "idle", Moved(p), Counted',
         kv' = kv, pack' = pack, mixed' = mixed,
         pc'[p] \in PulseLabels, run'[p].c = run[p].c
  PROVE  Inv'
  <1>1. pc'[p] # "import" /\ pc'[p] \in Quiet
    BY DEF PulseLabels, Quiet
  <1>2. Stands(p, pc[p], run[p])
    BY AtLabel
  <1>3. Stands(p, pc'[p], run'[p])
    BY <1>2 DEF Stands, Quiet, PulseLabels, TurnLabels, FlowLabels
  <1>4. Read(pc'[p], run'[p], kv)
    BY <1>1, QuietReads
  <1> QED
    BY <1>1, <1>3, <1>4, RowsKept

LEMMA PulseSnapshotKeeps == ASSUME Inv, NEW p \in Procs, PulseSnapshot(p) PROVE Inv'
  <1>1. /\ pc[p] = "pulse_snap" /\ kv' = kv /\ pack' = pack /\ mixed' = mixed /\ Counted'
    BY CountedStays DEF PulseSnapshot, At, Reads
  <1>2. PICK v : Goto(p, "pulse_life") /\ Gets(p, "snap", v)
    BY DEF PulseSnapshot
  <1>3. Moved(p) /\ pc'[p] = "pulse_life" /\ run'[p].c = run[p].c
    BY <1>2, GetsSnap, AtLabel
  <1> QED
    BY <1>1, <1>3, PulseGoesOn DEF PulseLabels

LEMMA PulseLifeKeeps == ASSUME Inv, NEW p \in Procs, PulseLife(p) PROVE Inv'
  <1>1. /\ pc[p] = "pulse_life" /\ kv' = kv /\ pack' = pack /\ mixed' = mixed /\ Counted'
    BY CountedStays DEF PulseLife, At, Reads
  <1> DEFINE r == Started(run[p].c, NoActions, ChannelIr(run[p].a, run[p].snap, kv.life))
  <1>2. Goto(p, "pulse_diff") /\ run' = [run EXCEPT ![p] = r]
    BY DEF PulseLife
  <1>3. r.c = run[p].c
    BY StartedIs
  <1> HIDE DEF r
  <1>4. /\ DOMAIN pc' = Procs /\ pc'[p] = "pulse_diff"
        /\ \A q \in Procs : q # p => pc'[q] = pc[q]
    BY <1>2, GotoIs, AtLabel
  <1>5. /\ DOMAIN run' = Procs /\ run'[p] = r
        /\ \A q \in Procs : q # p => run'[q] = run[q]
    BY <1>2, AtLabel DEF Control
  <1>6. Moved(p) /\ run'[p].c = run[p].c
    BY <1>3, <1>4, <1>5 DEF Moved
  <1> QED
    BY <1>1, <1>4, <1>6, PulseGoesOn DEF PulseLabels

LEMMA PulseDiffKeeps == ASSUME Inv, NEW p \in Procs, PulseDiff(p) PROVE Inv'
  <1>1. /\ pc[p] = "pulse_diff" /\ kv' = kv /\ pack' = pack /\ mixed' = mixed /\ Counted'
    BY CountedStays DEF PulseDiff, At, Reads
  <1>2. CASE End(p)
    BY <1>1, <1>2, EndsQuietly
  <1>3. CASE Goto(p, "pulse_open") /\ run' = run
    <2>1. Moved(p) /\ pc'[p] = "pulse_open" /\ run'[p] = run[p]
      BY <1>3, StaysAt, AtLabel
    <2> QED
      BY <1>1, <2>1, PulseGoesOn DEF PulseLabels
  <1> QED
    BY <1>2, <1>3 DEF PulseDiff

LEMMA OpenPulseKeeps == ASSUME Inv, NEW p \in Procs, OpenPulse(p) PROVE Inv'
  <1>1. /\ pc[p] = "pulse_open" /\ kv' = kv /\ pack' = pack /\ mixed' = mixed /\ Counted'
    BY CountedStays DEF OpenPulse, At
  <1>2. Goto(p, "pulse_write") /\ run' = run
    BY DEF OpenPulse
  <1>3. Moved(p) /\ pc'[p] = "pulse_write" /\ run'[p] = run[p]
    BY <1>2, StaysAt, AtLabel
  <1> QED
    BY <1>1, <1>3, PulseGoesOn DEF PulseLabels

LEMMA WritePulseKeeps == ASSUME Inv, NEW p \in Procs, WritePulse(p) PROVE Inv'
  <1>1. /\ End(p) /\ kv' = kv /\ pack' = pack /\ mixed' = mixed /\ Counted'
    BY CountedStays DEF WritePulse, At
  <1> QED
    BY <1>1, EndsQuietly

-----------------------------------------------------------------------------
(* The theorems *)

LEMMA InitInv == Init => Inv
  <1> SUFFICES ASSUME Init PROVE Inv
    OBVIOUS
  <1>1. Control
    BY IdleStands DEF Init, Control
  <1>2. ReadNow
    <2>1. \A p \in Procs : pc[p] = "idle"
      BY DEF Init
    <2> QED
      BY <2>1, QuietReads DEF ReadNow, Quiet
  <1>3. Counted
    <2>1. mixed \in BOOLEAN
      BY DEF Init
    <2>2. calls \in 0..MaxCalls /\ deaths \in 0..MaxDeaths
      BY OpsBoundsAssumption DEF Init
    <2> QED
      BY <2>1, <2>2 DEF Counted
  <1>4. Typed
    BY OldStoresAssumption DEF Init, Typed, Sound
  <1>5. Agreed
    BY OldStoresAssumption DEF Init, Agreed
  <1> QED
    BY <1>1, <1>2, <1>3, <1>4, <1>5 DEF Inv

LEMMA StepKeeps == ASSUME Inv, NEW p \in Procs, Step(p) PROVE Inv'
  BY ReadLifeKeeps, ReadSnapshotKeeps, SavePairKeeps, RefusePairKeeps, SeedFromLifeKeeps,
     SeedFromSnapshotKeeps, EnsureReadKeeps, EnsureSaveKeeps, FocusKeeps, TurnPairKeeps,
     ReadFlowKeeps, SaveFlowKeeps, FlowReadSnapshotKeeps, SaveFlowRowKeeps, ExportKeeps,
     OpenPackKeeps, WritePackKeeps, UnpackKeeps, ImportKeeps, PulseSnapshotKeeps,
     PulseLifeKeeps, PulseDiffKeeps, OpenPulseKeeps, WritePulseKeeps, Zenon DEF Step

LEMMA NextInv == Inv /\ [Next]_vars => Inv'
  <1>1. ASSUME Inv, Next PROVE Inv'
    <2>1. PICK p \in Procs : Step(p) \/ Die(p) \/ \E c \in Calls[p] : Begin(p, c)
      BY <1>1 DEF Next
    <2> QED
      BY <1>1, <2>1, StepKeeps, DieKeeps, BeginKeeps
  <1>2. ASSUME Inv, UNCHANGED vars PROVE Inv'
    BY <1>2 DEF vars, Inv, Control, ReadNow, Counted, Typed, Agreed
  <1> QED
    BY <1>1, <1>2

\* Whatever the commands do, and wherever they stop, the inductive invariant holds.
THEOREM InvAlways == Spec => []Inv
  BY InitInv, NextInv, PTL DEF Spec

LEMMA InvTyped == Inv => TypeOK
  <1> SUFFICES ASSUME Inv PROVE TypeOK
    OBVIOUS
  <1>1. \A p \in Procs : pc[p] = "idle" <=> run[p] = Idle
    <2>1. \A p \in Procs : Stands(p, pc[p], run[p])
      BY DEF Inv, Control
    <2> QED
      BY <2>1, IdleIs DEF Stands
  <1> QED
    BY <1>1 DEF Inv, Typed, Sound, Counted, TypeOK

\* Types of what is stored: a life state always carries the critical path of its own graph
\* and statuses, and a stored flow has run its whole cycle (save_runtime_pair,
\* project_wait_snapshot, df_cycle, import_bundle).
THEOREM TypeCorrect == Spec => []TypeOK
  BY InvAlways, InvTyped, PTL

\* The stored life state and snapshot, and those in every pack, tell the same of every
\* approval, wherever a command stopped, unless a pack without a life state was restored.
THEOREM PairsAgree == Spec => []StoredPairAgrees
  <1>1. Inv => StoredPairAgrees
    BY DEF Inv, Agreed, StoredPairAgrees
  <1> QED
    BY <1>1, InvAlways, PTL

\* The snapshot never calls the bill approved before its dry run is stored.
THEOREM ApprovedBillsRan == Spec => []ApprovedFlowRan
  <1>1. Inv => ApprovedFlowRan
    BY DEF Inv, Typed, Sound, ApprovedFlowRan
  <1> QED
    BY <1>1, InvAlways, PTL

\* A step that does not restore a pack keeps the stored decisions.
KeepsStored == kv'.snap = kv.snap \/ KeepsDecided(kv.snap, kv'.snap)

LEMMA StepDecides ==
  ASSUME Inv, NEW p \in Procs, Step(p), pc[p] # "import", kv.life # Missing, kv.snap # Missing
  PROVE  KeepsStored
  <1>1. OrElse(kv.snap, EmptySnap) = kv.snap
    BY DEF OrElse
  <1>2. kv.snap \in Snap
    BY DEF Inv, Typed, Sound, Rows
  <1>3. Read(pc[p], run[p], kv)
    BY AtLabel
  <1>4. CASE SavePair(p)
    <2>1. PICK q : /\ Follows(q, OrElse(kv.life, EmptyLife), OrElse(kv.snap, EmptySnap))
                   /\ kv' = [life |-> q.life, snap |-> q.snap, flow |-> kv.flow]
      BY <1>4, SavedPair
    <2> QED
      BY <1>1, <2>1 DEF Follows, KeepsStored
  <1>5. CASE EnsureSave(p)
    <2>1. pc[p] = "ensure_save"
      BY <1>5 DEF EnsureSave, At
    <2>2. run[p].snap = kv.snap
      BY <1>1, <1>3, <2>1 DEF Read
    <2>3. kv'.snap = Project(run[p].a, kv.snap)
      BY <1>5, <2>2 DEF EnsureSave, Saves
    <2> QED
      BY <1>2, <2>3, ProjectKeeps DEF KeepsStored
  <1>6. CASE TurnPair(p)
    <2>1. pc[p] = "turn_pair"
      BY <1>6 DEF TurnPair, At
    <2> QED
      BY <1>3, <2>1 DEF Read
  <1>7. CASE SaveFlowRow(p)
    <2>1. pc[p] = "flow_row"
      BY <1>7 DEF SaveFlowRow, At
    <2>2. run[p].snap = kv.snap
      BY <1>1, <1>3, <2>1 DEF Read
    <2>3. kv'.snap.pending = kv.snap.pending
      BY <1>7, <2>2 DEF SaveFlowRow, Saves
    <2> QED
      BY <2>3 DEF KeepsStored, KeepsDecided
  <1>8. CASE SaveFlow(p)
    BY <1>8 DEF SaveFlow, Saves, KeepsStored
  <1>9. CASE Import(p)
    BY <1>9 DEF Import, At
  <1>10. CASE \/ ReadLife(p) \/ ReadSnapshot(p) \/ RefusePair(p)
              \/ SeedFromLife(p) \/ SeedFromSnapshot(p) \/ EnsureRead(p) \/ Focus(p)
              \/ ReadFlow(p) \/ FlowReadSnapshot(p) \/ Export(p) \/ OpenPack(p)
              \/ WritePack(p) \/ Unpack(p) \/ PulseSnapshot(p) \/ PulseLife(p)
              \/ PulseDiff(p) \/ OpenPulse(p) \/ WritePulse(p)
    <2>1. kv' = kv
      BY <1>10 DEF ReadLife, ReadSnapshot, RefusePair, SeedFromLife, SeedFromSnapshot,
                   EnsureRead, Focus, ReadFlow, FlowReadSnapshot, Export, OpenPack,
                   WritePack, Unpack, PulseSnapshot, PulseLife, PulseDiff, OpenPulse,
                   WritePulse, Reads
    <2> QED
      BY <2>1 DEF KeepsStored
  <1> QED
    BY <1>4, <1>5, <1>6, <1>7, <1>8, <1>9, <1>10, Zenon DEF Step

\* A decision on an approval is made once: a step over a stored pair keeps every row that
\* is approved or denied, unless a pack is being restored.
THEOREM DecisionsStay == Spec => DecidedStays
  <1> DEFINE Stays == kv.life # Missing /\ kv.snap # Missing
                        /\ ~(\E p \in Procs : pc[p] = "import") =>
                          \A t \in Tasks : kv.snap.pending[t] \in Resolved =>
                                             kv'.snap.pending[t] = kv.snap.pending[t]
  <1>1. ASSUME Inv, [Next]_vars PROVE [Stays]_vars
    <2>1. SUFFICES ASSUME Next, kv.life # Missing, kv.snap # Missing,
                          ~(\E p \in Procs : pc[p] = "import")
                   PROVE  KeepsStored
      BY <1>1 DEF KeepsStored, KeepsDecided
    <2>2. PICK p \in Procs : Step(p) \/ Die(p) \/ \E c \in Calls[p] : Begin(p, c)
      BY <2>1 DEF Next
    <2>3. CASE Step(p)
      BY <1>1, <2>1, <2>3, StepDecides
    <2>4. CASE Die(p) \/ \E c \in Calls[p] : Begin(p, c)
      BY <2>4 DEF Die, Begin, KeepsStored
    <2> QED
      BY <2>2, <2>3, <2>4
  <1> QED
    BY <1>1, InvAlways, PTL DEF Spec, DecidedStays
=============================================================================
