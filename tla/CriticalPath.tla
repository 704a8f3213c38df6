---------------------------- MODULE CriticalPath ----------------------------
(***************************************************************************)
(* The dependency graph G and the critical-path operator CP(G) of the      *)
(* kernel (graph.rs, critical_path.rs, life_state.rs) as operators on      *)
(*   g  - a graph: the record DepGraph::from_actions builds, and           *)
(*   st - the status of every task.                                        *)
(*                                                                         *)
(* Data abstraction.  Task ids are positive integers: the code orders ids  *)
(* as strings and uses nothing else of them.  A task's PERT expectation is *)
(* one positive integer g.dur[t]: duration_heuristic gives o = 0.7 l and   *)
(* p = 1.6 l, so the expectation is 1.05 l and only proportions matter.    *)
(* The realm is not kept: gate_for_action makes it physical exactly when   *)
(* the gate is Physical.  Monte Carlo, variance and the explain text are   *)
(* reporting and left out.                                                 *)
(***************************************************************************)
EXTENDS Integers, Sequences, FiniteSets

CONSTANT Tasks

ASSUME TasksAssumption == Tasks \subseteq Nat \ {0}

NoTask == 0

GateKind   == {"None", "Auth", "Physical"}
TaskStatus == {"Open", "Claimed", "Done", "Blocked"}

\* deps[t] may name tasks that are not nodes: upsert_node records those edges too.
\* due: the tasks whose deadline lies inside the 48 hour horizon.
Graph == [nodes : SUBSET Tasks,
          gate  : [Tasks -> GateKind],
          deps  : [Tasks -> SUBSET Tasks],
          dur   : [Tasks -> Nat \ {0}],
          due   : SUBSET Tasks]

EmptyGraph == [nodes |-> {},
               gate  |-> [t \in Tasks |-> "None"],
               deps  |-> [t \in Tasks |-> {}],
               dur   |-> [t \in Tasks |-> 1],
               due   |-> {}]

AllOpen == [t \in Tasks |-> "Open"]

-----------------------------------------------------------------------------
(* graph.rs *)

BodyKinds == {"physical_errand", "outdoor", "health_body"}

HighStakesKinds == {"job_application_submit", "finance_transfer", "external_email_send",
                    "calendar_mutate", "git_push_shared", "publish_private_data", "bill_pay"}

\* An action is [kind, realm, urgency, importance, depends_on, due].
gate_for_action(a) ==
    CASE a.realm = "physical" \/ a.kind \in BodyKinds -> "Physical"
      [] a.realm # "physical" /\ a.kind \in HighStakesKinds -> "Auth"
      [] OTHER -> "None"

\* In units of five minutes.
duration_heuristic(a) == 6 + a.urgency + a.importance

\* A task's edges, from whatever its action depends on.
upsert_node(g, t, a) ==
    [g EXCEPT !.nodes = @ \cup {t},
              !.gate[t] = gate_for_action(a),
              !.deps[t] = a.depends_on,
              !.dur[t] = duration_heuristic(a),
              !.due = IF a.due THEN @ \cup {t} ELSE @]

\* actions[t] is the action of task t; a graph without a topological order is refused by
\* whoever loads it.
from_actions(actions) ==
    LET g[S \in SUBSET DOMAIN actions] ==
          IF S = {} THEN EmptyGraph
          ELSE LET t == CHOOSE x \in S : TRUE IN upsert_node(g[S \ {t}], t, actions[t])
    IN  g[DOMAIN actions]

predecessors(g, t) == g.deps[t]

successors(g, t) == {s \in g.nodes : t \in g.deps[s]}

\* Kahn's algorithm succeeds: every set of nodes has one without a predecessor in it.
HasTopoOrder(g) ==
    \A S \in (SUBSET g.nodes) \ {{}} : \E t \in S : predecessors(g, t) \cap S = {}

fingerprint(g, st) ==
    [status |-> [t \in g.nodes |-> <<st[t], g.gate[t]>>],
     edges  |-> [t \in g.nodes |-> g.deps[t]]]

-----------------------------------------------------------------------------
(* compute_critical_path *)

Largest(S)  == CHOOSE x \in S : \A y \in S : y <= x
Smallest(S) == CHOOSE x \in S : \A y \in S : x <= y

\* Mutant: Done tasks keep their duration.
Remaining_ignoresDone(g, st, t) == g.dur[t]

\* Mutant: the cases are swapped.
Remaining_swapped(g, st, t) == IF st[t] = "Done" THEN g.dur[t] ELSE 0

\* Done tasks count as zero remaining; Blocked ones do not.
Remaining(g, st, t) == IF st[t] = "Done" THEN 0 ELSE g.dur[t]

\* A predecessor that is not a node finishes at 0.
EarliestFinish(g, st) ==
    LET ef[t \in g.nodes] ==
          Remaining(g, st, t)
            + Largest({0} \cup {ef[p] : p \in predecessors(g, t) \cap g.nodes})
    IN  ef

ProjectEnd(g, st) ==
    LET ef == EarliestFinish(g, st) IN Largest({0} \cup {ef[t] : t \in g.nodes})

\* Mutant: the latest finish is that of the least urgent successor.
LatestStart_maxOfSuccs(g, st) ==
    LET end == ProjectEnd(g, st)
        ls[t \in g.nodes] ==
          LET succs == successors(g, t)
          IN  (IF succs = {} THEN end ELSE Largest({ls[s] : s \in succs}))
                - Remaining(g, st, t)
    IN  ls

LatestStart(g, st) ==
    LET end == ProjectEnd(g, st)
        ls[t \in g.nodes] ==
          LET succs == successors(g, t)
          IN  (IF succs = {} THEN end ELSE Smallest({ls[s] : s \in succs}))
                - Remaining(g, st, t)
    IN  ls

EarliestStart(g, st) ==
    LET ef == EarliestFinish(g, st) IN [t \in g.nodes |-> ef[t] - Remaining(g, st, t)]

\* The tasks without slack (NodeTiming.on_critical_path).
CriticalTasks(g, st) ==
    LET es == EarliestStart(g, st)
        ls == LatestStart(g, st)
    IN  {t \in g.nodes : ls[t] = es[t]}

\* Mutant: the walk starts at the smallest critical source.
reconstruct_path_fromLeast(g, st) ==
    LET crit == CriticalTasks(g, st)
        ef   == EarliestFinish(g, st)
        walk[t \in g.nodes] ==
          LET nexts == successors(g, t) \cap crit
          IN  IF nexts = {} THEN <<t>> ELSE <<t>> \o walk[Smallest(nexts)]
        sources == {t \in crit : predecessors(g, t) = {}}
    IN  IF crit = {} THEN <<>> ELSE walk[Smallest(IF sources = {} THEN crit ELSE sources)]

\* Where a path starts: of the tasks S, the one that finishes last, the greatest id of those.
LastToFinish(ef, S) ==
    CHOOSE t \in S : \A u \in S : ef[u] < ef[t] \/ (ef[u] = ef[t] /\ u <= t)

\* After a task that ends at end, a is preferred to b: the one that starts right then, then
\* the one that finishes later, then the smaller id.
Preferred(es, ef, end, a, b) ==
    LET ta == es[a] = end
        tb == es[b] = end
    IN  \/ ta /\ ~tb
        \/ ta = tb /\ ef[b] < ef[a]
        \/ ta = tb /\ ef[b] = ef[a] /\ a <= b

MostPreferred(es, ef, end, S) ==
    CHOOSE a \in S : \A b \in S : Preferred(es, ef, end, a, b)

\* The critical tasks in order, from t along critical successors.
critical_walk(g, st) ==
    LET crit == CriticalTasks(g, st)
        ef   == EarliestFinish(g, st)
        es   == EarliestStart(g, st)
        walk[t \in g.nodes] ==
          LET nexts == successors(g, t) \cap crit
          IN  IF nexts = {} THEN <<t>>
              ELSE <<t>> \o walk[MostPreferred(es, ef, ef[t], nexts)]
    IN  walk

\* One critical path: from the critical source with the latest finish or, without a
\* critical source, from any such critical task.
reconstruct_path(g, st) ==
    LET crit    == CriticalTasks(g, st)
        ef      == EarliestFinish(g, st)
        sources == {t \in crit : predecessors(g, t) = {}}
    IN  CASE sources # {}               -> critical_walk(g, st)[LastToFinish(ef, sources)]
          [] sources = {} /\ crit # {}  -> critical_walk(g, st)[LastToFinish(ef, crit)]
          [] OTHER                      -> <<>>

\* The report LifeState caches, and its absence.
compute_critical_path(g, st) ==
    [some |-> TRUE, path |-> reconstruct_path(g, st), critical |-> CriticalTasks(g, st)]

NoReport == [some |-> FALSE, path |-> <<>>, critical |-> {}]

-----------------------------------------------------------------------------
(* The surfaces read off the path.  No task: NoTask. *)

OnPath(path, t) == \E i \in DOMAIN path : path[i] = t

\* t is the first task of the path that lies in S.
IsFirstOf(path, S, t) ==
    \E i \in DOMAIN path : path[i] = t /\ \A j \in DOMAIN path : j < i => path[j] \notin S

FirstOf(path, S) ==
    IF \E t \in S : IsFirstOf(path, S, t) THEN CHOOSE t \in S : IsFirstOf(path, S, t)
                                          ELSE NoTask

LeastOf(S) ==
    IF \E t \in S : \A u \in S : t <= u THEN CHOOSE t \in S : \A u \in S : t <= u
                                        ELSE NoTask

OpenWithGate(g, st, k) == {t \in g.nodes : g.gate[t] = k /\ st[t] = "Open"}

\* Only along the path: agents have no off-path fallback.
next_hootl_digital(g, st, path) == FirstOf(path, OpenWithGate(g, st, "None"))

\* Human work is never hidden: the path first, then any open gate, smallest id.
NextHuman(g, st, path, k) ==
    LET S == OpenWithGate(g, st, k)
        f == FirstOf(path, S)
    IN  IF f = NoTask THEN LeastOf(S) ELSE f

next_auth_gate(g, st, path) == NextHuman(g, st, path, "Auth")

next_physical_beacon(g, st, path) == NextHuman(g, st, path, "Physical")

\* Mutant: only the path is looked at.
NeedsHitl_pathOnly(g, st, path) ==
    \E t \in g.nodes : g.gate[t] # "None" /\ OnPath(path, t) /\ st[t] # "Done"

\* LifeState::recompute: a human gate not Done on the path, or Open or Claimed anywhere.
NeedsHitl(g, st, path) ==
    \E t \in g.nodes :
       /\ g.gate[t] # "None"
       /\ \/ OnPath(path, t) /\ st[t] # "Done"
          \/ st[t] \in {"Open", "Claimed"}
=============================================================================
