--------------------------- MODULE TaskCompletion ---------------------------
(***************************************************************************)
(* compute_critical_path against a definition by enumeration, while the    *)
(* tasks of an acyclic graph are finished in any order: operators complete *)
(* tasks whose predecessors are still open.                                *)
(***************************************************************************)
EXTENDS CriticalPath

CONSTANT Durations   \* the durations of tasks

ASSUME CompletionAssumption == IsFiniteSet(Tasks) /\ Durations \subseteq Nat \ {0}

VARIABLES g, st

\* Edges all point to greater ids, or all to smaller ones: the ids break ties both ways.
DepsUpwards   == {d \in [Tasks -> SUBSET Tasks] : \A t \in Tasks : \A p \in d[t] : p < t}
DepsDownwards == {d \in [Tasks -> SUBSET Tasks] : \A t \in Tasks : \A p \in d[t] : p > t}

\* Dependencies may name tasks that are no nodes; those are as in the graph without nodes.
Init ==
    /\ g \in [nodes : SUBSET Tasks,
              gate  : {[t \in Tasks |-> "None"]},
              deps  : DepsUpwards \cup DepsDownwards,
              dur   : [Tasks -> Durations \cup {1}],
              due   : {{}}]
    /\ \A t \in Tasks \ g.nodes :
          g.deps[t] = EmptyGraph.deps[t] /\ g.dur[t] = EmptyGraph.dur[t]
    /\ st = AllOpen

\* A task becomes Done, by the agent or by an operator.
Finish(t) ==
    /\ st[t] # "Done"
    /\ st' = [st EXCEPT ![t] = "Done"]
    /\ UNCHANGED g

Next == \E t \in g.nodes : Finish(t)

Spec == Init /\ [][Next]_<<g, st>>

-----------------------------------------------------------------------------
(* The definition by enumeration *)

\* A chain runs along edges from a task nothing precedes to one nothing follows.  It meets
\* no task twice: the graph has no cycle.
IsChain(gr, s) ==
    /\ \A i \in 1..(Len(s) - 1) : s[i] \in predecessors(gr, s[i + 1])
    /\ predecessors(gr, s[1]) \cap gr.nodes = {}
    /\ successors(gr, s[Len(s)]) = {}

Chains(gr) ==
    {s \in UNION {[1..n -> gr.nodes] : n \in 1..Cardinality(gr.nodes)} : IsChain(gr, s)}

Length(gr, status, s) ==
    LET sum[i \in 0..Len(s)] ==
          IF i = 0 THEN 0 ELSE sum[i - 1] + Remaining(gr, status, s[i])
    IN  sum[Len(s)]

\* The longest chains, PathIsLongest says: those of the length the code reports.
Longest(gr, status) ==
    {s \in Chains(gr) : Length(gr, status, s) = ProjectEnd(gr, status)}

IsTail(path, s) ==
    \E k \in 0..(Len(s) - 1) : path = [i \in 1..(Len(s) - k) |-> s[k + i]]

\* "Ordered critical path node ids (source -> sink along longest path)": whatever is done,
\* no chain is longer than the reported project end and the path is the tail of a chain of
\* that length.  It is the whole chain if some longest chain begins at a task that depends
\* on nothing; when all begin at tasks with dependencies that are no nodes, it may begin
\* anywhere on one.
PathIsLongest ==
    LET path    == reconstruct_path(g, st)
        longest == Longest(g, st)
    IN  /\ \A s \in Chains(g) : Length(g, st, s) <= ProjectEnd(g, st)
        /\ g.nodes # {} => \E s \in longest : IsTail(path, s)
        /\ (\E s \in longest : predecessors(g, s[1]) = {}) => path \in longest

\* A task has no slack exactly when some longest chain goes through it.
CriticalIsOnLongest ==
    LET longest == Longest(g, st)
    IN  CriticalTasks(g, st) = {t \in g.nodes : \E s \in longest : OnPath(s, t)}

\* Every dependency is a node.
Closed(gr) == \A t \in gr.nodes : gr.deps[t] \subseteq gr.nodes

\* Where every dependency is a node, the first unfinished task of the path never waits for
\* another task: an agent that only claims along the path always has work there while any
\* task is unfinished.
FirstUnfinishedIsReady ==
    LET first == FirstOf(reconstruct_path(g, st), {t \in g.nodes : st[t] # "Done"})
    IN  IF \A t \in g.nodes : st[t] = "Done" THEN first = NoTask
        ELSE Closed(g) => /\ first # NoTask
                          /\ \A p \in predecessors(g, first) : st[p] = "Done"

\* Finishing a task never moves the project end back.
EndNeverGrows == [][ProjectEnd(g, st)' <= ProjectEnd(g, st)]_<<g, st>>
=============================================================================
