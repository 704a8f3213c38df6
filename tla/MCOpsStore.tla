----------------------------- MODULE MCOpsStore -----------------------------
(***************************************************************************)
(* Small instances of OpsStore for TLC.                                    *)
(***************************************************************************)
EXTENDS OpsStore, TLC

CONSTANTS op, cron

MCTasks == 1..3
MCProcs == {op, cron}

Action(kind, urgency, needs) ==
    [kind |-> kind, realm |-> "digital", urgency |-> urgency, importance |-> 0,
     depends_on |-> needs, due |-> FALSE]

\* Tasks 1 and 2 are approvals, 3 is a chore in the area Finance that needs none.
MCAuthKinds == {1, 2}
MCFinance == {1, 3}

\* A chore between two approvals: finishing it moves the critical path.
Chore == from_actions(<<Action("bill_pay", 1, {}), Action("calendar_mutate", 2, {}),
                        Action("chore", 3, {})>>)

\* An approval and an errand behind it.
Errand == from_actions(<<Action("bill_pay", 1, {}), Action("outdoor", 1, {1})>>)

\* A fixture no graph can be made of.
Knot == from_actions((1 :> Action("bill_pay", 1, {3})) @@ (3 :> Action("chore", 1, {1})))

\* A new store, one after `runtime load`, and one with what `turn` projects of a fixture
\* before it finds that no graph can be made of it.
NoRows == [life |-> Missing, snap |-> Missing, flow |-> Missing]
Loaded == LET q == LoadPair(Chore, EmptySnap) IN [life |-> q.life, snap |-> q.snap, flow |-> Missing]
MCOldStores == {NoRows, Loaded, [NoRows EXCEPT !.snap = Project(FromGraph(Knot), EmptySnap)]}

MCFixtures == {Chore, Errand, Knot}
MCClaimTargets == {2}

Tick == [op |-> "tick", agent |-> TRUE]
Cycle == [op |-> "cycle"]
Backup == [op |-> "backup", key |-> "k"]
Restore(k) == [op |-> "restore", key |-> k]
Load(g) == [op |-> "load", g |-> g]
Manual(c, t) == [op |-> "manual", c |-> c, t |-> t]
Gate(c, t) == [op |-> "gate", c |-> c, t |-> t]
Turn(g) == [op |-> "turn", g |-> g]

MCCalls == (op :> {Load(Errand), Manual("Approve", 1), Manual("Deny", 1),
                   Gate("Complete", 2), Turn(Missing), Turn(Knot), Tick, Cycle, Backup,
                   Restore("k"), Restore("other")})
           @@ (cron :> {Reconcile})
=============================================================================
