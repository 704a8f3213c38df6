----------------------------- MODULE MCRuntime -----------------------------
(***************************************************************************)
(* Small instances of Runtime for TLC.                                     *)
(***************************************************************************)
EXTENDS Runtime

MCTasks == 1..3

Action(kind, urgency, needs) ==
    [kind |-> kind, realm |-> "digital", urgency |-> urgency, importance |-> 1,
     depends_on |-> needs, due |-> FALSE]
Due(action) == [action EXCEPT !.due = TRUE]

\* The sample graph of the runtime's tests: digital work, then an approval that needs
\* it, then an errand that needs the approval.
Chain == from_actions(<<Action("physical_errand", 1, {2}), Action("bill_pay", 1, {3}),
                        Action("chore", 2, {})>>)

\* Two approvals, one of them due; digital work behind the first,
\* so that the second is off the critical path.
TwoGates == from_actions(<<Action("bill_pay", 2, {}), Due(Action("git_push_shared", 1, {})),
                           Action("chore", 2, {1})>>)

\* Digital work only: two branches that join.
Join == from_actions(<<Action("chore", 1, {}), Action("chore", 2, {}), Action("chore", 1, {1, 2})>>)

\* Actions that need each other.
Cycle == from_actions(<<Action("chore", 1, {2}), Action("chore", 1, {1})>>)

MCFixtures == {Chain, TwoGates, Join, Cycle}
=============================================================================
