---------------------------- MODULE MCPulseCore ----------------------------
(* One importer of missions, one schedule, one G source under two roots. *)
EXTENDS PulseCore

Event(k, t) == [key |-> k, ts |-> t]

TheArchive == [lines |-> <<Event("a", 1)>>, ended |-> TRUE]
ThePack == <<Event("a", 2)>>
TheAudit == <<Event("c", 1), Event("b", 0)>>

\* At first the G source is under the second root only.
TheG == <<[g \in Gs |-> Gone], [g \in Gs |-> 0]>>

Row(owner, gs) == [id |-> "m", owner |-> owner, guess |-> owner = None, gs |-> gs]
\* The second table has two missions of one id.
TheTables == [spec \in 1..2 |-> CASE spec = 1 -> <<Row("o", Gs)>>
                                  [] spec = 2 -> <<Row("o", Gs), Row("p", {})>>]

TheStores ==
    {None, {[id |-> "m", owner |-> None, confirmed |-> FALSE,
             gs |-> [g \in Gs |-> [resolved |-> 2, sha |-> 0]]]}}

\* One that does not open; one whose old trace names a lost one; one with open conflicts.
TheDatabases ==
    {None,
     [integrity |-> "ok", resolutions |-> <<"kept">>,
      traces |-> [k \in {"t"} |-> [superseded_by |-> "lost", age |-> 9]]],
     [integrity |-> "damaged", resolutions |-> <<"kept", "open">>, traces |-> [k \in {} |-> None]]}

TheNotes == {{}, {2, 9}, {9}}
TheLogs == {None, {}, {9}}

\* One exits when it has filled the pipe, one has more to write, one is silent and hangs.
ThePremflows ==
    {[kind |-> "ok", left |-> 1], [kind |-> "ok", left |-> 2], [kind |-> "hangs", left |-> 0]}

PulseCommands ==
    [op |-> {[op |-> "import", spec |-> 1, force |-> TRUE],
             [op |-> "import", spec |-> 1, force |-> FALSE],
             [op |-> "import", spec |-> 2, force |-> FALSE]},
     cron |-> [op : {"check", "merge", "export"}]]
=============================================================================
