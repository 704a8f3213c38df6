------------------------------ MODULE OpsStore ------------------------------
(***************************************************************************)
(* The command line over the operations store (main.rs, store.rs,          *)
(* digital_flow.rs, backup.rs, vault.rs, channel_pulse.rs, turn.rs).  The  *)
(* store is the kv table of one sqlite file: the life state, the wait      *)
(* snapshot and the bill-pay flow.  Each command is a process that reads   *)
(* some keys, works on its copy and writes some back; one action is one    *)
(* transaction or one access to a file beside the store.  A process may    *)
(* end at any point (Die: a death, or the early return of `?`).            *)
(*                                                                         *)
(* What one tick does to the pair is one step here.  Left out: regime, bus *)
(* and metrics (Runtime has them), the audit table (only written here),    *)
(* the times of rows and their histories, titles and redaction, the        *)
(* episodic memory.  Tasks have equal urgency: rank_now then orders them   *)
(* by id, and so it does with approvals of one load.  A task of the kind   *)
(* health_body names its realm.                                            *)
(***************************************************************************)
EXTENDS CriticalPath

CONSTANTS
    Procs,         \* command-line processes; each runs one command at a time
    Calls,         \* Calls[p]: the commands process p may run
    Fixtures,      \* the graphs that fixtures describe
    ClaimTargets,  \* the ids named in claim and complete
    AuthKinds,     \* tasks of a kind that needs a person's consent
    Finance,       \* tasks in the area Finance
    Missing,       \* no such row, or no such file
    Torn,          \* a file cut short
    OldStores,     \* the rows a run starts from
    MaxCalls,      \* bound: commands begun, the channel pulse not counted
    MaxDeaths      \* bound: commands that end early

ASSUME OpsFixturesAssumption ==
    /\ Fixtures \subseteq Graph
    /\ \A f \in Fixtures : \A t \in f.nodes :
          f.gate[t] # "Physical" => (f.gate[t] = "Auth" <=> t \in AuthKinds)
ASSUME OpsSetsAssumption ==
    ClaimTargets \subseteq Tasks /\ AuthKinds \subseteq Tasks /\ Finance \subseteq Tasks
ASSUME OpsBoundsAssumption == MaxCalls \in Nat /\ MaxDeaths \in Nat

Decisions == {"Approve", "Deny", "Claim", "Complete"}

\* One person gives the commands one after the other; the schedule reconciles beside.
ASSUME OpsCallsAssumption ==
    /\ \A p \in Procs : \A c \in Calls[p] :
          \/ c.op \in {"pulse", "tick", "cycle", "backup", "restore"}
          \/ c.op = "load" /\ c.g \in Fixtures
          \/ c.op = "turn" /\ c.g \in Fixtures \cup {Missing}
          \/ /\ c.op \in {"manual", "gate"} /\ c.c \in Decisions /\ c.t \in Tasks
             /\ c.c \in {"Claim", "Complete"} => c.t \in ClaimTargets
    /\ \A p, q \in Procs : p # q => \A c \in Calls[p] : \A d \in Calls[q] :
                                       c.op = "pulse" \/ d.op = "pulse"

VARIABLES
    kv,      \* the rows life_state, wait_snapshot and flow:flow-bill_pay
    pack,    \* the file backup or ops-bundle export wrote last
    pulse,   \* the channel pulse file
    pc,      \* pc[p]: the next step of p's command
    run,     \* run[p]: the command and what the process has read
    mixed,   \* a restoration left the life state beside a snapshot that is not its own
    calls, deaths

vars == <<kv, pack, pulse, pc, run, mixed, calls, deaths>>

Agent1 == "swarm-digital-1"
Human  == "human"
NoOne  == "nobody"

Absent   == "absent"
Resolved == {"Approved", "Denied"}

EmptyLife == [g |-> EmptyGraph, st |-> AllOpen, by |-> [t \in Tasks |-> NoOne], path |-> <<>>]

\* flow is the row of the approval auth-flow-bill_pay.
EmptySnap == [pending |-> [t \in Tasks |-> Absent], physical |-> [t \in Tasks |-> Absent],
              flow |-> Absent]

OrElse(value, default) == IF value = Missing THEN default ELSE value

-----------------------------------------------------------------------------
(* What commands make of a snapshot, a life state, a flow *)

WithPending(snap, rows) ==
    [pending |-> rows, physical |-> snap.physical, flow |-> snap.flow]
WithPhysical(snap, rows) ==
    [pending |-> snap.pending, physical |-> rows, flow |-> snap.flow]
WithTasks(life, st, by) == [g |-> life.g, st |-> st, by |-> by, path |-> life.path]

\* Mutant: every listed action gets a fresh Pending row.
upsert_pending_always(listed, snap) ==
    WithPending(snap, [t \in Tasks |-> IF t \in listed THEN "Pending" ELSE snap.pending[t]])

\* upsert_pending_from_actions: a decided row stays.
upsert_pending(listed, snap) ==
    WithPending(snap, [t \in Tasks |-> IF t \in listed /\ snap.pending[t] \notin Resolved
                                       THEN "Pending" ELSE snap.pending[t]])

upsert_physical(errands, snap) ==
    WithPhysical(snap, [t \in Tasks |-> IF t \in errands /\ snap.physical[t] = Absent
                                        THEN "Open" ELSE snap.physical[t]])

Gated(g, k) == {t \in g.nodes : g.gate[t] = k}

\* project_wait_snapshot: unlike gate_for_action, the area Finance alone is enough.
Project(a, snap) ==
    upsert_physical(Gated(a.g, "Physical"),
        upsert_pending((AuthKinds \cap a.g.nodes) \cup a.finance, snap))

\* LifeState::recompute, as far as the store's readers go.
Recomputed(life) == [g |-> life.g, st |-> life.st, by |-> life.by,
                     path |-> reconstruct_path(life.g, life.st)]

Pair(life, snap) == [life |-> Recomputed(life), snap |-> snap]

with_graph(g) == [g |-> g, st |-> AllOpen, by |-> EmptyLife.by, path |-> <<>>]

\* Runtime::load_actions on the pair.
LoadPair(g, snap) ==
    Pair(with_graph(g),
         upsert_physical(Gated(g, "Physical"), upsert_pending(Gated(g, "Auth"), snap)))

list_pending(snap) == {t \in Tasks : snap.pending[t] = "Pending"}

apply_decision(snap, t, verdict) ==
    WithPending(snap, [snap.pending EXCEPT ![t] = verdict])

\* A row that is not there is made first.
apply_physical_decision(snap, t, st) ==
    WithPhysical(snap, [snap.physical EXCEPT ![t] = st])

\* A task that is not a node has no status.
WithStatus(life, t, st) ==
    IF t \in life.g.nodes THEN WithTasks(life, [life.st EXCEPT ![t] = st], life.by) ELSE life

Verdict(c) == IF c = "Approve" THEN "Approved" ELSE "Denied"
Outcome(c) == IF c = "Approve" THEN "Done" ELSE "Blocked"

\* The task of a decided approval, when it waits for one.
decide_task(c, t, life) ==
    IF life.g.gate[t] = "Auth" THEN WithStatus(life, t, Outcome(c)) ELSE life

ByHuman(life, t) ==
    IF t \in life.g.nodes
    THEN WithTasks(life, [life.st EXCEPT ![t] = "Claimed"], [life.by EXCEPT ![t] = Human])
    ELSE life

\* apply_manual: no pair when the decision is refused.
Manually(c, t, life, snap) ==
    CASE c \in {"Approve", "Deny"} ->
           IF t \in list_pending(snap)
           THEN {Pair(decide_task(c, t, life), apply_decision(snap, t, Verdict(c)))} ELSE {}
      [] c = "Claim" ->
           {Pair(ByHuman(life, t), apply_physical_decision(snap, t, "Claimed"))}
      [] c = "Complete" ->
           {Pair(WithStatus(life, t, "Done"), apply_physical_decision(snap, t, "Completed"))}

\* The agent's turn of a tick: finish an owned task, or claim the next one on the path.
AgentTurn(life) ==
    LET g == life.g
        owned == {t \in g.nodes : life.by[t] = Agent1 /\ life.st[t] = "Claimed"
                                                      /\ g.gate[t] = "None"}
        next == next_hootl_digital(g, life.st, life.path)
        ready == next # NoTask /\ \A p \in g.deps[next] : p \in g.nodes /\ life.st[p] = "Done"
    IN  IF owned # {}
        THEN {WithTasks(life, [life.st EXCEPT ![t] = "Done"], life.by) : t \in owned}
        ELSE {IF ready THEN WithTasks(life, [life.st EXCEPT ![next] = "Claimed"],
                                            [life.by EXCEPT ![next] = Agent1])
                       ELSE life}

\* The pairs a runtime command may save; none when it fails.
Outcomes(c, life, snap) ==
    CASE c.op = "load"   -> IF HasTopoOrder(c.g) THEN {LoadPair(c.g, snap)} ELSE {}
      [] c.op = "tick"   -> {Pair(l, snap) : l \in IF c.agent THEN AgentTurn(life) ELSE {life}}
      [] c.op \in {"manual", "gate"} -> Manually(c.c, c.t, life, snap)

\* A new flow.
bill_pay == "Idle"

activate(f) == IF f = "PendingAuth" THEN Missing ELSE "PendingAuth"
decide(f, verdict) == IF f # "PendingAuth" THEN Missing
                      ELSE IF verdict = "approve" THEN "Approved" ELSE "Denied"
execute_dry_run(f) == IF f # "Approved" THEN Missing ELSE "DryRunOk"

\* Mutant: the dry run is left to a later command.
run_cycle_noExecute(f) == decide(activate(f), "approve")

run_cycle(f) == execute_dry_run(decide(activate(f), "approve"))

\* map_flow_status_to_approval
FlowApproval(f) == CASE f = "PendingAuth" -> "Pending" [] f = "Denied" -> "Denied"
                     [] OTHER -> "Approved"

-----------------------------------------------------------------------------
(* The seed of turn and channel-pulse, and the pulse itself *)

NoActions == [g |-> EmptyGraph, finance |-> {}]

FromGraph(g) == [g |-> g, finance |-> g.nodes \cap Finance]

BodyRow == [urgency |-> 3, importance |-> 3]
GateRow == [urgency |-> 4, importance |-> 4]

\* Errands that are not completed and approvals that are pending; rows keep no area.
FromSnapshot(snap) ==
    LET errands == {t \in Tasks : snap.physical[t] \in {"Open", "Claimed"}}
        gates   == list_pending(snap) \ errands
    IN  [g |-> [nodes |-> errands \cup gates,
                gate  |-> [t \in Tasks |-> CASE t \in errands -> "Physical"
                                             [] t \in gates \cap AuthKinds -> "Auth"
                                             [] OTHER -> "None"],
                deps  |-> EmptyGraph.deps,
                dur   |-> [t \in Tasks |-> duration_heuristic(IF t \in errands THEN BodyRow
                                                                              ELSE GateRow)],
                due   |-> {}],
         finance |-> {}]

SnapSeed(snap) == IF snap = Missing THEN NoActions ELSE FromSnapshot(snap)

HasTasks(life) == life # Missing /\ life.g.nodes # {}

\* Without a schedule the errand that comes first by id.
select_next_physical(a, snap) ==
    LeastOf({t \in Gated(a.g, "Physical") : snap.physical[t] # "Completed"})

select_next_auth(snap) == LeastOf(list_pending(snap))

\* What a person should do and decide next; a gate is named by its row.
rank_now(a, snap) ==
    [body |-> select_next_physical(a, snap), gate |-> <<"row", select_next_auth(snap)>>]

\* The surfaces of the critical path come first; those gates are named by their task.
focus_plan(plan, life) ==
    LET beacon == next_physical_beacon(life.g, life.st, life.path)
        gate   == next_auth_gate(life.g, life.st, life.path)
    IN  [body |-> IF beacon # NoTask THEN beacon ELSE plan.body,
         gate |-> IF gate # NoTask THEN <<"node", gate>> ELSE plan.gate]

build_channel_ir(plan, snap) == [next_body |-> plan.body, next_gate |-> plan.gate, rows |-> snap]

ChannelIr(a, snap, life) ==
    LET plan == rank_now(a, snap)
    IN  build_channel_ir(IF life = Missing THEN plan ELSE focus_plan(plan, life), snap)

\* Mutant: only the snapshot is compared.
SamePulse_fingerprint(a, b) == a.rows = b.rows

\* channel_pulse_content_hash: everything but the times of generation.
SamePulse(a, b) == a = b

-----------------------------------------------------------------------------
(* What is stored *)

\* The critical path a life state carries is the one of its graph and statuses.
IsLife(life) ==
    /\ life.g \in Graph
    /\ life.st \in [Tasks -> TaskStatus]
    /\ life.by \in [Tasks -> {NoOne, Agent1, Human}]
    /\ life = Recomputed(life)

Snap == [pending : [Tasks -> Resolved \cup {Absent, "Pending"}],
         physical : [Tasks -> {Absent, "Open", "Claimed", "Completed"}],
         flow : Resolved \cup {Absent}]

Rows(r) == /\ r.life = Missing \/ IsLife(r.life)
           /\ r.snap = Missing \/ r.snap \in Snap
           /\ r.flow \in {Missing, "DryRunOk"}

\* Life state and snapshot tell the same of every approval nobody claims or completes.
Tied(life, snap) ==
    \A t \in Gated(life.g, "Auth") \ ClaimTargets :
       LET row == snap.pending[t]
           st  == life.st[t]
       IN  /\ row # Absent
           /\ row = "Pending" => st = "Open"
           /\ st = "Done" => row = "Approved"
           /\ st = "Blocked" => row = "Denied"

\* A life state has a snapshot beside it that agrees with it.
Agree(rows) ==
    rows.life # Missing => rows.snap # Missing /\ Tied(rows.life, rows.snap)

\* An approved bill has its dry run.
FlowRan(rows) ==
    rows.snap # Missing /\ rows.snap.flow = "Approved" => rows.flow = "DryRunOk"

\* Earlier commands of this code wrote the rows a run starts from.
ASSUME OldStoresAssumption ==
    \A rows \in OldStores : Rows(rows) /\ Agree(rows) /\ FlowRan(rows)

\* A row that is not there is told from every snapshot and flow.
ASSUME MissingAssumption ==
    /\ Missing \notin Snap
    /\ Missing \notin {"Idle", "PendingAuth", "Approved", "Denied", "DryRunOk"}

-----------------------------------------------------------------------------
(* Processes *)

Started(c, a, ir) == [c |-> c, life |-> Missing, snap |-> Missing, flow |-> Missing,
                      a |-> a, bundle |-> Missing, ir |-> ir]

Idle == Started([op |-> "none"], NoActions, Missing)

Init ==
    /\ kv \in OldStores
    /\ pack = Missing
    /\ pulse = Missing
    /\ pc = [p \in Procs |-> "idle"]
    /\ run = [p \in Procs |-> Idle]
    /\ mixed = FALSE
    /\ calls = 0
    /\ deaths = 0

Goto(p, label) == pc' = [pc EXCEPT ![p] = label]

\* The process reads one more thing.
Gets(p, field, value) ==
    run' = [run EXCEPT ![p] =
              [f \in DOMAIN Idle |-> IF f = field THEN value ELSE run[p][f]]]

\* The process ends, having done all it was asked or having failed.
End(p) == Goto(p, "idle") /\ run' = [run EXCEPT ![p] = Idle]

FirstStep(c) ==
    CASE c.op \in {"load", "tick", "manual", "gate"} -> "life"
      [] c.op = "turn"   -> IF c.g # Missing THEN "ensure" ELSE "seed"
      [] c.op = "pulse"  -> "seed"
      [] c.op = "cycle"  -> "flow"
      [] c.op = "backup" -> "export"
      [] c.op = "restore" -> "unpack"

Begin(p, c) ==
    /\ pc[p] = "idle"
    /\ c \in Calls[p]
    /\ c.op # "pulse" => calls < MaxCalls
    /\ calls' = IF c.op = "pulse" THEN calls ELSE calls + 1
    /\ LET a == IF c.op = "turn" /\ c.g # Missing THEN FromGraph(c.g) ELSE NoActions
       IN  run' = [run EXCEPT ![p] = Started(c, a, Missing)]
    /\ Goto(p, FirstStep(c))
    /\ UNCHANGED <<kv, pack, pulse, mixed, deaths>>

Die(p) ==
    /\ pc[p] # "idle"
    /\ deaths < MaxDeaths
    /\ deaths' = deaths + 1
    /\ End(p)
    /\ UNCHANGED <<kv, pack, pulse, mixed, calls>>

At(p, label) == pc[p] = label /\ UNCHANGED <<calls, deaths>>

Saves(life, snap, flow) ==
    kv' = [life |-> life, snap |-> snap, flow |-> flow] /\ UNCHANGED <<pack, pulse, mixed>>
Reads == UNCHANGED <<kv, pack, pulse, mixed>>

-----------------------------------------------------------------------------
(* runtime load, tick, approve, deny, claim, complete; and the top-level gates *)

\* The top-level approve, deny, claim and complete refuse to work without a life state.
ReadLife(p) ==
    /\ At(p, "life")
    /\ Reads
    /\ IF run[p].c.op = "gate" /\ kv.life = Missing
       THEN End(p)
       ELSE Goto(p, "snap") /\ Gets(p, "life", OrElse(kv.life, EmptyLife))

ReadSnapshot(p) ==
    /\ At(p, "snap")
    /\ Reads
    /\ Gets(p, "snap", OrElse(kv.snap, EmptySnap))
    /\ Goto(p, "pair")

\* Mutant: the life state goes in without the snapshot.
SavePair_lifeOnly(p) ==
    /\ At(p, "pair")
    /\ LET r == run[p] IN
         \E q \in Outcomes(r.c, r.life, r.snap) :
            Saves(q.life, kv.snap, kv.flow)
    /\ End(p)

\* save_runtime_pair: both rows in one transaction.
SavePair(p) ==
    /\ At(p, "pair")
    /\ LET r == run[p] IN
         \E q \in Outcomes(r.c, r.life, r.snap) :
            Saves(q.life, q.snap, kv.flow)
    /\ End(p)

\* A refused decision or a cyclic graph saves nothing.
RefusePair(p) ==
    /\ At(p, "pair")
    /\ Outcomes(run[p].c, run[p].life, run[p].snap) = {}
    /\ Reads
    /\ End(p)

-----------------------------------------------------------------------------
(* turn *)

\* seed_live_channel_actions reads the life state, and the snapshot when that is empty.
SeedFromLife(p) ==
    /\ At(p, "seed")
    /\ Reads
    /\ IF HasTasks(kv.life)
       THEN /\ Gets(p, "a", FromGraph(kv.life.g))
            /\ Goto(p, IF run[p].c.op = "turn" THEN "ensure" ELSE "pulse_snap")
       ELSE Goto(p, "seed_snap") /\ UNCHANGED run

SeedFromSnapshot(p) ==
    /\ At(p, "seed_snap")
    /\ Reads
    /\ LET a == SnapSeed(kv.snap) IN
         IF a.g.nodes = {} THEN End(p)
         ELSE /\ Gets(p, "a", a)
              /\ Goto(p, IF run[p].c.op = "turn" THEN "ensure" ELSE "pulse_snap")

\* ensure_snap: load, project, save.
EnsureRead(p) ==
    /\ At(p, "ensure")
    /\ Reads
    /\ Gets(p, "snap", OrElse(kv.snap, EmptySnap))
    /\ Goto(p, "ensure_save")

EnsureSave(p) ==
    /\ At(p, "ensure_save")
    /\ Saves(kv.life, Project(run[p].a, run[p].snap), kv.flow)
    /\ Goto(p, "focus")
    /\ UNCHANGED run

\* turn_focus: with a life state nothing more is written.
Focus(p) ==
    /\ At(p, "focus")
    /\ Reads
    /\ IF kv.life = Missing /\ HasTopoOrder(run[p].a.g)
       THEN Goto(p, "turn_pair") /\ UNCHANGED run
       ELSE End(p)

\* Without one the runtime is loaded from a new, empty snapshot, and that pair is saved.
TurnPair(p) ==
    /\ At(p, "turn_pair")
    /\ LET q == LoadPair(run[p].a.g, EmptySnap) IN
         Saves(q.life, q.snap, kv.flow)
    /\ End(p)

-----------------------------------------------------------------------------
(* digital-flow cycle *)

ReadFlow(p) ==
    /\ At(p, "flow")
    /\ Reads
    /\ LET f == run_cycle(OrElse(kv.flow, bill_pay)) IN
         IF f = Missing THEN End(p)
         ELSE Gets(p, "flow", f) /\ Goto(p, "flow_save")

\* Mutant: only the approval row is saved.
SaveFlow_never(p) == At(p, "flow_save") /\ Reads /\ Goto(p, "flow_snap") /\ UNCHANGED run

SaveFlow(p) ==
    /\ At(p, "flow_save")
    /\ Saves(kv.life, kv.snap, run[p].flow)
    /\ Goto(p, "flow_snap")
    /\ UNCHANGED run

FlowReadSnapshot(p) ==
    /\ At(p, "flow_snap")
    /\ Reads
    /\ Gets(p, "snap", OrElse(kv.snap, EmptySnap))
    /\ Goto(p, "flow_row")

SaveFlowRow(p) ==
    /\ At(p, "flow_row")
    /\ LET snap == run[p].snap IN
         Saves(kv.life, [pending |-> snap.pending, physical |-> snap.physical,
                         flow |-> FlowApproval(run[p].flow)], kv.flow)
    /\ End(p)

-----------------------------------------------------------------------------
(* backup, ops-bundle export; restore-apply, ops-bundle import *)

\* A pack is sealed with a key; an ops bundle is not (its key is Missing).
seal(key, rows) == [key |-> key, rows |-> rows]
unseals(sealed, key) == sealed.key = key

Export(p) ==
    /\ At(p, "export")
    /\ Reads
    /\ Gets(p, "bundle", seal(run[p].c.key, kv))
    /\ Goto(p, "pack_open")

\* fs::write cuts the file first.
OpenPack(p) ==
    /\ At(p, "pack_open")
    /\ pack' = Torn
    /\ Goto(p, "pack_write")
    /\ UNCHANGED <<kv, pulse, mixed, run>>

WritePack(p) ==
    /\ At(p, "pack_write")
    /\ pack' = run[p].bundle
    /\ UNCHANGED <<kv, pulse, mixed>>
    /\ End(p)

\* read_bundle_file, read_backup_pack: a file that is not there or cut short is refused.
Legible(f) == f \notin {Missing, Torn}

\* And so is a wrong key.
restore_apply(f, key) == IF Legible(f) THEN unseals(f, key) ELSE FALSE

Unpack(p) ==
    /\ At(p, "unpack")
    /\ Reads
    /\ IF restore_apply(pack, run[p].c.key)
       THEN Gets(p, "bundle", pack) /\ Goto(p, "import")
       ELSE End(p)

\* import_bundle: one transaction over the rows in the pack; other rows stay.
import_bundle(rows) ==
    [life |-> OrElse(rows.life, kv.life), snap |-> OrElse(rows.snap, kv.snap),
     flow |-> OrElse(rows.flow, kv.flow)]

\* What both restorations end in.
Import(p) ==
    /\ At(p, "import")
    /\ LET rows == run[p].bundle.rows IN
         /\ kv' = import_bundle(rows)
         /\ mixed' = \/ mixed
                     \/ rows.life = Missing /\ kv.life # Missing /\ rows.snap # Missing
    /\ UNCHANGED <<pack, pulse>>
    /\ End(p)

-----------------------------------------------------------------------------
(* channel-pulse reconcile *)

\* Without a snapshot it is projected, and not saved.
PulseSnapshot(p) ==
    /\ At(p, "pulse_snap")
    /\ Reads
    /\ Gets(p, "snap", OrElse(kv.snap, Project(run[p].a, EmptySnap)))
    /\ Goto(p, "pulse_life")

PulseLife(p) ==
    /\ At(p, "pulse_life")
    /\ Reads
    /\ LET ir == ChannelIr(run[p].a, run[p].snap, kv.life)
       IN  run' = [run EXCEPT ![p] = Started(run[p].c, NoActions, ir)]
    /\ Goto(p, "pulse_diff")

\* A file that is there must parse.
read_channel_pulse(f) == f # Torn

\* Quiet when the content is the same; a file that does not parse ends the command.  The
\* content hash takes in updated_at, which is not kept here: a snapshot that was saved
\* again as it was may be published again.
PulseDiff(p) ==
    /\ At(p, "pulse_diff")
    /\ Reads
    /\ \/ read_channel_pulse(pulse) /\ Goto(p, "pulse_open") /\ UNCHANGED run
       \/ ~read_channel_pulse(pulse) /\ End(p)
       \/ Legible(pulse) /\ SamePulse(pulse, run[p].ir) /\ End(p)

OpenPulse(p) ==
    /\ At(p, "pulse_open")
    /\ pulse' = Torn
    /\ Goto(p, "pulse_write")
    /\ UNCHANGED <<kv, pack, mixed, run>>

WritePulse(p) ==
    /\ At(p, "pulse_write")
    /\ pulse' = run[p].ir
    /\ UNCHANGED <<kv, pack, mixed>>
    /\ End(p)

-----------------------------------------------------------------------------

Step(p) ==
    \/ ReadLife(p) \/ ReadSnapshot(p) \/ SavePair(p) \/ RefusePair(p)
    \/ SeedFromLife(p) \/ SeedFromSnapshot(p) \/ EnsureRead(p) \/ EnsureSave(p)
    \/ Focus(p) \/ TurnPair(p)
    \/ ReadFlow(p) \/ SaveFlow(p) \/ FlowReadSnapshot(p) \/ SaveFlowRow(p)
    \/ Export(p) \/ OpenPack(p) \/ WritePack(p) \/ Unpack(p) \/ Import(p)
    \/ PulseSnapshot(p) \/ PulseLife(p) \/ PulseDiff(p) \/ OpenPulse(p) \/ WritePulse(p)

Next == \E p \in Procs : Step(p) \/ Die(p) \/ \E c \in Calls[p] : Begin(p, c)

Spec == Init /\ [][Next]_vars

Reconcile == [op |-> "pulse"]

\* The weekday schedule keeps reconciling, and each reconciliation runs on; commands given
\* by hand may stop anywhere.
FairSpec ==
    /\ Spec
    /\ \A p \in Procs : Reconcile \in Calls[p] =>
         WF_vars(Step(p)) /\ WF_vars(Begin(p, Reconcile))

-----------------------------------------------------------------------------
(* Properties *)

\* Types; a stored life state carries the critical path of its own graph and statuses; a
\* stored flow has always run its whole cycle: no command stores one that is pending,
\* approved and not executed, or denied.
TypeOK ==
    /\ Rows(kv)
    /\ pack \in {Missing, Torn} \/ Rows(pack.rows)
    /\ mixed \in BOOLEAN /\ calls \in 0..MaxCalls /\ deaths \in 0..MaxDeaths
    /\ \A p \in Procs : pc[p] = "idle" <=> run[p] = Idle

\* The stored pair agrees, wherever a command stopped, and so does the pair in every
\* pack: the pair is saved in one transaction, turn writes the snapshot alone but keeps
\* what is decided, the export reads all rows at once, and the import writes them at
\* once.  The one exception is a pack with a snapshot and no life state: importing it over
\* a store that has one leaves the two side by side.
StoredPairAgrees ==
    mixed \/ /\ Agree(kv)
             /\ pack \notin {Missing, Torn} => Agree(pack.rows)

\* Once there is a life state, no command takes a stored decision back, but for the
\* restoration of a pack: approvals are decided once, whatever stops in between.
DecidedStays ==
    [][kv.life # Missing /\ kv.snap # Missing /\ ~(\E p \in Procs : pc[p] = "import") =>
         \A t \in Tasks : kv.snap.pending[t] \in Resolved =>
                            kv'.snap.pending[t] = kv.snap.pending[t]]_vars

\* The snapshot calls the bill approved only when the flow's dry run is stored: df_cycle
\* saves the flow before its row, and every pack that has the row has the flow.
ApprovedFlowRan == FlowRan(kv)

Seed == IF HasTasks(kv.life) THEN FromGraph(kv.life.g) ELSE SnapSeed(kv.snap)

StoreIr == ChannelIr(Seed, OrElse(kv.snap, Project(Seed, EmptySnap)), kv.life)

\* However its reads fell between the writes of other commands, the published pulse ends
\* up showing the store, unless a death in fs::write left a file no later run can parse.
PulseSettles == <>[](Seed.g.nodes # {} => pulse = Torn \/ pulse = StoreIr)
=============================================================================
