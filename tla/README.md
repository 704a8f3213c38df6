# ensembly: a TLA+ project

Specifications, model-checking configurations and machine-checked proofs for the
Rust crates of ensembly (`crates/`): the kernel runtime that decides what a person
and what an agent may do next, the record log, the operations store, the episodic
memory, and the files the desk's commands keep. Paths below are relative to the
repository; `kernel` is `crates/ensembly-kernel/src`, `schema` is
`crates/ensembly-schema/src`, `memory` is `crates/ensembly-memory/src`, `agents` is
`crates/ensembly-agents/src`.

## 1. The system

| Component | State | Operations | Talks to |
|---|---|---|---|
| Runtime (`kernel/runtime.rs`, `life_state.rs`, `approvals.rs`, `agent.rs`, `trigger.rs`) | life state (graph, statuses, cached critical path, fingerprint, regime, metrics), wait snapshot (decision rows), bus, previous edge state | `load_actions`, `enqueue_manual`, `tick` | bus, graph, agent worker; the command line persists it |
| Graph and critical path (`kernel/graph.rs`, `critical_path.rs`) | nodes and edges | build from actions, topological order, critical path, next surfaces | read by runtime, turn, channel pulse |
| Message bus (`kernel/msg_bus.rs`) | queue, capacity, dropped count | `push` with back-pressure, `pop` | owned by the runtime |
| Record log (`schema/commit.rs`, `surface.rs`) | event log, checkpoint, staging files, lock file | `commit_json`, `recover_json` | several processes (command line, MCP server) share the files |
| Record views (`schema/replay.rs`, `view.rs`, `sync.rs`) | none (functions of the log) | replay, snapshot, change feed, text, offline merge | read the log |
| Store and command line (`kernel/store.rs`, `main.rs`) | sqlite rows: life state, snapshot, flow | load, one command, save | one process per command, no lock between a read and a write |
| Channel pulse and turn (`kernel/channel_pulse.rs`, `turn.rs`) | a published pulse file | seed, project, rank, reconcile | read the store; the pulse runs on a schedule |
| Digital flows (`kernel/digital_flow.rs`) | flow status | activate, decide, execute | store, snapshot |
| Backups, ops bundles, vault (`kernel/backup.rs`, `vault.rs`) | a sealed file of rows | export, restore-apply, import | the whole store |
| Episodic memory (`memory/crdt.rs`, `memory.rs`, `kernel/memory_sink.rs`, `coherence.rs`) | CRDT document, JSON file, temporary file | record, reflect, merge, `sync_and_save` | command line, packs, MCP server |
| Pulse packs (`kernel/pulse_pack.rs`) | pack file, archive sidecar | export, import of memory and archive events | memory on two hosts, peers |
| Application desk (`kernel/application_ledger.rs`, `company_audit.rs`, `tracker.rs`, `schema/ledger.rs`, `audit.rs`) | two files of JSON lines and their exports | append, audit append, export, tracker, status | command line, the owner's editor |
| Pulse core (`kernel/pulse_core.rs`) | mission store and backups, G sources, premflow child | import, check | a schedule, the owners' files, a child process |
| Agents (`crates/ensembly-agents`) | none of their own | MCP server, delegation, inference | record log, memory |
| `prototype/`, `marketplaces/`, `.grok/` | - | parked prototype, third-party plugin, editor workflows | not part of the program |

What is hard in it: a queue whose triggers are dropped under pressure while the state
that generates them believes them sent; commands that abort a tick half way; reloads
over decisions already taken; a path cached between messages; path reconstruction with
ties and with work finished out of order; files shared by processes that may die
between any two accesses, or inside one write; commands that read rows in two queries
and save one of them; a schedule that reads a store while commands write it; documents
merged from copies that were cut short, repeated or late; JSON lines whose last line is
half there; a child process that is waited for without being read. `PROJECT.json` lists
these as hazards, each at its line.

What makes each component correct:

- Runtime: human work is never hidden; agents take only ready digital work; a decision
  is taken once and graph and snapshot agree on it; no command is lost; digital work
  gets done when nobody has to be waited for.
- Critical path: one longest chain, and its first unfinished task is ready, as far as
  dependencies are nodes.
- Record log: a unit enters whole, once, atomically; "done" is only said of what is in
  the log; recovery agrees with the log.
- Record views: snapshot, feed and text tell the same; a poller misses nothing; an
  offline copy merges without losing or doubling an event.
- Store: the saved pair belongs together; no decision is taken back; a bill shown as
  approved has run; the published pulse comes to show the store.
- Memory: the file is always whole; nothing is forgotten; hosts converge.
- Desk: what was reported appended stays; nothing is recorded twice; a company passes
  only when its audit says so; the exports come to show the stores.
- Pulse core: a replaced mission store stays in its backup, unless another import of the
  same second copies over it; checks end and leave no child behind unless they die or
  cannot wait for it; packs come to hold what was sent.

## 2. Modules

| Module | Models |
|---|---|
| `CriticalPath` | `from_actions`, the graph, `compute_critical_path`, the surfaces, `needs_hitl`, as operators |
| `MsgBus` | `MsgBus::push` and `pop`, as operators on a bus record |
| `Runtime` | the runtime: one action per host call, message kind and agent step |
| `TaskBoard` | the promise of `Runtime`: who may move which task, and when |
| `RecordCommit` | commit and recovery: one action per access to a shared file |
| `AtomicLog` | the promise of `RecordCommit`: a log that grows by whole units |
| `RecordViews` | what readers compute from the log, as operators on its lines |
| `OpsStore` | the command line over the store, with flows, turn, channel pulse and backups |
| `MemoryDoc` | the memory document, its merge and its reflection, as operators |
| `MemorySync` | the document's file on each host, the packs between hosts |
| `Commands` | a command-line process: what it runs, what it holds, how it may end |
| `JsonLines` | a file of lines: appended text and newlines, lines that do not parse |
| `Applications` | ledger, audits, exports and tracker of the application desk |
| `PulseCore` | missions, the check with its child process, the archive of packs |
| `TaskCompletion` | tasks finished in any order, and what a longest chain is by enumeration |
| `MC*` | instances for TLC |
| `RuntimeProofs`, `CriticalPathProofs`, `RecordCommitProofs`, `OpsStoreProofs`, `MemorySyncProofs`, `JsonLinesProofs`, `ApplicationsProofs`, `PulseCoreProofs` | proofs, each about the module of its name (`RecordCommitProofs` also about `RecordViews`, `CriticalPathProofs` about `TaskCompletion`) |

`Runtime` and `OpsStore` EXTEND `CriticalPath` (`Runtime` also `MsgBus`); `RecordViews`
EXTENDS `RecordCommit`, so the views are checked on every log the commits reach;
`TaskCompletion` EXTENDS `CriticalPath`; `MemorySync` EXTENDS `MemoryDoc`; `Applications` and `PulseCore` EXTEND `Commands` and
`JsonLines`. `TaskBoard` and `AtomicLog` are instantiated (`INSTANCE ... WITH`) by the
modules that implement them. Operators that carry the name of another definition and a
suffix, like `merge_ownCount`, are deliberately wrong versions of it, used to show that
the properties can fail; no specification uses them.

### Runtime and the code

`graph`, `status`, `claimedBy`, `cp`, `fp`, `regime`, `version` and `metrics` are
`LifeState`; `pending` and `physical` are the rows of the snapshot by action id; `bus`
and `prev` (the `prev_*` fields) are the runtime's. `pc` says where `tick` is:
`drain` (first loop), `agent` (the agent's turn), `drain2` (second loop), `idle`
(between host calls). Each message is one action: `ApplyTrigger`, `ApplyReport`,
`ApplyRecompute`, `ApplyDecision`/`RejectDecision`, `ApplyClaim`, `ApplyComplete`. The
`recompute` and `emit_triggers` calls of a handler are part of its action, in the
code's order. A refused decision ends the tick as `?` does, with the message gone and
the rest of the queue in place. The runtime is held by `&mut`, so nothing interleaves
within a tick; hosts act when `pc` is `idle`, where the bus need not be empty.

Abstractions: task ids are positive integers (the code only compares them); a task's
duration is one integer, because the PERT expectation is a constant multiple of the
estimate; the 48 hour deadline horizon is a fixed set of due tasks per graph, with at
most one member, because `derive_triggers` iterates a HashMap; `owned_claimed` is any
owned task for the same reason. Left out: the memory sink, tick report, timestamps,
snapshot history and status, Monte Carlo and explanations; no decision reads them.

### RecordCommit, RecordViews and the code

`log`, `ck` and `staging` are the event log, the checkpoint file and one staging file
per PID; `lock` is the flock. `pc` names the file access a process makes next: `keys`
(`reject_known_keys`), `begin`, `validate`, `create` and `write` (`append_staging`),
`rename` and `clean` (`fsync_unit`), `mark` (Verify checkpoint), `verify`, `clear`; for
recovery `load`, `abandon`, `forget`. `write_atomic` is one step. `IoError` is the
early return of `?` before any access, `Die` the death of the process there: both leave
the files as they are and free the lock (the guard's drop, or the operating system).
Staging files survive their PID. Processes in `Mcp` are MCP servers: they submit no
event in a person's name and cannot recover. Abstractions: an event is its encoded
line, with `KeyOf` its (aggregate, key) pair and `Valid` the outcome of `check()`. Left
out: the simulated faults of tests, failures of the operating system itself (the code
does not sync the directory), and JSON parsing before anything is written (`IoError`
covers its refusal).

`RecordViews` has no variables: a rename replaces the log, so a reader holds the log of
some moment, and every prefix of the log is one. Versions and aggregates are given per
event, because callers choose them. What the code filters and sorts is an arrangement
(`Arranged`) of some positions of the log in an order: in the order written, or by
version, aggregate and place, as a stable sort leaves them.

### OpsStore and the code

`kv` is the kv table (rows `life`, `snap`, `flow`); `pack` the file that backup or
ops-bundle export wrote; `pulse` the channel pulse file. `pc` names a command's next
transaction or file access and `run` holds what it has read: `life`, `snap`, `pair` for
the runtime's commands and gates (`load_runtime`, `save_runtime_pair`); `seed`,
`seed_snap`, `ensure`, `ensure_save`, `focus`, `turn_pair` for turn; `flow`,
`flow_save`, `flow_snap`, `flow_row` for digital-flow cycle; `export`, `pack_open`,
`pack_write`, `unpack`, `import` for backups and bundles; `seed`, `pulse_snap`,
`pulse_life`, `pulse_diff`, `pulse_open`, `pulse_write` for reconcile. What one tick
does to the pair is one step (`Runtime` has the inside of it). `fs::write` is two
steps: the file is cut, then written. `Die` ends a command anywhere. `mixed` is a
history variable: a pack with a snapshot and no life state was imported over a store
that has one. Left out: regime, bus and metrics, the audit table, times and histories
of rows, texts and redaction, schedules and locations in the ranking.

### MemoryDoc, MemorySync and the code

A document keeps its trajectory, its pattern count, its one skill and the moments of its
coherence history; an entry is named by its moment. `file`, `tmp` and `pack` are a
host's memory.json, memory.json.tmp and pulse pack; `fd` says what a file that a process
has open has become since it opened it, because all processes of a host write one
temporary file. One action is one access: `Open`, `Record`/`Reflect`/`Save`, `Sync`,
`OpenTmp`, `WriteTmp`, `Rename`, `Export`, `OpenPack`, `WritePack`, `Import`; `Die` may
come anywhere. The MCP server's tools only read the file and are left out.

### Applications, PulseCore and the code

`Commands` gives each process `pc` (the next file access) and `run` (its command, what
it read, what it still has to write); `JsonLines` gives a file its `lines`, some of them
`Garbled`, and whether the last one is `ended`. `Applications`: `ledger`, `audits` and
`exports` are files, `appended` the rows an append has reported (history), `day` the
clock. Actions carry the names of the functions: `append_check`, `append_open`,
`append_text`, `append_newline`; `audit_check`, `audit_write`; `export_read`,
`export_csv`, `export_markdown`; `export_tracker`; `audit_status`. `HandEdit` is the
owner taking unreadable lines out; `Death` may leave part of a text.

`PulseCore`: `G` holds the owners' files under two roots, `store` and `baks` the mission
store and its backups, `child` the premflow process a check waits for and its pipe,
`strays` the number of such children that were still running when nobody waited for them
any more, `archive` the sidecar.
`import_read`, `import_target`, `import_backup`, `import_replace`; `check_begin`,
`premflow_spawn`, `premflow_writes`, `premflow_exited`, `premflow_timeout`,
`premflow_error`, `check_end`;
`sidecar_index`, `sidecar_text`, `sidecar_newline`; `export_pack`. What a check reads of
databases, notes and logs is chosen when it reads it, as others write them. Only
`premflow_timeout` kills the child: a check that dies, or whose `try_wait` fails,
abandons it (`Abandoned`), and a silent one runs on. Two history variables record what
the properties need and no action reads: `copies`, how often each backup name was copied
to, and `replaced`, the stores renamed over and the name each was copied to.

## 3. Runs

| Run | Instance | Shows |
|---|---|---|
| `runtime` | tasks 1..3; four graphs (a chain work-approval-errand, two approvals with work behind one, a join of digital work, a cycle that is refused); claim and complete commands name 1, which is the errand of the first graph, an approval in the second and a head of digital work in the third; bus of 3; 2 commands, 2 loads | `TypeOK`, `NoHiddenGate`, `CacheFresh`, `DecisionsAgree`, `CommandsSurvive`, `DigitalWorkClears`, and the refinement `BoardSpec` |
| `surfaced_gate` | 1 command, 2 loads | finding: a surfaced gate may be decided already |
| `cleared_gate` | claims may name every task | finding: completing a gate's id clears it without a decision |
| `critical_path` | all graphs whose nodes are some of 4 tasks, with dependencies, nodes or not, along or against the ids; durations 1 and 2; tasks finished in every order | `PathIsLongest`, `CriticalIsOnLongest`, `FirstUnfinishedIsReady`, `EndNeverGrows` against a definition by enumeration |
| `record_commit` | 2 processes, one an MCP server; 7 units (two events; one of them again; another event with a known key; one of the same aggregate and version; a unit that repeats a key; an invalid one; an empty one), 3 calls | `TypeOK`, `KeysUnique`, `VerifyIsTail`, `ViewsAgree`, `PollerMissesNothing`, `OfflineMergeIsSafe`, the refinement `AtomicSpec`, `LockIsReleased` |
| `record_abort` | 2 calls | finding: recovery may say abort of a unit that is in the log |
| `ops` | 3 tasks; a chore between approvals, an approval with an errand, a cycle; a store that is new, loaded or projected; an operator's 11 commands, 3 calls, 1 death; the scheduled pulse | `TypeOK`, `StoredPairAgrees`, `ApprovedFlowRan`, `DecidedStays`, `PulseSettles` |
| `memory` | 2 hosts with a writer each; 3 moments, history of 1, thresholds of 1; 1 death | `TypeOK`, `DocumentsWellFormed`, `NeverTorn`, `NoWriteIsLost`, `Converges` |
| `memory_concurrent` | 2 writers on one host, 2 moments, no deaths | finding: the second rename forgets what the first one wrote |
| `applications` | a writer and a schedule; links that one key or both tell apart or not; a legacy row without a last newline; a pass stated under an earlier rule; 2 calls, 1 death, 2 days | `TypeOK`, `RowsKept`, `NoTwin`, `ReuseGrounded`, `TrackerSound`, `PassIsEarned`, `ExportsSettle` |
| `pulse_core` | an importer, with a table and one that is refused for a repeated id, by force or not, and a schedule; one G source under two roots, 1 edit; a child that exits, one that fills its pipe of 1, one that hangs silently; 2 calls, 1 death or failed wait, 2 seconds; a peer's event newer than the archived one; 3 databases | `TypeOK`, `OldStoreKept`, `ChecksSettle`, `PackCatchesUp` |
| `same_second` | one second, no deaths | finding: the second forced import of a second overwrites the backup of the first |

Why these bounds are enough. *Runtime:* two loads are a load and a reload over its
decisions; two commands are needed for one to be queued behind another (and for a trigger
to come between their handling); a bus of 3 is overrun by the six triggers one step can
push, which exercises all three branches of `push`. Three tasks carry each gate kind, a
dependency across kinds and a join. *Path:* four tasks, the least with two disjoint
chains of two and with a diamond; edges in both directions of the id order make ties
break both ways; a dependency that is no node may be that of a source, of an inner task or
of both. *Record:* three calls are a commit that stops anywhere, a second one
over what it left, and a recovery after both; equal versions of one aggregate make
replay's order matter. *Ops:* the store may be new, loaded
already, or projected by a turn, so three calls are a decision, a backup and its
restoration, or a tick, a turn and a cycle; the death can fall on any of them, and the
pulse, which is not counted, runs between any two accesses. *Memory:* three moments are
an entry, and a reflection on each side; a history of one is drained by the second
reflection, and a threshold of one synthesizes skills on both sides. The passing run has
one writer per host, which `NoWriteIsLost` and `NeverTorn` need; two on one host are
`memory_concurrent`. *Applications:* two appends are a torn one and its
retry; two days make an audit stale. *PulseCore:* the history starts with a
store or with none, so two imports are one and another over it, in one second or in two;
over a store, two forced ones reach the overwritten backup; a pipe of one is filled and
left unread by a child with two writes, and a death leaves a child with any number of
writes to come, or a silent one. Every bound is a `Max*` constant in a guard, or `Capacity`.

Deadlock is checked in the runtime and ops runs (a tick, or the scheduled pulse, can
always begin). The other runs stop when every task is done, every call has been made,
or, for memory, applications and pulse core, when a file no command can read is left.

### Fairness

`Runtime!FairSpec` assumes that a tick, once begun, continues (it is a loop in one
thread) and that the host keeps calling `tick` with the agent on: strong fairness of
`BeginTick(TRUE)`, because the host chooses that call again and again although other
calls come between. Nothing is assumed of operators, commands or loads. The first
conjunct is weak fairness of the tick's steps in an equivalent form, as a tick step is
possible exactly when `pc # "idle"`. `RecordCommit!FairSpec` assumes that a process
holding the lock is scheduled; not that anyone calls, gets the lock or does not fail.
`OpsStore`, `Applications` and `PulseCore` assume it of scheduled processes only (the
weekday schedule that runs reconcile, exports, checks and pack merges again and again):
their steps are taken and their commands started; commands given by hand may stop
anywhere. `PulseCore` also lets the premflow child write while its pipe has room, which
is what the generous timeout amounts to. `MemorySync!FairSpec` assumes that processes
that have begun go on and that hosts keep exporting and importing, strongly, because a
host that records meanwhile disables both again and again. Deaths are bounded, so that
"once nothing dies any more" is part of every liveness property.

## 4. Findings

1. A reload reopens a gate in the graph while its decided row stays
   (`SurfacedGateIsPending`).
2. `complete` on the id of an approval clears it (`ClearedOnlyByDecision`).
3. Two command-line processes that write one host's memory at once lose entries:
   `sync_and_save` holds no lock between its load and its rename (`NoWriteIsLost`).
4. Two forced imports of missions in one second copy onto one backup name, and the store
   that the first one replaced is in no backup (`EveryStoreKept`), though
   `pulse_core.rs:626` says that the old file is kept.
5. `record recover` answers abort for a unit that is durable, after a stop between the
   rename of the log and the Verify checkpoint (`AbortMeansAbsent`); a retry of the unit
   is then refused for its known keys, so nothing is lost or doubled.

`PROJECT.json` quotes the documents. The models also show behaviour that a reader should
know of; the properties are stated around it. Two of these contradict a comment:

- A dependency on an unknown id makes the reported path start anywhere on a longest chain,
  when every longest chain begins at a task with such a dependency. The comment at
  `critical_path.rs:24` says "source → sink along longest path", and `graph.rs:274` that
  missing predecessors are skipped, but `upsert_node` records their edges all the same
  (`graph.rs:118-130`), so that the task is no source for `reconstruct_path`. What remains
  true is `PathIsLongest`; the path may then even hold no unfinished task while some are
  left, and `FirstUnfinishedIsReady` is about graphs without such dependencies.
- A premflow child that writes more than its pipe holds is not drained while it runs; it
  is killed at the timeout and reported as one (`Stuck` in `PulseCore`), although the
  comment at `pulse_core.rs:335` says "Drain so a chatty child can't be mistaken for a
  hang": the reading begins when the child has exited.

The others contradict none:

- Such processes also share one temporary file: one may rename what the other has only
  half written (`Renamed` in `MemorySync`).
- An `AuthNeeded` or `PhysicalBeacon` trigger sets HitlWait whatever the graph is when it
  is handled. Behind a second approval in the queue it would leave HitlWait after the
  last gate cleared; the command line enqueues one command before a tick, so it does not
  come to that (`ApplyTrigger` in `Runtime`).
- Skills with equal versions and different contents keep their host's own
  (`SameButForTies`).
- An event of version 0 passes `check()` and is in no feed: `change_feed` takes what is
  above `since`, and a poller that saw nothing asks since 0 (`RisesAfter` in
  `RecordViews`).
- A pack with a snapshot and no life state, imported over a store that has one, leaves
  two rows that do not belong together (`mixed` in `OpsStore`).
- A premflow child that hangs silently outlives a check that dies, or whose `try_wait`
  fails: nothing kills it (`Abandoned` in `PulseCore`).
- An event appended after a torn archive line shares its line and is lost to readers,
  though the import reports it; the next import adds it again (`PackCatchesUp`).
- The tracker's link key drops the query, so postings told apart only there share a
  side row's key, of which the first application takes it (`TrackerSound`).

## 5. Proofs

Each theorem holds for every value of the constants, from the module's named assumptions
and the hypotheses given here. Every run that a theorem's property belongs to checks it
on a small instance, and its assumptions with it.

- **`RuntimeProofs`**: `TypeCorrect`, `CacheAlwaysFresh`, `HumanWorkNeverHidden`,
  `RuntimeImplementsBoard`, `DecisionsAlwaysAgree`, `CommandsAlwaysSurvive`. The
  strengthening needed for the board is
  `QueueNamed`: a claim or complete command in the queue names one of `ClaimTargets`;
  without it the refinement does not know that the head of the queue may be applied.
  The bus needs an argument of its own: the number of triggers `push` drops is the
  least one at which its loop stops, which exists because the naturals are well
  founded. `DecisionsAgree` is then proved on the board: every step of the runtime is a
  step of the board or leaves it alone, and every board step keeps it. These proofs use
  nothing of the path beyond `NeedsHitl`, so they hold for whatever path is computed.
  `CommandsSurvive` needs `TypeOK` only: one `push` loses triggers at the front and nothing
  else, the message that makes its loop stop being no trigger or not there; such losses
  compose (`LosesTransitive`), so six triggers emitted at once lose no more than one.
- **`CriticalPathProofs`**: `PathIsALongestChain`, `CriticalTasksOnLongestChains`,
  `PathAlwaysGivesWork`, `ProjectEndNeverGrows`, for every finite acyclic graph and every
  status of its tasks. The invariant is only that the graph is acyclic; the work is in the
  operators. The subset order on finite sets is well founded, so a recursive function over
  an acyclic graph exists and is unique, and a statement about all tasks or all chains that
  failed would fail at a least one. Along that: finish times are lengths of longest chains
  to a task (`Forward`), latest finishes those from it (`Backward`); a task has no slack
  exactly when the two add up to the project's end; and the walk of `reconstruct_path`
  steps along tasks without slack, tight ones first, so that it never skips time. A walk
  from the middle is the tail of a longest chain because every task without slack that
  has a predecessor has one without slack that it directly follows (`CriticalBefore`,
  `ThroughCritical`). Nothing is assumed of dependencies that are no nodes; the third
  property is about graphs that have none.
- **`RecordCommitProofs`**, the log: `TypeCorrect`, `KeysAlwaysUnique`,
  `VerifyCheckpointIsTail`, `CommitIsAtomic`. The inductive invariant `IInv` says what a
  process knows at each point: only the lock's holder is past `Acquire` (`Exclusive`);
  until the rename its unit is new to the log, valid and staged, and the checkpoint says
  Begin (`Prepared`); after the rename the log ends with the unit (`Landed`).
  `VerifyIsTail` is not inductive alone: that a later rename does not break it follows
  from `Prepared`, because Begin has overwritten the checkpoint.
- **`RecordCommitProofs`**, the views: `ViewsAlwaysAgree`, `PollersMissNothing`,
  `OfflineMergesAreSafe`. All three hold of any log with valid events and no repeated key
  (`Readable`), which the log is by the theorems before. An arrangement takes each
  position once and in its order, because ranks in a finite strict order are a bijection
  (`ArrangedIs`). Rows are then characterized once (`RowsOf`: of each aggregate the line
  that supersedes the others, `Latest`), the snapshot, replay, `text_of` and a feed applied
  to older rows are each shown to be such rows, and such rows are unique. The merge keeps
  the first line of every key; without a conflict those are all events, and sorting what is
  sorted already changes nothing, which is why a merge sent again adds nothing.
  Proving the poller's property found its condition too weak for events of version 0.
- **`OpsStoreProofs`**: `TypeCorrect`, `PairsAgree`, `ApprovedBillsRan`, `DecisionsStay`.
  `TypeOK` includes that a stored life state caches the path of its own graph and statuses.
  The invariant `Inv` says where each command may stand (`Control`), that what a command
  will write rests on rows nobody has written since it read them (`Read`), and that rows,
  packs and packs just opened are typed and agree. The second part needs
  `OpsCallsAssumption`: one operator gives commands one after the other, beside the
  scheduled pulse, which only writes its own file. `OldStoresAssumption` says that the
  stores a run starts from agree, as those that the commands leave do;
  `MissingAssumption` that a missing row is not a row.
- **`MemorySyncProofs`**: `TypeCorrect` and `HistoriesKeepTheNewest` for any number of
  writers on a host; `FileNeverTorn` and `OneWriterLosesNothing` under `OneWriter`, that no
  two processes write one host's memory, which `memory_concurrent` shows to be needed. For
  the first two every document anywhere, also one that is only held or half written, is
  `Good`, and every operation on documents keeps that: a merge of drained histories has the
  newest moments, since a side that drained something has a full history of its own above
  it. For the other two the invariant says of a process between its open and its rename
  that what it holds remembers all that is in its host's file (`Ahead`), and that the
  temporary file is cut while it writes and holds its document afterwards (`Writing`);
  merge, append, reflect and the import of traces keep what was there. The traces of a
  pack are entries of its document, so importing them adds nothing of its own.
- **`JsonLinesProofs`**: lemmas only: which rows a file of lines has after text, a newline,
  or part of either was added, and after unreadable lines were taken out.
- **`ApplicationsProofs`**: `TypeCorrect`, `ReportedRowsKept`, `NoTwinLines`,
  `ReusedAuditsFollowed`, `PassesEarned`, `TrackerAlwaysSound`. The invariant says that
  what the writer has checked of a row or a batch still holds when it writes it (`Writing`), that every
  readable audit follows what it relies on, however its batch was cut short (`Relied`), and
  that what an export shows is still in its store (`Shown`). It needs
  `CallsAssumption`, that one process appends to the desk's files, and
  `OldFilesAssumption`, that the files a run starts from hold rows the code would write.
  For the tracker, `build` is a `CHOOSE` of a table each of whose rows is found after the
  earlier ones: there is one, because a least set of applications without one would have
  one without its last application; in it no side row is found twice, because the order
  of the table tells any two of its applications apart.
- **`PulseCoreProofs`**: `TypeCorrect`, `OldStoreIsKept`. The invariant says which step of
  its command a process is at (`Control`), that hashes held are of stores that resolved
  (`Hashed`), that there is a premflow child exactly while a check waits for it, and no more
  were left running than checks died or failed to wait (`Waited`), and, of an import that is
  about to rename and of every rename before (`Kept`), that the store replaced is in the
  backup made for it as long as that name was copied to once. A later copy onto the name
  makes it twice; a copy onto another name leaves it alone (`CopyKeeps`). It needs
  `CallsAssumption`, one importer and one checker, and `OldStoresAssumption`, that the
  missions a run starts from were resolved when they were imported.

Only model-checked: liveness (`DigitalWorkClears`, `LockIsReleased`, `PulseSettles`,
`Converges`, `ExportsSettle`, `ChecksSettle`, `PackCatchesUp`), which the prover's
backends do not handle with fairness. Every other property of a passing run is a theorem.

## 6. Not modelled

- `schema` `reconcile.rs`, `restore_drill` and `expire_if_stale`: library functions that
  nothing outside tests calls. They have no place in a behaviour of the program yet.
- Goals and context of the memory document: nothing outside tests writes them.
- Coherence figures and the uncertainty dive: floating-point scores that no decision
  reads.
- The store's audit table (only written), `migrate`, and commands that only print.
- Schema pack records, privacy, paths and realm: checks of single values, without state.
- Parsing and layout of tracker tables, pack and markdown files: what does not parse is
  `Garbled` or `Torn`, the rest is a record.
- The MCP protocol loop and its choice of a permitted log path; delegation and inference,
  which are requests over HTTP and stdio without shared state.
- `prototype/`, `marketplaces/` and `.grok/`: not part of the program.
