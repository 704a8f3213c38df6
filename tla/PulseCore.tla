----------------------------- MODULE PulseCore -----------------------------
(***************************************************************************)
(* The pulse commands of ensembly-kernel that keep their own files: the    *)
(* mission store with its import and the check of the owners' G sources    *)
(* (pulse_core.rs), and the archive sidecar with the packs made from it    *)
(* and merged into it (pulse_pack.rs; what a pack carries of the memory is *)
(* MemorySync's).  Missions are imported by hand; checks, exports and      *)
(* imports of packs run on a schedule, while owners edit their G sources.  *)
(***************************************************************************)
EXTENDS Commands, JsonLines

CONSTANTS
    None,          \* no store, no backup, nothing read
    Torn,          \* a file whose copy was cut short
    Gs,            \* paths of G sources
    Roots,         \* how many roots a path is looked for under, in their order
    Gone,          \* no file
    OldG,          \* the G sources a run starts from
    Tables,        \* Tables[spec]: the rows of its mission table, [id, owner, guess, gs]
    Databases,     \* pulse databases, [integrity, traces, resolutions], or None: a check opens one
    NoteDirs,      \* what it finds of pulse notes: their ages in days
    Logs,          \* premflow logs: the ages of the entries, None for one it cannot read
    StaleWarnDays,
    Premflows,     \* what `premflow stats` may do, [kind, left]: how it ends, after writing how much
    PipeSize,      \* how much it can write before someone reads
    OldStores,     \* the mission stores, or None, and the sidecar a run starts from
    OldArchive,
    Incoming,      \* the events of a peer's pack: [key, ts]
    OpsAudit,      \* the events of the local operations store
    MaxEdits,      \* bound: changes of the G sources
    MaxSecond      \* bound: the clock that names backups

ASSUME PulseCoreAssumption ==
    /\ MaxEdits \in Nat /\ MaxSecond \in Nat /\ PipeSize \in Nat /\ Roots \in Nat
    /\ OldG \in [1..Roots -> [Gs -> {0, Gone}]]
    /\ \A c \in Premflows : c.kind # "none" /\ c.left \in Nat

\* Missions are imported by hand, one import at a time, and one schedule runs the checks.
ASSUME CallsAssumption ==
    /\ \A p \in Procs : \A c \in Calls[p] : c.op \in {"import", "check", "merge", "export"}
    /\ \A p, q \in Procs : \A c \in Calls[p], d \in Calls[q] :
          c.op = d.op /\ c.op \in {"import", "check"} => p = q

VARIABLES
    G,          \* G[r][g]: the version an owner's file is at under root r, or Gone
    edits,      \* changes so far; a version is the change that made it
    store,      \* missions.json: the missions of a spec with the G versions hashed
    baks,       \* baks[s]: missions.json.bak-<s>
    second,     \* when the latest import began
    child,      \* the premflow process a check waits for: what it has left to write, and
                \* what is in the pipe
    strays,     \* how many others were left running
    archive,    \* the sidecar
    copies,     \* history: how often a store was copied to baks[s]
    replaced    \* history: the mission stores that imports replaced, and when these began

histVars == <<copies, replaced>>
pulseVars == <<G, edits, store, baks, second, child, strays, archive, histVars>>
vars == <<cmdVars, pulseVars>>

NoChild == [kind |-> "none", left |-> 0, pipe |-> 0]

Init ==
    /\ CmdInit
    /\ G = OldG
    /\ edits = 0
    /\ store \in OldStores
    /\ baks = [s \in 0..MaxSecond |-> None]
    /\ second = 0
    /\ child = NoChild
    /\ strays = 0
    /\ archive = OldArchive
    /\ copies = [s \in 0..MaxSecond |-> 0]
    /\ replaced = {}

\* A command starts.  An import takes the time then; nothing else looks at the clock.
Start(p, c) ==
    /\ IF c.op = "import"
       THEN \E s \in {second, second + 1} \cap 0..MaxSecond :
               second' = s /\ Begin(p, c, <<s>>)
       ELSE Begin(p, c, <<>>) /\ UNCHANGED second
    /\ UNCHANGED <<G, edits, store, baks, child, strays, archive, histVars>>
------------------------------------------------------------------------------
(* G sources and the mission table *)

\* The first root that has the path.
resolve_g(g) ==
    LET has == {r \in 1..Roots : G[r][g] # Gone}
    IN  IF has = {} THEN None ELSE CHOOSE r \in has : \A q \in has : r <= q

\* A version stands for its hash, Gone for none.
hash_g_path(r, g) == G[r][g]

\* A table without rows, or with two missions of one id, is none.
parse_mission_table(rows) ==
    IF rows # <<>> /\ \A i, j \in DOMAIN rows : rows[i].id = rows[j].id => i = j
    THEN {rows[i] : i \in DOMAIN rows} ELSE None

GFile(g) == LET r == resolve_g(g)
            IN  [resolved |-> r, sha |-> IF r = None THEN Gone ELSE hash_g_path(r, g)]

Mission(row) == [id |-> row.id, owner |-> row.owner, confirmed |-> ~row.guess,
                 gs |-> [g \in row.gs |-> GFile(g)]]

Sources(s) == UNION {{<<m, g>> : g \in DOMAIN m.gs} : m \in s}

\* A path is resolved under one of the roots, or not at all.
Resolved(s) == \A x \in Sources(s) : x[1].gs[x[2]].resolved \in 1..Roots \cup {None}

ASSUME OldStoresAssumption == \A s \in OldStores : s # None => Resolved(s)

\* A path that resolved at import is resolved anew when it has gone.
g_snapshot(s) ==
    LET At_(m, g) == IF G[m.gs[g].resolved][g] = Gone /\ resolve_g(g) # None
                     THEN resolve_g(g) ELSE m.gs[g].resolved
    IN  [k \in {x \in Sources(s) : x[1].gs[x[2]].resolved # None} |->
            hash_g_path(At_(k[1], k[2]), k[2])]
------------------------------------------------------------------------------
(* ensembly pulse missions import *)

import_read(p) ==
    /\ At(p, "import")
    /\ LET rows == parse_mission_table(Tables[run[p].c.spec]) IN
         IF rows = None THEN End(p)
         ELSE Goto(p, "import_target") /\ Holds(p, run[p].got, {Mission(row) : row \in rows})
    /\ UNCHANGED pulseVars

\* An existing store is refused, or kept first when --force is given.
import_target(p) ==
    /\ At(p, "import_target")
    /\ CASE store = None -> Goto(p, "import_replace") /\ UNCHANGED run
         [] store # None /\ run[p].c.force -> Goto(p, "import_backup") /\ UNCHANGED run
         [] OTHER -> End(p)
    /\ UNCHANGED pulseVars

\* Something is written to the backup of second s.
Copied(s, what) ==
    /\ baks' = [baks EXCEPT ![s] = what]
    /\ copies' = [copies EXCEPT ![s] = @ + 1]

\* Mutant: every backup has the one name.
import_backup_oneName(p) ==
    /\ At(p, "import_backup")
    /\ Copied(0, store)
    /\ Goto(p, "import_replace")
    /\ UNCHANGED <<run, G, edits, store, second, child, strays, archive, replaced>>

\* The backup is named by the second the import started in; one of that name is replaced.
import_backup(p) ==
    /\ At(p, "import_backup")
    /\ Copied(run[p].got[1], store)
    /\ Goto(p, "import_replace")
    /\ UNCHANGED <<run, G, edits, store, second, child, strays, archive, replaced>>

\* The new store is written beside the old one and renamed over it.
import_replace(p) ==
    /\ At(p, "import_replace")
    /\ store' = run[p].rest
    /\ replaced' = IF store = None THEN replaced
                   ELSE replaced \cup {[was |-> store, at |-> run[p].got[1]]}
    /\ End(p)
    /\ UNCHANGED <<G, edits, baks, second, child, strays, archive, copies>>
------------------------------------------------------------------------------
(* ensembly pulse check *)

Found(id, severity, holds) == IF holds THEN {[id |-> id, severity |-> severity]} ELSE {}

verdict_of(findings) ==
    LET has(severity) == \E f \in findings : f.severity = severity
    IN  CASE has("fail") -> "fail" [] ~has("fail") /\ has("warn") -> "warn" [] OTHER -> "ok"

\* The age of the newest thing, None when there is nothing.
Newest(ages) == IF ages = {} THEN None ELSE Min(ages)

Unresolved == {"", "open", "unresolved", "pending"}

\* A trace names the one that took its place, or None, and was last seen some days ago.
db_stats(d) ==
    LET took(k) == d.traces[k].superseded_by
    IN  [integrity |-> d.integrity,
         conflicts |-> Cardinality({i \in DOMAIN d.resolutions : d.resolutions[i] \in Unresolved}),
         dangling  |-> {k \in DOMAIN d.traces : took(k) \notin DOMAIN d.traces \cup {None}},
         age       |-> Newest({d.traces[k].age : k \in DOMAIN d.traces})]

\* Staleness is a nudge.
check_stale(id, age) == Found(id, "warn", age >= StaleWarnDays)

check_db_stats(s) ==
    Found("db.integrity", "fail", s.integrity # "ok")
      \cup Found("db.conflicts", "fail", s.conflicts > 0)
      \cup Found("db.superseded", "warn", s.dangling # {})
      \cup (IF s.age = None THEN Found("db.stale", "warn", TRUE)
                            ELSE check_stale("db.stale", s.age))

check_db(d) == IF d = None THEN Found("db", "fail", TRUE) ELSE check_db_stats(db_stats(d))

newest_note_date(notes) == Newest(notes)

check_notes(notes) ==
    LET age == newest_note_date(notes)
    IN  IF age = None THEN {} ELSE check_stale("notes.stale", age)

read_premflow_log(l) ==
    [readable |-> l # None, newest |-> IF l = None THEN None ELSE Newest(l)]

\* The log is read when the child has ended; an old entry is no more than a note.
check_premflow(stats, log) ==
    Found("premflow.stats", "warn", stats # "ok")
      \cup Found("premflow.log", "warn", ~log.readable)
      \cup (IF log.newest = None THEN {}
            ELSE Found("premflow.log", "note", log.newest >= StaleWarnDays))

\* load_store and the first g_snapshot: the hashes before everything else.
check_begin(p) ==
    /\ At(p, "check")
    /\ Goto(p, "check_premflow")
    /\ Holds(p, [store  |-> store,
                 before |-> IF store = None THEN None ELSE g_snapshot(store)], <<>>)
    /\ UNCHANGED pulseVars

PremflowEnds(p, stats) == Goto(p, "check_end") /\ Holds(p, run[p].got, <<stats>>)

\* run_premflow_stats: a child, or no program, or one that does not start: no child, and for
\* the check one answer.
premflow_spawn(p) ==
    /\ At(p, "check_premflow")
    /\ \/ /\ \E c \in Premflows : child' = [kind |-> c.kind, left |-> c.left, pipe |-> 0]
          /\ Goto(p, "premflow_wait") /\ UNCHANGED run
       \/ PremflowEnds(p, "error") /\ UNCHANGED child
    /\ UNCHANGED <<G, edits, store, baks, second, strays, archive, histVars>>

\* The child writes while the pipe has room, then exits, unless it hangs.
premflow_writes ==
    /\ child.left > 0 /\ child.pipe < PipeSize
    /\ child' = [kind |-> child.kind, left |-> child.left - 1, pipe |-> child.pipe + 1]
    /\ UNCHANGED <<cmdVars, G, edits, store, baks, second, strays, archive, histVars>>

Exited == child.left = 0 /\ child.kind # "hangs"

\* try_wait: the parent reads nothing before the child has ended.
premflow_exited(p) ==
    /\ At(p, "premflow_wait") /\ Exited
    /\ PremflowEnds(p, child.kind)
    /\ child' = NoChild
    /\ UNCHANGED <<G, edits, store, baks, second, strays, archive, histVars>>

\* Nobody waits for the child any more, and nothing ends it: one that has not exited runs
\* on, until it writes into the pipe that nobody holds or, if it is silent, for good.
Abandoned ==
    /\ child' = NoChild
    /\ strays' = IF Exited THEN strays ELSE strays + 1

\* The timeout is long beside what the child does when it can go on.
Stuck == IF child.left > 0 THEN child.pipe = PipeSize ELSE child.kind = "hangs"

\* Mutant: the check gives up on the child without killing it.
premflow_timeout_noKill(p) ==
    /\ At(p, "premflow_wait") /\ Stuck
    /\ PremflowEnds(p, "timeout")
    /\ Abandoned
    /\ UNCHANGED <<G, edits, store, baks, second, archive, histVars>>

\* kill and wait.
premflow_timeout(p) ==
    /\ At(p, "premflow_wait") /\ Stuck
    /\ PremflowEnds(p, "timeout")
    /\ child' = NoChild
    /\ UNCHANGED <<G, edits, store, baks, second, strays, archive, histVars>>

\* try_wait fails, and the child is left as it is.  Such failures are bounded with the
\* deaths, and counted among them.
premflow_error(p) ==
    /\ pc[p] = "premflow_wait"
    /\ deaths < MaxDeaths /\ deaths' = deaths + 1
    /\ PremflowEnds(p, "error")
    /\ Abandoned
    /\ UNCHANGED <<calls, G, edits, store, baks, second, archive, histVars>>

check_missions(missions) ==
    Found("missions.owner", "note", \E m \in missions : ~m.confirmed)
      \cup Found("missions.owner", "warn", \E m \in missions : m.owner = None)
      \cup Found("missions.g_source", "note",
                 \E x \in Sources(missions) : x[1].gs[x[2]].resolved = None)

changed_keys(before, after) == {k \in DOMAIN before : before[k] # after[k]}

drift_from_baseline(now) == {k \in DOMAIN now : now[k] # k[1].gs[k[2]].sha}

\* Mutant: drift from the import is taken for a change under the check.
check_g_baseline(missions, before) ==
    Found("g.unchanged", "fail", drift_from_baseline(g_snapshot(missions)) # {})
      \cup Found("g.drift", "note", drift_from_baseline(before) # {})

\* G sources that changed while the check ran fail it; drift from the import does not.
check_g(missions, before) ==
    Found("g.unchanged", "fail", changed_keys(before, g_snapshot(missions)) # {})
      \cup Found("g.drift", "note", drift_from_baseline(before) # {})

\* Other programs write the pulse database, the notes and the premflow log whenever they
\* like, so what was read of them is chosen here.
check_end(p) ==
    /\ At(p, "check_end")
    /\ Goto(p, "check_print")
    /\ LET was == run[p].got
           missions == IF was.store = None THEN Found("missions", "note", TRUE)
                       ELSE check_missions(was.store) \cup check_g(was.store, was.before)
       IN \E d \in Databases, notes \in NoteDirs, l \in Logs :
            LET found == check_db(d) \cup check_notes(notes)
                           \cup check_premflow(run[p].rest[1], read_premflow_log(l)) \cup missions
            IN  Holds(p, [verdict |-> verdict_of(found),
                          failed |-> {f.id : f \in {x \in found : x.severity = "fail"}}], <<>>)
    /\ UNCHANGED pulseVars
------------------------------------------------------------------------------
(* ensembly pulse-pack import and export: the archive sidecar *)

KnownSince_anyTime(f, e) == \E x \in RowsOf(f) : x.key = e.key

\* load_archive_index: the newest time of each key; lines that do not parse are skipped.
KnownSince(f, e) == \E x \in RowsOf(f) : x.key = e.key /\ e.ts <= x.ts

\* merge_archive_sidecar: the index is read once, before the first line is written.
sidecar_index(p) ==
    /\ At(p, "merge")
    /\ Goto(p, "merge_line")
    /\ Holds(p, <<>>, SelectSeq(Incoming, LAMBDA e : ~KnownSince(archive, e)))
    /\ UNCHANGED pulseVars

sidecar_text(p) ==
    /\ At(p, "merge_line")
    /\ IF run[p].rest = <<>> THEN End(p) /\ UNCHANGED archive
       ELSE /\ archive' = AddText(archive, Head(run[p].rest))
            /\ Goto(p, "merge_newline") /\ UNCHANGED run
    /\ UNCHANGED <<G, edits, store, baks, second, child, strays, histVars>>

sidecar_newline(p) ==
    /\ At(p, "merge_newline")
    /\ archive' = AddNewline(archive)
    /\ Goto(p, "merge_line")
    /\ Holds(p, <<>>, Tail(run[p].rest))
    /\ UNCHANGED <<G, edits, store, baks, second, child, strays, histVars>>

\* merge_archive_events: an event of more takes the place of the last older one of its key.
merge_archive_events(base, more) ==
    LET Put(b, e) ==
            LET same == {i \in DOMAIN b : b[i].key = e.key}
                last == CHOOSE i \in same : \A j \in same : j <= i
            IN CASE same = {} -> Append(b, e)
                 [] same # {} /\ b[last].ts < e.ts -> [b EXCEPT ![last] = e]
                 [] OTHER -> b
    IN FoldLeft(Put, base, more)

\* export_pulse_pack: what parses of the sidecar, and the local audit.
export_pack(p) ==
    /\ At(p, "export")
    /\ Goto(p, "export_write")
    /\ Holds(p, merge_archive_events(Parsed(archive), OpsAudit), <<>>)
    /\ UNCHANGED pulseVars

\* The verdict is printed, the pack is written; no command here reads either again.
Delivered(p) ==
    /\ At(p, "check_print") \/ At(p, "export_write")
    /\ End(p)
    /\ UNCHANGED pulseVars
------------------------------------------------------------------------------
(* What happens around the commands *)

\* A command ends early; a copy or a line may stop half-way, and a premflow child is left
\* behind.
Death(p) ==
    /\ Dies(p)
    /\ CASE pc[p] = "import_backup" ->
              /\ UNCHANGED <<baks, copies>> \/ Copied(run[p].got[1], Torn)
              /\ UNCHANGED <<archive, child, strays>>
         [] pc[p] = "merge_line" /\ run[p].rest # <<>> ->
              /\ archive' \in {archive, AddText(archive, Garbled)}
              /\ UNCHANGED <<baks, copies, child, strays>>
         [] pc[p] = "premflow_wait" -> Abandoned /\ UNCHANGED <<baks, copies, archive>>
         [] OTHER -> UNCHANGED <<baks, copies, archive, child, strays>>
    /\ UNCHANGED <<G, edits, store, second, replaced>>

\* A file is written, or goes.
OwnerEdits(r, g) ==
    /\ edits < MaxEdits
    /\ edits' = edits + 1
    /\ \E version \in {edits + 1, Gone} \ {G[r][g]} : G' = [G EXCEPT ![r] = [@ EXCEPT ![g] = version]]
    /\ UNCHANGED <<cmdVars, store, baks, second, child, strays, archive, histVars>>

Step(p) ==
    \/ import_read(p) \/ import_target(p) \/ import_backup(p) \/ import_replace(p)
    \/ check_begin(p) \/ premflow_spawn(p) \/ premflow_exited(p) \/ premflow_timeout(p)
    \/ premflow_error(p) \/ check_end(p)
    \/ sidecar_index(p) \/ sidecar_text(p) \/ sidecar_newline(p) \/ export_pack(p)
    \/ Delivered(p)

Next ==
    \/ \E p \in Procs : Step(p) \/ Death(p) \/ \E c \in Calls[p] : Start(p, c)
    \/ premflow_writes \/ \E r \in 1..Roots, g \in Gs : OwnerEdits(r, g)

Spec == Init /\ [][Next]_vars

\* Scheduled commands take their steps, the child writes while it can, and each
\* scheduled command is started again and again.
FairSpec ==
    /\ Spec
    /\ WF_vars(premflow_writes)
    /\ \A p \in Scheduled : WF_vars(Step(p)) /\ \A c \in Calls[p] : SF_vars(Start(p, c))
------------------------------------------------------------------------------
(* Properties *)

\* Every file holds what belongs in it, a process is at a step of its command, premflow is
\* one of those that may be, and only a check that died, or failed to wait, has left one
\* running: those that hang do not pile up under the schedule (run_premflow_stats).
TypeOK ==
    /\ \A p \in Procs : pc[p] = "idle" <=> run[p].c.op = "none"
    /\ G \in [1..Roots -> [Gs -> 0..MaxEdits \cup {Gone}]] /\ edits \in 0..MaxEdits
    /\ store # None => Resolved(store)
    /\ child # NoChild <=> \E p \in Procs : pc[p] = "premflow_wait"
    /\ child # NoChild =>
          /\ child.pipe <= PipeSize
          /\ \E c \in Premflows : c.kind = child.kind /\ c.left = child.left + child.pipe
    /\ strays <= deaths

\* The store that an import has replaced is in that import's backup, and stays there while
\* no later import of the same second copies over it, whatever is imported, or dies in its
\* copy, in other seconds (import_missions: "the old file is kept").
OldStoreKept ==
    \A x \in replaced : copies[x.at] = 1 => baks[x.at] = x.was

\* "Refuses to overwrite an existing store unless `force` (then the old file is kept as
\* `missions.json.bak-<utc>`)": every store an import replaced is in a backup.
EveryStoreKept ==
    \A x \in replaced : \E s \in 0..MaxSecond : baks[s] = x.was

\* Checks keep ending, also when premflow hangs or fills its pipe, and once the owners
\* have stopped editing only the database can fail one: not a G source that moved, went or
\* drifted from the import, and nothing that is merely old (run_premflow_stats, check_g).
ChecksSettle ==
    /\ \A p \in Scheduled : []<>(pc[p] = "check_print")
    /\ <>[](\A p \in Procs : pc[p] = "check_print" =>
              /\ run[p].got.failed \subseteq {"db", "db.integrity", "db.conflicts"}
              /\ run[p].got.failed = {} => run[p].got.verdict # "fail")

Carries(events, e) ==
    \E i \in DOMAIN events : events[i].key = e.key /\ events[i].ts >= e.ts

\* Exports keep ending, and what they write comes to hold, for every event a peer has
\* sent, that event or a newer one of its key, though an import may die inside a line
\* and the next one lose its first event to it (merge_archive_sidecar, export_pulse_pack).
PackCatchesUp ==
    /\ \A p \in Scheduled : []<>(pc[p] = "export_write")
    /\ <>[](\A p \in Procs : pc[p] = "export_write" =>
              \A i \in DOMAIN Incoming : Carries(run[p].got, Incoming[i]))

=============================================================================
