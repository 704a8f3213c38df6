---------------------------- MODULE Applications ----------------------------
(***************************************************************************)
(* The application desk of ensembly-kernel: the ledger of job              *)
(* applications (application_ledger.rs), the store of company audits and   *)
(* its gate (company_audit.rs, schema audit.rs), their exports and the     *)
(* tracker table (tracker.rs), as the commands `apps ...` (main.rs) run    *)
(* them.  Both stores are files of JSON lines, appended without a lock:    *)
(* one process writes, others read at any moment, a writer may end         *)
(* anywhere and the owner edits the files by hand.                         *)
(*                                                                         *)
(* A URL is a number, 0 for none; what the two link keys make of it is     *)
(* given by Posting and TrackerKey.                                        *)
(***************************************************************************)
EXTENDS Commands, JsonLines

CONSTANTS
    Writer,          \* the process that appends
    Posting,         \* Posting[u]: link_key of ledger.rs
    TrackerKey,      \* TrackerKey[u]: link_key of tracker.rs, which also drops ?... and #...
    FormUrls,        \* URLs of an application form, whose Posting is another URL
    Side,            \* rows of the hand-kept tracker: a sequence of [url, cr]
    StaleAfter,      \* STALE_AFTER_DAYS
    MaxDay,          \* bound: the clock
    OldLedger,       \* the files a run starts from
    OldAudits

ASSUME ApplicationsAssumption ==
    /\ Writer \in Procs \ Scheduled
    /\ DOMAIN Posting \subseteq Nat
    /\ Side \in Seq([url : DOMAIN TrackerKey, cr : Nat])
    /\ StaleAfter \in Nat /\ MaxDay \in Nat

VARIABLES
    ledger,      \* ledger.jsonl
    audits,      \* company-audits.jsonl
    exports,     \* exports[store]: the csv and the md file, each a set of rows
    appended,    \* history: ledger rows an append has reported
    day

deskVars == <<ledger, audits, exports, appended, day>>
vars == <<cmdVars, deskVars>>
------------------------------------------------------------------------------
(* The ledger's rows. *)

Status == {"prepared", "submitted", "interview", "rejected", "withdrawn", "silent-closed"}

\* A submit_time of 0 is none.
LedgerRow == [cr : Nat, link : DOMAIN Posting, apply : DOMAIN Posting, status : Status,
              time : Nat, unknown : BOOLEAN]

AllowsNoTime(status) == status \in {"prepared", "withdrawn"}

\* A legacy row of a sent application without a time reads as sent at an unknown time.
normalize(r) ==
    IF r.time = 0 /\ ~AllowsNoTime(r.status) THEN [r EXCEPT !.unknown = TRUE] ELSE r

check_row_submit_time(r) ==
    /\ r.unknown => r.time = 0 /\ ~AllowsNoTime(r.status)
    /\ r.time # 0 \/ r.unknown \/ AllowsNoTime(r.status)

\* Every stored line must parse: one that does not fails the whole command.
ReadsAsLedger(f) == AllParse(f) /\ \A r \in RowsOf(f) : check_row_submit_time(normalize(r))

parse_ledger(f) ==
    IF ReadsAsLedger(f) THEN [ok |-> TRUE, rows |-> [i \in DOMAIN f.lines |-> normalize(f.lines[i])]]
    ELSE [ok |-> FALSE, rows |-> <<>>]

same_state_key_rawLink(r) == r

same_state_key(r) == [r EXCEPT !.link = Posting[@]]

\* The last row of each key; the i-th row has key[i].
Latest(rows, key) ==
    {rows[i] : i \in {j \in DOMAIN rows : \A k \in DOMAIN rows : k > j => key[k] # key[j]}}

current_rows(rows) == Latest(rows, [i \in DOMAIN rows |-> Posting[rows[i].link]])

\* What a row says of its application, however its link is written.
State(r) == <<r.cr, Posting[r.link], r.apply, r.status, r.time>>

Untwinned(rows) == \A i, j \in DOMAIN rows : State(rows[i]) = State(rows[j]) => i = j
------------------------------------------------------------------------------
(* The tracker: current rows joined with the hand-kept ones. *)

\* Rows without a time last, then by time, then by link.
Earlier(a, b) ==
    \/ a.time # 0 /\ b.time = 0
    \/ a.time # 0 /\ b.time # 0 /\ a.time < b.time
    \/ a.time = b.time /\ a.link < b.link

find_roleFirst(r, used) ==
    LET free == DOMAIN Side \ used
        ByUrl(u) == {i \in free : TrackerKey[Side[i].url] = TrackerKey[u]}
        byRole == {i \in free : Side[i].cr = r.cr}
        First(S) == CHOOSE i \in S : \A j \in S : i <= j
    IN CASE byRole # {} -> First(byRole)
         [] byRole = {} /\ ByUrl(r.link) # {} -> First(ByUrl(r.link))
         [] OTHER -> 0

\* Index::find: the first unused side row by link, posting before apply URL, else
\* the only unused one of the same company and role; 0 for none.  An absent
\* apply URL finds the side rows without one.
find(r, used) ==
    LET free == DOMAIN Side \ used
        ByUrl(u) == {i \in free : TrackerKey[Side[i].url] = TrackerKey[u]}
        byRole == {i \in free : Side[i].cr = r.cr}
        First(S) == CHOOSE i \in S : \A j \in S : i <= j
    IN CASE ByUrl(r.link) # {} -> First(ByUrl(r.link))
         [] ByUrl(r.link) = {} /\ ByUrl(r.apply) # {} -> First(ByUrl(r.apply))
         [] OTHER -> IF Cardinality(byRole) = 1 THEN First(byRole) ELSE 0

\* Each current application finds its side row after the earlier ones have found theirs.
build(rows) ==
    LET apps == Latest(rows, [i \in DOMAIN rows |-> TrackerKey[rows[i].link]])
        joined == CHOOSE f \in [apps -> 0..Len(Side)] : \A r \in DOMAIN f :
                    f[r] = find(r, {f[q] : q \in {a \in DOMAIN f : Earlier(a, r)}})
    IN [joined |-> joined, unused |-> DOMAIN Side \ {joined[r] : r \in apps}]
------------------------------------------------------------------------------
(* Audits: an audit is [dom, comp, day, checks, verdict, reused], reused the   *)
(* day of the audit it relies on, or -1.                                       *)

Verdict == {"pass", "flag", "block"}
CheckResult == {"pass", "flag", "block", "unknown"}
CheckId == {"apply_domain", "domain_age", "funding_ownership", "headcount", "reviews_news",
            "duplicate_ghost", "payment_id_ask", "agency_repost"}

\* The checks whose `unknown` alone flags: without them the employer may not exist.
UnknownFlags == {"apply_domain", "domain_age", "funding_ownership"}

derive_verdict_before_size_rule(checks) ==
    CASE \E id \in DOMAIN checks : checks[id] = "block" -> "block"
      [] (\A id \in DOMAIN checks : checks[id] # "block")
         /\ (\E id \in DOMAIN checks : \/ checks[id] = "flag"
                                       \/ checks[id] = "unknown" /\ id \in UnknownFlags) -> "flag"
      [] OTHER -> "pass"

derive_verdict(checks) ==
    LET before == derive_verdict_before_size_rule(checks)
        sizeUnknown == checks["headcount"] = "unknown" /\ checks["reviews_news"] = "unknown"
    IN IF before = "pass" /\ sizeUnknown THEN "flag" ELSE before

effective_verdict(a) == derive_verdict(a.checks)

Audit == [dom : STRING, comp : STRING, day : Int, reused : Int, verdict : Verdict,
          checks : UNION {[ids -> CheckResult] : ids \in SUBSET CheckId}]

\* Every check appears exactly once.
validate_audit_body(a) == DOMAIN a.checks = CheckId

check_stated_verdict(a) == a.verdict = derive_verdict(a.checks)

validate_audit(a) == validate_audit_body(a) /\ check_stated_verdict(a)

\* A stored pass that was right under the earlier rule still reads.
validate_stored_audit(a) ==
    /\ validate_audit_body(a)
    /\ \/ a.verdict = "pass" /\ derive_verdict_before_size_rule(a.checks) = "pass"
       \/ check_stated_verdict(a)

parse_audits_lenient(f) ==
    [ok |-> TRUE, rows |-> SelectSeq(Parsed(f), LAMBDA a : validate_stored_audit(a))]

parse_audits(f) ==
    IF AllParse(f) /\ \A a \in RowsOf(f) : validate_stored_audit(a)
    THEN [ok |-> TRUE, rows |-> f.lines]
    ELSE [ok |-> FALSE, rows |-> <<>>]

reuse_target_ok(prior, a) ==
    \/ a.reused = -1
    \/ /\ a.reused < a.day
       /\ \E i \in DOMAIN prior : prior[i].dom = a.dom /\ prior[i].day = a.reused

\* What `apps audit validate` warns of.
dangling_reuse(rows) ==
    {i \in DOMAIN rows : ~reuse_target_ok(SubSeq(rows, 1, i - 1), rows[i])}

\* Each audit that relies on an earlier one follows it.
Grounded(rows) ==
    /\ \A i \in DOMAIN rows : rows[i].reused # -1 =>
          \E j \in 1..(i - 1) : rows[j].dom = rows[i].dom /\ rows[j].day = rows[i].reused
    /\ dangling_reuse(rows) = {}

current_audits(rows) == Latest(rows, [i \in DOMAIN rows |-> rows[i].dom])

\* By domain, or by company: then the most recent of its domains' current audits.
Hits(rows, q) ==
    IF q.by = "dom" THEN {a \in current_audits(rows) : a.dom = q.name}
    ELSE LET named == {a \in current_audits(rows) : a.comp = q.name}
         IN {a \in named : \A b \in named : b.day <= a.day}

\* One of several equally recent audits answers for the company.
status_for(rows, q, now) ==
    IF Hits(rows, q) = {} THEN {"unaudited"}
    ELSE {IF now - a.day > StaleAfter \/ a.day > now THEN "stale" ELSE effective_verdict(a) :
             a \in Hits(rows, q)}

\* Callers of `apps audit status` go by its exit code.
audit_exit_code(status) ==
    CASE status = "pass"  -> 0
      [] status = "flag"  -> 3
      [] status = "block" -> 4
      [] status \in {"unaudited", "stale"} -> 5
------------------------------------------------------------------------------
\* One process writes, at the owner's hand; what it is given parses.
ASSUME CallsAssumption ==
    /\ Garbled \notin LedgerRow \cup Audit
    /\ \A p \in Procs : \A c \in Calls[p] :
          /\ c.op \in {"append", "audit", "export", "tracker", "status"}
          /\ c.op = "append" => p = Writer /\ c.row \in LedgerRow
          /\ c.op = "audit" => p = Writer /\ c.batch \in Seq(Audit)
          /\ c.op = "export" => c.store \in {"ledger", "audits"}

\* The files of a run are ones such runs have left.
ASSUME OldFilesAssumption ==
    /\ OldLedger \in [lines : Seq(LedgerRow), ended : BOOLEAN]
    /\ OldAudits \in [lines : Seq(Audit), ended : BOOLEAN]
    /\ \A r \in RowsOf(OldLedger) : check_row_submit_time(normalize(r))
    /\ \A a \in RowsOf(OldAudits) : validate_stored_audit(a)
    /\ Untwinned(OldLedger.lines) /\ Grounded(OldAudits.lines)

Init ==
    /\ CmdInit
    /\ ledger = OldLedger
    /\ audits = OldAudits
    /\ exports = [store \in {"ledger", "audits"} |-> [csv |-> {}, md |-> {}]]
    /\ appended = {}
    /\ day = 0

\* cmd_apps, cmd_audit: a process starts one of its commands.
Start(p, c) == Begin(p, c, <<>>) /\ UNCHANGED deskVars

(* apps append *)

append_check(p) ==
    LET r == run[p].c.row
        old == parse_ledger(ledger)
        Same(x) == same_state_key(x) = same_state_key(r)
    IN /\ At(p, "append")
       /\ IF /\ check_row_submit_time(r) /\ r.link \notin FormUrls
             /\ old.ok /\ ~\E i \in DOMAIN old.rows : Same(old.rows[i])
          THEN Goto(p, "append_open") /\ UNCHANGED run
          ELSE End(p)
       /\ UNCHANGED deskVars

Reopened_asIs(f) == f

\* open_jsonl_append: a last line without a newline gets one first.
Reopened(f) == AddNewline(f)

append_open(p) ==
    /\ At(p, "append_open")
    /\ ledger' = Reopened(ledger)
    /\ Goto(p, "append_text")
    /\ UNCHANGED <<run, audits, exports, appended, day>>

append_text(p) ==
    /\ At(p, "append_text")
    /\ ledger' = AddText(ledger, run[p].c.row)
    /\ Goto(p, "append_newline")
    /\ UNCHANGED <<run, audits, exports, appended, day>>

append_newline(p) ==
    /\ At(p, "append_newline")
    /\ ledger' = AddNewline(ledger)
    /\ appended' = appended \cup {run[p].c.row}
    /\ End(p)
    /\ UNCHANGED <<audits, exports, day>>

(* apps audit append: every line is checked before the first is written *)

NewAudits_wholeBatch(old, batch) ==
    LET fresh == {i \in DOMAIN batch : /\ \A k \in DOMAIN old : old[k] # batch[i]
                                       /\ \A k \in 1..(i - 1) : batch[k] # batch[i]}
    IN [new |-> Picked(batch, fresh),
        ok |-> \A i \in fresh : reuse_target_ok(old \o batch, batch[i])]

\* The rows of the batch that neither the store nor the batch before them holds, in
\* order; ok when each reuses an audit of the store or of the batch before it.
NewAudits(old, batch) ==
    LET fresh == {i \in DOMAIN batch : /\ \A k \in DOMAIN old : old[k] # batch[i]
                                       /\ \A k \in 1..(i - 1) : batch[k] # batch[i]}
    IN [new |-> Picked(batch, fresh),
        ok |-> \A i \in fresh : reuse_target_ok(old \o SubSeq(batch, 1, i - 1), batch[i])]

audit_check_trustsStated(p) ==
    LET batch == run[p].c.batch
        old == parse_audits(audits)
        fresh == NewAudits(old.rows, batch)
    IN /\ At(p, "audit")
       /\ IF old.ok /\ fresh.ok /\ fresh.new # <<>>
          THEN Goto(p, "audit_write") /\ Holds(p, <<>>, fresh.new)
          ELSE End(p)
       /\ UNCHANGED deskVars

audit_check(p) ==
    LET batch == run[p].c.batch
        old == parse_audits(audits)
        fresh == NewAudits(old.rows, batch)
    IN /\ At(p, "audit")
       /\ IF /\ \A i \in DOMAIN batch : validate_audit(batch[i])
             /\ old.ok /\ fresh.ok /\ fresh.new # <<>>
          THEN Goto(p, "audit_write") /\ Holds(p, <<>>, fresh.new)
          ELSE End(p)
       /\ UNCHANGED deskVars

audit_write(p) ==
    /\ At(p, "audit_write")
    /\ audits' = AddLines(Reopened(audits), run[p].rest)
    /\ End(p)
    /\ UNCHANGED <<ledger, exports, appended, day>>

(* apps export, apps audit export: csv, then md, each replaced in one rename *)

export_read(p) ==
    LET store == run[p].c.store
        read == IF store = "ledger" THEN parse_ledger(ledger) ELSE parse_audits(audits)
        rows == IF store = "ledger" THEN current_rows(read.rows) ELSE current_audits(read.rows)
    IN /\ At(p, "export")
       /\ IF read.ok THEN Goto(p, "export_csv") /\ Holds(p, rows, <<>>) ELSE End(p)
       /\ UNCHANGED deskVars

export_csv_skipsUnchanged(p) ==
    /\ At(p, "export_csv")
    /\ exports' = [exports EXCEPT ![run[p].c.store] = [csv |-> run[p].got, md |-> @.md]]
    /\ IF exports[run[p].c.store].csv = run[p].got
       THEN End(p)
       ELSE Goto(p, "export_markdown") /\ UNCHANGED run
    /\ UNCHANGED <<ledger, audits, appended, day>>

export_csv(p) ==
    /\ At(p, "export_csv")
    /\ exports' = [exports EXCEPT ![run[p].c.store] = [csv |-> run[p].got, md |-> @.md]]
    /\ Goto(p, "export_markdown")
    /\ UNCHANGED <<run, ledger, audits, appended, day>>

export_markdown(p) ==
    /\ At(p, "export_markdown")
    /\ exports' = [exports EXCEPT ![run[p].c.store] = [csv |-> @.csv, md |-> run[p].got]]
    /\ End(p)
    /\ UNCHANGED <<ledger, audits, appended, day>>

export_step(p) == export_read(p) \/ export_csv(p) \/ export_markdown(p)

\* apps export --tracker: the table, then TRACKER.md in one rename.
export_tracker(p) ==
    LET read == parse_ledger(ledger)
    IN /\ At(p, "tracker")
       /\ IF read.ok THEN Goto(p, "tracker_write") /\ Holds(p, build(read.rows), <<>>) ELSE End(p)
       /\ UNCHANGED deskVars

\* apps audit status: no answer from a store that does not read.
audit_status(p) ==
    LET read == parse_audits(audits)
    IN /\ At(p, "status")
       /\ IF read.ok
          THEN /\ Goto(p, "status_print")
               /\ \E status \in status_for(read.rows, run[p].c.q, day) : Holds(p, audit_exit_code(status), <<>>)
          ELSE End(p)
       /\ UNCHANGED deskVars

\* The table is in place, the answer is printed; no command reads either again.
Delivered(p) ==
    /\ At(p, "tracker_write") \/ At(p, "status_print")
    /\ End(p)
    /\ UNCHANGED deskVars

(* What happens around the commands *)

\* A command ends early; in a write, part of the text may have reached the file.
Death(p) ==
    /\ Dies(p)
    /\ CASE pc[p] = "append_text" ->
              /\ ledger' \in {ledger, AddText(ledger, Garbled)}
              /\ UNCHANGED audits
         [] pc[p] = "audit_write" ->
              /\ audits' \in {audits} \cup CutShort(Reopened(audits), run[p].rest)
              /\ UNCHANGED ledger
         [] OTHER -> UNCHANGED <<ledger, audits>>
    /\ UNCHANGED <<exports, appended, day>>

\* The owner takes out the lines that do not parse, and forgets the last newline.
Mended(f) == [lines |-> Parsed(f), ended |-> Parsed(f) = <<>>]

HandEdit ==
    /\ pc[Writer] = "idle"
    /\ \/ ~AllParse(ledger) /\ ledger' = Mended(ledger) /\ UNCHANGED audits
       \/ ~AllParse(audits) /\ audits' = Mended(audits) /\ UNCHANGED ledger
    /\ UNCHANGED <<cmdVars, exports, appended, day>>

NextDay ==
    /\ day < MaxDay
    /\ day' = day + 1
    /\ UNCHANGED <<cmdVars, ledger, audits, exports, appended>>

\* The steps of the commands that leave the stores alone.
ReadStep(p) == export_step(p) \/ export_tracker(p) \/ audit_status(p) \/ Delivered(p)

Step(p) ==
    \/ append_check(p) \/ append_open(p) \/ append_text(p) \/ append_newline(p)
    \/ audit_check(p) \/ audit_write(p)
    \/ ReadStep(p)

Next ==
    \/ \E p \in Procs : Step(p) \/ Death(p) \/ \E c \in Calls[p] : Start(p, c)
    \/ HandEdit \/ NextDay

Spec == Init /\ [][Next]_vars

\* Each export is started again and again, and takes its steps.
FairSpec ==
    /\ Spec
    /\ \A p \in Scheduled :
         /\ WF_vars(ReadStep(p))
         /\ \A c \in Calls[p] : c.op = "export" => SF_vars(Start(p, c))
------------------------------------------------------------------------------
(* Properties *)

\* The desk's files hold rows of their kind, and every process is at a step of its command.
TypeOK ==
    /\ \A p \in Procs : /\ run[p].c.op = "none" <=> pc[p] = "idle"
                        /\ pc[p] # "idle" => run[p].c \in Calls[p]
    /\ calls \in 0..MaxCalls /\ deaths \in 0..MaxDeaths /\ day \in 0..MaxDay
    /\ ledger.ended \in BOOLEAN /\ audits.ended \in BOOLEAN
    /\ \A r \in RowsOf(ledger) : r \in LedgerRow /\ check_row_submit_time(normalize(r))
    /\ \A a \in RowsOf(audits) : /\ validate_stored_audit(a) /\ a.verdict \in Verdict
                                /\ a.checks \in [CheckId -> CheckResult]
    /\ exports["ledger"].csv \cup exports["ledger"].md
         \subseteq {normalize(r) : r \in RowsOf(ledger)}
    /\ exports["audits"].csv \cup exports["audits"].md \subseteq RowsOf(audits)

\* A row that `apps append` has reported stays a readable line of the ledger,
\* whatever died or was edited before and after (open_jsonl_append).
RowsKept == appended \subseteq RowsOf(ledger)

\* With one writer, no two lines of the ledger record the same state, however the
\* link was written and whether an earlier append died after its text (append_row).
NoTwin == Untwinned(Parsed(ledger))

\* No check of a objects to the company.
NoObjection(a) ==
    /\ \A id \in DOMAIN a.checks : /\ a.checks[id] \notin {"block", "flag"}
                                   /\ id \in UnknownFlags => a.checks[id] = "pass"
    /\ a.checks["headcount"] = "pass" \/ a.checks["reviews_news"] = "pass"

\* The store's last word about a domain that q asks for: recent, and without objection.
Earned(q) ==
    \E i \in DOMAIN audits.lines :
        LET a == audits.lines[i]
        IN /\ a # Garbled
           /\ (IF q.by = "dom" THEN a.dom ELSE a.comp) = q.name
           /\ NoObjection(a)
           /\ day - a.day \in 0..StaleAfter
           /\ \A k \in DOMAIN audits.lines :
                k > i => audits.lines[k] # Garbled /\ audits.lines[k].dom # a.dom

Passes(p) == pc[p] = "status_print" /\ run[p].got = 0

\* `apps audit status` exits with 0 only when the company has earned it: a line that
\* does not read may be about any domain, and a pass stated under an earlier rule is
\* no pass (status_for, parse_audits).
PassIsEarned ==
    [][\A p \in Procs : Passes(p)' /\ ~Passes(p) => Earned(run[p].c.q)]_vars

\* Every audit that relies on an earlier one follows it in the store, also after an
\* append that was cut short (check_reuse, append_audits), and
\* `apps audit validate` warns of none.
ReuseGrounded == Grounded(Parsed(audits))

SideKey(s) == TrackerKey[Side[s].url]

JoinSound(t) ==
    /\ \A q, r \in DOMAIN t.joined : t.joined[q] = t.joined[r] => q = r \/ t.joined[q] = 0
    /\ \A s \in t.unused, r \in DOMAIN t.joined :
         SideKey(s) = TrackerKey[r.link] => t.joined[r] # 0 /\ SideKey(t.joined[r]) = SideKey(s)

\* In TRACKER.md a side row is joined to at most one application, and one whose
\* posting the ledger holds is not listed as still to be sent unless that
\* application took another side row of the same posting (tracker.rs build, find).
TrackerSound == \A p \in Procs : pc[p] = "tracker_write" => JoinSound(run[p].got)

\* With the schedule running, both exports of a store come to show it, and show the
\* same rows, whichever command died between the two files (write_exports).
ExportsSettle ==
    LET Shows(store, read, rows) ==
            read.ok => exports[store] = [csv |-> rows, md |-> rows]
    IN <>[](/\ Shows("ledger", parse_ledger(ledger), current_rows(parse_ledger(ledger).rows))
            /\ Shows("audits", parse_audits(audits), current_audits(parse_audits(audits).rows)))
=============================================================================
