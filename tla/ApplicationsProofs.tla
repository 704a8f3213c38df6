-------------------------- MODULE ApplicationsProofs --------------------------
(***************************************************************************)
(* Proofs about Applications, for every number of rows, audits, readers    *)
(* and deaths: what the desk's files hold, that no reported row is lost    *)
(* and none is recorded twice, that reused audits follow what they reuse,  *)
(* that a pass is earned, and that the tracker joins each side row once.   *)
(***************************************************************************)
EXTENDS Applications, JsonLinesProofs, WellFoundedInduction

LedgerLines == LedgerRow \cup {Garbled}
AuditLines == Audit \cup {Garbled}

-----------------------------------------------------------------------------
(* Rows *)

LEMMA RowFields ==
    ASSUME NEW r \in LedgerRow
    PROVE  /\ r.cr \in Nat /\ r.link \in DOMAIN Posting /\ r.apply \in DOMAIN Posting
           /\ r.status \in Status /\ r.time \in Nat /\ r.unknown \in BOOLEAN
           /\ r # Garbled
  BY CallsAssumption DEF LedgerRow

\* A row without a time either may have none, or says that its time is unknown.
LEMMA NormalFields ==
    ASSUME NEW r \in LedgerRow
    PROVE  /\ normalize(r) \in LedgerRow
           /\ normalize(r).cr = r.cr /\ normalize(r).link = r.link
           /\ normalize(r).apply = r.apply /\ normalize(r).status = r.status
           /\ normalize(r).time = r.time
           /\ normalize(r).unknown = (r.unknown \/ (r.time = 0 /\ ~AllowsNoTime(r.status)))
  <1>1. CASE r.time = 0 /\ ~AllowsNoTime(r.status)
    <2>1. normalize(r) = [r EXCEPT !.unknown = TRUE]
      BY <1>1 DEF normalize
    <2> QED
      BY <1>1, <2>1 DEF LedgerRow
  <1>2. CASE ~(r.time = 0 /\ ~AllowsNoTime(r.status))
    <2>1. normalize(r) = r
      BY <1>2, Zenon DEF normalize
    <2>2. r.unknown \in BOOLEAN
      BY RowFields
    <2> QED
      BY <1>2, <2>1, <2>2
  <1> QED
    BY <1>1, <1>2

LEMMA NormalChecks ==
    ASSUME NEW r \in LedgerRow, check_row_submit_time(r)
    PROVE  check_row_submit_time(normalize(r))
  <1>1. /\ normalize(r).status = r.status /\ normalize(r).time = r.time
        /\ normalize(r).unknown = (r.unknown \/ (r.time = 0 /\ ~AllowsNoTime(r.status)))
    BY NormalFields
  <1>2. r.unknown \in BOOLEAN
    BY RowFields
  <1> QED
    BY <1>1, <1>2, Zenon DEF check_row_submit_time

\* What a checked row says of its time, it says with time and status alone.
LEMMA UnknownIs ==
    ASSUME NEW r \in LedgerRow, check_row_submit_time(r)
    PROVE  r.unknown = (r.time = 0 /\ ~AllowsNoTime(r.status))
  <1>1. r.unknown \in BOOLEAN
    BY RowFields
  <1> QED
    BY <1>1, Zenon DEF check_row_submit_time

LEMMA KeyIs ==
    ASSUME NEW r \in LedgerRow
    PROVE  same_state_key(r) = [cr |-> r.cr, link |-> Posting[r.link], apply |-> r.apply,
                                status |-> r.status, time |-> r.time, unknown |-> r.unknown]
  BY DEF same_state_key, LedgerRow

\* Two rows that read and say the same of an application have the same key.
LEMMA SameStateSameKey ==
    ASSUME NEW a \in LedgerRow, NEW b \in LedgerRow,
           check_row_submit_time(normalize(a)), check_row_submit_time(b),
           State(a) = State(b)
    PROVE  same_state_key(normalize(a)) = same_state_key(b)
  <1> DEFINE n == normalize(a)
  <1>1. n \in LedgerRow /\ n.cr = a.cr /\ n.link = a.link /\ n.apply = a.apply
        /\ n.status = a.status /\ n.time = a.time
    BY NormalFields
  <1>2. a.cr = b.cr /\ Posting[a.link] = Posting[b.link] /\ a.apply = b.apply
        /\ a.status = b.status /\ a.time = b.time
    BY DEF State
  <1>3. check_row_submit_time(n)
    OBVIOUS
  <1> HIDE DEF n
  <1>4. n.unknown = (n.time = 0 /\ ~AllowsNoTime(n.status))
    BY <1>1, <1>3, UnknownIs
  <1>5. b.unknown = (b.time = 0 /\ ~AllowsNoTime(b.status))
    BY UnknownIs
  <1>6. n.unknown = b.unknown
    BY <1>1, <1>2, <1>4, <1>5, Zenon
  <1>7. same_state_key(n) = same_state_key(b)
    <2>1. same_state_key(n) = [cr |-> n.cr, link |-> Posting[n.link], apply |-> n.apply,
                               status |-> n.status, time |-> n.time, unknown |-> n.unknown]
      BY <1>1, KeyIs
    <2>2. same_state_key(b) = [cr |-> b.cr, link |-> Posting[b.link], apply |-> b.apply,
                               status |-> b.status, time |-> b.time, unknown |-> b.unknown]
      BY KeyIs
    <2>3. Posting[n.link] = Posting[b.link]
      BY <1>1, <1>2
    <2> QED
      BY <1>1, <1>2, <1>6, <2>1, <2>2, <2>3, Zenon
  <1> QED
    BY <1>7 DEF n

LEMMA LatestRows ==
    ASSUME NEW rows, NEW key
    PROVE  Latest(rows, key) \subseteq {rows[i] : i \in DOMAIN rows}
  BY DEF Latest

-----------------------------------------------------------------------------
(* Audits *)

LEMMA AuditFields ==
    ASSUME NEW a \in Audit
    PROVE  a.day \in Int /\ a.reused \in Int /\ a.verdict \in Verdict /\ a # Garbled
  BY CallsAssumption DEF Audit

LEMMA ChecksAre ==
    ASSUME NEW a \in Audit, validate_audit_body(a)
    PROVE  a.checks \in [CheckId -> CheckResult]
  <1>1. a.checks \in UNION {[ids -> CheckResult] : ids \in SUBSET CheckId}
    BY DEF Audit
  <1>2. PICK ids \in SUBSET CheckId : a.checks \in [ids -> CheckResult]
    BY <1>1
  <1>3. ids = CheckId
    BY <1>2 DEF validate_audit_body
  <1> QED
    BY <1>2, <1>3

LEMMA ValidStored ==
    ASSUME NEW a, validate_audit(a) PROVE validate_stored_audit(a)
  BY DEF validate_audit, validate_stored_audit

LEMMA VerdictIs ==
    ASSUME NEW checks PROVE derive_verdict(checks) \in Verdict
  <1>1. derive_verdict_before_size_rule(checks) \in Verdict
    <2>1. CASE \E id \in DOMAIN checks : checks[id] = "block"
      <3>1. derive_verdict_before_size_rule(checks) = "block"
        BY <2>1, Zenon DEF derive_verdict_before_size_rule
      <3> QED
        BY <3>1 DEF Verdict
    <2>2. CASE ~\E id \in DOMAIN checks : checks[id] = "block"
      <3>1. derive_verdict_before_size_rule(checks) \in {"flag", "pass"}
        BY <2>2, Zenon DEF derive_verdict_before_size_rule
      <3> QED
        BY <3>1 DEF Verdict
    <2> QED
      BY <2>1, <2>2
  <1> QED
    BY <1>1 DEF derive_verdict, Verdict

\* A pass means that nothing objects.
LEMMA PassMeans ==
    ASSUME NEW a, a.checks \in [CheckId -> CheckResult], effective_verdict(a) = "pass"
    PROVE  NoObjection(a)
  <1> DEFINE c == a.checks
  <1>1. derive_verdict_before_size_rule(c) = "pass"
        /\ ~(c["headcount"] = "unknown" /\ c["reviews_news"] = "unknown")
    BY DEF effective_verdict, derive_verdict
  <1>2. ~\E id \in DOMAIN c : c[id] = "block"
    <2> SUFFICES ASSUME \E id \in DOMAIN c : c[id] = "block" PROVE FALSE
      OBVIOUS
    <2>1. derive_verdict_before_size_rule(c) = "block"
      BY Zenon DEF derive_verdict_before_size_rule
    <2> QED
      BY <1>1, <2>1
  <1>3. ~\E id \in DOMAIN c : \/ c[id] = "flag"
                              \/ c[id] = "unknown" /\ id \in UnknownFlags
    <2> SUFFICES ASSUME \E id \in DOMAIN c : \/ c[id] = "flag"
                                             \/ c[id] = "unknown" /\ id \in UnknownFlags
                 PROVE  FALSE
      OBVIOUS
    <2>1. derive_verdict_before_size_rule(c) = "flag"
      BY <1>2, Zenon DEF derive_verdict_before_size_rule
    <2> QED
      BY <1>1, <2>1
  <1>4. \A id \in CheckId : c[id] \in {"pass", "flag", "block", "unknown"}
    BY DEF CheckResult
  <1>5. "headcount" \in CheckId /\ "reviews_news" \in CheckId /\ DOMAIN c = CheckId
    BY DEF CheckId
  <1> QED
    BY <1>1, <1>2, <1>3, <1>4, <1>5 DEF NoObjection

-----------------------------------------------------------------------------
(* Lines that say a thing once, and lines that follow what they rely on *)

\* No two lines that parse say the same of an application.
Single(lines) ==
    \A i, j \in DOMAIN lines :
        lines[i] # Garbled /\ lines[j] # Garbled /\ State(lines[i]) = State(lines[j]) => i = j

\* A line before the i-th is the audit that the i-th reuses.
Follows(lines, i) ==
    /\ lines[i].reused < lines[i].day
    /\ \E j \in DOMAIN lines : /\ j < i /\ lines[j] # Garbled
                               /\ lines[j].dom = lines[i].dom /\ lines[j].day = lines[i].reused

Following(lines) ==
    \A i \in DOMAIN lines : lines[i] # Garbled /\ lines[i].reused # -1 => Follows(lines, i)

LEMMA ParsedSingle ==
    ASSUME NEW f \in Files(LedgerLines), Single(f.lines)
    PROVE  Untwinned(Parsed(f)) /\ Single(Parsed(f))
  <1> DEFINE rows == Parsed(f)
  <1>1. /\ rows \in Seq(LedgerLines)
        /\ \A k \in DOMAIN rows : /\ LineOf(f, k) \in DOMAIN f.lines
                                  /\ rows[k] = f.lines[LineOf(f, k)]
                                  /\ rows[k] # Garbled
        /\ \A k, l \in DOMAIN rows : k < l => LineOf(f, k) < LineOf(f, l)
    BY ParsedIs
  <1>2. DOMAIN rows \subseteq Nat /\ DOMAIN f.lines \subseteq Nat
    BY <1>1, FileFields
  <1> HIDE DEF rows
  <1>3. ASSUME NEW i \in DOMAIN rows, NEW j \in DOMAIN rows, State(rows[i]) = State(rows[j])
        PROVE  i = j
    <2>1. LineOf(f, i) = LineOf(f, j)
      BY <1>1, <1>3 DEF Single
    <2>2. LineOf(f, i) \in Nat
      BY <1>1, <1>2
    <2>3. ~(i < j) /\ ~(j < i)
      BY <1>1, <2>1, <2>2
    <2> QED
      BY <1>2, <2>3
  <1> QED
    BY <1>3 DEF Untwinned, Single, rows

\* A sequence of audits follows when its audits are grounded in it.
LEMMA GroundedFollowing ==
    ASSUME NEW rows \in Seq(Audit), Grounded(rows)
    PROVE  Following(rows)
  <1> SUFFICES ASSUME NEW i \in DOMAIN rows, rows[i].reused # -1 PROVE Follows(rows, i)
    BY DEF Following
  <1>1. i \in 1..Len(rows) /\ i \in Nat /\ Len(rows) \in Nat /\ DOMAIN rows = 1..Len(rows)
    OBVIOUS
  <1>2. reuse_target_ok(SubSeq(rows, 1, i - 1), rows[i])
    BY DEF Grounded, dangling_reuse
  <1>3. rows[i].reused < rows[i].day
    BY <1>2 DEF reuse_target_ok
  <1>4. PICK j \in 1..(i - 1) : rows[j].dom = rows[i].dom /\ rows[j].day = rows[i].reused
    BY DEF Grounded
  <1>5. j \in DOMAIN rows /\ j < i
    BY <1>1, <1>4
  <1>6. rows[j] # Garbled
    BY <1>5, AuditFields
  <1> QED
    BY <1>3, <1>4, <1>5, <1>6 DEF Follows

LEMMA FollowingGrounded ==
    ASSUME NEW rows \in Seq(Audit), Following(rows)
    PROVE  Grounded(rows)
  <1>1. DOMAIN rows = 1..Len(rows) /\ Len(rows) \in Nat
    OBVIOUS
  <1>2. ASSUME NEW i \in DOMAIN rows, rows[i].reused # -1
        PROVE  /\ rows[i].reused < rows[i].day
               /\ \E j \in 1..(i - 1) : rows[j].dom = rows[i].dom /\ rows[j].day = rows[i].reused
    <2>1. rows[i] # Garbled
      BY AuditFields
    <2>2. Follows(rows, i)
      BY <1>2, <2>1 DEF Following
    <2>3. PICK j \in DOMAIN rows : j < i /\ rows[j].dom = rows[i].dom
                                   /\ rows[j].day = rows[i].reused
      BY <2>2 DEF Follows
    <2>4. j \in 1..(i - 1)
      BY <1>1, <2>3
    <2> QED
      BY <2>2, <2>3, <2>4 DEF Follows
  <1>3. dangling_reuse(rows) = {}
    <2> SUFFICES ASSUME NEW i \in DOMAIN rows
                 PROVE  reuse_target_ok(SubSeq(rows, 1, i - 1), rows[i])
      BY DEF dangling_reuse
    <2>1. CASE rows[i].reused = -1
      BY <2>1 DEF reuse_target_ok
    <2>2. CASE rows[i].reused # -1
      <3>1. PICK j \in 1..(i - 1) : rows[j].dom = rows[i].dom /\ rows[j].day = rows[i].reused
        BY <1>2, <2>2
      <3>2. i - 1 \in 0..Len(rows)
        BY <1>1
      <3>3. /\ DOMAIN SubSeq(rows, 1, i - 1) = 1..(i - 1)
            /\ SubSeq(rows, 1, i - 1)[j] = rows[j]
        BY <1>1, <3>2
      <3> QED
        BY <1>2, <2>2, <3>1, <3>3 DEF reuse_target_ok
    <2> QED
      BY <2>1, <2>2
  <1> QED
    BY <1>2, <1>3 DEF Grounded

LEMMA ParsedAudits ==
    ASSUME NEW f \in Files(AuditLines) PROVE Parsed(f) \in Seq(Audit)
  <1>1. /\ Parsed(f) \in Seq(AuditLines)
        /\ \A k \in DOMAIN Parsed(f) : Parsed(f)[k] # Garbled
    BY ParsedIs
  <1>2. \A k \in 1..Len(Parsed(f)) : Parsed(f)[k] \in Audit
    BY <1>1 DEF AuditLines
  <1> QED
    BY <1>1, <1>2

LEMMA ParsedFollowing ==
    ASSUME NEW f \in Files(AuditLines), Following(f.lines)
    PROVE  Following(Parsed(f))
  <1> DEFINE rows == Parsed(f)
  <1>1. /\ rows \in Seq(AuditLines)
        /\ \A k \in DOMAIN rows : /\ LineOf(f, k) \in DOMAIN f.lines
                                  /\ rows[k] = f.lines[LineOf(f, k)]
                                  /\ rows[k] # Garbled
        /\ \A k, l \in DOMAIN rows : k < l => LineOf(f, k) < LineOf(f, l)
        /\ \A i \in DOMAIN f.lines : f.lines[i] # Garbled =>
              \E k \in DOMAIN rows : LineOf(f, k) = i
    BY ParsedIs
  <1>2. DOMAIN rows \subseteq Nat /\ DOMAIN f.lines \subseteq Nat
    BY <1>1, FileFields
  <1> HIDE DEF rows
  <1>3. ASSUME NEW k \in DOMAIN rows, rows[k].reused # -1 PROVE Follows(rows, k)
    <2>1. Follows(f.lines, LineOf(f, k))
      BY <1>1, <1>3 DEF Following
    <2>2. PICK j \in DOMAIN f.lines :
              /\ j < LineOf(f, k) /\ f.lines[j] # Garbled
              /\ f.lines[j].dom = rows[k].dom /\ f.lines[j].day = rows[k].reused
      BY <1>1, <2>1 DEF Follows
    <2>3. PICK l \in DOMAIN rows : LineOf(f, l) = j
      BY <1>1, <2>2
    <2>4. ~(k < l) /\ k # l
      BY <1>1, <1>2, <2>2, <2>3
    <2>5. l < k
      BY <1>2, <2>4
    <2>6. rows[k].reused < rows[k].day
      BY <1>1, <2>1 DEF Follows
    <2> QED
      BY <1>1, <2>2, <2>3, <2>5, <2>6 DEF Follows
  <1> QED
    BY <1>3 DEF Following, rows

\* The first lines of a sequence follow when all of it does.
LEMMA PrefixFollowing ==
    ASSUME NEW s, NEW t, Following(s), DOMAIN t \subseteq DOMAIN s,
           \A i \in DOMAIN t : t[i] = s[i],
           \A i \in DOMAIN t : \A j \in DOMAIN s : j < i => j \in DOMAIN t
    PROVE  Following(t)
  <1> SUFFICES ASSUME NEW i \in DOMAIN t, t[i] # Garbled, t[i].reused # -1
               PROVE  Follows(t, i)
    BY DEF Following
  <1>1. Follows(s, i) /\ t[i] = s[i]
    BY DEF Following
  <1>2. PICK j \in DOMAIN s : /\ j < i /\ s[j] # Garbled
                              /\ s[j].dom = s[i].dom /\ s[j].day = s[i].reused
    BY <1>1 DEF Follows
  <1>3. j \in DOMAIN t /\ t[j] = s[j]
    BY <1>2
  <1> QED
    BY <1>1, <1>2, <1>3 DEF Follows

\* A line that does not parse is no audit that others need follow, nor one that follows.
LEMMA GarbledFollowing ==
    ASSUME NEW S, NEW s \in Seq(S), Following(s), Garbled \in S
    PROVE  Following(Append(s, Garbled))
  <1> DEFINE t == Append(s, Garbled)
  <1>1. /\ DOMAIN s = 1..Len(s) /\ Len(s) \in Nat /\ DOMAIN t = 1..(Len(s) + 1)
        /\ t[Len(s) + 1] = Garbled /\ \A i \in 1..Len(s) : t[i] = s[i]
    OBVIOUS
  <1> HIDE DEF t
  <1> SUFFICES ASSUME NEW i \in DOMAIN t, t[i] # Garbled, t[i].reused # -1
               PROVE  Follows(t, i)
    BY DEF Following, t
  <1>2. i \in DOMAIN s /\ t[i] = s[i]
    BY <1>1
  <1>3. Follows(s, i)
    BY <1>2 DEF Following
  <1>4. PICK j \in DOMAIN s : /\ j < i /\ s[j] # Garbled
                              /\ s[j].dom = s[i].dom /\ s[j].day = s[i].reused
    BY <1>3 DEF Follows
  <1>5. j \in DOMAIN t /\ t[j] = s[j]
    BY <1>1, <1>4
  <1> QED
    BY <1>2, <1>3, <1>4, <1>5 DEF Follows

\* What the new audits of a batch rely on is in the store or among those before them.
LEMMA NewFollow ==
    ASSUME NEW old \in Seq(Audit), Following(old), NEW batch \in Seq(Audit),
           NewAudits(old, batch).ok
    PROVE  /\ NewAudits(old, batch).new \in Seq(Audit)
           /\ \A k \in DOMAIN NewAudits(old, batch).new :
                \E i \in DOMAIN batch : NewAudits(old, batch).new[k] = batch[i]
           /\ Following(old \o NewAudits(old, batch).new)
  <1> DEFINE I == {i \in DOMAIN batch : /\ \A k \in DOMAIN old : old[k] # batch[i]
                                        /\ \A k \in 1..(i - 1) : batch[k] # batch[i]}
             new == Picked(batch, I)
             n == Cardinality(I)
             L == Len(old)
  <1>1. /\ NewAudits(old, batch).new = new
        /\ \A i \in I : reuse_target_ok(old \o SubSeq(batch, 1, i - 1), batch[i])
    BY DEF NewAudits
  <1>2. /\ DOMAIN batch = 1..Len(batch) /\ Len(batch) \in Nat
        /\ \A i \in DOMAIN batch : i \in Nat /\ batch[i] \in Audit
        /\ DOMAIN old = 1..L /\ L \in Nat
    OBVIOUS
  <1>3. I \in SUBSET Nat /\ I \in SUBSET (1..Len(batch)) /\ IsFiniteSet(1..Len(batch))
    <2>1. \A i \in I : i \in DOMAIN batch
      OBVIOUS
    <2> HIDE DEF I
    <2>2. I \in SUBSET Nat /\ I \in SUBSET (1..Len(batch))
      BY <1>2, <2>1
    <2>3. IsFiniteSet(1..Len(batch))
      BY <1>2, FS_Interval
    <2> QED
      BY <2>2, <2>3
  <1>4. IsFiniteSet(I)
    BY <1>3, FS_Subset
  <1>5. \A i \in DOMAIN batch : ~(i \in I) =>
            (\E k \in DOMAIN old : old[k] = batch[i]) \/ (\E k \in 1..(i - 1) : batch[k] = batch[i])
    OBVIOUS
  <1> HIDE DEF I
  <1>6. /\ n \in Nat
        /\ new = [k \in 1..n |-> batch[Position(I, k)]]
        /\ \A k \in 1..n : Position(I, k) \in I
        /\ \A k, l \in 1..n : k < l => Position(I, k) < Position(I, l)
        /\ \A i \in I : \E k \in 1..n : Position(I, k) = i
    BY <1>3, <1>4, PickedIs
  <1> HIDE DEF new, n, L
  <1>7. /\ \A k \in 1..n : new[k] = batch[Position(I, k)] /\ Position(I, k) \in DOMAIN batch
        /\ DOMAIN new = 1..n
    BY <1>2, <1>3, <1>6
  <1>8. new \in Seq(Audit) /\ Len(new) = n
    BY <1>2, <1>6, <1>7
  <1>9. /\ DOMAIN (old \o new) = 1..(L + n)
        /\ \A i \in 1..L : i \in 1..(L + n) /\ (old \o new)[i] = old[i]
        /\ \A k \in 1..n : L + k \in 1..(L + n) /\ (old \o new)[L + k] = new[k]
        /\ \A i \in 1..(L + n) : i \in 1..L \/ \E k \in 1..n : i = L + k
    <2>1. /\ DOMAIN (old \o new) = 1..(Len(old) + Len(new))
          /\ \A i \in 1..Len(old) : i \in 1..(Len(old) + Len(new)) /\ (old \o new)[i] = old[i]
          /\ \A k \in 1..Len(new) : Len(old) + k \in 1..(Len(old) + Len(new))
                                    /\ (old \o new)[Len(old) + k] = new[k]
          /\ \A i \in 1..(Len(old) + Len(new)) :
                i \in 1..Len(old) \/ \E k \in 1..Len(new) : i = Len(old) + k
      <3>1. new \in Seq(Audit)
        BY <1>8
      <3> QED
        BY <3>1, ConcatIs
    <2> QED
      BY <1>8, <2>1 DEF L
  \* An audit of the batch is in the store, or new and not later.
  <1>10. ASSUME NEW m \in DOMAIN batch
         PROVE  \/ \E y \in DOMAIN old : old[y] = batch[m]
                \/ \E k \in 1..n : Position(I, k) <= m /\ new[k] = batch[m]
    <2> DEFINE E == {e \in 1..m : batch[e] = batch[m]}
    <2>1. E \in SUBSET Nat /\ m \in E /\ E \in SUBSET (1..m) /\ m \in Nat
      BY <1>2
    <2>2. IsFiniteSet(E)
      <3>1. IsFiniteSet(1..m)
        BY <2>1, FS_Interval
      <3> QED
        BY <2>1, <3>1, FS_Subset
    <2>3. \A e \in E : e \in DOMAIN batch /\ batch[e] = batch[m] /\ e <= m /\ e \in Nat
      BY <1>2
    <2>4. \A e \in 1..m : batch[e] = batch[m] => e \in E
      OBVIOUS
    <2> HIDE DEF E
    <2>5. PICK e \in E : \A d \in E : e <= d
      BY <2>1, <2>2, LeastOf
    <2>6. CASE e \in I
      <3>1. PICK k \in 1..n : Position(I, k) = e
        BY <1>6, <2>6
      <3> QED
        BY <1>7, <2>3, <3>1
    <2>7. CASE ~(e \in I)
      <3>1. ASSUME NEW k \in 1..(e - 1), batch[k] = batch[e] PROVE FALSE
        <4>1. k \in 1..m /\ k < e /\ batch[k] = batch[m]
          BY <2>1, <2>3, <3>1
        <4>2. k \in E /\ k \in Nat /\ e \in Nat
          BY <2>3, <2>4, <4>1
        <4> QED
          BY <2>5, <4>1, <4>2
      <3> QED
        BY <1>5, <2>3, <2>7, <3>1
    <2> QED
      BY <2>6, <2>7
  <1>11. Following(old \o new)
    <2> DEFINE s == old \o new
    <2> SUFFICES ASSUME NEW x \in DOMAIN s, s[x] # Garbled, s[x].reused # -1
                 PROVE  Follows(s, x)
      BY DEF Following
    <2>1. CASE x \in 1..L
      <3>1. s[x] = old[x] /\ x \in DOMAIN old
        BY <1>2, <1>9, <2>1
      <3>2. Follows(old, x)
        BY <3>1 DEF Following
      <3>3. PICK j \in DOMAIN old : /\ j < x /\ old[j] # Garbled
                                    /\ old[j].dom = old[x].dom /\ old[j].day = old[x].reused
        BY <3>2 DEF Follows
      <3>4. j \in DOMAIN s /\ s[j] = old[j]
        BY <1>2, <1>9
      <3> HIDE DEF s
      <3> QED
        BY <3>1, <3>2, <3>3, <3>4 DEF Follows
    <2>2. ASSUME NEW k \in 1..n, x = L + k PROVE Follows(s, x)
      <3> DEFINE i == Position(I, k)
                 part == SubSeq(batch, 1, i - 1)
      <3>1. i \in I /\ i \in DOMAIN batch /\ s[x] = batch[i]
        BY <1>6, <1>7, <1>9, <2>2
      <3>2. reuse_target_ok(old \o part, batch[i])
        BY <1>1, <3>1
      <3>3. batch[i].reused # -1
        BY <3>1
      <3>4. /\ batch[i].reused < batch[i].day
            /\ \E y \in DOMAIN (old \o part) :
                  (old \o part)[y].dom = batch[i].dom /\ (old \o part)[y].day = batch[i].reused
        BY <3>2, <3>3 DEF reuse_target_ok
      <3>5. /\ part \in Seq(Audit) /\ i - 1 \in Nat /\ Len(part) = i - 1
            /\ \A y \in 1..(i - 1) : part[y] = batch[y] /\ y \in DOMAIN batch
        BY <1>2, <3>1
      <3>6. PICK y \in DOMAIN (old \o part) :
                (old \o part)[y].dom = batch[i].dom /\ (old \o part)[y].day = batch[i].reused
        BY <3>4
      <3> HIDE DEF i, part
      \* A line before x that is the audit reused by the i-th of the batch.
      <3>7. \E j \in DOMAIN s : j < x /\ s[j] \in Audit /\ s[j].dom = batch[i].dom
                                /\ s[j].day = batch[i].reused
        <4>1. /\ DOMAIN (old \o part) = 1..(L + (i - 1))
              /\ \A z \in 1..L : (old \o part)[z] = old[z]
              /\ \A z \in 1..(i - 1) : (old \o part)[L + z] = part[z]
              /\ \A z \in 1..(L + (i - 1)) : z \in 1..L \/ \E w \in 1..(i - 1) : z = L + w
          <5>1. part \in Seq(Audit)
            BY <3>5
          <5>2. /\ DOMAIN (old \o part) = 1..(Len(old) + Len(part))
                /\ \A z \in 1..Len(old) : (old \o part)[z] = old[z]
                /\ \A z \in 1..Len(part) : (old \o part)[Len(old) + z] = part[z]
                /\ \A z \in 1..(Len(old) + Len(part)) :
                      z \in 1..Len(old) \/ \E w \in 1..Len(part) : z = Len(old) + w
            BY <5>1, ConcatIs
          <5> QED
            BY <3>5, <5>2 DEF L
        <4>2. ASSUME NEW z \in DOMAIN old,
                     old[z].dom = batch[i].dom /\ old[z].day = batch[i].reused
              PROVE  \E j \in DOMAIN s : j < x /\ s[j] \in Audit /\ s[j].dom = batch[i].dom
                                         /\ s[j].day = batch[i].reused
          <5>1. z \in DOMAIN s /\ s[z] = old[z] /\ old[z] \in Audit
            BY <1>2, <1>9, <4>2
          <5>2. z < x
            BY <1>2, <2>2, <1>6
          <5> QED
            BY <4>2, <5>1, <5>2
        <4>3. ASSUME NEW w \in 1..(i - 1), y = L + w
              PROVE  \E j \in DOMAIN s : j < x /\ s[j] \in Audit /\ s[j].dom = batch[i].dom
                                         /\ s[j].day = batch[i].reused
          <5>1. w \in DOMAIN batch /\ w < i /\ w \in Nat /\ i \in Nat
                /\ batch[w].dom = batch[i].dom /\ batch[w].day = batch[i].reused
            <6>1. (old \o part)[y] = part[w] /\ part[w] = batch[w] /\ w \in DOMAIN batch
              BY <3>5, <4>1, <4>3
            <6>2. i \in Nat /\ w \in Nat /\ w < i
              BY <1>2, <3>1, <4>3
            <6> QED
              BY <3>6, <6>1, <6>2
          <5>2. CASE \E z \in DOMAIN old : old[z] = batch[w]
            BY <4>2, <5>1, <5>2
          <5>3. ASSUME NEW l \in 1..n, Position(I, l) <= w, new[l] = batch[w]
                PROVE  \E j \in DOMAIN s : j < x /\ s[j] \in Audit /\ s[j].dom = batch[i].dom
                                           /\ s[j].day = batch[i].reused
            <6>1. Position(I, l) \in Nat /\ Position(I, k) = i
              BY <1>2, <1>7 DEF i
            <6>2. Position(I, l) < Position(I, k)
              BY <5>1, <5>3, <6>1
            <6>3. k \in Nat /\ l \in Nat
              BY <1>6
            <6>4. ~(k < l)
              <7>1. k < l => Position(I, k) < Position(I, l)
                BY <1>6
              <7> QED
                BY <5>1, <6>1, <6>2, <7>1
            <6>5. l < k
              BY <6>2, <6>1, <5>1, <6>3, <6>4
            <6>6. L + l \in DOMAIN s /\ s[L + l] = batch[w] /\ batch[w] \in Audit
              BY <1>2, <1>9, <5>1, <5>3
            <6>7. L + l < x
              BY <1>2, <2>2, <6>3, <6>5
            <6> QED
              BY <5>1, <6>6, <6>7
          <5> QED
            BY <1>10, <5>1, <5>2, <5>3
        <4>4. CASE y \in 1..L
          <5>1. y \in DOMAIN old /\ (old \o part)[y] = old[y]
            BY <1>2, <4>1, <4>4
          <5> QED
            BY <3>6, <4>2, <5>1
        <4> QED
          BY <3>6, <4>1, <4>3, <4>4
      <3> HIDE DEF s
      <3> QED
        BY <3>1, <3>4, <3>7, AuditFields DEF Follows
    <2> QED
      BY <1>9, <2>1, <2>2
  <1>12. \A k \in DOMAIN new : \E i \in DOMAIN batch : new[k] = batch[i]
    BY <1>7
  <1> QED
    BY <1>1, <1>8, <1>11, <1>12

-----------------------------------------------------------------------------
(* The inductive invariant *)

AppendStep == {"append", "append_open", "append_text", "append_newline"}
AuditStep == {"audit", "audit_write"}
ExportStep == {"export", "export_csv", "export_markdown"}
AskStep == {"tracker", "tracker_write", "status", "status_print"}
CommandStep == AppendStep \cup AuditStep \cup ExportStep \cup AskStep

Counted == calls \in 0..MaxCalls /\ deaths \in 0..MaxDeaths /\ day \in 0..MaxDay

\* A process is at a step of the command it runs.
CommandOf(p) ==
    /\ run[p].c.op = "none" <=> pc[p] = "idle"
    /\ pc[p] # "idle" => run[p].c \in Calls[p]
    /\ pc[p] \in AppendStep => run[p].c.op = "append"
    /\ pc[p] \in AuditStep => run[p].c.op = "audit"
    /\ pc[p] \in ExportStep => run[p].c.op = "export"

Control ==
    /\ pc \in [Procs -> {"idle"} \cup CommandStep]
    /\ DOMAIN run = Procs
    /\ \A p \in Procs : CommandOf(p)

\* The lines of the files: what they are, what they say once and what they rely on.
Stored ==
    /\ ledger \in Files(LedgerLines)
    /\ \A r \in RowsOf(ledger) : check_row_submit_time(normalize(r))
    /\ Single(ledger.lines)
    /\ appended \subseteq RowsOf(ledger)

Relied ==
    /\ audits \in Files(AuditLines)
    /\ \A a \in RowsOf(audits) : validate_stored_audit(a)
    /\ Following(audits.lines)

\* What the writer has checked still holds when it writes.
Writing ==
    /\ pc[Writer] \in {"append_open", "append_text"} =>
          /\ check_row_submit_time(run[Writer].c.row)
          /\ \A r \in RowsOf(ledger) : State(r) # State(run[Writer].c.row)
    /\ pc[Writer] = "append_text" => ledger.ended
    /\ pc[Writer] = "append_newline" => run[Writer].c.row \in RowsOf(ledger)
    /\ pc[Writer] = "audit_write" =>
          /\ run[Writer].rest \in Seq(Audit)
          /\ \A k \in DOMAIN run[Writer].rest : validate_audit(run[Writer].rest[k])
          /\ Following(audits.lines \o run[Writer].rest)

\* What an export shows was read from its store, and is still there.
RowsIn(name, l, a) == IF name = "ledger" THEN {normalize(r) : r \in RowsOf(l)} ELSE RowsOf(a)
Rows(name) == RowsIn(name, ledger, audits)

Shown ==
    /\ DOMAIN exports = {"ledger", "audits"}
    /\ \A name \in {"ledger", "audits"} :
          exports[name].csv \subseteq Rows(name) /\ exports[name].md \subseteq Rows(name)
    /\ \A p \in Procs : pc[p] \in {"export_csv", "export_markdown"} =>
          run[p].got \subseteq Rows(run[p].c.store)

Inv == Counted /\ Control /\ Stored /\ Relied /\ Writing /\ Shown

-----------------------------------------------------------------------------
(* Control *)

Same(q) == pc'[q] = pc[q] /\ run'[q] = run[q]

LEMMA StepLabel ==
    /\ \A l \in CommandStep : l # "idle"
    /\ \A l \in AppendStep : ~(l \in AuditStep) /\ ~(l \in ExportStep) /\ ~(l \in AskStep)
    /\ \A l \in AuditStep : ~(l \in AppendStep) /\ ~(l \in ExportStep) /\ ~(l \in AskStep)
    /\ \A l \in ExportStep : ~(l \in AppendStep) /\ ~(l \in AuditStep) /\ ~(l \in AskStep)
    /\ \A l \in AskStep : ~(l \in AppendStep) /\ ~(l \in AuditStep) /\ ~(l \in ExportStep)
    /\ \A l \in AppendStep \cup AuditStep \cup ExportStep \cup AskStep : l \in CommandStep
  BY DEF CommandStep, AppendStep, AuditStep, ExportStep, AskStep

\* Only the writer is at a step that writes a store.
LEMMA WriterWrites ==
    ASSUME Control, NEW p \in Procs, pc[p] \in AppendStep \cup AuditStep
    PROVE  /\ p = Writer
           /\ pc[p] \in AppendStep => run[p].c.row \in LedgerRow
           /\ pc[p] \in AuditStep => run[p].c.batch \in Seq(Audit)
  <1>1. CommandOf(p) /\ pc[p] # "idle"
    BY StepLabel DEF Control
  <1>2. run[p].c \in Calls[p]
    BY <1>1 DEF CommandOf
  <1>3. CASE pc[p] \in AppendStep
    BY <1>1, <1>2, <1>3, CallsAssumption, StepLabel DEF CommandOf
  <1>4. CASE pc[p] \in AuditStep
    BY <1>1, <1>2, <1>4, CallsAssumption, StepLabel DEF CommandOf
  <1> QED
    BY <1>3, <1>4

LEMMA Others ==
    ASSUME Control, NEW p \in Procs, NEW l, NEW r,
           pc' = [pc EXCEPT ![p] = l], run' = [run EXCEPT ![p] = r]
    PROVE  /\ pc'[p] = l /\ run'[p] = r /\ DOMAIN run' = Procs
           /\ \A q \in Procs : q # p => Same(q)
  BY DEF Control, Same

LEMMA GoesOn ==
    ASSUME Control, NEW p \in Procs, NEW l \in CommandStep, NEW got, NEW rest,
           Goto(p, l), Holds(p, got, rest), pc[p] \in CommandStep,
           l \in AppendStep => pc[p] \in AppendStep,
           l \in AuditStep => pc[p] \in AuditStep,
           l \in ExportStep => pc[p] \in ExportStep
    PROVE  /\ Control' /\ pc'[p] = l
           /\ run'[p] = [c |-> run[p].c, got |-> got, rest |-> rest]
           /\ \A q \in Procs : q # p => Same(q)
  <1>1. pc' = [pc EXCEPT ![p] = l]
        /\ run' = [run EXCEPT ![p] = [c |-> run[p].c, got |-> got, rest |-> rest]]
    BY DEF Goto, Holds
  <1>2. /\ pc'[p] = l /\ run'[p] = [c |-> run[p].c, got |-> got, rest |-> rest]
        /\ DOMAIN run' = Procs /\ \A q \in Procs : q # p => Same(q)
    BY <1>1, Others
  <1>3. run'[p].c = run[p].c
    BY <1>2
  <1>4. l # "idle" /\ pc[p] # "idle"
    BY StepLabel
  <1>5. CommandOf(p)'
    BY <1>2, <1>3, <1>4 DEF Control, CommandOf
  <1>6. \A q \in Procs : q # p => CommandOf(q)'
    BY <1>2 DEF Control, CommandOf, Same
  <1>7. pc' \in [Procs -> {"idle"} \cup CommandStep]
    BY <1>1 DEF Control
  <1> QED
    BY <1>2, <1>5, <1>6, <1>7 DEF Control

LEMMA Moves ==
    ASSUME Control, NEW p \in Procs, NEW l \in CommandStep,
           Goto(p, l), run' = run, pc[p] \in CommandStep,
           l \in AppendStep => pc[p] \in AppendStep,
           l \in AuditStep => pc[p] \in AuditStep,
           l \in ExportStep => pc[p] \in ExportStep
    PROVE  Control' /\ pc'[p] = l /\ \A q \in Procs : q # p => Same(q)
  <1>1. pc' = [pc EXCEPT ![p] = l]
    BY DEF Goto
  <1>2. pc'[p] = l /\ \A q \in Procs : q # p => Same(q)
    BY <1>1 DEF Control, Same
  <1>4. l # "idle" /\ pc[p] # "idle"
    BY StepLabel
  <1>5. CommandOf(p)'
    BY <1>2, <1>4 DEF Control, CommandOf
  <1>6. \A q \in Procs : q # p => CommandOf(q)'
    BY <1>2 DEF Control, CommandOf, Same
  <1>7. pc' \in [Procs -> {"idle"} \cup CommandStep]
    BY <1>1 DEF Control
  <1> QED
    BY <1>2, <1>5, <1>6, <1>7 DEF Control

LEMMA Ends ==
    ASSUME Control, NEW p \in Procs, End(p)
    PROVE  Control' /\ pc'[p] = "idle" /\ \A q \in Procs : q # p => Same(q)
  <1>1. pc' = [pc EXCEPT ![p] = "idle"] /\ run' = [run EXCEPT ![p] = Idle]
    BY DEF End, Goto
  <1>2. /\ pc'[p] = "idle" /\ run'[p] = Idle /\ DOMAIN run' = Procs
        /\ \A q \in Procs : q # p => Same(q)
    BY <1>1, Others
  <1>3. run'[p].c.op = "none"
    BY <1>2 DEF Idle
  <1>4. CommandOf(p)'
    BY <1>2, <1>3 DEF CommandOf, AppendStep, AuditStep, ExportStep
  <1>5. \A q \in Procs : q # p => CommandOf(q)'
    BY <1>2 DEF Control, CommandOf, Same
  <1>6. pc' \in [Procs -> {"idle"} \cup CommandStep]
    BY <1>1 DEF Control
  <1> QED
    BY <1>2, <1>4, <1>5, <1>6 DEF Control

LEMMA Starts ==
    ASSUME Control, NEW p \in Procs, NEW c \in Calls[p], Start(p, c)
    PROVE  /\ Control' /\ pc[p] = "idle" /\ pc'[p] = c.op
           /\ \A q \in Procs : q # p => Same(q)
  <1>1. c.op \in {"append", "audit", "export", "tracker", "status"}
    BY CallsAssumption
  <1>2. pc[p] = "idle" /\ pc' = [pc EXCEPT ![p] = c.op]
        /\ run' = [run EXCEPT ![p] = [c |-> c, got |-> <<>>, rest |-> <<>>]]
    BY DEF Start, Begin, Goto
  <1>3. /\ pc'[p] = c.op /\ run'[p] = [c |-> c, got |-> <<>>, rest |-> <<>>]
        /\ DOMAIN run' = Procs /\ \A q \in Procs : q # p => Same(q)
    BY <1>2, Others
  <1>4. run'[p].c = c
    BY <1>3
  <1>5. CommandOf(p)'
    BY <1>1, <1>3, <1>4 DEF CommandOf, AppendStep, AuditStep, ExportStep
  <1>6. \A q \in Procs : q # p => CommandOf(q)'
    BY <1>3 DEF Control, CommandOf, Same
  <1>7. pc' \in [Procs -> {"idle"} \cup CommandStep]
    BY <1>1, <1>2 DEF Control, CommandStep, AppendStep, AuditStep, ExportStep, AskStep
  <1> QED
    BY <1>2, <1>3, <1>5, <1>6, <1>7 DEF Control

-----------------------------------------------------------------------------
(* What a step that leaves the stores alone keeps *)

LEMMA StoredStays ==
    ASSUME Stored, Relied, UNCHANGED <<ledger, audits, appended>>
    PROVE  Stored' /\ Relied'
  BY DEF Stored, Relied

LEMMA WritingStays ==
    ASSUME Control, Writing, NEW p \in Procs, \A q \in Procs : q # p => Same(q),
           UNCHANGED <<ledger, audits>>,
           p = Writer => ~(pc'[p] \in {"append_open", "append_text", "append_newline",
                                        "audit_write"})
    PROVE  Writing'
  <1>1. CASE p = Writer
    BY <1>1 DEF Writing
  <1>2. CASE p # Writer
    BY <1>2, ApplicationsAssumption DEF Writing, Same
  <1> QED
    BY <1>1, <1>2

\* Rows stay, so what an export shows is still there.
LEMMA ShownStays ==
    ASSUME Shown, NEW p \in Procs, \A q \in Procs : q # p => Same(q), exports' = exports,
           RowsOf(ledger) \subseteq RowsOf(ledger'), RowsOf(audits) \subseteq RowsOf(audits'),
           ~(pc'[p] \in {"export_csv", "export_markdown"})
    PROVE  Shown'
  <1>1. {normalize(r) : r \in RowsOf(ledger)} \subseteq {normalize(r) : r \in RowsOf(ledger')}
    OBVIOUS
  <1>2. \A name : RowsIn(name, ledger, audits) \subseteq RowsIn(name, ledger', audits')
    BY <1>1 DEF RowsIn
  <1>3. \A name \in {"ledger", "audits"} :
            /\ exports'[name].csv \subseteq RowsIn(name, ledger', audits')
            /\ exports'[name].md \subseteq RowsIn(name, ledger', audits')
    BY <1>2 DEF Shown, Rows
  <1>4. \A q \in Procs : pc'[q] \in {"export_csv", "export_markdown"} =>
            run'[q].got \subseteq RowsIn(run'[q].c.store, ledger', audits')
    <2> SUFFICES ASSUME NEW q \in Procs, pc'[q] \in {"export_csv", "export_markdown"}
                 PROVE  run'[q].got \subseteq RowsIn(run'[q].c.store, ledger', audits')
      OBVIOUS
    <2>1. q # p /\ pc[q] = pc'[q] /\ run'[q] = run[q]
      BY DEF Same
    <2>2. run[q].got \subseteq RowsIn(run[q].c.store, ledger, audits)
      BY <2>1 DEF Shown, Rows
    <2>3. RowsIn(run[q].c.store, ledger, audits) \subseteq RowsIn(run[q].c.store, ledger', audits')
      BY <1>2
    <2> QED
      BY <2>1, <2>2, <2>3
  <1>5. DOMAIN exports' = {"ledger", "audits"}
    BY DEF Shown
  <1> QED
    BY <1>3, <1>4, <1>5 DEF Shown, Rows

LEMMA CountedStays ==
    ASSUME Counted, UNCHANGED <<calls, deaths, day>> PROVE Counted'
  BY DEF Counted

-----------------------------------------------------------------------------
(* Steps of every command *)

LEMMA EndKeeps ==
    ASSUME Inv, NEW p \in Procs, End(p), UNCHANGED <<calls, deaths>>, UNCHANGED deskVars
    PROVE  Inv'
  <1>1. UNCHANGED <<ledger, audits, exports, appended, day>>
    BY DEF deskVars
  <1>2. Control' /\ pc'[p] = "idle" /\ \A q \in Procs : q # p => Same(q)
    BY Ends DEF Inv
  <1>3. Counted' /\ Stored' /\ Relied'
    BY <1>1, CountedStays, StoredStays DEF Inv
  <1>4. Writing'
    BY <1>1, <1>2, WritingStays DEF Inv
  <1>5. Shown'
    BY <1>1, <1>2, ShownStays DEF Inv
  <1> QED
    BY <1>2, <1>3, <1>4, <1>5 DEF Inv

\* A command goes on to a step that is no write of a store and no export's.
LEMMA HoldKeeps ==
    ASSUME Inv, NEW p \in Procs, NEW l \in AskStep, NEW got, NEW rest,
           pc[p] \in CommandStep, Goto(p, l), Holds(p, got, rest),
           UNCHANGED <<calls, deaths>>, UNCHANGED deskVars
    PROVE  Inv'
  <1>1. UNCHANGED <<ledger, audits, exports, appended, day>>
    BY DEF deskVars
  <1>2. Control' /\ pc'[p] = l /\ \A q \in Procs : q # p => Same(q)
    BY GoesOn, StepLabel DEF Inv
  <1>3. Counted' /\ Stored' /\ Relied'
    BY <1>1, CountedStays, StoredStays DEF Inv
  <1>4. Writing'
    BY <1>1, <1>2, WritingStays DEF Inv, AskStep
  <1>5. Shown'
    BY <1>1, <1>2, ShownStays DEF Inv, AskStep
  <1> QED
    BY <1>2, <1>3, <1>4, <1>5 DEF Inv

LEMMA StartKeeps ==
    ASSUME Inv, NEW p \in Procs, NEW c \in Calls[p], Start(p, c) PROVE Inv'
  <1>1. UNCHANGED <<ledger, audits, exports, appended, day, deaths>>
    BY DEF Start, Begin, deskVars
  <1>2. Control' /\ pc'[p] = c.op /\ \A q \in Procs : q # p => Same(q)
    BY Starts DEF Inv
  <1>3. c.op \in {"append", "audit", "export", "tracker", "status"}
    BY CallsAssumption
  <1>4. Counted'
    <2>1. CASE p \in Scheduled
      <3>1. calls' = calls
        BY <2>1 DEF Start, Begin
      <3> QED
        BY <1>1, <3>1, CountedStays DEF Inv
    <2>2. CASE p \notin Scheduled
      <3>1. calls' = calls + 1 /\ calls < MaxCalls
        BY <2>2 DEF Start, Begin
      <3>2. calls' \in 0..MaxCalls
        BY <3>1, CommandsAssumption DEF Inv, Counted
      <3> QED
        BY <1>1, <3>2 DEF Inv, Counted
    <2> QED
      BY <2>1, <2>2
  <1>5. Stored' /\ Relied'
    BY <1>1, StoredStays DEF Inv
  <1>6. Writing'
    BY <1>1, <1>2, <1>3, WritingStays DEF Inv
  <1>7. Shown'
    BY <1>1, <1>2, <1>3, ShownStays DEF Inv
  <1> QED
    BY <1>2, <1>4, <1>5, <1>6, <1>7 DEF Inv

-----------------------------------------------------------------------------
(* apps append *)

LEMMA ParseLedgerIs ==
    ASSUME NEW f, parse_ledger(f).ok
    PROVE  AllParse(f) /\ parse_ledger(f).rows = [i \in DOMAIN f.lines |-> normalize(f.lines[i])]
  <1>1. ReadsAsLedger(f)
    <2> SUFFICES ASSUME ~ReadsAsLedger(f) PROVE FALSE
      OBVIOUS
    <2>1. parse_ledger(f) = [ok |-> FALSE, rows |-> <<>>]
      BY Zenon DEF parse_ledger
    <2> QED
      BY <2>1
  <1>2. parse_ledger(f) = [ok |-> TRUE, rows |-> [i \in DOMAIN f.lines |-> normalize(f.lines[i])]]
    BY <1>1, Zenon DEF parse_ledger
  <1> QED
    BY <1>1, <1>2 DEF ReadsAsLedger

LEMMA LedgerRows ==
    ASSUME Stored
    PROVE  /\ RowsOf(ledger) \subseteq LedgerRow
           /\ ledger.lines \in Seq(LedgerLines) /\ Len(ledger.lines) \in Nat
           /\ DOMAIN ledger.lines = 1..Len(ledger.lines)
           /\ Garbled \in LedgerLines
  <1>1. ledger.lines \in Seq(LedgerLines) /\ DOMAIN ledger.lines = 1..Len(ledger.lines)
        /\ Len(ledger.lines) \in Nat
        /\ \A i \in 1..Len(ledger.lines) : ledger.lines[i] \in LedgerLines
    BY FileFields DEF Stored
  <1>2. RowsOf(ledger) \subseteq LedgerRow
    BY <1>1 DEF RowsOf, LedgerLines
  <1> QED
    BY <1>1, <1>2 DEF LedgerLines

LEMMA AppendCheckKeeps ==
    ASSUME Inv, NEW p \in Procs, append_check(p) PROVE Inv'
  <1> DEFINE r == run[p].c.row
  <1>1. pc[p] = "append" /\ UNCHANGED <<calls, deaths>> /\ UNCHANGED deskVars
    BY DEF append_check, At
  <1>2. \/ End(p)
        \/ /\ Goto(p, "append_open") /\ UNCHANGED run
           /\ check_row_submit_time(r) /\ parse_ledger(ledger).ok
           /\ ~\E i \in DOMAIN parse_ledger(ledger).rows :
                  same_state_key(parse_ledger(ledger).rows[i]) = same_state_key(r)
    BY Zenon DEF append_check
  <1>3. CASE End(p)
    BY <1>1, <1>3, EndKeeps
  <1>4. CASE /\ Goto(p, "append_open") /\ UNCHANGED run
             /\ check_row_submit_time(r) /\ parse_ledger(ledger).ok
             /\ ~\E i \in DOMAIN parse_ledger(ledger).rows :
                    same_state_key(parse_ledger(ledger).rows[i]) = same_state_key(r)
    <2>1. UNCHANGED <<ledger, audits, exports, appended, day>>
      BY <1>1 DEF deskVars
    <2>2. p = Writer /\ r \in LedgerRow
      BY <1>1, WriterWrites DEF Inv, AppendStep
    <2>3. Control' /\ pc'[p] = "append_open" /\ \A q \in Procs : q # p => Same(q)
      BY <1>1, <1>4, Moves, StepLabel DEF Inv, AppendStep
    <2>4. Counted' /\ Stored' /\ Relied'
      BY <1>1, <2>1, CountedStays, StoredStays DEF Inv
    <2>5. \A x \in RowsOf(ledger) : State(x) # State(r)
      <3> SUFFICES ASSUME NEW x \in RowsOf(ledger), State(x) = State(r) PROVE FALSE
        OBVIOUS
      <3>1. x \in LedgerRow /\ check_row_submit_time(normalize(x))
        BY LedgerRows DEF Inv, Stored
      <3>2. same_state_key(normalize(x)) = same_state_key(r)
        BY <1>4, <2>2, <3>1, SameStateSameKey
      <3>3. PICK i \in DOMAIN ledger.lines : ledger.lines[i] = x
        BY RowsOfIs
      <3>4. i \in DOMAIN parse_ledger(ledger).rows
            /\ parse_ledger(ledger).rows[i] = normalize(x)
        BY <1>4, <3>3, ParseLedgerIs
      <3> QED
        BY <1>4, <3>2, <3>4
    <2>6. Writing'
      BY <1>4, <2>1, <2>2, <2>3, <2>5 DEF Writing
    <2>7. Shown'
      BY <2>1, <2>3, ShownStays DEF Inv
    <2> QED
      BY <2>3, <2>4, <2>6, <2>7 DEF Inv
  <1> QED
    BY <1>2, <1>3, <1>4

\* A newline changes no line.
LEMMA NewlineKeeps ==
    ASSUME Stored, ledger' = AddNewline(ledger), appended' \subseteq RowsOf(ledger)
    PROVE  Stored' /\ RowsOf(ledger') = RowsOf(ledger) /\ ledger'.ended
           /\ ledger'.lines = ledger.lines
  <1>1. /\ ledger' = [lines |-> ledger.lines, ended |-> TRUE]
        /\ ledger' \in Files(LedgerLines) /\ RowsOf(ledger') = RowsOf(ledger)
    BY AddNewlineIs DEF Stored
  <1>2. ledger'.lines = ledger.lines /\ ledger'.ended
    BY <1>1
  <1> QED
    BY <1>1, <1>2 DEF Stored

LEMMA AppendOpenKeeps ==
    ASSUME Inv, NEW p \in Procs, append_open(p) PROVE Inv'
  <1>1. /\ pc[p] = "append_open" /\ UNCHANGED <<calls, deaths, run, audits, exports, appended, day>>
        /\ ledger' = AddNewline(ledger) /\ Goto(p, "append_text")
    BY DEF append_open, At, Reopened
  <1>2. p = Writer
    BY <1>1, WriterWrites DEF Inv, AppendStep
  <1>3. Control' /\ pc'[p] = "append_text" /\ \A q \in Procs : q # p => Same(q)
    BY <1>1, Moves, StepLabel DEF Inv, AppendStep
  <1>4. Stored' /\ RowsOf(ledger') = RowsOf(ledger) /\ ledger'.ended
    BY <1>1, NewlineKeeps DEF Inv, Stored
  <1>5. Counted' /\ Relied'
    BY <1>1, CountedStays DEF Inv, Relied
  <1>6. Writing'
    BY <1>1, <1>2, <1>3, <1>4 DEF Inv, Writing
  <1>7. Shown'
    BY <1>1, <1>3, <1>4, ShownStays DEF Inv
  <1> QED
    BY <1>3, <1>4, <1>5, <1>6, <1>7 DEF Inv

\* A line that says nothing another says, or that does not parse, leaves no twins.
LEMMA TextKeeps ==
    ASSUME Stored, ledger.ended, NEW row \in LedgerLines, ledger' = AddText(ledger, row),
           appended' = appended,
           row # Garbled => /\ check_row_submit_time(normalize(row))
                            /\ \A r \in RowsOf(ledger) : State(r) # State(row)
    PROVE  Stored' /\ RowsOf(ledger') = RowsOf(ledger) \cup ({row} \ {Garbled})
  <1>1. /\ ledger' = [lines |-> Append(ledger.lines, row), ended |-> FALSE]
        /\ ledger' \in Files(LedgerLines)
        /\ RowsOf(ledger') = RowsOf(ledger) \cup ({row} \ {Garbled})
    BY AddTextIs DEF Stored
  <1>2. ledger'.lines = Append(ledger.lines, row)
    BY <1>1
  <1>3. ledger.lines \in Seq(LedgerLines) /\ Len(ledger.lines) \in Nat
        /\ DOMAIN ledger.lines = 1..Len(ledger.lines)
    BY LedgerRows
  <1>4. /\ DOMAIN ledger'.lines = 1..(Len(ledger.lines) + 1)
        /\ \A i \in 1..Len(ledger.lines) : ledger'.lines[i] = ledger.lines[i]
        /\ ledger'.lines[Len(ledger.lines) + 1] = row
    BY <1>2, <1>3
  <1>5. Single(ledger'.lines)
    <2> DEFINE n == Len(ledger.lines)
               t == ledger'.lines
    <2>1. \A i \in 1..(n + 1) : i \in DOMAIN ledger.lines \/ i = n + 1
      BY <1>3
    <2>2. \A i \in DOMAIN ledger.lines : t[i] = ledger.lines[i]
                                         /\ (t[i] # Garbled => t[i] \in RowsOf(ledger))
      BY <1>3, <1>4 DEF RowsOf
    <2> SUFFICES ASSUME NEW i \in DOMAIN t, NEW j \in DOMAIN t, t[i] # Garbled, t[j] # Garbled,
                        State(t[i]) = State(t[j])
                 PROVE  i = j
      BY DEF Single
    <2>3. CASE i \in DOMAIN ledger.lines /\ j \in DOMAIN ledger.lines
      BY <2>2, <2>3 DEF Stored, Single
    <2>4. CASE i \in DOMAIN ledger.lines /\ j = n + 1
      BY <1>4, <2>2, <2>4
    <2>5. CASE i = n + 1 /\ j \in DOMAIN ledger.lines
      BY <1>4, <2>2, <2>5
    <2> QED
      BY <1>4, <2>1, <2>3, <2>4, <2>5
  <1> QED
    BY <1>1, <1>5 DEF Stored

LEMMA AppendTextKeeps ==
    ASSUME Inv, NEW p \in Procs, append_text(p) PROVE Inv'
  <1> DEFINE row == run[p].c.row
  <1>1. /\ pc[p] = "append_text" /\ UNCHANGED <<calls, deaths, run, audits, exports, appended, day>>
        /\ ledger' = AddText(ledger, row) /\ Goto(p, "append_newline")
    BY DEF append_text, At
  <1>2. p = Writer /\ row \in LedgerRow /\ row # Garbled /\ row \in LedgerLines
    BY <1>1, WriterWrites, CallsAssumption DEF Inv, AppendStep, LedgerLines
  <1>3. Control' /\ pc'[p] = "append_newline" /\ \A q \in Procs : q # p => Same(q)
    BY <1>1, Moves, StepLabel DEF Inv, AppendStep
  <1>4. /\ ledger.ended /\ check_row_submit_time(row)
        /\ \A r \in RowsOf(ledger) : State(r) # State(row)
    BY <1>1, <1>2 DEF Inv, Writing
  <1>5. Stored' /\ RowsOf(ledger') = RowsOf(ledger) \cup ({row} \ {Garbled})
    BY <1>1, <1>2, <1>4, NormalChecks, TextKeeps DEF Inv
  <1>6. Counted' /\ Relied'
    BY <1>1, CountedStays DEF Inv, Relied
  <1>7. Writing'
    <2>1. run'[Writer].c.row \in RowsOf(ledger')
      BY <1>1, <1>2, <1>5
    <2> QED
      BY <1>2, <1>3, <2>1 DEF Writing
  <1>8. Shown'
    BY <1>1, <1>3, <1>5, ShownStays DEF Inv
  <1> QED
    BY <1>3, <1>5, <1>6, <1>7, <1>8 DEF Inv

LEMMA AppendNewlineKeeps ==
    ASSUME Inv, NEW p \in Procs, append_newline(p) PROVE Inv'
  <1>1. /\ pc[p] = "append_newline" /\ UNCHANGED <<calls, deaths, audits, exports, day>>
        /\ ledger' = AddNewline(ledger) /\ End(p)
        /\ appended' = appended \cup {run[p].c.row}
    BY DEF append_newline, At
  <1>2. p = Writer
    BY <1>1, WriterWrites DEF Inv, AppendStep
  <1>3. Control' /\ pc'[p] = "idle" /\ \A q \in Procs : q # p => Same(q)
    BY <1>1, Ends DEF Inv
  <1>4. appended' \subseteq RowsOf(ledger)
    BY <1>1, <1>2 DEF Inv, Stored, Writing
  <1>5. Stored' /\ RowsOf(ledger') = RowsOf(ledger)
    BY <1>1, <1>4, NewlineKeeps DEF Inv
  <1>6. Counted' /\ Relied'
    BY <1>1, CountedStays DEF Inv, Relied
  <1>7. Writing'
    BY <1>2, <1>3 DEF Writing
  <1>8. Shown'
    BY <1>1, <1>3, <1>5, ShownStays DEF Inv
  <1> QED
    BY <1>3, <1>5, <1>6, <1>7, <1>8 DEF Inv

-----------------------------------------------------------------------------
(* apps audit append *)

LEMMA ParseAuditsIs ==
    ASSUME NEW f, parse_audits(f).ok
    PROVE  AllParse(f) /\ parse_audits(f).rows = f.lines
  <1>1. AllParse(f) /\ \A a \in RowsOf(f) : validate_stored_audit(a)
    <2> SUFFICES ASSUME ~(AllParse(f) /\ \A a \in RowsOf(f) : validate_stored_audit(a))
                 PROVE  FALSE
      OBVIOUS
    <2>1. parse_audits(f) = [ok |-> FALSE, rows |-> <<>>]
      BY Zenon DEF parse_audits
    <2> QED
      BY <2>1
  <1>2. parse_audits(f) = [ok |-> TRUE, rows |-> f.lines]
    BY <1>1, Zenon DEF parse_audits
  <1> QED
    BY <1>1, <1>2

LEMMA AuditRows ==
    ASSUME Relied
    PROVE  /\ RowsOf(audits) \subseteq Audit
           /\ audits.lines \in Seq(AuditLines) /\ Len(audits.lines) \in Nat
           /\ DOMAIN audits.lines = 1..Len(audits.lines)
           /\ AllParse(audits) => audits.lines \in Seq(Audit)
           /\ Garbled \in AuditLines
  <1>1. audits.lines \in Seq(AuditLines) /\ DOMAIN audits.lines = 1..Len(audits.lines)
        /\ Len(audits.lines) \in Nat
        /\ \A i \in 1..Len(audits.lines) : audits.lines[i] \in AuditLines
    BY FileFields DEF Relied
  <1>2. RowsOf(audits) \subseteq Audit
    BY <1>1 DEF RowsOf, AuditLines
  <1>3. ASSUME AllParse(audits) PROVE audits.lines \in Seq(Audit)
    <2>1. \A i \in 1..Len(audits.lines) : audits.lines[i] \in Audit
      BY <1>1, <1>3 DEF AllParse, AuditLines
    <2> QED
      BY <1>1, <2>1
  <1> QED
    BY <1>1, <1>2, <1>3 DEF AuditLines

LEMMA AuditCheckKeeps ==
    ASSUME Inv, NEW p \in Procs, audit_check(p) PROVE Inv'
  <1> DEFINE batch == run[p].c.batch
             old == parse_audits(audits)
             new == NewAudits(old.rows, batch).new
  <1>1. pc[p] = "audit" /\ UNCHANGED <<calls, deaths>> /\ UNCHANGED deskVars
    BY DEF audit_check, At
  <1>2. \/ End(p)
        \/ /\ Goto(p, "audit_write") /\ Holds(p, <<>>, new)
           /\ \A i \in DOMAIN batch : validate_audit(batch[i])
           /\ old.ok /\ NewAudits(old.rows, batch).ok
    BY Zenon DEF audit_check
  <1>3. CASE End(p)
    BY <1>1, <1>3, EndKeeps
  <1>4. CASE /\ Goto(p, "audit_write") /\ Holds(p, <<>>, new)
             /\ \A i \in DOMAIN batch : validate_audit(batch[i])
             /\ old.ok /\ NewAudits(old.rows, batch).ok
    <2>1. UNCHANGED <<ledger, audits, exports, appended, day>>
      BY <1>1 DEF deskVars
    <2>2. p = Writer /\ batch \in Seq(Audit)
      BY <1>1, WriterWrites DEF Inv, AuditStep
    <2>3. AllParse(audits) /\ old.rows = audits.lines
      BY <1>4, ParseAuditsIs
    <2>4. audits.lines \in Seq(Audit) /\ Following(audits.lines)
      BY <2>3, AuditRows DEF Inv, Relied
    <2> HIDE DEF old, batch
    <2>5. /\ new \in Seq(Audit)
          /\ \A k \in DOMAIN new : \E i \in DOMAIN batch : new[k] = batch[i]
          /\ Following(audits.lines \o new)
      BY <1>4, <2>2, <2>3, <2>4, NewFollow
    <2> HIDE DEF new
    <2>6. \A k \in DOMAIN new : validate_audit(new[k])
      BY <1>4, <2>5
    <2>7. /\ Control' /\ pc'[p] = "audit_write" /\ \A q \in Procs : q # p => Same(q)
          /\ run'[p] = [c |-> run[p].c, got |-> <<>>, rest |-> new]
      BY <1>1, <1>4, GoesOn, StepLabel DEF Inv, AuditStep
    <2>8. run'[p].rest = new
      BY <2>7
    <2>9. Counted' /\ Stored' /\ Relied'
      BY <1>1, <2>1, CountedStays, StoredStays DEF Inv
    <2>10. Writing'
      BY <2>1, <2>2, <2>5, <2>6, <2>7, <2>8 DEF Writing
    <2>11. Shown'
      BY <2>1, <2>7, ShownStays DEF Inv
    <2> QED
      BY <2>7, <2>9, <2>10, <2>11 DEF Inv
  <1> QED
    BY <1>2, <1>3, <1>4

\* A store that got the first of the new audits, and perhaps a line that does not parse.
LEMMA LinesKeep ==
    ASSUME Relied, NEW rest \in Seq(Audit), \A k \in DOMAIN rest : validate_audit(rest[k]),
           Following(audits.lines \o rest), NEW n \in 0..Len(rest),
           audits' \in Files(AuditLines),
           \/ audits'.lines = audits.lines \o SubSeq(rest, 1, n)
           \/ audits'.lines = Append(audits.lines \o SubSeq(rest, 1, n), Garbled)
    PROVE  Relied' /\ RowsOf(audits) \subseteq RowsOf(audits')
  <1> DEFINE s == audits.lines
             t == SubSeq(rest, 1, n)
             h == [lines |-> s \o t, ended |-> TRUE]
  <1>1. s \in Seq(AuditLines) /\ rest \in Seq(AuditLines) /\ DOMAIN rest = 1..Len(rest)
        /\ DOMAIN s = 1..Len(s) /\ Len(s) \in Nat
    BY AuditRows DEF AuditLines
  <1>2. /\ t \in Seq(AuditLines) /\ Len(t) = n /\ n \in Nat
        /\ \A k \in 1..n : k \in 1..Len(rest) /\ t[k] = rest[k]
        /\ s \o t \in Seq(AuditLines)
        /\ DOMAIN (s \o t) = 1..(Len(s) + n)
        /\ 1..(Len(s) + n) \subseteq DOMAIN (s \o rest)
        /\ \A i \in 1..(Len(s) + n) : (s \o t)[i] = (s \o rest)[i]
    <2> HIDE DEF s, h
    <2>1. s \in Seq(AuditLines) /\ rest \in Seq(AuditLines)
      BY <1>1
    <2>2. StartsRows(AuditLines, s, rest, n, t)
      BY <2>1, ConcatPrefix
    <2> HIDE DEF t
    <2> QED
      BY ONLY <2>2 DEF StartsRows
  <1> HIDE DEF s, t
  <1>3. h.lines = s \o t
    OBVIOUS
  <1> HIDE DEF h
  <1>4. /\ RowsOf(audits) \subseteq RowsOf(h)
        /\ \A r \in RowsOf(h) : r \in RowsOf(audits) \/ \E k \in 1..Len(t) : t[k] = r
    <2>1. s \in Seq(AuditLines) /\ t \in Seq(AuditLines) /\ audits.lines = s
      BY <1>1, <1>2 DEF s
    <2>2. /\ RowsOf(audits) \subseteq RowsOf(h)
          /\ \A r \in RowsOf(h) : r \in RowsOf(audits) \/ \E k \in 1..Len(t) : t[k] = r
          /\ \A k \in 1..Len(t) : t[k] # Garbled => t[k] \in RowsOf(h)
      BY <1>3, <2>1, RowsGrow, Zenon
    <2> QED
      BY <2>2
  <1>5. \A a \in RowsOf(h) : validate_stored_audit(a)
    <2> SUFFICES ASSUME NEW a \in RowsOf(h) PROVE validate_stored_audit(a)
      OBVIOUS
    <2>1. CASE a \in RowsOf(audits)
      BY <2>1 DEF Relied
    <2>2. CASE \E k \in 1..Len(t) : t[k] = a
      <3>1. PICK k \in 1..Len(t) : t[k] = a
        BY <2>2
      <3>2. validate_audit(a)
        BY <1>1, <1>2, <3>1
      <3> QED
        BY <3>2, ValidStored
    <2> QED
      BY <1>4, <2>1, <2>2
  <1>6. Following(s \o t)
    <2>1. Following(s \o rest)
      BY DEF s
    <2>2. \A i \in DOMAIN (s \o t) : \A j \in DOMAIN (s \o rest) : j < i => j \in DOMAIN (s \o t)
      <3>1. DOMAIN (s \o rest) = 1..(Len(s) + Len(rest)) /\ Len(s) \in Nat /\ Len(rest) \in Nat
        BY <1>1, ConcatIs
      <3> QED
        BY <1>2, <3>1
    <2> QED
      BY <1>2, <2>1, <2>2, PrefixFollowing
  <1>7. CASE audits'.lines = s \o t
    <2>1. RowsOf(audits') = RowsOf(h)
      BY <1>3, <1>7 DEF RowsOf
    <2> QED
      BY <1>4, <1>5, <1>6, <1>7, <2>1 DEF Relied
  <1>8. CASE audits'.lines = Append(s \o t, Garbled)
    <2>1. RowsOf(audits') = RowsOf(h)
      BY <1>2, <1>3, <1>8, GarbledRows
    <2>2. Following(audits'.lines)
      BY <1>2, <1>6, <1>8, GarbledFollowing DEF AuditLines
    <2> QED
      BY <1>4, <1>5, <2>1, <2>2 DEF Relied
  <1> QED
    BY <1>7, <1>8 DEF s, t

LEMMA ReopenedAudits ==
    ASSUME Relied
    PROVE  /\ Reopened(audits) \in Files(AuditLines) /\ Reopened(audits).ended
           /\ Reopened(audits).lines = audits.lines
  <1>1. /\ Reopened(audits) = [lines |-> audits.lines, ended |-> TRUE]
        /\ Reopened(audits) \in Files(AuditLines)
    BY AddNewlineIs DEF Relied, Reopened
  <1>2. Reopened(audits).lines = audits.lines /\ Reopened(audits).ended
    BY <1>1
  <1> QED
    BY <1>1, <1>2

LEMMA AuditWriteKeeps ==
    ASSUME Inv, NEW p \in Procs, audit_write(p) PROVE Inv'
  <1> DEFINE rest == run[p].rest
  <1>1. /\ pc[p] = "audit_write" /\ UNCHANGED <<calls, deaths, ledger, exports, appended, day>>
        /\ audits' = AddLines(Reopened(audits), rest) /\ End(p)
    BY DEF audit_write, At
  <1>2. p = Writer
    BY <1>1, WriterWrites DEF Inv, AuditStep
  <1>3. /\ rest \in Seq(Audit) /\ \A k \in DOMAIN rest : validate_audit(rest[k])
        /\ Following(audits.lines \o rest)
    BY <1>1, <1>2 DEF Inv, Writing
  <1>4. rest \in Seq(AuditLines) /\ Len(rest) \in 0..Len(rest) /\ SubSeq(rest, 1, Len(rest)) = rest
    BY <1>3 DEF AuditLines
  <1> HIDE DEF rest
  <1>5. audits'.lines = audits.lines \o rest /\ audits' \in Files(AuditLines)
    <2>1. /\ Reopened(audits) \in Files(AuditLines) /\ Reopened(audits).ended
          /\ Reopened(audits).lines = audits.lines
      BY ReopenedAudits DEF Inv
    <2>2. /\ AddLines(Reopened(audits), rest).lines = Reopened(audits).lines \o rest
          /\ AddLines(Reopened(audits), rest) \in Files(AuditLines)
      BY <1>4, <2>1, AddLinesIs
    <2> QED
      BY <1>1, <2>1, <2>2
  <1>6. Relied' /\ RowsOf(audits) \subseteq RowsOf(audits')
    BY <1>3, <1>4, <1>5, LinesKeep DEF Inv
  <1>7. Control' /\ pc'[p] = "idle" /\ \A q \in Procs : q # p => Same(q)
    BY <1>1, Ends DEF Inv
  <1>8. Counted' /\ Stored'
    BY <1>1, CountedStays DEF Inv, Stored
  <1>9. Writing'
    BY <1>2, <1>7 DEF Writing
  <1>10. Shown'
    BY <1>1, <1>6, <1>7, ShownStays DEF Inv
  <1> QED
    BY <1>6, <1>7, <1>8, <1>9, <1>10 DEF Inv

-----------------------------------------------------------------------------
(* Exports and questions *)

\* An export goes on with rows of its store.
LEMMA ExportHolds ==
    ASSUME Inv, NEW p \in Procs, pc[p] \in ExportStep, Control',
           pc'[p] \in {"export_csv", "export_markdown"},
           run'[p].c = run[p].c, run'[p].got \subseteq Rows(run[p].c.store),
           \A q \in Procs : q # p => Same(q),
           UNCHANGED <<calls, deaths, ledger, audits, appended, day>>,
           DOMAIN exports' = {"ledger", "audits"},
           \A name \in {"ledger", "audits"} :
               /\ exports'[name].csv \subseteq Rows(name)
               /\ exports'[name].md \subseteq Rows(name)
    PROVE  Inv'
  <1>1. Counted' /\ Stored' /\ Relied'
    BY CountedStays, StoredStays DEF Inv
  <1>2. Writing'
    BY WritingStays DEF Inv
  <1>3. \A q \in Procs : pc'[q] \in {"export_csv", "export_markdown"} =>
            run'[q].got \subseteq Rows(run'[q].c.store)
    BY DEF Inv, Shown, Same
  <1>4. Shown'
    BY <1>3 DEF Shown, Rows
  <1> QED
    BY <1>1, <1>2, <1>4 DEF Inv

LEMMA ExportStore ==
    ASSUME Control, NEW p \in Procs, pc[p] \in ExportStep
    PROVE  run[p].c.store \in {"ledger", "audits"}
  <1>1. CommandOf(p) /\ pc[p] # "idle"
    BY StepLabel DEF Control
  <1>2. run[p].c \in Calls[p] /\ run[p].c.op = "export"
    BY <1>1 DEF CommandOf
  <1> QED
    BY <1>2, CallsAssumption

LEMMA ExportReadKeeps ==
    ASSUME Inv, NEW p \in Procs, export_read(p) PROVE Inv'
  <1> DEFINE store == run[p].c.store
             read == IF store = "ledger" THEN parse_ledger(ledger) ELSE parse_audits(audits)
             rows == IF store = "ledger" THEN current_rows(read.rows)
                                         ELSE current_audits(read.rows)
  <1>1. pc[p] = "export" /\ UNCHANGED <<calls, deaths>> /\ UNCHANGED deskVars
    BY DEF export_read, At
  <1>2. \/ End(p)
        \/ read.ok /\ Goto(p, "export_csv") /\ Holds(p, rows, <<>>)
    BY Zenon DEF export_read
  <1>3. CASE End(p)
    BY <1>1, <1>3, EndKeeps
  <1>4. CASE read.ok /\ Goto(p, "export_csv") /\ Holds(p, rows, <<>>)
    <2>1. UNCHANGED <<ledger, audits, exports, appended, day>>
      BY <1>1 DEF deskVars
    <2>2. store \in {"ledger", "audits"}
      BY <1>1, ExportStore DEF Inv, ExportStep
    <2>3. rows \subseteq Rows(store)
      <3>1. CASE store = "ledger"
        <4>1. parse_ledger(ledger).ok
          BY <1>4, <3>1
        <4>2. parse_ledger(ledger).rows =
                  [i \in DOMAIN ledger.lines |-> normalize(ledger.lines[i])]
              /\ AllParse(ledger)
          BY <4>1, ParseLedgerIs
        <4>3. rows \subseteq {parse_ledger(ledger).rows[i] : i \in DOMAIN parse_ledger(ledger).rows}
          BY <3>1, LatestRows DEF current_rows
        <4>4. RowsOf(ledger) = {ledger.lines[i] : i \in DOMAIN ledger.lines}
          BY <4>2, AllParseRows DEF Inv, Stored
        <4>5. \A i \in DOMAIN parse_ledger(ledger).rows :
                  parse_ledger(ledger).rows[i] \in {normalize(r) : r \in RowsOf(ledger)}
          BY <4>2, <4>4
        <4> QED
          BY <3>1, <4>3, <4>5 DEF Rows, RowsIn
      <3>2. CASE store # "ledger"
        <4>1. parse_audits(audits).ok
          BY <1>4, <3>2
        <4>2. parse_audits(audits).rows = audits.lines /\ AllParse(audits)
          BY <4>1, ParseAuditsIs
        <4>3. rows \subseteq {audits.lines[i] : i \in DOMAIN audits.lines}
          BY <3>2, <4>2, LatestRows DEF current_audits
        <4>4. RowsOf(audits) = {audits.lines[i] : i \in DOMAIN audits.lines}
          BY <4>2, AllParseRows DEF Inv, Relied
        <4> QED
          BY <3>2, <4>3, <4>4 DEF Rows, RowsIn
      <3> QED
        BY <3>1, <3>2
    <2> HIDE DEF rows, read
    <2>4. /\ Control' /\ pc'[p] = "export_csv" /\ \A q \in Procs : q # p => Same(q)
          /\ run'[p] = [c |-> run[p].c, got |-> rows, rest |-> <<>>]
      BY <1>1, <1>4, GoesOn, StepLabel DEF Inv, ExportStep
    <2>5. run'[p].c = run[p].c /\ run'[p].got = rows
      BY <2>4
    <2> QED
      BY <1>1, <2>1, <2>3, <2>4, <2>5, ExportHolds DEF ExportStep, Inv, Shown
  <1> QED
    BY <1>2, <1>3, <1>4

LEMMA ExportCsvKeeps ==
    ASSUME Inv, NEW p \in Procs, export_csv(p) PROVE Inv'
  <1> DEFINE store == run[p].c.store
  <1>1. /\ pc[p] = "export_csv" /\ UNCHANGED <<calls, deaths, run, ledger, audits, appended, day>>
        /\ exports' = [exports EXCEPT ![store] = [csv |-> run[p].got, md |-> exports[store].md]]
        /\ Goto(p, "export_markdown")
    BY DEF export_csv, At
  <1>2. store \in {"ledger", "audits"} /\ DOMAIN exports = {"ledger", "audits"}
    BY <1>1, ExportStore DEF Inv, ExportStep, Shown
  <1>3. run[p].got \subseteq Rows(store)
    BY <1>1 DEF Inv, Shown
  <1>4. Control' /\ pc'[p] = "export_markdown" /\ \A q \in Procs : q # p => Same(q)
    BY <1>1, Moves, StepLabel DEF Inv, ExportStep
  <1>5. exports'[store] = [csv |-> run[p].got, md |-> exports[store].md]
        /\ \A name \in {"ledger", "audits"} : name # store => exports'[name] = exports[name]
        /\ DOMAIN exports' = {"ledger", "audits"}
    BY <1>1, <1>2
  <1>6. exports'[store].csv = run[p].got /\ exports'[store].md = exports[store].md
    BY <1>5
  <1>7. \A name \in {"ledger", "audits"} :
            /\ exports'[name].csv \subseteq Rows(name)
            /\ exports'[name].md \subseteq Rows(name)
    BY <1>2, <1>3, <1>5, <1>6 DEF Inv, Shown
  <1> QED
    BY <1>1, <1>3, <1>4, <1>5, <1>7, ExportHolds DEF ExportStep

LEMMA ExportMarkdownKeeps ==
    ASSUME Inv, NEW p \in Procs, export_markdown(p) PROVE Inv'
  <1> DEFINE store == run[p].c.store
  <1>1. /\ pc[p] = "export_markdown" /\ UNCHANGED <<calls, deaths, ledger, audits, appended, day>>
        /\ exports' = [exports EXCEPT ![store] = [csv |-> exports[store].csv, md |-> run[p].got]]
        /\ End(p)
    BY DEF export_markdown, At
  <1>2. store \in {"ledger", "audits"} /\ DOMAIN exports = {"ledger", "audits"}
    BY <1>1, ExportStore DEF Inv, ExportStep, Shown
  <1>3. run[p].got \subseteq Rows(store)
    BY <1>1 DEF Inv, Shown
  <1>4. Control' /\ pc'[p] = "idle" /\ \A q \in Procs : q # p => Same(q)
    BY <1>1, Ends DEF Inv
  <1>5. exports'[store] = [csv |-> exports[store].csv, md |-> run[p].got]
        /\ \A name \in {"ledger", "audits"} : name # store => exports'[name] = exports[name]
        /\ DOMAIN exports' = {"ledger", "audits"}
    BY <1>1, <1>2
  <1>6. exports'[store].md = run[p].got /\ exports'[store].csv = exports[store].csv
    BY <1>5
  <1>7. \A name \in {"ledger", "audits"} :
            /\ exports'[name].csv \subseteq Rows(name)
            /\ exports'[name].md \subseteq Rows(name)
    BY <1>2, <1>3, <1>5, <1>6 DEF Inv, Shown
  <1>8. Counted' /\ Stored' /\ Relied'
    BY <1>1, CountedStays, StoredStays DEF Inv
  <1>9. Writing'
    BY <1>1, <1>4, WritingStays DEF Inv
  <1>10. \A q \in Procs : pc'[q] \in {"export_csv", "export_markdown"} =>
            run'[q].got \subseteq Rows(run'[q].c.store)
    BY <1>4 DEF Inv, Shown, Same
  <1>11. Shown'
    BY <1>1, <1>5, <1>7, <1>10 DEF Shown, Rows
  <1> QED
    BY <1>4, <1>8, <1>9, <1>11 DEF Inv

LEMMA AskKeeps ==
    ASSUME Inv, NEW p \in Procs, export_tracker(p) \/ audit_status(p) \/ Delivered(p)
    PROVE  Inv'
  <1>1. UNCHANGED <<calls, deaths>> /\ UNCHANGED deskVars
    BY DEF export_tracker, audit_status, Delivered, At
  <1>2. CASE export_tracker(p)
    <2>1. pc[p] = "tracker"
      BY <1>2 DEF export_tracker, At
    <2>2. End(p) \/ \E got : Goto(p, "tracker_write") /\ Holds(p, got, <<>>)
      BY <1>2, Zenon DEF export_tracker
    <2> QED
      BY <1>1, <2>1, <2>2, EndKeeps, HoldKeeps DEF AskStep, CommandStep
  <1>3. CASE audit_status(p)
    <2>1. pc[p] = "status"
      BY <1>3 DEF audit_status, At
    <2>2. End(p) \/ \E got : Goto(p, "status_print") /\ Holds(p, got, <<>>)
      BY <1>3, Zenon DEF audit_status
    <2> QED
      BY <1>1, <2>1, <2>2, EndKeeps, HoldKeeps DEF AskStep, CommandStep
  <1>4. CASE Delivered(p)
    <2>1. End(p)
      BY <1>4 DEF Delivered
    <2> QED
      BY <1>1, <2>1, EndKeeps
  <1> QED
    BY <1>2, <1>3, <1>4

-----------------------------------------------------------------------------
(* Around the commands *)

LEMMA DeathKeeps ==
    ASSUME Inv, NEW p \in Procs, Death(p) PROVE Inv'
  <1>1. /\ pc[p] # "idle" /\ deaths < MaxDeaths /\ deaths' = deaths + 1 /\ End(p)
        /\ UNCHANGED <<calls, exports, appended, day>>
    BY DEF Death, Dies
  <1>2. /\ pc[p] = "append_text" =>
              ledger' \in {ledger, AddText(ledger, Garbled)} /\ audits' = audits
        /\ pc[p] = "audit_write" =>
              /\ audits' \in {audits} \cup CutShort(Reopened(audits), run[p].rest)
              /\ ledger' = ledger
        /\ pc[p] # "append_text" /\ pc[p] # "audit_write" => ledger' = ledger /\ audits' = audits
    BY Zenon DEF Death
  <1>3. Control' /\ pc'[p] = "idle" /\ \A q \in Procs : q # p => Same(q)
    BY <1>1, Ends DEF Inv
  <1>4. Counted'
    BY <1>1, CommandsAssumption DEF Inv, Counted
  <1>5. CASE ledger' = ledger /\ audits' = audits
    <2>1. Stored' /\ Relied'
      BY <1>1, <1>5, StoredStays DEF Inv
    <2>2. Writing'
      BY <1>3, <1>5, WritingStays DEF Inv
    <2>3. Shown'
      BY <1>1, <1>3, <1>5, ShownStays DEF Inv
    <2> QED
      BY <1>3, <1>4, <2>1, <2>2, <2>3 DEF Inv
  <1>6. CASE pc[p] = "append_text" /\ ledger' = AddText(ledger, Garbled)
    <2>1. p = Writer /\ audits' = audits
      BY <1>2, <1>6, WriterWrites DEF Inv, AppendStep
    <2>2. ledger.ended
      BY <1>6, <2>1 DEF Inv, Writing
    <2>3. Garbled \in LedgerLines
      BY DEF LedgerLines
    <2>4. Stored' /\ RowsOf(ledger') = RowsOf(ledger) \cup ({Garbled} \ {Garbled})
      BY <1>1, <1>6, <2>2, <2>3, TextKeeps DEF Inv
    <2>5. Relied'
      BY <2>1 DEF Inv, Relied
    <2>6. Writing'
      BY <1>3, <2>1 DEF Writing
    <2>7. Shown'
      BY <1>1, <1>3, <2>1, <2>4, ShownStays DEF Inv
    <2> QED
      BY <1>3, <1>4, <2>4, <2>5, <2>6, <2>7 DEF Inv
  <1>7. CASE pc[p] = "audit_write" /\ audits' \in CutShort(Reopened(audits), run[p].rest)
    <2> DEFINE rest == run[p].rest
               f == Reopened(audits)
    <2>1. p = Writer /\ ledger' = ledger
      BY <1>2, <1>7, WriterWrites DEF Inv, AuditStep
    <2>2. /\ rest \in Seq(Audit) /\ \A k \in DOMAIN rest : validate_audit(rest[k])
          /\ Following(audits.lines \o rest)
      BY <1>7, <2>1 DEF Inv, Writing
    <2>3. rest \in Seq(AuditLines) /\ Garbled \in AuditLines
      BY <2>2 DEF AuditLines
    <2>4. f \in Files(AuditLines) /\ f.ended /\ f.lines = audits.lines
      BY ReopenedAudits DEF Inv
    <2>5. audits' \in CutShort(f, rest)
      BY <1>7
    <2> HIDE DEF f, rest
    <2>6. /\ audits' \in Files(AuditLines)
          /\ \E n \in 0..Len(rest) :
                \/ audits'.lines = f.lines \o SubSeq(rest, 1, n)
                \/ audits'.lines = Append(f.lines \o SubSeq(rest, 1, n), Garbled)
      <3> DEFINE g == audits'
      <3>1. g \in CutShort(f, rest)
        BY <2>5
      <3> HIDE DEF g
      <3>2. f \in Files(AuditLines) /\ f.ended /\ rest \in Seq(AuditLines)
            /\ Garbled \in AuditLines
        BY <2>3, <2>4
      <3>3. /\ g \in Files(AuditLines)
            /\ \E n \in 0..Len(rest) :
                  \/ g.lines = f.lines \o SubSeq(rest, 1, n)
                  \/ g.lines = Append(f.lines \o SubSeq(rest, 1, n), Garbled)
        BY <3>1, <3>2, CutShortIs, Zenon
      <3> QED
        BY <3>3 DEF g
    <2>7. Relied' /\ RowsOf(audits) \subseteq RowsOf(audits')
      BY <2>2, <2>4, <2>6, LinesKeep DEF Inv
    <2>8. Stored'
      BY <1>1, <2>1 DEF Inv, Stored
    <2>9. Writing'
      BY <1>3, <2>1 DEF Writing
    <2>10. Shown'
      BY <1>1, <1>3, <2>1, <2>7, ShownStays DEF Inv
    <2> QED
      BY <1>3, <1>4, <2>7, <2>8, <2>9, <2>10 DEF Inv
  <1> QED
    BY <1>2, <1>5, <1>6, <1>7

\* What the owner leaves of a file: its rows, in their order.
LEMMA MendedIs ==
    ASSUME NEW S, NEW f \in Files(S)
    PROVE  /\ Mended(f) \in Files(S) /\ Mended(f).lines = Parsed(f)
           /\ RowsOf(Mended(f)) = RowsOf(f)
  <1>1. Parsed(f) \in Seq(S) /\ \A k \in DOMAIN Parsed(f) : Parsed(f)[k] # Garbled
    BY ParsedIs
  <1>2. Mended(f).lines = Parsed(f)
    BY DEF Mended
  <1>3. Mended(f) \in Files(S)
    BY <1>1 DEF Mended, Files
  <1>4. RowsOf(Mended(f)) = {Parsed(f)[k] : k \in DOMAIN Parsed(f)}
    BY <1>1, <1>2 DEF RowsOf
  <1> QED
    BY <1>2, <1>3, <1>4, RowsOfParsed

LEMMA HandKeeps ==
    ASSUME Inv, HandEdit PROVE Inv'
  <1>1. pc[Writer] = "idle" /\ UNCHANGED <<pc, run, calls, deaths, exports, appended, day>>
    BY DEF HandEdit, cmdVars
  <1>2. \/ ledger' = Mended(ledger) /\ audits' = audits
        \/ audits' = Mended(audits) /\ ledger' = ledger
    BY DEF HandEdit
  <1>3. Stored' /\ RowsOf(ledger') = RowsOf(ledger)
    <2>1. CASE ledger' = ledger
      BY <1>1, <2>1 DEF Inv, Stored
    <2>2. CASE ledger' = Mended(ledger)
      <3>1. /\ ledger' \in Files(LedgerLines) /\ ledger'.lines = Parsed(ledger)
            /\ RowsOf(ledger') = RowsOf(ledger)
        BY <2>2, MendedIs DEF Inv, Stored
      <3>2. Single(ledger'.lines)
        BY <3>1, ParsedSingle DEF Inv, Stored
      <3> QED
        BY <1>1, <3>1, <3>2 DEF Inv, Stored
    <2> QED
      BY <1>2, <2>1, <2>2
  <1>4. Relied' /\ RowsOf(audits') = RowsOf(audits)
    <2>1. CASE audits' = audits
      BY <2>1 DEF Inv, Relied
    <2>2. CASE audits' = Mended(audits)
      <3>1. /\ audits' \in Files(AuditLines) /\ audits'.lines = Parsed(audits)
            /\ RowsOf(audits') = RowsOf(audits)
        BY <2>2, MendedIs DEF Inv, Relied
      <3>2. Following(audits'.lines)
        BY <3>1, ParsedFollowing DEF Inv, Relied
      <3> QED
        BY <3>1, <3>2 DEF Inv, Relied
    <2> QED
      BY <1>2, <2>1, <2>2
  <1>5. Writing'
    BY <1>1 DEF Writing
  <1>6. Control' /\ Counted'
    BY <1>1 DEF Inv, Control, CommandOf, Counted
  <1>7. Shown'
    <2>1. \A name : RowsIn(name, ledger', audits') = RowsIn(name, ledger, audits)
      BY <1>3, <1>4 DEF RowsIn
    <2> QED
      BY <1>1, <2>1 DEF Inv, Shown, Rows
  <1> QED
    BY <1>3, <1>4, <1>5, <1>6, <1>7 DEF Inv

LEMMA DayKeeps ==
    ASSUME Inv, NextDay PROVE Inv'
  <1>1. /\ day' = day + 1 /\ day < MaxDay
        /\ UNCHANGED <<pc, run, calls, deaths, ledger, audits, exports, appended>>
    BY DEF NextDay, cmdVars
  <1>2. Counted'
    BY <1>1, ApplicationsAssumption DEF Inv, Counted
  <1> QED
    BY <1>1, <1>2 DEF Inv, Control, CommandOf, Stored, Relied, Writing, Shown, Rows, RowsIn

-----------------------------------------------------------------------------
(* Every state *)

LEMMA InitInv == Init => Inv
  <1> SUFFICES ASSUME Init PROVE Inv
    OBVIOUS
  <1>1. ledger = OldLedger /\ audits = OldAudits /\ appended = {}
    BY DEF Init
  <1>2. \A p \in Procs : pc[p] = "idle" /\ run[p] = Idle /\ Idle.c.op = "none"
    BY DEF Init, CmdInit, Idle
  <1>3. Counted
    BY CommandsAssumption, ApplicationsAssumption DEF Init, CmdInit, Counted
  <1>4. Control
    BY <1>2 DEF Init, CmdInit, Control, CommandOf, AppendStep, AuditStep, ExportStep
  <1>5. Stored
    <2>1. ledger.lines \in Seq(LedgerRow) /\ ledger.ended \in BOOLEAN
          /\ ledger = [lines |-> ledger.lines, ended |-> ledger.ended]
      BY <1>1, OldFilesAssumption
    <2>2. ledger.lines \in Seq(LedgerLines)
      BY <2>1 DEF LedgerLines
    <2>3. ledger \in Files(LedgerLines)
      BY <2>1, <2>2 DEF Files
    <2>4. Single(ledger.lines)
      BY <1>1, OldFilesAssumption DEF Untwinned, Single
    <2> QED
      BY <1>1, <2>3, <2>4, OldFilesAssumption DEF Stored
  <1>6. Relied
    <2>1. audits.lines \in Seq(Audit) /\ audits.ended \in BOOLEAN
          /\ audits = [lines |-> audits.lines, ended |-> audits.ended]
      BY <1>1, OldFilesAssumption
    <2>2. audits.lines \in Seq(AuditLines)
      BY <2>1 DEF AuditLines
    <2>3. audits \in Files(AuditLines)
      BY <2>1, <2>2 DEF Files
    <2>4. Following(audits.lines)
      BY <1>1, <2>1, OldFilesAssumption, GroundedFollowing
    <2> QED
      BY <1>1, <2>3, <2>4, OldFilesAssumption DEF Relied
  <1>7. Writing
    BY <1>2, ApplicationsAssumption DEF Writing
  <1>8. Shown
    <2>1. exports = [store \in {"ledger", "audits"} |-> [csv |-> {}, md |-> {}]]
      BY DEF Init
    <2>2. \A name \in {"ledger", "audits"} : exports[name].csv = {} /\ exports[name].md = {}
      BY <2>1
    <2> QED
      BY <1>2, <2>1, <2>2 DEF Shown
  <1> QED
    BY <1>3, <1>4, <1>5, <1>6, <1>7, <1>8 DEF Inv

LEMMA NextInv == Inv /\ [Next]_vars => Inv'
  <1> SUFFICES ASSUME Inv, [Next]_vars PROVE Inv'
    OBVIOUS
  <1>1. ASSUME NEW p \in Procs, Step(p) PROVE Inv'
    BY <1>1, AppendCheckKeeps, AppendOpenKeeps, AppendTextKeeps, AppendNewlineKeeps,
       AuditCheckKeeps, AuditWriteKeeps, ExportReadKeeps, ExportCsvKeeps,
       ExportMarkdownKeeps, AskKeeps DEF Step, ReadStep, export_step
  <1>2. ASSUME NEW p \in Procs, NEW c \in Calls[p], Start(p, c) PROVE Inv'
    BY <1>2, StartKeeps
  <1>3. CASE UNCHANGED vars
    BY <1>3 DEF vars, cmdVars, deskVars, Inv, Counted, Control, CommandOf, Stored, Relied,
                Writing, Shown, Rows, RowsIn
  <1> QED
    BY <1>1, <1>2, <1>3, DeathKeeps, HandKeeps, DayKeeps DEF Next

THEOREM InvAlways == Spec => []Inv
  BY InitInv, NextInv, PTL DEF Spec

-----------------------------------------------------------------------------
(* What follows from it *)

\* The desk's files hold rows of their kind, every export shows what its store holds, and
\* every process is at a step of its command (application_ledger.rs, company_audit.rs).
THEOREM TypeCorrect == Spec => []TypeOK
  <1>1. Inv => TypeOK
    <2> SUFFICES ASSUME Inv PROVE TypeOK
      OBVIOUS
    <2>1. \A p \in Procs : /\ run[p].c.op = "none" <=> pc[p] = "idle"
                           /\ pc[p] # "idle" => run[p].c \in Calls[p]
      BY DEF Inv, Control, CommandOf
    <2>2. calls \in 0..MaxCalls /\ deaths \in 0..MaxDeaths /\ day \in 0..MaxDay
      BY DEF Inv, Counted
    <2>3. ledger.ended \in BOOLEAN /\ audits.ended \in BOOLEAN
      BY FileFields DEF Inv, Stored, Relied
    <2>4. \A r \in RowsOf(ledger) : r \in LedgerRow /\ check_row_submit_time(normalize(r))
      BY LedgerRows DEF Inv, Stored
    <2>5. \A a \in RowsOf(audits) : /\ validate_stored_audit(a) /\ a.verdict \in Verdict
                                   /\ a.checks \in [CheckId -> CheckResult]
      <3> SUFFICES ASSUME NEW a \in RowsOf(audits)
                   PROVE  /\ validate_stored_audit(a) /\ a.verdict \in Verdict
                          /\ a.checks \in [CheckId -> CheckResult]
        OBVIOUS
      <3>1. a \in Audit /\ validate_stored_audit(a)
        BY AuditRows DEF Inv, Relied
      <3>2. validate_audit_body(a)
        BY <3>1 DEF validate_stored_audit
      <3> QED
        BY <3>1, <3>2, AuditFields, ChecksAre
    <2>6. /\ exports["ledger"].csv \cup exports["ledger"].md
               \subseteq {normalize(r) : r \in RowsOf(ledger)}
          /\ exports["audits"].csv \cup exports["audits"].md \subseteq RowsOf(audits)
      BY DEF Inv, Shown, Rows, RowsIn
    <2> QED
      BY <2>1, <2>2, <2>3, <2>4, <2>5, <2>6 DEF TypeOK
  <1> QED
    BY <1>1, InvAlways, PTL

\* A reported row stays a readable line of the ledger, whatever died or was edited
\* before and after (application_ledger.rs open_jsonl_append).
THEOREM ReportedRowsKept == Spec => []RowsKept
  <1>1. Inv => RowsKept
    BY DEF Inv, Stored, RowsKept
  <1> QED
    BY <1>1, InvAlways, PTL

\* No two lines of the ledger record the same state of an application
\* (application_ledger.rs append_row, same_state_key).
THEOREM NoTwinLines == Spec => []NoTwin
  <1>1. Inv => NoTwin
    BY ParsedSingle DEF Inv, Stored, NoTwin
  <1> QED
    BY <1>1, InvAlways, PTL

\* Every audit that relies on an earlier one follows it in the store, also after an
\* append that was cut short (company_audit.rs check_reuse, append_audits).
THEOREM ReusedAuditsFollowed == Spec => []ReuseGrounded
  <1>1. Inv => ReuseGrounded
    BY ParsedFollowing, ParsedAudits, FollowingGrounded DEF Inv, Relied, ReuseGrounded
  <1> QED
    BY <1>1, InvAlways, PTL

-----------------------------------------------------------------------------
(* A pass is earned *)

\* Only a pass of the newest audit that answers for the company, recent enough, exits with 0.
LEMMA ExitMeans ==
    ASSUME NEW rows, NEW q, NEW now, NEW status \in status_for(rows, q, now),
           audit_exit_code(status) = 0
    PROVE  \E a \in Hits(rows, q) : /\ effective_verdict(a) = "pass"
                                    /\ ~(now - a.day > StaleAfter) /\ ~(a.day > now)
  <1>1. CASE Hits(rows, q) = {}
    <2>1. status = "unaudited"
      BY <1>1 DEF status_for
    <2>2. audit_exit_code(status) = 5
      BY <2>1 DEF audit_exit_code
    <2> QED
      BY <2>2
  <1>2. CASE Hits(rows, q) # {}
    <2>1. PICK a \in Hits(rows, q) :
              status = IF now - a.day > StaleAfter \/ a.day > now THEN "stale"
                       ELSE effective_verdict(a)
      BY <1>2 DEF status_for
    <2>2. CASE now - a.day > StaleAfter \/ a.day > now
      <3>1. status = "stale"
        BY <2>1, <2>2
      <3>2. audit_exit_code(status) = 5
        BY <3>1 DEF audit_exit_code
      <3> QED
        BY <3>2
    <2>3. CASE ~(now - a.day > StaleAfter \/ a.day > now)
      <3>1. status = effective_verdict(a)
        BY <2>1, <2>3
      <3>2. status \in {"pass", "flag", "block"}
        BY <3>1, VerdictIs DEF effective_verdict, Verdict
      <3>3. status = "pass"
        <4>1. status = "flag" => audit_exit_code(status) = 3
          BY DEF audit_exit_code
        <4>2. status = "block" => audit_exit_code(status) = 4
          BY DEF audit_exit_code
        <4> QED
          BY <3>2, <4>1, <4>2
      <3> QED
        BY <2>3, <3>1, <3>3
    <2> QED
      BY <2>2, <2>3
  <1> QED
    BY <1>1, <1>2

\* The audit that answers is the last line about its domain.
LEMMA HitIs ==
    ASSUME NEW rows, NEW q, NEW a \in Hits(rows, q)
    PROVE  \E i \in DOMAIN rows : /\ a = rows[i]
                                  /\ (IF q.by = "dom" THEN a.dom ELSE a.comp) = q.name
                                  /\ \A k \in DOMAIN rows : k > i => rows[k].dom # a.dom
  <1>1. a \in current_audits(rows) /\ (IF q.by = "dom" THEN a.dom ELSE a.comp) = q.name
    BY DEF Hits
  <1>2. \E i \in DOMAIN rows : a = rows[i] /\ \A k \in DOMAIN rows : k > i => rows[k].dom # rows[i].dom
    BY <1>1 DEF current_audits, Latest
  <1> QED
    BY <1>1, <1>2

\* A process only moves by a step, a death or a start of its own.
LEMMA OwnStep ==
    ASSUME Inv, [Next]_vars, NEW p \in Procs, ~Same(p)
    PROVE  Step(p) \/ Death(p) \/ \E c \in Calls[p] : Start(p, c)
  <1>1. ASSUME NEW q \in Procs, q # p,
               Step(q) \/ Death(q) \/ \E c \in Calls[q] : Start(q, c)
        PROVE  Same(p)
    <2>1. \/ pc' = [pc EXCEPT ![q] = pc'[q]] /\ run' = [run EXCEPT ![q] = run'[q]]
          \/ pc' = [pc EXCEPT ![q] = pc'[q]] /\ run' = run
      <3>1. DOMAIN pc = Procs /\ DOMAIN run = Procs /\ pc = [r \in Procs |-> pc[r]]
            /\ q \in Procs
        BY DEF Inv, Control
      <3>2. \E l : pc' = [pc EXCEPT ![q] = l]
        BY <1>1 DEF Step, ReadStep, export_step, append_check, append_open, append_text,
           append_newline, audit_check, audit_write, export_read, export_csv,
           export_markdown, export_tracker, audit_status, Delivered, Death, Dies, Start,
           Begin, End, Goto
      <3>3. run' = run \/ \E r : run' = [run EXCEPT ![q] = r]
        BY <1>1 DEF Step, ReadStep, export_step, append_check, append_open, append_text,
           append_newline, audit_check, audit_write, export_read, export_csv,
           export_markdown, export_tracker, audit_status, Delivered, Death, Dies, Start,
           Begin, End, Goto, Holds
      <3> QED
        BY <3>1, <3>2, <3>3
    <2> QED
      BY <1>1, <2>1 DEF Inv, Control, Same
  <1>2. ASSUME HandEdit \/ NextDay \/ UNCHANGED vars PROVE Same(p)
    BY <1>2 DEF HandEdit, NextDay, vars, cmdVars, Same
  <1> QED
    BY <1>1, <1>2 DEF Next

LEMMA AnswerStep ==
    ASSUME Inv, [Next]_vars, NEW p \in Procs, Passes(p)', ~Passes(p)
    PROVE  Earned(run[p].c.q)
  <1>1. pc'[p] = "status_print" /\ run'[p].got = 0 /\ ~(pc[p] = "status_print" /\ run[p].got = 0)
    BY DEF Passes
  <1>2. audit_status(p)
    <2>1. ~Same(p)
      BY <1>1 DEF Same
    <2>4. Step(p) \/ Death(p) \/ \E c \in Calls[p] : Start(p, c)
      BY <2>1, OwnStep
    <2>5. ~End(p)
      <3>1. End(p) => pc'[p] = "idle"
        BY Ends DEF Inv
      <3> QED
        BY <1>1, <3>1
    <2>6. \A l : Goto(p, l) => l = "status_print"
      <3>1. \A l : Goto(p, l) => pc'[p] = l
        BY DEF Goto, Inv, Control
      <3> QED
        BY <1>1, <3>1
    <2>7. ~Death(p) /\ ~\E c \in Calls[p] : Start(p, c)
      <3>1. ~Death(p)
        BY <2>5 DEF Death, Dies
      <3>2. ASSUME NEW c \in Calls[p], Start(p, c) PROVE FALSE
        <4>1. pc'[p] = c.op
          BY <3>2, Starts DEF Inv
        <4>2. c.op # "status_print"
          BY CallsAssumption
        <4> QED
          BY <1>1, <4>1, <4>2
      <3> QED
        BY <3>1, <3>2
    <2>8. /\ ~append_open(p) /\ ~append_text(p) /\ ~append_newline(p)
          /\ ~audit_write(p) /\ ~export_csv(p) /\ ~export_markdown(p) /\ ~Delivered(p)
      BY <2>5, <2>6 DEF append_open, append_text, append_newline, audit_write, export_csv,
                        export_markdown, Delivered
    <2>9. ~append_check(p) /\ ~audit_check(p) /\ ~export_read(p) /\ ~export_tracker(p)
      <3>1. append_check(p) => End(p) \/ Goto(p, "append_open")
        BY Zenon DEF append_check
      <3>2. audit_check(p) => End(p) \/ Goto(p, "audit_write")
        BY Zenon DEF audit_check
      <3>3. export_read(p) => End(p) \/ Goto(p, "export_csv")
        BY Zenon DEF export_read
      <3>4. export_tracker(p) => End(p) \/ Goto(p, "tracker_write")
        BY Zenon DEF export_tracker
      <3> QED
        BY <2>5, <2>6, <3>1, <3>2, <3>3, <3>4
    <2> QED
      BY <2>4, <2>7, <2>8, <2>9 DEF Step, ReadStep, export_step
  <1> DEFINE q == run[p].c.q
             rows == parse_audits(audits).rows
  <1>3. parse_audits(audits).ok
        /\ \E status \in status_for(rows, q, day) : Holds(p, audit_exit_code(status), <<>>)
    <2>1. ~End(p)
      <3>1. End(p) => pc'[p] = "idle"
        BY Ends DEF Inv
      <3> QED
        BY <1>1, <3>1
    <2> QED
      BY <1>2, <2>1, Zenon DEF audit_status
  <1>4. PICK status \in status_for(rows, q, day) : Holds(p, audit_exit_code(status), <<>>)
    BY <1>3
  <1>5. audit_exit_code(status) = 0
    <2>1. run'[p] = [c |-> run[p].c, got |-> audit_exit_code(status), rest |-> <<>>]
      BY <1>4 DEF Holds, Inv, Control
    <2> QED
      BY <1>1, <2>1
  <1>6. AllParse(audits) /\ rows = audits.lines
    BY <1>3, ParseAuditsIs
  <1> HIDE DEF rows, q
  <1>7. PICK a \in Hits(rows, q) : /\ effective_verdict(a) = "pass"
                                   /\ ~(day - a.day > StaleAfter) /\ ~(a.day > day)
    BY <1>5, ExitMeans
  <1>8. PICK i \in DOMAIN rows : /\ a = rows[i]
                                 /\ (IF q.by = "dom" THEN a.dom ELSE a.comp) = q.name
                                 /\ \A k \in DOMAIN rows : k > i => rows[k].dom # a.dom
    BY HitIs
  <1>9. \A k \in DOMAIN audits.lines : audits.lines[k] # Garbled /\ audits.lines[k] \in RowsOf(audits)
    BY <1>6, AuditRows DEF AllParse, RowsOf, Inv
  <1>10. a \in Audit /\ validate_stored_audit(a)
    BY <1>6, <1>8, <1>9, AuditRows DEF Inv, Relied
  <1>11. NoObjection(a)
    BY <1>7, <1>10, ChecksAre, PassMeans DEF validate_stored_audit
  <1>12. day - a.day \in 0..StaleAfter
    <2>1. a.day \in Int /\ day \in Nat /\ StaleAfter \in Nat
      BY <1>10, AuditFields, ApplicationsAssumption DEF Inv, Counted
    <2> QED
      BY <1>7, <2>1
  <1>13. i \in DOMAIN audits.lines /\ audits.lines[i] = a /\ a # Garbled
         /\ \A k \in DOMAIN audits.lines :
               k > i => audits.lines[k] # Garbled /\ audits.lines[k].dom # a.dom
    BY <1>6, <1>8, <1>9
  <1>14. (IF q.by = "dom" THEN a.dom ELSE a.comp) = q.name
    BY <1>8
  <1> QED
    BY <1>11, <1>12, <1>13, <1>14 DEF Earned, q

\* `apps audit status` exits with 0 only when the company has earned it
\* (company_audit.rs status_for, audit_exit_code; main.rs cmd_audit).
THEOREM PassesEarned == Spec => PassIsEarned
  <1>1. Inv /\ [Next]_vars =>
          [\A p \in Procs : Passes(p)' /\ ~Passes(p) => Earned(run[p].c.q)]_vars
    BY AnswerStep
  <1> QED
    BY <1>1, InvAlways, PTL DEF Spec, PassIsEarned

-----------------------------------------------------------------------------
(* The tracker *)

\* Of some subsets of a finite set, one is least.
LEMMA LeastSubset ==
    ASSUME NEW S, IsFiniteSet(S), NEW T, T \subseteq SUBSET S, T # {}
    PROVE  \E X \in T : \A Y \in T : Y \subseteq X => Y = X
  <1>1. IsWellFoundedOn(StrictSubsetOrdering(S), SUBSET S)
    BY FS_StrictSubsetOrderingWellFounded, FS_FiniteSubsetsOfFinite
  <1>2. PICK X \in T : \A Y \in T : ~(<<Y, X>> \in StrictSubsetOrdering(S))
    BY <1>1, WFMin
  <1>3. SUFFICES ASSUME NEW Y \in T, Y \subseteq X, Y # X PROVE FALSE
    BY Zenon
  <1>4. <<Y, X>> \in StrictSubsetOrdering(S)
    BY <1>3 DEF StrictSubsetOrdering
  <1> QED
    BY <1>2, <1>4, Zenon

\* The table's order is strict, and tells any two applications of it apart.
LEMMA EarlierIsAnOrder ==
    /\ \A a \in LedgerRow : ~Earlier(a, a)
    /\ \A a, b, c \in LedgerRow : Earlier(a, b) /\ Earlier(b, c) => Earlier(a, c)
    /\ \A a, b \in LedgerRow : a.link # b.link => Earlier(a, b) \/ Earlier(b, a)
  <1>1. \A r \in LedgerRow : r.time \in Nat /\ r.link \in Nat
    BY RowFields, ApplicationsAssumption
  <1> QED
    BY <1>1 DEF Earlier

\* Of any applications, one comes last in the table.
LEMMA OneIsLast ==
    ASSUME NEW D \in SUBSET LedgerRow, IsFiniteSet(D), D # {}
    PROVE  \E m \in D : \A q \in D : ~Earlier(m, q)
  <1> DEFINE After(r) == {q \in D : Earlier(r, q)}
             T == {After(r) : r \in D}
  <1>1. T \subseteq SUBSET D /\ T # {}
    OBVIOUS
  <1>2. PICK X \in T : \A Y \in T : Y \subseteq X => Y = X
    <2> HIDE DEF T
    <2> QED
      BY <1>1, LeastSubset
  <1>3. PICK m \in D : X = After(m)
    BY <1>2
  <1>4. ASSUME NEW q \in D, Earlier(m, q) PROVE FALSE
    <2>1. After(q) \subseteq After(m) /\ After(q) \in T
      BY <1>4, EarlierIsAnOrder
    <2>2. After(q) = After(m)
      BY <1>2, <1>3, <2>1
    <2>3. q \in After(m)
      BY <1>4
    <2>4. Earlier(q, q)
      BY <2>2, <2>3
    <2> QED
      BY <2>4, EarlierIsAnOrder
  <1> QED
    BY <1>4

\* f joins the applications D one after the other, as build's loop does.
Joins(D, f) ==
    \A r \in D : f[r] = find(r, {f[q] : q \in {a \in D : Earlier(a, r)}})

LEMMA SideRows == DOMAIN Side = 1..Len(Side) /\ Len(Side) \in Nat
  BY ApplicationsAssumption

\* Some side row of a nonempty set is the first of it.
LEMMA FirstIs ==
    ASSUME NEW S \in SUBSET DOMAIN Side, S # {}
    PROVE  (CHOOSE i \in S : \A j \in S : i <= j) \in S
  <1>1. IsFiniteSet(DOMAIN Side) /\ DOMAIN Side \subseteq Nat
    BY SideRows, FS_Interval
  <1>2. S \in SUBSET Nat /\ IsFiniteSet(S)
    BY <1>1, FS_Subset
  <1>3. \E i \in S : \A j \in S : i <= j
    BY <1>2, LeastOf
  <1> QED
    BY <1>3

\* find gives 0 or a side row that is not used, and by the posting whenever a free side
\* row has it.
LEMMA FindIs ==
    ASSUME NEW r, NEW used
    PROVE  /\ find(r, used) = 0 \/ find(r, used) \in DOMAIN Side \ used
           /\ \A s \in DOMAIN Side \ used :
                SideKey(s) = TrackerKey[r.link]
                   => find(r, used) # 0 /\ SideKey(find(r, used)) = SideKey(s)
  <1> DEFINE free == DOMAIN Side \ used
             ByUrl(u) == {i \in free : TrackerKey[Side[i].url] = TrackerKey[u]}
             byRole == {i \in free : Side[i].cr = r.cr}
             First(S) == CHOOSE i \in S : \A j \in S : i <= j
  <1>0. 0 \notin DOMAIN Side
    BY SideRows
  <1>1. \A S \in SUBSET free : S # {} => First(S) \in S
    BY FirstIs
  <1>2. CASE ByUrl(r.link) # {}
    <2>1. find(r, used) = First(ByUrl(r.link))
      BY <1>2 DEF find
    <2>2. find(r, used) \in ByUrl(r.link)
      <3> HIDE DEF First
      <3> QED
        BY <1>1, <1>2, <2>1
    <2>3. find(r, used) \in free /\ SideKey(find(r, used)) = TrackerKey[r.link]
      BY <2>2 DEF SideKey
    <2>4. find(r, used) # 0
      BY <2>3, <1>0
    <2> QED
      BY <2>3, <2>4
  <1>3. CASE ByUrl(r.link) = {}
    <2>1. \A s \in free : SideKey(s) # TrackerKey[r.link]
      BY <1>3 DEF SideKey
    <2>2. find(r, used) = 0 \/ find(r, used) \in free
      <3>1. CASE ByUrl(r.apply) # {}
        <4>1. find(r, used) = First(ByUrl(r.apply))
          BY <1>3, <3>1 DEF find
        <4>2. ByUrl(r.apply) \in SUBSET free
          OBVIOUS
        <4> HIDE DEF First, ByUrl
        <4> QED
          BY <1>1, <3>1, <4>1, <4>2
      <3>2. CASE ByUrl(r.apply) = {}
        <4>1. find(r, used) = IF Cardinality(byRole) = 1 THEN First(byRole) ELSE 0
          BY <1>3, <3>2, Zenon DEF find
        <4>2. Cardinality(byRole) = 1 => byRole # {}
          BY FS_EmptySet
        <4>3. byRole \in SUBSET free
          OBVIOUS
        <4> HIDE DEF First, byRole
        <4> QED
          BY <1>1, <4>1, <4>2, <4>3
      <3> QED
        BY <3>1, <3>2
    <2> QED
      BY <2>1, <2>2
  <1> QED
    BY <1>2, <1>3

\* The loop of build ends with a join, whatever the applications are.
LEMMA JoinExists ==
    ASSUME NEW apps \in SUBSET LedgerRow, IsFiniteSet(apps)
    PROVE  \E f \in [apps -> 0..Len(Side)] : Joins(apps, f)
  <1> DEFINE T == {D \in SUBSET apps : ~\E f \in [D -> 0..Len(Side)] : Joins(D, f)}
  <1>1. SUFFICES ASSUME T # {} PROVE FALSE
    OBVIOUS
  <1>2. PICK D \in T : \A Y \in T : Y \subseteq D => Y = D
    <2>1. T \subseteq SUBSET apps
      OBVIOUS
    <2> HIDE DEF T
    <2> QED
      BY <1>1, <2>1, LeastSubset
  <1>3. D \in SUBSET LedgerRow /\ IsFiniteSet(D) /\ ~\E f \in [D -> 0..Len(Side)] : Joins(D, f)
    BY <1>2, FS_Subset
  <1>4. D # {}
    <2>1. ASSUME D = {} PROVE FALSE
      <3>1. [r \in D |-> 0] \in [D -> 0..Len(Side)] /\ Joins(D, [r \in D |-> 0])
        BY <2>1 DEF Joins
      <3> QED
        BY <1>3, <3>1
    <2> QED
      BY <2>1
  <1>5. PICK m \in D : \A q \in D : ~Earlier(m, q)
    BY <1>3, <1>4, OneIsLast
  <1> DEFINE E == D \ {m}
  <1>6. PICK g \in [E -> 0..Len(Side)] : Joins(E, g)
    <2>1. E \in SUBSET apps /\ E \subseteq D /\ E # D
      BY <1>2, <1>5
    <2>2. E \notin T
      BY <1>2, <2>1
    <2> QED
      BY <2>1, <2>2
  <1> DEFINE hit == find(m, {g[q] : q \in {a \in D : Earlier(a, m)}})
             f == [r \in D |-> IF r = m THEN hit ELSE g[r]]
  <1>7. hit \in 0..Len(Side)
    <2>1. hit = 0 \/ hit \in DOMAIN Side
      BY FindIs
    <2> HIDE DEF hit
    <2> QED
      BY <2>1, SideRows
  <1>8. f \in [D -> 0..Len(Side)]
    <2> HIDE DEF hit
    <2> QED
      BY <1>6, <1>7
  <1>9. ASSUME NEW r \in D
        PROVE  f[r] = find(r, {f[q] : q \in {a \in D : Earlier(a, r)}})
    <2>1. ~Earlier(m, r)
      BY <1>5
    <2>2. {f[q] : q \in {a \in D : Earlier(a, r)}} = {g[q] : q \in {a \in D : Earlier(a, r)}}
      <3>1. \A q \in {a \in D : Earlier(a, r)} : f[q] = g[q]
        <4> HIDE DEF hit
        <4> QED
          BY <2>1
      <3> HIDE DEF f
      <3> QED
        BY <3>1
    <2>3. {a \in D : Earlier(a, r)} = {a \in E : Earlier(a, r)}
      BY <2>1
    <2>4. CASE r = m
      <3>1. f[m] = hit
        <4> HIDE DEF hit
        <4> QED
          OBVIOUS
      <3> HIDE DEF f
      <3> QED
        BY <2>2, <2>4, <3>1
    <2>5. CASE r # m
      <3>1. f[r] = g[r]
        <4> HIDE DEF hit
        <4> QED
          BY <2>5
      <3>2. g[r] = find(r, {g[q] : q \in {a \in E : Earlier(a, r)}})
        BY <1>6, <2>5 DEF Joins
      <3> HIDE DEF f
      <3> QED
        BY <2>2, <2>3, <3>1, <3>2
    <2> QED
      BY <2>4, <2>5
  <1>10. Joins(D, f)
    <2> HIDE DEF f
    <2> QED
      BY <1>9 DEF Joins
  <1> QED
    BY <1>3, <1>8, <1>10

\* A join uses no side row twice, and leaves none unused that an application's posting names
\* unless that application has another of the same posting.
LEMMA BuildIsSound ==
    ASSUME NEW n \in Nat, NEW rows \in [1..n -> LedgerRow]
    PROVE  JoinSound(build(rows))
  <1> DEFINE key == [i \in DOMAIN rows |-> TrackerKey[rows[i].link]]
             apps == Latest(rows, key)
             f == CHOOSE h \in [apps -> 0..Len(Side)] : \A r \in DOMAIN h :
                    h[r] = find(r, {h[q] : q \in {a \in DOMAIN h : Earlier(a, r)}})
  <1>1. build(rows) = [joined |-> f, unused |-> DOMAIN Side \ {f[r] : r \in apps}]
    BY DEF build
  <1>2. apps \in SUBSET LedgerRow /\ IsFiniteSet(apps)
    <2>1. apps \subseteq {rows[i] : i \in 1..n}
      BY LatestRows
    <2>2. IsFiniteSet({rows[i] : i \in 1..n})
      <3>1. rows \in Surjection(1..n, {rows[i] : i \in 1..n})
        BY DEF Surjection
      <3> QED
        BY <3>1, FS_Interval, FS_Surjection
    <2> QED
      BY <2>1, <2>2, FS_Subset
  <1>3. \A a, b \in apps : a.link = b.link => a = b
    <2>1. SUFFICES ASSUME NEW a \in apps, NEW b \in apps, a.link = b.link PROVE a = b
      BY Zenon
    <2>2. PICK i \in 1..n : a = rows[i] /\ \A k \in 1..n : k > i => key[k] # key[i]
      BY DEF Latest
    <2>3. PICK j \in 1..n : b = rows[j] /\ \A k \in 1..n : k > j => key[k] # key[j]
      BY DEF Latest
    <2>4. key[i] = key[j]
      BY <2>1, <2>2, <2>3
    <2>5. i = j
      <3> HIDE DEF key
      <3> QED
        BY <2>2, <2>3, <2>4
    <2> QED
      BY <2>2, <2>3, <2>5
  <1> HIDE DEF apps
  <1>4. f \in [apps -> 0..Len(Side)] /\ Joins(apps, f)
    <2>1. \E h \in [apps -> 0..Len(Side)] : \A r \in DOMAIN h :
             h[r] = find(r, {h[q] : q \in {a \in DOMAIN h : Earlier(a, r)}})
      <3>1. PICK h \in [apps -> 0..Len(Side)] : Joins(apps, h)
        BY <1>2, JoinExists
      <3>2. DOMAIN h = apps
        OBVIOUS
      <3> QED
        BY <3>1, <3>2 DEF Joins
    <2>2. /\ f \in [apps -> 0..Len(Side)]
          /\ \A r \in DOMAIN f : f[r] = find(r, {f[q] : q \in {a \in DOMAIN f : Earlier(a, r)}})
      BY <2>1
    <2> HIDE DEF f
    <2>3. DOMAIN f = apps
      BY <2>2
    <2> QED
      BY <2>2, <2>3 DEF Joins
  <1> HIDE DEF f
  <1> DEFINE Used(r) == {f[q] : q \in {a \in apps : Earlier(a, r)}}
  <1>5. \A r \in apps : f[r] = find(r, Used(r))
    BY <1>4 DEF Joins
  <1>6. ASSUME NEW q \in apps, NEW r \in apps, Earlier(q, r), f[q] = f[r] PROVE f[q] = 0
    <2>1. f[q] \in Used(r)
      BY <1>6
    <2>2. f[r] = 0 \/ f[r] \notin Used(r)
      <3> HIDE DEF Used
      <3> QED
        BY <1>5, FindIs
    <2> QED
      BY <1>6, <2>1, <2>2
  <1>7. ASSUME NEW q \in apps, NEW r \in apps, f[q] = f[r] PROVE q = r \/ f[q] = 0
    <2>1. q = r \/ Earlier(q, r) \/ Earlier(r, q)
      BY <1>2, <1>3, EarlierIsAnOrder
    <2> QED
      BY <1>6, <1>7, <2>1
  <1>8. ASSUME NEW s \in DOMAIN Side \ {f[r] : r \in apps}, NEW r \in apps,
               SideKey(s) = TrackerKey[r.link]
        PROVE  f[r] # 0 /\ SideKey(f[r]) = SideKey(s)
    <2>1. s \in DOMAIN Side \ Used(r)
      OBVIOUS
    <2> HIDE DEF Used
    <2>2. find(r, Used(r)) # 0 /\ SideKey(find(r, Used(r))) = SideKey(s)
      BY <1>8, <2>1, FindIs
    <2> QED
      BY <1>5, <2>2
  <1>9. DOMAIN f = apps
    BY <1>4
  <1> QED
    BY <1>1, <1>7, <1>8, <1>9 DEF JoinSound

LEMMA TrackerStep ==
    ASSUME Inv, TrackerSound, [Next]_vars
    PROVE  TrackerSound'
  <1> SUFFICES ASSUME NEW p \in Procs, pc'[p] = "tracker_write" PROVE JoinSound(run'[p].got)
    BY DEF TrackerSound
  <1>1. CASE Same(p)
    BY <1>1 DEF Same, TrackerSound
  <1>2. CASE ~Same(p)
    <2>1. Step(p) \/ Death(p) \/ \E c \in Calls[p] : Start(p, c)
      BY <1>2, OwnStep
    <2>2. ~End(p)
      <3>1. End(p) => pc'[p] = "idle"
        BY Ends DEF Inv
      <3> QED
        BY <3>1
    <2>3. \A l : Goto(p, l) => l = "tracker_write"
      <3>1. \A l : Goto(p, l) => pc'[p] = l
        BY DEF Goto, Inv, Control
      <3> QED
        BY <3>1
    <2>4. ~Death(p) /\ ~\E c \in Calls[p] : Start(p, c)
      <3>1. ~Death(p)
        BY <2>2 DEF Death, Dies
      <3>2. ASSUME NEW c \in Calls[p], Start(p, c) PROVE FALSE
        <4>1. pc'[p] = c.op
          BY <3>2, Starts DEF Inv
        <4>2. c.op # "tracker_write"
          BY CallsAssumption
        <4> QED
          BY <4>1, <4>2
      <3> QED
        BY <3>1, <3>2
    <2>5. /\ ~append_open(p) /\ ~append_text(p) /\ ~append_newline(p)
          /\ ~audit_write(p) /\ ~export_csv(p) /\ ~export_markdown(p) /\ ~Delivered(p)
      BY <2>2, <2>3 DEF append_open, append_text, append_newline, audit_write, export_csv,
                        export_markdown, Delivered
    <2>6. ~append_check(p) /\ ~audit_check(p) /\ ~export_read(p) /\ ~audit_status(p)
      <3>1. append_check(p) => End(p) \/ Goto(p, "append_open")
        BY Zenon DEF append_check
      <3>2. audit_check(p) => End(p) \/ Goto(p, "audit_write")
        BY Zenon DEF audit_check
      <3>3. export_read(p) => End(p) \/ Goto(p, "export_csv")
        BY Zenon DEF export_read
      <3>4. audit_status(p) => End(p) \/ Goto(p, "status_print")
        BY Zenon DEF audit_status
      <3> QED
        BY <2>2, <2>3, <3>1, <3>2, <3>3, <3>4
    <2>7. export_tracker(p)
      BY <2>1, <2>4, <2>5, <2>6 DEF Step, ReadStep, export_step
    <2> DEFINE rows == parse_ledger(ledger).rows
    <2>8. parse_ledger(ledger).ok /\ Holds(p, build(rows), <<>>)
      BY <2>2, <2>7, Zenon DEF export_tracker
    <2>9. run'[p].got = build(rows)
      <3>1. run'[p] = [c |-> run[p].c, got |-> build(rows), rest |-> <<>>]
        <4> HIDE DEF rows
        <4> QED
          BY <2>8 DEF Holds, Inv, Control
      <3> QED
        BY <3>1
    <2>10. Len(ledger.lines) \in Nat /\ rows \in [1..Len(ledger.lines) -> LedgerRow]
      <3>1. AllParse(ledger) /\ rows = [i \in DOMAIN ledger.lines |-> normalize(ledger.lines[i])]
        BY <2>8, ParseLedgerIs
      <3>2. /\ DOMAIN ledger.lines = 1..Len(ledger.lines) /\ Len(ledger.lines) \in Nat
            /\ RowsOf(ledger) \subseteq LedgerRow
        BY LedgerRows DEF Inv
      <3>3. \A i \in DOMAIN ledger.lines : ledger.lines[i] \in LedgerRow
        BY <3>1, <3>2 DEF AllParse, RowsOf
      <3>4. \A i \in DOMAIN ledger.lines : normalize(ledger.lines[i]) \in LedgerRow
        BY <3>3, NormalFields
      <3> HIDE DEF rows
      <3> QED
        BY <3>1, <3>2, <3>4
    <2> HIDE DEF rows
    <2> QED
      BY <2>9, <2>10, BuildIsSound
  <1> QED
    BY <1>1, <1>2

\* TRACKER.md never gives one hand-kept row to two applications, nor lists an application
\* as still to be sent that the ledger holds, however rows and links repeat and whatever
\* the schedule reads between two writes (tracker.rs build, Index::find).
THEOREM TrackerAlwaysSound == Spec => []TrackerSound
  <1>1. Init => TrackerSound
    BY DEF Init, CmdInit, TrackerSound
  <1> QED
    BY <1>1, TrackerStep, InvAlways, PTL DEF Spec
=============================================================================
