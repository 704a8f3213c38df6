--------------------------- MODULE MCApplications ---------------------------
(* The desk with one writer and a scheduled reader. *)
EXTENDS Applications

\* 1 .../jobs/p   2 .../jobs/p/   3 .../jobs/p/application
\* 4 .../q?gh=7   5 .../q?gh=8    6 .../q
Postings == [u \in 0..6 |-> IF u \in {2, 3} THEN 1 ELSE u]
TrackerKeys == [u \in 0..6 |-> CASE u \in {1, 2, 3} -> 1 [] u \in {4, 5, 6} -> 6 [] OTHER -> 0]

Row(cr, link, apply, status, time) ==
    [cr |-> cr, link |-> link, apply |-> apply, status |-> status, time |-> time,
     unknown |-> FALSE]

Legacy == Row(2, 5, 0, "submitted", 0)
TheLedger == [lines |-> <<Legacy>>, ended |-> FALSE]

NewRows ==
    {Row(1, 1, 0, "prepared", 0), Row(1, 2, 0, "prepared", 0), Row(1, 2, 3, "submitted", 1),
     Row(1, 4, 0, "submitted", 2), Row(1, 3, 0, "prepared", 0),
     [Legacy EXCEPT !.unknown = TRUE]}

SideRows == <<[url |-> 6, cr |-> 1], [url |-> 1, cr |-> 1], [url |-> 0, cr |-> 2]>>

Checks(apply, headcount, reviews) ==
    [id \in CheckId |-> CASE id = "apply_domain" -> apply [] id = "headcount" -> headcount
                          [] id = "reviews_news" -> reviews [] OTHER -> "pass"]
Clean == Checks("pass", "unknown", "pass")
NoSize == Checks("pass", "unknown", "unknown")
NoDomain == Checks("unknown", "pass", "pass")
Bad == Checks("block", "pass", "pass")

Audited(dom, on, checks, verdict, reused) ==
    [dom |-> dom, comp |-> "c", day |-> on, checks |-> checks, verdict |-> verdict,
     reused |-> reused]

TheAudits == [lines |-> <<Audited("d1", 0, NoSize, "pass", -1)>>, ended |-> TRUE]

First == Audited("d2", 0, Clean, "pass", -1)
Second == Audited("d2", 1, Clean, "pass", 0)
Batches ==
    {<<First, Second>>, <<Second, First>>, <<First, Audited("d1", 1, Bad, "block", 0)>>,
     <<Audited("d1", 1, Clean, "pass", -1)>>, <<Audited("d1", 1, NoDomain, "pass", -1)>>,
     <<Audited("d1", 1, NoDomain, "flag", -1)>>}

Commands_ ==
    [op |-> {[op |-> "append", row |-> r] : r \in NewRows}
              \cup {[op |-> "audit", batch |-> b] : b \in Batches},
     cron |-> {[op |-> "export", store |-> "ledger"], [op |-> "export", store |-> "audits"],
               [op |-> "tracker"], [op |-> "status", q |-> [by |-> "dom", name |-> "d1"]],
               [op |-> "status", q |-> [by |-> "comp", name |-> "c"]]}]
=============================================================================
