---------------------------- MODULE RecordViews ----------------------------
(***************************************************************************)
(* What readers make of the record log of RecordCommit: replay to current  *)
(* rows (replay.rs), the snapshot and the change feed (view.rs,            *)
(* surface.rs), and the merge of events recorded offline (sync.rs).  All   *)
(* of it is computed from the events read in one go; a rename replaces the *)
(* log, so a reader holds the log of some moment.                          *)
(*                                                                         *)
(* An event stands for its encoded line; KeyOf is its (aggregate, key).    *)
(* A row is the event it was materialized from.                            *)
(***************************************************************************)
EXTENDS RecordCommit, FiniteSets

CONSTANTS
    AggregateOf,   \* the aggregate of an event, a number: ids are only ordered
    VersionOf,     \* its version: each caller numbers its events as it likes
    SkewOf,        \* how far its two times are apart
    MaxSkew        \* max_clock_skew of the owner's configuration

ASSUME ViewsAssumption ==
    /\ AggregateOf \in [Events -> Nat] /\ VersionOf \in [Events -> Nat]
    /\ SkewOf \in [Events -> Nat] /\ MaxSkew \in Nat
    /\ \A e, f \in Events : KeyOf[e] = KeyOf[f] => AggregateOf[e] = AggregateOf[f]

Refused == <<"refused">>
ASSUME RefusedAssumption == "refused" \notin Events

EventsIn(l) == {l[i] : i \in 1..Len(l)}
Aggregates(l) == {AggregateOf[e] : e \in EventsIn(l)}

Positions(l) == 1..Len(l)

\* The order in which lines were written, as pairs of positions.
AsWritten(l) == {x \in Positions(l) \X Positions(l) : x[1] < x[2]}

\* The lines of l at the positions I in an order of positions: k of I are up to the k-th.
Arranged(l, I, order) ==
    [k \in 1..Cardinality(I) |->
        l[CHOOSE i \in I : Cardinality({j \in I : j = i \/ <<j, i>> \in order}) = k]]

\* The moment that has passed when the first n lines were written.
Prefix(l, n) == SubSeq(l, 1, n)

-----------------------------------------------------------------------------
(* replay.rs *)

\* One line that does not pass check() makes the whole log unreadable.
parse_event_log(l) == IF EventsIn(l) \subseteq Valid THEN l ELSE Refused

IdempotencyConflict(l) ==
    \E i, j \in 1..Len(l) : KeyOf[l[i]] = KeyOf[l[j]] /\ l[i] # l[j]

\* The lines that are not repetitions of an earlier one.
Firsts(l) == {i \in 1..Len(l) : \A j \in 1..(i - 1) : KeyOf[l[j]] # KeyOf[l[i]]}

\* Mutant: of two events with one version the first stays.
Supersedes_newerOnly(l, i, j) ==
    \/ VersionOf[l[i]] > VersionOf[l[j]]
    \/ VersionOf[l[i]] = VersionOf[l[j]] /\ i < j

\* A version that is not smaller replaces the row.
Supersedes(l, i, j) ==
    \/ VersionOf[l[i]] > VersionOf[l[j]]
    \/ VersionOf[l[i]] = VersionOf[l[j]] /\ i > j

\* The current rows, by aggregate.
replay(l) ==
    [a \in Aggregates(l) |->
        LET mine == {i \in Firsts(l) : AggregateOf[l[i]] = a}
        IN  l[CHOOSE i \in mine : \A j \in mine \ {i} : Supersedes(l, i, j)]]

-----------------------------------------------------------------------------
(* view.rs *)

UpTo(l, at) == Arranged(l, {i \in Positions(l) : VersionOf[l[i]] <= at}, AsWritten(l))

\* snapshot_json without --at takes the largest version.
TopVersion(l) == LET V == {VersionOf[e] : e \in EventsIn(l)} \cup {0}
                 IN  CHOOSE v \in V : \A w \in V : w <= v

snapshot_at(l, at) == replay(UpTo(l, at))

snapshot_json(l) == snapshot_at(l, TopVersion(l))

\* sort_by version and aggregate, which keeps the order of equal ones.
ByVersion(l) ==
    LET Before(i, j) ==
            \/ VersionOf[l[i]] < VersionOf[l[j]]
            \/ VersionOf[l[i]] = VersionOf[l[j]] /\ AggregateOf[l[i]] < AggregateOf[l[j]]
            \/ VersionOf[l[i]] = VersionOf[l[j]] /\ AggregateOf[l[i]] = AggregateOf[l[j]] /\ i < j
    IN  {x \in Positions(l) \X Positions(l) : Before(x[1], x[2])}

\* Mutant: the feed starts one version late.
change_feed_skipsOne(l, since) ==
    Arranged(l, {i \in Positions(l) : VersionOf[l[i]] > since + 1}, ByVersion(l))

change_feed(l, since) ==
    Arranged(l, {i \in Positions(l) : VersionOf[l[i]] > since}, ByVersion(l))

\* max_by_key returns the last of the largest.
text_of(l, a) ==
    LET mine == {i \in 1..Len(l) : AggregateOf[l[i]] = a}
    IN  l[CHOOSE i \in mine : \A j \in mine \ {i} :
              \/ VersionOf[l[i]] > VersionOf[l[j]]
              \/ VersionOf[l[i]] = VersionOf[l[j]] /\ i > j]

-----------------------------------------------------------------------------
(* sync.rs *)

check_clock_skew(e) == SkewOf[e] <= MaxSkew

Skewed(l) == \E e \in EventsIn(l) : ~check_clock_skew(e)

\* Mutant: offline events are looked up among the owner's only.
merge_offline_ownersKeys(owner, offline) ==
    LET lines == owner \o offline
        known(i) == \E f \in EventsIn(owner) : KeyOf[lines[i]] = KeyOf[f]
        added == {i \in Positions(lines) : i > Len(owner) /\ ~known(i)}
    IN  IF \/ Skewed(lines)
           \/ \E e \in EventsIn(offline), f \in EventsIn(owner) : KeyOf[e] = KeyOf[f] /\ e # f
        THEN Refused
        ELSE Arranged(lines, Positions(owner) \cup added, ByVersion(lines))

\* A skewed event on either side, or a key with two lines, refuses the whole merge; what
\* is known already is skipped.
merge_offline(owner, offline) ==
    LET lines == owner \o offline
        added == {i \in Firsts(lines) : i > Len(owner)}
    IN  IF Skewed(lines) \/ IdempotencyConflict(lines)
        THEN Refused
        ELSE Arranged(lines, Positions(owner) \cup added, ByVersion(lines))

-----------------------------------------------------------------------------
(* Properties *)

\* A caller that has the rows of a snapshot applies a feed to them, in its order.
Applied(rows, feed) ==
    [a \in DOMAIN rows \cup Aggregates(feed) |->
        LET mine == {i \in 1..Len(feed) : AggregateOf[feed[i]] = a}
        IN  IF mine = {} THEN rows[a] ELSE feed[CHOOSE i \in mine : \A j \in mine : j <= i]]

Moments == 0..TopVersion(log)

\* The log can always be read, and the three views of view.rs tell the same: whichever
\* version a snapshot is taken at, the feed since then leads from it to the current rows, and
\* those are what text_of answers, although versions repeat and are out of order in the log.
ViewsAgree ==
    LET rows == snapshot_json(log) IN
      /\ parse_event_log(log) = log
      /\ \A v \in Moments : Applied(snapshot_at(log, v), change_feed(log, v)) = rows
      /\ \A a \in DOMAIN rows : text_of(log, a) = rows[a]

\* Every event after the first n has a larger version than a poller saw by then; one that
\* saw nothing asks for the feed since 0, which has no event of version 0.
RisesAfter(n) ==
    \A j \in (n + 1)..Len(log) : VersionOf[log[j]] > TopVersion(Prefix(log, n))

\* A poller that read the log at some moment and asks for the feed since the largest version
\* it saw misses nothing, provided what was committed since has larger versions.  (Versions
\* count per aggregate if callers say so; then it does miss events.)
PollerMissesNothing ==
    \A n \in 0..Len(log) : RisesAfter(n) =>
        LET then == Prefix(log, n) IN
          Applied(snapshot_json(then), change_feed(log, TopVersion(then))) = snapshot_json(log)

\* A laptop copies the log at some moment and records a unit of its own.  Whatever was
\* committed meanwhile, its merge loses no event of either side, can be replayed, and adds
\* nothing when it is sent again; or it is refused, for skew or for two lines with one key.
OfflineMergeIsSafe ==
    \A n \in 0..Len(log), u \in Units :
        LET copy == Prefix(log, n) \o u
            both == log \o u
            m == merge_offline(log, copy)
        IN  IF m = Refused
            THEN Skewed(both) \/ IdempotencyConflict(both)
            ELSE /\ EventsIn(m) = EventsIn(both)
                 /\ Len(m) = Cardinality({KeyOf[e] : e \in EventsIn(m)})
                 /\ \A a \in DOMAIN replay(log) : VersionOf[replay(log)[a]] <= VersionOf[replay(m)[a]]
                 /\ merge_offline(m, copy) = m
=============================================================================
