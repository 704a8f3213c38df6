----------------------------- MODULE MemoryDoc -----------------------------
(***************************************************************************)
(* The episodic memory document (crdt.rs) and what reflection makes of it  *)
(* (coherence.rs), as operators on a document d.                           *)
(*                                                                         *)
(* Data abstraction.  A moment is a natural number and nothing happens     *)
(* twice at one moment, so an entry is named by its moment: entry_id       *)
(* hashes writer, sequence number, microseconds and content.  All actions  *)
(* have one signature: there is one pattern and one skill.  Goals and      *)
(* context are left out (nothing in src/ outside tests writes them), and   *)
(* so are coherence figures, version and vector clock (they feed entry ids *)
(* only) and the hash that skips a merge of equal documents.               *)
(***************************************************************************)
EXTENDS Integers, FiniteSets

CONSTANTS
    MinEntries,   \* min_entries_for_reflection, 5 in the code
    WindowLen,    \* actions in a pattern, 3 in the code
    Threshold,    \* skill_synthesis_threshold, 3 in the code
    HistoryMax    \* coherence records kept, 100 in the code

ASSUME DocAssumption ==
    /\ MinEntries \in Nat /\ WindowLen \in Nat \ {0}
    /\ Threshold \in Nat \ {0} /\ HistoryMax \in Nat

TrajectoryType == {"observation", "action", "reflection"}

Entry == [at : Nat, kind : TrajectoryType]
Skill == [version : Nat, at : Nat]

\* history: the moments of the coherence records.  A skill of version 0 is none.
CrdtDocument == [traj : SUBSET Entry, count : Nat, skill : Skill, history : SUBSET Nat]

NewDocument == [traj |-> {}, count |-> 0, skill |-> [version |-> 0, at |-> 0], history |-> {}]

-----------------------------------------------------------------------------

\* The history is sorted by time and drained from the front.
Newest(S) == {x \in S : Cardinality({y \in S : x < y}) < HistoryMax}

Later(m, n) == IF n > m THEN n ELSE m

\* Mutant: with the shortcut the comment on merge warns of, a document that is no longer
\* than our own is taken for one we have.
merge_versionGuard(d, other) ==
    IF Cardinality(other.traj) <= Cardinality(d.traj) THEN d
    ELSE [traj    |-> d.traj \cup other.traj,
          count   |-> Later(d.count, other.count),
          skill   |-> IF d.skill.version >= other.skill.version THEN d.skill ELSE other.skill,
          history |-> Newest(d.history \cup other.history)]

\* Mutant: counts are not merged.
merge_ownCount(d, other) ==
    [traj    |-> d.traj \cup other.traj,
     count   |-> d.count,
     skill   |-> IF d.skill.version >= other.skill.version THEN d.skill ELSE other.skill,
     history |-> Newest(d.history \cup other.history)]

\* Entries of one id are the same entry, so the trajectories' union is what keeping the
\* later of two leaves; counts take the larger; of two skills with one version ours stays.
merge(d, other) ==
    [traj    |-> d.traj \cup other.traj,
     count   |-> Later(d.count, other.count),
     skill   |-> IF d.skill.version >= other.skill.version THEN d.skill ELSE other.skill,
     history |-> Newest(d.history \cup other.history)]

\* Mutant: the entry is stamped with the moment to come.
append_trajectory_late(d, at, kind) == [d EXCEPT !.traj = @ \cup {[at |-> at + 1, kind |-> kind]}]

append_trajectory(d, at, kind) == [d EXCEPT !.traj = @ \cup {[at |-> at, kind |-> kind]}]

-----------------------------------------------------------------------------
(* coherence.rs *)

Actions(d) == {e \in d.traj : e.kind = "action"}

\* Windows of WindowLen consecutive actions, all of them counted at every reflection.
Windows(d) == Later(0, Cardinality(Actions(d)) - WindowLen + 1)

\* Each window adds one; from the threshold on each is synthesized, so the last one's
\* count is the version, unless the skill has that version already.
detect_and_synthesize(d, now) ==
    LET count == d.count + Windows(d)
        fresh == Windows(d) > 0 /\ count >= Threshold /\ d.skill.version < count
    IN  [traj |-> d.traj, count |-> count,
         skill |-> IF fresh THEN [version |-> count, at |-> now] ELSE d.skill,
         history |-> d.history]

CanReflect(d) == Cardinality(d.traj) >= MinEntries

reflect(d, now) ==
    append_trajectory(
        detect_and_synthesize([d EXCEPT !.history = Newest(@ \cup {now})], now),
        now, "reflection")

-----------------------------------------------------------------------------

\* d is a later state of c: what c remembers, d remembers, but for drained history.
Remembers(d, c) ==
    /\ c.traj \subseteq d.traj
    /\ c.count <= d.count
    /\ c.skill.version <= d.skill.version

\* All but which of two skills of one version is kept.
SameButForTies(c, d) ==
    /\ c.traj = d.traj /\ c.count = d.count /\ c.history = d.history
    /\ c.skill.version = d.skill.version
=============================================================================
