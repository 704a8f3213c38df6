----------------------------- MODULE AtomicLog -----------------------------
(***************************************************************************)
(* What the record log promises its users, without files, locks or phases: *)
(* a unit of work enters the log in one step, whole and in order, only if  *)
(* it is valid and repeats no idempotency key; nothing ever leaves the     *)
(* log; and a caller is told "done" of a unit only when the log holds it.  *)
(***************************************************************************)
EXTENDS Naturals, Sequences

CONSTANTS Procs, Events, KeyOf, Valid, Units

VARIABLES log, told

NoAnswer == [answer |-> "none", unit |-> <<>>]

\* unit is a contiguous stretch of l.
Holds(l, unit) ==
    \E n \in 0..Len(l) :
       /\ n + Len(unit) <= Len(l)
       /\ \A i \in 1..Len(unit) : l[n + i] = unit[i]

Acceptable(unit) ==
    /\ unit # <<>>
    /\ \A i \in 1..Len(unit) : unit[i] \in Valid
    /\ \A i, j \in 1..Len(unit) : KeyOf[unit[i]] = KeyOf[unit[j]] => i = j

Fresh(l, unit) ==
    \A i \in 1..Len(unit), j \in 1..Len(l) : KeyOf[unit[i]] # KeyOf[l[j]]

Init ==
    /\ log = <<>>
    /\ told = [p \in Procs |-> NoAnswer]

Commit(unit) ==
    /\ Acceptable(unit)
    /\ Fresh(log, unit)
    /\ log' = log \o unit
    /\ UNCHANGED told

Ask(p) ==
    /\ told' = [told EXCEPT ![p] = NoAnswer]
    /\ UNCHANGED log

Answer(p, answer, unit) ==
    /\ answer = "done" => Holds(log, unit)
    /\ told' = [told EXCEPT ![p] = [answer |-> answer, unit |-> unit]]
    /\ UNCHANGED log

Next ==
    \/ \E unit \in Units : Commit(unit)
    \/ \E p \in Procs :
          \/ Ask(p)
          \/ \E unit \in Units \cup {<<>>}, a \in {"done", "abort", "refused", "error"} :
                Answer(p, a, unit)

Spec == Init /\ [][Next]_<<log, told>>
=============================================================================
