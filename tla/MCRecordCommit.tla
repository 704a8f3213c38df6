--------------------------- MODULE MCRecordCommit ---------------------------
(***************************************************************************)
(* Small instances of RecordCommit and RecordViews for TLC.                *)
(***************************************************************************)
EXTENDS RecordViews

CONSTANTS p1, p2

MCProcs == {p1, p2}

\* "a2" is another event with the key of "a", of version 0; "c" another one of its aggregate
\* and with its version; "bad" fails check().
MCEvents == {"a", "a2", "b", "c", "bad"}
MCKeyOf  == [e \in MCEvents |-> IF e = "a2" THEN "a" ELSE e]
MCValid  == {"a", "a2", "b", "c"}

MCAggregateOf == [e \in MCEvents |-> IF e \in {"a", "a2", "c"} THEN 2 ELSE 1]
MCVersionOf   == [e \in MCEvents |-> CASE e = "b" -> 2 [] e = "a2" -> 0 [] OTHER -> 1]
\* "c" may be too far off for a laptop; "bad" never gets that far.
MCSkewOf      == [e \in MCEvents |-> IF e = "bad" THEN 6 ELSE 5]

\* The second caller is an agent; "c" is the owner's.
MCMcp == {p2}

\* Two events; a retry of one of them in a unit of its own; one unit that repeats a key,
\* one that is invalid and one that is empty.
MCUnits == {<<"a", "b">>, <<"b">>, <<"a2">>, <<"c">>, <<"a", "a2">>, <<"bad">>, <<>>}
=============================================================================
