----------------------------- MODULE JsonLines -----------------------------
(***************************************************************************)
(* An append-only file of JSON lines, as the ledger, the audit store and   *)
(* the archive sidecar keep it.  A file is its lines and whether the last  *)
(* one has its newline.  Text written after a line without one lengthens   *)
(* that line, which then parses no more.  Blank lines are skipped by every *)
(* reader and left out, and so is the difference between no file and an    *)
(* empty one.                                                              *)
(***************************************************************************)
EXTENDS Integers, Sequences, FiniteSets, SequencesExt

CONSTANT Garbled   \* a line that does not parse

EmptyFile == [lines |-> <<>>, ended |-> TRUE]

\* A row's text goes in without its newline (writeln! writes it in a call of its own).
AddText(f, row) ==
    [lines |-> IF f.ended THEN Append(f.lines, row)
                          ELSE [f.lines EXCEPT ![Len(f.lines)] = Garbled],
     ended |-> FALSE]

AddNewline(f) == [lines |-> f.lines, ended |-> TRUE]

\* One call writes all the rows with their newlines.
AddLines(f, rows) ==
    IF rows = <<>> THEN f
    ELSE [lines |-> AddText(f, Head(rows)).lines \o Tail(rows), ended |-> TRUE]

\* What a call that died may have left: some of the rows, and perhaps a piece of
\* the next, which parses only when it is the whole text.
CutShort(f, rows) ==
    UNION {LET done == AddLines(f, SubSeq(rows, 1, n))
           IN {done, AddText(done, Garbled), AddText(done, rows[n + 1])} :
              n \in 0..(Len(rows) - 1)}

AllParse(f) == \A i \in 1..Len(f.lines) : f.lines[i] # Garbled

RowsOf(f) == {f.lines[i] : i \in DOMAIN f.lines} \ {Garbled}

\* The entries of s at the positions I, in their order: the k-th is at the k-th of I.
Picked(s, I) ==
    [k \in 1..Cardinality(I) |-> s[CHOOSE i \in I : Cardinality({j \in I : j <= i}) = k]]

\* The lines that parse.
Parsed(f) == Picked(f.lines, {i \in DOMAIN f.lines : f.lines[i] # Garbled})
=============================================================================
