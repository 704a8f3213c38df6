--------------------------- MODULE JsonLinesProofs ---------------------------
(***************************************************************************)
(* Facts about JsonLines: what a file holds after text, newlines and lines *)
(* were added, and what taking entries out of a sequence leaves.           *)
(***************************************************************************)
EXTENDS JsonLines, FiniteSetTheorems, FunctionTheorems, SequenceTheorems,
        TLAPS

-----------------------------------------------------------------------------
(* Entries taken out of a sequence *)

\* How many of I are not after i.
Upto(I, i) == {j \in I : j <= i}

LEMMA UptoFinite ==
    ASSUME NEW I \in SUBSET Nat, IsFiniteSet(I), NEW i \in I
    PROVE  IsFiniteSet(Upto(I, i)) /\ Cardinality(Upto(I, i)) \in 1..Cardinality(I)
  <1>1. Upto(I, i) \in SUBSET I
    BY DEF Upto
  <1>2. IsFiniteSet(Upto(I, i)) /\ Cardinality(Upto(I, i)) <= Cardinality(I)
    BY <1>1, FS_Subset
  <1>3. Cardinality(Upto(I, i)) \in Nat /\ Cardinality(I) \in Nat
    BY <1>2, FS_CardinalityType
  <1>4. Upto(I, i) # {}
    BY DEF Upto
  <1>5. Cardinality(Upto(I, i)) # 0
    BY <1>2, <1>4, FS_EmptySet
  <1> QED
    BY <1>2, <1>3, <1>5

LEMMA UptoGrows ==
    ASSUME NEW I \in SUBSET Nat, IsFiniteSet(I), NEW i \in I, NEW j \in I, i < j
    PROVE  Cardinality(Upto(I, i)) < Cardinality(Upto(I, j))
  <1>1. Upto(I, i) \in SUBSET Upto(I, j) /\ Upto(I, i) # Upto(I, j)
    <2>1. j \in Upto(I, j) /\ ~(j \in Upto(I, i))
      BY DEF Upto
    <2>2. \A x \in I : x <= i => x <= j
      OBVIOUS
    <2>3. Upto(I, i) \in SUBSET Upto(I, j)
      BY <2>2 DEF Upto
    <2> QED
      BY <2>1, <2>3
  <1>2. IsFiniteSet(Upto(I, j)) /\ Cardinality(Upto(I, j)) \in Nat
    BY UptoFinite
  <1>3. Cardinality(Upto(I, i)) \in Nat
    BY UptoFinite
  <1>4. Cardinality(Upto(I, i)) <= Cardinality(Upto(I, j))
    BY <1>1, <1>2, FS_Subset
  <1>5. Cardinality(Upto(I, i)) # Cardinality(Upto(I, j))
    BY <1>1, <1>2, FS_Subset
  <1> QED
    BY <1>2, <1>3, <1>4, <1>5

\* Every rank is some position's.
LEMMA EveryRank ==
    ASSUME NEW I \in SUBSET Nat, IsFiniteSet(I), NEW k \in 1..Cardinality(I)
    PROVE  \E i \in I : Cardinality(Upto(I, i)) = k
  <1> DEFINE n == Cardinality(I)
             rank == [i \in I |-> Cardinality(Upto(I, i))]
  <1>1. n \in Nat
    BY FS_CardinalityType
  <1>2. rank \in [I -> 1..n]
    BY UptoFinite
  <1>3. \A i, j \in I : rank[i] = rank[j] => i = j
    <2> SUFFICES ASSUME NEW i \in I, NEW j \in I, i < j PROVE rank[i] # rank[j]
      OBVIOUS
    <2>1. rank[i] \in Nat /\ rank[j] \in Nat
      BY <1>1, <1>2
    <2> QED
      BY <2>1, UptoGrows
  <1>4. rank \in Injection(I, 1..n)
    BY <1>2, <1>3 DEF Injection, IsInjective
  <1>5. IsFiniteSet(1..n) /\ Cardinality(1..n) = n
    BY <1>1, FS_Interval
  <1>6. rank \in Surjection(I, 1..n)
    BY <1>4, <1>5, FS_Injection
  <1>7. \E i \in I : rank[i] = k
    BY <1>6 DEF Surjection
  <1> QED
    BY <1>7

\* Picked takes each of I once and in order: the k-th is taken from Position(I, k).
Position(I, k) == CHOOSE i \in I : Cardinality({j \in I : j <= i}) = k

LEMMA PickedIs ==
    ASSUME NEW I \in SUBSET Nat, IsFiniteSet(I), NEW s
    PROVE  /\ Cardinality(I) \in Nat
           /\ Picked(s, I) = [k \in 1..Cardinality(I) |-> s[Position(I, k)]]
           /\ \A k \in 1..Cardinality(I) : Position(I, k) \in I
           /\ \A k, l \in 1..Cardinality(I) : k < l => Position(I, k) < Position(I, l)
           /\ \A i \in I : \E k \in 1..Cardinality(I) : Position(I, k) = i
  <1> DEFINE n == Cardinality(I)
  <1>1. n \in Nat
    BY FS_CardinalityType
  <1>2. \A k \in 1..n : Position(I, k) \in I /\ Cardinality(Upto(I, Position(I, k))) = k
    <2> SUFFICES ASSUME NEW k \in 1..n
                 PROVE  Position(I, k) \in I /\ Cardinality(Upto(I, Position(I, k))) = k
      OBVIOUS
    <2>1. \E i \in I : Cardinality({j \in I : j <= i}) = k
      BY EveryRank DEF Upto
    <2> QED
      BY <2>1 DEF Position, Upto
  <1>3. \A k, l \in 1..n : k < l => Position(I, k) < Position(I, l)
    <2> SUFFICES ASSUME NEW k \in 1..n, NEW l \in 1..n, k < l
                 PROVE  Position(I, k) < Position(I, l)
      OBVIOUS
    <2> DEFINE a == Position(I, k)
               b == Position(I, l)
    <2>1. a \in I /\ b \in I /\ Cardinality(Upto(I, a)) = k /\ Cardinality(Upto(I, b)) = l
      BY <1>2
    <2> HIDE DEF a, b
    <2>2. a # b
      BY <1>1, <2>1
    <2>3. ~(b < a)
      <3> SUFFICES ASSUME b < a PROVE FALSE
        OBVIOUS
      <3>1. Cardinality(Upto(I, b)) < Cardinality(Upto(I, a))
        BY <2>1, UptoGrows
      <3> QED
        BY <1>1, <2>1, <3>1
    <2>4. a \in Nat /\ b \in Nat
      BY <2>1
    <2>5. a < b
      BY <2>2, <2>3, <2>4
    <2> QED
      BY <2>5 DEF a, b
  <1>4. \A i \in I : \E k \in 1..n : Position(I, k) = i
    <2> SUFFICES ASSUME NEW i \in I PROVE \E k \in 1..n : Position(I, k) = i
      OBVIOUS
    <2> DEFINE k == Cardinality(Upto(I, i))
               a == Position(I, k)
    <2>1. k \in 1..n
      BY UptoFinite
    <2>2. a \in I /\ Cardinality(Upto(I, a)) = k
      BY <1>2, <2>1
    <2> HIDE DEF a
    <2>3. ~(a < i) /\ ~(i < a)
      <3>1. ASSUME a < i PROVE FALSE
        BY <1>1, <2>1, <2>2, <3>1, UptoGrows
      <3>2. ASSUME i < a PROVE FALSE
        BY <1>1, <2>1, <2>2, <3>2, UptoGrows
      <3> QED
        BY <3>1, <3>2
    <2>4. a = i
      BY <2>2, <2>3
    <2> QED
      BY <2>1, <2>4 DEF a
  <1> QED
    BY <1>1, <1>2, <1>3, <1>4 DEF Picked, Position

LEMMA LeastOf ==
    ASSUME NEW I \in SUBSET Nat, IsFiniteSet(I), I # {}
    PROVE  \E m \in I : \A i \in I : m <= i
  <1> DEFINE n == Cardinality(I)
             first == Position(I, 1)
  <1>1. n \in Nat /\ n # 0
    BY FS_CardinalityType, FS_EmptySet
  <1>2. 1 \in 1..n
    BY <1>1
  <1>3. /\ \A k \in 1..n : Position(I, k) \in I
        /\ \A k, l \in 1..n : k < l => Position(I, k) < Position(I, l)
        /\ \A i \in I : \E k \in 1..n : Position(I, k) = i
    BY PickedIs
  <1>4. first \in I
    BY <1>2, <1>3
  <1>5. ASSUME NEW i \in I PROVE first <= i
    <2>1. PICK k \in 1..n : Position(I, k) = i
      BY <1>3
    <2>2. k = 1 \/ 1 < k
      BY <1>1
    <2>3. 1 < k => first < i
      BY <1>2, <1>3, <2>1
    <2> HIDE DEF n
    <2>4. i \in Nat /\ first \in Nat
      BY <1>4
    <2> QED
      BY <2>1, <2>2, <2>3, <2>4
  <1> QED
    BY <1>4, <1>5

-----------------------------------------------------------------------------
(* Files *)

Files(S) == [lines : Seq(S), ended : BOOLEAN]

LEMMA FileFields ==
    ASSUME NEW S, NEW f \in Files(S)
    PROVE  f.lines \in Seq(S) /\ f.ended \in BOOLEAN /\ Len(f.lines) \in Nat
           /\ DOMAIN f.lines = 1..Len(f.lines)
           /\ \A i \in 1..Len(f.lines) : f.lines[i] \in S
  BY DEF Files

\* Where a line that parses was in the file.
LineOf(f, k) == Position({i \in DOMAIN f.lines : f.lines[i] # Garbled}, k)

\* Parsed keeps each line that parses, in the file's order.
LEMMA ParsedIs ==
    ASSUME NEW S, NEW f \in Files(S)
    PROVE  /\ Parsed(f) \in Seq(S)
           /\ \A k \in DOMAIN Parsed(f) : /\ LineOf(f, k) \in DOMAIN f.lines
                                         /\ Parsed(f)[k] = f.lines[LineOf(f, k)]
                                         /\ Parsed(f)[k] # Garbled
           /\ \A k, l \in DOMAIN Parsed(f) : k < l => LineOf(f, k) < LineOf(f, l)
           /\ \A i \in DOMAIN f.lines : f.lines[i] # Garbled =>
                 \E k \in DOMAIN Parsed(f) : LineOf(f, k) = i
  <1> DEFINE I == {i \in DOMAIN f.lines : f.lines[i] # Garbled}
  <1>1. I \in SUBSET (1..Len(f.lines)) /\ I \in SUBSET Nat
    BY FileFields
  <1>2. IsFiniteSet(1..Len(f.lines))
    BY FileFields, FS_Interval
  <1>3. IsFiniteSet(I)
    BY <1>1, <1>2, FS_Subset
  <1>4. Parsed(f) = Picked(f.lines, I)
    BY DEF Parsed
  <1>5. \A k : LineOf(f, k) = Position(I, k)
    BY DEF LineOf
  <1>6. \A i \in I : i \in DOMAIN f.lines /\ f.lines[i] # Garbled /\ f.lines[i] \in S
    BY FileFields
  <1>7. \A i \in DOMAIN f.lines : f.lines[i] # Garbled => i \in I
    OBVIOUS
  <1> HIDE DEF I
  <1>8. /\ Cardinality(I) \in Nat
        /\ Parsed(f) = [k \in 1..Cardinality(I) |-> f.lines[Position(I, k)]]
        /\ \A k \in 1..Cardinality(I) : Position(I, k) \in I
        /\ \A k, l \in 1..Cardinality(I) : k < l => Position(I, k) < Position(I, l)
        /\ \A i \in I : \E k \in 1..Cardinality(I) : Position(I, k) = i
    BY <1>1, <1>3, <1>4, PickedIs
  <1>9. DOMAIN Parsed(f) = 1..Cardinality(I) /\ Parsed(f) \in Seq(S)
    BY <1>6, <1>8
  <1> QED
    BY <1>5, <1>6, <1>7, <1>8, <1>9

LEMMA RowsOfParsed ==
    ASSUME NEW S, NEW f \in Files(S)
    PROVE  {Parsed(f)[k] : k \in DOMAIN Parsed(f)} = RowsOf(f)
  BY ParsedIs DEF RowsOf

LEMMA AllParseRows ==
    ASSUME NEW S, NEW f \in Files(S), AllParse(f)
    PROVE  RowsOf(f) = {f.lines[i] : i \in DOMAIN f.lines}
  BY FileFields DEF AllParse, RowsOf

LEMMA AddNewlineIs ==
    ASSUME NEW S, NEW f \in Files(S)
    PROVE  AddNewline(f) = [lines |-> f.lines, ended |-> TRUE] /\ AddNewline(f) \in Files(S)
           /\ RowsOf(AddNewline(f)) = RowsOf(f)
  BY FileFields DEF AddNewline, Files, RowsOf

\* Text after a whole line is a line of its own.
LEMMA AddTextIs ==
    ASSUME NEW S, NEW f \in Files(S), f.ended, NEW row \in S
    PROVE  /\ AddText(f, row) = [lines |-> Append(f.lines, row), ended |-> FALSE]
           /\ AddText(f, row) \in Files(S)
           /\ RowsOf(AddText(f, row)) = RowsOf(f) \cup ({row} \ {Garbled})
  <1>1. AddText(f, row) = [lines |-> Append(f.lines, row), ended |-> FALSE]
    BY DEF AddText
  <1>2. Append(f.lines, row) \in Seq(S)
    BY FileFields
  <1>3. AddText(f, row) \in Files(S)
    BY <1>1, <1>2 DEF Files
  <1>4. RowsOf(AddText(f, row)) = RowsOf(f) \cup ({row} \ {Garbled})
    <2> DEFINE n == Len(f.lines)
               lines == Append(f.lines, row)
    <2>1. DOMAIN lines = 1..(n + 1) /\ n \in Nat /\ DOMAIN f.lines = 1..n
      BY FileFields
    <2>2. lines[n + 1] = row /\ \A i \in 1..n : lines[i] = f.lines[i]
      BY FileFields
    <2> HIDE DEF lines
    <2>3. {lines[i] : i \in 1..(n + 1)} = {f.lines[i] : i \in 1..n} \cup {row}
      <3>1. \A i \in 1..(n + 1) : i \in 1..n \/ i = n + 1
        BY <2>1
      <3>2. \A i \in 1..n : i \in 1..(n + 1)
        BY <2>1
      <3>3. n + 1 \in 1..(n + 1)
        BY <2>1
      <3> HIDE DEF n
      <3>4. \A x \in {lines[i] : i \in 1..(n + 1)} : x \in {f.lines[i] : i \in 1..n} \cup {row}
        BY <2>2, <3>1
      <3>5. \A x \in {f.lines[i] : i \in 1..n} : x \in {lines[i] : i \in 1..(n + 1)}
        BY <2>2, <3>2
      <3>6. row \in {lines[i] : i \in 1..(n + 1)}
        BY <2>2, <3>3
      <3> QED
        BY <3>4, <3>5, <3>6
    <2> QED
      BY <1>1, <2>1, <2>3 DEF RowsOf, lines
  <1> QED
    BY <1>1, <1>3, <1>4

\* Taking the head of rows to a sequence first, and then the rest.
LEMMA HeadThenTail ==
    ASSUME NEW S, NEW s \in Seq(S), NEW rows \in Seq(S), rows # <<>>
    PROVE  Append(s, Head(rows)) \o Tail(rows) = s \o rows
  <1> DEFINE a == Append(s, Head(rows))
             t == Tail(rows)
             n == Len(s)
             m == Len(rows)
  <1>1. n \in Nat /\ m \in Nat /\ m # 0 /\ a \in Seq(S) /\ Len(a) = n + 1
    OBVIOUS
  <1>2. \A i \in 1..(n + 1) : a[i] = IF i <= n THEN s[i] ELSE rows[1]
    OBVIOUS
  <1>3. t \in Seq(S) /\ Len(t) = m - 1 /\ \A i \in 1..(m - 1) : t[i] = rows[i + 1]
    OBVIOUS
  <1>4. /\ Len(s \o rows) = n + m /\ s \o rows \in Seq(S)
        /\ \A i \in 1..(n + m) : (s \o rows)[i] = IF i <= n THEN s[i] ELSE rows[i - n]
    BY ConcatProperties
  <1> HIDE DEF a, t
  <1>5. Len(a) + Len(t) = n + m
    BY <1>1, <1>3
  <1>6. /\ Len(a \o t) = n + m /\ a \o t \in Seq(S)
        /\ \A i \in 1..(n + m) : (a \o t)[i] = IF i <= n + 1 THEN a[i] ELSE t[i - (n + 1)]
    <2>1. /\ a \o t \in Seq(S) /\ Len(a \o t) = Len(a) + Len(t)
          /\ \A i \in 1..(Len(a) + Len(t)) :
                (a \o t)[i] = IF i <= Len(a) THEN a[i] ELSE t[i - Len(a)]
      BY <1>1, <1>3, ConcatProperties
    <2> QED
      BY <1>1, <1>5, <2>1
  <1>7. \A i \in 1..(n + m) : (a \o t)[i] = (s \o rows)[i]
    <2> SUFFICES ASSUME NEW i \in 1..(n + m) PROVE (a \o t)[i] = (s \o rows)[i]
      OBVIOUS
    <2> DEFINE k == i - (n + 1)
    <2>1. CASE i <= n
      BY <1>1, <1>2, <1>4, <1>6, <2>1
    <2>2. CASE i = n + 1
      <3>1. i - n = 1 /\ n + 1 \in 1..(n + 1)
        BY <1>1, <2>2
      <3>2. ~(i <= n) /\ i <= n + 1 /\ i \in 1..(n + 1)
        BY <1>1, <2>2
      <3>3. a[i] = rows[1]
        BY <1>2, <3>2
      <3>4. (s \o rows)[i] = rows[i - n]
        BY <1>4, <3>2
      <3>5. (a \o t)[i] = a[i]
        BY <1>6, <3>2
      <3> QED
        BY <3>1, <3>3, <3>4, <3>5
    <2>3. CASE i > n + 1
      <3>1. k \in 1..(m - 1) /\ k + 1 = i - n /\ ~(i <= n) /\ ~(i <= n + 1)
        BY <1>1, <2>3
      <3>2. t[k] = rows[i - n]
        BY <1>3, <3>1
      <3>3. (s \o rows)[i] = rows[i - n]
        BY <1>4, <3>1
      <3>4. (a \o t)[i] = t[k]
        BY <1>6, <3>1
      <3> QED
        BY <3>2, <3>3, <3>4
    <2> HIDE DEF n, m, k
    <2>4. i <= n \/ i = n + 1 \/ i > n + 1
      BY <1>1
    <2> QED
      BY <2>1, <2>2, <2>3, <2>4
  <1>8. a \o t = s \o rows
    BY <1>4, <1>6, <1>7, SeqEqual
  <1> QED
    BY <1>8 DEF a, t

\* Lines after a whole line are added as they are.
LEMMA AddLinesIs ==
    ASSUME NEW S, NEW f \in Files(S), f.ended, NEW rows \in Seq(S)
    PROVE  AddLines(f, rows).lines = f.lines \o rows /\ AddLines(f, rows).ended
           /\ AddLines(f, rows) \in Files(S)
  <1>1. f.lines \in Seq(S) /\ f.lines \o rows \in Seq(S)
    BY FileFields
  <1>2. CASE rows = <<>>
    <2>1. AddLines(f, rows) = f
      BY <1>2 DEF AddLines
    <2>2. f.lines \o rows = f.lines
      BY <1>1, <1>2, ConcatEmptySeq
    <2> QED
      BY <2>1, <2>2
  <1>3. CASE rows # <<>>
    <2>1. Head(rows) \in S
      BY <1>3
    <2>2. AddText(f, Head(rows)).lines = Append(f.lines, Head(rows))
      BY <2>1, AddTextIs
    <2>3. AddText(f, Head(rows)).lines \o Tail(rows) = f.lines \o rows
      BY <1>1, <1>3, <2>2, HeadThenTail
    <2>4. AddLines(f, rows) = [lines |-> f.lines \o rows, ended |-> TRUE]
      BY <1>3, <2>3, Zenon DEF AddLines
    <2>5. AddLines(f, rows).lines = f.lines \o rows /\ AddLines(f, rows).ended
      BY <2>4
    <2>6. AddLines(f, rows) \in Files(S)
      BY <1>1, <2>4 DEF Files
    <2> QED
      BY <2>5, <2>6
  <1> QED
    BY <1>2, <1>3

\* Where the entries of s \o t come from.
LEMMA ConcatIs ==
    ASSUME NEW S, NEW s \in Seq(S), NEW t \in Seq(S)
    PROVE  /\ s \o t \in Seq(S) /\ Len(s) \in Nat /\ Len(t) \in Nat
           /\ DOMAIN (s \o t) = 1..(Len(s) + Len(t))
           /\ \A i \in 1..Len(s) : i \in 1..(Len(s) + Len(t)) /\ (s \o t)[i] = s[i]
           /\ \A k \in 1..Len(t) : Len(s) + k \in 1..(Len(s) + Len(t))
                                   /\ (s \o t)[Len(s) + k] = t[k]
           /\ \A i \in 1..(Len(s) + Len(t)) :
                i \in 1..Len(s) \/ \E k \in 1..Len(t) : i = Len(s) + k
  <1>1. /\ Len(s \o t) = Len(s) + Len(t) /\ s \o t \in Seq(S)
        /\ Len(s) \in Nat /\ Len(t) \in Nat
        /\ \A i \in 1..(Len(s) + Len(t)) :
              (s \o t)[i] = IF i <= Len(s) THEN s[i] ELSE t[i - Len(s)]
    BY ConcatProperties
  <1> DEFINE n == Len(s)
             m == Len(t)
  <1>2. DOMAIN (s \o t) = 1..(n + m)
    BY <1>1
  <1> HIDE DEF n, m
  <1>3. \A i \in 1..n : i \in 1..(n + m) /\ i <= n
    BY <1>1 DEF n, m
  <1>4. \A k \in 1..m : n + k \in 1..(n + m) /\ ~(n + k <= n) /\ (n + k) - n = k
    BY <1>1 DEF n, m
  <1>5. \A i \in 1..(n + m) : i \in 1..n \/ (i - n \in 1..m /\ i = n + (i - n))
    BY <1>1 DEF n, m
  <1>6. \A i \in 1..n : (s \o t)[i] = s[i]
    BY <1>1, <1>3 DEF n, m
  <1>7. \A k \in 1..m : (s \o t)[n + k] = t[k]
    <2> SUFFICES ASSUME NEW k \in 1..m PROVE (s \o t)[n + k] = t[k]
      OBVIOUS
    <2>1. (s \o t)[n + k] = t[(n + k) - n]
      BY <1>1, <1>4 DEF n, m
    <2> QED
      BY <1>4, <2>1
  <1> QED
    BY <1>1, <1>2, <1>3, <1>4, <1>5, <1>6, <1>7 DEF n, m

\* t is the first n of rows, and following s it is what of rows follows s there.
StartsRows(S, s, rows, n, t) ==
    /\ t \in Seq(S)
    /\ Len(t) = n /\ n \in Nat
    /\ \A k \in 1..n : k \in 1..Len(rows) /\ t[k] = rows[k]
    /\ s \o t \in Seq(S)
    /\ DOMAIN (s \o t) = 1..(Len(s) + n)
    /\ 1..(Len(s) + n) \subseteq DOMAIN (s \o rows)
    /\ \A i \in 1..(Len(s) + n) : (s \o t)[i] = (s \o rows)[i]

LEMMA ConcatPrefix ==
    ASSUME NEW S, NEW s \in Seq(S), NEW rows \in Seq(S), NEW n \in 0..Len(rows)
    PROVE  StartsRows(S, s, rows, n, SubSeq(rows, 1, n))
  <1> DEFINE t == SubSeq(rows, 1, n)
  <1>1. /\ t \in Seq(S) /\ Len(t) = n /\ n \in Nat
        /\ \A k \in 1..n : k \in 1..Len(rows) /\ t[k] = rows[k]
    OBVIOUS
  <1> HIDE DEF t
  <1>2. /\ s \o t \in Seq(S) /\ Len(s) \in Nat /\ Len(rows) \in Nat
        /\ DOMAIN (s \o t) = 1..(Len(s) + n)
        /\ \A i \in 1..Len(s) : (s \o t)[i] = s[i]
        /\ \A k \in 1..n : (s \o t)[Len(s) + k] = t[k]
        /\ \A i \in 1..(Len(s) + n) : i \in 1..Len(s) \/ \E k \in 1..n : i = Len(s) + k
    <2>1. t \in Seq(S)
      BY <1>1
    <2>2. /\ s \o t \in Seq(S) /\ Len(s) \in Nat
          /\ DOMAIN (s \o t) = 1..(Len(s) + Len(t))
          /\ \A i \in 1..Len(s) : (s \o t)[i] = s[i]
          /\ \A k \in 1..Len(t) : (s \o t)[Len(s) + k] = t[k]
          /\ \A i \in 1..(Len(s) + Len(t)) :
                i \in 1..Len(s) \/ \E k \in 1..Len(t) : i = Len(s) + k
      BY <2>1, ConcatIs
    <2>3. Len(rows) \in Nat
      OBVIOUS
    <2> QED
      BY <1>1, <2>2, <2>3
  <1>3. /\ DOMAIN (s \o rows) = 1..(Len(s) + Len(rows))
        /\ \A i \in 1..Len(s) : (s \o rows)[i] = s[i]
        /\ \A k \in 1..Len(rows) : (s \o rows)[Len(s) + k] = rows[k]
    BY ConcatIs
  <1>4. \A i \in 1..(Len(s) + n) : (s \o t)[i] = (s \o rows)[i]
    <2> SUFFICES ASSUME NEW i \in 1..(Len(s) + n) PROVE (s \o t)[i] = (s \o rows)[i]
      OBVIOUS
    <2>1. CASE i \in 1..Len(s)
      BY <1>2, <1>3, <2>1
    <2>2. ASSUME NEW k \in 1..n, i = Len(s) + k PROVE (s \o t)[i] = (s \o rows)[i]
      <3>1. (s \o t)[i] = t[k] /\ t[k] = rows[k] /\ k \in 1..Len(rows)
        BY <1>1, <1>2, <2>2
      <3>2. (s \o rows)[i] = rows[k]
        BY <1>3, <2>2, <3>1
      <3> QED
        BY <3>1, <3>2
    <2> QED
      BY <1>2, <2>1, <2>2
  <1>5. 1..(Len(s) + n) \subseteq DOMAIN (s \o rows)
    BY <1>1, <1>2, <1>3
  <1>6. StartsRows(S, s, rows, n, t)
    BY <1>1, <1>2, <1>4, <1>5 DEF StartsRows
  <1> QED
    BY <1>6 DEF t

LEMMA PrefixNext ==
    ASSUME NEW S, NEW s \in Seq(S), NEW rows \in Seq(S),
           NEW n \in 0..Len(rows), n + 1 \in 0..Len(rows)
    PROVE  Append(s \o SubSeq(rows, 1, n), rows[n + 1]) = s \o SubSeq(rows, 1, n + 1)
  <1> DEFINE a == s \o SubSeq(rows, 1, n)
             b == s \o SubSeq(rows, 1, n + 1)
             l == Len(s)
  <1>1. n \in Nat /\ l \in Nat /\ n + 1 \in 1..Len(rows) /\ rows[n + 1] \in S
    OBVIOUS
  <1>2. /\ a \in Seq(S) /\ DOMAIN a = 1..(l + n)
        /\ \A i \in 1..(l + n) : a[i] = (s \o rows)[i]
    BY ConcatPrefix DEF StartsRows
  <1>3. /\ b \in Seq(S) /\ DOMAIN b = 1..(l + (n + 1))
        /\ \A i \in 1..(l + (n + 1)) : b[i] = (s \o rows)[i]
    BY ConcatPrefix DEF StartsRows
  <1>4. (s \o rows)[l + (n + 1)] = rows[n + 1]
    BY <1>1, ConcatIs
  <1> HIDE DEF a, b, l
  <1>5. Len(a) = l + n /\ Len(b) = l + (n + 1)
    BY <1>1, <1>2, <1>3
  <1>6. /\ Append(a, rows[n + 1]) \in Seq(S)
        /\ Len(Append(a, rows[n + 1])) = l + (n + 1)
        /\ \A i \in 1..(l + n) : Append(a, rows[n + 1])[i] = a[i]
        /\ Append(a, rows[n + 1])[l + (n + 1)] = rows[n + 1]
    BY <1>1, <1>2, <1>5
  <1>7. \A i \in 1..(l + (n + 1)) : i \in 1..(l + n) \/ i = l + (n + 1)
    BY <1>1
  <1>8. l + (n + 1) \in 1..(l + (n + 1))
    BY <1>1
  <1>9. \A i \in 1..(l + (n + 1)) : Append(a, rows[n + 1])[i] = b[i]
    BY <1>2, <1>3, <1>4, <1>6, <1>7, <1>8
  <1>10. Append(a, rows[n + 1]) = b
    BY <1>3, <1>5, <1>6, <1>9, SeqEqual
  <1> QED
    BY <1>10 DEF a, b

LEMMA RowsOfIs ==
    ASSUME NEW f, NEW r
    PROVE  r \in RowsOf(f) <=> r # Garbled /\ \E i \in DOMAIN f.lines : f.lines[i] = r
  BY DEF RowsOf

\* A file whose lines start with those of f holds the rows of f.
LEMMA RowsGrow ==
    ASSUME NEW S, NEW s \in Seq(S), NEW t \in Seq(S), NEW f, NEW g,
           f.lines = s, g.lines = s \o t
    PROVE  /\ RowsOf(f) \subseteq RowsOf(g)
           /\ \A r \in RowsOf(g) : r \in RowsOf(f) \/ \E k \in 1..Len(t) : t[k] = r
           /\ \A k \in 1..Len(t) : t[k] # Garbled => t[k] \in RowsOf(g)
  <1>1. DOMAIN s = 1..Len(s)
    OBVIOUS
  <1>2. /\ DOMAIN g.lines = 1..(Len(s) + Len(t))
        /\ \A i \in 1..Len(s) : i \in 1..(Len(s) + Len(t)) /\ g.lines[i] = s[i]
        /\ \A k \in 1..Len(t) : Len(s) + k \in 1..(Len(s) + Len(t))
                                /\ g.lines[Len(s) + k] = t[k]
        /\ \A i \in 1..(Len(s) + Len(t)) :
              i \in 1..Len(s) \/ \E k \in 1..Len(t) : i = Len(s) + k
    BY ConcatIs
  <1>3. ASSUME NEW r \in RowsOf(f) PROVE r \in RowsOf(g)
    <2>1. PICK i \in DOMAIN f.lines : f.lines[i] = r
      BY <1>3, RowsOfIs
    <2>2. i \in DOMAIN g.lines /\ g.lines[i] = r /\ r # Garbled
      BY <1>1, <1>2, <1>3, <2>1, RowsOfIs
    <2> QED
      BY <2>2, RowsOfIs
  <1>4. ASSUME NEW r \in RowsOf(g) PROVE r \in RowsOf(f) \/ \E k \in 1..Len(t) : t[k] = r
    <2>1. PICK i \in DOMAIN g.lines : g.lines[i] = r
      BY RowsOfIs
    <2>2. CASE i \in 1..Len(s)
      BY <1>1, <1>2, <1>4, <2>1, <2>2, RowsOfIs
    <2>3. CASE \E k \in 1..Len(t) : i = Len(s) + k
      BY <1>2, <2>1, <2>3
    <2> QED
      BY <1>2, <2>1, <2>2, <2>3
  <1>5. ASSUME NEW k \in 1..Len(t), t[k] # Garbled PROVE t[k] \in RowsOf(g)
    BY <1>2, <1>5, RowsOfIs
  <1> QED
    BY <1>3, <1>4, <1>5

\* A line that does not parse adds none.
LEMMA GarbledRows ==
    ASSUME NEW S, NEW s \in Seq(S), NEW f, NEW g,
           f.lines = s, g.lines = Append(s, Garbled)
    PROVE  RowsOf(g) = RowsOf(f)
  <1>1. /\ DOMAIN s = 1..Len(s) /\ Len(s) \in Nat /\ DOMAIN g.lines = 1..(Len(s) + 1)
        /\ \A i \in 1..Len(s) : g.lines[i] = s[i] /\ i \in 1..(Len(s) + 1)
        /\ g.lines[Len(s) + 1] = Garbled
        /\ \A i \in 1..(Len(s) + 1) : i \in 1..Len(s) \/ i = Len(s) + 1
    OBVIOUS
  <1>2. \A r : r \in RowsOf(g) <=> r \in RowsOf(f)
    BY <1>1, RowsOfIs
  <1> QED
    BY <1>2 DEF RowsOf

\* A call that died left the first n rows, and perhaps a line that does not parse.
LEMMA CutShortIs ==
    ASSUME NEW S, Garbled \in S, NEW f \in Files(S), f.ended, NEW rows \in Seq(S),
           NEW g \in CutShort(f, rows)
    PROVE  /\ g \in Files(S)
           /\ \E n \in 0..Len(rows) :
                \/ g.lines = f.lines \o SubSeq(rows, 1, n)
                \/ g.lines = Append(f.lines \o SubSeq(rows, 1, n), Garbled)
  <1>1. PICK n \in 0..(Len(rows) - 1) :
            LET done == AddLines(f, SubSeq(rows, 1, n))
            IN  g \in {done, AddText(done, Garbled), AddText(done, rows[n + 1])}
    BY DEF CutShort
  <1> DEFINE part == SubSeq(rows, 1, n)
             done == AddLines(f, part)
  <1>2. n \in 0..Len(rows) /\ n + 1 \in 0..Len(rows) /\ n + 1 \in 1..Len(rows) /\ n \in Nat
    OBVIOUS
  <1>3. part \in Seq(S) /\ rows[n + 1] \in S
    BY <1>2
  <1>4. done \in Files(S) /\ done.ended /\ done.lines = f.lines \o part
    BY <1>3, AddLinesIs
  <1>5. g \in {done, AddText(done, Garbled), AddText(done, rows[n + 1])}
    BY <1>1
  <1> HIDE DEF done, part
  <1>6. CASE g = done
    BY <1>2, <1>4, <1>6 DEF part
  <1>7. CASE g = AddText(done, Garbled)
    <2>1. AddText(done, Garbled).lines = Append(done.lines, Garbled)
          /\ AddText(done, Garbled) \in Files(S)
      <3>1. Garbled \in S /\ done \in Files(S) /\ done.ended
        BY <1>4
      <3> QED
        BY <3>1, AddTextIs
    <2>2. g.lines = Append(f.lines \o part, Garbled) /\ g \in Files(S)
      BY <1>4, <1>7, <2>1
    <2> QED
      BY <1>2, <2>2 DEF part
  <1>8. CASE g = AddText(done, rows[n + 1])
    <2>1. AddText(done, rows[n + 1]).lines = Append(done.lines, rows[n + 1])
          /\ AddText(done, rows[n + 1]) \in Files(S)
      <3>1. rows[n + 1] \in S /\ done \in Files(S) /\ done.ended
        BY <1>3, <1>4
      <3> QED
        BY <3>1, AddTextIs
    <2>2. g.lines = Append(f.lines \o part, rows[n + 1]) /\ g \in Files(S)
      BY <1>4, <1>8, <2>1
    <2>3. Append(f.lines \o part, rows[n + 1]) = f.lines \o SubSeq(rows, 1, n + 1)
      BY <1>2, FileFields, PrefixNext DEF part
    <2> QED
      BY <1>2, <2>2, <2>3
  <1> QED
    BY <1>5, <1>6, <1>7, <1>8
=============================================================================
