------------------------- MODULE RecordCommitProofs -------------------------
(***************************************************************************)
(* Proofs about RecordCommit and RecordViews, for every set of processes,  *)
(* events and units and every bound: first the commit boundary, then what  *)
(* readers make of the log it leaves.                                      *)
(***************************************************************************)
EXTENDS RecordViews, SequenceTheorems, FiniteSetTheorems, FunctionTheorems, TLAPS

-----------------------------------------------------------------------------
(* Types *)

LEMMA UnitType == ASSUME NEW u \in Units \cup {<<>>} PROVE u \in Seq(Events)
BY EventsAssumption, EmptySeq

LEMMA InitType == Init => TypeOK
BY DEF Init, TypeOK, NoCheckpoint, NoStaging, NoAnswer

LEMMA StepType == TypeOK /\ [Next]_vars => TypeOK'
<1> SUFFICES ASSUME TypeOK, [Next]_vars PROVE TypeOK'
    OBVIOUS
<1> USE DEF TypeOK, At, Goto
<1>0. CASE UNCHANGED vars
    BY <1>0 DEF vars, files
<1> SUFFICES ASSUME Next PROVE TypeOK'
    BY <1>0
<1> PICK p \in Procs :
       \/ \E u \in Units : CallCommit(p, u)
       \/ CallRecover(p)
       \/ Acquire(p)
       \/ Step(p)
       \/ IoError(p)
       \/ Die(p)
    BY DEF Next
<1>return. ASSUME NEW a \in {"done", "abort", "refused", "error"}, Return(p, a)
           PROVE  pc' \in [Procs -> {"out", "commit", "recover", "keys", "begin", "validate",
                                     "create", "write", "rename", "clean", "mark", "verify",
                                     "clear", "load", "abandon", "forget"}]
                  /\ lock' \in Procs \cup {Nobody}
                  /\ told' \in [Procs -> [answer : {"none", "done", "abort", "refused", "error"},
                                          unit : Units \cup {<<>>}]]
    BY <1>return DEF Return
<1>1. CASE \E u \in Units : CallCommit(p, u)
    BY <1>1 DEF CallCommit, NoAnswer, files
<1>2. CASE CallRecover(p)
    BY <1>2 DEF CallRecover, NoAnswer, files
<1>3. CASE Acquire(p)
    BY <1>3 DEF Acquire, files
<1>4. CASE RejectKnownKeys(p)
    BY <1>4, <1>return DEF RejectKnownKeys, files
<1>5. CASE Begin(p)
    BY <1>5 DEF Begin
<1>6. CASE Validate(p)
    BY <1>6, <1>return DEF Validate, files
<1>7. CASE CreateStaging(p)
    BY <1>7 DEF CreateStaging
<1>8. CASE WriteStaging(p)
  <2>1. staging[p].lines \o unit[p] \in Seq(Events)
      BY UnitType, ConcatProperties
  <2> QED
      BY <1>8, <2>1 DEF WriteStaging
<1>9. CASE RenameLog(p)
  <2>1. log \o staging[p].lines \in Seq(Events)
      BY ConcatProperties
  <2> QED
      BY <1>9, <2>1, <1>return DEF RenameLog
<1>10. CASE CleanStaging(p)
    BY <1>10 DEF CleanStaging, NoStaging
<1>11. CASE MarkVerify(p)
    BY <1>11 DEF MarkVerify
<1>12. CASE VerifyTail(p)
    BY <1>12, <1>return DEF VerifyTail, files
<1>13. CASE ClearCheckpoint(p)
    BY <1>13, <1>return DEF ClearCheckpoint, NoCheckpoint
<1>14. CASE LoadCheckpoint(p)
    BY <1>14, <1>return DEF LoadCheckpoint, files
<1>15. CASE AbandonStaging(p)
    BY <1>15 DEF AbandonStaging, NoStaging
<1>16. CASE ForgetCheckpoint(p)
    BY <1>16, <1>return DEF ForgetCheckpoint, NoCheckpoint
<1>17. CASE IoError(p)
    BY <1>17, <1>return DEF IoError, files
<1>18. CASE Die(p)
    BY <1>18 DEF Die, files
<1> QED
    BY <1>1, <1>2, <1>3, <1>4, <1>5, <1>6, <1>7, <1>8, <1>9, <1>10, <1>11, <1>12,
       <1>13, <1>14, <1>15, <1>16, <1>17, <1>18 DEF Step

\* Files, checkpoint and processes always have the types TypeOK gives them.
THEOREM TypeCorrect == Spec => []TypeOK
BY InitType, StepType, PTL DEF Spec

-----------------------------------------------------------------------------
(* Sequences *)

LEMMA ConcatEndsWith ==
    ASSUME NEW l \in Seq(Events), NEW u \in Seq(Events)
    PROVE  EndsWith(l \o u, u)
BY ConcatProperties DEF EndsWith

LEMMA EndsWithHolds ==
    ASSUME NEW l \in Seq(Events), NEW u \in Seq(Events), EndsWith(l, u)
    PROVE  Promise!Holds(l, u)
<1> DEFINE n == Len(l) - Len(u)
<1>1. Len(l) \in Nat /\ Len(u) \in Nat
    BY LenProperties
<1>2. n \in 0..Len(l) /\ n + Len(u) <= Len(l)
    BY <1>1 DEF EndsWith
<1>3. \A i \in 1..Len(u) : l[n + i] = u[i]
    BY DEF EndsWith
<1> HIDE DEF n
<1> QED
    BY <1>2, <1>3 DEF Promise!Holds

\* A unit without a known key leaves the keys of the log distinct.
LEMMA ConcatUnique ==
    ASSUME NEW u \in Seq(Events), log \in Seq(Events), KeysUnique, ~Known(u)
    PROVE  \A i, j \in 1..Len(log \o u) : KeyOf[(log \o u)[i]] = KeyOf[(log \o u)[j]] => i = j
<1> DEFINE n == Len(log)
           s == log \o u
<1>1. n \in Nat /\ Len(u) \in Nat /\ Len(s) = n + Len(u)
    BY LenProperties, ConcatProperties
<1>2. ASSUME NEW i \in 1..Len(s)
      PROVE  \/ i \in 1..n /\ s[i] = log[i]
             \/ i - n \in 1..Len(u) /\ s[i] = u[i - n]
    BY <1>1, ConcatProperties
<1>3. SUFFICES ASSUME NEW i \in 1..Len(s), NEW j \in 1..Len(s), KeyOf[s[i]] = KeyOf[s[j]]
               PROVE  i = j
    OBVIOUS
<1> HIDE DEF s, n
<1>4. CASE i \in 1..n /\ s[i] = log[i] /\ j \in 1..n /\ s[j] = log[j]
    BY <1>3, <1>4 DEF KeysUnique, n
<1>5. CASE i - n \in 1..Len(u) /\ s[i] = u[i - n] /\ j - n \in 1..Len(u) /\ s[j] = u[j - n]
  <2>1. KeyOf[u[i - n]] = KeyOf[u[j - n]]
      BY <1>3, <1>5
  <2>2. i - n = j - n
      BY <1>5, <2>1 DEF Known
  <2> QED
      BY <1>1, <2>2
<1>6. CASE i \in 1..n /\ s[i] = log[i] /\ j - n \in 1..Len(u) /\ s[j] = u[j - n]
    BY <1>3, <1>6 DEF Known, n
<1>7. CASE i - n \in 1..Len(u) /\ s[i] = u[i - n] /\ j \in 1..n /\ s[j] = log[j]
    BY <1>3, <1>7 DEF Known, n
<1> QED
    BY <1>2, <1>4, <1>5, <1>6, <1>7

-----------------------------------------------------------------------------
(* The inductive invariant: what a process knows at each point of its call *)

Locked == {"keys", "begin", "validate", "create", "write", "rename", "clean", "mark",
           "verify", "clear", "load", "abandon", "forget"}

\* Only the holder of the lock is past Acquire.
Exclusive == \A p \in Procs : pc[p] \in Locked => lock = p

\* From the look-up of its keys to the rename, the unit is new to the log and, once
\* validated, valid; the checkpoint says Begin, and the staging file holds the unit.
Prepared ==
    \A p \in Procs :
       /\ pc[p] \in {"begin", "validate", "create", "write", "rename"} => ~Known(unit[p])
       /\ pc[p] \in {"create", "write", "rename"} => IsValid(unit[p])
       /\ pc[p] \in {"validate", "create", "write", "rename", "clean", "mark"}
             => ck.phase = "begin"
       /\ pc[p] = "write"  => staging[p].lines = <<>>
       /\ pc[p] = "rename" => staging[p].exists /\ staging[p].lines = unit[p]

\* From the rename to the answer, the log ends with the unit.
Landed ==
    \A p \in Procs :
       pc[p] \in {"clean", "mark", "verify", "clear"} => EndsWith(log, unit[p])

IInv == TypeOK /\ Exclusive /\ Prepared /\ Landed /\ VerifyIsTail /\ KeysUnique

LEMMA InitIInv == Init => IInv
BY InitType
DEF Init, IInv, Exclusive, Prepared, Landed, VerifyIsTail, KeysUnique, Locked, NoCheckpoint

\* A return moves nobody else, and the files it does not touch keep the invariant.
LEMMA StepIInv == IInv /\ [Next]_vars => IInv'
<1> SUFFICES ASSUME IInv, [Next]_vars PROVE IInv'
    OBVIOUS
<1>type. TypeOK /\ TypeOK'
    BY StepType DEF IInv
<1> SUFFICES Exclusive' /\ Prepared' /\ Landed' /\ VerifyIsTail' /\ KeysUnique'
    BY <1>type DEF IInv
<1> USE DEF IInv, At, Goto, Locked
<1>pc. pc \in [Procs -> {"out", "commit", "recover"} \cup Locked] /\ staging \in [Procs -> [exists : BOOLEAN, lines : Seq(Events)]]
       /\ unit \in [Procs -> Units \cup {<<>>}]
    BY <1>type DEF TypeOK
<1>0. CASE UNCHANGED vars
    BY <1>0 DEF vars, files, Exclusive, Prepared, Landed, VerifyIsTail, KeysUnique, Known, IsValid
<1> SUFFICES ASSUME Next PROVE Exclusive' /\ Prepared' /\ Landed' /\ VerifyIsTail' /\ KeysUnique'
    BY <1>0
<1> PICK p \in Procs :
       \/ \E u \in Units : CallCommit(p, u)
       \/ CallRecover(p)
       \/ Acquire(p)
       \/ Step(p)
       \/ IoError(p)
       \/ Die(p)
    BY DEF Next
\* A step that ends a call or begins one, and leaves the files alone.
<1>quiet. ASSUME UNCHANGED files,
                 \A q \in Procs : q # p => pc'[q] = pc[q] /\ unit'[q] = unit[q],
                 pc'[p] \in {"out", "commit", "recover"},
                 \A q \in Procs : q # p /\ lock = q => lock' = q
          PROVE  Exclusive' /\ Prepared' /\ Landed' /\ VerifyIsTail' /\ KeysUnique'
  <2> USE <1>quiet, <1>pc DEF files
  <2>1. Exclusive'
      BY DEF Exclusive
  <2>2. Prepared'
      BY DEF Prepared, Known, IsValid
  <2>3. Landed'
      BY DEF Landed
  <2>4. VerifyIsTail' /\ KeysUnique'
      BY DEF VerifyIsTail, KeysUnique
  <2> QED
      BY <2>1, <2>2, <2>3, <2>4
<1>return. ASSUME NEW a, Return(p, a), UNCHANGED files,
                  \A q \in Procs : q # p => unit'[q] = unit[q]
           PROVE  Exclusive' /\ Prepared' /\ Landed' /\ VerifyIsTail' /\ KeysUnique'
  <2>1. \A q \in Procs : q # p => pc'[q] = pc[q]
      BY <1>return, <1>pc DEF Return
  <2>2. pc'[p] = "out" /\ lock' = IF lock = p THEN Nobody ELSE lock
      BY <1>return, <1>pc DEF Return
  <2> QED
      BY <1>return, <1>quiet, <2>1, <2>2
\* While p is past Acquire, nobody else is.
<1>others. ASSUME pc[p] \in Locked
           PROVE  lock = p /\ \A q \in Procs : q # p => pc[q] \notin Locked
    BY <1>others DEF Exclusive
<1>1. CASE \E u \in Units : CallCommit(p, u)
  <2>1. UNCHANGED <<files, lock>> /\ \A q \in Procs : q # p => pc'[q] = pc[q] /\ unit'[q] = unit[q]
      BY <1>1, <1>pc DEF CallCommit
  <2>2. pc'[p] = "commit"
      BY <1>1, <1>pc DEF CallCommit
  <2> QED
      BY <1>quiet, <2>1, <2>2
<1>2. CASE CallRecover(p)
  <2>1. UNCHANGED <<files, lock>> /\ \A q \in Procs : q # p => pc'[q] = pc[q] /\ unit'[q] = unit[q]
      BY <1>2, <1>pc DEF CallRecover
  <2>2. pc'[p] = "recover"
      BY <1>2, <1>pc DEF CallRecover
  <2> QED
      BY <1>quiet, <2>1, <2>2
<1>3. CASE Acquire(p)
  <2>1. \A q \in Procs : pc[q] \notin Locked
      BY <1>3, NobodyAssumption DEF Acquire, Exclusive
  <2>2. UNCHANGED <<files, unit>> /\ lock' = p /\ pc'[p] \in {"keys", "load"}
      BY <1>3, <1>pc DEF Acquire
  <2>3. \A q \in Procs : q # p => pc'[q] = pc[q]
      BY <1>3, <1>pc DEF Acquire
  <2>4. Exclusive' /\ Prepared' /\ Landed'
      BY <2>1, <2>2, <2>3 DEF Exclusive, Prepared, Landed
  <2> QED
      BY <2>2, <2>4 DEF VerifyIsTail, KeysUnique, files
<1>4. CASE RejectKnownKeys(p)
  <2>1. CASE Known(unit[p])
      BY <1>4, <1>return, <2>1 DEF RejectKnownKeys, files
  <2>2. CASE ~Known(unit[p])
    <3>1. UNCHANGED <<files, unit, lock>> /\ pc' = [pc EXCEPT ![p] = "begin"] /\ pc[p] = "keys"
        BY <1>4, <2>2 DEF RejectKnownKeys
    <3>2. Exclusive'
        BY <1>others, <1>pc, <3>1 DEF Exclusive
    <3>3. Prepared'
        BY <1>others, <1>pc, <2>2, <3>1 DEF Prepared, files, Known, IsValid
    <3>4. Landed'
        BY <1>others, <1>pc, <3>1 DEF Landed, files
    <3> QED
        BY <3>1, <3>2, <3>3, <3>4 DEF VerifyIsTail, KeysUnique, files
  <2> QED
      BY <2>1, <2>2
<1>5. CASE Begin(p)
  <2>1. UNCHANGED <<log, unit, lock>> /\ pc' = [pc EXCEPT ![p] = "validate"] /\ pc[p] = "begin"
      BY <1>5 DEF Begin
  <2>2. Exclusive'
      BY <1>others, <1>pc, <2>1 DEF Exclusive
  <2>3. Prepared'
      BY <1>5, <1>others, <1>pc, <2>1 DEF Begin, Prepared, Known, IsValid
  <2>4. Landed'
      BY <1>others, <1>pc, <2>1 DEF Landed
  <2>5. VerifyIsTail' /\ KeysUnique'
      BY <1>5, <2>1 DEF Begin, VerifyIsTail, KeysUnique, files, NoCheckpoint
  <2> QED
      BY <2>2, <2>3, <2>4, <2>5
<1>6. CASE Validate(p)
  <2>1. CASE ~IsValid(unit[p])
      BY <1>6, <1>return, <2>1 DEF Validate, files
  <2>2. CASE IsValid(unit[p])
    <3>1. UNCHANGED <<files, unit, lock>> /\ pc' = [pc EXCEPT ![p] = "create"] /\ pc[p] = "validate"
        BY <1>6, <2>2 DEF Validate
    <3>2. Exclusive'
        BY <1>others, <1>pc, <3>1 DEF Exclusive
    <3>3. Prepared'
        BY <1>others, <1>pc, <2>2, <3>1 DEF Prepared, files, Known, IsValid
    <3>4. Landed'
        BY <1>others, <1>pc, <3>1 DEF Landed, files
    <3> QED
        BY <3>1, <3>2, <3>3, <3>4 DEF VerifyIsTail, KeysUnique, files
  <2> QED
      BY <2>1, <2>2
<1>7. CASE CreateStaging(p)
  <2>1. UNCHANGED <<log, unit, lock>> /\ pc' = [pc EXCEPT ![p] = "write"] /\ pc[p] = "create"
      BY <1>7 DEF CreateStaging
  <2>2. Exclusive'
      BY <1>others, <1>pc, <2>1 DEF Exclusive
  <2>3. Prepared'
      BY <1>7, <1>others, <1>pc, <2>1 DEF CreateStaging, Prepared, Known, IsValid
  <2>4. Landed'
      BY <1>others, <1>pc, <2>1 DEF Landed
  <2>5. VerifyIsTail' /\ KeysUnique'
      BY <1>7, <2>1 DEF CreateStaging, VerifyIsTail, KeysUnique, files, NoCheckpoint
  <2> QED
      BY <2>2, <2>3, <2>4, <2>5
<1>8. CASE WriteStaging(p)
  <2>1. UNCHANGED <<log, ck, unit, lock>> /\ pc' = [pc EXCEPT ![p] = "rename"] /\ pc[p] = "write"
      BY <1>8 DEF WriteStaging
  <2>2. Exclusive'
      BY <1>others, <1>pc, <2>1 DEF Exclusive
  <2>3. staging'[p].lines = <<>> \o unit[p] /\ staging'[p].exists
      BY <1>8, <1>pc, <2>1 DEF WriteStaging, Prepared
  <2>4. staging'[p].lines = unit[p]
      BY <1>pc, <2>3, UnitType, ConcatEmptySeq
  <2>5. Prepared'
      BY <1>others, <1>pc, <2>1, <2>3, <2>4 DEF Prepared, Known, IsValid
  <2>6. Landed'
      BY <1>others, <1>pc, <2>1 DEF Landed
  <2> QED
      BY <2>1, <2>2, <2>5, <2>6 DEF VerifyIsTail, KeysUnique
<1>9. CASE RenameLog(p)
  <2>1. UNCHANGED <<ck, staging, unit, lock>> /\ pc' = [pc EXCEPT ![p] = "clean"] /\ pc[p] = "rename"
        /\ log' = log \o unit[p]
      BY <1>9 DEF RenameLog, Prepared
  <2>2. unit[p] \in Seq(Events) /\ log \in Seq(Events)
      BY <1>pc, <1>type, UnitType DEF TypeOK
  <2>3. Exclusive'
      BY <1>others, <1>pc, <2>1 DEF Exclusive
  <2>4. Prepared'
      BY <1>others, <1>pc, <2>1 DEF Prepared
  <2>5. EndsWith(log', unit[p])
      BY <2>1, <2>2, ConcatEndsWith
  <2>6. Landed'
      BY <1>others, <1>pc, <2>1, <2>5 DEF Landed
  <2>7. VerifyIsTail'
      BY <2>1 DEF VerifyIsTail, Prepared
  <2>8. KeysUnique'
      BY <2>1, <2>2, ConcatUnique DEF KeysUnique, Prepared
  <2> QED
      BY <2>3, <2>4, <2>6, <2>7, <2>8
<1>10. CASE CleanStaging(p)
  <2>1. UNCHANGED <<log, unit, lock>> /\ pc' = [pc EXCEPT ![p] = "mark"] /\ pc[p] = "clean"
      BY <1>10 DEF CleanStaging
  <2>2. Exclusive'
      BY <1>others, <1>pc, <2>1 DEF Exclusive
  <2>3. Prepared'
      BY <1>10, <1>others, <1>pc, <2>1 DEF CleanStaging, Prepared, Known, IsValid
  <2>4. Landed'
      BY <1>others, <1>pc, <2>1 DEF Landed
  <2>5. VerifyIsTail' /\ KeysUnique'
      BY <1>10, <2>1 DEF CleanStaging, VerifyIsTail, KeysUnique, files, NoCheckpoint
  <2> QED
      BY <2>2, <2>3, <2>4, <2>5
<1>11. CASE MarkVerify(p)
  <2>1. UNCHANGED <<log, unit, lock>> /\ pc' = [pc EXCEPT ![p] = "verify"] /\ pc[p] = "mark"
      BY <1>11 DEF MarkVerify
  <2>2. Exclusive'
      BY <1>others, <1>pc, <2>1 DEF Exclusive
  <2>3. Prepared'
      BY <1>11, <1>others, <1>pc, <2>1 DEF MarkVerify, Prepared, Known, IsValid
  <2>4. Landed'
      BY <1>others, <1>pc, <2>1 DEF Landed
  <2>5. VerifyIsTail' /\ KeysUnique'
      BY <1>11, <2>1 DEF MarkVerify, Landed, VerifyIsTail, KeysUnique, files, NoCheckpoint
  <2> QED
      BY <2>2, <2>3, <2>4, <2>5
<1>12. CASE VerifyTail(p)
  <2>1. CASE ~EndsWith(log, unit[p])
      BY <1>12, <1>return, <2>1 DEF VerifyTail, files
  <2>2. CASE EndsWith(log, unit[p])
    <3>1. UNCHANGED <<files, unit, lock>> /\ pc' = [pc EXCEPT ![p] = "clear"] /\ pc[p] = "verify"
        BY <1>12, <2>2 DEF VerifyTail
    <3>2. Exclusive'
        BY <1>others, <1>pc, <3>1 DEF Exclusive
    <3>3. Prepared'
        BY <1>others, <1>pc, <3>1 DEF Prepared, files
    <3>4. Landed'
        BY <1>others, <1>pc, <2>2, <3>1 DEF Landed, files
    <3> QED
        BY <3>1, <3>2, <3>3, <3>4 DEF VerifyIsTail, KeysUnique, files
  <2> QED
      BY <2>1, <2>2
<1>13. CASE ClearCheckpoint(p)
  <2>1. UNCHANGED <<log, staging, unit>> /\ ck' = NoCheckpoint /\ pc[p] = "clear"
        /\ pc' = [pc EXCEPT ![p] = "out"]
      BY <1>13 DEF ClearCheckpoint, Return
  <2>2. Exclusive'
      BY <1>others, <1>pc, <2>1 DEF Exclusive
  <2>3. Prepared'
      BY <1>others, <1>pc, <2>1 DEF Prepared
  <2>4. Landed'
      BY <1>others, <1>pc, <2>1 DEF Landed
  <2> QED
      BY <2>1, <2>2, <2>3, <2>4 DEF VerifyIsTail, KeysUnique, NoCheckpoint
<1>14. CASE LoadCheckpoint(p)
  <2>0. UNCHANGED files /\ pc[p] = "load" /\ unit' = [unit EXCEPT ![p] = ck.unit]
      BY <1>14 DEF LoadCheckpoint
  <2>1. CASE ck.phase = "absent"
      BY <1>14, <1>pc, <1>return, <2>0, <2>1, Zenon DEF LoadCheckpoint
  <2>2. CASE ck.phase = "verify"
    <3>1. UNCHANGED lock /\ pc' = [pc EXCEPT ![p] = "verify"]
        BY <1>14, <2>2 DEF LoadCheckpoint
    <3>2. Exclusive'
        BY <1>others, <1>pc, <2>0, <3>1 DEF Exclusive
    <3>3. Prepared'
        BY <1>others, <1>pc, <2>0, <3>1 DEF Prepared
    <3>4. Landed'
        BY <1>others, <1>pc, <2>0, <2>2, <3>1 DEF Landed, VerifyIsTail, files
    <3> QED
        BY <2>0, <3>2, <3>3, <3>4 DEF VerifyIsTail, KeysUnique, files
  <2>3. CASE ck.phase \notin {"absent", "verify"}
    <3>1. UNCHANGED lock /\ pc' = [pc EXCEPT ![p] = "abandon"]
        BY <1>14, <2>3 DEF LoadCheckpoint
    <3>2. Exclusive'
        BY <1>others, <1>pc, <2>0, <3>1 DEF Exclusive
    <3>3. Prepared'
        BY <1>others, <1>pc, <2>0, <3>1 DEF Prepared
    <3>4. Landed'
        BY <1>others, <1>pc, <2>0, <3>1 DEF Landed
    <3> QED
        BY <2>0, <3>2, <3>3, <3>4 DEF VerifyIsTail, KeysUnique, files
  <2> QED
      BY <2>1, <2>2, <2>3
<1>15. CASE AbandonStaging(p)
  <2>1. UNCHANGED <<log, unit, lock>> /\ pc' = [pc EXCEPT ![p] = "forget"] /\ pc[p] = "abandon"
      BY <1>15 DEF AbandonStaging
  <2>2. Exclusive'
      BY <1>others, <1>pc, <2>1 DEF Exclusive
  <2>3. Prepared'
      BY <1>15, <1>others, <1>pc, <2>1 DEF AbandonStaging, Prepared, Known, IsValid
  <2>4. Landed'
      BY <1>others, <1>pc, <2>1 DEF Landed
  <2>5. VerifyIsTail' /\ KeysUnique'
      BY <1>15, <2>1 DEF AbandonStaging, VerifyIsTail, KeysUnique, files, NoCheckpoint
  <2> QED
      BY <2>2, <2>3, <2>4, <2>5
<1>16. CASE ForgetCheckpoint(p)
  <2>1. UNCHANGED <<log, staging, unit>> /\ ck' = NoCheckpoint /\ pc[p] = "forget"
        /\ pc' = [pc EXCEPT ![p] = "out"]
      BY <1>16 DEF ForgetCheckpoint, Return
  <2>2. Exclusive'
      BY <1>others, <1>pc, <2>1 DEF Exclusive
  <2>3. Prepared'
      BY <1>others, <1>pc, <2>1 DEF Prepared
  <2>4. Landed'
      BY <1>others, <1>pc, <2>1 DEF Landed
  <2> QED
      BY <2>1, <2>2, <2>3, <2>4 DEF VerifyIsTail, KeysUnique, NoCheckpoint
<1>17. CASE IoError(p)
    BY <1>17, <1>return DEF IoError
<1>18. CASE Die(p)
  <2>1. UNCHANGED <<files, unit>> /\ pc' = [pc EXCEPT ![p] = "out"]
        /\ lock' = IF lock = p THEN Nobody ELSE lock
      BY <1>18 DEF Die
  <2> QED
      BY <1>pc, <1>quiet, <2>1
<1> QED
    BY <1>1, <1>2, <1>3, <1>4, <1>5, <1>6, <1>7, <1>8, <1>9, <1>10, <1>11, <1>12,
       <1>13, <1>14, <1>15, <1>16, <1>17, <1>18 DEF Step

LEMMA InvariantHolds == Spec => []IInv
BY InitIInv, StepIInv, PTL DEF Spec

\* No idempotency key is ever twice in the log, whatever races, crashes and retries.
THEOREM KeysAlwaysUnique == Spec => []KeysUnique
BY InvariantHolds, PTL DEF IInv

\* A Verify checkpoint always describes the end of the log: recovery from it succeeds.
THEOREM VerifyCheckpointIsTail == Spec => []VerifyIsTail
BY InvariantHolds, PTL DEF IInv

-----------------------------------------------------------------------------
(* Refinement *)

LEMMA InitPromise == Init => Promise!Init
BY DEF Init, Promise!Init, NoAnswer, Promise!NoAnswer

LEMMA StepPromise == IInv /\ [Next]_vars => [Promise!Next]_<<log, told>>
<1> SUFFICES ASSUME IInv, Next PROVE Promise!Next \/ UNCHANGED <<log, told>>
    BY DEF vars, files
<1> USE DEF At, Goto
<1>type. TypeOK
    BY DEF IInv
<1> PICK p \in Procs :
       \/ \E u \in Units : CallCommit(p, u)
       \/ CallRecover(p)
       \/ Acquire(p)
       \/ Step(p)
       \/ IoError(p)
       \/ Die(p)
    BY DEF Next
<1>unit. unit[p] \in Units \cup {<<>>} /\ log \in Seq(Events)
    BY <1>type DEF TypeOK
<1>return. ASSUME NEW a \in {"done", "abort", "refused", "error"}, Return(p, a), UNCHANGED log,
                  a = "done" => Promise!Holds(log, unit[p])
           PROVE  Promise!Next
  <2>1. Promise!Answer(p, a, unit[p])
      BY <1>return DEF Return, Promise!Answer
  <2> QED
      BY <1>unit, <2>1 DEF Promise!Next
<1>1. CASE \/ \E u \in Units : CallCommit(p, u)
           \/ CallRecover(p)
  <2>1. Promise!Ask(p)
      BY <1>1 DEF CallCommit, CallRecover, Promise!Ask, files, NoAnswer, Promise!NoAnswer
  <2> QED
      BY <2>1 DEF Promise!Next
<1>2. CASE \/ Acquire(p) \/ Begin(p) \/ CreateStaging(p) \/ WriteStaging(p) \/ CleanStaging(p)
           \/ MarkVerify(p) \/ AbandonStaging(p) \/ Die(p)
    BY <1>2 DEF Acquire, Begin, CreateStaging, WriteStaging, CleanStaging, MarkVerify,
                AbandonStaging, Die, files
<1>3. CASE RejectKnownKeys(p)
    BY <1>3, <1>return DEF RejectKnownKeys, files
<1>4. CASE Validate(p)
    BY <1>4, <1>return DEF Validate, files
<1>5. CASE RenameLog(p)
  <2>1. log' = log \o unit[p] /\ UNCHANGED told /\ ~Known(unit[p]) /\ IsValid(unit[p])
      BY <1>5 DEF RenameLog, IInv, Prepared
  <2>2. Promise!Acceptable(unit[p]) /\ Promise!Fresh(log, unit[p])
      BY <2>1 DEF Known, IsValid, Promise!Acceptable, Promise!Fresh
  <2>3. unit[p] \in Units
      BY <1>unit, <2>1 DEF IsValid
  <2> QED
      BY <2>1, <2>2, <2>3 DEF Promise!Next, Promise!Commit
<1>6. CASE VerifyTail(p)
    BY <1>6, <1>return DEF VerifyTail, files
<1>7. CASE ClearCheckpoint(p)
  <2>1. Promise!Holds(log, unit[p])
      BY <1>7, <1>unit, UnitType, EndsWithHolds DEF ClearCheckpoint, IInv, Landed
  <2> QED
      BY <1>7, <1>return, <2>1 DEF ClearCheckpoint
<1>8. CASE LoadCheckpoint(p)
  <2>1. UNCHANGED log
      BY <1>8 DEF LoadCheckpoint, files
  <2>2. CASE ck.phase = "absent"
    <3>1. Return(p, "error")
        BY <1>8, <2>2, Zenon DEF LoadCheckpoint
    <3> QED
        BY <1>return, <2>1, <3>1
  <2>3. CASE ck.phase # "absent"
      BY <1>8, <2>1, <2>3 DEF LoadCheckpoint
  <2> QED
      BY <2>2, <2>3
<1>9. CASE ForgetCheckpoint(p)
    BY <1>9, <1>return DEF ForgetCheckpoint
<1>10. CASE IoError(p)
    BY <1>10, <1>return DEF IoError, files
<1> QED
    BY <1>1, <1>2, <1>3, <1>4, <1>5, <1>6, <1>7, <1>8, <1>9, <1>10 DEF Step

\* The files implement the atomic log, for any callers, units, failures and crashes.
THEOREM CommitIsAtomic == Spec => AtomicSpec
BY InitPromise, StepPromise, InvariantHolds, PTL DEF Spec, AtomicSpec, Promise!Spec

-----------------------------------------------------------------------------
(* Lines put in an order (RecordViews): the log is arranged by the rank of each position,   *)
(* the number of positions that are not after it.                                          *)

Before(order, i, j) == <<i, j>> \in order

StrictOrder(I, order) ==
    /\ \A i \in I : ~Before(order, i, i)
    /\ \A i, j, k \in I : Before(order, i, j) /\ Before(order, j, k) => Before(order, i, k)
    /\ \A i, j \in I : i = j \/ Before(order, i, j) \/ Before(order, j, i)

\* Those of I up to i.
NotAfter(I, order, i) == {j \in I : j = i \/ <<j, i>> \in order}

LEMMA UptoFinite ==
    ASSUME NEW I, IsFiniteSet(I), NEW order, NEW i \in I
    PROVE  IsFiniteSet(NotAfter(I, order, i)) /\ Cardinality(NotAfter(I, order, i)) \in 1..Cardinality(I)
  <1>1. NotAfter(I, order, i) \in SUBSET I
    BY DEF NotAfter
  <1>2. IsFiniteSet(NotAfter(I, order, i)) /\ Cardinality(NotAfter(I, order, i)) <= Cardinality(I)
    BY <1>1, FS_Subset
  <1>3. Cardinality(NotAfter(I, order, i)) \in Nat /\ Cardinality(I) \in Nat
    BY <1>2, FS_CardinalityType
  <1>4. NotAfter(I, order, i) # {}
    BY DEF NotAfter
  <1>5. Cardinality(NotAfter(I, order, i)) # 0
    BY <1>2, <1>4, FS_EmptySet
  <1> QED
    BY <1>2, <1>3, <1>5

LEMMA UptoGrows ==
    ASSUME NEW I, IsFiniteSet(I), NEW order, StrictOrder(I, order),
           NEW i \in I, NEW j \in I, Before(order, i, j)
    PROVE  Cardinality(NotAfter(I, order, i)) < Cardinality(NotAfter(I, order, j))
  <1>1. NotAfter(I, order, i) \in SUBSET NotAfter(I, order, j) /\ NotAfter(I, order, i) # NotAfter(I, order, j)
    <2>1. \A x : x \in NotAfter(I, order, i) <=> x \in I /\ (x = i \/ Before(order, x, i))
      BY DEF NotAfter, Before
    <2>2. \A x : x \in NotAfter(I, order, j) <=> x \in I /\ (x = j \/ Before(order, x, j))
      BY DEF NotAfter, Before
    <2>3. i # j /\ ~Before(order, j, i)
      BY DEF StrictOrder
    <2>4. \A x \in I : Before(order, x, i) => Before(order, x, j)
      BY DEF StrictOrder
    <2> QED
      BY <2>1, <2>2, <2>3, <2>4
  <1>2. IsFiniteSet(NotAfter(I, order, j)) /\ Cardinality(NotAfter(I, order, j)) \in Nat
    BY UptoFinite
  <1>3. Cardinality(NotAfter(I, order, i)) \in Nat
    BY UptoFinite
  <1>4. Cardinality(NotAfter(I, order, i)) <= Cardinality(NotAfter(I, order, j))
    BY <1>1, <1>2, FS_Subset
  <1>5. Cardinality(NotAfter(I, order, i)) # Cardinality(NotAfter(I, order, j))
    BY <1>1, <1>2, FS_Subset
  <1> QED
    BY <1>2, <1>3, <1>4, <1>5

\* Every rank is some position's.
LEMMA EveryRank ==
    ASSUME NEW I, IsFiniteSet(I), NEW order, StrictOrder(I, order), NEW k \in 1..Cardinality(I)
    PROVE  \E i \in I : Cardinality(NotAfter(I, order, i)) = k
  <1> DEFINE n == Cardinality(I)
             rank == [i \in I |-> Cardinality(NotAfter(I, order, i))]
  <1>1. n \in Nat
    BY FS_CardinalityType
  <1>2. rank \in [I -> 1..n]
    BY UptoFinite
  <1>3. \A i, j \in I : Before(order, i, j) => rank[i] # rank[j]
    <2> SUFFICES ASSUME NEW i \in I, NEW j \in I, Before(order, i, j) PROVE rank[i] # rank[j]
      OBVIOUS
    <2>1. rank[i] \in Nat /\ rank[j] \in Nat
      BY <1>1, <1>2
    <2> QED
      BY <2>1, UptoGrows
  <1>4. rank \in Injection(I, 1..n)
    <2>1. \A i, j \in I : rank[i] = rank[j] => i = j
      BY <1>3 DEF StrictOrder
    <2> QED
      BY <1>2, <2>1 DEF Injection, IsInjective
  <1>5. IsFiniteSet(1..n) /\ Cardinality(1..n) = n
    BY <1>1, FS_Interval
  <1>6. rank \in Surjection(I, 1..n)
    BY <1>4, <1>5, FS_Injection
  <1>7. \E i \in I : rank[i] = k
    BY <1>6 DEF Surjection
  <1> QED
    BY <1>7

\* An arrangement takes each of I once, and in the order.
PositionOf(I, order, k) ==
    CHOOSE i \in I : Cardinality({j \in I : j = i \/ <<j, i>> \in order}) = k

LEMMA ArrangedIs ==
    ASSUME NEW I, IsFiniteSet(I), NEW order, StrictOrder(I, order), NEW l
    PROVE  /\ Cardinality(I) \in Nat
           /\ Arranged(l, I, order) = [k \in 1..Cardinality(I) |-> l[PositionOf(I, order, k)]]
           /\ \A k \in 1..Cardinality(I) : PositionOf(I, order, k) \in I
           /\ \A k, m \in 1..Cardinality(I) :
                k < m => Before(order, PositionOf(I, order, k), PositionOf(I, order, m))
           /\ \A i \in I : \E k \in 1..Cardinality(I) : PositionOf(I, order, k) = i
  <1> DEFINE n == Cardinality(I)
             P(k) == PositionOf(I, order, k)
  <1>1. n \in Nat
    BY FS_CardinalityType
  <1>2. \A k \in 1..n : P(k) \in I /\ Cardinality(NotAfter(I, order, P(k))) = k
    <2> SUFFICES ASSUME NEW k \in 1..n
                 PROVE  P(k) \in I /\ Cardinality(NotAfter(I, order, P(k))) = k
      OBVIOUS
    <2>1. \E i \in I : Cardinality({j \in I : j = i \/ <<j, i>> \in order}) = k
      BY EveryRank DEF NotAfter
    <2> QED
      BY <2>1 DEF PositionOf, NotAfter
  <1>3. \A k, m \in 1..n : k < m => Before(order, P(k), P(m))
    <2> SUFFICES ASSUME NEW k \in 1..n, NEW m \in 1..n, k < m
                 PROVE  Before(order, P(k), P(m))
      OBVIOUS
    <2> DEFINE a == P(k)
               b == P(m)
    <2>1. a \in I /\ b \in I /\ Cardinality(NotAfter(I, order, a)) = k
          /\ Cardinality(NotAfter(I, order, b)) = m
      BY <1>2
    <2> HIDE DEF a, b
    <2>2. a # b
      BY <1>1, <2>1
    <2>3. ~Before(order, b, a)
      <3> SUFFICES ASSUME Before(order, b, a) PROVE FALSE
        OBVIOUS
      <3>1. Cardinality(NotAfter(I, order, b)) < Cardinality(NotAfter(I, order, a))
        BY <2>1, UptoGrows
      <3> QED
        BY <1>1, <2>1, <3>1
    <2>5. Before(order, a, b)
      BY <2>1, <2>2, <2>3 DEF StrictOrder
    <2> QED
      BY <2>5 DEF a, b
  <1>4. \A i \in I : \E k \in 1..n : P(k) = i
    <2> SUFFICES ASSUME NEW i \in I PROVE \E k \in 1..n : P(k) = i
      OBVIOUS
    <2> DEFINE k == Cardinality(NotAfter(I, order, i))
               a == P(k)
    <2>1. k \in 1..n
      BY UptoFinite
    <2>2. a \in I /\ Cardinality(NotAfter(I, order, a)) = k
      BY <1>2, <2>1
    <2> HIDE DEF a
    <2>3. ~Before(order, a, i) /\ ~Before(order, i, a)
      <3>1. ASSUME Before(order, a, i) PROVE FALSE
        BY <1>1, <2>1, <2>2, <3>1, UptoGrows
      <3>2. ASSUME Before(order, i, a) PROVE FALSE
        BY <1>1, <2>1, <2>2, <3>2, UptoGrows
      <3> QED
        BY <3>1, <3>2
    <2>4. a = i
      BY <2>2, <2>3 DEF StrictOrder
    <2> QED
      BY <2>1, <2>4 DEF a
  <1>5. Arranged(l, I, order) = [k \in 1..n |-> l[P(k)]]
    BY DEF Arranged, PositionOf
  <1> QED
    BY <1>1, <1>2, <1>3, <1>4, <1>5

\* The last of a finite set.
LEMMA LastOf ==
    ASSUME NEW I, IsFiniteSet(I), I # {}, NEW order, StrictOrder(I, order)
    PROVE  \E i \in I : \A j \in I \ {i} : Before(order, j, i)
  <1> DEFINE n == Cardinality(I)
             P(k) == PositionOf(I, order, k)
  <1>1. n \in Nat /\ n # 0
    BY FS_CardinalityType, FS_EmptySet
  <1>2. P(n) \in I
    BY <1>1, ArrangedIs
  <1>3. ASSUME NEW j \in I, j # P(n) PROVE Before(order, j, P(n))
    <2>1. PICK k \in 1..n : P(k) = j
      BY ArrangedIs
    <2>2. k < n
      BY <1>1, <1>3, <2>1
    <2>3. n \in 1..n
      BY <1>1
    <2>4. Before(order, P(k), P(n))
      BY <2>2, <2>3, ArrangedIs
    <2> QED
      BY <2>1, <2>4
  <1> QED
    BY <1>2, <1>3

-----------------------------------------------------------------------------
(* The orders of a log's lines *)

LEMMA LineTypes ==
    ASSUME NEW l \in Seq(Events)
    PROVE  /\ Len(l) \in Nat /\ IsFiniteSet(Positions(l))
           /\ Positions(l) \in SUBSET Nat
           /\ \A i \in Positions(l) : l[i] \in Events /\ i \in Nat
           /\ \A i \in Positions(l) : VersionOf[l[i]] \in Nat /\ AggregateOf[l[i]] \in Nat
  <1>1. Len(l) \in Nat
    BY LenProperties
  <1>2. \A i \in Positions(l) : l[i] \in Events
    BY ElementOfSeq DEF Positions
  <1>3. IsFiniteSet(Positions(l))
    BY <1>1, FS_Interval DEF Positions
  <1>4. \A i \in Positions(l) : i \in Nat
    BY <1>1 DEF Positions
  <1> QED
    BY <1>1, <1>2, <1>3, <1>4, ViewsAssumption

LEMMA WrittenBefore ==
    ASSUME NEW l, NEW i \in Positions(l), NEW j \in Positions(l)
    PROVE  Before(AsWritten(l), i, j) <=> i < j
  BY DEF Before, AsWritten

LEMMA VersionBefore ==
    ASSUME NEW l, NEW i \in Positions(l), NEW j \in Positions(l)
    PROVE  Before(ByVersion(l), i, j) <=>
             \/ VersionOf[l[i]] < VersionOf[l[j]]
             \/ VersionOf[l[i]] = VersionOf[l[j]] /\ AggregateOf[l[i]] < AggregateOf[l[j]]
             \/ VersionOf[l[i]] = VersionOf[l[j]] /\ AggregateOf[l[i]] = AggregateOf[l[j]] /\ i < j
  BY DEF Before, ByVersion

\* The order in which lines replace each other.
Superseded(l) == {x \in Positions(l) \X Positions(l) : Supersedes(l, x[2], x[1])}

LEMMA SupersededBefore ==
    ASSUME NEW l, NEW i \in Positions(l), NEW j \in Positions(l)
    PROVE  Before(Superseded(l), i, j) <=> Supersedes(l, j, i)
  BY DEF Before, Superseded

LEMMA OrdersAreStrict ==
    ASSUME NEW l \in Seq(Events), NEW I \in SUBSET Positions(l)
    PROVE  /\ IsFiniteSet(I)
           /\ StrictOrder(I, AsWritten(l))
           /\ StrictOrder(I, ByVersion(l))
           /\ StrictOrder(I, Superseded(l))
  <1>1. IsFiniteSet(I)
    BY LineTypes, FS_Subset
  <1>2. \A i \in I : i \in Positions(l) /\ i \in Nat
                     /\ VersionOf[l[i]] \in Nat /\ AggregateOf[l[i]] \in Nat
    BY LineTypes
  <1>3. StrictOrder(I, AsWritten(l))
    BY <1>2, WrittenBefore DEF StrictOrder
  <1>4. StrictOrder(I, ByVersion(l))
    <2>1. \A i \in I : ~Before(ByVersion(l), i, i)
      BY <1>2, VersionBefore
    <2>2. ASSUME NEW i \in I, NEW j \in I, NEW k \in I,
                 Before(ByVersion(l), i, j), Before(ByVersion(l), j, k)
          PROVE  Before(ByVersion(l), i, k)
      <3> DEFINE vi == VersionOf[l[i]]
                 vj == VersionOf[l[j]]
                 vk == VersionOf[l[k]]
                 ai == AggregateOf[l[i]]
                 aj == AggregateOf[l[j]]
                 ak == AggregateOf[l[k]]
      <3>1. /\ vi \in Nat /\ vj \in Nat /\ vk \in Nat /\ ai \in Nat /\ aj \in Nat /\ ak \in Nat
            /\ i \in Nat /\ j \in Nat /\ k \in Nat
        BY <1>2
      <3>2. vi < vj \/ (vi = vj /\ ai < aj) \/ (vi = vj /\ ai = aj /\ i < j)
        BY <1>2, <2>2, VersionBefore
      <3>3. vj < vk \/ (vj = vk /\ aj < ak) \/ (vj = vk /\ aj = ak /\ j < k)
        BY <1>2, <2>2, VersionBefore
      <3>4. (vi < vk \/ (vi = vk /\ ai < ak) \/ (vi = vk /\ ai = ak /\ i < k))
              => Before(ByVersion(l), i, k)
        BY <1>2, VersionBefore
      <3> HIDE DEF vi, vj, vk, ai, aj, ak
      <3> QED
        BY <3>1, <3>2, <3>3, <3>4
    <2>3. \A i, j \in I : i = j \/ Before(ByVersion(l), i, j) \/ Before(ByVersion(l), j, i)
      BY <1>2, VersionBefore
    <2> QED
      BY <2>1, <2>2, <2>3 DEF StrictOrder
  <1>5. StrictOrder(I, Superseded(l))
    <2>1. \A i \in I : ~Before(Superseded(l), i, i)
      BY <1>2, SupersededBefore DEF Supersedes
    <2>2. \A i, j, k \in I : Before(Superseded(l), i, j) /\ Before(Superseded(l), j, k)
                               => Before(Superseded(l), i, k)
      BY <1>2, SupersededBefore DEF Supersedes
    <2>3. \A i, j \in I : i = j \/ Before(Superseded(l), i, j) \/ Before(Superseded(l), j, i)
      BY <1>2, SupersededBefore DEF Supersedes
    <2> QED
      BY <2>1, <2>2, <2>3 DEF StrictOrder
  <1> QED
    BY <1>1, <1>3, <1>4, <1>5

\* The line of aggregate a among those at I that replaces all the others.
Latest(l, I, a, i) ==
    /\ i \in I /\ AggregateOf[l[i]] = a
    /\ \A j \in I : j # i /\ AggregateOf[l[j]] = a => Supersedes(l, i, j)

LEMMA LatestExists ==
    ASSUME NEW l \in Seq(Events), NEW I \in SUBSET Positions(l), NEW a,
           \E i \in I : AggregateOf[l[i]] = a
    PROVE  \E i \in I : Latest(l, I, a, i)
  <1> DEFINE mine == {i \in I : AggregateOf[l[i]] = a}
  <1>1. mine \in SUBSET Positions(l) /\ mine # {}
    OBVIOUS
  <1>2. IsFiniteSet(mine) /\ StrictOrder(mine, Superseded(l))
    <2> HIDE DEF mine
    <2> QED
      BY <1>1, OrdersAreStrict
  <1>3. PICK i \in mine : \A j \in mine \ {i} : Before(Superseded(l), j, i)
    <2> HIDE DEF mine
    <2> QED
      BY <1>1, <1>2, LastOf
  <1>4. \A j \in mine \ {i} : Supersedes(l, i, j)
    BY <1>3, SupersededBefore
  <1> QED
    BY <1>4 DEF Latest

LEMMA LatestIsOne ==
    ASSUME NEW l \in Seq(Events), NEW I \in SUBSET Positions(l), NEW a,
           NEW i, NEW j, Latest(l, I, a, i), Latest(l, I, a, j)
    PROVE  i = j
  <1> SUFFICES ASSUME i # j PROVE FALSE
    OBVIOUS
  <1>1. i \in I /\ j \in I /\ Supersedes(l, i, j) /\ Supersedes(l, j, i)
    BY DEF Latest
  <1>2. Before(Superseded(l), i, j) /\ Before(Superseded(l), j, i)
    BY <1>1, SupersededBefore
  <1> QED
    BY <1>1, <1>2, OrdersAreStrict DEF StrictOrder

-----------------------------------------------------------------------------
(* Logs without a repeated key, and what an arrangement keeps *)

LinesAt(l, I) == {l[i] : i \in I}
AggregatesAt(l, I) == {AggregateOf[l[i]] : i \in I}

OneLineAKey(l, I) == \A i, j \in I : KeyOf[l[i]] = KeyOf[l[j]] => i = j

LEMMA ArrangedLines ==
    ASSUME NEW l \in Seq(Events), NEW I \in SUBSET Positions(l), NEW order, StrictOrder(I, order)
    PROVE  /\ Arranged(l, I, order) \in Seq(Events)
           /\ Len(Arranged(l, I, order)) = Cardinality(I)
           /\ Cardinality(I) \in Nat
           /\ EventsIn(Arranged(l, I, order)) = LinesAt(l, I)
           /\ \A k \in 1..Cardinality(I) :
                 /\ PositionOf(I, order, k) \in I
                 /\ Arranged(l, I, order)[k] = l[PositionOf(I, order, k)]
  <1> DEFINE n == Cardinality(I)
             P(k) == PositionOf(I, order, k)
             m == Arranged(l, I, order)
  <1>1. IsFiniteSet(I)
    BY LineTypes, FS_Subset
  <1>2. /\ n \in Nat /\ m = [k \in 1..n |-> l[P(k)]]
        /\ \A k \in 1..n : P(k) \in I
        /\ \A i \in I : \E k \in 1..n : P(k) = i
    BY <1>1, ArrangedIs
  <1> HIDE DEF n, P, m
  <1>3. \A k \in 1..n : m[k] = l[P(k)] /\ P(k) \in I /\ m[k] \in Events
    BY <1>2, LineTypes
  <1>4. m \in Seq(Events)
    BY <1>2, <1>3, SeqDef
  <1>5. Len(m) = n
    BY <1>2, <1>4, LenProperties
  <1>6. EventsIn(m) = LinesAt(l, I)
    <2>1. ASSUME NEW e \in EventsIn(m) PROVE e \in LinesAt(l, I)
      BY <1>3, <1>5 DEF EventsIn, LinesAt
    <2>2. ASSUME NEW e \in LinesAt(l, I) PROVE e \in EventsIn(m)
      <3>1. PICK i \in I : e = l[i]
        BY DEF LinesAt
      <3>2. PICK k \in 1..n : P(k) = i
        BY <1>2
      <3> QED
        BY <1>3, <1>5, <3>1, <3>2 DEF EventsIn
    <2> QED
      BY <2>1, <2>2
  <1> QED
    BY <1>2, <1>3, <1>4, <1>5, <1>6 DEF n, P, m

LEMMA ArrangedKeys ==
    ASSUME NEW l \in Seq(Events), NEW I \in SUBSET Positions(l), NEW order, StrictOrder(I, order),
           OneLineAKey(l, I)
    PROVE  OneLineAKey(Arranged(l, I, order), Positions(Arranged(l, I, order)))
  <1> DEFINE n == Cardinality(I)
             P(k) == PositionOf(I, order, k)
             m == Arranged(l, I, order)
  <1>1. IsFiniteSet(I)
    BY LineTypes, FS_Subset
  <1>2. Positions(m) = 1..n /\ n \in Nat /\ \A k \in 1..n : P(k) \in I /\ m[k] = l[P(k)]
    BY ArrangedLines DEF Positions
  <1>3. \A k, j \in 1..n : k < j => Before(order, P(k), P(j))
    BY <1>1, ArrangedIs
  <1> HIDE DEF n, P, m
  <1>4. SUFFICES ASSUME NEW k \in 1..n, NEW j \in 1..n, KeyOf[m[k]] = KeyOf[m[j]], k # j
                 PROVE  FALSE
    BY <1>2 DEF OneLineAKey, m
  <1>5. P(k) = P(j) /\ P(k) \in I
    BY <1>2, <1>4 DEF OneLineAKey
  <1>6. k < j \/ j < k
    BY <1>2, <1>4
  <1> QED
    BY <1>3, <1>5, <1>6 DEF StrictOrder

LEMMA FirstsOfAll ==
    ASSUME NEW l, Len(l) \in Nat, OneLineAKey(l, Positions(l))
    PROVE  Firsts(l) = Positions(l)
  BY DEF Firsts, Positions, OneLineAKey

-----------------------------------------------------------------------------
(* Rows *)

\* The rows made of the lines at I: of each aggregate the line that replaces the others.
RowsOf(l, I, rows) ==
    /\ rows = [a \in AggregatesAt(l, I) |-> rows[a]]
    /\ \A a \in AggregatesAt(l, I) : \E i \in I : Latest(l, I, a, i) /\ rows[a] = l[i]

LEMMA RowsAreOne ==
    ASSUME NEW l \in Seq(Events), NEW I \in SUBSET Positions(l), NEW r, NEW s,
           RowsOf(l, I, r), RowsOf(l, I, s)
    PROVE  r = s
  <1>1. ASSUME NEW a \in AggregatesAt(l, I) PROVE r[a] = s[a]
    <2>1. PICK i \in I : Latest(l, I, a, i) /\ r[a] = l[i]
      BY DEF RowsOf
    <2>2. PICK j \in I : Latest(l, I, a, j) /\ s[a] = l[j]
      BY DEF RowsOf
    <2> QED
      BY <2>1, <2>2, LatestIsOne
  <1>2. r = [a \in AggregatesAt(l, I) |-> r[a]] /\ s = [a \in AggregatesAt(l, I) |-> s[a]]
    BY DEF RowsOf
  <1> HIDE DEF AggregatesAt
  <1> QED
    BY <1>1, <1>2

LEMMA ReplayIs ==
    ASSUME NEW l \in Seq(Events), OneLineAKey(l, Positions(l))
    PROVE  RowsOf(l, Positions(l), replay(l))
  <1>0. Len(l) \in Nat /\ Firsts(l) = Positions(l)
    BY LineTypes, FirstsOfAll
  <1>1. Aggregates(l) = AggregatesAt(l, Positions(l))
    BY DEF Aggregates, AggregatesAt, EventsIn, Positions
  <1> DEFINE Mine(a) == {i \in Positions(l) : AggregateOf[l[i]] = a}
             Pick(a) == CHOOSE i \in Mine(a) : \A j \in Mine(a) \ {i} : Supersedes(l, i, j)
  <1>2. replay(l) = [a \in AggregatesAt(l, Positions(l)) |-> l[Pick(a)]]
    BY <1>0, <1>1 DEF replay
  <1>3. ASSUME NEW a \in AggregatesAt(l, Positions(l))
        PROVE  Pick(a) \in Positions(l) /\ Latest(l, Positions(l), a, Pick(a))
    <2>1. \E i \in Positions(l) : AggregateOf[l[i]] = a
      BY DEF AggregatesAt
    <2>2. PICK i \in Positions(l) : Latest(l, Positions(l), a, i)
      BY <2>1, LatestExists
    <2>3. i \in Mine(a) /\ \A j \in Mine(a) \ {i} : Supersedes(l, i, j)
      BY <2>2 DEF Latest
    <2>4. Pick(a) \in Mine(a) /\ \A j \in Mine(a) \ {Pick(a)} : Supersedes(l, Pick(a), j)
      <3> HIDE DEF Mine
      <3> QED
        BY <2>3
    <2> HIDE DEF Pick
    <2> QED
      BY <2>4 DEF Latest
  <1> HIDE DEF Pick
  <1>4. \A a \in AggregatesAt(l, Positions(l)) : replay(l)[a] = l[Pick(a)]
    BY <1>2
  <1> QED
    BY <1>2, <1>3, <1>4 DEF RowsOf

AtMost(l, v) == {i \in Positions(l) : VersionOf[l[i]] <= v}

\* Lines put in the order in which they were written make the same rows.
LEMMA SnapshotIs ==
    ASSUME NEW l \in Seq(Events), OneLineAKey(l, Positions(l)), NEW v
    PROVE  RowsOf(l, AtMost(l, v), snapshot_at(l, v))
  <1> DEFINE I == AtMost(l, v)
             n == Cardinality(I)
             order == AsWritten(l)
             P(k) == PositionOf(I, order, k)
             m == Arranged(l, I, order)
             rows == replay(m)
  <1>1. I \in SUBSET Positions(l)
    BY DEF AtMost
  <1>2. IsFiniteSet(I) /\ StrictOrder(I, order)
    BY <1>1, OrdersAreStrict
  <1>3. /\ m \in Seq(Events) /\ Positions(m) = 1..n /\ n \in Nat
        /\ \A k \in 1..n : P(k) \in I /\ m[k] = l[P(k)]
    BY <1>1, <1>2, ArrangedLines DEF Positions
  <1>4. /\ \A k, j \in 1..n : k < j => Before(order, P(k), P(j))
        /\ \A i \in I : \E k \in 1..n : P(k) = i
    BY <1>2, ArrangedIs
  <1>5. OneLineAKey(m, Positions(m))
    <2>1. OneLineAKey(l, I)
      BY <1>1 DEF OneLineAKey
    <2> QED
      BY <1>1, <1>2, <2>1, ArrangedKeys
  <1>6. snapshot_at(l, v) = rows
    BY DEF snapshot_at, UpTo, AtMost
  <1> HIDE DEF I, n, P, m
  <1>7. RowsOf(m, Positions(m), rows)
    BY <1>3, <1>5, ReplayIs
  <1> HIDE DEF rows
  <1>8. \A k, j \in 1..n : k < j => P(k) < P(j)
    BY <1>1, <1>3, <1>4, WrittenBefore
  <1>9. AggregatesAt(m, Positions(m)) = AggregatesAt(l, I)
    BY <1>3, <1>4 DEF AggregatesAt
  <1>10. ASSUME NEW a \in AggregatesAt(l, I)
         PROVE  \E i \in I : Latest(l, I, a, i) /\ rows[a] = l[i]
    <2>1. PICK k \in 1..n : Latest(m, Positions(m), a, k) /\ rows[a] = m[k]
      BY <1>3, <1>7, <1>9 DEF RowsOf
    <2>2. P(k) \in I /\ m[k] = l[P(k)]
      BY <1>3
    <2>3. ASSUME NEW j \in I, j # P(k), AggregateOf[l[j]] = a PROVE Supersedes(l, P(k), j)
      <3>1. PICK h \in 1..n : P(h) = j
        BY <1>4
      <3>2. h # k /\ m[h] = l[j]
        BY <1>3, <2>3, <3>1
      <3>3. Supersedes(m, k, h)
        BY <1>3, <2>1, <2>3, <3>2 DEF Latest
      <3>4. k > h => P(k) > P(h)
        <4>1. P(h) < P(k) => P(k) > P(h)
          BY <1>1, <1>3, LineTypes
        <4> QED
          BY <1>8, <4>1, <1>3
      <3> QED
        BY <2>2, <3>1, <3>2, <3>3, <3>4 DEF Supersedes
    <2> QED
      BY <2>1, <2>2, <2>3 DEF Latest
  <1> QED
    BY <1>6, <1>7, <1>9, <1>10 DEF RowsOf, I

-----------------------------------------------------------------------------
(* The feed *)

After(l, v) == {i \in Positions(l) : VersionOf[l[i]] > v}

\* The rows that a feed of the lines at I makes of others: of an aggregate in the feed the
\* line that replaces the others.
Fed(l, I, rows, applied) ==
    /\ applied = [a \in DOMAIN rows \cup AggregatesAt(l, I) |-> applied[a]]
    /\ \A a \in AggregatesAt(l, I) : \E i \in I : Latest(l, I, a, i) /\ applied[a] = l[i]
    /\ \A a \in DOMAIN rows \ AggregatesAt(l, I) : applied[a] = rows[a]

LEMMA FeedIs ==
    ASSUME NEW l \in Seq(Events), NEW v, NEW rows
    PROVE  Fed(l, After(l, v), rows, Applied(rows, change_feed(l, v)))
  <1> DEFINE I == After(l, v)
             n == Cardinality(I)
             order == ByVersion(l)
             P(k) == PositionOf(I, order, k)
             m == Arranged(l, I, order)
             Mine(a) == {k \in 1..n : AggregateOf[m[k]] = a}
             Pick(a) == CHOOSE k \in Mine(a) : \A j \in Mine(a) : j <= k
             applied == Applied(rows, m)
  <1>1. I \in SUBSET Positions(l)
    BY DEF After
  <1>2. IsFiniteSet(I) /\ StrictOrder(I, order)
    BY <1>1, OrdersAreStrict
  <1>3. /\ m \in Seq(Events) /\ Len(m) = n /\ n \in Nat
        /\ \A k \in 1..n : P(k) \in I /\ m[k] = l[P(k)]
    BY <1>1, <1>2, ArrangedLines
  <1>4. /\ \A k, j \in 1..n : k < j => Before(order, P(k), P(j))
        /\ \A i \in I : \E k \in 1..n : P(k) = i
    BY <1>2, ArrangedIs
  <1>5. change_feed(l, v) = m
    BY DEF change_feed, After
  <1> HIDE DEF I, n, P, m, order
  <1>6. Aggregates(m) = AggregatesAt(l, I)
    BY <1>3, <1>4 DEF AggregatesAt, Aggregates, EventsIn
  <1>7. applied = [a \in DOMAIN rows \cup AggregatesAt(l, I) |->
                     IF Mine(a) = {} THEN rows[a] ELSE m[Pick(a)]]
    BY <1>3, <1>6 DEF Applied
  <1> HIDE DEF applied
  <1>8. ASSUME NEW a \in AggregatesAt(l, I)
        PROVE  \E i \in I : Latest(l, I, a, i) /\ applied[a] = l[i]
    <2>1. Mine(a) # {}
      <3>1. PICK i \in I : AggregateOf[l[i]] = a
        BY DEF AggregatesAt
      <3>2. PICK k \in 1..n : P(k) = i
        BY <1>4
      <3> QED
        BY <1>3, <3>1, <3>2
    <2>2. PICK k \in Mine(a) : \A j \in Mine(a) : j <= k
      <3> DEFINE later == {x \in (1..n) \X (1..n) : x[1] < x[2]}
      <3>1. IsFiniteSet(Mine(a))
        <4>1. IsFiniteSet(1..n)
          BY <1>3, FS_Interval
        <4>2. Mine(a) \in SUBSET (1..n)
          OBVIOUS
        <4> HIDE DEF Mine
        <4> QED
          BY <4>1, <4>2, FS_Subset
      <3>2. \A i \in 1..n, j \in 1..n : Before(later, i, j) <=> i < j
        BY DEF Before
      <3>3. StrictOrder(Mine(a), later)
        BY <1>3, <3>2 DEF StrictOrder
      <3>4. PICK k \in Mine(a) : \A j \in Mine(a) \ {k} : Before(later, j, k)
        <4> HIDE DEF Mine, later
        <4> QED
          BY <2>1, <3>1, <3>3, LastOf
      <3>5. \A j \in 1..n : Before(later, j, k) => j < k
        BY <3>2
      <3> HIDE DEF later
      <3>6. ASSUME NEW j \in Mine(a) PROVE j <= k
        BY <1>3, <3>4, <3>5
      <3> QED
        BY <3>6
    <2>3. Pick(a) \in Mine(a) /\ \A j \in Mine(a) : j <= Pick(a)
      <3> HIDE DEF Mine
      <3> QED
        BY <2>2
    <2> DEFINE p == Pick(a)
    <2>4. applied[a] = m[p]
      BY <1>7, <2>1
    <2>5. p \in 1..n /\ AggregateOf[m[p]] = a /\ \A j \in 1..n : AggregateOf[m[j]] = a => j <= p
      BY <2>3
    <2> HIDE DEF p, Pick
    <2>6. ASSUME NEW j \in I, j # P(p), AggregateOf[l[j]] = a PROVE Supersedes(l, P(p), j)
      <3>1. PICK h \in 1..n : P(h) = j
        BY <1>4
      <3>2. h < p
        BY <1>3, <2>5, <2>6, <3>1
      <3>3. Before(order, j, P(p))
        BY <1>4, <2>5, <3>1, <3>2
      <3>4. AggregateOf[l[P(p)]] = a /\ P(p) \in Positions(l) /\ j \in Positions(l)
        BY <1>1, <1>3, <2>5
      <3>5. \/ VersionOf[l[j]] < VersionOf[l[P(p)]]
            \/ VersionOf[l[j]] = VersionOf[l[P(p)]] /\ j < P(p)
        BY <2>6, <3>3, <3>4, VersionBefore, LineTypes DEF order
      <3> QED
        BY <3>4, <3>5, LineTypes DEF Supersedes
    <2> QED
      BY <1>3, <2>4, <2>5, <2>6 DEF Latest
  <1>9. ASSUME NEW a \in DOMAIN rows \ AggregatesAt(l, I) PROVE applied[a] = rows[a]
    <2>1. Mine(a) = {}
      BY <1>3, <1>9 DEF AggregatesAt
    <2> QED
      BY <1>7, <2>1
  <1>10. applied = [a \in DOMAIN rows \cup AggregatesAt(l, I) |-> applied[a]]
    BY <1>7
  <1> USE DEF I
  <1> HIDE DEF Mine, Pick
  <1>11. applied = Applied(rows, change_feed(l, v))
    BY <1>5 DEF applied
  <1>12. Fed(l, I, rows, applied)
    BY <1>8, <1>9, <1>10 DEF Fed
  <1> QED
    BY <1>11, <1>12

\* Rows of the lines at I, which have no version above v, and the feed since v, make the
\* rows of all lines if nothing else was written.
LEMMA CatchUp ==
    ASSUME NEW l \in Seq(Events), NEW v \in Nat, NEW I \in SUBSET Positions(l), NEW rows,
           RowsOf(l, I, rows), I \in SUBSET AtMost(l, v), Positions(l) \ I \in SUBSET After(l, v)
    PROVE  RowsOf(l, Positions(l), Applied(rows, change_feed(l, v)))
  <1> DEFINE F == After(l, v)
             All == Positions(l)
             applied == Applied(rows, change_feed(l, v))
  <1>1. /\ applied = [a \in DOMAIN rows \cup AggregatesAt(l, F) |-> applied[a]]
        /\ \A a \in AggregatesAt(l, F) : \E i \in F : Latest(l, F, a, i) /\ applied[a] = l[i]
        /\ \A a \in DOMAIN rows \ AggregatesAt(l, F) : applied[a] = rows[a]
    <2>1. Fed(l, F, rows, applied)
      BY FeedIs
    <2> HIDE DEF F, applied
    <2> QED
      BY <2>1 DEF Fed
  <1>2. DOMAIN rows = AggregatesAt(l, I)
    BY DEF RowsOf
  <1>3. All = I \cup F /\ F \in SUBSET All
    BY DEF After
  <1>4. \A i \in F, j \in I : VersionOf[l[i]] > VersionOf[l[j]]
    BY LineTypes DEF After, AtMost
  <1> HIDE DEF F, All, applied
  <1>5. AggregatesAt(l, All) = AggregatesAt(l, I) \cup AggregatesAt(l, F)
    BY <1>3 DEF AggregatesAt
  <1>6. ASSUME NEW a \in AggregatesAt(l, F)
        PROVE  \E i \in All : Latest(l, All, a, i) /\ applied[a] = l[i]
    <2>1. PICK i \in F : Latest(l, F, a, i) /\ applied[a] = l[i]
      BY <1>1
    <2>2. Latest(l, All, a, i)
      BY <1>3, <1>4, <2>1 DEF Latest, Supersedes
    <2> QED
      BY <1>3, <2>1, <2>2
  <1>7. ASSUME NEW a \in AggregatesAt(l, I), a \notin AggregatesAt(l, F)
        PROVE  \E i \in All : Latest(l, All, a, i) /\ applied[a] = l[i]
    <2>1. PICK i \in I : Latest(l, I, a, i) /\ rows[a] = l[i]
      BY DEF RowsOf
    <2>2. applied[a] = rows[a]
      BY <1>1, <1>2, <1>7
    <2>3. \A j \in F : AggregateOf[l[j]] # a
      BY <1>7 DEF AggregatesAt
    <2>4. Latest(l, All, a, i)
      BY <1>3, <2>1, <2>3 DEF Latest
    <2> QED
      BY <1>3, <2>1, <2>2, <2>4
  <1> QED
    BY <1>1, <1>2, <1>5, <1>6, <1>7 DEF RowsOf, applied, All

LEMMA TopVersionIs ==
    ASSUME NEW l \in Seq(Events)
    PROVE  /\ TopVersion(l) \in Nat
           /\ \A i \in Positions(l) : VersionOf[l[i]] <= TopVersion(l)
  <1> DEFINE V == {VersionOf[e] : e \in EventsIn(l)} \cup {0}
             W == {VersionOf[l[i]] : i \in Positions(l)}
  <1>1. V = W \cup {0}
    BY DEF EventsIn, Positions
  <1>2. ASSUME NEW w \in V PROVE w \in Nat /\ (w = 0 \/ \E i \in Positions(l) : w = VersionOf[l[i]])
    <2>1. w = 0 \/ w \in W
      BY <1>1
    <2> QED
      BY <2>1, LineTypes
  <1>3. \E v \in V : \A w \in V : w <= v
    <2> DEFINE least == {i \in Positions(l) : VersionOf[l[i]] > 0}
    <2>1. least \in SUBSET Positions(l)
      OBVIOUS
    <2>2. CASE least = {}
      <3>1. ASSUME NEW w \in V PROVE w <= 0
        <4>1. ASSUME NEW i \in Positions(l), w = VersionOf[l[i]] PROVE w <= 0
          <5>1. VersionOf[l[i]] \in Nat
            BY LineTypes
          <5>2. ~(VersionOf[l[i]] > 0)
            <6>1. i \notin least
              BY <2>2
            <6> QED
              BY <6>1
          <5> QED
            BY <4>1, <5>1, <5>2
        <4>2. w = 0 \/ \E i \in Positions(l) : w = VersionOf[l[i]]
          BY <1>2
        <4> HIDE DEF V, W, least
        <4> QED
          BY <4>1, <4>2
      <3> QED
        BY <3>1
    <2>3. CASE least # {}
      <3>1. IsFiniteSet(least) /\ StrictOrder(least, ByVersion(l))
        <4> HIDE DEF least
        <4> QED
          BY <2>1, OrdersAreStrict
      <3>2. PICK i \in least : \A j \in least \ {i} : Before(ByVersion(l), j, i)
        <4> HIDE DEF least
        <4> QED
          BY <2>3, <3>1, LastOf
      <3>3. \A j \in least : VersionOf[l[j]] <= VersionOf[l[i]]
        BY <3>2, VersionBefore, LineTypes
      <3>4. \A j \in Positions(l) \ least : VersionOf[l[j]] <= VersionOf[l[i]]
        BY LineTypes
      <3>5. ASSUME NEW w \in V PROVE w <= VersionOf[l[i]]
        <4>1. VersionOf[l[i]] \in Nat
          BY LineTypes
        <4>2. CASE w = 0
          BY <4>1, <4>2
        <4>3. ASSUME NEW j \in Positions(l), w = VersionOf[l[j]] PROVE w <= VersionOf[l[i]]
          BY <3>3, <3>4, <4>3
        <4> QED
          BY <1>2, <4>2, <4>3
      <3> QED
        BY <1>1, <3>5
    <2> QED
      BY <2>2, <2>3
  <1>4. TopVersion(l) \in V /\ \A w \in V : w <= TopVersion(l)
    <2>1. TopVersion(l) = CHOOSE v \in V : \A w \in V : w <= v
      BY DEF TopVersion
    <2> HIDE DEF V
    <2> QED
      BY <1>3, <2>1
  <1> QED
    BY <1>1, <1>2, <1>4

LEMMA SnapshotNowIs ==
    ASSUME NEW l \in Seq(Events), OneLineAKey(l, Positions(l))
    PROVE  RowsOf(l, Positions(l), snapshot_json(l))
  <1>1. AtMost(l, TopVersion(l)) = Positions(l)
    BY TopVersionIs DEF AtMost
  <1> QED
    BY <1>1, SnapshotIs DEF snapshot_json

LEMMA TextIs ==
    ASSUME NEW l \in Seq(Events), NEW a, NEW i, Latest(l, Positions(l), a, i)
    PROVE  text_of(l, a) = l[i]
  <1> DEFINE Mine == {j \in Positions(l) : AggregateOf[l[j]] = a}
             Last(j) == \A h \in Mine \ {j} : Supersedes(l, j, h)
             p == CHOOSE j \in Mine : Last(j)
  <1>1. text_of(l, a) = l[p]
    BY DEF text_of, Supersedes, Positions
  <1>2. i \in Mine /\ Last(i)
    BY DEF Latest
  <1>3. p \in Mine /\ Last(p)
    <2> HIDE DEF Mine, Last
    <2> QED
      BY <1>2
  <1> HIDE DEF p
  <1>4. Latest(l, Positions(l), a, p)
    BY <1>3 DEF Latest
  <1>5. p = i
    BY <1>4, LatestIsOne
  <1> QED
    BY <1>1, <1>5

-----------------------------------------------------------------------------
(* A log and its prefixes *)

LEMMA PrefixIs ==
    ASSUME NEW l \in Seq(Events), NEW n \in 0..Len(l)
    PROVE  /\ Prefix(l, n) \in Seq(Events) /\ Len(Prefix(l, n)) = n /\ n \in Nat
           /\ \A i \in 1..n : Prefix(l, n)[i] = l[i] /\ i \in Positions(l)
           /\ Positions(Prefix(l, n)) = 1..n
  <1>1. Len(l) \in Nat
    BY LenProperties
  <1>2. n \in Nat /\ n <= Len(l)
    BY <1>1
  <1>3. /\ Prefix(l, n) \in Seq(Events) /\ Len(Prefix(l, n)) = n
        /\ \A i \in 1..n : Prefix(l, n)[i] = l[i]
    BY <1>1, <1>2, SubSeqProperties DEF Prefix
  <1>4. \A i \in 1..n : i \in Positions(l)
    BY <1>1, <1>2 DEF Positions
  <1> QED
    BY <1>2, <1>3, <1>4 DEF Positions

LEMMA PrefixRows ==
    ASSUME NEW l \in Seq(Events), NEW n \in 0..Len(l), NEW rows,
           RowsOf(Prefix(l, n), 1..n, rows)
    PROVE  RowsOf(l, 1..n, rows)
  <1> DEFINE p == Prefix(l, n)
  <1>1. \A i \in 1..n : p[i] = l[i]
    BY PrefixIs
  <1> HIDE DEF p
  <1>2. AggregatesAt(p, 1..n) = AggregatesAt(l, 1..n)
    BY <1>1 DEF AggregatesAt
  <1>3. RowsOf(p, 1..n, rows)
    BY DEF p
  <1>4. ASSUME NEW a, NEW i \in 1..n, Latest(p, 1..n, a, i) PROVE Latest(l, 1..n, a, i)
    BY <1>1, <1>4 DEF Latest, Supersedes
  <1> QED
    BY <1>1, <1>2, <1>3, <1>4 DEF RowsOf

-----------------------------------------------------------------------------
(* The views, of any log without a repeated key *)

KeysOnce == OneLineAKey(log, Positions(log))

LEMMA KeysUniqueIsOnce == KeysUnique <=> KeysOnce
BY DEF KeysUnique, KeysOnce, OneLineAKey, Positions

Readable == log \in Seq(Events) /\ KeysUnique /\ EventsIn(log) \subseteq Valid

LEMMA ReadableViews ==
    ASSUME Readable
    PROVE  ViewsAgree
  <1> DEFINE rows == snapshot_json(log)
  <1>1. log \in Seq(Events) /\ OneLineAKey(log, Positions(log))
    BY KeysUniqueIsOnce DEF Readable, KeysOnce
  <1>2. parse_event_log(log) = log
    BY DEF Readable, parse_event_log
  <1>3. RowsOf(log, Positions(log), rows)
    BY <1>1, SnapshotNowIs
  <1> HIDE DEF rows
  <1>4. ASSUME NEW v \in Moments
        PROVE  Applied(snapshot_at(log, v), change_feed(log, v)) = rows
    <2>1. v \in Nat
      BY <1>1, TopVersionIs DEF Moments
    <2>2. RowsOf(log, AtMost(log, v), snapshot_at(log, v))
      BY <1>1, SnapshotIs
    <2>3. AtMost(log, v) \in SUBSET Positions(log)
      BY DEF AtMost
    <2>4. Positions(log) \ AtMost(log, v) \in SUBSET After(log, v)
      BY <1>1, <2>1, LineTypes DEF AtMost, After
    <2>5. RowsOf(log, Positions(log), Applied(snapshot_at(log, v), change_feed(log, v)))
      BY <1>1, <2>1, <2>2, <2>3, <2>4, CatchUp
    <2>6. Positions(log) \in SUBSET Positions(log)
      OBVIOUS
    <2> QED
      BY <1>1, <1>3, <2>5, <2>6, RowsAreOne
  <1>5. ASSUME NEW a \in DOMAIN rows PROVE text_of(log, a) = rows[a]
    <2>1. a \in AggregatesAt(log, Positions(log))
      BY <1>3 DEF RowsOf
    <2>2. PICK i \in Positions(log) : Latest(log, Positions(log), a, i) /\ rows[a] = log[i]
      BY <1>3, <2>1 DEF RowsOf
    <2> QED
      BY <1>1, <2>2, TextIs
  <1> QED
    BY <1>2, <1>4, <1>5 DEF ViewsAgree, rows

LEMMA ReadablePoller ==
    ASSUME Readable
    PROVE  PollerMissesNothing
  <1>1. log \in Seq(Events) /\ OneLineAKey(log, Positions(log)) /\ Len(log) \in Nat
    BY KeysUniqueIsOnce, LenProperties DEF Readable, KeysOnce
  <1> SUFFICES ASSUME NEW n \in 0..Len(log), RisesAfter(n)
               PROVE  Applied(snapshot_json(Prefix(log, n)),
                              change_feed(log, TopVersion(Prefix(log, n)))) = snapshot_json(log)
    BY DEF PollerMissesNothing
  <1> DEFINE then == Prefix(log, n)
             v == TopVersion(then)
             rows == snapshot_json(then)
  <1>2. /\ then \in Seq(Events) /\ Positions(then) = 1..n /\ n \in Nat
        /\ \A i \in 1..n : then[i] = log[i] /\ i \in Positions(log)
    BY <1>1, PrefixIs
  <1>3. v \in Nat /\ \A i \in 1..n : VersionOf[then[i]] <= v
    BY <1>2, TopVersionIs
  <1>4. OneLineAKey(then, Positions(then))
    <2> HIDE DEF then
    <2> QED
      BY <1>1, <1>2 DEF OneLineAKey
  <1>5. RowsOf(then, 1..n, rows)
    BY <1>2, <1>4, SnapshotNowIs
  <1>6. RowsOf(log, 1..n, rows)
    BY <1>1, <1>5, PrefixRows
  <1>7. \A j \in (n + 1)..Len(log) : VersionOf[log[j]] > v
    BY DEF RisesAfter
  <1> HIDE DEF then, v, rows
  <1>8. 1..n \in SUBSET AtMost(log, v) /\ 1..n \in SUBSET Positions(log)
    BY <1>2, <1>3 DEF AtMost
  <1>9. Positions(log) \ (1..n) \in SUBSET After(log, v)
    <2> SUFFICES ASSUME NEW j \in Positions(log), j \notin 1..n PROVE VersionOf[log[j]] > v
      BY DEF After
    <2>1. j \in (n + 1)..Len(log)
      BY <1>1, <1>2 DEF Positions
    <2> QED
      BY <1>7, <2>1
  <1>10. RowsOf(log, Positions(log), Applied(rows, change_feed(log, v)))
    BY <1>1, <1>3, <1>6, <1>8, <1>9, CatchUp
  <1>11. RowsOf(log, Positions(log), snapshot_json(log))
    BY <1>1, SnapshotNowIs
  <1>12. Positions(log) \in SUBSET Positions(log)
    OBVIOUS
  <1>13. Applied(rows, change_feed(log, v)) = snapshot_json(log)
    BY <1>1, <1>10, <1>11, <1>12, RowsAreOne
  <1> QED
    BY <1>13 DEF then, v, rows

-----------------------------------------------------------------------------
(* The merge *)

Backwards(l) == {x \in Positions(l) \X Positions(l) : x[2] < x[1]}

\* Of the lines with a key there is a first.
LEMMA FirstWithKey ==
    ASSUME NEW l \in Seq(Events), NEW i \in Positions(l)
    PROVE  \E j \in Firsts(l) : j <= i /\ KeyOf[l[j]] = KeyOf[l[i]]
  <1> DEFINE S == {j \in Positions(l) : KeyOf[l[j]] = KeyOf[l[i]]}
  <1>1. S \in SUBSET Positions(l) /\ i \in S
    OBVIOUS
  <1>2. \A j, k \in Positions(l) : Before(Backwards(l), j, k) <=> k < j
    BY DEF Before, Backwards
  <1>3. IsFiniteSet(S) /\ StrictOrder(S, Backwards(l))
    <2> HIDE DEF S
    <2>1. IsFiniteSet(S)
      BY <1>1, LineTypes, FS_Subset
    <2>2. \A j \in S : j \in Positions(l) /\ j \in Nat
      BY <1>1, LineTypes
    <2> QED
      BY <1>2, <2>1, <2>2 DEF StrictOrder
  <1>4. PICK j \in S : \A k \in S \ {j} : Before(Backwards(l), k, j)
    <2> HIDE DEF S
    <2> QED
      BY <1>1, <1>3, LastOf
  <1>5. \A k \in S : k # j => j < k
    BY <1>2, <1>4
  <1>6. j <= i
    BY <1>1, <1>5, LineTypes
  <1>7. j \in Firsts(l)
    <2>1. Len(l) \in Nat /\ j \in 1..Len(l) /\ j \in Nat
      BY LineTypes DEF Positions
    <2>2. ASSUME NEW k \in 1..(j - 1), KeyOf[l[k]] = KeyOf[l[j]] PROVE FALSE
      <3>1. k \in S /\ k < j /\ k \in Nat
        BY <2>1, <2>2 DEF Positions
      <3> QED
        BY <1>5, <2>1, <3>1
    <2> QED
      BY <2>1, <2>2 DEF Firsts
  <1> QED
    BY <1>6, <1>7

LEMMA FirstsAreOnce ==
    ASSUME NEW l \in Seq(Events)
    PROVE  Firsts(l) \in SUBSET Positions(l) /\ OneLineAKey(l, Firsts(l))
  <1>1. Firsts(l) \in SUBSET Positions(l)
    BY DEF Firsts, Positions
  <1>2. ASSUME NEW i \in Firsts(l), NEW j \in Firsts(l), KeyOf[l[i]] = KeyOf[l[j]], i < j
        PROVE  FALSE
    <2>1. Len(l) \in Nat /\ i \in 1..Len(l) /\ j \in 1..Len(l)
      BY LineTypes DEF Firsts
    <2>2. i \in 1..(j - 1)
      BY <1>2, <2>1
    <2> QED
      BY <1>2, <2>2 DEF Firsts
  <1>3. \A i \in Firsts(l) : i \in Nat
    BY <1>1, LineTypes
  <1> QED
    BY <1>1, <1>2, <1>3 DEF OneLineAKey

OneEventAKey(E) == \A e, f \in E : KeyOf[e] = KeyOf[f] => e = f

LEMMA ConflictIs ==
    ASSUME NEW l
    PROVE  IdempotencyConflict(l) <=> ~OneEventAKey(EventsIn(l))
  BY DEF IdempotencyConflict, OneEventAKey, EventsIn

LEMMA FirstsEvents ==
    ASSUME NEW l \in Seq(Events), ~IdempotencyConflict(l)
    PROVE  LinesAt(l, Firsts(l)) = EventsIn(l)
  <1>1. ASSUME NEW e \in LinesAt(l, Firsts(l)) PROVE e \in EventsIn(l)
    BY FirstsAreOnce DEF LinesAt, EventsIn, Positions
  <1>2. ASSUME NEW e \in EventsIn(l) PROVE e \in LinesAt(l, Firsts(l))
    <2>1. PICK i \in Positions(l) : e = l[i]
      BY DEF EventsIn, Positions
    <2>2. PICK j \in Firsts(l) : KeyOf[l[j]] = KeyOf[l[i]]
      BY FirstWithKey
    <2>3. l[j] = l[i]
      BY <2>2, FirstsAreOnce DEF IdempotencyConflict, Positions
    <2> QED
      BY <2>1, <2>3 DEF LinesAt
  <1> QED
    BY <1>1, <1>2

LEMMA ConcatIs ==
    ASSUME NEW s \in Seq(Events), NEW t \in Seq(Events)
    PROVE  /\ s \o t \in Seq(Events)
           /\ Len(s) \in Nat /\ Len(t) \in Nat /\ Len(s \o t) = Len(s) + Len(t)
           /\ \A i \in Positions(s) : i \in Positions(s \o t) /\ (s \o t)[i] = s[i]
           /\ \A i \in Positions(s \o t) : i \notin Positions(s) => (s \o t)[i] \in EventsIn(t)
           /\ EventsIn(s \o t) = EventsIn(s) \cup EventsIn(t)
  <1> DEFINE x == s \o t
  <1>1. /\ x \in Seq(Events) /\ Len(s) \in Nat /\ Len(t) \in Nat /\ Len(x) = Len(s) + Len(t)
        /\ \A i \in 1..(Len(s) + Len(t)) : x[i] = IF i <= Len(s) THEN s[i] ELSE t[i - Len(s)]
    BY ConcatProperties, LenProperties
  <1> HIDE DEF x
  <1>2. \A i \in Positions(s) : i \in Positions(x) /\ x[i] = s[i]
    BY <1>1 DEF Positions
  <1>3. \A i \in Positions(x) : i \notin Positions(s) => x[i] \in EventsIn(t)
    <2> SUFFICES ASSUME NEW i \in Positions(x), i \notin Positions(s) PROVE x[i] \in EventsIn(t)
      OBVIOUS
    <2>1. i - Len(s) \in 1..Len(t) /\ x[i] = t[i - Len(s)]
      BY <1>1 DEF Positions
    <2> QED
      BY <2>1 DEF EventsIn
  <1>4. EventsIn(s) \subseteq EventsIn(x)
    BY <1>2 DEF EventsIn, Positions
  <1>5. EventsIn(t) \subseteq EventsIn(x)
    <2> SUFFICES ASSUME NEW j \in 1..Len(t) PROVE t[j] \in EventsIn(x)
      BY DEF EventsIn
    <2> DEFINE i == Len(s) + j
    <2>1. /\ i \in 1..(Len(s) + Len(t)) /\ ~(i <= Len(s)) /\ i - Len(s) = j /\ i \in 1..Len(x)
      BY <1>1
    <2> HIDE DEF i
    <2>2. i \in 1..Len(x) /\ x[i] = t[j]
      BY <1>1, <2>1
    <2> QED
      BY <2>2 DEF EventsIn
  <1>6. EventsIn(x) \subseteq EventsIn(s) \cup EventsIn(t)
    <2> SUFFICES ASSUME NEW i \in Positions(x) PROVE x[i] \in EventsIn(s) \cup EventsIn(t)
      BY DEF EventsIn, Positions
    <2>1. CASE i \in Positions(s)
      BY <1>2, <2>1 DEF EventsIn, Positions
    <2>2. CASE i \notin Positions(s)
      BY <1>3, <2>2
    <2> QED
      BY <2>1, <2>2
  <1> QED
    BY <1>1, <1>2, <1>3, <1>4, <1>5, <1>6 DEF x

\* Lines sorted by version, aggregate and position.
Sorted(l) == \A i, j \in Positions(l) : i < j => Before(ByVersion(l), i, j)

LEMMA ArrangedIsSorted ==
    ASSUME NEW l \in Seq(Events), NEW I \in SUBSET Positions(l)
    PROVE  Sorted(Arranged(l, I, ByVersion(l)))
  <1> DEFINE n == Cardinality(I)
             order == ByVersion(l)
             P(k) == PositionOf(I, order, k)
             m == Arranged(l, I, order)
  <1>1. IsFiniteSet(I) /\ StrictOrder(I, order)
    BY OrdersAreStrict
  <1>2. /\ Positions(m) = 1..n
        /\ \A k \in 1..n : P(k) \in I /\ m[k] = l[P(k)]
    BY <1>1, ArrangedLines DEF Positions
  <1>3. \A k, j \in 1..n : k < j => Before(order, P(k), P(j))
    BY <1>1, ArrangedIs
  <1> HIDE DEF n, P, m
  <1>4. ASSUME NEW k \in Positions(m), NEW j \in Positions(m), k < j
        PROVE  Before(ByVersion(m), k, j)
    <2>1. Before(order, P(k), P(j)) /\ P(k) \in Positions(l) /\ P(j) \in Positions(l)
      BY <1>2, <1>3, <1>4
    <2>2. m[k] = l[P(k)] /\ m[j] = l[P(j)]
      BY <1>2
    <2> QED
      BY <1>4, <2>1, <2>2, VersionBefore
  <1> QED
    BY <1>4 DEF Sorted, m

\* Sorting sorted lines, whatever comes after them, leaves them as they are.
LEMMA SortedStays ==
    ASSUME NEW m \in Seq(Events), Sorted(m), NEW x \in Seq(Events),
           \A i \in Positions(m) : i \in Positions(x) /\ x[i] = m[i]
    PROVE  Arranged(x, Positions(m), ByVersion(x)) = m
  <1> DEFINE I == Positions(m)
             order == ByVersion(x)
             n == Len(m)
             a == Arranged(x, I, order)
  <1>1. n \in Nat /\ I = 1..n
    BY LineTypes DEF Positions
  <1>2. IsFiniteSet(I) /\ Cardinality(I) = n
    <2>1. IsFiniteSet(1..n) /\ Cardinality(1..n) = n
      <3> HIDE DEF n
      <3> QED
        BY <1>1, FS_Interval
    <2> QED
      BY <1>1, <2>1
  <1>3. I \in SUBSET Positions(x)
    OBVIOUS
  <1>4. StrictOrder(I, order)
    BY <1>3, OrdersAreStrict
  <1>5. \A i, j \in I : i < j => Before(order, i, j)
    <2> SUFFICES ASSUME NEW i \in I, NEW j \in I, i < j PROVE Before(order, i, j)
      OBVIOUS
    <2>1. Before(ByVersion(m), i, j)
      BY DEF Sorted
    <2> QED
      BY <1>3, <2>1, VersionBefore
  <1> HIDE DEF order
  <1>6. ASSUME NEW k \in I PROVE Cardinality(NotAfter(I, order, k)) = k
    <2>1. \A j \in I : Before(order, j, k) <=> j < k
      BY <1>1, <1>4, <1>5 DEF StrictOrder
    <2>2. NotAfter(I, order, k) = 1..k
      BY <1>1, <2>1 DEF NotAfter, Before
    <2> QED
      BY <1>1, <2>2, FS_Interval
  <1>7. ASSUME NEW k \in I PROVE PositionOf(I, order, k) = k
    <2> DEFINE p == PositionOf(I, order, k)
    <2>1. p \in I /\ Cardinality(NotAfter(I, order, p)) = k
      <3>1. p = CHOOSE i \in I : Cardinality(NotAfter(I, order, i)) = k
        BY DEF PositionOf, NotAfter
      <3> HIDE DEF p, I
      <3> QED
        BY <1>6, <3>1
    <2> HIDE DEF p
    <2>2. Cardinality(NotAfter(I, order, p)) = p
      BY <1>6, <2>1
    <2>3. p = k
      BY <2>1, <2>2
    <2> QED
      BY <2>3 DEF p
  <1>8. /\ a \in Seq(Events) /\ Len(a) = n
        /\ \A k \in 1..n : a[k] = x[PositionOf(I, order, k)]
    BY <1>2, <1>3, <1>4, ArrangedLines
  <1> HIDE DEF a
  <1>9. \A k \in 1..n : a[k] = m[k]
    BY <1>1, <1>7, <1>8
  <1>10. a = m
    BY <1>8, <1>9, SeqEqual
  <1> QED
    BY <1>10 DEF a, order

LEMMA KeysCounted ==
    ASSUME NEW l \in Seq(Events), OneLineAKey(l, Positions(l))
    PROVE  Len(l) = Cardinality({KeyOf[e] : e \in EventsIn(l)})
  <1> DEFINE K == {KeyOf[e] : e \in EventsIn(l)}
             f == [i \in 1..Len(l) |-> KeyOf[l[i]]]
  <1>1. f \in [1..Len(l) -> K]
    BY DEF EventsIn
  <1>2. \A i, j \in 1..Len(l) : f[i] = f[j] => i = j
    BY DEF OneLineAKey, Positions
  <1>3. \A k \in K : \E i \in 1..Len(l) : f[i] = k
    BY DEF EventsIn
  <1> HIDE DEF K, f
  <1>4. f \in Bijection(1..Len(l), K)
    BY <1>1, <1>2, <1>3 DEF Bijection, Injection, Surjection, IsInjective
  <1>5. Len(l) \in Nat
    BY LineTypes
  <1>6. IsFiniteSet(1..Len(l)) /\ Cardinality(1..Len(l)) = Len(l)
    BY <1>5, FS_Interval
  <1>7. Cardinality(K) = Len(l)
    BY <1>4, <1>6, FS_Bijection DEF ExistsBijection
  <1> QED
    BY <1>7 DEF K

LEMMA MergedIs ==
    ASSUME NEW owner \in Seq(Events), NEW offline \in Seq(Events),
           OneLineAKey(owner, Positions(owner)),
           ~Skewed(owner \o offline), ~IdempotencyConflict(owner \o offline)
    PROVE  LET lines == owner \o offline IN
             merge_offline(owner, offline) = Arranged(lines, Firsts(lines), ByVersion(lines))
  <1> DEFINE lines == owner \o offline
             added == {i \in Firsts(lines) : i > Len(owner)}
             merged == merge_offline(owner, offline)
  <1>1. merged = Arranged(lines, Positions(owner) \cup added, ByVersion(lines))
    BY DEF merge_offline
  <1>2. /\ lines \in Seq(Events) /\ Len(owner) \in Nat
        /\ \A i \in Positions(owner) : i \in Positions(lines) /\ lines[i] = owner[i]
    BY ConcatIs
  <1> HIDE DEF lines, merged
  <1>3. Positions(owner) \cup added = Firsts(lines)
    <2>1. ASSUME NEW i \in Positions(owner) PROVE i \in Firsts(lines)
      <3>1. i \in Nat /\ i \in 1..Len(lines)
        BY <1>2 DEF Positions
      <3>2. ASSUME NEW j \in 1..(i - 1), KeyOf[lines[j]] = KeyOf[lines[i]] PROVE FALSE
        <4>1. j \in Positions(owner) /\ j # i
          BY <1>2, <3>1 DEF Positions
        <4> QED
          BY <1>2, <3>2, <4>1 DEF OneLineAKey
      <3> QED
        BY <3>1, <3>2 DEF Firsts
    <2>2. \A i \in Firsts(lines) : i > Len(owner) \/ i \in Positions(owner)
      <3>1. Len(lines) \in Nat
        BY <1>2, LineTypes
      <3> QED
        BY <1>2, <3>1 DEF Firsts, Positions
    <2> QED
      BY <2>1, <2>2
  <1>4. merged = Arranged(lines, Firsts(lines), ByVersion(lines))
    BY <1>1, <1>3
  <1> QED
    BY <1>4 DEF lines, merged

\* What a merge makes of lines that are in no conflict.
Merged(lines, m) ==
    /\ m \in Seq(Events)
    /\ EventsIn(m) = EventsIn(lines)
    /\ OneLineAKey(m, Positions(m))
    /\ Sorted(m)

LEMMA MergedFacts ==
    ASSUME NEW lines \in Seq(Events), ~IdempotencyConflict(lines)
    PROVE  Merged(lines, Arranged(lines, Firsts(lines), ByVersion(lines)))
  <1>1. Firsts(lines) \in SUBSET Positions(lines) /\ OneLineAKey(lines, Firsts(lines))
    BY FirstsAreOnce
  <1>2. StrictOrder(Firsts(lines), ByVersion(lines))
    BY <1>1, OrdersAreStrict
  <1> DEFINE m == Arranged(lines, Firsts(lines), ByVersion(lines))
  <1>3. m \in Seq(Events) /\ EventsIn(m) = LinesAt(lines, Firsts(lines))
    BY <1>1, <1>2, ArrangedLines
  <1>4. OneLineAKey(m, Positions(m))
    BY <1>1, <1>2, ArrangedKeys
  <1>5. Sorted(m)
    BY <1>1, ArrangedIsSorted
  <1> HIDE DEF m
  <1>6. EventsIn(m) = EventsIn(lines)
    BY <1>3, FirstsEvents
  <1> QED
    BY <1>3, <1>4, <1>5, <1>6 DEF Merged, m

\* A merge of what is known adds nothing.
LEMMA MergeAgain ==
    ASSUME NEW m \in Seq(Events), OneLineAKey(m, Positions(m)), Sorted(m),
           NEW offline \in Seq(Events), EventsIn(offline) \subseteq EventsIn(m),
           ~Skewed(m), OneEventAKey(EventsIn(m))
    PROVE  merge_offline(m, offline) = m
  <1> DEFINE lines == m \o offline
             added == {i \in Firsts(lines) : i > Len(m)}
             merged == merge_offline(m, offline)
  <1>1. /\ lines \in Seq(Events) /\ Len(m) \in Nat /\ Len(lines) \in Nat
        /\ \A i \in Positions(m) : i \in Positions(lines) /\ lines[i] = m[i]
        /\ \A i \in Positions(lines) : i \notin Positions(m) => lines[i] \in EventsIn(offline)
        /\ EventsIn(lines) = EventsIn(m)
    BY ConcatIs, LineTypes
  <1>2. ~Skewed(lines) /\ ~IdempotencyConflict(lines)
    BY <1>1, ConflictIs DEF Skewed
  <1>3. merged = Arranged(lines, Positions(m) \cup added, ByVersion(lines))
    BY <1>2 DEF merge_offline
  <1> HIDE DEF lines, merged
  <1>4. added = {}
    <2> SUFFICES ASSUME NEW i \in Firsts(lines), i > Len(m) PROVE FALSE
      OBVIOUS
    <2>1. i \in Positions(lines) /\ i \notin Positions(m) /\ i \in Nat
      BY <1>1 DEF Firsts, Positions
    <2>2. lines[i] \in EventsIn(m)
      BY <1>1, <2>1
    <2>3. PICK j \in Positions(m) : m[j] = lines[i]
      BY <2>2 DEF EventsIn, Positions
    <2>4. lines[j] = lines[i] /\ j \in 1..(i - 1)
      BY <1>1, <2>1, <2>3 DEF Positions
    <2> QED
      BY <2>4 DEF Firsts
  <1>5. Positions(m) \cup added = Positions(m)
    BY <1>4
  <1>6. merged = Arranged(lines, Positions(m), ByVersion(lines))
    BY <1>3, <1>5
  <1>7. merged = m
    BY <1>1, <1>6, SortedStays
  <1> QED
    BY <1>7 DEF merged

LEMMA MergeKeepsVersions ==
    ASSUME NEW l \in Seq(Events), OneLineAKey(l, Positions(l)),
           NEW m \in Seq(Events), OneLineAKey(m, Positions(m)),
           EventsIn(l) \subseteq EventsIn(m), NEW a \in DOMAIN replay(l)
    PROVE  VersionOf[replay(l)[a]] <= VersionOf[replay(m)[a]]
  <1> DEFINE r == replay(l)
             q == replay(m)
  <1>1. RowsOf(l, Positions(l), r) /\ RowsOf(m, Positions(m), q)
    BY ReplayIs
  <1>2. a \in DOMAIN r
    OBVIOUS
  <1> HIDE DEF r, q
  <1>3. PICK i \in Positions(l) : Latest(l, Positions(l), a, i) /\ r[a] = l[i]
    BY <1>1, <1>2 DEF RowsOf
  <1>4. l[i] \in EventsIn(l)
    BY DEF EventsIn, Positions
  <1>5. PICK h \in Positions(m) : m[h] = l[i]
    BY <1>4 DEF EventsIn, Positions
  <1>6. AggregateOf[m[h]] = a
    BY <1>3, <1>5 DEF Latest
  <1>7. a \in AggregatesAt(m, Positions(m))
    BY <1>6 DEF AggregatesAt
  <1>8. PICK k \in Positions(m) : Latest(m, Positions(m), a, k) /\ q[a] = m[k]
    BY <1>1, <1>7 DEF RowsOf
  <1>9. k = h \/ Supersedes(m, k, h)
    BY <1>6, <1>8 DEF Latest
  <1>10. VersionOf[m[k]] \in Nat /\ VersionOf[m[h]] \in Nat
    BY LineTypes
  <1>11. VersionOf[m[h]] <= VersionOf[m[k]]
    BY <1>9, <1>10 DEF Supersedes
  <1> QED
    BY <1>3, <1>5, <1>8, <1>11 DEF r, q

LEMMA ReadableMerge ==
    ASSUME Readable
    PROVE  OfflineMergeIsSafe
  <1>1. log \in Seq(Events) /\ OneLineAKey(log, Positions(log)) /\ Len(log) \in Nat
    BY KeysUniqueIsOnce, LenProperties DEF Readable, KeysOnce
  <1> SUFFICES ASSUME NEW n \in 0..Len(log), NEW u \in Units
               PROVE  LET copy == Prefix(log, n) \o u
                          both == log \o u
                          m == merge_offline(log, copy)
                      IN  IF m = Refused
                          THEN Skewed(both) \/ IdempotencyConflict(both)
                          ELSE /\ EventsIn(m) = EventsIn(both)
                               /\ Len(m) = Cardinality({KeyOf[e] : e \in EventsIn(m)})
                               /\ \A a \in DOMAIN replay(log) :
                                     VersionOf[replay(log)[a]] <= VersionOf[replay(m)[a]]
                               /\ merge_offline(m, copy) = m
    BY DEF OfflineMergeIsSafe
  <1> DEFINE then == Prefix(log, n)
             copy == then \o u
             both == log \o u
             lines == log \o copy
             m == merge_offline(log, copy)
             sorted == Arranged(lines, Firsts(lines), ByVersion(lines))
  <1>2. u \in Seq(Events)
    BY EventsAssumption
  <1>3. then \in Seq(Events) /\ EventsIn(then) \subseteq EventsIn(log)
    BY <1>1, PrefixIs DEF EventsIn, Positions
  <1> HIDE DEF then
  <1>4. copy \in Seq(Events) /\ EventsIn(copy) = EventsIn(then) \cup EventsIn(u)
    BY <1>2, <1>3, ConcatIs
  <1>5. both \in Seq(Events) /\ EventsIn(both) = EventsIn(log) \cup EventsIn(u)
    BY <1>1, <1>2, ConcatIs
  <1> HIDE DEF copy, both
  <1>6. lines \in Seq(Events) /\ EventsIn(lines) = EventsIn(log) \cup EventsIn(copy)
    BY <1>1, <1>4, ConcatIs
  <1>7. EventsIn(lines) = EventsIn(both)
    BY <1>3, <1>4, <1>5, <1>6
  <1>8. CASE Skewed(lines) \/ IdempotencyConflict(lines)
    <2>1. Skewed(both) \/ IdempotencyConflict(both)
      <3> HIDE DEF lines
      <3> QED
        BY <1>7, <1>8, ConflictIs DEF Skewed
    <2>2. m = Refused
      BY <1>8 DEF merge_offline
    <2> QED
      BY <2>1, <2>2 DEF both, copy, then
  <1>9. CASE ~Skewed(lines) /\ ~IdempotencyConflict(lines)
    <2>1. m = sorted
      BY <1>1, <1>4, <1>9, MergedIs
    <2> HIDE DEF lines
    <2>2. Merged(lines, m)
      BY <1>6, <1>9, <2>1, MergedFacts
    <2> HIDE DEF m, sorted
    <2>3. m \in Seq(Events) /\ EventsIn(m) = EventsIn(lines)
          /\ OneLineAKey(m, Positions(m)) /\ Sorted(m)
      BY <2>2 DEF Merged
    <2>4. m # Refused
      BY <2>3, RefusedAssumption, LineTypes DEF Refused, Positions
    <2>5. EventsIn(m) = EventsIn(both)
      BY <1>7, <2>3
    <2>6. Len(m) = Cardinality({KeyOf[e] : e \in EventsIn(m)})
      BY <2>3, KeysCounted
    <2>7. \A a \in DOMAIN replay(log) : VersionOf[replay(log)[a]] <= VersionOf[replay(m)[a]]
      BY <1>1, <1>6, <2>3, MergeKeepsVersions
    <2>8. ~Skewed(m) /\ OneEventAKey(EventsIn(m))
      BY <1>9, <2>3, ConflictIs DEF Skewed
    <2>9. merge_offline(m, copy) = m
      BY <1>4, <1>6, <2>3, <2>8, MergeAgain
    <2> QED
      BY <2>4, <2>5, <2>6, <2>7, <2>9 DEF m, both, copy, then
  <1> QED
    BY <1>8, <1>9

-----------------------------------------------------------------------------
(* The log is one of those *)

\* A commit adds valid events only.
LEMMA StepValid ==
    ASSUME log \in Seq(Events), EventsIn(log) \subseteq Valid,
           [Promise!Next]_<<log, told>>
    PROVE  EventsIn(log)' \subseteq Valid
  <1>1. CASE UNCHANGED log
    BY <1>1 DEF EventsIn
  <1>2. ASSUME NEW u \in Units, Promise!Commit(u) PROVE EventsIn(log)' \subseteq Valid
    <2>1. log' = log \o u /\ \A i \in 1..Len(u) : u[i] \in Valid
      BY <1>2 DEF Promise!Commit, Promise!Acceptable
    <2>2. u \in Seq(Events)
      BY EventsAssumption
    <2>3. EventsIn(u) \subseteq Valid
      BY <2>1 DEF EventsIn
    <2>4. EventsIn(log \o u) = EventsIn(log) \cup EventsIn(u)
      BY <2>2, ConcatIs
    <2>5. EventsIn(log)' = EventsIn(log \o u)
      BY <2>1 DEF EventsIn
    <2> QED
      BY <2>3, <2>4, <2>5
  <1> QED
    BY <1>1, <1>2 DEF Promise!Next, Promise!Ask, Promise!Answer

LEMMA AlwaysReadable == Spec => []Readable
<1> DEFINE ValidLog == EventsIn(log) \subseteq Valid
<1>1. Init => ValidLog
  BY DEF Init, EventsIn
<1>2. IInv /\ ValidLog /\ [Next]_vars => ValidLog'
  BY StepPromise, StepValid DEF IInv, TypeOK
<1>3. IInv /\ ValidLog => Readable
  BY DEF IInv, TypeOK, Readable
<1> HIDE DEF ValidLog
<1> QED
  BY <1>1, <1>2, <1>3, InvariantHolds, PTL DEF Spec

\* At whatever moment it is read, and whatever versions callers wrote in whatever order:
\* the log can be read, and a snapshot of any version with the feed since then, the current
\* snapshot and text_of tell the same (replay.rs, view.rs).
THEOREM ViewsAlwaysAgree == Spec => []ViewsAgree
BY AlwaysReadable, ReadableViews, PTL

\* A poller that has the rows of any earlier moment and asks for the feed since the largest
\* version it saw gets the current rows, if all that was committed since has larger ones.
THEOREM PollersMissNothing == Spec => []PollerMissesNothing
BY AlwaysReadable, ReadablePoller, PTL

\* A merge of any earlier copy of the log with a unit recorded offline is refused for skew
\* or for a key with two events, or loses nothing, replays, and can be sent again (sync.rs).
THEOREM OfflineMergesAreSafe == Spec => []OfflineMergeIsSafe
BY AlwaysReadable, ReadableMerge, PTL
=============================================================================
