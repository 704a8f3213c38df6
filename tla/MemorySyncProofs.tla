-------------------------- MODULE MemorySyncProofs --------------------------
(***************************************************************************)
(* Proofs about MemorySync, for any number of hosts: with any number of    *)
(* processes on a host documents are well typed and keep the newest of     *)
(* what they reflected at; as long as each host has one writer, the memory *)
(* file is never torn and no write is lost.                                *)
(***************************************************************************)
EXTENDS MemorySync, FiniteSetTheorems, WellFoundedInduction, TLAPS

\* The documents programs have: finite trajectories, of moments that have been.
Docs == {d \in CrdtDocument : /\ IsFiniteSet(d.traj) /\ d.history \subseteq Moments
                              /\ \A e \in d.traj : e.at \in Moments}

Packs == {from_memory(d) : d \in Docs}

\* No two processes write the memory of one host.
OneWriter == \A p, q \in Procs : Home[p] = Home[q] => p = q

-----------------------------------------------------------------------------
(* What the operators on documents keep *)

LEMMA DocFields ==
    ASSUME NEW d \in Docs
    PROVE  /\ d.traj \in SUBSET Entry /\ IsFiniteSet(d.traj)
           /\ d.count \in Nat
           /\ d.skill \in Skill /\ d.skill.version \in Nat
           /\ d.history \in SUBSET Nat /\ d.history \subseteq Moments
           /\ \A e \in d.traj : e.at \in Moments
  BY DEF Docs, CrdtDocument, Skill

LEMMA NewIsDoc == NewDocument \in Docs
  BY FS_EmptySet DEF Docs, NewDocument, CrdtDocument, Skill

LEMMA RemembersItself == \A d \in Docs : Remembers(d, d)
  BY DocFields DEF Remembers

LEMMA RemembersOn ==
    ASSUME NEW c \in Docs, NEW d \in Docs, NEW e \in Docs,
           Remembers(e, d), Remembers(d, c)
    PROVE  Remembers(e, c)
  BY DocFields DEF Remembers

\* A merge is a document and remembers both sides.
LEMMA MergeKeeps ==
    ASSUME NEW c \in Docs, NEW d \in Docs
    PROVE  /\ merge(c, d) \in Docs
           /\ Remembers(merge(c, d), c)
           /\ Remembers(merge(c, d), d)
  <1> DEFINE m == merge(c, d)
  <1>1. /\ m.traj = c.traj \cup d.traj
        /\ m.count = Later(c.count, d.count)
        /\ m.skill = IF c.skill.version >= d.skill.version THEN c.skill ELSE d.skill
        /\ m.history = Newest(c.history \cup d.history)
    BY DEF merge
  <1>2. IsFiniteSet(m.traj)
    BY <1>1, DocFields, FS_Union
  <1>3. m \in CrdtDocument
    <2>1. m.history \in SUBSET Nat
      BY <1>1, DocFields DEF Newest
    <2>2. m.count \in Nat
      BY <1>1, DocFields DEF Later
    <2>3. m.skill \in Skill
      BY <1>1, DocFields
    <2>4. m.traj \in SUBSET Entry
      BY <1>1, DocFields
    <2> QED
      BY <2>1, <2>2, <2>3, <2>4 DEF CrdtDocument, merge
  <1>4. Remembers(m, c) /\ Remembers(m, d)
    <2>1. c.count <= m.count /\ d.count <= m.count
      BY <1>1, DocFields DEF Later
    <2>2. c.skill.version <= m.skill.version /\ d.skill.version <= m.skill.version
      BY <1>1, DocFields
    <2> QED
      BY <1>1, <2>1, <2>2 DEF Remembers
  <1>5. m.history \subseteq Moments /\ \A e \in m.traj : e.at \in Moments
    BY <1>1, DocFields DEF Newest
  <1> QED
    BY <1>2, <1>3, <1>4, <1>5 DEF Docs

LEMMA AppendKeeps ==
    ASSUME NEW d \in Docs, NEW at \in Moments, NEW kind \in TrajectoryType
    PROVE  append_trajectory(d, at, kind) \in Docs /\ Remembers(append_trajectory(d, at, kind), d)
  <1> DEFINE a == append_trajectory(d, at, kind)
             traj == d.traj \cup {[at |-> at, kind |-> kind]}
  <1>1. a = [traj |-> traj, count |-> d.count, skill |-> d.skill, history |-> d.history]
    BY DEF append_trajectory, Docs, CrdtDocument
  <1>2. /\ traj \in SUBSET Entry /\ d.traj \subseteq traj
        /\ \A e \in traj : e.at \in Moments
    BY DocFields, SyncAssumption DEF Entry, Moments
  <1>3. IsFiniteSet(traj)
    <2>1. IsFiniteSet(d.traj)
      BY DocFields
    <2> QED
      BY <2>1, FS_AddElement
  <1> HIDE DEF a, traj
  <1>4. a \in CrdtDocument
    BY <1>1, <1>2, DocFields DEF CrdtDocument
  <1>5. a \in Docs
    BY <1>1, <1>2, <1>3, <1>4, DocFields DEF Docs
  <1>6. Remembers(a, d)
    BY <1>1, <1>2, DocFields DEF Remembers
  <1> QED
    BY <1>5, <1>6 DEF a

LEMMA WindowsNat == ASSUME NEW d \in Docs PROVE Windows(d) \in Nat
  <1>1. IsFiniteSet(Actions(d))
    BY DocFields, FS_Subset DEF Actions
  <1>2. Cardinality(Actions(d)) \in Nat
    BY <1>1, FS_CardinalityType
  <1> QED
    BY <1>2, DocAssumption DEF Windows, Later

\* Patterns are counted on, and a skill gives way to a larger version only.
LEMMA DetectKeeps ==
    ASSUME NEW d \in Docs, NEW t \in Moments
    PROVE  detect_and_synthesize(d, t) \in Docs /\ Remembers(detect_and_synthesize(d, t), d)
  <1> DEFINE s == detect_and_synthesize(d, t)
             count == d.count + Windows(d)
             fresh == Windows(d) > 0 /\ count >= Threshold /\ d.skill.version < count
             skill == IF fresh THEN [version |-> count, at |-> t] ELSE d.skill
  <1>1. s = [traj |-> d.traj, count |-> count, skill |-> skill, history |-> d.history]
    BY DEF detect_and_synthesize
  <1>2. count \in Nat /\ d.count <= count
    BY WindowsNat, DocFields
  <1> HIDE DEF s, count
  <1>3. skill \in Skill /\ d.skill.version <= skill.version
    <2>1. CASE fresh
      BY <2>1, <1>2, DocFields, SyncAssumption DEF Skill, Moments
    <2>2. CASE ~fresh
      BY <2>2, DocFields
    <2> QED
      BY <2>1, <2>2
  <1> HIDE DEF fresh, skill
  <1>4. s \in CrdtDocument
    BY <1>1, <1>2, <1>3, DocFields DEF CrdtDocument
  <1>5. s \in Docs
    BY <1>1, <1>4, DocFields DEF Docs
  <1>6. Remembers(s, d)
    BY <1>1, <1>2, <1>3, DocFields DEF Remembers
  <1> QED
    BY <1>5, <1>6 DEF s

LEMMA ReflectKeeps ==
    ASSUME NEW d \in Docs, NEW t \in Moments
    PROVE  reflect(d, t) \in Docs /\ Remembers(reflect(d, t), d)
  <1> DEFINE history == Newest(d.history \cup {t})
             h == [d EXCEPT !.history = Newest(@ \cup {t})]
             s == detect_and_synthesize(h, t)
             r == append_trajectory(s, t, "reflection")
  <1>1. h = [traj |-> d.traj, count |-> d.count, skill |-> d.skill, history |-> history]
    BY DEF Docs, CrdtDocument
  <1>2. history \in SUBSET Nat /\ history \subseteq Moments
    BY DocFields, SyncAssumption DEF Newest, Moments
  <1>3. reflect(d, t) = r
    BY DEF reflect
  <1> HIDE DEF history, h
  <1>4. h \in Docs /\ Remembers(h, d)
    <2>1. h \in CrdtDocument
      BY <1>1, <1>2, DocFields DEF CrdtDocument
    <2>2. h \in Docs
      BY <1>1, <1>2, <2>1, DocFields DEF Docs
    <2>3. Remembers(h, d)
      BY <1>1, DocFields DEF Remembers
    <2> QED
      BY <2>2, <2>3
  <1>5. s \in Docs /\ Remembers(s, h)
    BY <1>4, DetectKeeps
  <1> HIDE DEF s
  <1>6. r \in Docs /\ Remembers(r, s)
    BY <1>5, AppendKeeps DEF TrajectoryType
  <1> HIDE DEF r
  <1>7. Remembers(r, h)
    BY <1>4, <1>5, <1>6, RemembersOn
  <1> QED
    BY <1>3, <1>4, <1>6, <1>7, RemembersOn

LEMMA OnlyEntries ==
    ASSUME NEW S
    PROVE  [NewDocument EXCEPT !.traj = S] =
             [traj |-> S, count |-> 0, skill |-> [version |-> 0, at |-> 0], history |-> {}]
  BY DEF NewDocument

\* The traces of a document are entries of it, and carry nothing else.
LEMMA TracesAdd ==
    ASSUME NEW c \in Docs, NEW d \in Docs
    PROVE  LET i == merge_traces_into(c, traces_from_document(d)) IN
             /\ i \in Docs /\ Remembers(i, c)
             /\ i.traj \subseteq c.traj \cup d.traj /\ c.traj \subseteq i.traj
             /\ i.count = c.count /\ i.skill = c.skill
             /\ i.history = Newest(c.history \cup {})
  <1> DEFINE traces == traces_from_document(d)
             Newer(t, u) == entry_from_trace(u).at <= entry_from_trace(t).at
             latest == {t \in traces : \A u \in traces : u.nat_key = t.nat_key => Newer(t, u)}
             entries == {entry_from_trace(t) : t \in latest}
             e == [NewDocument EXCEPT !.traj = entries]
  <1>1. \A t \in traces : entry_from_trace(t) \in d.traj
    <2> SUFFICES ASSUME NEW x \in d.traj
                 PROVE  entry_from_trace([nat_key |-> x.at, ts |-> x.at, admitted |-> x.at,
                                          kind |-> x.kind]) = x
      BY DEF traces_from_document
    <2>1. x \in Entry
      BY DocFields
    <2>2. x.at \in Nat /\ x = [at |-> x.at, kind |-> x.kind]
      BY <2>1 DEF Entry
    <2> QED
      BY <2>2 DEF entry_from_trace, Later
  <1>2. entries \subseteq d.traj
    BY <1>1
  <1>3. merge_traces_into(c, traces) = merge(c, e)
    BY DEF merge_traces_into
  <1>4. e = [traj |-> entries, count |-> 0, skill |-> [version |-> 0, at |-> 0], history |-> {}]
    <2> HIDE DEF entries
    <2> QED
      BY OnlyEntries
  <1> HIDE DEF traces, entries, e
  <1>5. /\ IsFiniteSet(entries) /\ entries \in SUBSET Entry
        /\ \A x \in entries : x.at \in Moments
    BY <1>2, DocFields, FS_Subset
  <1>6. e \in CrdtDocument
    BY <1>4, <1>5 DEF CrdtDocument, Skill
  <1>7. e \in Docs
    BY <1>4, <1>5, <1>6 DEF Docs
  <1>8. LET i == merge(c, e) IN
          /\ i.traj = c.traj \cup entries /\ i.count = c.count /\ i.skill = c.skill
          /\ i.history = Newest(c.history \cup {})
    BY <1>4, DocFields DEF merge, Later
  <1>9. merge(c, e) \in Docs /\ Remembers(merge(c, e), c)
    BY <1>7, MergeKeeps
  <1> QED
    BY <1>2, <1>3, <1>8, <1>9 DEF traces

LEMMA ImportKeeps ==
    ASSUME NEW c \in Docs, NEW f \in Packs
    PROVE  ImportedDoc(c, f) \in Docs /\ Remembers(ImportedDoc(c, f), c)
  <1>1. PICK d \in Docs : f = from_memory(d)
    BY DEF Packs
  <1>2. f.memory_crdt = d /\ f.memory_traces = traces_from_document(d)
    BY <1>1 DEF from_memory
  <1> DEFINE m == merge(c, d)
             i == merge_traces_into(m, traces_from_document(d))
  <1>3. ImportedDoc(c, f) = i
    BY <1>2 DEF ImportedDoc
  <1>4. m \in Docs /\ Remembers(m, c)
    BY MergeKeeps
  <1> HIDE DEF m
  <1>5. i \in Docs /\ Remembers(i, m)
    BY <1>4, TracesAdd
  <1> HIDE DEF i
  <1> QED
    BY <1>3, <1>4, <1>5, RemembersOn

-----------------------------------------------------------------------------
(* The inductive invariant *)

Labels == {"idle", "record", "sync", "open_tmp", "write_tmp", "rename", "open_pack", "write_pack"}

Types ==
    /\ file \in [Hosts -> Docs \cup {Missing}]
    /\ tmp \in [Hosts -> Docs \cup {Missing, Torn}]
    /\ pack \in [Hosts -> Packs \cup {Missing, Torn}]
    /\ mem \in [Procs -> Docs]
    /\ pc \in [Procs -> Labels]
    /\ fd \in [Procs -> {"tmp", "file", "gone"}]
    /\ now \in Moments

\* A process that will replace its host's memory file remembers all that is in it.
Ahead(p) ==
    pc[p] \in {"record", "sync", "open_tmp", "write_tmp", "rename"} =>
        Remembers(mem[p], OrNew(file[Home[p]]))

\* The temporary file is its own, and before the rename it holds its document.
Writing(p) ==
    /\ pc[p] = "write_tmp" => fd[p] = "tmp" /\ tmp[Home[p]] = Torn
    /\ pc[p] = "rename" => tmp[Home[p]] = mem[p]

IInv ==
    /\ Types
    /\ \A p \in Procs : Ahead(p) /\ Writing(p)

LEMMA NotADoc == Torn # Missing /\ Torn \notin Docs /\ Missing \notin Docs
  BY FilesAssumption DEF Docs

LEMMA OrNewIsDoc == ASSUME NEW f \in Docs \cup {Missing} PROVE OrNew(f) \in Docs
  BY NewIsDoc DEF OrNew

LEMMA RemembersNew == ASSUME NEW d \in Docs PROVE Remembers(d, NewDocument)
  BY DocFields DEF Remembers, NewDocument

LEMMA HomeIsHost == \A p \in Procs : Home[p] \in Hosts
  BY SyncAssumption

LEMMA InitIInv == Init => IInv
  BY NewIsDoc, SyncAssumption DEF Init, IInv, Types, Labels, Ahead, Writing, Moments

\* What p does to its own host and its own state leaves the others as they were.
Alone(p) ==
    /\ \A q \in Procs \ {p} : pc'[q] = pc[q] /\ mem'[q] = mem[q] /\ fd'[q] = fd[q]
    /\ \A h \in Hosts \ {Home[p]} : file'[h] = file[h] /\ tmp'[h] = tmp[h]

LEMMA OthersStay ==
    ASSUME OneWriter, NEW p \in Procs, Alone(p),
           \A q \in Procs : Ahead(q) /\ Writing(q),
           Ahead(p)', Writing(p)'
    PROVE  \A q \in Procs : Ahead(q)' /\ Writing(q)'
  <1> SUFFICES ASSUME NEW q \in Procs, q # p PROVE Ahead(q)' /\ Writing(q)'
    OBVIOUS
  <1>1. Home[q] \in Hosts \ {Home[p]}
    BY HomeIsHost DEF OneWriter
  <1> QED
    BY <1>1 DEF Alone, Ahead, Writing

\* The steps that leave all memory files alone.
LEMMA FilesStay ==
    ASSUME OneWriter, IInv, NEW p \in Procs, Types', Ahead(p)', Writing(p)', Alone(p),
           file' = file
    PROVE  IInv'
  <1>1. \A q \in Procs : Ahead(q)' /\ Writing(q)'
    BY OthersStay DEF IInv
  <1> QED
    BY <1>1 DEF IInv

\* A step that changes only what p holds and where it is.
LEMMA OnlyHolds ==
    ASSUME OneWriter, IInv, NEW p \in Procs, NEW d \in Docs, NEW label \in Labels,
           label \in {"record", "sync", "open_tmp"} => Remembers(d, OrNew(file[Home[p]])),
           label \notin {"write_tmp", "rename"},
           mem' = [mem EXCEPT ![p] = d], pc' = [pc EXCEPT ![p] = label],
           fd' = [fd EXCEPT ![p] = fd'[p]], fd'[p] \in {"tmp", "file", "gone"},
           UNCHANGED <<file, tmp>>, pack' \in [Hosts -> Packs \cup {Missing, Torn}],
           now' \in Moments
    PROVE  IInv'
  <1>1. Types'
    BY DEF IInv, Types
  <1>2. pc'[p] = label /\ mem'[p] = d
    BY DEF IInv, Types
  <1>3. Ahead(p)' /\ Writing(p)'
    BY <1>2 DEF Ahead, Writing
  <1>4. Alone(p)
    BY DEF Alone, IInv, Types
  <1> QED
    BY <1>1, <1>3, <1>4, FilesStay
-----------------------------------------------------------------------------
(* Every step keeps it *)

LEMMA HeldIsDoc ==
    ASSUME IInv, NEW p \in Procs
    PROVE  mem[p] \in Docs /\ OrNew(file[Home[p]]) \in Docs
  BY HomeIsHost, OrNewIsDoc DEF IInv, Types

LEMMA OpenKeeps == ASSUME OneWriter, IInv, NEW p \in Procs, Open(p) PROVE IInv'
  <1> DEFINE d == OrNew(file[Home[p]])
  <1>1. d \in Docs /\ Remembers(d, d)
    BY HeldIsDoc, RemembersItself
  <1>2. /\ mem' = [mem EXCEPT ![p] = d] /\ pc' = [pc EXCEPT ![p] = "record"]
        /\ fd' = fd /\ UNCHANGED <<file, tmp, pack, now>>
    BY DEF Open, At, Hold, Goto, files
  <1> HIDE DEF d
  <1>3. /\ fd' = [fd EXCEPT ![p] = fd'[p]] /\ fd'[p] \in {"tmp", "file", "gone"}
        /\ pack' \in [Hosts -> Packs \cup {Missing, Torn}] /\ now' \in Moments
    BY <1>2 DEF IInv, Types
  <1>4. Remembers(d, OrNew(file[Home[p]]))
    BY <1>1 DEF d
  <1> QED
    BY <1>1, <1>2, <1>3, <1>4, OnlyHolds DEF Labels

LEMMA RecordKeeps == ASSUME OneWriter, IInv, NEW p \in Procs, Record(p) PROVE IInv'
  <1>1. PICK kind \in Leaves[p] \ {"reflection"} :
          mem' = [mem EXCEPT ![p] = append_trajectory(mem[p], now', kind)]
    BY DEF Record, Hold
  <1>2. kind \in TrajectoryType
    BY SyncAssumption
  <1>3. pc[p] = "record" /\ now < MaxTime /\ now' = now + 1 /\ UNCHANGED <<file, tmp, pack, pc, fd>>
    BY DEF Record, At, files
  <1>4. now' \in Moments
    BY <1>3, SyncAssumption DEF IInv, Types, Moments
  <1> DEFINE d == append_trajectory(mem[p], now', kind)
  <1>5. d \in Docs /\ Remembers(d, mem[p])
    BY <1>2, <1>4, HeldIsDoc, AppendKeeps
  <1>6. mem' = [mem EXCEPT ![p] = d]
    BY <1>1
  <1> HIDE DEF d
  <1>7. Remembers(d, OrNew(file[Home[p]]))
    BY <1>3, <1>5, HeldIsDoc, RemembersOn DEF IInv, Ahead
  <1>8. /\ fd' = [fd EXCEPT ![p] = fd'[p]] /\ fd'[p] \in {"tmp", "file", "gone"}
        /\ pack' \in [Hosts -> Packs \cup {Missing, Torn}]
        /\ pc' = [pc EXCEPT ![p] = "record"]
    BY <1>3 DEF IInv, Types
  <1> QED
    BY <1>3, <1>4, <1>5, <1>6, <1>7, <1>8, OnlyHolds DEF Labels

LEMMA ReflectStepKeeps == ASSUME OneWriter, IInv, NEW p \in Procs, Reflect(p) PROVE IInv'
  <1> DEFINE d == reflect(mem[p], now')
  <1>1. /\ mem' = [mem EXCEPT ![p] = d] /\ pc[p] = "record" /\ now < MaxTime /\ now' = now + 1
        /\ pc' = [pc EXCEPT ![p] = "sync"] /\ UNCHANGED <<file, tmp, pack, fd>>
    BY DEF Reflect, Hold, Goto, At, files
  <1>2. now' \in Moments
    BY <1>1, SyncAssumption DEF IInv, Types, Moments
  <1>3. d \in Docs /\ Remembers(d, mem[p])
    BY <1>2, HeldIsDoc, ReflectKeeps
  <1> HIDE DEF d
  <1>4. Remembers(d, OrNew(file[Home[p]]))
    BY <1>1, <1>3, HeldIsDoc, RemembersOn DEF IInv, Ahead
  <1>5. /\ fd' = [fd EXCEPT ![p] = fd'[p]] /\ fd'[p] \in {"tmp", "file", "gone"}
        /\ pack' \in [Hosts -> Packs \cup {Missing, Torn}]
    BY <1>1 DEF IInv, Types
  <1> QED
    BY <1>1, <1>2, <1>3, <1>4, <1>5, OnlyHolds DEF Labels

LEMMA SaveKeeps == ASSUME OneWriter, IInv, NEW p \in Procs, Save(p) PROVE IInv'
  <1>1. /\ pc[p] = "record" /\ pc' = [pc EXCEPT ![p] = "sync"]
        /\ UNCHANGED <<file, tmp, pack, mem, fd, now>>
    BY DEF Save, Goto, At, files
  <1>2. /\ fd' = [fd EXCEPT ![p] = fd'[p]] /\ fd'[p] \in {"tmp", "file", "gone"}
        /\ pack' \in [Hosts -> Packs \cup {Missing, Torn}] /\ now' \in Moments
        /\ mem' = [mem EXCEPT ![p] = mem[p]] /\ mem[p] \in Docs
    BY <1>1 DEF IInv, Types
  <1>3. Remembers(mem[p], OrNew(file[Home[p]]))
    BY <1>1 DEF IInv, Ahead
  <1> QED
    BY <1>1, <1>2, <1>3, OnlyHolds DEF Labels

LEMMA EndKeeps ==
    ASSUME OneWriter, IInv, NEW p \in Procs, End(p), UNCHANGED <<file, tmp>>,
           pack' \in [Hosts -> Packs \cup {Missing, Torn}], now' \in Moments
    PROVE  IInv'
  <1>1. /\ pc' = [pc EXCEPT ![p] = "idle"] /\ mem' = [mem EXCEPT ![p] = NewDocument]
        /\ fd' = [fd EXCEPT ![p] = "gone"]
    BY DEF End, Goto, Hold
  <1>2. fd'[p] = "gone" /\ fd' = [fd EXCEPT ![p] = fd'[p]]
    BY <1>1 DEF IInv, Types
  <1> HIDE DEF NewDocument
  <1> QED
    BY <1>1, <1>2, NewIsDoc, OnlyHolds DEF Labels

LEMMA SyncKeeps == ASSUME OneWriter, IInv, NEW p \in Procs, Sync(p) PROVE IInv'
  <1> DEFINE onDisk == file[Home[p]]
             d == merge(mem[p], OrNew(onDisk))
  <1>1. pc[p] = "sync" /\ UNCHANGED <<file, tmp, pack, now>>
    BY DEF Sync, At, files
  <1>2. pack' \in [Hosts -> Packs \cup {Missing, Torn}] /\ now' \in Moments
    BY <1>1 DEF IInv, Types
  <1>3. CASE End(p)
    BY <1>1, <1>2, <1>3, EndKeeps
  <1>4. CASE Hold(p, d) /\ Goto(p, "open_tmp") /\ UNCHANGED fd
    <2>1. d \in Docs /\ Remembers(d, OrNew(onDisk))
      BY HeldIsDoc, MergeKeeps
    <2>2. mem' = [mem EXCEPT ![p] = d] /\ pc' = [pc EXCEPT ![p] = "open_tmp"] /\ fd' = fd
      BY <1>4 DEF Hold, Goto
    <2> HIDE DEF d
    <2>3. fd' = [fd EXCEPT ![p] = fd'[p]] /\ fd'[p] \in {"tmp", "file", "gone"}
      BY <2>2 DEF IInv, Types
    <2> QED
      BY <1>1, <1>2, <2>1, <2>2, <2>3, OnlyHolds DEF Labels
  <1> QED
    BY <1>3, <1>4 DEF Sync

LEMMA OpenTmpKeeps == ASSUME OneWriter, IInv, NEW p \in Procs, OpenTmp(p) PROVE IInv'
  <1> DEFINE h == Home[p]
  <1>1. /\ pc[p] = "open_tmp" /\ tmp' = [tmp EXCEPT ![h] = Torn]
        /\ fd' = [fd EXCEPT ![p] = "tmp"] /\ pc' = [pc EXCEPT ![p] = "write_tmp"]
        /\ UNCHANGED <<file, pack, mem, now>>
    BY DEF OpenTmp, At, Goto
  <1>2. h \in Hosts
    BY HomeIsHost
  <1>3. Types'
    BY <1>1 DEF IInv, Types, Labels
  <1>4. pc'[p] = "write_tmp" /\ fd'[p] = "tmp" /\ tmp'[h] = Torn
    BY <1>1, <1>2 DEF IInv, Types
  <1>5. Ahead(p)' /\ Writing(p)'
    BY <1>1, <1>4 DEF IInv, Ahead, Writing
  <1>6. Alone(p)
    BY <1>1 DEF Alone, IInv, Types
  <1> QED
    BY <1>1, <1>3, <1>5, <1>6, FilesStay

LEMMA WriteTmpKeeps == ASSUME OneWriter, IInv, NEW p \in Procs, WriteTmp(p) PROVE IInv'
  <1> DEFINE h == Home[p]
  <1>1. /\ pc[p] = "write_tmp" /\ pc' = [pc EXCEPT ![p] = "rename"]
        /\ UNCHANGED <<pack, mem, fd, now>>
    BY DEF WriteTmp, At, Goto
  <1>2. h \in Hosts /\ fd[p] = "tmp" /\ tmp[h] = Torn
    BY <1>1, HomeIsHost DEF IInv, Writing
  <1>3. tmp' = [tmp EXCEPT ![h] = mem[p]] /\ file' = file
    BY <1>2 DEF WriteTmp, Written
  <1>4. Types'
    BY <1>1, <1>3, HeldIsDoc DEF IInv, Types, Labels
  <1>5. pc'[p] = "rename" /\ tmp'[h] = mem[p]
    BY <1>1, <1>2, <1>3 DEF IInv, Types
  <1>6. Ahead(p)' /\ Writing(p)'
    BY <1>1, <1>3, <1>5 DEF IInv, Ahead, Writing
  <1>7. Alone(p)
    BY <1>1, <1>3 DEF Alone, IInv, Types
  <1> QED
    BY <1>1, <1>3, <1>4, <1>6, <1>7, FilesStay

\* What the rename of p puts in place, and what it takes away from nobody.
LEMMA RenameSees ==
    ASSUME OneWriter, IInv, NEW p \in Procs, Rename(p)
    PROVE  /\ Home[p] \in Hosts /\ tmp[Home[p]] = mem[p] /\ mem[p] \in Docs
           /\ file' = [file EXCEPT ![Home[p]] = mem[p]]
           /\ tmp' = [tmp EXCEPT ![Home[p]] = Missing]
           /\ fd' = [q \in Procs |-> Renamed(p, q)]
           /\ mem' = [mem EXCEPT ![p] = NewDocument] /\ pc' = [pc EXCEPT ![p] = "idle"]
           /\ UNCHANGED <<pack, now>>
           /\ Remembers(mem[p], OrNew(file[Home[p]]))
  <1>1. pc[p] = "rename"
    BY DEF Rename, At
  <1>2. Home[p] \in Hosts /\ tmp[Home[p]] = mem[p] /\ mem[p] \in Docs
    BY <1>1, HomeIsHost, HeldIsDoc DEF IInv, Writing
  <1>3. tmp[Home[p]] # Missing
    BY <1>2, NotADoc
  <1>4. Remembers(mem[p], OrNew(file[Home[p]]))
    BY <1>1 DEF IInv, Ahead
  <1> QED
    BY <1>2, <1>3, <1>4 DEF Rename, At, Goto, Hold

LEMMA RenameKeeps == ASSUME OneWriter, IInv, NEW p \in Procs, Rename(p) PROVE IInv'
  <1> DEFINE h == Home[p]
  <1> USE RenameSees
  <1>1. \A q \in Procs \ {p} : Renamed(p, q) = fd[q]
    BY DEF OneWriter, Renamed
  <1>2. Renamed(p, p) = "gone"
    BY DEF Renamed
  <1>3. fd' \in [Procs -> {"tmp", "file", "gone"}]
    BY <1>1, <1>2 DEF IInv, Types
  <1> HIDE DEF NewDocument
  <1>4. Types'
    BY <1>3, NewIsDoc DEF IInv, Types, Labels
  <1>5. pc'[p] = "idle"
    BY DEF IInv, Types
  <1>6. Ahead(p)' /\ Writing(p)'
    BY <1>5 DEF Ahead, Writing
  <1>7. Alone(p)
    BY <1>1 DEF Alone, IInv, Types
  <1>8. \A q \in Procs : Ahead(q)' /\ Writing(q)'
    BY <1>6, <1>7, OthersStay DEF IInv
  <1> QED
    BY <1>4, <1>8 DEF IInv

LEMMA ExportKeeps == ASSUME OneWriter, IInv, NEW p \in Procs, Export(p) PROVE IInv'
  <1> DEFINE d == OrNew(file[Home[p]])
  <1>1. /\ mem' = [mem EXCEPT ![p] = d] /\ pc' = [pc EXCEPT ![p] = "open_pack"]
        /\ UNCHANGED <<file, tmp, pack, fd, now>>
    BY DEF Export, At, Hold, Goto, files
  <1>2. d \in Docs
    BY HeldIsDoc
  <1> HIDE DEF d
  <1>3. /\ fd' = [fd EXCEPT ![p] = fd'[p]] /\ fd'[p] \in {"tmp", "file", "gone"}
        /\ pack' \in [Hosts -> Packs \cup {Missing, Torn}] /\ now' \in Moments
    BY <1>1 DEF IInv, Types
  <1> QED
    BY <1>1, <1>2, <1>3, OnlyHolds DEF Labels

LEMMA OpenPackKeeps == ASSUME OneWriter, IInv, NEW p \in Procs, OpenPack(p) PROVE IInv'
  <1>1. /\ pack' = [pack EXCEPT ![Home[p]] = Torn] /\ pc' = [pc EXCEPT ![p] = "write_pack"]
        /\ UNCHANGED <<file, tmp, mem, fd, now>>
    BY DEF OpenPack, At, Goto
  <1>2. /\ fd' = [fd EXCEPT ![p] = fd'[p]] /\ fd'[p] \in {"tmp", "file", "gone"}
        /\ pack' \in [Hosts -> Packs \cup {Missing, Torn}] /\ now' \in Moments
        /\ mem' = [mem EXCEPT ![p] = mem[p]] /\ mem[p] \in Docs
    BY <1>1 DEF IInv, Types
  <1> QED
    BY <1>1, <1>2, OnlyHolds DEF Labels

LEMMA WritePackKeeps == ASSUME OneWriter, IInv, NEW p \in Procs, WritePack(p) PROVE IInv'
  <1>1. /\ pack' = [pack EXCEPT ![Home[p]] = from_memory(mem[p])] /\ End(p)
        /\ UNCHANGED <<file, tmp, now>>
    BY DEF WritePack, At
  <1>2. from_memory(mem[p]) \in Packs
    BY HeldIsDoc DEF Packs
  <1>3. pack' \in [Hosts -> Packs \cup {Missing, Torn}] /\ now' \in Moments
    BY <1>1, <1>2 DEF IInv, Types
  <1> QED
    BY <1>1, <1>3, EndKeeps

LEMMA ImportStepKeeps ==
    ASSUME OneWriter, IInv, NEW p \in Procs, NEW from \in Hosts, Import(p, from) PROVE IInv'
  <1> DEFINE own == OrNew(file[Home[p]])
             d == ImportedDoc(own, pack[from])
  <1>1. /\ mem' = [mem EXCEPT ![p] = d] /\ pc' = [pc EXCEPT ![p] = "open_tmp"]
        /\ pack[from] \notin {Missing, Torn} /\ UNCHANGED <<file, tmp, pack, fd, now>>
    BY DEF Import, At, Hold, Goto, files, Legible
  <1>2. pack[from] \in Packs
    BY <1>1 DEF IInv, Types
  <1>3. d \in Docs /\ Remembers(d, own)
    BY <1>2, HeldIsDoc, ImportKeeps
  <1> HIDE DEF d
  <1>4. /\ fd' = [fd EXCEPT ![p] = fd'[p]] /\ fd'[p] \in {"tmp", "file", "gone"}
        /\ pack' \in [Hosts -> Packs \cup {Missing, Torn}] /\ now' \in Moments
    BY <1>1 DEF IInv, Types
  <1> QED
    BY <1>1, <1>3, <1>4, OnlyHolds DEF Labels

LEMMA DieKeeps == ASSUME OneWriter, IInv, NEW p \in Procs, Die(p) PROVE IInv'
  <1>1. End(p) /\ UNCHANGED <<file, tmp, pack, now>>
    BY DEF Die, files
  <1>2. pack' \in [Hosts -> Packs \cup {Missing, Torn}] /\ now' \in Moments
    BY <1>1 DEF IInv, Types
  <1> QED
    BY <1>1, <1>2, EndKeeps

LEMMA NextKeeps == ASSUME OneWriter, IInv, [Next]_vars PROVE IInv'
  <1>1. CASE UNCHANGED vars
    BY <1>1 DEF vars, files, IInv, Types, Ahead, Writing
  <1>2. CASE Next
    <2>1. ASSUME NEW p \in Procs, Step(p) PROVE IInv'
      BY <2>1, RecordKeeps, ReflectStepKeeps, SaveKeeps, SyncKeeps, OpenTmpKeeps,
         WriteTmpKeeps, RenameKeeps, OpenPackKeeps, WritePackKeeps DEF Step
    <2>2. ASSUME NEW p \in Procs, NEW from \in Hosts, Import(p, from) PROVE IInv'
      BY <2>2, ImportStepKeeps
    <2> QED
      BY <1>2, <2>1, <2>2, OpenKeeps, ExportKeeps, DieKeeps DEF Next
  <1> QED
    BY <1>1, <1>2

LEMMA AlwaysIInv == ASSUME OneWriter PROVE Spec => []IInv
  BY InitIInv, NextKeeps, PTL DEF Spec

-----------------------------------------------------------------------------
(* Histories: what Newest keeps.  Nothing here needs that hosts have one writer. *)

LEMMA LeastNat ==
    ASSUME NEW S, S \subseteq Nat, S # {}
    PROVE  \E m \in S : \A x \in S : m <= x
  <1>1. PICK m \in S : \A y \in S : ~(<<y, m>> \in OpToRel(<, Nat))
    BY NatLessThanWellFounded, WFMin
  <1>2. \A y \in S : ~(y < m)
    BY <1>1 DEF OpToRel
  <1> QED
    BY <1>2

LEMMA MomentsNat == Moments \subseteq Nat /\ IsFiniteSet(Moments) /\ MaxTime \in Nat
  BY SyncAssumption, FS_Interval DEF Moments

LEMMA LatestMoment ==
    ASSUME NEW S, S \subseteq Moments, S # {}
    PROVE  \E m \in S : \A x \in S : x <= m
  <1> DEFINE R == {MaxTime - x : x \in S}
  <1>1. R \subseteq Nat /\ R # {}
    BY MomentsNat DEF Moments
  <1>2. PICK r \in R : \A y \in R : r <= y
    <2> HIDE DEF R
    <2> QED
      BY <1>1, LeastNat
  <1>3. PICK m \in S : r = MaxTime - m
    OBVIOUS
  <1>4. \A x \in S : MaxTime - m <= MaxTime - x /\ x \in Nat /\ m \in Nat
    BY <1>2, <1>3, MomentsNat
  <1> QED
    BY <1>4, MomentsNat

\* How many of S are later than x.
Above(S, x) == {y \in S : x < y}

LEMMA NewestIs == \A S : Newest(S) = {x \in S : Cardinality(Above(S, x)) < HistoryMax}
  BY DEF Newest, Above

LEMMA FiniteMoments ==
    ASSUME NEW S, S \subseteq Moments
    PROVE  /\ IsFiniteSet(S) /\ Cardinality(S) \in Nat
           /\ \A T \in SUBSET S : Cardinality(T) \in Nat /\ Cardinality(T) <= Cardinality(S)
  <1>1. IsFiniteSet(S)
    BY MomentsNat, FS_Subset
  <1>2. Cardinality(S) \in Nat
    BY <1>1, FS_CardinalityType
  <1>3. ASSUME NEW T \in SUBSET S
        PROVE  Cardinality(T) \in Nat /\ Cardinality(T) <= Cardinality(S)
    BY <1>1, FS_Subset, FS_CardinalityType
  <1> QED
    BY <1>1, <1>2, <1>3

\* What is later than something kept is kept.
LEMMA NewestUpwards ==
    ASSUME NEW S, S \subseteq Moments, NEW x \in Newest(S), NEW y \in S, x < y
    PROVE  y \in Newest(S)
  <1>1. x \in S /\ Cardinality(Above(S, x)) < HistoryMax
    BY NewestIs
  <1>2. Above(S, y) \in SUBSET Above(S, x) /\ Above(S, x) \subseteq Moments
    <2>1. \A z \in S : z \in Nat
      BY MomentsNat
    <2>2. \A z \in S : y < z => x < z
      BY ONLY <1>1, <2>1, x < y, y \in S
    <2>3. Above(S, y) \subseteq Above(S, x) /\ Above(S, x) \subseteq S
      BY <2>2 DEF Above
    <2> QED
      BY <2>3
  <1>3. /\ Cardinality(Above(S, y)) \in Nat /\ Cardinality(Above(S, x)) \in Nat
        /\ Cardinality(Above(S, y)) <= Cardinality(Above(S, x))
    BY <1>2, FiniteMoments
  <1>4. Cardinality(Above(S, y)) < HistoryMax
    BY <1>1, <1>3, DocAssumption
  <1> QED
    BY <1>4, NewestIs

\* No more are kept than fit.
LEMMA NewestFits ==
    ASSUME NEW S, S \subseteq Moments
    PROVE  Cardinality(Newest(S)) <= HistoryMax
  <1> DEFINE K == Newest(S)
  <1>1. K \subseteq S
    BY DEF Newest
  <1>2. CASE K = {}
    BY <1>2, FS_EmptySet, DocAssumption
  <1>3. CASE K # {}
    <2>1. PICK m \in K : \A x \in K : m <= x
      <3> HIDE DEF K
      <3> QED
        BY <1>1, <1>3, MomentsNat, LeastNat
    <2>2. m \in S /\ Cardinality(Above(S, m)) < HistoryMax
      BY NewestIs
    <2>3. Above(S, m) \subseteq K
      BY NewestUpwards DEF Above
    <2>4. K = Above(S, m) \cup {m} /\ m \notin Above(S, m)
      <3>1. \A z \in S : z \in Nat
        BY MomentsNat
      <3>2. \A z \in S : m < z <=> m <= z /\ z # m
        BY ONLY <2>2, <3>1
      <3>3. m \notin Above(S, m) /\ Above(S, m) \subseteq S
        BY <2>2, <3>2 DEF Above
      <3>4. \A z \in K \ {m} : z \in Above(S, m)
        BY <1>1, <2>1, <3>2 DEF Above
      <3> HIDE DEF K
      <3> QED
        BY <2>1, <2>3, <3>3, <3>4
    <2>5. IsFiniteSet(Above(S, m)) /\ Cardinality(Above(S, m)) \in Nat
      BY FiniteMoments DEF Above
    <2>6. Cardinality(K) = Cardinality(Above(S, m)) + 1
      <3> HIDE DEF K
      <3> QED
        BY <2>4, <2>5, FS_AddElement
    <2> QED
      BY <2>2, <2>5, <2>6, DocAssumption
  <1> QED
    BY <1>2, <1>3

\* Something is drained only when as many are kept as fit.
LEMMA NewestFills ==
    ASSUME NEW S, S \subseteq Moments, Newest(S) # S
    PROVE  Cardinality(Newest(S)) >= HistoryMax
  <1> DEFINE K == Newest(S)
  <1>1. K \subseteq S
    BY DEF Newest
  <1>2. PICK m \in S \ K : \A x \in S \ K : x <= m
    <2>1. S \ K \subseteq Moments /\ S \ K # {}
      BY <1>1
    <2> HIDE DEF K
    <2> QED
      BY <2>1, LatestMoment
  <1>3. ~(Cardinality(Above(S, m)) < HistoryMax)
    BY <1>2, NewestIs
  <1>4. Above(S, m) \in SUBSET K /\ K \subseteq Moments
    <2>1. \A z \in S : z \in Nat
      BY MomentsNat
    <2>2. \A z \in S : m < z => ~(z <= m)
      BY ONLY <1>2, <2>1
    <2>3. \A z \in Above(S, m) : z \in S /\ ~(z <= m)
      BY <2>2 DEF Above
    <2> HIDE DEF K
    <2> QED
      BY <1>1, <1>2, <2>3
  <1>5. /\ Cardinality(Above(S, m)) \in Nat /\ Cardinality(K) \in Nat
        /\ Cardinality(Above(S, m)) <= Cardinality(K)
    <2> HIDE DEF K
    <2> QED
      BY <1>4, FiniteMoments
  <1> QED
    BY <1>3, <1>5, DocAssumption

\* What a history may be before it is drained: the newest, and HistoryMax of them or all.
Tops(kept, all) ==
    /\ kept \subseteq all
    /\ kept # all => Cardinality(kept) >= HistoryMax
    /\ \A x \in all \ kept, y \in kept : x < y

LEMMA KeptAreTops ==
    ASSUME NEW kept, NEW all, KeepsNewest(kept, all)
    PROVE  Tops(kept, all)
  BY DocAssumption DEF KeepsNewest, Tops

LEMMA AllAreTops == \A S : Tops(S, S)
  BY DEF Tops

\* Two histories merged and drained keep the newest of what either side reflected at.
LEMMA NewestOfBoth ==
    ASSUME NEW A, NEW B, A \subseteq Moments, B \subseteq Moments,
           NEW h, NEW k, Tops(h, A), Tops(k, B)
    PROVE  KeepsNewest(Newest(h \cup k), A \cup B)
  <1> DEFINE S == h \cup k
             K == Newest(S)
  <1>1. S \subseteq Moments /\ S \subseteq A \cup B
    BY DEF Tops
  <1>2. K \subseteq S
    BY DEF Newest
  <1>3. Cardinality(K) <= HistoryMax
    BY <1>1, NewestFits
  <1>4. Cardinality(K) \in Nat
    <2> HIDE DEF K
    <2> QED
      BY <1>1, <1>2, FiniteMoments
  \* A side that drained something fills the history by itself.
  <1>5. ASSUME NEW side \in SUBSET S, Cardinality(side) >= HistoryMax, NEW y \in K,
               \A z \in side : y < z
        PROVE  FALSE
    <2>1. side \in SUBSET Above(S, y) /\ Above(S, y) \subseteq Moments
      BY <1>1, <1>5 DEF Above
    <2>2. /\ Cardinality(side) \in Nat /\ Cardinality(Above(S, y)) \in Nat
          /\ Cardinality(side) <= Cardinality(Above(S, y))
      <3>1. Cardinality(side) \in Nat
        BY <1>1, FiniteMoments
      <3> QED
        BY <2>1, <3>1, FiniteMoments
    <2>3. Cardinality(Above(S, y)) < HistoryMax
      BY NewestIs
    <2> QED
      BY <1>5, <2>2, <2>3, DocAssumption
  <1>6. ASSUME NEW x \in (A \cup B) \ K, NEW y \in K
        PROVE  x < y
    <2>1. SUFFICES ASSUME ~(x < y) PROVE FALSE
      OBVIOUS
    <2>2. x \in Nat /\ y \in Nat /\ x # y /\ y < x
      <3>1. x \in Nat /\ y \in Nat /\ x # y
        <4> HIDE DEF K, S
        <4> QED
          BY <1>1, <1>2, MomentsNat
      <3> QED
        BY <2>1, <3>1
    <2>3. CASE x \in S
      BY <1>1, <2>2, <2>3, NewestUpwards
    <2>4. ASSUME x \in A, x \notin h PROVE FALSE
      <3>1. Cardinality(h) >= HistoryMax /\ \A z \in h : x < z
        BY <2>4 DEF Tops
      <3>2. \A z \in h : z \in Nat
        BY MomentsNat DEF Tops
      <3>3. \A z \in h : y < z
        BY <2>2, <3>1, <3>2
      <3>4. h \in SUBSET S
        OBVIOUS
      <3> QED
        BY <1>5, <3>1, <3>3, <3>4
    <2>5. ASSUME x \in B, x \notin k PROVE FALSE
      <3>1. Cardinality(k) >= HistoryMax /\ \A z \in k : x < z
        BY <2>5 DEF Tops
      <3>2. \A z \in k : z \in Nat
        BY MomentsNat DEF Tops
      <3>3. \A z \in k : y < z
        BY <2>2, <3>1, <3>2
      <3>4. k \in SUBSET S
        OBVIOUS
      <3> QED
        BY <1>5, <3>1, <3>3, <3>4
    <2> QED
      BY <2>3, <2>4, <2>5
  <1>7. ASSUME K # A \cup B
        PROVE  Cardinality(K) = HistoryMax
    <2>1. SUFFICES Cardinality(K) >= HistoryMax
      <3> HIDE DEF K
      <3> QED
        BY <1>3, <1>4, DocAssumption
    <2>2. CASE K # S
      BY <1>1, <2>2, NewestFills
    <2>3. ASSUME K = S, NEW side \in SUBSET S, Cardinality(side) >= HistoryMax
          PROVE  Cardinality(K) >= HistoryMax
      <3>1. Cardinality(side) \in Nat /\ Cardinality(side) <= Cardinality(S)
        BY <1>1, FiniteMoments
      <3> HIDE DEF K, S
      <3> QED
        BY <1>4, <2>3, <3>1, DocAssumption
    <2>4. K = S => h # A \/ k # B
      BY <1>7
    <2>5. (h # A => Cardinality(h) >= HistoryMax) /\ (k # B => Cardinality(k) >= HistoryMax)
      BY DEF Tops
    <2>6. h \in SUBSET S /\ k \in SUBSET S
      OBVIOUS
    <2> HIDE DEF K, S
    <2> QED
      BY <2>2, <2>3, <2>4, <2>5, <2>6
  <1>8. K \subseteq A \cup B
    BY <1>1, <1>2
  <1> QED
    BY <1>3, <1>6, <1>7, <1>8 DEF KeepsNewest

-----------------------------------------------------------------------------
(* Documents whose history is the newest of what they reflected at.  Whatever the number of *)
(* processes on a host and wherever they stop, no file ever holds another. *)

Good == {d \in Docs : WellFormed(d)}

GoodPacks == {from_memory(d) : d \in Good}

LEMMA ReflectedIs ==
    ASSUME NEW d
    PROVE  \A x : x \in ReflectedAt(d) <=> \E e \in d.traj : e.kind = "reflection" /\ x = e.at
  BY DEF ReflectedAt

\* The trajectory of a is that of d and one entry more.
HasAlso(a, d, t, kind) == a.traj = d.traj \cup {[at |-> t, kind |-> kind]}

LEMMA ReflectedWith ==
    ASSUME NEW a, NEW d, NEW t, NEW kind, HasAlso(a, d, t, kind)
    PROVE  ReflectedAt(a) = ReflectedAt(d) \cup (IF kind = "reflection" THEN {t} ELSE {})
  <1> DEFINE e == [at |-> t, kind |-> kind]
             R == ReflectedAt(d) \cup (IF kind = "reflection" THEN {t} ELSE {})
  <1>1. e.at = t /\ e.kind = kind
    OBVIOUS
  <1>2. a.traj = d.traj \cup {e}
    BY DEF HasAlso
  <1> HIDE DEF e
  <1>3. \A x : x \in R <=> (\E f \in d.traj : f.kind = "reflection" /\ x = f.at)
                              \/ (kind = "reflection" /\ x = t)
    BY ReflectedIs
  <1>4. \A x : x \in ReflectedAt(a) <=> \E f \in a.traj : f.kind = "reflection" /\ x = f.at
    BY ReflectedIs
  <1> HIDE DEF R
  <1>5. \A x : x \in ReflectedAt(a) <=> x \in R
    BY ONLY <1>1, <1>2, <1>3, <1>4
  <1> QED
    <2>1. ReflectedAt(a) = R
      BY <1>5
    <2> QED
      BY <2>1 DEF R

LEMMA ReflectedMoments == ASSUME NEW d \in Docs PROVE ReflectedAt(d) \subseteq Moments
  BY ReflectedIs, DocFields

LEMMA GoodFields ==
    ASSUME NEW d \in Good
    PROVE  /\ d \in Docs /\ ReflectedAt(d) \subseteq Moments
           /\ Tops(d.history, ReflectedAt(d))
           /\ d.skill.version <= d.count
  BY ReflectedMoments, KeptAreTops DEF Good, WellFormed

LEMMA NewIsGood == NewDocument \in Good
  <1>1. NewDocument.traj = {} /\ NewDocument.history = {}
        /\ NewDocument.skill.version = 0 /\ NewDocument.count = 0
    BY DEF NewDocument
  <1>2. ReflectedAt(NewDocument) = {}
    BY <1>1, ReflectedIs
  <1>3. KeepsNewest({}, {})
    BY FS_EmptySet, DocAssumption DEF KeepsNewest
  <1> QED
    BY <1>1, <1>2, <1>3, NewIsDoc DEF Good, WellFormed

LEMMA MergeIsGood ==
    ASSUME NEW c \in Good, NEW d \in Good
    PROVE  merge(c, d) \in Good
  <1> DEFINE m == merge(c, d)
  <1>1. /\ m.traj = c.traj \cup d.traj
        /\ m.count = Later(c.count, d.count)
        /\ m.skill = IF c.skill.version >= d.skill.version THEN c.skill ELSE d.skill
        /\ m.history = Newest(c.history \cup d.history)
    BY DEF merge
  <1>2. m \in Docs
    BY GoodFields, MergeKeeps
  <1> HIDE DEF m
  <1>3. ReflectedAt(m) = ReflectedAt(c) \cup ReflectedAt(d)
    BY <1>1, ReflectedIs
  <1>4. KeepsNewest(m.history, ReflectedAt(m))
    BY <1>1, <1>3, GoodFields, NewestOfBoth
  <1>5. m.skill.version <= m.count
    BY <1>1, GoodFields, DocFields DEF Later
  <1> QED
    BY <1>2, <1>4, <1>5 DEF Good, WellFormed, m

\* What the commands but reflect record is no reflection.
LEMMA AppendIsGood ==
    ASSUME NEW d \in Good, NEW at \in Moments, NEW kind \in TrajectoryType \ {"reflection"}
    PROVE  append_trajectory(d, at, kind) \in Good
  <1> DEFINE a == append_trajectory(d, at, kind)
  <1>1. /\ a.traj = d.traj \cup {[at |-> at, kind |-> kind]}
        /\ a.count = d.count /\ a.skill = d.skill /\ a.history = d.history
    BY DEF append_trajectory, Good, Docs, CrdtDocument
  <1>2. a \in Docs
    BY GoodFields, AppendKeeps
  <1> HIDE DEF a
  <1>3. ReflectedAt(a) = ReflectedAt(d)
    <2>1. ReflectedAt(a) = ReflectedAt(d) \cup (IF kind = "reflection" THEN {at} ELSE {})
      <3>1. HasAlso(a, d, at, kind)
        BY <1>1 DEF HasAlso
      <3> QED
        BY <3>1, ReflectedWith, Zenon
    <2> QED
      BY <2>1
  <1> QED
    BY <1>1, <1>2, <1>3 DEF Good, WellFormed, a

\* A reflection leaves its moment in the history and in the trajectory; a skill made of
\* the pattern has the count for its version.
LEMMA ReflectIsGood ==
    ASSUME NEW d \in Good, NEW t \in Moments
    PROVE  reflect(d, t) \in Good
  <1> DEFINE r == reflect(d, t)
             history == Newest(d.history \cup {t})
             h == [d EXCEPT !.history = Newest(@ \cup {t})]
             s == detect_and_synthesize(h, t)
  <1>1. h = [traj |-> d.traj, count |-> d.count, skill |-> d.skill, history |-> history]
    BY DEF Good, Docs, CrdtDocument
  <1>2. /\ s.traj = h.traj /\ s.history = h.history
        /\ s.count = h.count + Windows(h)
        /\ s.skill.version = s.count \/ s.skill = h.skill
        /\ DOMAIN s = {"traj", "count", "skill", "history"}
    <2> DEFINE count == h.count + Windows(h)
               fresh == Windows(h) > 0 /\ count >= Threshold /\ h.skill.version < count
               skill == IF fresh THEN [version |-> count, at |-> t] ELSE h.skill
    <2>1. s = [traj |-> h.traj, count |-> count, skill |-> skill, history |-> h.history]
      BY DEF detect_and_synthesize
    <2> HIDE DEF s, h, count
    <2>2. skill.version = count \/ skill = h.skill
      <3> HIDE DEF fresh
      <3> QED
        OBVIOUS
    <2> HIDE DEF skill
    <2> QED
      BY <2>1, <2>2 DEF count
  <1>3. h \in Docs
    <2>1. history \in SUBSET Nat /\ history \subseteq Moments
      BY GoodFields, DocFields, SyncAssumption DEF Newest, Moments
    <2> HIDE DEF history
    <2> QED
      BY <1>1, <2>1, GoodFields, DocFields DEF Docs, CrdtDocument
  <1>4. r = append_trajectory(s, t, "reflection") /\ r \in Docs
    BY GoodFields, ReflectKeeps DEF reflect
  <1> HIDE DEF h, r
  <1>5. s.skill.version <= s.count
    BY <1>1, <1>2, <1>3, GoodFields, DocFields, WindowsNat
  <1> HIDE DEF s
  <1>6. /\ r.traj = s.traj \cup {[at |-> t, kind |-> "reflection"]}
        /\ r.count = s.count /\ r.skill = s.skill /\ r.history = s.history
    BY <1>2, <1>4 DEF append_trajectory
  <1>7. r.traj = d.traj \cup {[at |-> t, kind |-> "reflection"]} /\ r.history = history
    BY <1>1, <1>2, <1>6
  <1>8. ReflectedAt(r) = ReflectedAt(d) \cup {t}
    <2>1. ReflectedAt(r) = ReflectedAt(d) \cup (IF "reflection" = "reflection" THEN {t} ELSE {})
      <3>1. HasAlso(r, d, t, "reflection")
        BY <1>7 DEF HasAlso
      <3> QED
        BY <3>1, ReflectedWith, Zenon
    <2> QED
      BY <2>1
  <1>9. KeepsNewest(history, ReflectedAt(d) \cup {t})
    <2>1. Tops({t}, {t}) /\ {t} \subseteq Moments
      BY AllAreTops
    <2> QED
      BY <2>1, GoodFields, NewestOfBoth
  <1> QED
    BY <1>4, <1>5, <1>6, <1>7, <1>8, <1>9 DEF Good, WellFormed, r

\* A pack's traces add nothing to a document its own document was merged into.
LEMMA ImportIsGood ==
    ASSUME NEW c \in Good, NEW f \in GoodPacks
    PROVE  ImportedDoc(c, f) \in Good
  <1>1. PICK d \in Good : f = from_memory(d)
    BY DEF GoodPacks
  <1>2. f.memory_crdt = d /\ f.memory_traces = traces_from_document(d)
    BY <1>1 DEF from_memory
  <1> DEFINE m == merge(c, d)
             i == merge_traces_into(m, traces_from_document(d))
  <1>3. ImportedDoc(c, f) = i
    BY <1>2 DEF ImportedDoc
  <1>4. m \in Good /\ d.traj \subseteq m.traj
    BY MergeIsGood DEF merge
  <1> HIDE DEF m
  <1>5. i \in Docs
    BY <1>4, GoodFields, TracesAdd
  <1>6. i.traj = m.traj /\ i.count = m.count /\ i.skill = m.skill
        /\ i.history = Newest(m.history \cup {})
    <2>1. /\ i.traj \subseteq m.traj \cup d.traj /\ m.traj \subseteq i.traj
          /\ i.count = m.count /\ i.skill = m.skill /\ i.history = Newest(m.history \cup {})
      BY <1>4, GoodFields, TracesAdd
    <2> HIDE DEF i
    <2> QED
      BY <1>4, <2>1
  <1> HIDE DEF i
  <1>7. ReflectedAt(i) = ReflectedAt(m)
    BY <1>6 DEF ReflectedAt
  <1>8. KeepsNewest(i.history, ReflectedAt(m))
    <2>1. KeepsNewest(Newest(m.history \cup {}), ReflectedAt(m) \cup {})
      BY <1>4, GoodFields, AllAreTops, NewestOfBoth
    <2> QED
      BY <1>6, <2>1
  <1> QED
    BY <1>3, <1>4, <1>5, <1>6, <1>7, <1>8, GoodFields DEF Good, WellFormed

-----------------------------------------------------------------------------

Held ==
    /\ file \in [Hosts -> Good \cup {Missing, Torn}]
    /\ tmp \in [Hosts -> Good \cup {Missing, Torn}]
    /\ pack \in [Hosts -> GoodPacks \cup {Missing, Torn}]
    /\ mem \in [Procs -> Good]
    /\ fd \in [Procs -> {"tmp", "file", "gone"}]
    /\ now \in Moments

LEMMA OpenedIsGood ==
    ASSUME Held, NEW p \in Procs, Readable(file[Home[p]])
    PROVE  OrNew(file[Home[p]]) \in Good
  BY HomeIsHost, NewIsGood DEF Held, Readable, OrNew

LEMMA EndHolds ==
    ASSUME Held, NEW p \in Procs, End(p), UNCHANGED <<file, tmp, pack, now>>
    PROVE  Held'
  BY NewIsGood DEF Held, End, Hold

\* The steps that only change what p holds, and how late it is.
LEMMA HoldHolds ==
    ASSUME Held, NEW p \in Procs, NEW d \in Good, Hold(p, d),
           UNCHANGED <<file, tmp, pack, fd>>, now' \in Moments
    PROVE  Held'
  BY DEF Held, Hold

LEMMA NextMoment == ASSUME Held, now < MaxTime, now' = now + 1 PROVE now' \in Moments
  BY SyncAssumption DEF Held, Moments

LEMMA StepHolds == ASSUME Held, NEW p \in Procs, Step(p) PROVE Held'
  <1>0. Home[p] \in Hosts /\ mem[p] \in Good /\ now \in Moments
    BY HomeIsHost DEF Held
  <1>1. CASE Record(p)
    <2>1. now' \in Moments
      BY <1>1, NextMoment DEF Record
    <2>2. PICK kind \in Leaves[p] \ {"reflection"} : Hold(p, append_trajectory(mem[p], now', kind))
      BY <1>1 DEF Record
    <2>3. kind \in TrajectoryType \ {"reflection"}
      BY SyncAssumption
    <2>4. append_trajectory(mem[p], now', kind) \in Good
      BY <1>0, <2>1, <2>3, AppendIsGood
    <2> QED
      BY <1>1, <2>1, <2>2, <2>4, HoldHolds DEF Record, files
  <1>2. CASE Reflect(p)
    <2>1. now' \in Moments
      BY <1>2, NextMoment DEF Reflect
    <2>2. reflect(mem[p], now') \in Good
      BY <1>0, <2>1, ReflectIsGood
    <2> QED
      BY <1>2, <2>1, <2>2, HoldHolds DEF Reflect, files
  <1>3. CASE Save(p)
    BY <1>3 DEF Save, files, Held
  <1>4. CASE Sync(p)
    <2>1. CASE Readable(file[Home[p]]) /\ Hold(p, merge(mem[p], OrNew(file[Home[p]]))) /\ UNCHANGED fd
      <3>1. merge(mem[p], OrNew(file[Home[p]])) \in Good
        BY <1>0, <2>1, OpenedIsGood, MergeIsGood
      <3> QED
        BY <1>0, <1>4, <2>1, <3>1, HoldHolds DEF Sync, files
    <2>2. CASE End(p)
      BY <1>4, <2>2, EndHolds DEF Sync, files
    <2> QED
      BY <1>4, <2>1, <2>2 DEF Sync
  <1>5. CASE OpenTmp(p)
    BY <1>0, <1>5 DEF OpenTmp, Held
  <1>6. CASE WriteTmp(p)
    <2>1. \A old : Written(p, old) \subseteq Good \cup {Missing, Torn}
      BY <1>0 DEF Written
    <2>2. UNCHANGED <<pack, mem, fd, now>>
      BY <1>6 DEF WriteTmp
    <2>3. /\ file' \in [Hosts -> Good \cup {Missing, Torn}]
          /\ tmp' \in [Hosts -> Good \cup {Missing, Torn}]
      BY <1>0, <1>6, <2>1 DEF WriteTmp, Held
    <2> QED
      BY <2>2, <2>3 DEF Held
  <1>7. CASE Rename(p)
    <2>1. CASE End(p) /\ UNCHANGED <<file, tmp>>
      BY <1>7, <2>1, EndHolds DEF Rename
    <2>2. CASE /\ file' = [file EXCEPT ![Home[p]] = tmp[Home[p]]]
               /\ tmp' = [tmp EXCEPT ![Home[p]] = Missing]
               /\ fd' = [q \in Procs |-> Renamed(p, q)]
               /\ Hold(p, NewDocument)
      <3>1. \A q \in Procs : Renamed(p, q) \in {"tmp", "file", "gone"}
        <4>1. \A q \in Procs : fd[q] \in {"tmp", "file", "gone"}
          BY DEF Held
        <4> QED
          BY <4>1, Zenon DEF Renamed
      <3>2. fd' \in [Procs -> {"tmp", "file", "gone"}]
        BY <2>2, <3>1
      <3>3. /\ file' \in [Hosts -> Good \cup {Missing, Torn}]
            /\ tmp' \in [Hosts -> Good \cup {Missing, Torn}]
        BY <1>0, <2>2 DEF Held
      <3>4. mem' \in [Procs -> Good]
        BY <2>2, NewIsGood DEF Hold, Held
      <3>5. UNCHANGED <<pack, now>>
        BY <1>7 DEF Rename
      <3> QED
        BY <3>2, <3>3, <3>4, <3>5 DEF Held
    <2> QED
      BY <1>7, <2>1, <2>2 DEF Rename
  <1>8. CASE OpenPack(p)
    BY <1>0, <1>8 DEF OpenPack, Held
  <1>9. CASE WritePack(p)
    <2>1. from_memory(mem[p]) \in GoodPacks
      BY <1>0 DEF GoodPacks
    <2> QED
      BY <1>0, <1>9, <2>1, NewIsGood DEF WritePack, End, Hold, Held
  <1> QED
    BY <1>1, <1>2, <1>3, <1>4, <1>5, <1>6, <1>7, <1>8, <1>9 DEF Step

LEMMA NextHolds == ASSUME Held, [Next]_vars PROVE Held'
  <1>1. ASSUME NEW p \in Procs, Open(p) \/ Export(p) PROVE Held'
    <2>1. OrNew(file[Home[p]]) \in Good
      BY <1>1, OpenedIsGood DEF Open, Export
    <2> QED
      BY <1>1, <2>1, HoldHolds DEF Open, Export, files, Held
  <1>2. ASSUME NEW p \in Procs, NEW from \in Hosts, Import(p, from) PROVE Held'
    <2>1. pack[from] \in GoodPacks /\ OrNew(file[Home[p]]) \in Good
      BY <1>2, OpenedIsGood DEF Import, Legible, Held
    <2>2. ImportedDoc(OrNew(file[Home[p]]), pack[from]) \in Good
      BY <2>1, ImportIsGood
    <2> QED
      BY <1>2, <2>2, HoldHolds DEF Import, files, Held
  <1>3. ASSUME NEW p \in Procs, Die(p) PROVE Held'
    BY <1>3, EndHolds DEF Die, files
  <1>4. CASE UNCHANGED vars
    BY <1>4 DEF vars, files, Held
  <1> QED
    BY <1>1, <1>2, <1>3, <1>4, StepHolds DEF Next

LEMMA AlwaysHeld == Spec => []Held
  <1>1. Init => Held
    BY NewIsGood, SyncAssumption DEF Init, Held, Moments
  <1> QED
    BY <1>1, NextHolds, PTL DEF Spec

-----------------------------------------------------------------------------

LEMMA DeathsBounded == Spec => [](deaths \in 0..MaxDeaths)
  <1> DEFINE Bounded == deaths \in 0..MaxDeaths
  <1>1. Init => Bounded
    BY SyncAssumption DEF Init
  <1>2. Bounded /\ [Next]_vars => Bounded'
    <2> SUFFICES ASSUME Bounded, [Next]_vars PROVE Bounded'
      OBVIOUS
    <2>1. ASSUME NEW p \in Procs, Die(p) PROVE Bounded'
      BY <2>1, SyncAssumption DEF Die
    <2>2. ASSUME NEW p \in Procs, NEW label, At(p, label) PROVE Bounded'
      BY <2>2 DEF At
    <2>3. ASSUME NEW p \in Procs, Step(p) PROVE Bounded'
      BY <2>2, <2>3 DEF Step, Record, Reflect, Save, Sync, OpenTmp, WriteTmp, Rename,
                        OpenPack, WritePack
    <2>4. CASE UNCHANGED vars
      BY <2>4 DEF vars
    <2> QED
      BY <2>1, <2>2, <2>3, <2>4 DEF Next, Open, Export, Import
  <1> QED
    BY <1>1, <1>2, PTL DEF Spec

\* Type correctness: through reflections, merges and packs, every document anywhere has
\* moments that have been, a trajectory of known kinds and a skill, and files are whole
\* documents, cut short or missing.
THEOREM TypeCorrect == Spec => []TypeOK
  <1>1. Held /\ deaths \in 0..MaxDeaths => TypeOK
    <2> SUFFICES ASSUME Held, deaths \in 0..MaxDeaths PROVE TypeOK
      OBVIOUS
    <2>1. \A d \in Docs : IsDoc(d)
      <3> SUFFICES ASSUME NEW d \in Docs PROVE IsDoc(d)
        OBVIOUS
      <3>1. DOMAIN d = {"traj", "count", "skill", "history"}
        BY DEF Docs, CrdtDocument
      <3>2. \A e \in d.traj : e.kind \in TrajectoryType
        BY DocFields DEF Entry
      <3> QED
        BY <3>1, <3>2, DocFields DEF IsDoc
    <2>2. \A f \in Packs : IsDoc(f.memory_crdt) /\ f.memory_traces \subseteq MemoryTrace
      <3> SUFFICES ASSUME NEW d \in Docs
                   PROVE  traces_from_document(d) \subseteq MemoryTrace
        BY <2>1 DEF Packs, from_memory
      <3>1. \A e \in d.traj : e.at \in Moments /\ e.kind \in TrajectoryType
        BY DocFields DEF Entry
      <3> QED
        BY <3>1 DEF traces_from_document, MemoryTrace, Moments
    <2>3. \A d \in Good : d \in Docs /\ from_memory(d) \in Packs
      BY DEF Good, Packs
    <2>4. \A f \in GoodPacks : f \in Packs
      BY <2>3 DEF GoodPacks
    <2>5. ASSUME NEW h \in Hosts
          PROVE  /\ \A f \in {file[h], tmp[h]} \ {Missing, Torn} : IsDoc(f)
                 /\ Legible(pack[h]) => /\ IsDoc(pack[h].memory_crdt)
                                       /\ pack[h].memory_traces \subseteq MemoryTrace
      BY <2>1, <2>2, <2>3, <2>4 DEF Held, Legible
    <2>6. \A p \in Procs : IsDoc(mem[p]) /\ fd[p] \in {"tmp", "file", "gone"}
      BY <2>1, <2>3 DEF Held
    <2> QED
      BY <2>5, <2>6 DEF Held, TypeOK
  <1> QED
    BY <1>1, AlwaysHeld, DeathsBounded, PTL

\* However reflections, merges, drained histories and packs followed, and with any number of
\* processes writing the memory of one host, every document keeps the newest moments it
\* reflected at and no skill of more sightings than it counts (crdt.rs, merge; coherence.rs).
THEOREM HistoriesKeepTheNewest == Spec => []DocumentsWellFormed
  <1>1. Held => DocumentsWellFormed
    BY DEF Held, Good, DocumentsWellFormed
  <1> QED
    BY <1>1, AlwaysHeld, PTL

\* The memory file is never cut short, although processes die in the middle of writing
\* (memory.rs, FilePersistence::save).
THEOREM FileNeverTorn == ASSUME OneWriter PROVE Spec => []NeverTorn
  <1>1. IInv => NeverTorn
    BY NotADoc DEF IInv, Types, NeverTorn
  <1> QED
    BY <1>1, AlwaysIInv, PTL

\* With one writer to a host no write is lost, as memory.rs says of any number.
THEOREM OneWriterLosesNothing == ASSUME OneWriter PROVE Spec => NoWriteIsLost
  <1>1. ASSUME IInv, NEW p \in Procs, Rename(p),
               {file[Home[p]], file'[Home[p]]} \cap {Missing, Torn} = {}
        PROVE  Remembers(file'[Home[p]], file[Home[p]])
    <2>1. file'[Home[p]] = mem[p]
      BY <1>1, RenameSees DEF IInv, Types
    <2>2. Remembers(mem[p], file[Home[p]])
      BY <1>1, RenameSees DEF OrNew
    <2> QED
      BY <2>1, <2>2
  <1>2. IInv /\ [Next]_vars =>
          [\A p \in Procs : LET h == Home[p] IN
             Rename(p) /\ {file[h], file'[h]} \cap {Missing, Torn} = {}
               => Remembers(file'[h], file[h])]_vars
    BY <1>1
  <1> QED
    BY <1>2, AlwaysIInv, PTL DEF Spec, NoWriteIsLost
=============================================================================
