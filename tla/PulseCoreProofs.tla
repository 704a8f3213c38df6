--------------------------- MODULE PulseCoreProofs ---------------------------
(***************************************************************************)
(* Proofs about PulseCore, for every number of processes, roots, G sources *)
(* and imports: what its files hold, which premflow processes there are,   *)
(* and which mission stores the backups keep.                              *)
(***************************************************************************)
EXTENDS PulseCore, JsonLinesProofs

ImportStep == {"import", "import_target", "import_backup", "import_replace"}
CheckStep == {"check", "check_premflow", "premflow_wait", "check_end", "check_print"}
PackStep == {"merge", "merge_line", "merge_newline", "export", "export_write"}

\* A process is at a step of the command it runs; an import holds the second it began in.
CommandOf(p) ==
    /\ pc[p] = "idle" <=> run[p].c.op = "none"
    /\ pc[p] # "idle" => run[p].c \in Calls[p]
    /\ pc[p] \in ImportStep => run[p].c.op = "import" /\ run[p].got[1] \in 0..second
    /\ pc[p] \in CheckStep => run[p].c.op = "check"

Control ==
    /\ pc \in [Procs -> {"idle"} \cup ImportStep \cup CheckStep \cup PackStep]
    /\ DOMAIN run = Procs
    /\ second \in 0..MaxSecond
    /\ \A p \in Procs : CommandOf(p)

\* The versions of the G sources, and where a mission table's G sources were found.
Hashed ==
    /\ G \in [1..Roots -> [Gs -> 0..MaxEdits \cup {Gone}]]
    /\ edits \in 0..MaxEdits
    /\ store # None => Resolved(store)
    /\ \A p \in Procs : pc[p] \in ImportStep \ {"import"} => Resolved(run[p].rest)

\* The child is the one a check waits for; others were left by deaths and failed waits.
Waited ==
    /\ child # NoChild =>
          /\ child.left \in Nat /\ child.pipe \in Nat /\ child.pipe <= PipeSize
          /\ \E c \in Premflows : c.kind = child.kind /\ c.left = child.left + child.pipe
    /\ child # NoChild <=> \E p \in Procs : pc[p] = "premflow_wait"
    /\ strays \in Nat /\ deaths \in Nat /\ strays <= deaths

\* An import that is about to replace a store has kept it, and what was replaced is kept
\* where nothing was copied since.
Kept ==
    /\ DOMAIN baks = 0..MaxSecond
    /\ copies \in [0..MaxSecond -> Nat]
    /\ \A p \in Procs : pc[p] = "import_replace" /\ store # None =>
          baks[run[p].got[1]] = store /\ copies[run[p].got[1]] # 0
    /\ \A x \in replaced : x.at \in 0..MaxSecond /\ copies[x.at] # 0
    /\ OldStoreKept

Inv == Control /\ Hashed /\ Waited /\ Kept

-----------------------------------------------------------------------------
(* Control *)

\* What a step of p leaves of the others.
LEMMA Others ==
    ASSUME Control, NEW p \in Procs, NEW l, NEW r,
           pc' = [pc EXCEPT ![p] = l], run' = [run EXCEPT ![p] = r]
    PROVE  /\ pc'[p] = l /\ run'[p] = r
           /\ DOMAIN run' = Procs
           /\ \A q \in Procs : q # p => pc'[q] = pc[q] /\ run'[q] = run[q]
  BY DEF Control

\* Only one process is at a step of an import, and one at a step of a check.
LEMMA Alone ==
    ASSUME Control, NEW p \in Procs, NEW q \in Procs
    PROVE  /\ pc[p] \in ImportStep /\ pc[q] \in ImportStep => p = q
           /\ pc[p] \in CheckStep /\ pc[q] \in CheckStep => p = q
  <1>1. \A l \in ImportStep \cup CheckStep : l # "idle"
    BY DEF ImportStep, CheckStep
  <1>2. CommandOf(p) /\ CommandOf(q)
    BY DEF Control
  <1>3. ASSUME pc[p] \in ImportStep, pc[q] \in ImportStep PROVE p = q
    <2>1. run[p].c \in Calls[p] /\ run[q].c \in Calls[q]
          /\ run[p].c.op = "import" /\ run[q].c.op = "import"
      BY <1>1, <1>2, <1>3 DEF CommandOf
    <2> QED
      BY <2>1, CallsAssumption
  <1>4. ASSUME pc[p] \in CheckStep, pc[q] \in CheckStep PROVE p = q
    <2>1. run[p].c \in Calls[p] /\ run[q].c \in Calls[q]
          /\ run[p].c.op = "check" /\ run[q].c.op = "check"
      BY <1>1, <1>2, <1>4 DEF CommandOf
    <2> QED
      BY <2>1, CallsAssumption
  <1> QED
    BY <1>3, <1>4

\* A step keeps Control when p goes on with its command or ends it.
LEMMA GoesOn ==
    ASSUME Control, NEW p \in Procs,
           NEW l \in ImportStep \cup CheckStep \cup PackStep, NEW got, NEW rest,
           pc' = [pc EXCEPT ![p] = l],
           run' = [run EXCEPT ![p] = [c |-> run[p].c, got |-> got, rest |-> rest]],
           second' = second, pc[p] # "idle",
           l \in ImportStep => pc[p] \in ImportStep /\ got = run[p].got,
           l \in CheckStep => pc[p] \in CheckStep
    PROVE  Control'
  <1>1. /\ pc'[p] = l /\ DOMAIN run' = Procs
        /\ run'[p] = [c |-> run[p].c, got |-> got, rest |-> rest]
        /\ \A q \in Procs : q # p => pc'[q] = pc[q] /\ run'[q] = run[q]
    BY Others
  <1>2. run'[p].c = run[p].c /\ run'[p].got = got
    BY <1>1
  <1>3. l # "idle"
    BY DEF ImportStep, CheckStep, PackStep
  <1>4. CommandOf(p)'
    BY <1>1, <1>2, <1>3 DEF Control, CommandOf
  <1>5. \A q \in Procs : q # p => CommandOf(q)'
    BY <1>1 DEF Control, CommandOf
  <1>6. pc' \in [Procs -> {"idle"} \cup ImportStep \cup CheckStep \cup PackStep]
    BY DEF Control
  <1> QED
    BY <1>1, <1>4, <1>5, <1>6 DEF Control

LEMMA Moves ==
    ASSUME Control, NEW p \in Procs,
           NEW l \in ImportStep \cup CheckStep \cup PackStep,
           pc' = [pc EXCEPT ![p] = l], run' = run,
           second' = second, pc[p] # "idle",
           l \in ImportStep => pc[p] \in ImportStep,
           l \in CheckStep => pc[p] \in CheckStep
    PROVE  Control'
  <1>1. /\ pc'[p] = l /\ \A q \in Procs : q # p => pc'[q] = pc[q]
    BY DEF Control
  <1>2. l # "idle"
    BY DEF ImportStep, CheckStep, PackStep
  <1>3. CommandOf(p)'
    BY <1>1, <1>2 DEF Control, CommandOf
  <1>4. \A q \in Procs : q # p => CommandOf(q)'
    BY <1>1 DEF Control, CommandOf
  <1>5. pc' \in [Procs -> {"idle"} \cup ImportStep \cup CheckStep \cup PackStep]
    BY DEF Control
  <1> QED
    BY <1>3, <1>4, <1>5 DEF Control

LEMMA Ends ==
    ASSUME Control, NEW p \in Procs, End(p), second' = second
    PROVE  Control' /\ pc'[p] = "idle"
           /\ \A q \in Procs : q # p => pc'[q] = pc[q] /\ run'[q] = run[q]
  <1>1. /\ pc'[p] = "idle" /\ run'[p] = Idle /\ DOMAIN run' = Procs
        /\ \A q \in Procs : q # p => pc'[q] = pc[q] /\ run'[q] = run[q]
    BY Others DEF End, Goto
  <1>2. CommandOf(p)'
    <2>1. run'[p].c.op = "none"
      BY <1>1 DEF Idle
    <2> QED
      BY <1>1, <2>1 DEF CommandOf, ImportStep, CheckStep
  <1>3. \A q \in Procs : q # p => CommandOf(q)'
    BY <1>1 DEF Control, CommandOf
  <1>4. pc' \in [Procs -> {"idle"} \cup ImportStep \cup CheckStep \cup PackStep]
    BY DEF Control, End, Goto
  <1> QED
    BY <1>1, <1>2, <1>3, <1>4 DEF Control

LEMMA Starts ==
    ASSUME Inv, NEW p \in Procs, NEW c \in Calls[p], Start(p, c)
    PROVE  Control' /\ pc[p] = "idle" /\ pc'[p] = c.op
           /\ \A q \in Procs : q # p => pc'[q] = pc[q] /\ run'[q] = run[q]
  <1>1. c.op \in {"import", "check", "merge", "export"}
    BY CallsAssumption
  <1>2. \E got : /\ Begin(p, c, got)
                 /\ second' \in second..MaxSecond
                 /\ c.op = "import" => got[1] = second'
    <2>1. CASE c.op = "import"
      <3>1. PICK s \in {second, second + 1} \cap 0..MaxSecond :
                second' = s /\ Begin(p, c, <<s>>)
        BY <2>1 DEF Start
      <3>2. second' \in second..MaxSecond
        BY <3>1, PulseCoreAssumption DEF Inv, Control
      <3> QED
        BY <3>1, <3>2
    <2>2. CASE c.op # "import"
      <3>1. Begin(p, c, <<>>) /\ second' = second
        BY <2>2 DEF Start
      <3>2. second' \in second..MaxSecond
        BY <3>1, PulseCoreAssumption DEF Inv, Control
      <3> QED
        BY <2>2, <3>1, <3>2
    <2> QED
      BY <2>1, <2>2
  <1>3. PICK got : /\ Begin(p, c, got)
                   /\ second' \in second..MaxSecond
                   /\ c.op = "import" => got[1] = second'
    BY <1>2
  <1>4. pc[p] = "idle" /\ pc' = [pc EXCEPT ![p] = c.op]
        /\ run' = [run EXCEPT ![p] = [c |-> c, got |-> got, rest |-> <<>>]]
    BY <1>3 DEF Begin, Goto
  <1>5. /\ pc'[p] = c.op /\ run'[p] = [c |-> c, got |-> got, rest |-> <<>>]
        /\ DOMAIN run' = Procs
        /\ \A q \in Procs : q # p => pc'[q] = pc[q] /\ run'[q] = run[q]
    BY <1>4, Others DEF Inv
  <1>6. run'[p].c = c /\ run'[p].got = got
    BY <1>5
  <1>7. second \in Nat /\ MaxSecond \in Nat /\ second' \in 0..MaxSecond
        /\ second' \in 0..second' /\ 0..second \subseteq 0..second'
    BY <1>3, PulseCoreAssumption DEF Inv, Control
  <1>8. CommandOf(p)'
    BY <1>1, <1>3, <1>5, <1>6, <1>7 DEF CommandOf, ImportStep, CheckStep
  <1>9. \A q \in Procs : q # p => CommandOf(q)'
    BY <1>5, <1>7 DEF Inv, Control, CommandOf
  <1>10. pc' \in [Procs -> {"idle"} \cup ImportStep \cup CheckStep \cup PackStep]
    BY <1>1, <1>4 DEF Inv, Control, ImportStep, CheckStep, PackStep
  <1> QED
    BY <1>4, <1>5, <1>7, <1>8, <1>9, <1>10 DEF Control

-----------------------------------------------------------------------------
(* What a step that leaves the files alone keeps *)

Same(q) == pc'[q] = pc[q] /\ run'[q] = run[q]

LEMMA HashedStays ==
    ASSUME Hashed, NEW p \in Procs, UNCHANGED <<G, edits, store>>,
           \A q \in Procs : q # p => Same(q),
           pc'[p] \in ImportStep \ {"import"} => Resolved(run'[p].rest)
    PROVE  Hashed'
  BY DEF Hashed, Same

LEMMA WaitedStays ==
    ASSUME Waited, NEW p \in Procs, UNCHANGED <<child, strays, deaths>>,
           \A q \in Procs : q # p => Same(q),
           pc'[p] = "premflow_wait" <=> pc[p] = "premflow_wait"
    PROVE  Waited'
  BY DEF Waited, Same

LEMMA KeptStays ==
    ASSUME Kept, NEW p \in Procs, UNCHANGED <<baks, copies, replaced, store>>,
           \A q \in Procs : q # p => Same(q),
           pc'[p] = "import_replace" /\ store # None =>
              baks[run'[p].got[1]] = store /\ copies[run'[p].got[1]] # 0
    PROVE  Kept'
  BY DEF Kept, OldStoreKept, Same

\* A command that ends, or starts, elsewhere than at premflow_wait.
LEMMA IdleStays ==
    ASSUME Inv, NEW p \in Procs, UNCHANGED <<G, edits, store, baks, copies, replaced,
                                             child, strays, deaths>>,
           \A q \in Procs : q # p => Same(q),
           pc[p] # "premflow_wait",
           pc'[p] \in {"idle", "import", "check", "merge", "export"}
    PROVE  Hashed' /\ Waited' /\ Kept'
  <1>1. pc'[p] # "premflow_wait" /\ pc'[p] # "import_replace"
        /\ ~(pc'[p] \in ImportStep \ {"import"})
    BY DEF ImportStep
  <1>2. Hashed'
    BY <1>1, HashedStays DEF Inv
  <1>3. Waited'
    BY <1>1, WaitedStays DEF Inv
  <1>4. Kept'
    BY <1>1, KeptStays DEF Inv
  <1> QED
    BY <1>2, <1>3, <1>4

\* A command whose next step neither imports nor waits.
LEMMA ElsewhereStays ==
    ASSUME Inv, NEW p \in Procs, UNCHANGED <<G, edits, store, baks, copies, replaced,
                                             child, strays, deaths>>,
           \A q \in Procs : q # p => Same(q),
           pc[p] # "premflow_wait", pc'[p] # "premflow_wait",
           ~(pc'[p] \in ImportStep)
    PROVE  Hashed' /\ Waited' /\ Kept'
  <1>1. pc'[p] # "import_replace"
    BY DEF ImportStep
  <1>2. Hashed'
    BY HashedStays DEF Inv
  <1>3. Waited'
    BY WaitedStays DEF Inv
  <1>4. Kept'
    BY <1>1, KeptStays DEF Inv
  <1> QED
    BY <1>2, <1>3, <1>4

\* Nor does a step of another file's.
LEMMA FilesStay ==
    ASSUME Inv, UNCHANGED <<pc, run, second, G, edits, store, baks, copies, replaced,
                            child, strays, deaths>>
    PROVE  Inv'
  BY DEF Inv, Control, CommandOf, Hashed, Waited, Kept, OldStoreKept

-----------------------------------------------------------------------------
(* The mission table *)

\* resolve_g finds one of the roots, or none.
LEMMA ResolveIs ==
    ASSUME NEW g PROVE resolve_g(g) \in 1..Roots \cup {None}
  <1> DEFINE has == {r \in 1..Roots : G[r][g] # Gone}
  <1>1. has \in SUBSET Nat /\ has \in SUBSET (1..Roots)
    OBVIOUS
  <1>2. IsFiniteSet(has)
    BY <1>1, PulseCoreAssumption, FS_Interval, FS_Subset
  <1>3. resolve_g(g) = IF has = {} THEN None ELSE CHOOSE r \in has : \A q \in has : r <= q
    BY DEF resolve_g
  <1> HIDE DEF has
  <1>4. CASE has = {}
    BY <1>3, <1>4
  <1>5. CASE has # {}
    <2>1. \E r \in has : \A q \in has : r <= q
      BY <1>1, <1>2, <1>5, LeastOf
    <2>2. resolve_g(g) \in has
      BY <1>3, <1>5, <2>1
    <2> QED
      BY <1>1, <2>2
  <1> QED
    BY <1>4, <1>5

LEMMA MissionsResolved ==
    ASSUME NEW rows PROVE Resolved({Mission(row) : row \in rows})
  <1> DEFINE missions == {Mission(row) : row \in rows}
  <1> SUFFICES ASSUME NEW x \in Sources(missions)
               PROVE  x[1].gs[x[2]].resolved \in 1..Roots \cup {None}
    BY DEF Resolved
  <1>0. PICK m \in missions : \E g \in DOMAIN m.gs : x = <<m, g>>
    BY DEF Sources
  <1>1. PICK g \in DOMAIN m.gs : x = <<m, g>>
    BY <1>0
  <1>2. PICK row \in rows : m = Mission(row)
    OBVIOUS
  <1>3. m.gs = [h \in row.gs |-> GFile(h)]
    BY <1>2 DEF Mission
  <1>4. m.gs[g] = GFile(g)
    BY <1>1, <1>3
  <1>5. GFile(g).resolved = resolve_g(g)
    BY DEF GFile
  <1>6. x[1] = m /\ x[2] = g
    BY <1>1
  <1> QED
    BY <1>4, <1>5, <1>6, ResolveIs

-----------------------------------------------------------------------------
(* Imports *)

LEMMA StepLabel ==
    /\ {"import", "import_target", "import_backup", "import_replace"} = ImportStep
    /\ "premflow_wait" \notin ImportStep /\ "idle" \notin ImportStep
    /\ \A l \in ImportStep : l # "premflow_wait" /\ l # "idle"
    /\ \A l \in PackStep : l # "premflow_wait" /\ l # "idle" /\ l # "import_replace"
                           /\ ~(l \in ImportStep) /\ ~(l \in CheckStep)
    /\ \A l \in CheckStep : l # "idle" /\ l # "import_replace" /\ ~(l \in ImportStep)
  BY DEF ImportStep, CheckStep, PackStep

LEMMA ReadKeeps ==
    ASSUME Inv, NEW p \in Procs, import_read(p) PROVE Inv'
  <1> DEFINE rows == parse_mission_table(Tables[run[p].c.spec])
             missions == {Mission(row) : row \in rows}
  <1>1. pc[p] = "import" /\ UNCHANGED <<G, edits, store, baks, copies, replaced,
                                        second, child, strays, deaths>>
    BY DEF import_read, At, pulseVars, histVars
  <1>2. CASE rows = None
    <2>1. End(p)
      BY <1>2 DEF import_read
    <2>2. Control' /\ pc'[p] = "idle" /\ \A q \in Procs : q # p => Same(q)
      BY <1>1, <2>1, Ends DEF Inv, Same
    <2> QED
      BY <1>1, <2>2, IdleStays DEF Inv
  <1>3. CASE rows # None
    <2>1. pc' = [pc EXCEPT ![p] = "import_target"]
          /\ run' = [run EXCEPT ![p] = [c |-> run[p].c, got |-> run[p].got, rest |-> missions]]
      BY <1>3 DEF import_read, Goto, Holds
    <2> HIDE DEF rows, missions
    <2>2. Control'
      BY <1>1, <2>1, GoesOn, StepLabel DEF Inv, ImportStep, CheckStep
    <2>3. pc'[p] = "import_target" /\ \A q \in Procs : q # p => Same(q)
      BY <2>1, Others DEF Inv, Same
    <2>4. run'[p].rest = missions /\ Resolved(missions)
      BY <2>1, Others, MissionsResolved DEF Inv, missions
    <2>5. Hashed' /\ Waited' /\ Kept'
      BY <1>1, <2>3, <2>4, HashedStays, WaitedStays, KeptStays DEF Inv
    <2> QED
      BY <2>2, <2>5 DEF Inv
  <1> QED
    BY <1>2, <1>3

LEMMA TargetKeeps ==
    ASSUME Inv, NEW p \in Procs, import_target(p) PROVE Inv'
  <1>1. pc[p] = "import_target" /\ UNCHANGED <<G, edits, store, baks, copies, replaced,
                                               second, child, strays, deaths>>
    BY DEF import_target, At, pulseVars, histVars
  <1>2. \/ store = None /\ Goto(p, "import_replace") /\ run' = run
        \/ store # None /\ Goto(p, "import_backup") /\ run' = run
        \/ End(p)
    BY Zenon DEF import_target
  <1>3. CASE End(p)
    <2>1. Control' /\ pc'[p] = "idle" /\ \A q \in Procs : q # p => Same(q)
      BY <1>1, <1>3, Ends DEF Inv, Same
    <2> QED
      BY <1>1, <2>1, IdleStays DEF Inv
  <1>4. ASSUME NEW l \in {"import_replace", "import_backup"},
               l = "import_replace" => store = None, Goto(p, l), run' = run
        PROVE  Inv'
    <2>1. pc' = [pc EXCEPT ![p] = l]
      BY <1>4 DEF Goto
    <2>2. Control'
      BY <1>1, <1>4, <2>1, Moves, StepLabel DEF Inv, ImportStep, CheckStep
    <2>3. pc'[p] = l /\ \A q \in Procs : q # p => Same(q)
      BY <1>4, <2>1 DEF Inv, Control, Same
    <2>4. Resolved(run'[p].rest)
      BY <1>1, <1>4 DEF Inv, Hashed, ImportStep
    <2>5. Hashed' /\ Waited' /\ Kept'
      BY <1>1, <1>4, <2>3, <2>4, HashedStays, WaitedStays, KeptStays DEF Inv
    <2> QED
      BY <2>2, <2>5 DEF Inv
  <1> QED
    BY <1>2, <1>3, <1>4

\* A copy spoils no backup that is the only copy made in its second.
LEMMA CopyKeeps ==
    ASSUME Kept, NEW s \in 0..MaxSecond, NEW what, Copied(s, what), replaced' = replaced
    PROVE  /\ baks'[s] = what /\ copies'[s] # 0
           /\ DOMAIN baks' = 0..MaxSecond /\ copies' \in [0..MaxSecond -> Nat]
           /\ \A x \in replaced' : x.at \in 0..MaxSecond /\ copies'[x.at] # 0
           /\ OldStoreKept'
  <1>1. /\ baks' = [baks EXCEPT ![s] = what]
        /\ copies' = [copies EXCEPT ![s] = copies[s] + 1]
    BY DEF Copied
  <1>2. /\ baks'[s] = what /\ copies'[s] = copies[s] + 1 /\ copies[s] \in Nat
        /\ DOMAIN baks' = 0..MaxSecond /\ copies' \in [0..MaxSecond -> Nat]
    BY <1>1 DEF Kept
  <1>3. \A r \in 0..MaxSecond : r # s => baks'[r] = baks[r] /\ copies'[r] = copies[r]
    BY <1>1 DEF Kept
  <1>4. \A x \in replaced : x.at \in 0..MaxSecond /\ copies'[x.at] # 0
    BY <1>2, <1>3 DEF Kept
  <1>5. ASSUME NEW x \in replaced, copies'[x.at] = 1 PROVE baks'[x.at] = x.was
    <2>1. x.at # s
      BY <1>2, <1>5 DEF Kept
    <2> QED
      BY <1>3, <1>5, <2>1 DEF Kept, OldStoreKept
  <1> QED
    BY <1>2, <1>4, <1>5 DEF OldStoreKept

LEMMA BackupKeeps ==
    ASSUME Inv, NEW p \in Procs, import_backup(p) PROVE Inv'
  <1>1. /\ pc[p] = "import_backup" /\ UNCHANGED <<run, G, edits, store,
                                                  second, child, strays, deaths, replaced>>
        /\ Copied(run[p].got[1], store)
        /\ pc' = [pc EXCEPT ![p] = "import_replace"]
    BY DEF import_backup, At, Goto
  <1>2. Control'
    BY <1>1, Moves, StepLabel DEF Inv, ImportStep, CheckStep
  <1>3. pc'[p] = "import_replace" /\ \A q \in Procs : q # p => Same(q)
    BY <1>1 DEF Inv, Control, Same
  <1>4. Resolved(run'[p].rest)
    BY <1>1 DEF Inv, Hashed, ImportStep
  <1>5. Hashed'
    BY <1>1, <1>3, <1>4, HashedStays DEF Inv
  <1>6. Waited'
    BY <1>1, <1>3, WaitedStays DEF Inv
  <1>7. Kept'
    <2>1. run[p].got[1] \in 0..MaxSecond
      <3>1. run[p].got[1] \in 0..second /\ second \in 0..MaxSecond
        BY <1>1 DEF Inv, Control, CommandOf, ImportStep
      <3> QED
        BY <3>1, PulseCoreAssumption
    <2>2. \A q \in Procs : pc'[q] = "import_replace" => q = p
      BY <1>1, <1>3, Alone DEF Inv, Same, ImportStep
    <2> QED
      BY <1>1, <2>1, <2>2, CopyKeeps DEF Inv, Kept
  <1> QED
    BY <1>2, <1>5, <1>6, <1>7 DEF Inv

LEMMA ReplaceKeeps ==
    ASSUME Inv, NEW p \in Procs, import_replace(p) PROVE Inv'
  <1>1. /\ pc[p] = "import_replace" /\ UNCHANGED <<G, edits, baks, copies, second,
                                                   child, strays, deaths>>
        /\ store' = run[p].rest /\ End(p)
        /\ replaced' = IF store = None THEN replaced
                       ELSE replaced \cup {[was |-> store, at |-> run[p].got[1]]}
    BY DEF import_replace, At
  <1>2. Control' /\ pc'[p] = "idle" /\ \A q \in Procs : q # p => Same(q)
    BY <1>1, Ends DEF Inv, Same
  <1>3. Resolved(store')
    BY <1>1 DEF Inv, Hashed, ImportStep
  <1>4. Hashed'
    BY <1>1, <1>2, <1>3 DEF Inv, Hashed, Same, ImportStep
  <1>5. Waited'
    BY <1>1, <1>2, WaitedStays DEF Inv
  <1>6. Kept'
    <2>1. \A q \in Procs : pc'[q] # "import_replace"
      BY <1>1, <1>2, Alone DEF Inv, Same, ImportStep
    <2>2. CASE store = None
      BY <1>1, <2>1, <2>2 DEF Inv, Kept, OldStoreKept
    <2>3. CASE store # None
      <3> DEFINE x == [was |-> store, at |-> run[p].got[1]]
      <3>1. replaced' = replaced \cup {x}
        BY <1>1, <2>3
      <3>2. x.at \in 0..MaxSecond
        <4>1. run[p].got[1] \in 0..second /\ second \in 0..MaxSecond
          BY <1>1 DEF Inv, Control, CommandOf, ImportStep
        <4> QED
          BY <4>1, PulseCoreAssumption
      <3>3. baks[x.at] = x.was /\ copies[x.at] # 0
        BY <1>1, <2>3 DEF Inv, Kept
      <3> HIDE DEF x
      <3>4. \A y \in replaced' : y.at \in 0..MaxSecond /\ copies'[y.at] # 0
        BY <1>1, <3>1, <3>2, <3>3 DEF Inv, Kept
      <3>5. OldStoreKept'
        BY <1>1, <3>1, <3>3 DEF Inv, Kept, OldStoreKept
      <3> QED
        BY <1>1, <2>1, <3>4, <3>5 DEF Inv, Kept
    <2> QED
      BY <2>2, <2>3
  <1> QED
    BY <1>2, <1>4, <1>5, <1>6 DEF Inv

-----------------------------------------------------------------------------
(* Checks *)

\* No other process waits for a child.
LEMMA WaitsAlone ==
    ASSUME Control, NEW p \in Procs, pc[p] \in CheckStep,
           \A q \in Procs : q # p => Same(q)
    PROVE  \A q \in Procs : q # p => pc[q] # "premflow_wait" /\ pc'[q] # "premflow_wait"
  <1>1. "premflow_wait" \in CheckStep
    BY DEF CheckStep
  <1> QED
    BY <1>1, Alone DEF Same

\* A child left running is counted with the death or the failure that left it.
LEMMA AbandonedCounts ==
    ASSUME Waited, Abandoned, deaths' = deaths + 1
    PROVE  child' = NoChild /\ strays' \in Nat /\ deaths' \in Nat /\ strays' <= deaths'
  BY DEF Waited, Abandoned

LEMMA CheckEndsChild ==
    ASSUME Inv, NEW p \in Procs, NEW stats, PremflowEnds(p, stats), child' = NoChild,
           strays' \in Nat, deaths' \in Nat, strays' <= deaths',
           UNCHANGED <<G, edits, store, baks, copies, replaced, second>>,
           pc[p] \in {"check_premflow", "premflow_wait"}
    PROVE  Inv'
  <1>1. pc' = [pc EXCEPT ![p] = "check_end"]
        /\ run' = [run EXCEPT ![p] = [c |-> run[p].c, got |-> run[p].got, rest |-> <<stats>>]]
    BY DEF PremflowEnds, Goto, Holds
  <1>2. Control'
    BY <1>1, GoesOn, StepLabel DEF Inv, CheckStep
  <1>3. pc'[p] = "check_end" /\ \A q \in Procs : q # p => Same(q)
    BY <1>1, Others DEF Inv, Same
  <1>4. Hashed' /\ Kept'
    BY <1>3, HashedStays, KeptStays DEF Inv, ImportStep
  <1>5. Waited'
    <2>1. ~\E q \in Procs : pc'[q] = "premflow_wait"
      BY <1>3, WaitsAlone DEF Inv, CheckStep
    <2> QED
      BY <2>1 DEF Waited
  <1> QED
    BY <1>2, <1>4, <1>5 DEF Inv

LEMMA SpawnKeeps ==
    ASSUME Inv, NEW p \in Procs, premflow_spawn(p) PROVE Inv'
  <1>1. pc[p] = "check_premflow"
        /\ UNCHANGED <<G, edits, store, baks, copies, replaced, second, strays, deaths>>
    BY DEF premflow_spawn, At, histVars
  <1>2. CASE PremflowEnds(p, "error") /\ UNCHANGED child
    <2>1. pc' = [pc EXCEPT ![p] = "check_end"]
          /\ run' = [run EXCEPT ![p] = [c |-> run[p].c, got |-> run[p].got, rest |-> <<"error">>]]
      BY <1>2 DEF PremflowEnds, Goto, Holds
    <2>2. Control'
      BY <1>1, <2>1, GoesOn, StepLabel DEF Inv, CheckStep
    <2>3. pc'[p] = "check_end" /\ \A q \in Procs : q # p => Same(q)
      BY <2>1, Others DEF Inv, Same
    <2> QED
      BY <1>1, <1>2, <2>2, <2>3, ElsewhereStays DEF Inv, ImportStep
  <1>3. CASE /\ \E c \in Premflows : child' = [kind |-> c.kind, left |-> c.left, pipe |-> 0]
             /\ Goto(p, "premflow_wait") /\ UNCHANGED run
    <2>1. pc' = [pc EXCEPT ![p] = "premflow_wait"] /\ run' = run
      BY <1>3 DEF Goto
    <2>2. Control'
      BY <1>1, <2>1, Moves, StepLabel DEF Inv, CheckStep
    <2>3. pc'[p] = "premflow_wait" /\ \A q \in Procs : q # p => Same(q)
      BY <2>1 DEF Inv, Control, Same
    <2>4. Hashed' /\ Kept'
      BY <1>1, <2>3, HashedStays, KeptStays DEF Inv, ImportStep
    <2>5. PICK c \in Premflows : child' = [kind |-> c.kind, left |-> c.left, pipe |-> 0]
      BY <1>3
    <2>6. /\ child'.kind = c.kind /\ child'.left = c.left /\ child'.pipe = 0
          /\ c.kind # "none" /\ c.left \in Nat /\ PipeSize \in Nat
      BY <2>5, PulseCoreAssumption
    <2>7. child' # NoChild
      BY <2>6 DEF NoChild
    <2>8. Waited'
      BY <1>1, <2>3, <2>6, <2>7 DEF Inv, Waited
    <2> QED
      BY <2>2, <2>4, <2>8 DEF Inv
  <1> QED
    BY <1>2, <1>3 DEF premflow_spawn

LEMMA WritesKeeps ==
    ASSUME Inv, premflow_writes PROVE Inv'
  <1>1. /\ child.left > 0 /\ child.pipe < PipeSize
        /\ child' = [kind |-> child.kind, left |-> child.left - 1, pipe |-> child.pipe + 1]
        /\ UNCHANGED <<pc, run, G, edits, store, baks, copies, replaced, second, strays, deaths>>
    BY DEF premflow_writes, cmdVars, histVars
  <1>2. child'.kind = child.kind /\ child'.left = child.left - 1 /\ child'.pipe = child.pipe + 1
    BY <1>1
  <1>3. child # NoChild
    BY <1>1 DEF NoChild
  <1>4. PICK c \in Premflows : c.kind = child.kind /\ c.left = child.left + child.pipe
    BY <1>3 DEF Inv, Waited
  <1>5. child' # NoChild
    BY <1>2, <1>4, PulseCoreAssumption DEF NoChild
  <1>6. /\ child'.left \in Nat /\ child'.pipe \in Nat /\ child'.pipe <= PipeSize
        /\ c.kind = child'.kind /\ c.left = child'.left + child'.pipe
    BY <1>1, <1>2, <1>3, <1>4, PulseCoreAssumption DEF Inv, Waited
  <1>7. Waited'
    BY <1>1, <1>3, <1>5, <1>6 DEF Inv, Waited
  <1>8. Control' /\ Hashed' /\ Kept'
    BY <1>1 DEF Inv, Control, CommandOf, Hashed, Kept, OldStoreKept
  <1> QED
    BY <1>7, <1>8 DEF Inv

\* The steps that read, print or write elsewhere.
LEMMA GoesElsewhere ==
    ASSUME Inv, NEW p \in Procs, NEW l \in CheckStep \cup PackStep, l # "premflow_wait",
           NEW got, NEW rest, Goto(p, l), Holds(p, got, rest),
           pc[p] # "idle", pc[p] # "premflow_wait",
           l \in CheckStep => pc[p] \in CheckStep,
           UNCHANGED <<G, edits, store, baks, copies, replaced, child, strays, deaths, second>>
    PROVE  Inv'
  <1>1. pc' = [pc EXCEPT ![p] = l]
        /\ run' = [run EXCEPT ![p] = [c |-> run[p].c, got |-> got, rest |-> rest]]
    BY DEF Goto, Holds
  <1>2. ~(l \in ImportStep)
    BY StepLabel
  <1>3. Control'
    BY <1>1, <1>2, GoesOn DEF Inv
  <1>4. pc'[p] = l /\ \A q \in Procs : q # p => Same(q)
    BY <1>1, Others DEF Inv, Same
  <1> QED
    BY <1>2, <1>3, <1>4, ElsewhereStays DEF Inv

LEMMA EndsElsewhere ==
    ASSUME Inv, NEW p \in Procs, End(p), pc[p] # "premflow_wait",
           UNCHANGED <<G, edits, store, baks, copies, replaced, child, strays, deaths, second>>
    PROVE  Inv'
  <1>1. Control' /\ pc'[p] = "idle" /\ \A q \in Procs : q # p => Same(q)
    BY Ends DEF Inv, Same
  <1> QED
    BY <1>1, IdleStays DEF Inv

LEMMA CheckKeeps ==
    ASSUME Inv, NEW p \in Procs,
           \/ check_begin(p) \/ premflow_exited(p) \/ premflow_timeout(p)
           \/ premflow_error(p) \/ check_end(p)
    PROVE  Inv'
  <1>1. CASE check_begin(p)
    <2>1. pc[p] = "check" /\ Goto(p, "check_premflow")
          /\ UNCHANGED <<G, edits, store, baks, copies, replaced,
                         second, child, strays, deaths>>
          /\ \E got : Holds(p, got, <<>>)
      BY <1>1 DEF check_begin, At, pulseVars, histVars
    <2> QED
      BY <2>1, GoesElsewhere DEF CheckStep
  <1>2. CASE premflow_exited(p)
    <2>1. pc[p] = "premflow_wait" /\ PremflowEnds(p, child.kind) /\ child' = NoChild
          /\ UNCHANGED <<G, edits, store, baks, copies, replaced, second, strays, deaths>>
      BY <1>2 DEF premflow_exited, At, histVars
    <2> QED
      BY <2>1, CheckEndsChild DEF Inv, Waited
  <1>3. CASE premflow_timeout(p)
    <2>1. pc[p] = "premflow_wait" /\ PremflowEnds(p, "timeout") /\ child' = NoChild
          /\ UNCHANGED <<G, edits, store, baks, copies, replaced, second, strays, deaths>>
      BY <1>3 DEF premflow_timeout, At, histVars
    <2> QED
      BY <2>1, CheckEndsChild DEF Inv, Waited
  <1>4. CASE premflow_error(p)
    <2>1. pc[p] = "premflow_wait" /\ PremflowEnds(p, "error") /\ Abandoned
          /\ deaths' = deaths + 1 /\ UNCHANGED <<G, edits, store, baks, copies, replaced, second>>
      BY <1>4 DEF premflow_error, histVars
    <2>2. child' = NoChild /\ strays' \in Nat /\ deaths' \in Nat /\ strays' <= deaths'
      BY <2>1, AbandonedCounts DEF Inv
    <2> QED
      BY <2>1, <2>2, CheckEndsChild
  <1>5. CASE check_end(p)
    <2>1. pc[p] = "check_end" /\ Goto(p, "check_print")
          /\ UNCHANGED <<G, edits, store, baks, copies, replaced,
                         second, child, strays, deaths>>
      BY <1>5 DEF check_end, At, pulseVars, histVars
    <2>2. \E got : Holds(p, got, <<>>)
      BY <1>5, Zenon DEF check_end
    <2> QED
      BY <2>1, <2>2, GoesElsewhere DEF CheckStep
  <1> QED
    BY <1>1, <1>2, <1>3, <1>4, <1>5

LEMMA PackKeeps ==
    ASSUME Inv, NEW p \in Procs,
           \/ sidecar_index(p) \/ sidecar_text(p) \/ sidecar_newline(p)
           \/ export_pack(p) \/ Delivered(p)
    PROVE  Inv'
  <1>1. CASE sidecar_index(p)
    <2>1. pc[p] = "merge" /\ Goto(p, "merge_line")
          /\ UNCHANGED <<G, edits, store, baks, copies, replaced,
                         second, child, strays, deaths>>
          /\ \E rest : Holds(p, <<>>, rest)
      BY <1>1 DEF sidecar_index, At, pulseVars, histVars
    <2> QED
      BY <2>1, GoesElsewhere, StepLabel DEF PackStep
  <1>2. CASE sidecar_text(p)
    <2>1. pc[p] = "merge_line" /\ UNCHANGED <<G, edits, store, baks, copies, replaced,
                                              second, child, strays, deaths>>
      BY <1>2 DEF sidecar_text, At, histVars
    <2>2. CASE End(p)
      BY <2>1, <2>2, EndsElsewhere
    <2>3. CASE Goto(p, "merge_newline") /\ UNCHANGED run
      <3>1. pc' = [pc EXCEPT ![p] = "merge_newline"]
        BY <2>3 DEF Goto
      <3>2. Control'
        BY <2>1, <2>3, <3>1, Moves, StepLabel DEF Inv, PackStep
      <3>3. pc'[p] = "merge_newline" /\ \A q \in Procs : q # p => Same(q)
        BY <2>3, <3>1 DEF Inv, Control, Same
      <3> QED
        BY <2>1, <3>2, <3>3, ElsewhereStays DEF Inv, ImportStep
    <2> QED
      BY <1>2, <2>2, <2>3 DEF sidecar_text
  <1>3. CASE sidecar_newline(p)
    <2>1. pc[p] = "merge_newline" /\ Goto(p, "merge_line")
          /\ UNCHANGED <<G, edits, store, baks, copies, replaced,
                         second, child, strays, deaths>>
          /\ \E rest : Holds(p, <<>>, rest)
      BY <1>3 DEF sidecar_newline, At, histVars
    <2> QED
      BY <2>1, GoesElsewhere, StepLabel DEF PackStep
  <1>4. CASE export_pack(p)
    <2>1. pc[p] = "export" /\ Goto(p, "export_write")
          /\ UNCHANGED <<G, edits, store, baks, copies, replaced,
                         second, child, strays, deaths>>
          /\ \E got : Holds(p, got, <<>>)
      BY <1>4 DEF export_pack, At, pulseVars, histVars
    <2> QED
      BY <2>1, GoesElsewhere, StepLabel DEF PackStep
  <1>5. CASE Delivered(p)
    <2>1. pc[p] # "premflow_wait" /\ End(p)
          /\ UNCHANGED <<G, edits, store, baks, copies, replaced,
                         second, child, strays, deaths>>
      BY <1>5 DEF Delivered, At, pulseVars, histVars
    <2> QED
      BY <2>1, EndsElsewhere
  <1> QED
    BY <1>1, <1>2, <1>3, <1>4, <1>5

-----------------------------------------------------------------------------
(* Around the commands *)

\* A command that dies is no longer at a step of an import or a check; what it copied
\* is no backup an import at its last step relies on.
LEMMA DeathKeeps ==
    ASSUME Inv, NEW p \in Procs, Death(p) PROVE Inv'
  <1>1. /\ pc[p] # "idle" /\ End(p) /\ deaths' = deaths + 1
        /\ UNCHANGED <<G, edits, store, second, replaced>>
    BY DEF Death, Dies
  <1>2. /\ pc[p] = "import_backup" =>
              /\ UNCHANGED <<child, strays>>
              /\ UNCHANGED <<baks, copies>> \/ Copied(run[p].got[1], Torn)
        /\ pc[p] = "premflow_wait" => Abandoned /\ UNCHANGED <<baks, copies>>
        /\ pc[p] # "import_backup" /\ pc[p] # "premflow_wait" =>
              UNCHANGED <<child, strays, baks, copies>>
    BY Zenon DEF Death
  <1>3. Control' /\ pc'[p] = "idle" /\ \A q \in Procs : q # p => Same(q)
    BY <1>1, Ends DEF Inv, Same
  <1>4. Hashed'
    BY <1>1, <1>3, HashedStays DEF Inv, ImportStep
  <1>5. Waited'
    <2>1. CASE pc[p] = "premflow_wait"
      <3>1. child' = NoChild /\ strays' \in Nat /\ deaths' \in Nat /\ strays' <= deaths'
        BY <1>1, <1>2, <2>1, AbandonedCounts DEF Inv
      <3>2. ~\E q \in Procs : pc'[q] = "premflow_wait"
        BY <1>3, <2>1, WaitsAlone DEF Inv, CheckStep
      <3> QED
        BY <3>1, <3>2 DEF Waited
    <2>2. CASE pc[p] # "premflow_wait"
      <3>1. child' = child /\ strays' = strays
        BY <1>2, <2>2
      <3>2. \A q \in Procs : pc'[q] = "premflow_wait" <=> pc[q] = "premflow_wait"
        BY <1>3, <2>2 DEF Same
      <3> QED
        BY <1>1, <3>1, <3>2 DEF Inv, Waited
    <2> QED
      BY <2>1, <2>2
  <1>6. Kept'
    <2>1. CASE Copied(run[p].got[1], Torn) /\ pc[p] = "import_backup"
      <3>1. \A q \in Procs : pc'[q] # "import_replace"
        BY <1>3, <2>1, Alone DEF Inv, Same, ImportStep
      <3>2. run[p].got[1] \in 0..MaxSecond
        <4>1. run[p].got[1] \in 0..second /\ second \in 0..MaxSecond
          BY <2>1 DEF Inv, Control, CommandOf, ImportStep
        <4> QED
          BY <4>1, PulseCoreAssumption
      <3> QED
        BY <1>1, <2>1, <3>1, <3>2, CopyKeeps DEF Inv, Kept
    <2>2. CASE UNCHANGED <<baks, copies>>
      BY <1>1, <1>3, <2>2, KeptStays DEF Inv
    <2> QED
      BY <1>2, <2>1, <2>2
  <1> QED
    BY <1>3, <1>4, <1>5, <1>6 DEF Inv

LEMMA EditKeeps ==
    ASSUME Inv, NEW r \in 1..Roots, NEW g \in Gs, OwnerEdits(r, g) PROVE Inv'
  <1>1. /\ edits < MaxEdits /\ edits' = edits + 1
        /\ UNCHANGED <<pc, run, store, baks, copies, replaced, second, child, strays, deaths>>
    BY DEF OwnerEdits, cmdVars, histVars
  <1>2. PICK version \in {edits + 1, Gone} : G' = [G EXCEPT ![r] = [G[r] EXCEPT ![g] = version]]
    BY DEF OwnerEdits
  <1>3. edits' \in 0..MaxEdits /\ version \in 0..MaxEdits \cup {Gone}
    BY <1>1, PulseCoreAssumption DEF Inv, Hashed
  <1>4. [G[r] EXCEPT ![g] = version] \in [Gs -> 0..MaxEdits \cup {Gone}]
    BY <1>3 DEF Inv, Hashed
  <1>5. G' \in [1..Roots -> [Gs -> 0..MaxEdits \cup {Gone}]]
    BY <1>2, <1>4 DEF Inv, Hashed
  <1>6. Hashed'
    BY <1>1, <1>3, <1>5 DEF Inv, Hashed
  <1>7. Control' /\ Waited' /\ Kept'
    BY <1>1 DEF Inv, Control, CommandOf, Waited, Kept, OldStoreKept
  <1> QED
    BY <1>6, <1>7 DEF Inv

LEMMA StartKeeps ==
    ASSUME Inv, NEW p \in Procs, NEW c \in Calls[p], Start(p, c) PROVE Inv'
  <1>1. Control' /\ pc[p] = "idle" /\ pc'[p] = c.op /\ \A q \in Procs : q # p => Same(q)
    BY Starts DEF Same
  <1>2. pc'[p] \in {"import", "check", "merge", "export"}
    BY <1>1, CallsAssumption
  <1>3. UNCHANGED <<G, edits, store, baks, copies, replaced, child, strays, deaths>>
    BY DEF Start, Begin, histVars
  <1> QED
    BY <1>1, <1>2, <1>3, IdleStays DEF Inv

-----------------------------------------------------------------------------
(* Every state *)

LEMMA InitInv == Init => Inv
  <1> SUFFICES ASSUME Init PROVE Inv
    OBVIOUS
  <1>1. \A p \in Procs : pc[p] = "idle" /\ run[p] = Idle /\ Idle.c.op = "none"
    BY DEF Init, CmdInit, Idle
  <1>2. Control
    BY <1>1, PulseCoreAssumption DEF Init, CmdInit, Control, CommandOf, ImportStep, CheckStep
  <1>3. Hashed
    <2>1. OldG \in [1..Roots -> [Gs -> 0..MaxEdits \cup {Gone}]]
      <3>1. 0 \in 0..MaxEdits
        BY PulseCoreAssumption
      <3>2. \A r \in 1..Roots : OldG[r] \in [Gs -> 0..MaxEdits \cup {Gone}]
        BY <3>1, PulseCoreAssumption
      <3> QED
        BY <3>2, PulseCoreAssumption
    <2> QED
      BY <1>1, <2>1, PulseCoreAssumption, OldStoresAssumption DEF Init, Hashed, ImportStep
  <1>4. Waited
    BY <1>1, PulseCoreAssumption DEF Init, CmdInit, Waited
  <1>5. Kept
    BY <1>1 DEF Init, Kept, OldStoreKept
  <1> QED
    BY <1>2, <1>3, <1>4, <1>5 DEF Inv

LEMMA NextInv == Inv /\ [Next]_vars => Inv'
  <1> SUFFICES ASSUME Inv, [Next]_vars PROVE Inv'
    OBVIOUS
  <1>1. ASSUME NEW p \in Procs, Step(p) PROVE Inv'
    BY <1>1, ReadKeeps, TargetKeeps, BackupKeeps, ReplaceKeeps, SpawnKeeps, CheckKeeps,
       PackKeeps DEF Step
  <1>2. ASSUME NEW p \in Procs, NEW c \in Calls[p], Start(p, c) PROVE Inv'
    BY <1>2, StartKeeps
  <1>3. CASE UNCHANGED vars
    BY <1>3, FilesStay DEF vars, cmdVars, pulseVars, histVars
  <1> QED
    BY <1>1, <1>2, <1>3, DeathKeeps, WritesKeeps, EditKeeps DEF Next

THEOREM InvAlways == Spec => []Inv
  BY InitInv, NextInv, PTL DEF Spec

\* The files hold what belongs in them, premflow does what it may, and it was left running
\* no more often than checks died or failed to wait (pulse_core.rs run_premflow_stats,
\* resolve_g, import_missions).
THEOREM TypeCorrect == Spec => []TypeOK
  <1>1. Inv => TypeOK
    BY DEF Inv, Control, CommandOf, Hashed, Waited, TypeOK
  <1> QED
    BY <1>1, InvAlways, PTL

\* A mission store that an import has replaced stays in that import's backup for as long as
\* no later import of the same second copies over it (import_missions: "the old file is
\* kept").
THEOREM OldStoreIsKept == Spec => []OldStoreKept
  <1>1. Inv => OldStoreKept
    BY DEF Inv, Kept
  <1> QED
    BY <1>1, InvAlways, PTL
=============================================================================
