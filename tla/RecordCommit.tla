---------------------------- MODULE RecordCommit ----------------------------
(***************************************************************************)
(* The commit boundary of the record log (commit.rs, surface.rs): begin,   *)
(* validate, append to a staging file, fsync into the log, verify - under  *)
(* an exclusive flock, with a checkpoint file that "record recover" reads  *)
(* after a crash.                                                          *)
(*                                                                         *)
(* One action is one access to a shared file.  write_atomic (temporary     *)
(* file, sync, rename) is one step: its temporary name is never read and a *)
(* reader opens the old file or the new one.  A process may die, or a file *)
(* operation fail, before every step; the operating system itself does not *)
(* fail.  The simulated crashes of CommitFault are for tests (every caller *)
(* passes the default) and are left out: Die covers their real form.       *)
(*                                                                         *)
(* A process is a PID: the staging file is named after it and survives it, *)
(* so a call may find the staging file an earlier call of its PID left.    *)
(* An event stands for its encoded line; KeyOf is its (aggregate, key)     *)
(* pair and Valid the events that pass check().                            *)
(***************************************************************************)
EXTENDS Integers, Sequences

CONSTANTS
    Procs,
    Events,
    KeyOf,       \* the idempotency key of an event
    Valid,       \* the events check() accepts
    Units,       \* the units of work callers submit
    Mcp,         \* the processes that are MCP servers: agents call them
    Reserved,    \* the events whose source is the owner or a human
    MaxCalls     \* bound: calls in a behaviour

ASSUME EventsAssumption == Valid \subseteq Events /\ Units \subseteq Seq(Events)
ASSUME McpAssumption == Mcp \subseteq Procs /\ Reserved \subseteq Events
ASSUME MaxCallsAssumption == MaxCalls \in Nat

VARIABLES
    log,         \* the lines of the event log
    ck,          \* the checkpoint file
    staging,     \* the staging file of each PID
    lock,        \* the holder of the flock
    pc,          \* where each process is
    unit,        \* the unit of work it handles
    told,        \* the last answer it printed, and about which unit
    calls        \* calls made so far

files == <<log, ck, staging>>
vars == <<log, ck, staging, lock, pc, unit, told, calls>>

Nobody == "nobody"
ASSUME NobodyAssumption == Nobody \notin Procs

\* No checkpoint: its phase is "absent".
NoCheckpoint == [phase |-> "absent", unit |-> <<>>]
NoStaging    == [exists |-> FALSE, lines |-> <<>>]
NoAnswer     == [answer |-> "none", unit |-> <<>>]

Init ==
    /\ log = <<>>
    /\ ck = NoCheckpoint
    /\ staging = [p \in Procs |-> NoStaging]
    /\ lock = Nobody
    /\ pc = [p \in Procs |-> "out"]
    /\ unit = [p \in Procs |-> <<>>]
    /\ told = [p \in Procs |-> NoAnswer]
    /\ calls = 0

-----------------------------------------------------------------------------

At(p, here) == pc[p] = here

Goto(p, there) == pc' = [pc EXCEPT ![p] = there]

\* The call returns: the lock's guard is dropped.
Return(p, answer) ==
    /\ Goto(p, "out")
    /\ lock' = IF lock = p THEN Nobody ELSE lock
    /\ told' = [told EXCEPT ![p] = [answer |-> answer, unit |-> unit[p]]]

\* An agent does not speak for a person.  The server stamps the time of record on every
\* event, so a unit that is sent again has other lines and the same keys.
prepare_mcp_unit(u) == \A i \in DOMAIN u : u[i] \notin Reserved

\* commit_json is called with a unit, recover_json with none.
CallCommit(p, u) ==
    /\ At(p, "out")
    /\ p \in Mcp => prepare_mcp_unit(u)
    /\ calls < MaxCalls
    /\ calls' = calls + 1
    /\ Goto(p, "commit")
    /\ unit' = [unit EXCEPT ![p] = u]
    /\ told' = [told EXCEPT ![p] = NoAnswer]
    /\ UNCHANGED <<files, lock>>

\* MCP has no tool for it.
CallRecover(p) ==
    /\ At(p, "out")
    /\ p \notin Mcp
    /\ calls < MaxCalls
    /\ calls' = calls + 1
    /\ Goto(p, "recover")
    /\ unit' = [unit EXCEPT ![p] = <<>>]
    /\ told' = [told EXCEPT ![p] = NoAnswer]
    /\ UNCHANGED <<files, lock>>

\* Mutant: a shared lock is taken.
Acquire_shared(p) ==
    /\ \/ At(p, "commit")  /\ Goto(p, "keys")
       \/ At(p, "recover") /\ Goto(p, "load")
    /\ lock' = p
    /\ UNCHANGED <<files, unit, told, calls>>

\* ExclusiveLogLock::acquire blocks in flock.
Acquire(p) ==
    /\ lock = Nobody
    /\ \/ At(p, "commit")  /\ Goto(p, "keys")
       \/ At(p, "recover") /\ Goto(p, "load")
    /\ lock' = p
    /\ UNCHANGED <<files, unit, told, calls>>

-----------------------------------------------------------------------------
(* commit_json *)

\* An event of u has the key of one in the log, or of another one in u.
Known(u) ==
    \/ \E i \in 1..Len(u), j \in 1..Len(log) : KeyOf[u[i]] = KeyOf[log[j]]
    \/ \E i, j \in 1..Len(u) : i # j /\ KeyOf[u[i]] = KeyOf[u[j]]

RejectKnownKeys(p) ==
    /\ At(p, "keys")
    /\ IF Known(unit[p]) THEN Return(p, "refused")
                         ELSE Goto(p, "begin") /\ UNCHANGED <<lock, told>>
    /\ UNCHANGED <<files, unit, calls>>

\* Mutant: a checkpoint found on disk is kept.
Begin_keepsOld(p) ==
    /\ At(p, "begin")
    /\ ck' = IF ck = NoCheckpoint THEN [phase |-> "begin", unit |-> unit[p]] ELSE ck
    /\ Goto(p, "validate")
    /\ UNCHANGED <<log, staging, lock, unit, told, calls>>

\* Whatever checkpoint an earlier call left is overwritten.
Begin(p) ==
    /\ At(p, "begin")
    /\ ck' = [phase |-> "begin", unit |-> unit[p]]
    /\ Goto(p, "validate")
    /\ UNCHANGED <<log, staging, lock, unit, told, calls>>

IsValid(u) == u # <<>> /\ \A i \in 1..Len(u) : u[i] \in Valid

\* Mutant: the guard of the lock outlives a failed call.
Validate_keepsLock(p) ==
    /\ At(p, "validate")
    /\ IF IsValid(unit[p])
       THEN Goto(p, "create") /\ UNCHANGED told
       ELSE /\ Goto(p, "out")
            /\ told' = [told EXCEPT ![p] = [answer |-> "error", unit |-> unit[p]]]
    /\ UNCHANGED <<files, lock, unit, calls>>

\* An invalid unit is an error; the checkpoint stays behind.
Validate(p) ==
    /\ At(p, "validate")
    /\ IF IsValid(unit[p]) THEN Goto(p, "create") /\ UNCHANGED <<lock, told>>
                           ELSE Return(p, "error")
    /\ UNCHANGED <<files, unit, calls>>

\* Mutant: the file found is opened and appended to.
CreateStaging_keepsOld(p) ==
    /\ At(p, "create")
    /\ staging' = [staging EXCEPT ![p].exists = TRUE]
    /\ Goto(p, "write")
    /\ UNCHANGED <<log, ck, lock, unit, told, calls>>

\* append_staging removes what its PID left behind and creates the file anew.
CreateStaging(p) ==
    /\ At(p, "create")
    /\ staging' = [staging EXCEPT ![p] = [exists |-> TRUE, lines |-> <<>>]]
    /\ Goto(p, "write")
    /\ UNCHANGED <<log, ck, lock, unit, told, calls>>

\* A crash in the loop leaves some of the lines.  Like the empty file that Die leaves
\* before this step, they are only ever removed.
WriteStaging(p) ==
    /\ At(p, "write")
    /\ staging' = [staging EXCEPT ![p] = [exists |-> TRUE, lines |-> @.lines \o unit[p]]]
    /\ Goto(p, "rename")
    /\ UNCHANGED <<log, ck, lock, unit, told, calls>>

\* fsync_unit: the log is replaced by itself followed by the staged lines.  (Its refusal
\* of a log with a partial last line has no counterpart: every rename leaves whole lines.)
RenameLog(p) ==
    /\ At(p, "rename")
    /\ IF staging[p].exists
       THEN /\ log' = log \o staging[p].lines
            /\ Goto(p, "clean")
            /\ UNCHANGED <<lock, told>>
       ELSE Return(p, "error") /\ UNCHANGED log
    /\ UNCHANGED <<ck, staging, unit, calls>>

CleanStaging(p) ==
    /\ At(p, "clean")
    /\ staging' = [staging EXCEPT ![p] = NoStaging]
    /\ Goto(p, "mark")
    /\ UNCHANGED <<log, ck, lock, unit, told, calls>>

\* Mutant: the phase written is the one just left.
MarkVerify_done(p) ==
    /\ At(p, "mark")
    /\ ck' = [phase |-> "done", unit |-> unit[p]]
    /\ Goto(p, "verify")
    /\ UNCHANGED <<log, staging, lock, unit, told, calls>>

MarkVerify(p) ==
    /\ At(p, "mark")
    /\ ck' = [phase |-> "verify", unit |-> unit[p]]
    /\ Goto(p, "verify")
    /\ UNCHANGED <<log, staging, lock, unit, told, calls>>

EndsWith(l, u) ==
    /\ Len(u) <= Len(l)
    /\ \A i \in 1..Len(u) : l[Len(l) - Len(u) + i] = u[i]

\* verify_log_tail, for a commit and for a recovery.
VerifyTail(p) ==
    /\ At(p, "verify")
    /\ IF EndsWith(log, unit[p]) THEN Goto(p, "clear") /\ UNCHANGED <<lock, told>>
                                 ELSE Return(p, "error")
    /\ UNCHANGED <<files, unit, calls>>

ClearCheckpoint(p) ==
    /\ At(p, "clear")
    /\ ck' = NoCheckpoint
    /\ Return(p, "done")
    /\ UNCHANGED <<log, staging, unit, calls>>

-----------------------------------------------------------------------------
(* recover_json *)

\* Only the Verify phase is resumed; without a checkpoint there is nothing to read.
LoadCheckpoint(p) ==
    /\ At(p, "load")
    /\ unit' = [unit EXCEPT ![p] = ck.unit]
    /\ CASE ck.phase = "absent" -> Return(p, "error")
         [] ck.phase = "verify" -> Goto(p, "verify") /\ UNCHANGED <<lock, told>>
         [] OTHER               -> Goto(p, "abandon") /\ UNCHANGED <<lock, told>>
    /\ UNCHANGED <<files, calls>>

\* cleanup_staging: the staging file of this PID, not of the one that crashed.
AbandonStaging(p) ==
    /\ At(p, "abandon")
    /\ staging' = [staging EXCEPT ![p] = NoStaging]
    /\ Goto(p, "forget")
    /\ UNCHANGED <<log, ck, lock, unit, told, calls>>

ForgetCheckpoint(p) ==
    /\ At(p, "forget")
    /\ ck' = NoCheckpoint
    /\ Return(p, "abort")
    /\ UNCHANGED <<log, staging, unit, calls>>

-----------------------------------------------------------------------------
(* Failures: the files stay as they are and the lock goes. *)

\* A file operation fails and `?` returns its error.
IoError(p) ==
    /\ pc[p] # "out"
    /\ Return(p, "error")
    /\ UNCHANGED <<files, unit, calls>>

\* The process dies; nobody is told anything.
Die(p) ==
    /\ pc[p] # "out"
    /\ Goto(p, "out")
    /\ lock' = IF lock = p THEN Nobody ELSE lock
    /\ UNCHANGED <<files, unit, told, calls>>

\* What a process that holds the lock does.
Step(p) ==
    \/ RejectKnownKeys(p) \/ Begin(p) \/ Validate(p)
    \/ CreateStaging(p) \/ WriteStaging(p)
    \/ RenameLog(p) \/ CleanStaging(p) \/ MarkVerify(p)
    \/ VerifyTail(p) \/ ClearCheckpoint(p)
    \/ LoadCheckpoint(p) \/ AbandonStaging(p) \/ ForgetCheckpoint(p)

Next ==
    \E p \in Procs :
       \/ \E u \in Units : CallCommit(p, u)
       \/ CallRecover(p)
       \/ Acquire(p)
       \/ Step(p)
       \/ IoError(p)
       \/ Die(p)

Spec == Init /\ [][Next]_vars

\* A process that holds the lock is scheduled until it returns.  Nothing is assumed of
\* who calls, who gets the lock and who fails.
FairSpec == Spec /\ \A p \in Procs : WF_vars(Step(p))

-----------------------------------------------------------------------------
(* Properties *)

TypeOK ==
    /\ log \in Seq(Events)
    /\ ck \in [phase : {"absent", "begin", "verify"}, unit : Units \cup {<<>>}]
    /\ staging \in [Procs -> [exists : BOOLEAN, lines : Seq(Events)]]
    /\ lock \in Procs \cup {Nobody}
    /\ pc \in [Procs -> {"out", "commit", "recover", "keys", "begin", "validate", "create",
                         "write", "rename", "clean", "mark", "verify", "clear",
                         "load", "abandon", "forget"}]
    /\ unit \in [Procs -> Units \cup {<<>>}]
    /\ told \in [Procs -> [answer : {"none", "done", "abort", "refused", "error"},
                           unit : Units \cup {<<>>}]]
    /\ calls \in Nat

\* No idempotency key is twice in the log, however callers race, die and retry: the keys
\* are looked up and the log replaced under one lock (reject_known_keys, fsync_unit).
KeysUnique ==
    \A i, j \in 1..Len(log) : KeyOf[log[i]] = KeyOf[log[j]] => i = j

\* A Verify checkpoint on disk always describes the end of the log, so a recovery from it
\* never fails with "tail mismatch", whichever calls were made since the crash.
VerifyIsTail == ck.phase = "verify" => EndsWith(log, ck.unit)

\* Files, lock and phases are invisible there: only the log and what callers were told.
Promise == INSTANCE AtomicLog WITH log <- log, told <- told

\* The files implement the atomic log: all of a unit or nothing, in one step, and "done"
\* is only ever said of a unit the log holds.
AtomicSpec == Promise!Spec

\* Whoever holds the lock lets go of it: no error path, early return or crash leaves the
\* log locked, and a commit never waits for something while it holds the lock.
LockIsReleased == \A p \in Procs : lock = p ~> lock # p

-----------------------------------------------------------------------------
(* What the documentation says of the program and the program does not do *)

\* "Finish a commit that stopped after fsync": so a recovery that says "abort" speaks of a
\* commit that never reached the log, as the test of an aborted unit asserts.
AbortMeansAbsent ==
    [][\A p \in Procs :
          told'[p] # told[p] /\ told'[p].answer = "abort" /\ told'[p].unit # <<>>
             => ~Promise!Holds(log, told'[p].unit)]_vars
=============================================================================
