------------------------------ MODULE Commands ------------------------------
(***************************************************************************)
(* The command-line processes that work on the desk's files.  A process    *)
(* runs one command at a time, one file access per step; it may end at any *)
(* step.  Commands given by hand are counted, those of a schedule are not. *)
(***************************************************************************)
EXTENDS Integers

CONSTANTS
    Procs,
    Calls,       \* Calls[p]: the commands p may run, records with the field op
    Scheduled,   \* the processes whose commands are started again and again
    MaxCalls,    \* bound: commands given by hand
    MaxDeaths    \* bound: commands that end early

ASSUME CommandsAssumption ==
    Scheduled \subseteq Procs /\ MaxCalls \in Nat /\ MaxDeaths \in Nat

VARIABLES
    pc,      \* pc[p]: the next step of p's command
    run,     \* run[p]: the command, and what the process holds
    calls, deaths

cmdVars == <<pc, run, calls, deaths>>

\* got: what the process read; rest: what it still has to write.
Idle == [c |-> [op |-> "none"], got |-> <<>>, rest |-> <<>>]

CmdInit ==
    /\ pc = [p \in Procs |-> "idle"]
    /\ run = [p \in Procs |-> Idle]
    /\ calls = 0
    /\ deaths = 0

At(p, label) == pc[p] = label /\ UNCHANGED <<calls, deaths>>

Goto(p, label) == pc' = [pc EXCEPT ![p] = label]

\* The command ends, having done all or having failed.
End(p) == Goto(p, "idle") /\ run' = [run EXCEPT ![p] = Idle]

Holds(p, got, rest) == run' = [run EXCEPT ![p] = [c |-> run[p].c, got |-> got, rest |-> rest]]

\* A command begins; got is what it takes from the clock.
Begin(p, c, got) ==
    /\ pc[p] = "idle"
    /\ p \notin Scheduled => calls < MaxCalls
    /\ calls' = IF p \in Scheduled THEN calls ELSE calls + 1
    /\ Goto(p, c.op)
    /\ run' = [run EXCEPT ![p] = [c |-> c, got |-> got, rest |-> <<>>]]
    /\ UNCHANGED deaths

Dies(p) ==
    /\ pc[p] # "idle"
    /\ deaths < MaxDeaths
    /\ deaths' = deaths + 1
    /\ End(p)
    /\ UNCHANGED calls
=============================================================================
