----------------------------- MODULE MemorySync -----------------------------
(***************************************************************************)
(* The episodic memory on hosts: one JSON document per host (memory.rs),   *)
(* written by command-line processes through the memory sink, carried      *)
(* between hosts in pulse packs (pulse_pack.rs).  The MCP server's tools   *)
(* only read it.  The packs' archive events are in PulseCore.              *)
(*                                                                         *)
(* One action is one access to a file.  All processes of a host write one  *)
(* temporary file, memory.json.tmp; a process that has it open writes to   *)
(* whatever the file has become when another renamed it meanwhile.  A      *)
(* process may end at any step (Die).  The pack of a host is one file,     *)
(* written in place.  An open that fails ends the command as far as memory *)
(* goes: with an explicit --memory it exits, else it goes on without.      *)
(***************************************************************************)
EXTENDS MemoryDoc

CONSTANTS
    Hosts,
    Procs,       \* command-line processes
    Home,        \* Home[p]: the host p runs on
    Leaves,      \* Leaves[p]: the kinds of entry that the commands p runs leave
    Missing,     \* no such file
    Torn,        \* a file cut short
    MaxTime,     \* bound: entries recorded
    MaxDeaths    \* bound: processes that end early

ASSUME SyncAssumption ==
    /\ Home \in [Procs -> Hosts]
    /\ Leaves \in [Procs -> SUBSET TrajectoryType]
    /\ MaxTime \in Nat /\ MaxDeaths \in Nat

ASSUME FilesAssumption == Torn # Missing /\ {Torn, Missing} \cap CrdtDocument = {}

VARIABLES
    file,    \* file[h]: the memory document of host h
    tmp,     \* tmp[h]: its temporary file
    pack,    \* pack[h]: the pulse pack h exported last, its memory part
    pc,      \* pc[p]: the next step of p's command
    mem,     \* mem[p]: the document p holds
    fd,      \* fd[p]: what the file p has open is by now: "tmp", "file" or "gone"
    now, deaths

files == <<file, tmp, pack>>
vars == <<file, tmp, pack, pc, mem, fd, now, deaths>>

Init ==
    /\ file = [h \in Hosts |-> Missing]
    /\ tmp = [h \in Hosts |-> Missing]
    /\ pack = [h \in Hosts |-> Missing]
    /\ pc = [p \in Procs |-> "idle"]
    /\ mem = [p \in Procs |-> NewDocument]
    /\ fd = [p \in Procs |-> "gone"]
    /\ now = 0
    /\ deaths = 0

Goto(p, label) == pc' = [pc EXCEPT ![p] = label]

Hold(p, doc) == mem' = [mem EXCEPT ![p] = doc]

End(p) == Goto(p, "idle") /\ Hold(p, NewDocument) /\ fd' = [fd EXCEPT ![p] = "gone"]

\* The command of p at a step; no step but Die counts deaths.
At(p, label) == pc[p] = label /\ UNCHANGED deaths

\* FilePersistence::load: Torn does not decode.
Readable(doc) == doc # Torn
OrNew(doc) == IF doc = Missing THEN NewDocument ELSE doc

-----------------------------------------------------------------------------
(* runtime load, tick, ... and reflect: open, record, sync_and_save *)

Open(p) ==
    /\ At(p, "idle")
    /\ now < MaxTime
    /\ Readable(file[Home[p]])
    /\ Hold(p, OrNew(file[Home[p]]))
    /\ Goto(p, "record")
    /\ UNCHANGED <<files, fd, now>>

\* record_applied, record_load, record_tick
Record(p) ==
    /\ At(p, "record")
    /\ now < MaxTime
    /\ now' = now + 1
    /\ \E kind \in Leaves[p] \ {"reflection"} : Hold(p, append_trajectory(mem[p], now', kind))
    /\ UNCHANGED <<files, pc, fd>>

\* MemorySink::reflect; an enriched summary replaces the one of the entry just appended.
Reflect(p) ==
    /\ At(p, "record")
    /\ "reflection" \in Leaves[p]
    /\ CanReflect(mem[p])
    /\ now < MaxTime
    /\ now' = now + 1
    /\ Hold(p, reflect(mem[p], now'))
    /\ Goto(p, "sync")
    /\ UNCHANGED <<files, fd>>

Save(p) ==
    /\ At(p, "record")
    /\ Goto(p, "sync")
    /\ UNCHANGED <<files, mem, fd, now>>

\* sync_and_save reads the file once more.
Sync(p) ==
    /\ At(p, "sync")
    /\ UNCHANGED <<files, now>>
    /\ LET onDisk == file[Home[p]] IN
         \/ /\ Readable(onDisk)
            /\ Hold(p, merge(mem[p], OrNew(onDisk)))
            /\ Goto(p, "open_tmp")
            /\ UNCHANGED fd
         \/ ~Readable(onDisk) /\ End(p)

-----------------------------------------------------------------------------
(* FilePersistence::save *)

\* Mutant: the document is written in place.
OpenTmp_inPlace(p) ==
    /\ At(p, "open_tmp")
    /\ file' = [file EXCEPT ![Home[p]] = Torn]
    /\ fd' = [fd EXCEPT ![p] = "file"]
    /\ Goto(p, "write_tmp")
    /\ UNCHANGED <<tmp, pack, mem, now>>

\* fs::write creates the temporary file or cuts the one there is.
OpenTmp(p) ==
    /\ At(p, "open_tmp")
    /\ tmp' = [tmp EXCEPT ![Home[p]] = Torn]
    /\ fd' = [fd EXCEPT ![p] = "tmp"]
    /\ Goto(p, "write_tmp")
    /\ UNCHANGED <<file, pack, mem, now>>

\* Writing over what another process wrote may leave the rest of a longer text behind.
Written(p, old) == {mem[p]} \cup (IF old \in {Missing, Torn} THEN {} ELSE {Torn})

WriteTmp(p) ==
    /\ At(p, "write_tmp")
    /\ LET h == Home[p] IN
         \/ /\ fd[p] = "tmp"
            /\ \E doc \in Written(p, tmp[h]) : tmp' = [tmp EXCEPT ![h] = doc]
            /\ UNCHANGED file
         \/ /\ fd[p] = "file"
            /\ \E doc \in Written(p, file[h]) : file' = [file EXCEPT ![h] = doc]
            /\ UNCHANGED tmp
         \/ fd[p] = "gone" /\ UNCHANGED <<file, tmp>>
    /\ Goto(p, "rename")
    /\ UNCHANGED <<pack, mem, fd, now>>

\* What a file that q has open becomes when p renames the temporary file of its host.
Renamed(p, q) ==
    CASE q = p -> "gone"
      [] q # p /\ Home[q] = Home[p] -> IF fd[q] = "tmp" THEN "file" ELSE "gone"
      [] OTHER -> fd[q]

\* The rename fails when another process has taken the temporary file away.
Rename(p) ==
    /\ At(p, "rename")
    /\ LET h == Home[p] IN
         \/ /\ tmp[h] # Missing
            /\ file' = [file EXCEPT ![h] = tmp[h]]
            /\ tmp' = [tmp EXCEPT ![h] = Missing]
            /\ fd' = [q \in Procs |-> Renamed(p, q)]
            /\ Hold(p, NewDocument)
            /\ Goto(p, "idle")
         \/ tmp[h] = Missing /\ UNCHANGED <<file, tmp>> /\ End(p)
    /\ UNCHANGED <<pack, now>>

-----------------------------------------------------------------------------
(* pulse-pack export and import *)

\* The pack repeats the trajectory as traces, each with the time it was admitted at.
traces_from_document(d) ==
    {[nat_key |-> e.at, ts |-> e.at, admitted |-> e.at, kind |-> e.kind] : e \in d.traj}

MemoryTrace == [nat_key : 0..MaxTime, ts : 0..MaxTime, admitted : 0..MaxTime,
                kind : TrajectoryType]

from_memory(d) == [memory_traces |-> traces_from_document(d), memory_crdt |-> d]

\* read_pulse_pack: a pack cut short does not parse; one that was written whole hashes.
Legible(f) == f \notin {Missing, Torn}

\* export_pulse_pack, then write_pulse_pack, which writes in place.  Nobody exports what
\* the pack already holds.
Export(p) ==
    /\ At(p, "idle")
    /\ Readable(file[Home[p]])
    /\ pack[Home[p]] # from_memory(OrNew(file[Home[p]]))
    /\ Hold(p, OrNew(file[Home[p]]))
    /\ Goto(p, "open_pack")
    /\ UNCHANGED <<files, fd, now>>

OpenPack(p) ==
    /\ At(p, "open_pack")
    /\ pack' = [pack EXCEPT ![Home[p]] = Torn]
    /\ Goto(p, "write_pack")
    /\ UNCHANGED <<file, tmp, mem, fd, now>>

WritePack(p) ==
    /\ At(p, "write_pack")
    /\ pack' = [pack EXCEPT ![Home[p]] = from_memory(mem[p])]
    /\ End(p)
    /\ UNCHANGED <<file, tmp, now>>

\* Mutant: the pack takes the document's place.
ImportedDoc_replaces(own, other) == other.memory_crdt

entry_from_trace(t) == [at |-> Later(t.admitted, t.ts), kind |-> t.kind]

\* The traces become a document with a trajectory only, of each key the latest entry.
merge_traces_into(d, traces) ==
    LET Newer(t, u) == entry_from_trace(u).at <= entry_from_trace(t).at
        latest == {t \in traces : \A u \in traces : u.nat_key = t.nat_key => Newer(t, u)}
    IN  merge(d, [NewDocument EXCEPT !.traj = {entry_from_trace(t) : t \in latest}])

\* The pack's document is merged, and then its traces.
ImportedDoc(own, other) == merge_traces_into(merge(own, other.memory_crdt), other.memory_traces)

\* The document is saved as it is merged here: unlike sync_and_save, the import does not
\* read the file again.
Import(p, from) ==
    /\ At(p, "idle")
    /\ Legible(pack[from])
    /\ Readable(file[Home[p]])
    /\ Hold(p, ImportedDoc(OrNew(file[Home[p]]), pack[from]))
    /\ Goto(p, "open_tmp")
    /\ UNCHANGED <<files, fd, now>>

-----------------------------------------------------------------------------

Die(p) ==
    /\ pc[p] # "idle"
    /\ deaths < MaxDeaths
    /\ deaths' = deaths + 1
    /\ End(p)
    /\ UNCHANGED <<files, now>>

Step(p) ==
    \/ Record(p) \/ Reflect(p) \/ Save(p) \/ Sync(p)
    \/ OpenTmp(p) \/ WriteTmp(p) \/ Rename(p) \/ OpenPack(p) \/ WritePack(p)

Next ==
    \E p \in Procs : \/ Open(p) \/ Export(p) \/ Step(p) \/ Die(p)
                     \/ \E from \in Hosts \ {Home[p]} : Import(p, from)

Spec == Init /\ [][Next]_vars

\* Processes that have begun are scheduled, and the hosts keep exchanging packs.
FairSpec ==
    /\ Spec
    /\ \A p \in Procs :
         /\ WF_vars(Step(p))
         /\ SF_vars(Export(p))
         /\ \A from \in Hosts \ {Home[p]} : SF_vars(Import(p, from))

-----------------------------------------------------------------------------
(* Properties *)

Moments == 0..MaxTime

IsDoc(d) ==
    /\ DOMAIN d = {"traj", "count", "skill", "history"}
    /\ \A e \in d.traj : e.at \in Moments /\ e.kind \in TrajectoryType
    /\ d.count \in Nat /\ d.skill \in Skill /\ d.history \subseteq Moments

\* Types.
TypeOK ==
    /\ \A h \in Hosts : /\ \A f \in {file[h], tmp[h]} \ {Missing, Torn} : IsDoc(f)
                        /\ Legible(pack[h]) => /\ IsDoc(pack[h].memory_crdt)
                                              /\ pack[h].memory_traces \subseteq MemoryTrace
    /\ \A p \in Procs : IsDoc(mem[p]) /\ fd[p] \in {"tmp", "file", "gone"}
    /\ now \in Moments /\ deaths \in 0..MaxDeaths

ReflectedAt(d) == {e.at : e \in {f \in d.traj : f.kind = "reflection"}}

\* As many records as fit, and none is older than one that was drained.
KeepsNewest(kept, all) ==
    /\ kept \subseteq all
    /\ Cardinality(kept) <= HistoryMax
    /\ kept # all => Cardinality(kept) = HistoryMax
    /\ \A x \in all \ kept, y \in kept : x < y

\* In every document the history is the newest of the moments it reflected at, and the skill
\* rests on sightings it counts, however merges, drained histories and packs followed.
WellFormed(d) == KeepsNewest(d.history, ReflectedAt(d)) /\ d.skill.version <= d.count

DocumentsWellFormed ==
    /\ \A p \in Procs : WellFormed(mem[p])
    /\ \A h \in Hosts : file[h] \notin {Missing, Torn} => WellFormed(file[h])

\* Whatever stopped where, the memory file is a whole document: only a rename replaces it,
\* and a process that stopped leaves nothing but the temporary file.
NeverTorn == \A h \in Hosts : file[h] # Torn

\* "So no write is ever lost" (memory.rs): the document a rename puts in the place of
\* another remembers it, whatever was recorded, merged from packs or left behind by a death
\* since that one was read.  With two writers on one host it need not, as each may read the
\* file before the other's rename.
NoWriteIsLost ==
    [][\A p \in Procs : LET h == Home[p] IN
         Rename(p) /\ {file[h], file'[h]} \cap {Missing, Torn} = {}
           => Remembers(file'[h], file[h])]_vars

\* Once nothing more is recorded, exchanging packs makes the documents the same, in
\* whatever order they are exported, cut short and imported, but for skills of one version.
Converges ==
    <>[](\A h, i \in Hosts :
            file[h] # Missing => file[i] # Missing /\ SameButForTies(file[h], file[i]))
=============================================================================
