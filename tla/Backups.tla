------------------------------- MODULE Backups -------------------------------
(***************************************************************************)
(* Database backups: the scheduler and an administrator's request each run *)
(* a dump into one directory and prune it to the newest files              *)
(* (internal/backup, worker/backup.go, api/admin_backup.go).  A file is    *)
(* named by the second it was begun in, and is there before it is whole.   *)
(***************************************************************************)
EXTENDS Integers, FiniteSets

CONSTANTS
    Runners,        \* the scheduler and the administrator's requests
    RetentionCount, \* 0 keeps everything
    MaxTime,        \* bound: seconds
    MaxFaults       \* bound: dumps that fail

VARIABLES
    clock,
    file,    \* file[t]: the dump begun at t
    run,     \* what every runner is doing
    overlap, \* two runs have overlapped or shared a second
    made,    \* dumps that have been completed
    faults

vars == <<clock, file, run, overlap, made, faults>>

Stamps == 1..MaxTime
Idle == [pc |-> "idle", at |-> 0, doomed |-> {}]

Init ==
    /\ clock = 1 /\ faults = 0 /\ overlap = FALSE /\ made = {}
    /\ file = [t \in Stamps |-> "absent"]
    /\ run = [r \in Runners |-> Idle]

TypeOK ==
    /\ clock \in Stamps /\ overlap \in BOOLEAN /\ faults \in 0..MaxFaults
    /\ \A t \in Stamps : file[t] \in {"absent", "partial", "good"}
    /\ \A r \in Runners : run[r].pc \in {"idle", "dump", "prune"} /\ run[r].doomed \subseteq Stamps

Tick ==
    /\ clock < MaxTime /\ clock' = clock + 1
    /\ UNCHANGED <<file, run, overlap, made, faults>>

\* List: whatever has the name of a backup, the newest first.
List == {t \in Stamps : file[t] # "absent"}
Newer(t) == {u \in List : u > t}

\* Create: pg_dump writes to its final name.  Two in one second share it.
Create(r) ==
    /\ run[r] = Idle
    /\ file' = [file EXCEPT ![clock] = "partial"]
    /\ run' = [run EXCEPT ![r] = [Idle EXCEPT !.pc = "dump", !.at = clock]]
    /\ overlap' = (overlap \/ file[clock] # "absent" \/ \E q \in Runners : run[q] # Idle)
    /\ UNCHANGED <<clock, made, faults>>

\* Mutation: the oldest are kept.
BeyondOldest == {t \in List : Cardinality({u \in List : u < t}) >= RetentionCount}

\* Prune: the files beyond the newest RetentionCount.
Beyond == {t \in List : Cardinality(Newer(t)) >= RetentionCount}

\* The dump is complete, unless another wrote to the same file meanwhile.
DumpSucceeds(r) ==
    /\ run[r].pc = "dump"
    /\ \/ file' = [file EXCEPT ![run[r].at] = "good"]
       \/ overlap /\ UNCHANGED file
    /\ made' = made \cup {run[r].at}
    /\ run' = [run EXCEPT ![r].pc = "prune"]
    /\ UNCHANGED <<clock, overlap, faults>>

\* It breaks off, also because the client of the request has gone: what was
\* written stays, and nothing is pruned.
DumpFails(r) ==
    /\ run[r].pc = "dump" /\ faults < MaxFaults
    /\ faults' = faults + 1
    /\ run' = [run EXCEPT ![r] = Idle]
    /\ UNCHANGED <<clock, file, overlap, made>>

PruneLists(r) ==
    /\ run[r].pc = "prune" /\ run[r].doomed = {}
    /\ run' = [run EXCEPT ![r] = IF RetentionCount > 0 /\ Beyond # {} THEN [@ EXCEPT !.doomed = Beyond] ELSE Idle]
    /\ UNCHANGED <<clock, file, overlap, made, faults>>

\* One after the other; a file that is gone already is no error.
PruneRemoves(r) ==
    \E t \in run[r].doomed :
        /\ file' = [file EXCEPT ![t] = "absent"]
        /\ run' = [run EXCEPT ![r] = IF run[r].doomed = {t} THEN Idle
                                    ELSE [run[r] EXCEPT !.doomed = @ \ {t}]]
        /\ UNCHANGED <<clock, overlap, made, faults>>

\* handleCreateBackup and runBackupOnce are the same two steps.
Step(r) == DumpSucceeds(r) \/ DumpFails(r) \/ PruneLists(r) \/ PruneRemoves(r)
Next == Tick \/ \E r \in Runners : Create(r) \/ Step(r)
Spec == Init /\ [][Next]_vars

\* Unless runs have overlapped or shared a second, the newest dump that was completed is there and
\* whole: neither the files of broken dumps nor a prune take it away.
NewestBackupStays ==
    /\ TypeOK
    /\ made # {} /\ ~overlap =>
          \E t \in made : file[t] = "good" /\ \A u \in made : u <= t
=============================================================================
