------------------------------ MODULE Embedded ------------------------------
(***************************************************************************)
(* The desktop build's server process and what it keeps on one machine:    *)
(* the embedded PostgreSQL of one data directory, the bundled plugins it   *)
(* spawns, the master key and the database password (internal/embedded and *)
(* run in cmd/muesli/main.go).  Launches may overlap: the application is   *)
(* killed and started again while the previous server is still stopping.   *)
(*                                                                         *)
(* A process id names whatever process has it now; an id is used again     *)
(* once its process is gone.  A signal is sent together with the identity  *)
(* check right before it (the gap the code calls irreducible is left out). *)
(***************************************************************************)
EXTENDS Integers, FiniteSets

CONSTANTS
    Launches,    \* server processes, in the order they are started
    Pids,        \* process ids a postmaster or a stranger may get
    MaxKills,    \* bound: servers killed
    MaxCrashes,  \* bound: postmasters that die by themselves
    MaxStrangers,\* bound: ids taken by unrelated processes
    MaxFaults,   \* bound: failed statements, spawns and timeouts
    MaxAttempts  \* attempts of PG.start

\* Zero stands for the lack of a launch or of a process id.
ASSUME ConstantsAssumption ==
    /\ Launches \subseteq Nat \ {0}
    /\ Pids \subseteq Nat \ {0}
    /\ MaxAttempts \in Nat

VARIABLES
    server,     \* what each server process knows; pid: the postmaster it stops or started
    lock,       \* the flock on the data directory: its holder, or 0
    proc,       \* the process table
    pidfile,    \* postmaster.pid: an id, or 0
    pgpass,     \* the password file: absent, empty, or whose password
    cluster,    \* the password the cluster was initialised with
    keyfile,    \* master.key: whose key, or 0
    sealed,     \* keys that data has been encrypted with
    child,      \* the plugins a server spawned
    registered, \* default plugins in the database: whose child
    used        \* kills, crashes, strangers and faults so far; a key written over another

vars == <<server, lock, proc, pidfile, pgpass, cluster, keyfile, sealed, child, registered, used>>

Absent == 0
Empty == -1
Kids == <<"agent", "whisper", "streaming">>
Free == [kind |-> "free", by |-> 0, sig |-> "none", from |-> 0]
NoServer == [pc |-> "off", key |-> 0, pw |-> 0, pid |-> 0, stale |-> FALSE, port |-> FALSE,
             attempts |-> 0, kid |-> 1, why |-> "none", err |-> FALSE, left |-> FALSE]

Alive(p) == p # 0 /\ proc[p].kind # "free"
\* processIsPostgresForPID: a postmaster of this directory, whoever started it.
ProcessIsPostgresFor(p) == p # 0 /\ proc[p].kind = "pm"
Running(i) == server[i].pc \notin {"off", "exited", "killed"}

TypeOK ==
    /\ lock \in Launches \cup {0} /\ pidfile \in Pids \cup {0}
    /\ pgpass \in Launches \cup {Absent, Empty} /\ cluster \in Launches \cup {0}
    /\ keyfile \in Launches \cup {0} /\ sealed \subseteq Launches
    /\ \A p \in Pids : proc[p].kind \in {"free", "pm", "other"} /\ proc[p].sig \in {"none", "int", "kill"}
    /\ \A i \in Launches : server[i].pid \in Pids \cup {0} /\ server[i].attempts \in 0..MaxAttempts
    /\ \A i \in Launches, k \in 1..3 : child[i][k] \in {"none", "up"}

Init ==
    /\ server = [i \in Launches |-> NoServer]
    /\ lock = 0 /\ proc = [p \in Pids |-> Free] /\ pidfile = 0
    /\ pgpass = Absent /\ cluster = 0 /\ keyfile = 0 /\ sealed = {}
    /\ child = [i \in Launches |-> <<"none", "none", "none">>]
    /\ registered = <<0, 0, 0>>
    /\ used = [kills |-> 0, crashes |-> 0, strangers |-> 0, faults |-> 0, keyRace |-> FALSE]

files == <<pgpass, cluster, keyfile>>
plugins == <<sealed, child, registered>>

At(i, pc) == server[i].pc = pc
Go(i, pc) == server' = [server EXCEPT ![i].pc = pc]
Fault == used.faults < MaxFaults /\ used' = [used EXCEPT !.faults = @ + 1]

-----------------------------------------------------------------------------
(* Before the database: the master key, the lock and the password.         *)

\* The application starts a server; the ones before it may still run.
Launch(i) ==
    /\ At(i, "off") /\ \A j \in Launches : j < i => ~At(j, "off")
    /\ Go(i, "key")
    /\ UNCHANGED <<lock, proc, pidfile, files, plugins, used>>

\* EnsureMasterKey: the key that is there, or a new one.
EnsureMasterKey(i) ==
    /\ At(i, "key")
    /\ server' = IF keyfile # 0 THEN [server EXCEPT ![i].pc = "lock", ![i].key = keyfile]
                 ELSE [server EXCEPT ![i].pc = "persist", ![i].key = i]
    /\ UNCHANGED <<lock, proc, pidfile, files, plugins, used>>

\* persistMasterKey: a rename, whatever is there by now.
PersistMasterKey(i) ==
    /\ At(i, "persist")
    /\ keyfile' = server[i].key
    /\ used' = [used EXCEPT !.keyRace = @ \/ keyfile # 0]
    /\ Go(i, "lock")
    /\ UNCHANGED <<lock, proc, pidfile, pgpass, cluster, plugins>>

\* The process ends; its descriptors are closed.
Leave(i, why) == server' = [server EXCEPT ![i].pc = "exit", ![i].why = why]

\* Mutation: a busy lock is waited for however long it takes.
AcquireOwnerLockForever(i) ==
    /\ At(i, "lock") /\ lock = 0 /\ lock' = i /\ Go(i, "pass")
    /\ UNCHANGED <<proc, pidfile, files, plugins, used>>

\* Mutation: the lock is shared, and excludes nobody.
AcquireOwnerLockShared(i) ==
    /\ At(i, "lock") /\ lock' = i /\ Go(i, "pass")
    /\ UNCHANGED <<proc, pidfile, files, plugins, used>>

\* acquireOwnerLock: until it is free, or too long.
AcquireOwnerLock(i) ==
    /\ At(i, "lock")
    /\ \/ lock = 0 /\ lock' = i /\ Go(i, "pass")
       \/ lock # 0 /\ Leave(i, "fault") /\ UNCHANGED lock
    /\ UNCHANGED <<proc, pidfile, files, plugins, used>>

\* Mutation: the file is not read, and every launch makes a password of its own.
LoadOrCreatePasswordAnew(i) ==
    /\ At(i, "pass")
    /\ pgpass' = Empty
    /\ server' = [server EXCEPT ![i].pc = "passwrite", ![i].pw = i]
    /\ UNCHANGED <<lock, proc, pidfile, cluster, keyfile, plugins, used>>

\* loadOrCreatePassword: an empty file is refused.  A new file is created first
\* and filled then.
LoadOrCreatePassword(i) ==
    /\ At(i, "pass")
    /\ \/ /\ pgpass = Absent
          /\ pgpass' = Empty
          /\ server' = [server EXCEPT ![i].pc = "passwrite", ![i].pw = i]
       \/ pgpass = Empty /\ Leave(i, "fault") /\ UNCHANGED pgpass
       \/ /\ pgpass \in Launches
          /\ server' = [server EXCEPT ![i].pc = "reap", ![i].pw = pgpass]
          /\ UNCHANGED pgpass
    /\ UNCHANGED <<lock, proc, pidfile, cluster, keyfile, plugins, used>>

WritePassword(i) ==
    /\ At(i, "passwrite")
    /\ pgpass' = server[i].pw
    /\ Go(i, "reap")
    /\ UNCHANGED <<lock, proc, pidfile, cluster, keyfile, plugins, used>>

-----------------------------------------------------------------------------
(* PG.start.                                                               *)

Signal(i, p, sig) ==
    proc' = [proc EXCEPT ![p].sig = IF @ = "kill" THEN @ ELSE sig, ![p].from = i]

\* reapOrphanPostgres: a live postmaster of this directory is stopped.
ReapOrphanPostgres(i) ==
    /\ At(i, "reap")
    /\ IF ~server[i].stale /\ ProcessIsPostgresFor(pidfile)
       THEN /\ Signal(i, pidfile, "int")
            /\ server' = [server EXCEPT ![i].pc = "reaping", ![i].pid = pidfile]
       ELSE Go(i, "clean") /\ UNCHANGED proc
    /\ UNCHANGED <<lock, pidfile, files, plugins, used>>

\* The wait for the process that was signalled.  It is gone (or pg_ctl no longer
\* finds its file) and the file is removed; or something still has its id when the
\* time is over, and the start fails: the orphan, or a stranger that took the id.
OrphanExited(i) ==
    LET orphan == server[i].pid
    IN /\ At(i, "reaping")
       /\ \/ /\ ~Alive(orphan) \/ pidfile = 0
             /\ pidfile' = 0
             /\ server' = [server EXCEPT ![i].pc = "clean", ![i].stale = TRUE]
             /\ UNCHANGED <<proc, used>>
          \/ /\ Alive(orphan)
             /\ Leave(i, "fault")
             /\ Fault \/ (~ProcessIsPostgresFor(orphan) /\ UNCHANGED used)
             /\ UNCHANGED <<proc, pidfile>>
       /\ UNCHANGED <<lock, files, plugins>>

\* removeStalePostmasterPID.
RemoveStalePostmasterPID(i) ==
    /\ At(i, "clean")
    /\ IF ~server[i].stale /\ pidfile # 0 /\ ~Alive(pidfile)
       THEN /\ pidfile' = 0
            /\ server' = [server EXCEPT ![i].pc = "launch", ![i].stale = TRUE]
       ELSE Go(i, "launch") /\ UNCHANGED pidfile
    /\ UNCHANGED <<lock, proc, files, plugins, used>>

\* The embedded library starts a postmaster under a fresh id and initialises
\* an empty cluster with the password it is given.
Spawn(i, p) ==
    /\ ~Alive(p)
    /\ proc' = [proc EXCEPT ![p] = [kind |-> "pm", by |-> i, sig |-> "none", from |-> 0]]
    /\ pidfile' = p
    /\ cluster' = IF cluster = 0 THEN server[i].pw ELSE cluster

\* ep.Start returned: it runs and its id is captured.
StartSucceeds(i) ==
    /\ At(i, "launch") /\ ~Alive(pidfile) /\ server[i].pw = (IF cluster = 0 THEN server[i].pw ELSE cluster)
    /\ \E p \in Pids : /\ Spawn(i, p)
                       /\ server' = [server EXCEPT ![i].pc = "migrate", ![i].pid = p]
    /\ UNCHANGED <<lock, pgpass, keyfile, plugins, used>>

\* The cluster knows another password.
PasswordRefused(i) ==
    /\ At(i, "launch") /\ ~Alive(pidfile) /\ cluster # 0 /\ server[i].pw # cluster
    /\ Leave(i, "password")
    /\ UNCHANGED <<lock, proc, pidfile, files, plugins, used>>

\* isStalePostmasterPIDError: the file names a live process.  Reaping and
\* cleaning are tried once more unless they have succeeded before.
StaleFile(i) ==
    /\ At(i, "launch") /\ Alive(pidfile)
    /\ IF ~server[i].stale /\ ProcessIsPostgresFor(pidfile) /\ server[i].attempts + 1 < MaxAttempts
       THEN server' = [server EXCEPT ![i].pc = "reap", ![i].attempts = @ + 1]
       ELSE Leave(i, "stale")
    /\ UNCHANGED <<lock, proc, pidfile, files, plugins, used>>

\* isPortTakenError: once with another port.
PortTaken(i) ==
    /\ At(i, "launch") /\ ~Alive(pidfile) /\ Fault
    /\ IF ~server[i].port /\ server[i].attempts + 1 < MaxAttempts
       THEN server' = [server EXCEPT ![i].pc = "reap", ![i].port = TRUE, ![i].attempts = @ + 1]
       ELSE Leave(i, "fault")
    /\ UNCHANGED <<lock, proc, pidfile, files, plugins>>

\* A start that fails, perhaps after the launch and with its own clean-up
\* failing too: StartPostgres then keeps the lock until the process ends.
StartFails(i) ==
    /\ At(i, "launch") /\ ~Alive(pidfile) /\ Fault
    /\ \/ \E p \in Pids : Spawn(i, p) /\ UNCHANGED lock
       \/ lock' = 0 /\ UNCHANGED <<proc, pidfile, cluster>>
    /\ server' = [server EXCEPT ![i].pc = "exit", ![i].why = "fault", ![i].left = (lock' = i)]
    /\ UNCHANGED <<pgpass, keyfile, plugins>>

-----------------------------------------------------------------------------
(* run: migrations, the plugins, serving.                                  *)

\* The extension, the migrations, the connection and whether Ollama is there;
\* if one of them fails the deferred shutdown runs.
Migrate(i) ==
    /\ At(i, "migrate")
    /\ \/ \E ollama \in BOOLEAN :
             server' = [server EXCEPT ![i].pc = "child", ![i].kid = IF ollama THEN 1 ELSE 2]
          /\ UNCHANGED used
       \/ Fault /\ server' = [server EXCEPT ![i].pc = "kids", ![i].kid = 1, ![i].why = "fault"]
    /\ UNCHANGED <<lock, proc, pidfile, files, plugins>>

\* A plugin is spawned, answers and is about to be registered; the next one
\* comes after that.
StartKid(i, k) ==
    /\ At(i, "child") /\ server[i].kid = k
    /\ child' = [child EXCEPT ![i][k] = "up"]
    /\ Go(i, "register")
    /\ UNCHANGED <<lock, proc, pidfile, files, sealed, registered, used>>

StartOllamaAgent(i) == StartKid(i, 1)
StartWhisperTranscriber(i) == StartKid(i, 2)
StartWhisperCppStreaming(i) == StartKid(i, 3)

\* waitForAgentReady gives up on it: it is stopped or killed again, and the
\* server fails.
KidNotReady(i) ==
    /\ At(i, "child") /\ Fault
    /\ server' = [server EXCEPT ![i].pc = "kids", ![i].kid = 1, ![i].why = "fault"]
    /\ UNCHANGED <<lock, proc, pidfile, files, sealed, child, registered>>

\* EnsureDefaultPlugin, sealing the plugin's configuration with the master key.
EnsureDefaultPlugin(i) ==
    LET k == server[i].kid
    IN /\ At(i, "register") /\ ProcessIsPostgresFor(server[i].pid)
       /\ registered' = [registered EXCEPT ![k] = i]
       /\ sealed' = sealed \cup {server[i].key}
       /\ server' = [server EXCEPT ![i].pc = IF k = 3 THEN "serve" ELSE "child",
                                   ![i].kid = IF k = 3 THEN 1 ELSE k + 1]
       /\ UNCHANGED <<lock, proc, pidfile, files, child, used>>

\* A signal, or watchParentDeath; without its database a server fails.
RequestStop(i) ==
    /\ \/ At(i, "serve")
       \/ At(i, "register") /\ ~ProcessIsPostgresFor(server[i].pid)
    /\ server' = [server EXCEPT ![i].pc = "kids", ![i].kid = 1]
    /\ UNCHANGED <<lock, proc, pidfile, files, plugins, used>>

-----------------------------------------------------------------------------
(* The deferred shutdown.                                                  *)

\* A plugin is interrupted, and killed once the time the whole shutdown shares
\* is over: either way it is gone.
StopKid(i, k, next) ==
    /\ At(i, "kids") /\ server[i].kid = k
    /\ child' = [child EXCEPT ![i][k] = "none"]
    /\ server' = [server EXCEPT ![i].pc = next, ![i].kid = IF next = "stop" THEN 1 ELSE k + 1]
    /\ UNCHANGED <<lock, proc, pidfile, files, sealed, registered, used>>

\* AgentHandle.Stop, then WhisperHandle.Stop for both transcribers.
StopAgent(i) == StopKid(i, 1, "kids")
StopWhisper(i) == StopKid(i, 2, "kids") \/ StopKid(i, 3, "stop")

Stopped(i, err) == server' = [server EXCEPT ![i].pc = "release", ![i].err = err]

\* Stop, stillOwnsPostmaster, stopOwnPostmaster: only the postmaster this
\* server started, and only while its id still is a postmaster's.
Stop(i) ==
    LET pid == server[i].pid
    IN /\ At(i, "stop")
       /\ IF pidfile # pid THEN Stopped(i, TRUE) /\ UNCHANGED proc
          ELSE IF ~ProcessIsPostgresFor(pid) THEN Stopped(i, Alive(pid)) /\ UNCHANGED proc
          ELSE Signal(i, pid, "int") /\ Go(i, "wait")
       /\ UNCHANGED <<lock, pidfile, files, plugins, used>>

\* waitForExit; too long, and it is killed.
WaitForExit(i) ==
    /\ At(i, "wait")
    /\ IF Alive(server[i].pid) THEN Go(i, "kill") ELSE Stopped(i, FALSE)
    /\ UNCHANGED <<lock, proc, pidfile, files, plugins, used>>

ForceKill(i) ==
    LET pid == server[i].pid
    IN /\ At(i, "kill")
       /\ IF ~ProcessIsPostgresFor(pid) THEN Stopped(i, Alive(pid)) /\ UNCHANGED proc
          ELSE Signal(i, pid, "kill") /\ Go(i, "killwait")
       /\ UNCHANGED <<lock, pidfile, files, plugins, used>>

WaitForKill(i) ==
    /\ At(i, "killwait")
    /\ Stopped(i, Alive(server[i].pid))
    /\ UNCHANGED <<lock, proc, pidfile, files, plugins, used>>

\* shouldReleaseOwnerLock, or the lock is kept until the process ends.
ReleaseOwnerLock(i) ==
    /\ At(i, "release")
    /\ lock' = IF ~server[i].err \/ ~Alive(server[i].pid) THEN 0 ELSE lock
    /\ Go(i, "exit")
    /\ UNCHANGED <<proc, pidfile, files, plugins, used>>

\* The kernel drops a lock with its holder, and what it knew is gone.
End(i, pc) ==
    /\ lock' = IF lock = i THEN 0 ELSE lock
    /\ server' = [server EXCEPT ![i] = [NoServer EXCEPT !.pc = pc, !.why = server[i].why, !.left = server[i].left]]

Exit(i) ==
    /\ At(i, "exit") /\ End(i, "exited")
    /\ UNCHANGED <<proc, pidfile, files, plugins, used>>

-----------------------------------------------------------------------------
(* The machine.                                                            *)

\* The server is killed: nothing of its shutdown runs.
Kill(i) ==
    /\ Running(i) /\ used.kills < MaxKills
    /\ used' = [used EXCEPT !.kills = @ + 1]
    /\ End(i, "killed")
    /\ UNCHANGED <<proc, pidfile, files, plugins>>

\* A signalled postmaster ends; after an interrupt it takes its file along.
PostmasterExits(p) ==
    /\ proc[p].kind = "pm" /\ proc[p].sig # "none"
    /\ proc' = [proc EXCEPT ![p] = Free]
    /\ pidfile' = IF proc[p].sig = "int" /\ pidfile = p THEN 0 ELSE pidfile
    /\ UNCHANGED <<server, lock, files, plugins, used>>

PostmasterCrashes(p) ==
    /\ proc[p].kind = "pm" /\ used.crashes < MaxCrashes
    /\ used' = [used EXCEPT !.crashes = @ + 1]
    /\ proc' = [proc EXCEPT ![p] = Free]
    /\ UNCHANGED <<server, lock, pidfile, files, plugins>>

\* An unrelated process gets a free id.
StrangerStarts(p) ==
    /\ proc[p] = Free /\ used.strangers < MaxStrangers
    /\ used' = [used EXCEPT !.strangers = @ + 1]
    /\ proc' = [proc EXCEPT ![p].kind = "other"]
    /\ UNCHANGED <<server, lock, pidfile, files, plugins>>

StartStep(i) ==
    \/ EnsureMasterKey(i) \/ PersistMasterKey(i) \/ AcquireOwnerLock(i)
    \/ LoadOrCreatePassword(i) \/ WritePassword(i)
    \/ ReapOrphanPostgres(i) \/ OrphanExited(i) \/ RemoveStalePostmasterPID(i)
    \/ StartSucceeds(i) \/ PasswordRefused(i) \/ StaleFile(i) \/ PortTaken(i) \/ StartFails(i)
    \/ Migrate(i) \/ EnsureDefaultPlugin(i)
    \/ StartOllamaAgent(i) \/ StartWhisperTranscriber(i) \/ StartWhisperCppStreaming(i) \/ KidNotReady(i)

StopStep(i) ==
    \/ StopAgent(i) \/ StopWhisper(i) \/ Stop(i) \/ WaitForExit(i) \/ ForceKill(i) \/ WaitForKill(i)
    \/ ReleaseOwnerLock(i) \/ Exit(i)

Next ==
    \/ \E i \in Launches : Launch(i) \/ StartStep(i) \/ RequestStop(i) \/ StopStep(i) \/ Kill(i)
    \/ \E p \in Pids : PostmasterExits(p) \/ PostmasterCrashes(p) \/ StrangerStarts(p)

\* A running process goes on, and a signalled postmaster ends.
Fairness ==
    /\ \A i \in Launches :
          WF_vars(StartStep(i) \/ StopStep(i) \/ (At(i, "register") /\ RequestStop(i)))
    /\ \A p \in Pids : WF_vars(PostmasterExits(p))

Spec == Init /\ [][Next]_vars /\ Fairness

-----------------------------------------------------------------------------
(* Properties.                                                             *)

Postmasters == {p \in Pids : proc[p].kind = "pm"}

\* The data directory has one postmaster at most, and it is signalled by the
\* server that started it or after that server has gone; no other process ever
\* is.  A server that serves is the one the default plugins belong to, and one that
\* ended by itself leaves no process behind that is not already killed, unless its
\* postmaster would not start properly, or is no longer its own by its id and file.
OneOwner ==
    /\ TypeOK
    /\ Cardinality(Postmasters) <= 1
    /\ \A p \in Pids : proc[p].from # 0 =>
          /\ p \in Postmasters
          /\ proc[p].from # proc[p].by => ~Running(proc[p].by)
    /\ \A i \in Launches : At(i, "serve") => registered[2] = i /\ registered[3] = i
    /\ \A i \in Launches : At(i, "exited") =>
          /\ \A k \in 1..3 : child[i][k] # "up"
          /\ \A p \in Postmasters : proc[p].by = i =>
                server[i].left \/ proc[p].sig = "kill"

\* What earlier launches left does not lock a launch out of its data: the password
\* it finds is the cluster's, a file of a postmaster stops it only when a stranger
\* has taken the id, and the key it finds opens what they sealed (unless two first
\* launches wrote a key each).  The one thing left behind that does stop it is a
\* password file that was created and not written, which nothing repairs
\* (loadOrCreatePassword refuses it for ever): there are no data then.
StartFailsForCause ==
    /\ \A i \in Launches : server[i].why # "password"
    /\ \A i \in Launches : server[i].why = "stale" => used.strangers > 0
    /\ pgpass = Empty => cluster = 0
    /\ ~used.keyRace => sealed \subseteq {keyfile}

\* Every launch comes to serve, or ends; and then the directory is free for
\* the next, whatever it was that ended it.
EveryLaunchEnds ==
    \A i \in Launches :
        Running(i) ~> (At(i, "serve") \/ (~Running(i) /\ lock # i))
=============================================================================
