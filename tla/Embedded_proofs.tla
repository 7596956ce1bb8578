--------------------------- MODULE Embedded_proofs ---------------------------
(***************************************************************************)
(* Proofs about Embedded, for any number of launches, process ids, kills,  *)
(* crashes, strangers and faults.                                          *)
(*                                                                         *)
(* The lock says who may start a postmaster, postmaster.pid which one      *)
(* runs, and both may be stale.  PmOK is what they are worth: a postmaster *)
(* that runs is the one in the file, and as long as the server that        *)
(* started it runs, that server has the lock.  Mine says what a server at  *)
(* each statement can rely on: the lock, the password that it read, the    *)
(* key, its plugins' registrations, and that there is no postmaster when   *)
(* it is about to start one.                                               *)
(***************************************************************************)
EXTENDS Embedded, FiniteSetTheorems, TLAPS

\* The statements of a server: before it may have a stale file removed, between
\* the lock and its postmaster, and with its postmaster until the lock is released.
Early == {"off", "key", "persist", "lock", "pass", "passwrite"}
Starting == {"pass", "passwrite", "reap", "reaping", "clean", "launch"}
Up == {"migrate", "child", "register", "serve", "kids", "stop", "wait", "kill", "killwait",
       "release"}
\* The statements at which a server has the lock.
Holding == Starting \cup Up
\* The statements at which it cannot have started a postmaster.
Before == {"off", "key", "persist", "lock"} \cup Starting
\* The statements of a process that has ended.
Gone == {"exited", "killed"}
Pcs == Before \cup Up \cup Gone \cup {"exit"}

\* What a server, a process and the bounds may be.
Server == [pc : Pcs, key : Launches \cup {0}, pw : Launches \cup {0}, pid : Pids \cup {0},
           stale : BOOLEAN, port : BOOLEAN, attempts : 0..MaxAttempts, kid : 1..3,
           why : {"none", "fault", "password", "stale"}, err : BOOLEAN, left : BOOLEAN]
Process == [kind : {"free", "pm", "other"}, by : Launches \cup {0},
            sig : {"none", "int", "kill"}, from : Launches \cup {0}]

Used == [kills : Nat, crashes : Nat, strangers : Nat, faults : Nat, keyRace : BOOLEAN]

\* The variables have their types.
Types ==
    /\ server \in [Launches -> Server]
    /\ lock \in Launches \cup {0} /\ pidfile \in Pids \cup {0}
    /\ proc \in [Pids -> Process]
    /\ pgpass \in Launches \cup {Absent, Empty} /\ cluster \in Launches \cup {0}
    /\ keyfile \in Launches \cup {0} /\ sealed \subseteq Launches
    /\ child \in [Launches -> [1..3 -> {"none", "up"}]]
    /\ registered \in [1..3 -> Launches \cup {0}]
    /\ used \in Used

\* A postmaster of this directory, or none at all.
IsPm(p) == proc[p].kind = "pm"
NoPm == \A p \in Pids : ~IsPm(p)

\* What server s knows of the postmaster m at p that it started.
Ours(s, p, m) ==
    /\ s.pc \notin Before
    /\ s.pc \in Up => p = s.pid
    /\ s.pc = "killwait" => m.sig = "kill"
    /\ s.pc = "release" => m.sig = "kill" /\ s.err
    /\ s.pc \in {"exit", "exited"} => s.left \/ m.sig = "kill"

\* A process that is a postmaster, or has been signalled.
PmOK(p) ==
    /\ IsPm(p) =>
          /\ pidfile = p /\ proc[p].by \in Launches
          /\ Running(proc[p].by) => lock = proc[p].by
          /\ Ours(server[proc[p].by], p, proc[p])
    /\ proc[p].from # 0 =>
          /\ IsPm(p)
          /\ proc[p].from # proc[p].by => ~Running(proc[p].by)

\* It has the lock.
Lock(i) == server[i].pc \in Holding => lock = i

\* The plugins registered so far are its own, and it stops the ones it started.
Plugins(i) ==
    /\ \A k \in {2, 3} : At(i, "serve") \/ (server[i].pc \in {"child", "register"} /\ k < server[i].kid)
          => registered[k] = i
    /\ \A k \in 1..3 : child[i][k] = "up" =>
          \/ server[i].pc \in {"child", "register", "serve", "killed"}
          \/ At(i, "kids") /\ server[i].kid <= k

\* The password it read is the one in the file, and it writes one only for a
\* cluster that is not there yet.
Password(i) ==
    /\ server[i].pc \in {"reap", "reaping", "clean", "launch"} =>
          server[i].pw = pgpass /\ pgpass \in Launches
    /\ At(i, "passwrite") => server[i].pw = i /\ cluster = 0
    /\ server[i].why # "password"

\* There is no postmaster when it is about to start one.
Cleared(i) ==
    /\ server[i].pc \in {"clean", "launch"} \/ (At(i, "reap") /\ server[i].stale) => NoPm
    /\ server[i].pc \in Early => ~server[i].stale
    /\ server[i].why = "stale" => used.strangers > 0
    /\ At(i, "reaping") => pidfile \in {0, server[i].pid}

\* Its key is the one in the file.
Key(i) ==
    /\ At(i, "persist") => server[i].key = i
    /\ server[i].pc \in Holding \cup {"lock"} => server[i].key # 0
    /\ server[i].pc \in Holding \cup {"lock"} /\ ~used.keyRace => server[i].key = keyfile /\ keyfile # 0

\* What server i relies on.
Mine(i) == Lock(i) /\ Plugins(i) /\ Password(i) /\ Cleared(i) /\ Key(i)

\* The files agree with the cluster and with what was sealed.
Shared ==
    /\ cluster # 0 => pgpass = cluster
    /\ ~used.keyRace => sealed \subseteq {keyfile}
    /\ \A p \in Pids : proc[p].kind = "other" => used.strangers > 0

\* The inductive invariant.
Inv ==
    /\ Types
    /\ \A i \in Launches : Mine(i)
    /\ \A p \in Pids : PmOK(p)
    /\ Shared
-----------------------------------------------------------------------------
(* What a step makes of one server's record.                               *)

\* The record of server i after a step that changes no other one.
After(i, pc, key, pw, pid, stale, kid, why, err, left) ==
    /\ server' \in [Launches -> Server]
    /\ \A j \in Launches : j # i => server'[j] = server[j]
    /\ server'[i].pc = pc /\ server'[i].key = key /\ server'[i].pw = pw /\ server'[i].pid = pid
    /\ server'[i].stale = stale /\ server'[i].kid = kid /\ server'[i].why = why
    /\ server'[i].err = err /\ server'[i].left = left

\* Only the record of server i changes.
LEMMA OneRecord ==
    ASSUME server \in [Launches -> Server], NEW i \in Launches, NEW s \in Server,
           server' = [server EXCEPT ![i] = s]
    PROVE  /\ server' \in [Launches -> Server] /\ server'[i] = s
           /\ \A j \in Launches : j # i => server'[j] = server[j]
OBVIOUS

\* The statement.
LEMMA EditPc ==
    ASSUME Types, NEW i \in Launches, NEW c \in Pcs,
           server' = [server EXCEPT ![i].pc = c]
    PROVE  After(i, c, server[i].key, server[i].pw, server[i].pid,
                 server[i].stale, server[i].kid, server[i].why, server[i].err, server[i].left)
<1> DEFINE s == [server[i] EXCEPT !.pc = c]
<1>1. server \in [Launches -> Server]
  BY DEF Types
<1>2. server[i] \in Server
  BY <1>1
<1>3. /\ s \in Server
      /\ s.pc = c /\ s.key = server[i].key /\ s.pw = server[i].pw
      /\ s.pid = server[i].pid /\ s.stale = server[i].stale
      /\ s.kid = server[i].kid /\ s.why = server[i].why
      /\ s.err = server[i].err /\ s.left = server[i].left
  BY <1>2, ConstantsAssumption DEF Server
<1>4. server' = [server EXCEPT ![i] = s]
  OBVIOUS
<1> HIDE DEF s
<1> QED
  BY <1>1, <1>3, <1>4, OneRecord DEF After

\* The statement and the key.
LEMMA EditKey ==
    ASSUME Types, NEW i \in Launches, NEW c \in Pcs, NEW x \in Launches \cup {0},
           server' = [server EXCEPT ![i].pc = c, ![i].key = x]
    PROVE  After(i, c, x, server[i].pw, server[i].pid,
                 server[i].stale, server[i].kid, server[i].why, server[i].err, server[i].left)
<1> DEFINE s == [server[i] EXCEPT !.pc = c, !.key = x]
<1>1. server \in [Launches -> Server]
  BY DEF Types
<1>2. server[i] \in Server
  BY <1>1
<1>3. /\ s \in Server
      /\ s.pc = c /\ s.key = x /\ s.pw = server[i].pw
      /\ s.pid = server[i].pid /\ s.stale = server[i].stale
      /\ s.kid = server[i].kid /\ s.why = server[i].why
      /\ s.err = server[i].err /\ s.left = server[i].left
  BY <1>2, ConstantsAssumption DEF Server
<1>4. server' = [server EXCEPT ![i] = s]
  OBVIOUS
<1> HIDE DEF s
<1> QED
  BY <1>1, <1>3, <1>4, OneRecord DEF After

\* The statement and the reason it ends for.
LEMMA EditWhy ==
    ASSUME Types, NEW i \in Launches, NEW c \in Pcs, NEW x \in {"none", "fault", "password", "stale"},
           server' = [server EXCEPT ![i].pc = c, ![i].why = x]
    PROVE  After(i, c, server[i].key, server[i].pw, server[i].pid,
                 server[i].stale, server[i].kid, x, server[i].err, server[i].left)
<1> DEFINE s == [server[i] EXCEPT !.pc = c, !.why = x]
<1>1. server \in [Launches -> Server]
  BY DEF Types
<1>2. server[i] \in Server
  BY <1>1
<1>3. /\ s \in Server
      /\ s.pc = c /\ s.key = server[i].key /\ s.pw = server[i].pw
      /\ s.pid = server[i].pid /\ s.stale = server[i].stale
      /\ s.kid = server[i].kid /\ s.why = x
      /\ s.err = server[i].err /\ s.left = server[i].left
  BY <1>2, ConstantsAssumption DEF Server
<1>4. server' = [server EXCEPT ![i] = s]
  OBVIOUS
<1> HIDE DEF s
<1> QED
  BY <1>1, <1>3, <1>4, OneRecord DEF After

\* The statement and the password.
LEMMA EditPw ==
    ASSUME Types, NEW i \in Launches, NEW c \in Pcs, NEW x \in Launches \cup {0},
           server' = [server EXCEPT ![i].pc = c, ![i].pw = x]
    PROVE  After(i, c, server[i].key, x, server[i].pid,
                 server[i].stale, server[i].kid, server[i].why, server[i].err, server[i].left)
<1> DEFINE s == [server[i] EXCEPT !.pc = c, !.pw = x]
<1>1. server \in [Launches -> Server]
  BY DEF Types
<1>2. server[i] \in Server
  BY <1>1
<1>3. /\ s \in Server
      /\ s.pc = c /\ s.key = server[i].key /\ s.pw = x
      /\ s.pid = server[i].pid /\ s.stale = server[i].stale
      /\ s.kid = server[i].kid /\ s.why = server[i].why
      /\ s.err = server[i].err /\ s.left = server[i].left
  BY <1>2, ConstantsAssumption DEF Server
<1>4. server' = [server EXCEPT ![i] = s]
  OBVIOUS
<1> HIDE DEF s
<1> QED
  BY <1>1, <1>3, <1>4, OneRecord DEF After

\* The statement and whether a stale file was removed.
LEMMA EditStale ==
    ASSUME Types, NEW i \in Launches, NEW c \in Pcs, NEW x \in BOOLEAN,
           server' = [server EXCEPT ![i].pc = c, ![i].stale = x]
    PROVE  After(i, c, server[i].key, server[i].pw, server[i].pid,
                 x, server[i].kid, server[i].why, server[i].err, server[i].left)
<1> DEFINE s == [server[i] EXCEPT !.pc = c, !.stale = x]
<1>1. server \in [Launches -> Server]
  BY DEF Types
<1>2. server[i] \in Server
  BY <1>1
<1>3. /\ s \in Server
      /\ s.pc = c /\ s.key = server[i].key /\ s.pw = server[i].pw
      /\ s.pid = server[i].pid /\ s.stale = x
      /\ s.kid = server[i].kid /\ s.why = server[i].why
      /\ s.err = server[i].err /\ s.left = server[i].left
  BY <1>2, ConstantsAssumption DEF Server
<1>4. server' = [server EXCEPT ![i] = s]
  OBVIOUS
<1> HIDE DEF s
<1> QED
  BY <1>1, <1>3, <1>4, OneRecord DEF After

\* The statement and the postmaster.
LEMMA EditPid ==
    ASSUME Types, NEW i \in Launches, NEW c \in Pcs, NEW x \in Pids \cup {0},
           server' = [server EXCEPT ![i].pc = c, ![i].pid = x]
    PROVE  After(i, c, server[i].key, server[i].pw, x,
                 server[i].stale, server[i].kid, server[i].why, server[i].err, server[i].left)
<1> DEFINE s == [server[i] EXCEPT !.pc = c, !.pid = x]
<1>1. server \in [Launches -> Server]
  BY DEF Types
<1>2. server[i] \in Server
  BY <1>1
<1>3. /\ s \in Server
      /\ s.pc = c /\ s.key = server[i].key /\ s.pw = server[i].pw
      /\ s.pid = x /\ s.stale = server[i].stale
      /\ s.kid = server[i].kid /\ s.why = server[i].why
      /\ s.err = server[i].err /\ s.left = server[i].left
  BY <1>2, ConstantsAssumption DEF Server
<1>4. server' = [server EXCEPT ![i] = s]
  OBVIOUS
<1> HIDE DEF s
<1> QED
  BY <1>1, <1>3, <1>4, OneRecord DEF After

\* The statement and the attempts.
LEMMA EditAttempts ==
    ASSUME Types, NEW i \in Launches, NEW c \in Pcs, server[i].attempts + 1 < MaxAttempts,
           server' = [server EXCEPT ![i].pc = c, ![i].attempts = @ + 1]
    PROVE  After(i, c, server[i].key, server[i].pw, server[i].pid,
                 server[i].stale, server[i].kid, server[i].why, server[i].err, server[i].left)
<1> DEFINE n == server[i].attempts + 1
<1> DEFINE s == [server[i] EXCEPT !.pc = c, !.attempts = n]
<1>1. server \in [Launches -> Server]
  BY DEF Types
<1>2. server[i] \in Server
  BY <1>1
<1>3. server' = [server EXCEPT ![i] = s]
  OBVIOUS
<1>4. n \in 0..MaxAttempts
  BY <1>2, ConstantsAssumption DEF Server
<1> HIDE DEF n
<1>5. /\ s \in Server
      /\ s.pc = c /\ s.key = server[i].key /\ s.pw = server[i].pw
      /\ s.pid = server[i].pid /\ s.stale = server[i].stale
      /\ s.kid = server[i].kid /\ s.why = server[i].why
      /\ s.err = server[i].err /\ s.left = server[i].left
  BY <1>2, <1>4 DEF Server
<1> HIDE DEF s
<1> QED
  BY <1>1, <1>5, <1>3, OneRecord DEF After

\* The statement, the port and the attempts.
LEMMA EditPort ==
    ASSUME Types, NEW i \in Launches, NEW c \in Pcs, server[i].attempts + 1 < MaxAttempts,
           server' = [server EXCEPT ![i].pc = c, ![i].port = TRUE, ![i].attempts = @ + 1]
    PROVE  After(i, c, server[i].key, server[i].pw, server[i].pid,
                 server[i].stale, server[i].kid, server[i].why, server[i].err, server[i].left)
<1> DEFINE n == server[i].attempts + 1
<1> DEFINE s == [server[i] EXCEPT !.pc = c, !.port = TRUE, !.attempts = n]
<1>1. server \in [Launches -> Server]
  BY DEF Types
<1>2. server[i] \in Server
  BY <1>1
<1>3. server' = [server EXCEPT ![i] = s]
  OBVIOUS
<1>4. n \in 0..MaxAttempts
  BY <1>2, ConstantsAssumption DEF Server
<1> HIDE DEF n
<1>5. /\ s \in Server
      /\ s.pc = c /\ s.key = server[i].key /\ s.pw = server[i].pw
      /\ s.pid = server[i].pid /\ s.stale = server[i].stale
      /\ s.kid = server[i].kid /\ s.why = server[i].why
      /\ s.err = server[i].err /\ s.left = server[i].left
  BY <1>2, <1>4 DEF Server
<1> HIDE DEF s
<1> QED
  BY <1>1, <1>5, <1>3, OneRecord DEF After

\* The statement, the reason and whether a postmaster is left.
LEMMA EditLeft ==
    ASSUME Types, NEW i \in Launches, NEW c \in Pcs, NEW x \in {"none", "fault", "password", "stale"}, NEW y \in BOOLEAN,
           server' = [server EXCEPT ![i].pc = c, ![i].why = x, ![i].left = y]
    PROVE  After(i, c, server[i].key, server[i].pw, server[i].pid,
                 server[i].stale, server[i].kid, x, server[i].err, y)
<1> DEFINE s == [server[i] EXCEPT !.pc = c, !.why = x, !.left = y]
<1>1. server \in [Launches -> Server]
  BY DEF Types
<1>2. server[i] \in Server
  BY <1>1
<1>3. /\ s \in Server
      /\ s.pc = c /\ s.key = server[i].key /\ s.pw = server[i].pw
      /\ s.pid = server[i].pid /\ s.stale = server[i].stale
      /\ s.kid = server[i].kid /\ s.why = x
      /\ s.err = server[i].err /\ s.left = y
  BY <1>2, ConstantsAssumption DEF Server
<1>4. server' = [server EXCEPT ![i] = s]
  OBVIOUS
<1> HIDE DEF s
<1> QED
  BY <1>1, <1>3, <1>4, OneRecord DEF After

\* The statement and the plugin.
LEMMA EditKid ==
    ASSUME Types, NEW i \in Launches, NEW c \in Pcs, NEW x \in 1..3,
           server' = [server EXCEPT ![i].pc = c, ![i].kid = x]
    PROVE  After(i, c, server[i].key, server[i].pw, server[i].pid,
                 server[i].stale, x, server[i].why, server[i].err, server[i].left)
<1> DEFINE s == [server[i] EXCEPT !.pc = c, !.kid = x]
<1>1. server \in [Launches -> Server]
  BY DEF Types
<1>2. server[i] \in Server
  BY <1>1
<1>3. /\ s \in Server
      /\ s.pc = c /\ s.key = server[i].key /\ s.pw = server[i].pw
      /\ s.pid = server[i].pid /\ s.stale = server[i].stale
      /\ s.kid = x /\ s.why = server[i].why
      /\ s.err = server[i].err /\ s.left = server[i].left
  BY <1>2, ConstantsAssumption DEF Server
<1>4. server' = [server EXCEPT ![i] = s]
  OBVIOUS
<1> HIDE DEF s
<1> QED
  BY <1>1, <1>3, <1>4, OneRecord DEF After

\* The statement, the plugin and the reason.
LEMMA EditKidWhy ==
    ASSUME Types, NEW i \in Launches, NEW c \in Pcs, NEW x \in 1..3, NEW y \in {"none", "fault", "password", "stale"},
           server' = [server EXCEPT ![i].pc = c, ![i].kid = x, ![i].why = y]
    PROVE  After(i, c, server[i].key, server[i].pw, server[i].pid,
                 server[i].stale, x, y, server[i].err, server[i].left)
<1> DEFINE s == [server[i] EXCEPT !.pc = c, !.kid = x, !.why = y]
<1>1. server \in [Launches -> Server]
  BY DEF Types
<1>2. server[i] \in Server
  BY <1>1
<1>3. /\ s \in Server
      /\ s.pc = c /\ s.key = server[i].key /\ s.pw = server[i].pw
      /\ s.pid = server[i].pid /\ s.stale = server[i].stale
      /\ s.kid = x /\ s.why = y
      /\ s.err = server[i].err /\ s.left = server[i].left
  BY <1>2, ConstantsAssumption DEF Server
<1>4. server' = [server EXCEPT ![i] = s]
  OBVIOUS
<1> HIDE DEF s
<1> QED
  BY <1>1, <1>3, <1>4, OneRecord DEF After

\* The statement and whether the stop failed.
LEMMA EditErr ==
    ASSUME Types, NEW i \in Launches, NEW c \in Pcs, NEW x \in BOOLEAN,
           server' = [server EXCEPT ![i].pc = c, ![i].err = x]
    PROVE  After(i, c, server[i].key, server[i].pw, server[i].pid,
                 server[i].stale, server[i].kid, server[i].why, x, server[i].left)
<1> DEFINE s == [server[i] EXCEPT !.pc = c, !.err = x]
<1>1. server \in [Launches -> Server]
  BY DEF Types
<1>2. server[i] \in Server
  BY <1>1
<1>3. /\ s \in Server
      /\ s.pc = c /\ s.key = server[i].key /\ s.pw = server[i].pw
      /\ s.pid = server[i].pid /\ s.stale = server[i].stale
      /\ s.kid = server[i].kid /\ s.why = server[i].why
      /\ s.err = x /\ s.left = server[i].left
  BY <1>2, ConstantsAssumption DEF Server
<1>4. server' = [server EXCEPT ![i] = s]
  OBVIOUS
<1> HIDE DEF s
<1> QED
  BY <1>1, <1>3, <1>4, OneRecord DEF After

\* The process is gone, and with it what it knew.
LEMMA EditEnd ==
    ASSUME Types, NEW i \in Launches, NEW c \in Pcs, End(i, c)
    PROVE  After(i, c, 0, 0, 0, FALSE, 1, server[i].why, FALSE, server[i].left)
<1> DEFINE w == server[i].why
<1> DEFINE l == server[i].left
<1> DEFINE s == [NoServer EXCEPT !.pc = c, !.why = w, !.left = l]
<1>1. server \in [Launches -> Server]
  BY DEF Types
<1>2. w \in {"none", "fault", "password", "stale"} /\ l \in BOOLEAN
  BY <1>1 DEF Server
<1>3. server' = [server EXCEPT ![i] = s]
  BY DEF End
<1> SUFFICES After(i, c, 0, 0, 0, FALSE, 1, w, FALSE, l)
  OBVIOUS
<1> HIDE DEF w, l
<1>4. /\ NoServer \in Server
      /\ NoServer.key = 0 /\ NoServer.pw = 0 /\ NoServer.pid = 0 /\ NoServer.stale = FALSE
      /\ NoServer.kid = 1 /\ NoServer.err = FALSE
  BY ConstantsAssumption DEF Server, NoServer, Pcs, Before
<1>5. /\ s \in Server
      /\ s.pc = c /\ s.key = 0 /\ s.pw = 0
      /\ s.pid = 0 /\ s.stale = FALSE
      /\ s.kid = 1 /\ s.why = w
      /\ s.err = FALSE /\ s.left = l
  BY <1>2, <1>4 DEF Server
<1> HIDE DEF s
<1> QED
  BY <1>1, <1>3, <1>5, OneRecord DEF After

-----------------------------------------------------------------------------
(* What a step leaves alone.                                               *)

\* Nothing is used up that the invariant is about.
Quietly == used' \in Used /\ used'.strangers = used.strangers /\ used'.keyRace = used.keyRace

\* A fault is counted, and nothing else.
LEMMA FaultQuiet ==
    ASSUME Types, Fault
    PROVE  Quietly
BY DEF Types, Fault, Quietly, Used

\* Nothing is counted.
LEMMA UnusedQuiet ==
    ASSUME Types, UNCHANGED used
    PROVE  Quietly
BY DEF Types, Quietly

\* One server at a time is past the lock.
LEMMA OthersOut ==
    ASSUME Inv, NEW i \in Launches, server[i].pc \in Holding,
           NEW j \in Launches, j # i
    PROVE  server[j].pc \notin Holding
BY DEF Inv, Mine, Lock

\* What server j relies on stays when it and what is shared stay.
LEMMA Frame ==
    ASSUME NEW j \in Launches, Mine(j), server'[j] = server[j], child'[j] = child[j],
           UNCHANGED <<lock, registered, pgpass, cluster, keyfile>>,
           used.strangers > 0 => used'.strangers > 0, used'.keyRace = used.keyRace,
           NoPm => NoPm', pidfile' \in {pidfile, 0}
    PROVE  Mine(j)'
BY DEF Mine, Lock, Plugins, Password, Cleared, Early, Key, At

\* A server that is not past the lock relies on the key file only.
LEMMA FrameOut ==
    ASSUME NEW j \in Launches, Mine(j), server[j].pc \notin Holding, server'[j] = server[j],
           child'[j] = child[j], keyfile' = keyfile,
           used.strangers > 0 => used'.strangers > 0, used'.keyRace = used.keyRace
    PROVE  Mine(j)'
BY DEF Mine, Lock, Plugins, Password, Cleared, Early, Key, At, Holding, Starting, Up

\* A postmaster's server is not before its start.
LEMMA NoneBefore ==
    ASSUME Inv, NEW i \in Launches, server[i].pc \in Before, NEW p \in Pids, IsPm(p)
    PROVE  proc[p].by # i
BY DEF Inv, PmOK, Ours

\* Only server i's record changes, and what it relies on is kept.
LEMMA QuietKeeps ==
    ASSUME Inv, NEW i \in Launches,
           server' \in [Launches -> Server],
           \A j \in Launches : j # i => server'[j] = server[j],
           UNCHANGED <<lock, proc, pidfile, files, plugins>>, Quietly,
           server[i].pc \notin Gone, Mine(i)',
           \A p \in Pids : IsPm(p) /\ proc[p].by = i => Ours(server'[i], p, proc[p])
    PROVE  Inv'
<1>1. Types'
  BY DEF Inv, Types, files, plugins, Quietly
<1>2. ASSUME NEW j \in Launches
      PROVE  Mine(j)'
  <2>1. CASE j = i
    BY <2>1
  <2>2. CASE j # i
    <3>1. NoPm => NoPm'
      BY DEF NoPm, IsPm
    <3>2. Mine(j) /\ server'[j] = server[j]
      BY <2>2 DEF Inv
    <3> QED
      BY <3>1, <3>2, Frame DEF files, plugins, Quietly
  <2> QED
    BY <2>1, <2>2
<1>3. ASSUME NEW p \in Pids
      PROVE  PmOK(p)'
  <2>1. PmOK(p)
    BY DEF Inv
  <2>2. proc' = proc /\ pidfile' = pidfile /\ lock' = lock
    OBVIOUS
  <2>3. CASE ~IsPm(p)
    BY <2>1, <2>2, <2>3 DEF PmOK, IsPm
  <2>4. CASE IsPm(p) /\ proc[p].by # i
    BY <2>1, <2>2, <2>4 DEF PmOK, IsPm, Running
  <2>5. CASE IsPm(p) /\ proc[p].by = i
    <3>1. Ours(server[i], p, proc[p]) /\ Ours(server'[i], p, proc[p])
      BY <2>1, <2>5 DEF PmOK
    <3>2. Running(i)
      BY <3>1 DEF Ours, Running, Gone, Before
    <3> QED
      BY <2>1, <2>2, <2>5, <3>1, <3>2 DEF PmOK, IsPm
  <2> QED
    BY <2>3, <2>4, <2>5
<1>4. Shared'
  BY DEF Inv, Shared, files, plugins, Quietly
<1> QED
  BY <1>1, <1>2, <1>3, <1>4 DEF Inv

-----------------------------------------------------------------------------
(* Steps that change one server's record and nothing else.                 *)

\* Launch.
LEMMA LaunchKeeps ==
    ASSUME Inv, NEW i \in Launches, Launch(i)
    PROVE  Inv'
<1>1. server[i].pc = "off" /\ UNCHANGED <<lock, proc, pidfile, files, plugins, used>>
  BY DEF Launch, At
<1>2. After(i, "key", server[i].key, server[i].pw, server[i].pid,
            server[i].stale, server[i].kid, server[i].why, server[i].err, server[i].left)
  BY EditPc DEF Inv, Launch, Go, Pcs, Before
<1>3. Mine(i)'
  BY <1>1, <1>2 DEF After, Inv, Mine, Lock, Plugins, Password, Cleared, Early, Key, At,
                    Holding, Starting, Up, plugins
<1>4. \A p \in Pids : IsPm(p) => proc[p].by # i
  BY <1>1, NoneBefore DEF Before
<1> QED
  BY <1>1, <1>2, <1>3, <1>4, UnusedQuiet, QuietKeeps DEF After, Gone, Inv

\* EnsureMasterKey.
LEMMA EnsureMasterKeyKeeps ==
    ASSUME Inv, NEW i \in Launches, EnsureMasterKey(i)
    PROVE  Inv'
<1>1. server[i].pc = "key" /\ UNCHANGED <<lock, proc, pidfile, files, plugins, used>>
  BY DEF EnsureMasterKey, At
<1>2. \/ keyfile # 0 /\ After(i, "lock", keyfile, server[i].pw, server[i].pid,
            server[i].stale, server[i].kid, server[i].why, server[i].err, server[i].left)
      \/ After(i, "persist", i, server[i].pw, server[i].pid,
            server[i].stale, server[i].kid, server[i].why, server[i].err, server[i].left)
  <2>1. Types /\ "lock" \in Pcs /\ "persist" \in Pcs /\ keyfile \in Launches \cup {0}
    BY DEF Inv, Types, Pcs, Before
  <2>2. CASE keyfile # 0
    BY <2>1, <2>2, EditKey DEF EnsureMasterKey
  <2>3. CASE keyfile = 0
    BY <2>1, <2>3, EditKey DEF EnsureMasterKey
  <2> QED
    BY <2>2, <2>3
<1>3. Mine(i)'
  BY <1>1, <1>2 DEF After, Inv, Mine, Lock, Plugins, Password, Cleared, Early, Key, At,
                    Holding, Starting, Up, plugins, files
<1>4. \A p \in Pids : IsPm(p) => proc[p].by # i
  BY <1>1, NoneBefore DEF Before
<1> QED
  BY <1>1, <1>2, <1>3, <1>4, UnusedQuiet, QuietKeeps DEF After, Gone, Inv

\* A server leaves before it has started a postmaster.
LEMMA LeaveKeeps ==
    ASSUME Inv, NEW i \in Launches, server[i].pc \in Before, server[i].pc # "off",
           NEW why \in {"fault", "stale"}, why = "stale" => used.strangers > 0,
           Leave(i, why), UNCHANGED <<lock, proc, pidfile, files, plugins>>, Quietly
    PROVE  Inv'
<1>2. After(i, "exit", server[i].key, server[i].pw, server[i].pid,
            server[i].stale, server[i].kid, why, server[i].err, server[i].left)
  BY EditWhy DEF Inv, Leave, Pcs
<1>3. Mine(i)'
  BY <1>2 DEF After, Inv, Mine, Lock, Plugins, Password, Cleared, Early, Key, At, Before,
                    Holding, Starting, Up, plugins, Quietly
<1>4. \A p \in Pids : IsPm(p) => proc[p].by # i
  BY NoneBefore
<1> QED
  BY <1>2, <1>3, <1>4, QuietKeeps DEF After, Gone, Before, Starting

\* A server goes from one statement before the postmaster to another one.
LEMMA StartingKeeps ==
    ASSUME Inv, NEW i \in Launches, server[i].pc \in {"reap", "clean", "launch"},
           NEW c \in {"reap", "clean", "launch"}, NEW stale, 
           After(i, c, server[i].key, server[i].pw, server[i].pid,
                 stale, server[i].kid, server[i].why, server[i].err, server[i].left),
           c # "reap" \/ stale => NoPm,
           UNCHANGED <<lock, proc, pidfile, files, plugins>>, Quietly
    PROVE  Inv'
<1>3. Mine(i)'
  BY DEF After, Inv, Mine, Lock, Plugins, Password, Cleared, Early, Key, At, Before,
                    Holding, Starting, Up, plugins, files, Quietly, NoPm, IsPm
<1>4. \A p \in Pids : IsPm(p) => proc[p].by # i
  BY NoneBefore DEF Before, Starting
<1> QED
  BY <1>3, <1>4, QuietKeeps DEF After, Gone

\* A postmaster that runs is in the file.
LEMMA FileNamesIt ==
    ASSUME Inv, ~ProcessIsPostgresFor(pidfile)
    PROVE  NoPm
<1> SUFFICES ASSUME NEW p \in Pids, IsPm(p)
             PROVE  FALSE
  BY DEF NoPm
<1>1. pidfile = p /\ p # 0
  BY ConstantsAssumption DEF Inv, PmOK
<1> QED
  BY <1>1 DEF ProcessIsPostgresFor, IsPm

\* Nothing is alive without a kind.
LEMMA NoneAlive ==
    ASSUME ~Alive(pidfile)
    PROVE  ~ProcessIsPostgresFor(pidfile)
BY DEF Alive, ProcessIsPostgresFor

\* PasswordRefused: the password read is the cluster's.
LEMMA PasswordRefusedKeeps ==
    ASSUME Inv, NEW i \in Launches, PasswordRefused(i)
    PROVE  Inv'
<1>1. server[i].pc = "launch" /\ cluster # 0 /\ server[i].pw # cluster
  BY DEF PasswordRefused, At
<1>2. server[i].pw = pgpass /\ pgpass = cluster
  BY <1>1 DEF Inv, Mine, Password, Shared
<1> QED
  BY <1>1, <1>2

\* StaleFile.
LEMMA StaleFileKeeps ==
    ASSUME Inv, NEW i \in Launches, StaleFile(i)
    PROVE  Inv'
<1>1. /\ server[i].pc = "launch" /\ Alive(pidfile)
      /\ UNCHANGED <<lock, proc, pidfile, files, plugins, used>>
  BY DEF StaleFile, At
<1>2. NoPm
  BY <1>1 DEF Inv, Mine, Cleared, Early
<1>3. pidfile \in Pids
  BY <1>1 DEF Inv, Types, Alive
<1>4. ~ProcessIsPostgresFor(pidfile)
  BY <1>2, <1>3 DEF NoPm, IsPm, ProcessIsPostgresFor
<1>5. proc[pidfile].kind = "other"
  <2>1. proc[pidfile] \in Process
    BY <1>3 DEF Inv, Types
  <2> QED
    BY <1>1, <1>4, <2>1 DEF Process, Alive, ProcessIsPostgresFor
<1>6. used.strangers > 0
  BY <1>3, <1>5 DEF Inv, Shared
<1>7. Leave(i, "stale")
  BY <1>4 DEF StaleFile
<1> QED
  BY <1>1, <1>6, <1>7, UnusedQuiet, LeaveKeeps DEF Before, Starting, Inv

\* PortTaken.
LEMMA PortTakenKeeps ==
    ASSUME Inv, NEW i \in Launches, PortTaken(i)
    PROVE  Inv'
<1>1. /\ server[i].pc = "launch" /\ Fault
      /\ UNCHANGED <<lock, proc, pidfile, files, plugins>>
  BY DEF PortTaken, At
<1>2. NoPm
  BY <1>1 DEF Inv, Mine, Cleared, Early
<1>3. Quietly
  BY <1>1, FaultQuiet DEF Inv
<1>4. CASE ~server[i].port /\ server[i].attempts + 1 < MaxAttempts
  <2>1. After(i, "reap", server[i].key, server[i].pw, server[i].pid,
              server[i].stale, server[i].kid, server[i].why, server[i].err, server[i].left)
    BY <1>4, EditPort DEF PortTaken, Inv, Pcs, Before, Starting
  <2> QED
    BY <1>1, <1>2, <1>3, <2>1, StartingKeeps
<1>5. CASE ~(~server[i].port /\ server[i].attempts + 1 < MaxAttempts)
  <2>1. Leave(i, "fault")
    BY <1>5 DEF PortTaken
  <2> QED
    BY <1>1, <1>3, <2>1, LeaveKeeps DEF Before, Starting
<1> QED
  BY <1>4, <1>5

-----------------------------------------------------------------------------
(* The database is up: the plugins and the shutdown.                       *)

\* Server i has its postmaster, and goes on to do without it or to stop it.
LEMMA UpKeeps ==
    ASSUME Inv, NEW i \in Launches, server[i].pc \in Up, NEW c \in Up,
           NEW kid, NEW why \in {server[i].why, "fault"}, NEW err,
           After(i, c, server[i].key, server[i].pw, server[i].pid,
                 server[i].stale, kid, why, err, server[i].left),
           Plugins(i)',
           \A p \in Pids : IsPm(p) /\ proc[p].by = i /\ p = server[i].pid =>
              /\ c = "killwait" => proc[p].sig = "kill"
              /\ c = "release" => proc[p].sig = "kill" /\ err,
           UNCHANGED <<lock, proc, pidfile, files, plugins>>, Quietly
    PROVE  Inv'
<1>1. Mine(i)'
  BY DEF After, Inv, Mine, Lock, Password, Cleared, Early, Key, At,
                    Holding, Starting, Up, plugins, files, Quietly
<1>2. ASSUME NEW p \in Pids, IsPm(p), proc[p].by = i
      PROVE  Ours(server'[i], p, proc[p])
  <2>1. Ours(server[i], p, proc[p])
    BY <1>2 DEF Inv, PmOK
  <2> QED
    BY <1>2, <2>1 DEF Ours, After, Up, Before, Starting
<1> QED
  BY <1>1, <1>2, QuietKeeps DEF After, Gone, Up

\* Migrate.
LEMMA MigrateKeeps ==
    ASSUME Inv, NEW i \in Launches, Migrate(i)
    PROVE  Inv'
<1>1. server[i].pc = "migrate" /\ UNCHANGED <<lock, proc, pidfile, files, plugins>>
  BY DEF Migrate, At
<1>2. Types /\ Plugins(i) /\ server[i].pc \in Up
  BY <1>1 DEF Inv, Mine, Up
<1>3. ASSUME NEW x \in {1, 2}, UNCHANGED used,
             server' = [server EXCEPT ![i].pc = "child", ![i].kid = x]
      PROVE  Inv'
  <2>1. After(i, "child", server[i].key, server[i].pw, server[i].pid,
              server[i].stale, x, server[i].why, server[i].err, server[i].left)
    <3>1. "child" \in Pcs /\ x \in 1..3
      BY DEF Pcs, Up
    <3> QED
      BY <1>2, <1>3, <3>1, EditKid
  <2>2. Plugins(i)'
    BY <1>1, <1>2, <2>1 DEF Plugins, At, After, plugins
  <2>3. Quietly
    BY <1>2, <1>3, UnusedQuiet
  <2> QED
    BY <1>1, <1>2, <2>1, <2>2, <2>3, UpKeeps DEF Up
<1>4. ASSUME Fault, server' = [server EXCEPT ![i].pc = "kids", ![i].kid = 1, ![i].why = "fault"]
      PROVE  Inv'
  <2>1. After(i, "kids", server[i].key, server[i].pw, server[i].pid,
              server[i].stale, 1, "fault", server[i].err, server[i].left)
    <3>1. "kids" \in Pcs /\ 1 \in 1..3
      BY DEF Pcs, Up
    <3> QED
      BY <1>2, <1>4, <3>1, EditKidWhy
  <2>2. Plugins(i)'
    BY <1>1, <1>2, <2>1 DEF Plugins, At, After, plugins
  <2>3. Quietly
    BY <1>2, <1>4, FaultQuiet
  <2> QED
    BY <1>1, <1>2, <2>1, <2>2, <2>3, UpKeeps DEF Up
<1> QED
  BY <1>3, <1>4 DEF Migrate

\* KidNotReady.
LEMMA KidNotReadyKeeps ==
    ASSUME Inv, NEW i \in Launches, KidNotReady(i)
    PROVE  Inv'
<1>1. /\ server[i].pc = "child" /\ UNCHANGED <<lock, proc, pidfile, files, plugins>> /\ Fault
      /\ server' = [server EXCEPT ![i].pc = "kids", ![i].kid = 1, ![i].why = "fault"]
  BY DEF KidNotReady, At, plugins
<1>2. Types /\ Plugins(i) /\ server[i].pc \in Up /\ "kids" \in Up /\ "kids" \in Pcs /\ 1 \in 1..3
  BY <1>1 DEF Inv, Mine, Up, Pcs
<1>3. After(i, "kids", server[i].key, server[i].pw, server[i].pid,
            server[i].stale, 1, "fault", server[i].err, server[i].left)
  BY <1>1, <1>2, EditKidWhy
<1>4. Plugins(i)'
  BY <1>1, <1>2, <1>3 DEF Plugins, At, After, plugins
<1>5. Quietly
  BY <1>1, <1>2, FaultQuiet
<1> QED
  BY <1>1, <1>2, <1>3, <1>4, <1>5, UpKeeps

\* RequestStop.
LEMMA RequestStopKeeps ==
    ASSUME Inv, NEW i \in Launches, RequestStop(i)
    PROVE  Inv'
<1>1. /\ server[i].pc \in {"serve", "register"}
      /\ UNCHANGED <<lock, proc, pidfile, files, plugins, used>>
      /\ server' = [server EXCEPT ![i].pc = "kids", ![i].kid = 1]
  BY DEF RequestStop, At
<1>2. Types /\ Plugins(i) /\ server[i].pc \in Up /\ "kids" \in Up /\ "kids" \in Pcs /\ 1 \in 1..3
  BY <1>1 DEF Inv, Mine, Up, Pcs
<1>3. After(i, "kids", server[i].key, server[i].pw, server[i].pid,
            server[i].stale, 1, server[i].why, server[i].err, server[i].left)
  BY <1>1, <1>2, EditKid
<1>4. Plugins(i)'
  BY <1>1, <1>2, <1>3 DEF Plugins, At, After, plugins
<1>5. Quietly
  BY <1>1, <1>2, UnusedQuiet
<1> QED
  BY <1>1, <1>2, <1>3, <1>4, <1>5, UpKeeps

\* A server that no longer waits for its postmaster, or turns to killing it.
LEMMA StoppingKeeps ==
    ASSUME Inv, NEW i \in Launches, server[i].pc \in {"stop", "wait", "kill", "killwait"},
           UNCHANGED <<lock, proc, pidfile, files, plugins, used>>,
           \/ server[i].pc = "wait" /\ Go(i, "kill")
           \/ Stopped(i, FALSE) /\ ~ProcessIsPostgresFor(server[i].pid)
           \/ \E err \in BOOLEAN : Stopped(i, err) /\ ~ProcessIsPostgresFor(server[i].pid)
           \/ Stopped(i, TRUE) /\ pidfile # server[i].pid
           \/ Stopped(i, Alive(server[i].pid)) /\ server[i].pc = "killwait"
    PROVE  Inv'
<1>2. Types /\ Plugins(i) /\ server[i].pc \in Up
  BY DEF Inv, Mine, Up
<1>3. Quietly
  BY <1>2, UnusedQuiet
<1>4. "kill" \in Up /\ "kill" \in Pcs /\ "release" \in Up /\ "release" \in Pcs
  BY DEF Up, Pcs
<1>5. ASSUME NEW p \in Pids, IsPm(p), proc[p].by = i, p = server[i].pid
      PROVE  /\ ProcessIsPostgresFor(server[i].pid) /\ pidfile = server[i].pid
             /\ Alive(server[i].pid)
             /\ server[i].pc = "killwait" => proc[p].sig = "kill"
  <2>1. PmOK(p) /\ p # 0
    BY ConstantsAssumption DEF Inv
  <2> QED
    BY <1>5, <2>1 DEF PmOK, IsPm, ProcessIsPostgresFor, Alive, Ours
<1>6. CASE server[i].pc = "wait" /\ Go(i, "kill")
  <2>1. After(i, "kill", server[i].key, server[i].pw, server[i].pid,
            server[i].stale, server[i].kid, server[i].why, server[i].err, server[i].left)
    BY <1>2, <1>4, <1>6, EditPc DEF Go
  <2>2. Plugins(i)'
    BY <1>2, <1>6, <2>1 DEF Plugins, At, After, plugins
  <2> QED
    BY <1>2, <1>3, <1>4, <2>1, <2>2, UpKeeps
<1>7. ASSUME NEW err \in BOOLEAN, Stopped(i, err),
             \/ ~ProcessIsPostgresFor(server[i].pid)
             \/ pidfile # server[i].pid
             \/ err = Alive(server[i].pid) /\ server[i].pc = "killwait"
      PROVE  Inv'
  <2>1. After(i, "release", server[i].key, server[i].pw, server[i].pid,
            server[i].stale, server[i].kid, server[i].why, err, server[i].left)
    BY <1>2, <1>4, <1>7, EditErr DEF Stopped
  <2>2. Plugins(i)'
    BY <1>2, <1>7, <2>1 DEF Plugins, At, After, plugins
  <2>3. ASSUME NEW p \in Pids, IsPm(p), proc[p].by = i, p = server[i].pid
        PROVE  proc[p].sig = "kill" /\ err
    BY <1>5, <1>7, <2>3
  <2> QED
    BY <1>2, <1>3, <1>4, <2>1, <2>2, <2>3, UpKeeps
<1>8. Alive(server[i].pid) \in BOOLEAN
  BY DEF Alive
<1> QED
  BY <1>6, <1>7, <1>8

\* WaitForExit.
LEMMA WaitForExitKeeps ==
    ASSUME Inv, NEW i \in Launches, WaitForExit(i)
    PROVE  Inv'
<1>1. server[i].pc = "wait" /\ UNCHANGED <<lock, proc, pidfile, files, plugins, used>>
  BY DEF WaitForExit, At
<1>2. CASE Alive(server[i].pid)
  BY <1>1, <1>2, StoppingKeeps DEF WaitForExit
<1>3. CASE ~Alive(server[i].pid)
  <2>1. ~ProcessIsPostgresFor(server[i].pid)
    BY <1>3 DEF Alive, ProcessIsPostgresFor
  <2> QED
    BY <1>1, <1>3, <2>1, StoppingKeeps DEF WaitForExit
<1> QED
  BY <1>2, <1>3

\* WaitForKill.
LEMMA WaitForKillKeeps ==
    ASSUME Inv, NEW i \in Launches, WaitForKill(i)
    PROVE  Inv'
BY StoppingKeeps DEF WaitForKill, At

-----------------------------------------------------------------------------
(* Steps that change the lock, the files or the plugins too.               *)

\* The postmasters stay, and so does what is known of them.
LEMMA PmKeeps ==
    ASSUME Inv, NEW i \in Launches,
           \A j \in Launches : j # i => server'[j] = server[j],
           UNCHANGED <<proc, pidfile>>, lock \notin {i, 0} => lock' = lock,
           \A p \in Pids : IsPm(p) /\ proc[p].by = i =>
              Ours(server'[i], p, proc[p])
              /\ (server'[i].pc \notin Gone => lock' = i /\ Running(i))
    PROVE  \A p \in Pids : PmOK(p)'
<1> SUFFICES ASSUME NEW p \in Pids
             PROVE  PmOK(p)'
  OBVIOUS
<1>1. PmOK(p) /\ proc' = proc /\ pidfile' = pidfile
  BY DEF Inv
<1>2. CASE ~IsPm(p)
  BY <1>1, <1>2 DEF PmOK, IsPm
<1>3. CASE IsPm(p) /\ proc[p].by # i
  BY <1>1, <1>3, ConstantsAssumption DEF PmOK, IsPm, Running
<1>4. CASE IsPm(p) /\ proc[p].by = i
  <2>1. Ours(server'[i], p, proc[p]) /\ (server'[i].pc \notin Gone => lock' = i /\ Running(i))
    BY <1>4
  <2>2. server'[i].pc # "off"
    BY <2>1 DEF Ours, Before
  <2>3. Running(i)' => lock' = i /\ Running(i)
    BY <2>1 DEF Running, Gone
  <2> QED
    BY <1>1, <1>4, <2>1, <2>3 DEF PmOK, IsPm
<1> QED
  BY <1>2, <1>3, <1>4

\* PersistMasterKey.
LEMMA PersistMasterKeyKeeps ==
    ASSUME Inv, NEW i \in Launches, PersistMasterKey(i)
    PROVE  Inv'
<1>1. /\ server[i].pc = "persist" /\ keyfile' = server[i].key
      /\ used' = [used EXCEPT !.keyRace = @ \/ keyfile # 0]
      /\ UNCHANGED <<lock, proc, pidfile, pgpass, cluster, sealed, child, registered>>
  BY DEF PersistMasterKey, At, plugins
<1>2. After(i, "lock", server[i].key, server[i].pw, server[i].pid,
            server[i].stale, server[i].kid, server[i].why, server[i].err, server[i].left)
  BY EditPc DEF Inv, PersistMasterKey, Go, Pcs, Before
<1>3. server[i].key = i /\ i # 0
  BY <1>1, ConstantsAssumption DEF Inv, Mine, Key, At
<1>4. /\ used' \in Used /\ used'.strangers = used.strangers
      /\ ~used'.keyRace => ~used.keyRace /\ keyfile = 0
  BY <1>1 DEF Inv, Types, Used
<1>5. Types'
  BY <1>1, <1>2, <1>3, <1>4 DEF After, Inv, Types
<1>6. Mine(i)'
  BY <1>1, <1>2, <1>3, <1>4 DEF After, Inv, Mine, Lock, Plugins, Password, Cleared, Early, Key, At,
                    Holding, Starting, Up
<1>7. ASSUME NEW j \in Launches, j # i
      PROVE  Mine(j)'
  <2>1. server'[j] = server[j] /\ Mine(j)
    BY <1>2, <1>7 DEF After, Inv
  <2>2. NoPm => NoPm'
    BY <1>1 DEF NoPm, IsPm
  <2>3. Lock(j)' /\ Plugins(j)' /\ Password(j)' /\ Cleared(j)'
    BY <1>1, <1>4, <2>1, <2>2 DEF Mine, Lock, Plugins, Password, Cleared, Early, At
  <2>4. Key(j)'
    BY <1>1, <1>4, <2>1 DEF Mine, Key, At
  <2> QED
    BY <2>3, <2>4 DEF Mine
<1>8. \A p \in Pids : PmOK(p)'
  <2>1. \A p \in Pids : IsPm(p) => proc[p].by # i
    BY <1>1, NoneBefore DEF Before
  <2> QED
    BY <1>1, <1>2, <2>1, PmKeeps DEF After
<1>9. Shared'
  <2>1. keyfile = 0 /\ ~used.keyRace => sealed = {}
    BY ConstantsAssumption DEF Inv, Shared, Types
  <2> QED
    BY <1>1, <1>4, <2>1 DEF Inv, Shared
<1> QED
  BY <1>5, <1>6, <1>7, <1>8, <1>9 DEF Inv

\* AcquireOwnerLock.
LEMMA AcquireOwnerLockKeeps ==
    ASSUME Inv, NEW i \in Launches, AcquireOwnerLock(i)
    PROVE  Inv'
<1>1. server[i].pc = "lock" /\ UNCHANGED <<proc, pidfile, files, plugins, used>>
  BY DEF AcquireOwnerLock, At
<1>2. CASE lock # 0 /\ Leave(i, "fault") /\ UNCHANGED lock
  BY <1>1, <1>2, UnusedQuiet, LeaveKeeps DEF Before, Inv
<1>3. CASE lock = 0 /\ lock' = i /\ Go(i, "pass")
  <2>2. After(i, "pass", server[i].key, server[i].pw, server[i].pid,
              server[i].stale, server[i].kid, server[i].why, server[i].err, server[i].left)
    BY <1>3, EditPc DEF Inv, Go, Pcs, Before, Starting
  <2>3. Types'
    BY <1>1, <1>3, <2>2 DEF After, Inv, Types, files, plugins
  <2>4. Mine(i)'
    BY <1>1, <1>3, <2>2 DEF After, Inv, Mine, Lock, Plugins, Password, Cleared, Early, Key, At,
                      Holding, Starting, Up, files, plugins
  <2>5. ASSUME NEW j \in Launches, j # i
        PROVE  Mine(j)'
    <3>1. server'[j] = server[j] /\ Mine(j)
      BY <2>2, <2>5 DEF After, Inv
    <3>2. server[j].pc \notin Holding
      BY <1>3, <3>1, ConstantsAssumption DEF Mine, Lock
    <3> QED
      BY <1>1, <3>1, <3>2, FrameOut DEF files, plugins
  <2>6. \A p \in Pids : PmOK(p)'
    <3>1. \A p \in Pids : IsPm(p) => proc[p].by # i
      BY <1>1, NoneBefore DEF Before
    <3> QED
      BY <1>1, <1>3, <2>2, <3>1, PmKeeps DEF After
  <2>7. Shared'
    BY <1>1 DEF Inv, Shared, files, plugins
  <2> QED
    BY <2>3, <2>4, <2>5, <2>6, <2>7 DEF Inv
<1> QED
  BY <1>2, <1>3 DEF AcquireOwnerLock

\* A holder of the lock changes nothing that the others rely on.
LEMMA HolderKeeps ==
    ASSUME Inv, NEW i \in Launches, server[i].pc \in Holding,
           \A j \in Launches : j # i => server'[j] = server[j] /\ child'[j] = child[j],
           keyfile' = keyfile, Quietly, Mine(i)'
    PROVE  \A j \in Launches : Mine(j)'
<1> SUFFICES ASSUME NEW j \in Launches, j # i
             PROVE  Mine(j)'
  OBVIOUS
<1>1. server[j].pc \notin Holding
  BY OthersOut
<1> QED
  BY <1>1, FrameOut DEF Inv, Quietly

\* LoadOrCreatePassword.
LEMMA LoadOrCreatePasswordKeeps ==
    ASSUME Inv, NEW i \in Launches, LoadOrCreatePassword(i)
    PROVE  Inv'
<1>1. server[i].pc = "pass" /\ UNCHANGED <<lock, proc, pidfile, cluster, keyfile, plugins, used>>
  BY DEF LoadOrCreatePassword, At
<1>2. Types /\ Quietly /\ server[i].pc \in Holding
  BY <1>1, UnusedQuiet DEF Inv, Holding, Starting
<1>3. \A p \in Pids : IsPm(p) => proc[p].by # i
  BY <1>1, NoneBefore DEF Before, Starting
<1>4. CASE pgpass = Empty /\ Leave(i, "fault") /\ UNCHANGED pgpass
  BY <1>1, <1>2, <1>4, LeaveKeeps DEF Before, Starting, files
<1>5. ASSUME NEW c \in {"passwrite", "reap"}, NEW x \in Launches,
             server' = [server EXCEPT ![i].pc = c, ![i].pw = x],
             \/ c = "passwrite" /\ pgpass = Absent /\ pgpass' = Empty /\ x = i
             \/ c = "reap" /\ x = pgpass /\ pgpass' = pgpass
      PROVE  Inv'
  <2>1. After(i, c, server[i].key, x, server[i].pid,
              server[i].stale, server[i].kid, server[i].why, server[i].err, server[i].left)
    <3>1. c \in Pcs /\ x \in Launches \cup {0}
      BY DEF Pcs, Before, Starting
    <3> QED
      BY <1>2, <1>5, <3>1, EditPw
  <2>2. Types'
    BY <1>1, <1>2, <1>5, <2>1 DEF After, Types, plugins
  <2>3. cluster # 0 => pgpass = cluster
    BY DEF Inv, Shared
  <2>4. Mine(i)'
    <3>1. Lock(i)' /\ Plugins(i)' /\ Key(i)'
      BY <1>1, <1>2, <1>5, <2>1 DEF After, Inv, Mine, Lock, Plugins, Key, At,
                      Holding, Starting, plugins
    <3>2. Password(i)'
      BY <1>1, <1>5, <2>1, <2>3 DEF After, Inv, Mine, Password, At, Absent
    <3>3. Cleared(i)'
      BY <1>1, <1>5, <2>1 DEF After, Inv, Mine, Cleared, Early, At, NoPm, IsPm
    <3> QED
      BY <3>1, <3>2, <3>3 DEF Mine
  <2>5. \A j \in Launches : Mine(j)'
    BY <1>1, <1>2, <2>1, <2>4, HolderKeeps DEF After, plugins
  <2>6. \A p \in Pids : PmOK(p)'
    BY <1>1, <1>3, <2>1, PmKeeps DEF After
  <2>7. Shared'
    BY <1>1, <1>5, <2>3 DEF Inv, Shared, plugins, Absent
  <2> QED
    BY <2>2, <2>5, <2>6, <2>7 DEF Inv
<1> QED
  BY <1>4, <1>5 DEF LoadOrCreatePassword

\* WritePassword.
LEMMA WritePasswordKeeps ==
    ASSUME Inv, NEW i \in Launches, WritePassword(i)
    PROVE  Inv'
<1>1. /\ server[i].pc = "passwrite" /\ pgpass' = server[i].pw
      /\ UNCHANGED <<lock, proc, pidfile, cluster, keyfile, plugins, used>>
  BY DEF WritePassword, At
<1>2. Types /\ Quietly /\ server[i].pc \in Holding
  BY <1>1, UnusedQuiet DEF Inv, Holding, Starting
<1>3. \A p \in Pids : IsPm(p) => proc[p].by # i
  BY <1>1, NoneBefore DEF Before, Starting
<1>4. After(i, "reap", server[i].key, server[i].pw, server[i].pid,
            server[i].stale, server[i].kid, server[i].why, server[i].err, server[i].left)
  BY EditPc DEF Inv, WritePassword, Go, Pcs, Before, Starting
<1>5. server[i].pw = i /\ cluster = 0
  BY <1>1 DEF Inv, Mine, Password, At
<1>6. Types'
  BY <1>1, <1>2, <1>4, <1>5 DEF After, Types, plugins
<1>7. Mine(i)'
  BY <1>1, <1>4, <1>5 DEF After, Inv, Mine, Lock, Plugins, Password, Cleared, Early, Key, At,
                      Holding, Starting, plugins, NoPm, IsPm
<1>8. \A j \in Launches : Mine(j)'
  BY <1>1, <1>2, <1>4, <1>7, HolderKeeps DEF After, plugins
<1>9. \A p \in Pids : PmOK(p)'
  BY <1>1, <1>3, <1>4, PmKeeps DEF After
<1>10. Shared'
  BY <1>1, <1>5 DEF Inv, Shared, plugins
<1> QED
  BY <1>6, <1>8, <1>9, <1>10 DEF Inv

\* A server with its database changes its plugins.
LEMMA PluginsKeep ==
    ASSUME Inv, NEW i \in Launches, server[i].pc \in Up,
           NEW c \in {"child", "register", "serve", "kids", "stop"}, NEW kid,
           After(i, c, server[i].key, server[i].pw, server[i].pid,
                 server[i].stale, kid, server[i].why, server[i].err, server[i].left),
           child' \in [Launches -> [1..3 -> {"none", "up"}]],
           \A j \in Launches : j # i => child'[j] = child[j],
           registered' \in [1..3 -> Launches \cup {0}],
           sealed' \in {sealed, sealed \cup {server[i].key}},
           Plugins(i)',
           UNCHANGED <<lock, proc, pidfile, files, used>>
    PROVE  Inv'
<1>1. Types /\ Quietly /\ server[i].pc \in Holding
  BY UnusedQuiet DEF Inv, Holding
<1>2. server[i].key \in Launches /\ (~used.keyRace => server[i].key = keyfile)
  <2>1. server[i].key \in Launches \cup {0}
    BY <1>1 DEF Types, Server
  <2> QED
    BY <1>1, <2>1 DEF Inv, Mine, Key
<1>3. Types'
  BY <1>1, <1>2 DEF After, Types, files
<1>4. Mine(i)'
  BY <1>1 DEF After, Inv, Mine, Lock, Password, Cleared, Early, Key, At,
                      Holding, Starting, files
<1>5. \A j \in Launches : Mine(j)'
  BY <1>1, <1>4, HolderKeeps DEF After, files
<1>6. ASSUME NEW p \in Pids, IsPm(p), proc[p].by = i
      PROVE  Ours(server'[i], p, proc[p]) /\ lock' = i /\ Running(i)
  <2>1. Ours(server[i], p, proc[p])
    BY <1>6 DEF Inv, PmOK
  <2>2. lock = i
    BY <1>1 DEF Inv, Mine, Lock
  <2>3. Running(i)
    BY DEF Running, Up
  <2> QED
    BY <1>6, <2>1, <2>2, <2>3 DEF Ours, After, Up, Before, Starting
<1>7. \A p \in Pids : PmOK(p)'
  BY <1>6, PmKeeps DEF After
<1>8. Shared'
  BY <1>2 DEF Inv, Shared, files
<1> QED
  BY <1>3, <1>5, <1>7, <1>8 DEF Inv

\* StartOllamaAgent, StartWhisperTranscriber, StartWhisperCppStreaming.
LEMMA StartKidKeeps ==
    ASSUME Inv, NEW i \in Launches, NEW k \in 1..3, StartKid(i, k)
    PROVE  Inv'
<1>1. /\ server[i].pc = "child" /\ server[i].kid = k
      /\ child' = [child EXCEPT ![i][k] = "up"]
      /\ UNCHANGED <<lock, proc, pidfile, files, sealed, registered, used>>
  BY DEF StartKid, At
<1>2. Types /\ Plugins(i) /\ server[i].pc \in Up
  BY <1>1 DEF Inv, Mine, Up
<1>3. After(i, "register", server[i].key, server[i].pw, server[i].pid,
            server[i].stale, server[i].kid, server[i].why, server[i].err, server[i].left)
  BY <1>2, EditPc DEF StartKid, Go, Pcs, Up
<1>4. /\ child' \in [Launches -> [1..3 -> {"none", "up"}]]
      /\ \A j \in Launches : j # i => child'[j] = child[j]
  BY <1>1, <1>2 DEF Types
<1>5. Plugins(i)'
  BY <1>1, <1>2, <1>3 DEF Plugins, After, At
<1> QED
  BY <1>1, <1>2, <1>3, <1>4, <1>5, PluginsKeep DEF Types, Inv

\* StopAgent, StopWhisper.
LEMMA StopKidKeeps ==
    ASSUME Inv, NEW i \in Launches, NEW k \in 1..3, NEW next \in {"kids", "stop"},
           next = "stop" <=> k = 3, StopKid(i, k, next)
    PROVE  Inv'
<1> DEFINE x == IF next = "stop" THEN 1 ELSE k + 1
<1>1. /\ server[i].pc = "kids" /\ server[i].kid = k
      /\ child' = [child EXCEPT ![i][k] = "none"]
      /\ server' = [server EXCEPT ![i].pc = next, ![i].kid = x]
      /\ UNCHANGED <<lock, proc, pidfile, files, sealed, registered, used>>
  BY DEF StopKid, At
<1>2. Types /\ Plugins(i) /\ server[i].pc \in Up
  BY <1>1 DEF Inv, Mine, Up
<1>3. x \in 1..3 /\ (next = "kids" => x = k + 1) /\ next \in Pcs
  BY DEF Pcs, Up
<1> HIDE DEF x
<1>4. After(i, next, server[i].key, server[i].pw, server[i].pid,
            server[i].stale, x, server[i].why, server[i].err, server[i].left)
  BY <1>1, <1>2, <1>3, EditKid
<1>5. /\ child' \in [Launches -> [1..3 -> {"none", "up"}]]
      /\ \A j \in Launches : j # i => child'[j] = child[j]
      /\ child'[i][k] = "none" /\ \A m \in 1..3 : m # k => child'[i][m] = child[i][m]
  BY <1>1, <1>2 DEF Types
<1>6. Plugins(i)'
  BY <1>1, <1>2, <1>3, <1>4, <1>5 DEF Plugins, After, At
<1>7. registered' \in [1..3 -> Launches \cup {0}] /\ sealed' \in {sealed, sealed \cup {server[i].key}}
  BY <1>1, <1>2 DEF Types
<1>8. /\ next \in {"child", "register", "serve", "kids", "stop"}
      /\ UNCHANGED <<lock, proc, pidfile, files, used>>
  BY <1>1
<1> QED
  BY <1>2, <1>4, <1>5, <1>6, <1>7, <1>8, PluginsKeep

\* EnsureDefaultPlugin.
LEMMA EnsureDefaultPluginKeeps ==
    ASSUME Inv, NEW i \in Launches, EnsureDefaultPlugin(i)
    PROVE  Inv'
<1> DEFINE k == server[i].kid
<1> DEFINE c == IF k = 3 THEN "serve" ELSE "child"
<1> DEFINE x == IF k = 3 THEN 1 ELSE k + 1
<1>1. /\ server[i].pc = "register"
      /\ registered' = [registered EXCEPT ![k] = i]
      /\ sealed' = sealed \cup {server[i].key}
      /\ server' = [server EXCEPT ![i].pc = c, ![i].kid = x]
      /\ UNCHANGED <<lock, proc, pidfile, files, child, used>>
  BY DEF EnsureDefaultPlugin, At
<1>2. Types /\ Plugins(i) /\ server[i].pc \in Up
  BY <1>1 DEF Inv, Mine, Up
<1>3. k \in 1..3
  BY <1>2 DEF Types, Server
<1>4. /\ x \in 1..3 /\ c \in Pcs /\ c \in {"serve", "child"}
      /\ (c = "serve" => k = 3) /\ (c = "child" => x = k + 1)
  BY <1>3 DEF Pcs, Up
<1> HIDE DEF x, c
<1>5. After(i, c, server[i].key, server[i].pw, server[i].pid,
            server[i].stale, x, server[i].why, server[i].err, server[i].left)
  BY <1>1, <1>2, <1>4, EditKid
<1>6. /\ registered' \in [1..3 -> Launches \cup {0}]
      /\ registered'[k] = i /\ \A m \in 1..3 : m # k => registered'[m] = registered[m]
  BY <1>1, <1>2, <1>3 DEF Types
<1>7. Plugins(i)'
  <2>1. \A m \in {2, 3} : m < k => registered[m] = i
    BY <1>1, <1>2 DEF Plugins
  <2>2. \A m \in {2, 3} : m <= k => registered'[m] = i
    BY <1>3, <1>6, <2>1
  <2> QED
    BY <1>1, <1>3, <1>4, <1>5, <2>2 DEF Plugins, After, At
<1>8. /\ child' \in [Launches -> [1..3 -> {"none", "up"}]]
      /\ \A j \in Launches : j # i => child'[j] = child[j]
      /\ sealed' \in {sealed, sealed \cup {server[i].key}}
  BY <1>1, <1>2 DEF Types
<1>9. c \in {"child", "register", "serve", "kids", "stop"}
  BY <1>4
<1>10. UNCHANGED <<lock, proc, pidfile, files, used>>
  BY <1>1
<1> QED
  BY <1>2, <1>5, <1>6, <1>7, <1>8, <1>9, <1>10, PluginsKeep

\* ReleaseOwnerLock.
LEMMA ReleaseOwnerLockKeeps ==
    ASSUME Inv, NEW i \in Launches, ReleaseOwnerLock(i)
    PROVE  Inv'
<1>1. /\ server[i].pc = "release" /\ UNCHANGED <<proc, pidfile, files, plugins, used>>
      /\ lock' = IF ~server[i].err \/ ~Alive(server[i].pid) THEN 0 ELSE lock
  BY DEF ReleaseOwnerLock, At
<1>2. Types /\ Quietly /\ server[i].pc \in Holding
  BY <1>1, UnusedQuiet DEF Inv, Holding, Up
<1>3. After(i, "exit", server[i].key, server[i].pw, server[i].pid,
            server[i].stale, server[i].kid, server[i].why, server[i].err, server[i].left)
  BY EditPc DEF Inv, ReleaseOwnerLock, Go, Pcs
<1>4. lock = i
  BY <1>2 DEF Inv, Mine, Lock
<1>5. Types'
  BY <1>1, <1>2, <1>3 DEF After, Types, files, plugins
<1>6. Mine(i)'
  BY <1>1, <1>3 DEF After, Inv, Mine, Lock, Plugins, Password, Cleared, Early, Key, At,
                      Holding, Starting, Up, files, plugins
<1>7. \A j \in Launches : Mine(j)'
  BY <1>1, <1>2, <1>3, <1>6, HolderKeeps DEF After, files, plugins
<1>8. ASSUME NEW p \in Pids, IsPm(p), proc[p].by = i
      PROVE  Ours(server'[i], p, proc[p]) /\ lock' = i /\ Running(i)
  <2>1. Ours(server[i], p, proc[p]) /\ p # 0
    BY <1>8, ConstantsAssumption DEF Inv, PmOK
  <2>2. server[i].err /\ p = server[i].pid /\ proc[p].sig = "kill"
    BY <1>1, <2>1 DEF Ours, Up
  <2>3. Alive(server[i].pid)
    BY <1>8, <2>1, <2>2 DEF IsPm, Alive
  <2>4. lock' = i
    BY <1>1, <1>4, <2>2, <2>3
  <2> QED
    BY <1>1, <1>3, <2>2, <2>4 DEF Ours, After, Running, Up, Before, Starting
<1>9. \A p \in Pids : PmOK(p)'
  BY <1>1, <1>3, <1>4, <1>8, PmKeeps DEF After
<1>10. Shared'
  BY <1>1 DEF Inv, Shared, files, plugins
<1> QED
  BY <1>5, <1>7, <1>9, <1>10 DEF Inv

\* Exit, Kill: the process is gone, and the lock with it.
LEMMA EndKeeps ==
    ASSUME Inv, NEW i \in Launches, NEW c \in Gone, End(i, c), Running(i),
           c = "exited" => server[i].pc = "exit",
           UNCHANGED <<proc, pidfile, files, plugins>>, Quietly
    PROVE  Inv'
<1>1. lock' = IF lock = i THEN 0 ELSE lock
  BY DEF End
<1>2. After(i, c, 0, 0, 0, FALSE, 1, server[i].why, FALSE, server[i].left)
  BY EditEnd DEF Inv, Pcs
<1>3. Types'
  BY <1>1, <1>2 DEF After, Inv, Types, files, plugins, Quietly
<1>4. Mine(i)'
  BY <1>2 DEF After, Inv, Mine, Lock, Plugins, Password, Cleared, Early, Key, At,
                      Holding, Starting, Up, files, plugins, Quietly, Gone
<1>5. ASSUME NEW j \in Launches, j # i
      PROVE  Mine(j)'
  <2>1. server'[j] = server[j] /\ Mine(j)
    BY <1>2, <1>5 DEF After, Inv
  <2>2. NoPm => NoPm'
    BY DEF NoPm, IsPm
  <2>3. CASE server[j].pc \in Holding
    <3>1. lock = j
      BY <2>1, <2>3 DEF Mine, Lock
    <3> QED
      BY <1>1, <1>5, <2>1, <2>2, <3>1, Frame DEF files, plugins, Quietly
  <2>4. CASE server[j].pc \notin Holding
    BY <2>1, <2>4, FrameOut DEF files, plugins, Quietly
  <2> QED
    BY <2>3, <2>4
<1>6. ASSUME NEW p \in Pids, IsPm(p), proc[p].by = i
      PROVE  Ours(server'[i], p, proc[p])
  <2>1. Ours(server[i], p, proc[p])
    BY <1>6 DEF Inv, PmOK
  <2> QED
    BY <1>2, <2>1 DEF Ours, After, Gone, Up, Before, Starting
<1>7. \A p \in Pids : PmOK(p)'
  BY <1>1, <1>2, <1>6, PmKeeps DEF After
<1>8. Shared'
  BY DEF Inv, Shared, files, plugins, Quietly
<1> QED
  BY <1>3, <1>4, <1>5, <1>7, <1>8 DEF Inv

\* Exit.
LEMMA ExitKeeps ==
    ASSUME Inv, NEW i \in Launches, Exit(i)
    PROVE  Inv'
BY UnusedQuiet, EndKeeps DEF Exit, At, Gone, Running, Inv

\* Kill.
LEMMA KillKeeps ==
    ASSUME Inv, NEW i \in Launches, Kill(i)
    PROVE  Inv'
<1>1. Quietly
  BY DEF Kill, Inv, Types, Used, Quietly
<1> QED
  BY <1>1, EndKeeps DEF Kill, Gone

-----------------------------------------------------------------------------
(* Steps that change the process table.                                    *)

\* A signalled process: still what it was, and the signal is known.
Signalled(i, q, sig) ==
    /\ proc' \in [Pids -> Process]
    /\ \A p \in Pids : p # q => proc'[p] = proc[p]
    /\ proc'[q].kind = proc[q].kind /\ proc'[q].by = proc[q].by /\ proc'[q].from = i
    /\ (sig = "kill" \/ proc[q].sig = "kill") => proc'[q].sig = "kill"

\* Signal.
LEMMA SignalIs ==
    ASSUME Types, NEW i \in Launches, NEW q \in Pids, NEW sig \in {"int", "kill"},
           Signal(i, q, sig)
    PROVE  Signalled(i, q, sig)
<1> DEFINE g == IF proc[q].sig = "kill" THEN proc[q].sig ELSE sig
<1> DEFINE m == [proc[q] EXCEPT !.sig = g, !.from = i]
<1>1. proc' = [proc EXCEPT ![q] = m]
  BY DEF Signal
<1>2. proc \in [Pids -> Process] /\ proc[q] \in Process
  BY DEF Types
<1>3. g \in {"none", "int", "kill"} /\ (sig = "kill" \/ proc[q].sig = "kill" => g = "kill")
  BY <1>2 DEF Process
<1> HIDE DEF g
<1>4. m \in Process /\ m.kind = proc[q].kind /\ m.by = proc[q].by /\ m.from = i /\ m.sig = g
  BY <1>2, <1>3 DEF Process
<1> HIDE DEF m
<1> QED
  BY <1>1, <1>2, <1>3, <1>4 DEF Signalled

\* A holder of the lock signals the postmaster in the file, which is its own or
\* that of a server that is gone.
LEMMA SignalKeeps ==
    ASSUME Inv, NEW i \in Launches, server[i].pc \in Holding, NEW c \in Holding,
           NEW q \in Pids, IsPm(q), NEW sig \in {"int", "kill"}, Signal(i, q, sig), NEW pid,
           After(i, c, server[i].key, server[i].pw, pid,
                 server[i].stale, server[i].kid, server[i].why, server[i].err, server[i].left),
           Mine(i)',
           proc[q].by = i => pid = server[i].pid /\ server[i].pc \in Up /\ c \in Up /\ c # "release"
                             /\ (c = "killwait" => sig = "kill"),
           UNCHANGED <<lock, pidfile, files, plugins, used>>
    PROVE  Inv'
<1>1. Types /\ Quietly /\ lock = i
  BY UnusedQuiet DEF Inv, Mine, Lock
<1>2. Signalled(i, q, sig)
  BY <1>1, SignalIs
<1>3. Types'
  BY <1>1, <1>2 DEF After, Types, Signalled, files, plugins
<1>4. \A j \in Launches : Mine(j)'
  BY <1>1, HolderKeeps DEF After, files, plugins
<1>5. ASSUME NEW p \in Pids, p # q
      PROVE  PmOK(p)'
  <2>1. ~IsPm(p) /\ proc[p].from = 0 /\ proc'[p] = proc[p]
    BY <1>2, <1>5 DEF Inv, PmOK, Signalled
  <2> QED
    BY <2>1 DEF PmOK, IsPm
<1>6. PmOK(q)'
  <2>1. PmOK(q)
    BY DEF Inv
  <2>2. IsPm(q)' /\ proc'[q].by = proc[q].by /\ proc'[q].from = i
    BY <1>2 DEF Signalled, IsPm
  <2>3. CASE proc[q].by # i
    <3>1. ~Running(proc[q].by) /\ Ours(server[proc[q].by], q, proc[q]) /\ proc[q].by \in Launches
      BY <1>1, <2>1, <2>3 DEF PmOK
    <3>2. server'[proc[q].by] = server[proc[q].by]
      BY <2>3, <3>1 DEF After
    <3>3. Ours(server'[proc[q].by], q, proc'[q])
      BY <1>2, <3>1, <3>2 DEF Ours, Signalled
    <3> QED
      BY <2>1, <2>2, <3>1, <3>2, <3>3 DEF PmOK, Running
  <2>4. CASE proc[q].by = i
    <3>1. Ours(server[i], q, proc[q])
      BY <2>1, <2>4 DEF PmOK
    <3>2. Ours(server'[i], q, proc'[q])
      BY <1>2, <2>4, <3>1 DEF Ours, Signalled, After, Up, Before, Starting
    <3> QED
      BY <1>1, <2>1, <2>2, <2>4, <3>2 DEF PmOK
  <2> QED
    BY <2>3, <2>4
<1>7. Shared'
  <2>1. \A p \in Pids : proc'[p].kind = proc[p].kind
    BY <1>2 DEF Signalled
  <2> QED
    BY <2>1 DEF Inv, Shared, files, plugins
<1> QED
  BY <1>3, <1>4, <1>5, <1>6, <1>7 DEF Inv

\* ReapOrphanPostgres.
LEMMA ReapOrphanPostgresKeeps ==
    ASSUME Inv, NEW i \in Launches, ReapOrphanPostgres(i)
    PROVE  Inv'
<1>1. server[i].pc = "reap" /\ UNCHANGED <<lock, pidfile, files, plugins, used>>
  BY DEF ReapOrphanPostgres, At
<1>2. Types /\ Quietly /\ server[i].pc \in Holding
  BY <1>1, UnusedQuiet DEF Inv, Holding, Starting
<1>3. CASE ~server[i].stale /\ ProcessIsPostgresFor(pidfile)
  <2>1. /\ Signal(i, pidfile, "int")
        /\ server' = [server EXCEPT ![i].pc = "reaping", ![i].pid = pidfile]
    BY <1>3 DEF ReapOrphanPostgres
  <2>2. pidfile \in Pids /\ IsPm(pidfile)
    BY <1>2, <1>3 DEF Types, ProcessIsPostgresFor, IsPm
  <2>3. After(i, "reaping", server[i].key, server[i].pw, pidfile,
              server[i].stale, server[i].kid, server[i].why, server[i].err, server[i].left)
    BY <1>2, <2>1, <2>2, EditPid DEF Pcs, Before, Starting
  <2>4. Mine(i)'
    BY <1>1, <2>3 DEF After, Inv, Mine, Lock, Plugins, Password, Cleared, Early, Key, At,
                      Holding, Starting, Up, files, plugins
  <2>5. proc[pidfile].by # i
    BY <1>1, <2>2, NoneBefore DEF Before, Starting
  <2>6. "reaping" \in Holding
    BY DEF Holding, Starting
  <2> QED
    BY <1>1, <1>2, <2>1, <2>2, <2>3, <2>4, <2>5, <2>6, SignalKeeps
<1>4. CASE ~(~server[i].stale /\ ProcessIsPostgresFor(pidfile))
  <2>1. Go(i, "clean") /\ UNCHANGED proc
    BY <1>4 DEF ReapOrphanPostgres
  <2>2. NoPm
    <3>1. server[i].stale \in BOOLEAN
      BY <1>2 DEF Types, Server
    <3>2. CASE server[i].stale
      BY <1>1, <3>2 DEF Inv, Mine, Cleared, At
    <3>3. CASE ~server[i].stale
      BY <1>4, <3>3, FileNamesIt
    <3> QED
      BY <3>1, <3>2, <3>3
  <2>3. After(i, "clean", server[i].key, server[i].pw, server[i].pid,
              server[i].stale, server[i].kid, server[i].why, server[i].err, server[i].left)
    BY <1>2, <2>1, EditPc DEF Go, Pcs, Before, Starting
  <2> QED
    BY <1>1, <1>2, <2>1, <2>2, <2>3, StartingKeeps
<1> QED
  BY <1>3, <1>4

\* The file of a postmaster that is gone is removed.
LEMMA FileRemovedKeeps ==
    ASSUME Inv, NEW i \in Launches, server[i].pc \in {"reaping", "clean"},
           NEW c \in {"clean", "launch"}, ~ProcessIsPostgresFor(pidfile), pidfile' = 0,
           server' = [server EXCEPT ![i].pc = c, ![i].stale = TRUE],
           UNCHANGED <<lock, proc, files, plugins, used>>
    PROVE  Inv'
<1>1. Types /\ Quietly /\ server[i].pc \in Holding
  BY UnusedQuiet DEF Inv, Holding, Starting
<1>2. NoPm
  BY FileNamesIt
<1>3. After(i, c, server[i].key, server[i].pw, server[i].pid,
            TRUE, server[i].kid, server[i].why, server[i].err, server[i].left)
  <2>1. c \in Pcs
    BY DEF Pcs, Before, Starting
  <2> QED
    BY <1>1, <2>1, EditStale
<1>4. Types'
  BY <1>1, <1>3 DEF After, Types, files, plugins
<1>5. Mine(i)'
  <2>1. NoPm'
    BY <1>2 DEF NoPm, IsPm
  <2> QED
    BY <1>3, <2>1 DEF After, Inv, Mine, Lock, Plugins, Password, Cleared, Early, Key, At,
                      Holding, Starting, Up, files, plugins
<1>6. \A j \in Launches : Mine(j)'
  BY <1>1, <1>3, <1>5, HolderKeeps DEF After, files, plugins
<1>7. \A p \in Pids : PmOK(p)'
  BY <1>2 DEF Inv, PmOK, NoPm, IsPm
<1>8. Shared'
  BY DEF Inv, Shared, files, plugins
<1> QED
  BY <1>4, <1>6, <1>7, <1>8 DEF Inv

\* OrphanExited.
LEMMA OrphanExitedKeeps ==
    ASSUME Inv, NEW i \in Launches, OrphanExited(i)
    PROVE  Inv'
<1>1. server[i].pc = "reaping" /\ UNCHANGED <<lock, files, plugins>> /\ Types
  BY DEF OrphanExited, At, Inv
<1>2. CASE /\ ~Alive(server[i].pid) \/ pidfile = 0
           /\ pidfile' = 0
           /\ server' = [server EXCEPT ![i].pc = "clean", ![i].stale = TRUE]
           /\ UNCHANGED <<proc, used>>
  <2>1. pidfile \in {0, server[i].pid}
    BY <1>1 DEF Inv, Mine, Cleared, At
  <2>2. ~ProcessIsPostgresFor(pidfile)
    BY <1>2, <2>1 DEF Alive, ProcessIsPostgresFor
  <2> QED
    BY <1>1, <1>2, <2>2, FileRemovedKeeps
<1>3. CASE /\ Leave(i, "fault")
           /\ Fault \/ UNCHANGED used
           /\ UNCHANGED <<proc, pidfile>>
  <2>1. Quietly
    BY <1>1, <1>3, FaultQuiet, UnusedQuiet
  <2> QED
    BY <1>1, <1>3, <2>1, LeaveKeeps DEF Before, Starting
<1> QED
  BY <1>2, <1>3 DEF OrphanExited

\* RemoveStalePostmasterPID.
LEMMA RemoveStalePostmasterPIDKeeps ==
    ASSUME Inv, NEW i \in Launches, RemoveStalePostmasterPID(i)
    PROVE  Inv'
<1>1. server[i].pc = "clean" /\ UNCHANGED <<lock, proc, files, plugins, used>>
  BY DEF RemoveStalePostmasterPID, At
<1>2. CASE ~server[i].stale /\ pidfile # 0 /\ ~Alive(pidfile)
  <2>1. pidfile' = 0 /\ server' = [server EXCEPT ![i].pc = "launch", ![i].stale = TRUE]
    BY <1>2 DEF RemoveStalePostmasterPID
  <2> QED
    BY <1>1, <1>2, <2>1, NoneAlive, FileRemovedKeeps
<1>3. CASE ~(~server[i].stale /\ pidfile # 0 /\ ~Alive(pidfile))
  <2>1. Go(i, "launch") /\ UNCHANGED pidfile
    BY <1>3 DEF RemoveStalePostmasterPID
  <2>2. After(i, "launch", server[i].key, server[i].pw, server[i].pid,
              server[i].stale, server[i].kid, server[i].why, server[i].err, server[i].left)
    BY <2>1, EditPc DEF Go, Pcs, Before, Starting, Inv
  <2>3. NoPm /\ Quietly
    BY <1>1, UnusedQuiet DEF Inv, Mine, Cleared
  <2> QED
    BY <1>1, <2>1, <2>2, <2>3, StartingKeeps
<1> QED
  BY <1>2, <1>3

\* A postmaster is started where none is.
LEMMA SpawnKeeps ==
    ASSUME Inv, NEW i \in Launches, server[i].pc = "launch", ~Alive(pidfile),
           NEW q \in Pids, Spawn(i, q), NEW c \in {"migrate", "exit"}, NEW pid, NEW why, NEW left,
           After(i, c, server[i].key, server[i].pw, pid,
                 server[i].stale, server[i].kid, why, server[i].err, left),
           why \in {server[i].why, "fault"}, c = "migrate" => pid = q, c = "exit" => left,
           UNCHANGED <<lock, pgpass, keyfile, plugins>>, Quietly
    PROVE  Inv'
<1> DEFINE m == [kind |-> "pm", by |-> i, sig |-> "none", from |-> 0]
<1>1. /\ proc' = [proc EXCEPT ![q] = m] /\ pidfile' = q
      /\ cluster' = IF cluster = 0 THEN server[i].pw ELSE cluster
  BY DEF Spawn
<1>2. m \in Process /\ m.kind = "pm" /\ m.by = i /\ m.from = 0
  BY DEF Process
<1> HIDE DEF m
<1>3. Types /\ NoPm /\ server[i].pc \in Holding /\ lock = i
  BY NoneAlive, FileNamesIt DEF Inv, Holding, Starting, Mine, Lock
<1>4. server[i].pw = pgpass /\ pgpass \in Launches /\ (cluster # 0 => pgpass = cluster)
  BY DEF Inv, Mine, Password, Shared
<1>5. /\ proc' \in [Pids -> Process] /\ proc'[q] = m
      /\ \A p \in Pids : p # q => proc'[p] = proc[p]
  BY <1>1, <1>2, <1>3 DEF Types
<1>6. Types'
  BY <1>1, <1>3, <1>4, <1>5 DEF After, Types, plugins, Quietly
<1>7. Mine(i)'
  BY <1>3 DEF After, Inv, Mine, Lock, Plugins, Password, Cleared, Early, Key, At,
                      Holding, Starting, Up, plugins, Quietly
<1>8. \A j \in Launches : Mine(j)'
  BY <1>3, <1>7, HolderKeeps DEF After, plugins
<1>9. ASSUME NEW p \in Pids
      PROVE  PmOK(p)'
  <2>1. CASE p # q
    BY <1>3, <1>5, <2>1 DEF Inv, PmOK, NoPm, IsPm
  <2>2. CASE p = q
    <3>1. Ours(server'[i], q, m)
      BY DEF Ours, After, Up, Before, Starting
    <3> QED
      BY <1>1, <1>2, <1>3, <1>5, <2>2, <3>1 DEF PmOK, IsPm
  <2> QED
    BY <2>1, <2>2
<1>10. Shared'
  <2>1. \A p \in Pids : proc'[p].kind = "other" => proc[p].kind = "other"
    BY <1>2, <1>5
  <2> QED
    BY <1>1, <1>4, <2>1 DEF Inv, Shared, plugins, Quietly
<1> QED
  BY <1>6, <1>8, <1>9, <1>10 DEF Inv

\* StartSucceeds.
LEMMA StartSucceedsKeeps ==
    ASSUME Inv, NEW i \in Launches, StartSucceeds(i)
    PROVE  Inv'
<1>1. /\ server[i].pc = "launch" /\ ~Alive(pidfile)
      /\ UNCHANGED <<lock, pgpass, keyfile, plugins, used>>
  BY DEF StartSucceeds, At
<1>2. PICK p \in Pids : Spawn(i, p) /\ server' = [server EXCEPT ![i].pc = "migrate", ![i].pid = p]
  BY DEF StartSucceeds
<1>3. After(i, "migrate", server[i].key, server[i].pw, p,
            server[i].stale, server[i].kid, server[i].why, server[i].err, server[i].left)
  <2>1. Types /\ "migrate" \in Pcs /\ p \in Pids \cup {0}
    BY DEF Inv, Pcs, Up
  <2> QED
    BY <1>2, <2>1, EditPid
<1>4. Quietly
  BY <1>1, UnusedQuiet DEF Inv
<1> QED
  BY <1>1, <1>2, <1>3, <1>4, SpawnKeeps

\* StartFails: it leaves a postmaster and keeps the lock, or releases it.
LEMMA StartFailsKeeps ==
    ASSUME Inv, NEW i \in Launches, StartFails(i)
    PROVE  Inv'
<1> DEFINE left == (lock' = i)
<1>1. /\ server[i].pc = "launch" /\ ~Alive(pidfile) /\ Fault
      /\ server' = [server EXCEPT ![i].pc = "exit", ![i].why = "fault", ![i].left = left]
      /\ UNCHANGED <<pgpass, keyfile, plugins>>
  BY DEF StartFails, At
<1>2. Types /\ Quietly /\ server[i].pc \in Holding /\ "exit" \in Pcs /\ left \in BOOLEAN
  BY <1>1, FaultQuiet DEF Inv, Holding, Starting, Pcs
<1>3. After(i, "exit", server[i].key, server[i].pw, server[i].pid,
            server[i].stale, server[i].kid, "fault", server[i].err, left)
  <2> HIDE DEF left
  <2> QED
    BY <1>1, <1>2, EditLeft
<1>4. lock = i
  BY <1>2 DEF Inv, Mine, Lock
<1>5. ASSUME NEW p \in Pids, Spawn(i, p), UNCHANGED lock
      PROVE  Inv'
  <2>1. left
    BY <1>4, <1>5
  <2> HIDE DEF left
  <2> QED
    BY <1>1, <1>2, <1>3, <1>5, <2>1, SpawnKeeps
<1>6. CASE lock' = 0 /\ UNCHANGED <<proc, pidfile, cluster>>
  <2> HIDE DEF left
  <2>1. Types'
    BY <1>1, <1>2, <1>3, <1>6 DEF After, Types, plugins, Quietly
  <2>2. Mine(i)'
    BY <1>1, <1>2, <1>3 DEF After, Inv, Mine, Lock, Plugins, Password, Cleared, Early, Key, At,
                        Holding, Starting, Up, plugins
  <2>3. \A j \in Launches : Mine(j)'
    BY <1>1, <1>2, <1>3, <2>2, HolderKeeps DEF After, plugins
  <2>4. \A p \in Pids : IsPm(p) => proc[p].by # i
    BY <1>1, NoneBefore DEF Before, Starting
  <2>5. \A p \in Pids : PmOK(p)'
    BY <1>3, <1>4, <1>6, <2>4, PmKeeps DEF After
  <2>6. Shared'
    BY <1>1, <1>2, <1>6 DEF Inv, Shared, plugins, Quietly
  <2> QED
    BY <2>1, <2>3, <2>5, <2>6 DEF Inv
<1> QED
  BY <1>5, <1>6 DEF StartFails

\* Stop.
LEMMA StopKeeps ==
    ASSUME Inv, NEW i \in Launches, Stop(i)
    PROVE  Inv'
<1>1. server[i].pc = "stop" /\ UNCHANGED <<lock, pidfile, files, plugins, used>>
  BY DEF Stop, At
<1>2. CASE pidfile # server[i].pid
  <2>1. Stopped(i, TRUE) /\ UNCHANGED proc
    BY <1>2 DEF Stop
  <2> QED
    BY <1>1, <1>2, <2>1, StoppingKeeps
<1>3. CASE pidfile = server[i].pid /\ ~ProcessIsPostgresFor(server[i].pid)
  <2>1. Stopped(i, Alive(server[i].pid)) /\ UNCHANGED proc /\ Alive(server[i].pid) \in BOOLEAN
    BY <1>3 DEF Stop, Alive
  <2> QED
    BY <1>1, <1>3, <2>1, StoppingKeeps
<1>4. CASE pidfile = server[i].pid /\ ProcessIsPostgresFor(server[i].pid)
  <2>1. Signal(i, server[i].pid, "int") /\ Go(i, "wait")
    BY <1>4 DEF Stop
  <2>2. server[i].pid \in Pids /\ IsPm(server[i].pid)
    BY <1>4 DEF Inv, Types, ProcessIsPostgresFor, IsPm
  <2>3. After(i, "wait", server[i].key, server[i].pw, server[i].pid,
              server[i].stale, server[i].kid, server[i].why, server[i].err, server[i].left)
    BY <2>1, EditPc DEF Go, Pcs, Up, Inv
  <2>4. Mine(i)'
    BY <1>1, <2>3 DEF After, Inv, Mine, Lock, Plugins, Password, Cleared, Early, Key, At,
                      Holding, Starting, Up, files, plugins
  <2>5. server[i].pc \in Up /\ server[i].pc \in Holding /\ "wait" \in Up /\ "wait" \in Holding
    BY <1>1 DEF Up, Holding
  <2> QED
    BY <1>1, <2>1, <2>2, <2>3, <2>4, <2>5, SignalKeeps
<1> QED
  BY <1>2, <1>3, <1>4

\* ForceKill.
LEMMA ForceKillKeeps ==
    ASSUME Inv, NEW i \in Launches, ForceKill(i)
    PROVE  Inv'
<1>1. server[i].pc = "kill" /\ UNCHANGED <<lock, pidfile, files, plugins, used>>
  BY DEF ForceKill, At
<1>3. CASE ~ProcessIsPostgresFor(server[i].pid)
  <2>1. Stopped(i, Alive(server[i].pid)) /\ UNCHANGED proc /\ Alive(server[i].pid) \in BOOLEAN
    BY <1>3 DEF ForceKill, Alive
  <2> QED
    BY <1>1, <1>3, <2>1, StoppingKeeps
<1>4. CASE ProcessIsPostgresFor(server[i].pid)
  <2>1. Signal(i, server[i].pid, "kill") /\ Go(i, "killwait")
    BY <1>4 DEF ForceKill
  <2>2. server[i].pid \in Pids /\ IsPm(server[i].pid)
    <3>1. server[i].pid \in Pids \cup {0}
      BY DEF Inv, Types, Server
    <3> QED
      BY <1>4, <3>1 DEF ProcessIsPostgresFor, IsPm
  <2>3. After(i, "killwait", server[i].key, server[i].pw, server[i].pid,
              server[i].stale, server[i].kid, server[i].why, server[i].err, server[i].left)
    BY <2>1, EditPc DEF Go, Pcs, Up, Inv
  <2>4. Mine(i)'
    BY <1>1, <2>3 DEF After, Inv, Mine, Lock, Plugins, Password, Cleared, Early, Key, At,
                      Holding, Starting, Up, files, plugins
  <2>5. /\ server[i].pc \in Up /\ server[i].pc \in Holding /\ "killwait" \in Up
        /\ "killwait" \in Holding
    BY <1>1 DEF Up, Holding
  <2> QED
    BY <1>1, <2>1, <2>2, <2>3, <2>4, <2>5, SignalKeeps
<1> QED
  BY <1>3, <1>4

\* A postmaster is gone, and perhaps its file.
LEMMA GoneKeeps ==
    ASSUME Inv, NEW q \in Pids, IsPm(q), proc' = [proc EXCEPT ![q] = Free],
           pidfile' \in {pidfile, 0}, UNCHANGED <<server, lock, files, plugins>>, Quietly
    PROVE  Inv'
<1>1. Free \in Process /\ Free.kind = "free" /\ Free.from = 0
  BY DEF Free, Process
<1>2. /\ proc' \in [Pids -> Process] /\ proc'[q] = Free
      /\ \A p \in Pids : p # q => proc'[p] = proc[p]
  BY <1>1 DEF Inv, Types
<1>3. ASSUME NEW p \in Pids
      PROVE  ~IsPm(p)' /\ proc'[p].from = 0 /\ (proc'[p].kind = "other" => proc[p].kind = "other")
  BY <1>1, <1>2 DEF Inv, PmOK, IsPm
<1>4. Types'
  BY <1>2 DEF Inv, Types, files, plugins, Quietly
<1>5. ASSUME NEW j \in Launches
      PROVE  Mine(j)'
  BY <1>3, Frame DEF Inv, NoPm, files, plugins, Quietly
<1>6. \A p \in Pids : PmOK(p)'
  BY <1>3 DEF PmOK
<1>7. Shared'
  BY <1>3 DEF Inv, Shared, files, plugins, Quietly
<1> QED
  BY <1>4, <1>5, <1>6, <1>7 DEF Inv

\* PostmasterExits.
LEMMA PostmasterExitsKeeps ==
    ASSUME Inv, NEW q \in Pids, PostmasterExits(q)
    PROVE  Inv'
BY UnusedQuiet, GoneKeeps DEF PostmasterExits, IsPm, Inv

\* PostmasterCrashes.
LEMMA PostmasterCrashesKeeps ==
    ASSUME Inv, NEW q \in Pids, PostmasterCrashes(q)
    PROVE  Inv'
<1>1. Quietly
  BY DEF PostmasterCrashes, Inv, Types, Used, Quietly
<1> QED
  BY <1>1, GoneKeeps DEF PostmasterCrashes, IsPm

\* StrangerStarts.
LEMMA StrangerStartsKeeps ==
    ASSUME Inv, NEW q \in Pids, StrangerStarts(q)
    PROVE  Inv'
<1>1. /\ proc[q] = Free /\ used' = [used EXCEPT !.strangers = @ + 1]
      /\ proc' = [proc EXCEPT ![q].kind = "other"]
      /\ UNCHANGED <<server, lock, pidfile, files, plugins>>
  BY DEF StrangerStarts
<1>2. used' \in Used /\ used'.strangers > 0 /\ used'.keyRace = used.keyRace
  BY <1>1 DEF Inv, Types, Used
<1>3. /\ proc' \in [Pids -> Process] /\ proc'[q].kind = "other" /\ proc'[q].from = 0
      /\ \A p \in Pids : p # q => proc'[p] = proc[p]
  <2> DEFINE m == [proc[q] EXCEPT !.kind = "other"]
  <2>1. proc' = [proc EXCEPT ![q] = m] /\ proc \in [Pids -> Process]
    BY <1>1 DEF Inv, Types
  <2>2. proc[q] \in Process /\ proc[q].from = 0
    BY <1>1, <2>1 DEF Free
  <2>3. m \in Process /\ m.kind = "other" /\ m.from = 0
    BY <2>2 DEF Process
  <2> HIDE DEF m
  <2> QED
    BY <2>1, <2>3
<1>4. Types'
  BY <1>1, <1>2, <1>3 DEF Inv, Types, files, plugins
<1>5. ASSUME NEW j \in Launches
      PROVE  Mine(j)'
  <2>1. NoPm => NoPm'
    BY <1>3 DEF NoPm, IsPm
  <2> QED
    BY <1>1, <1>2, <2>1, Frame DEF Inv, files, plugins
<1>6. ASSUME NEW p \in Pids
      PROVE  PmOK(p)'
  <2>1. CASE p = q
    BY <1>3, <2>1 DEF PmOK, IsPm
  <2>2. CASE p # q
    BY <1>1, <1>3, <2>2 DEF Inv, PmOK, IsPm, Running
  <2> QED
    BY <2>1, <2>2
<1>7. Shared'
  BY <1>1, <1>2 DEF Inv, Shared, files, plugins
<1> QED
  BY <1>4, <1>5, <1>6, <1>7 DEF Inv

-----------------------------------------------------------------------------
(* The invariant, and what it says.                                        *)

\* Nothing runs and no file is there.
LEMMA InitInv ==
    ASSUME Init
    PROVE  Inv
<1>1. /\ NoServer \in Server /\ NoServer.pc = "off" /\ ~NoServer.stale /\ NoServer.why = "none"
  BY ConstantsAssumption DEF Server, NoServer, Pcs, Before
<1>2. Free \in Process /\ Free.kind = "free" /\ Free.from = 0
  BY DEF Free, Process
<1>3. /\ \A i \in Launches : server[i] = NoServer
      /\ \A p \in Pids : proc[p] = Free
      /\ \A i \in Launches, k \in 1..3 : child[i][k] = "none"
  BY DEF Init
<1>4. Types
  <2>1. server \in [Launches -> Server] /\ proc \in [Pids -> Process]
    BY <1>1, <1>2 DEF Init
  <2>2. used \in Used
    BY DEF Init, Used
  <2>3. /\ child \in [Launches -> [1..3 -> {"none", "up"}]]
        /\ registered \in [1..3 -> Launches \cup {0}]
    BY DEF Init
  <2> QED
    BY <2>1, <2>2, <2>3 DEF Init, Types, Absent
<1>5. ASSUME NEW i \in Launches
      PROVE  Mine(i)
  BY <1>1, <1>3 DEF Mine, Lock, Plugins, Password, Cleared, Early, Key, At,
                    Holding, Starting, Up
<1>6. \A p \in Pids : PmOK(p)
  BY <1>2, <1>3 DEF PmOK, IsPm
<1>7. Shared
  BY <1>2, <1>3 DEF Init, Shared
<1> QED
  BY <1>4, <1>5, <1>6, <1>7 DEF Inv

\* A step of server i's start.
LEMMA StartStepKeeps ==
    ASSUME Inv, NEW i \in Launches, StartStep(i)
    PROVE  Inv'
<1>1. ASSUME NEW k \in 1..3, StartKid(i, k)
      PROVE  Inv'
  BY <1>1, StartKidKeeps
<1>2. StartOllamaAgent(i) \/ StartWhisperTranscriber(i) \/ StartWhisperCppStreaming(i) => Inv'
  BY <1>1 DEF StartOllamaAgent, StartWhisperTranscriber, StartWhisperCppStreaming
<1> QED
  BY <1>2, EnsureMasterKeyKeeps, PersistMasterKeyKeeps, AcquireOwnerLockKeeps,
     LoadOrCreatePasswordKeeps, WritePasswordKeeps, ReapOrphanPostgresKeeps, OrphanExitedKeeps,
     RemoveStalePostmasterPIDKeeps, StartSucceedsKeeps, PasswordRefusedKeeps, StaleFileKeeps,
     PortTakenKeeps, StartFailsKeeps, MigrateKeeps, EnsureDefaultPluginKeeps, KidNotReadyKeeps
  DEF StartStep

\* A step of server i's shutdown.
LEMMA StopStepKeeps ==
    ASSUME Inv, NEW i \in Launches, StopStep(i)
    PROVE  Inv'
<1>1. StopAgent(i) => Inv'
  BY StopKidKeeps DEF StopAgent
<1>2. StopWhisper(i) => Inv'
  BY StopKidKeeps DEF StopWhisper
<1> QED
  BY <1>1, <1>2, StopKeeps, WaitForExitKeeps, ForceKillKeeps, WaitForKillKeeps,
     ReleaseOwnerLockKeeps, ExitKeeps
  DEF StopStep

\* Every step keeps the invariant.
LEMMA StepInv ==
    ASSUME Inv, [Next]_vars
    PROVE  Inv'
<1>1. ASSUME NEW i \in Launches, Launch(i) \/ StartStep(i) \/ RequestStop(i) \/ StopStep(i) \/ Kill(i)
      PROVE  Inv'
  BY <1>1, LaunchKeeps, StartStepKeeps, RequestStopKeeps, StopStepKeeps, KillKeeps
<1>2. ASSUME NEW p \in Pids, PostmasterExits(p) \/ PostmasterCrashes(p) \/ StrangerStarts(p)
      PROVE  Inv'
  BY <1>2, PostmasterExitsKeeps, PostmasterCrashesKeeps, StrangerStartsKeeps
<1>3. CASE UNCHANGED vars
  <2>1. Types' /\ Shared'
    BY <1>3 DEF vars, Inv, Types, Shared
  <2>2. ASSUME NEW i \in Launches
        PROVE  Mine(i)'
    BY <1>3, Frame DEF vars, Inv, NoPm, IsPm
  <2>3. ASSUME NEW p \in Pids
        PROVE  PmOK(p)'
    BY <1>3 DEF vars, Inv, PmOK, IsPm, Running, Ours
  <2> QED
    BY <2>1, <2>2, <2>3 DEF Inv
<1> QED
  BY <1>1, <1>2, <1>3 DEF Next

\* Whatever the launches, the kills and the strangers: a postmaster that runs is
\* the one in the file, its server has the lock as long as it runs, and a server
\* at each statement can rely on what it checked before.
THEOREM InvAlways ==
    Spec => []Inv
<1>1. Init => Inv
  BY InitInv
<1>2. Inv /\ [Next]_vars => Inv'
  BY StepInv
<1> QED
  BY <1>1, <1>2, PTL DEF Spec

\* One postmaster at most: each is the one in the file.
LEMMA OnePostmaster ==
    ASSUME Inv
    PROVE  Cardinality(Postmasters) <= 1
<1>1. Postmasters \subseteq {pidfile}
  BY DEF Inv, PmOK, IsPm, Postmasters
<1>2. IsFiniteSet({pidfile}) /\ Cardinality({pidfile}) = 1
  BY FS_Singleton
<1>3. IsFiniteSet(Postmasters) /\ Cardinality(Postmasters) <= Cardinality({pidfile})
  BY <1>1, <1>2, FS_Subset
<1> QED
  BY <1>2, <1>3

\* The directory has one postmaster at most, which only its own server signals as
\* long as that server runs, and no other process is; a server that serves is the
\* one its plugins are registered for; one that ended by itself leaves no plugin,
\* and a postmaster only if it is killed or did not start properly.
THEOREM DirectoryHasOneOwner ==
    Spec => []OneOwner
<1>1. ASSUME Inv
      PROVE  OneOwner
  <2>1. TypeOK
    <3>1. /\ \A p \in Pids : proc[p].kind \in {"free", "pm", "other"} /\ proc[p].sig \in {"none", "int", "kill"}
          /\ \A i \in Launches : server[i].pid \in Pids \cup {0} /\ server[i].attempts \in 0..MaxAttempts
      BY <1>1 DEF Inv, Types, Server, Process
    <3>2. \A i \in Launches, k \in 1..3 : child[i][k] \in {"none", "up"}
      BY <1>1 DEF Inv, Types
    <3> QED
      BY <1>1, <3>1, <3>2 DEF Inv, Types, TypeOK
  <2>2. Cardinality(Postmasters) <= 1
    BY <1>1, OnePostmaster
  <2>3. \A p \in Pids : proc[p].from # 0 =>
          /\ p \in Postmasters
          /\ proc[p].from # proc[p].by => ~Running(proc[p].by)
    BY <1>1 DEF Inv, PmOK, IsPm, Postmasters
  <2>4. \A i \in Launches : At(i, "serve") => registered[2] = i /\ registered[3] = i
    BY <1>1 DEF Inv, Mine, Plugins
  <2>5. ASSUME NEW i \in Launches, At(i, "exited")
        PROVE  /\ \A k \in 1..3 : child[i][k] # "up"
               /\ \A p \in Postmasters : proc[p].by = i => server[i].left \/ proc[p].sig = "kill"
    <3>1. \A k \in 1..3 : child[i][k] # "up"
      BY <1>1, <2>5 DEF Inv, Mine, Plugins, At
    <3>2. \A p \in Postmasters : proc[p].by = i => server[i].left \/ proc[p].sig = "kill"
      BY <1>1, <2>5 DEF Inv, PmOK, IsPm, Postmasters, Ours, At
    <3> QED
      BY <3>1, <3>2
  <2> QED
    BY <2>1, <2>2, <2>3, <2>4, <2>5 DEF OneOwner
<1> QED
  BY <1>1, InvAlways, PTL

\* What earlier launches left locks nobody out of the data: the password a launch
\* reads is the cluster's, a file stops it only when a stranger has the id, the key
\* it reads opens what was sealed, and a password file that was never written (which
\* does stop every launch) is there only as long as there is no cluster.
THEOREM StartsFailForCause ==
    Spec => []StartFailsForCause
<1>1. ASSUME Inv
      PROVE  StartFailsForCause
  <2>1. pgpass = Empty => cluster = 0
    BY <1>1, ConstantsAssumption DEF Inv, Shared, Types, Empty
  <2> QED
    BY <1>1, <2>1 DEF Inv, Mine, Password, Cleared, Shared, StartFailsForCause
<1> QED
  BY <1>1, InvAlways, PTL
============================================================================
