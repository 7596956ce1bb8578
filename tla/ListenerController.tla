------------------------- MODULE ListenerController -------------------------
(***************************************************************************)
(* The private TLS listener for iOS clients of the desktop application:    *)
(* ControlServer reads one request at a time from the desktop's pipe,      *)
(* ListenerController serves it under a mutex and starts one watcher per   *)
(* listener, and the certificates are files in the application's directory *)
(* (api/listener_controller.go, iosaccess/, cmd/muesli/ios_access.go).     *)
(* The network changes under all of them, and the process may stop between *)
(* any two file operations.                                                *)
(*                                                                         *)
(* A pair is <<interface, address>>; its family is the address's own.  A   *)
(* key pair is a number; a certificate file holds one, or nothing.         *)
(***************************************************************************)
EXTENDS Integers, FiniteSets

CONSTANTS
    Interfaces,   \* names of interfaces that are up and not loopback
    Addresses,    \* addresses they may have
    Private,      \* the ones classify accepts
    MaxRequests,  \* bound: lines on the pipe
    MaxMoves,     \* bound: addresses that come or go
    MaxFaults,    \* bound: failed system calls
    MaxCrashes    \* bound: stops of the process

VARIABLES
    raw,        \* the addresses the host has
    certFile, keyFile, expired, \* the certificate directory; key pairs past NotAfter
    ctl,        \* ControlServer.Serve: the request in hand, and its next step
    pair, unusableCh, serving, unusable, \* the controller: a channel is its generation
    watch,      \* the watchers, by generation
    answer,     \* the last ControlResponse
    missed,     \* history: the open pair has been missing since it was opened
    used        \* how much of each bound is used

vars == <<raw, certFile, keyFile, expired, ctl, pair, unusableCh, serving, unusable,
          watch, answer, missed, used>>
files == <<certFile, keyFile, expired>>
controller == <<pair, unusableCh, serving, unusable>>

Pairs == Interfaces \X Addresses
Gens == 1..MaxRequests
NoPair == <<>>
None == 0      \* no file
Empty == -1    \* a file that was truncated and never written
Idle == [pc |-> "idle", action |-> "none", pair |-> NoPair, cert |-> None, key |-> None]
Unborn == [pc |-> "exited", bound |-> NoPair, cancelled |-> FALSE]

Init ==
    /\ raw = {p \in Pairs : p[2] \in Private}
    /\ certFile = [a \in Addresses |-> None] /\ keyFile = certFile /\ expired = {}
    /\ ctl = Idle
    /\ pair = NoPair /\ unusableCh = 0 /\ serving = {} /\ unusable = FALSE
    /\ watch = [g \in Gens |-> Unborn]
    /\ answer = "none" /\ missed = FALSE
    /\ used = [requests |-> 0, moves |-> 0, faults |-> 0, crashes |-> 0, keys |-> 0]

Spend(what, max) == used[what] < max /\ used' = [used EXCEPT ![what] = @ + 1]
Fault == Spend("faults", MaxFaults)
Address(p) == p[2]

----------------------------------------------------------------------------
(* The interfaces. *)
classify(a) == a \in Private

EligiblePairs(interfaces) == {p \in interfaces : classify(Address(p))}

Snapshot == EligiblePairs(raw)

ContainsPair(pairs, target) == target \in pairs

Open == {watch[g].bound : g \in serving}

Move ==
    /\ Spend("moves", MaxMoves)
    /\ \E p \in Pairs : raw' = (raw \ {p}) \cup ({p} \ raw)
    /\ missed' = (missed \/ ~(Open \subseteq EligiblePairs(raw')))
    /\ UNCHANGED <<files, ctl, controller, watch, answer>>

----------------------------------------------------------------------------
(* The pipe. *)
Respond(result) == answer' = result /\ ctl' = Idle

Step(pc) == ctl' = [ctl EXCEPT !.pc = pc] /\ UNCHANGED answer

FirstStep(action) == IF action = "reset" THEN "resetCert" ELSE action

\* A line: an action on a pair, or one that handleLine refuses outright.
HandleLine ==
    /\ ctl.pc = "idle" /\ Spend("requests", MaxRequests)
    /\ \/ \E action \in {"enable", "reset", "disable"}, p \in {q \in Pairs : Address(q) \in Private} :
            /\ ctl' = [Idle EXCEPT !.pc = FirstStep(action), !.action = action, !.pair = p]
            /\ answer' = "none"
       \/ Respond("error")
    /\ UNCHANGED <<raw, files, controller, watch, missed>>

DisableLocked ==
    /\ watch' = [g \in Gens |-> IF g = unusableCh THEN [watch[g] EXCEPT !.cancelled = TRUE] ELSE watch[g]]
    /\ serving' = serving \ {unusableCh}
    /\ pair' = NoPair /\ unusableCh' = 0 /\ missed' = FALSE

Disable ==
    /\ ctl.pc = "disable"
    /\ DisableLocked /\ unusable' = FALSE
    /\ Respond("ok")
    /\ UNCHANGED <<raw, files, used>>

\* The pipe ends, or cannot be written: Serve returns and disables.
Hangup ==
    /\ ctl.pc = "idle"
    /\ ctl' = [Idle EXCEPT !.pc = "closed"]
    /\ DisableLocked /\ unusable' = FALSE
    /\ answer' = "none"
    /\ UNCHANGED <<raw, files, used>>

----------------------------------------------------------------------------
(* Certificates. *)
Loadable(a) ==
    /\ certFile[a] \notin {None, Empty} \cup expired
    /\ keyFile[a] # None

RemoveFile(pc, next, file, update(_)) ==
    /\ ctl.pc = pc
    /\ \/ update(None) /\ Step(next) /\ UNCHANGED used
       \/ Fault /\ update(file[Address(ctl.pair)]) /\ Respond("error")
    /\ UNCHANGED <<raw, controller, watch, missed>>

SetCert(v) == certFile' = [certFile EXCEPT ![Address(ctl.pair)] = v] /\ UNCHANGED <<keyFile, expired>>

SetKey(v) == keyFile' = [keyFile EXCEPT ![Address(ctl.pair)] = v] /\ UNCHANGED <<certFile, expired>>

ResetCertificate ==
    \/ RemoveFile("resetCert", "resetKey", certFile, SetCert)
    \/ RemoveFile("resetKey", "enable", keyFile, SetKey)

\* A fresh key pair, its certificate and its fingerprint.
GenerateCertificate == used.keys + 1

LoadOrCreateCertificate ==
    /\ ctl.pc = "load"
    /\ LET a == Address(ctl.pair) IN
        IF Loadable(a)
        THEN /\ ctl' = [ctl EXCEPT !.pc = "bind", !.cert = certFile[a], !.key = keyFile[a]]
             /\ UNCHANGED used
        ELSE /\ ctl' = [ctl EXCEPT !.pc = "writeCert", !.cert = GenerateCertificate, !.key = GenerateCertificate]
             /\ used' = [used EXCEPT !.keys = @ + 1]
    /\ UNCHANGED <<raw, files, controller, watch, answer, missed>>

\* os.WriteFile truncates first; a write that fails leaves what it wrote.
WriteFile(pc, next, value, update(_)) ==
    /\ ctl.pc = pc
    /\ \/ update(value) /\ Step(next) /\ UNCHANGED used
       \/ Fault /\ update(Empty) /\ Respond("error")
    /\ UNCHANGED <<raw, controller, watch, missed>>

WriteCertificate ==
    \/ WriteFile("writeCert", "writeKey", ctl.cert, SetCert)
    \/ WriteFile("writeKey", "bind", ctl.key, SetKey)

Expire ==
    /\ \E k \in 1..used.keys : expired' = expired \cup {k}
    /\ UNCHANGED <<raw, certFile, keyFile, ctl, controller, watch, answer, missed, used>>

----------------------------------------------------------------------------
(* Enable, which holds the mutex from here to Bind. *)
Locked == ctl.pc \in {"load", "writeCert", "writeKey", "bind"}

Enable ==
    /\ ctl.pc = "enable"
    /\ DisableLocked
    /\ \/ ContainsPair(Snapshot, ctl.pair) /\ Step("load") /\ UNCHANGED used
       \/ ~ContainsPair(Snapshot, ctl.pair) /\ Respond("error") /\ UNCHANGED used
       \/ Fault /\ Respond("error")
    /\ UNCHANGED <<raw, files, unusable>>

Bindable(p) == ctl.cert = ctl.key /\ Address(p) \in {Address(q) : q \in raw}

Bind ==
    /\ ctl.pc = "bind"
    /\ LET g == used.requests IN
       IF Bindable(ctl.pair)
       THEN /\ pair' = ctl.pair /\ unusableCh' = g /\ unusable' = FALSE
            /\ serving' = serving \cup {g}
            /\ watch' = [watch EXCEPT ![g] = [pc |-> "ticking", bound |-> ctl.pair, cancelled |-> FALSE]]
            /\ missed' = ~ContainsPair(Snapshot, ctl.pair)
            /\ Respond("ok") /\ UNCHANGED used
       ELSE Respond("error") /\ UNCHANGED <<controller, watch, missed, used>>
    /\ UNCHANGED <<raw, files>>

\* A system call fails with the files as they were: mkdir, open, listen.
CallFails ==
    /\ ctl.pc \in {"writeCert", "writeKey", "bind"} /\ Fault /\ Respond("error")
    /\ UNCHANGED <<raw, files, controller, watch, missed>>

----------------------------------------------------------------------------
(* The watcher of generation g.  A tick that finds the pair changes        *)
(* nothing; select may prefer a tick to a context that is already done.    *)
Tick(g) ==
    /\ watch[g].pc = "ticking"
    /\ ~ContainsPair(Snapshot, watch[g].bound)
    /\ watch' = [watch EXCEPT ![g].pc = "missing"]
    /\ UNCHANGED <<raw, files, ctl, controller, answer, missed, used>>

TickFails(g) ==
    /\ watch[g].pc = "ticking" /\ Fault
    /\ watch' = [watch EXCEPT ![g].pc = "missing"]
    /\ missed' = (missed \/ g \in serving)
    /\ UNCHANGED <<raw, files, ctl, controller, answer>>

Cancelled(g) ==
    /\ watch[g].pc = "ticking" /\ watch[g].cancelled
    /\ watch' = [watch EXCEPT ![g] = Unborn]
    /\ UNCHANGED <<raw, files, ctl, controller, answer, missed, used>>

\* Mutation: the watcher recognises its listener by the pair alone.
EqualPair(g) == pair = watch[g].bound

CurrentGeneration(g) == pair = watch[g].bound /\ unusableCh = g

Watch(g) ==
    /\ watch[g].pc = "missing" /\ ~Locked
    /\ watch' = [watch EXCEPT ![g] = Unborn]
    /\ IF CurrentGeneration(g)
       THEN /\ serving' = serving \ {unusableCh}
            /\ pair' = NoPair /\ unusableCh' = 0 /\ missed' = FALSE
            /\ unusable' = TRUE
       ELSE UNCHANGED <<controller, missed>>
    /\ UNCHANGED <<raw, files, ctl, answer, used>>

----------------------------------------------------------------------------
\* The process stops, perhaps inside a write, and is started again.
Restart ==
    /\ Spend("crashes", MaxCrashes)
    /\ \/ ctl.pc = "writeCert" /\ SetCert(Empty)
       \/ ctl.pc = "writeKey" /\ SetKey(Empty)
       \/ UNCHANGED files
    /\ ctl' = Idle
    /\ pair' = NoPair /\ unusableCh' = 0 /\ serving' = {} /\ unusable' = FALSE
    /\ watch' = [g \in Gens |-> Unborn]
    /\ answer' = "none" /\ missed' = FALSE
    /\ UNCHANGED raw

ServeStep == \/ ResetCertificate \/ Enable \/ LoadOrCreateCertificate \/ WriteCertificate
             \/ Bind \/ CallFails \/ Disable
Watcher(g) == Tick(g) \/ TickFails(g) \/ Cancelled(g) \/ Watch(g)
Next == HandleLine \/ ServeStep \/ Hangup \/ (\E g \in Gens : Watcher(g)) \/ Move \/ Expire \/ Restart

\* Go runs every goroutine that can run: a request that was read is served, and a watcher ticks.
Fairness == WF_vars(ServeStep) /\ \A g \in Gens : WF_vars(Watcher(g))

Spec == Init /\ [][Next]_vars /\ Fairness
----------------------------------------------------------------------------
TypeOK ==
    /\ raw \subseteq Pairs
    /\ certFile \in [Addresses -> Int] /\ keyFile \in [Addresses -> Int]
    /\ expired \subseteq Nat
    /\ pair \in Pairs \cup {NoPair} /\ unusableCh \in {0} \cup Gens
    /\ serving \subseteq Gens /\ unusable \in BOOLEAN
    /\ watch \in [Gens -> [pc : {"ticking", "missing", "exited"}, bound : Pairs \cup {NoPair},
                           cancelled : BOOLEAN]]
    /\ answer \in {"none", "ok", "error"} /\ missed \in BOOLEAN

\* The desktop's pipe to one run of the process.
Session == <<used.crashes, IF ctl.pc = "closed" THEN "ended" ELSE "open">>

Promise == INSTANCE ListenerPromise WITH
    Pairs <- {p \in Pairs : classify(Address(p))},
    network <- Snapshot, open <- Open, session <- Session

(* The controller keeps the promise of ListenerPromise: with its mutex,    *)
(* its generations of watchers and its certificate files it serves one     *)
(* address, a stale watcher never closes the listener of a later request   *)
(* on the same pair, a failed Enable or Reset leaves no socket behind,     *)
(* "unusable" lasts until the next request, and a listener whose address   *)
(* stays away is closed.                                                   *)
KeepsPromise == []TypeOK /\ Promise!Spec
=============================================================================
