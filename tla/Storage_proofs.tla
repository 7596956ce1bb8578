--------------------------- MODULE Storage_proofs ---------------------------
(***************************************************************************)
(* Proofs about the specifications that MCStorage holds: Recordings, for   *)
(* any notes, recordings, calls and uploads; Backups (Dumps!), for any     *)
(* number of backups, retention count and length of time; and              *)
(* ListenerController (Listener!), for any interfaces and addresses and    *)
(* any number of requests, moves, faults and restarts.                     *)
(*                                                                         *)
(* A watcher of the listener acts on what it saw before it had the mutex.  *)
(* What makes that safe is Standing: the listener that is open is the one  *)
(* of the channel in the controller, its watcher is not cancelled and      *)
(* still runs, and if that watcher has seen its pair missing then it       *)
(* really has been.  So a watcher that finds its own pair and channel      *)
(* closes its own listener, and one that does not leaves everything alone. *)
(*                                                                         *)
(* The audio of a recording and its row go in different steps, and so do   *)
(* the listing of old backups and their removal: AudioInv and DumpInv say  *)
(* what each step still knows of the one before it.                        *)
(***************************************************************************)
EXTENDS MCStorage, FiniteSetTheorems, TLAPS

\* The pairs a request may name.
Eligible == {p \in Listener!Pairs : Listener!classify(Listener!Address(p))}

\* A request is in hand.
Requested == {"enable", "resetCert", "resetKey", "load", "writeCert", "writeKey", "bind",
              "disable"}

Ctl == [pc : Requested \cup {"idle", "closed"}, action : {"none", "enable", "reset", "disable"},
        pair : Eligible \cup {Listener!NoPair}, cert : Int, key : Int]

\* The request in hand, and what it has loaded or generated.
CtlOK ==
    /\ ctl \in Ctl
    /\ ctl.pc \in Requested =>
          ctl.pair \in Eligible /\ answer = "none" /\ spent.requests # 0

\* What is used of the bounds.
UsedOK ==
    /\ spent \in [requests : Nat, moves : Nat, faults : Nat, crashes : Nat, keys : Nat]
    /\ spent.requests <= MaxRequests

\* A listener that is open is the controller's current one.
Standing ==
    /\ unusableCh = 0 => serving = {} /\ pair = Listener!NoPair
    /\ unusableCh # 0 =>
          /\ serving = {unusableCh}
          /\ watch[unusableCh].bound = pair /\ pair \in Eligible
          /\ watch[unusableCh].pc \in {"ticking", "missing"} /\ ~watch[unusableCh].cancelled
          /\ watch[unusableCh].pc = "missing" \/ pair \notin raw => missed
    /\ Listener!Locked => unusableCh = 0

ListenerInv == Listener!TypeOK /\ CtlOK /\ UsedOK /\ Standing

-----------------------------------------------------------------------------
(* What is open, as ListenerPromise sees it.                               *)

\* The pair of the current channel is open, or nothing is.
LEMMA OpenIs ==
    ASSUME Standing
    PROVE  /\ unusableCh = 0 => Listener!Open = {}
           /\ unusableCh # 0 => Listener!Open = {pair}
BY DEF Standing, Listener!Open

\* A step of ListenerPromise, or none of its variables changes.
PromiseStep == Listener!Promise!Next \/ UNCHANGED Listener!Promise!vars

\* Steps of the pipe and of the certificate files: the listener stays as it is.
ControlStep ==
    /\ UNCHANGED <<raw, Listener!controller, watch, missed>>
    /\ Listener!Locked' => Listener!Locked
    /\ answer' \in {answer, "none", "error"}
    /\ Listener!Session' = Listener!Session

\* The pipe goes on, and the process.
LEMMA SessionGoesOn ==
    ASSUME spent'.crashes = spent.crashes, ctl.pc # "closed", ctl'.pc # "closed"
    PROVE  Listener!Session' = Listener!Session
BY DEF Listener!Session

\* Such steps keep the invariant, and are requests or refusals to the promise.
LEMMA ControlKeeps ==
    ASSUME ListenerInv, ControlStep, CtlOK', UsedOK',
           certFile' \in [Addresses -> Int], keyFile' \in [Addresses -> Int], expired' \subseteq Nat
    PROVE  ListenerInv' /\ PromiseStep
<1>1. Listener!TypeOK'
  BY DEF ListenerInv, Listener!TypeOK, ControlStep, Listener!controller
<1>2. Standing'
  BY DEF ListenerInv, Standing, ControlStep, Listener!controller
<1>3. Listener!Open' = Listener!Open /\ Listener!Snapshot' = Listener!Snapshot
  BY DEF Listener!Open, Listener!Snapshot, Listener!EligiblePairs, ControlStep, Listener!controller
<1>4. PromiseStep
  <2>1. CASE answer' = answer
    BY <1>3, <2>1 DEF PromiseStep, Listener!Promise!vars, ControlStep, Listener!controller
  <2>2. CASE answer' = "none"
    BY <1>3, <2>2 DEF PromiseStep, Listener!Promise!Next, Listener!Promise!Ask, ControlStep, Listener!controller
  <2>3. CASE answer' = "error"
    BY <1>3, <2>3 DEF PromiseStep, Listener!Promise!Next, Listener!Promise!Refuse, ControlStep, Listener!controller
  <2> QED
    BY <2>1, <2>2, <2>3 DEF ControlStep
<1> QED
  BY <1>1, <1>2, <1>4 DEF ListenerInv

\* The handler answers and waits for the next line.
LEMMA RespondOK ==
    ASSUME NEW result, Listener!Respond(result)
    PROVE  CtlOK' /\ ~Listener!Locked' /\ answer' = result /\ ctl'.pc # "closed"
BY DEF Listener!Respond, Listener!Idle, Ctl, CtlOK, Listener!Locked, Requested, Listener!None

\* The handler goes on.
LEMMA StepOK ==
    ASSUME CtlOK, NEW pc \in Requested, Listener!Step(pc), ctl.pc \in Requested, spent'.requests = spent.requests
    PROVE  CtlOK' /\ ctl'.pc = pc /\ answer' = answer
<1>1. ctl' = [ctl EXCEPT !.pc = pc] /\ answer' = answer
  BY DEF Listener!Step
<1>2. /\ ctl' \in Ctl
      /\ ctl'.pc = pc /\ ctl'.pair = ctl.pair
  BY <1>1 DEF CtlOK, Ctl
<1> QED
  BY <1>1, <1>2 DEF CtlOK

\* The request in hand after a step: where it is, and its pair.
InHand(e, pc, p) == e \in Ctl /\ e.pc = pc /\ e.pair = p

\* A request that has just been read.
LEMMA FreshRequest ==
    ASSUME NEW pc \in Requested, NEW action \in {"enable", "reset", "disable"}, NEW p \in Eligible
    PROVE  InHand([Listener!Idle EXCEPT !.pc = pc, !.action = action, !.pair = p], pc, p)
<1>1. Listener!Idle \in Ctl
  BY DEF Listener!Idle, Ctl, Listener!None
<1>2. ASSUME NEW c \in Ctl PROVE InHand([c EXCEPT !.pc = pc, !.action = action, !.pair = p], pc, p)
  BY DEF Ctl, InHand
<1> QED
  BY <1>1, <1>2

\* A request that has a certificate.
LEMMA WithCertificate ==
    ASSUME NEW c \in Ctl, NEW pc \in Requested, NEW x \in Int, NEW y \in Int
    PROVE  InHand([c EXCEPT !.pc = pc, !.cert = x, !.key = y], pc, c.pair)
BY DEF Ctl, InHand

\* Moves, faults and restarts are counted.
LEMMA SpendOK ==
    ASSUME UsedOK, NEW what \in {"moves", "faults", "crashes"}, NEW max, Listener!Spend(what, max)
    PROVE  /\ UsedOK' /\ spent'.requests = spent.requests
           /\ what # "crashes" => spent'.crashes = spent.crashes
           /\ what = "crashes" => spent'.crashes # spent.crashes
BY DEF UsedOK, Listener!Spend

\* Requests are counted up to their bound.
LEMMA SpendRequest ==
    ASSUME UsedOK, Listener!Spend("requests", MaxRequests), MaxRequests \in Nat
    PROVE  UsedOK' /\ spent'.requests # 0 /\ spent'.crashes = spent.crashes
BY DEF UsedOK, Listener!Spend

-----------------------------------------------------------------------------
(* The actions.                                                            *)

\* A line is read, and its request begins or is refused.
LEMMA HandleLineKeeps ==
    ASSUME ListenerInv, Listener!HandleLine, MaxRequests \in Nat
    PROVE  ListenerInv' /\ PromiseStep
<1>1. UsedOK' /\ spent'.requests # 0 /\ spent'.crashes = spent.crashes /\ ctl.pc # "closed"
  BY SpendRequest DEF Listener!HandleLine, ListenerInv
<1>0. certFile' \in [Addresses -> Int] /\ keyFile' \in [Addresses -> Int] /\ expired' \subseteq Nat
  BY DEF Listener!HandleLine, Listener!files, ListenerInv, Listener!TypeOK
<1>2. CASE \E action \in {"enable", "reset", "disable"}, p \in {q \in Listener!Pairs : Listener!Address(q) \in Private} :
              /\ ctl' = [Listener!Idle EXCEPT !.pc = Listener!FirstStep(action), !.action = action, !.pair = p]
              /\ answer' = "none"
  <2>1. PICK action \in {"enable", "reset", "disable"}, p \in Eligible :
            /\ ctl' = [Listener!Idle EXCEPT !.pc = Listener!FirstStep(action), !.action = action, !.pair = p]
            /\ answer' = "none"
    BY <1>2 DEF Eligible, Listener!classify
  <2>2. Listener!FirstStep(action) \in {"enable", "resetCert", "disable"} /\ Listener!FirstStep(action) \in Requested
    BY DEF Listener!FirstStep, Requested
  <2>3. InHand(ctl', Listener!FirstStep(action), p)
    BY <2>1, <2>2, FreshRequest
  <2>5. CtlOK' /\ ctl'.pc \in {"enable", "resetCert", "disable"}
    BY <1>1, <2>1, <2>2, <2>3 DEF CtlOK, InHand
  <2>4. ControlStep
    <3>1. Listener!Session' = Listener!Session  BY <1>1, <2>5, SessionGoesOn
    <3> QED  BY <2>1, <2>5, <3>1 DEF Listener!HandleLine, ControlStep, Listener!Locked
  <2> QED
    BY <1>0, <1>1, <2>4, <2>5, ControlKeeps
<1>3. CASE Listener!Respond("error")
  <2>1. CtlOK' /\ ~Listener!Locked' /\ answer' = "error" /\ ctl'.pc # "closed"
    BY <1>3, RespondOK
  <2>2. ControlStep
    BY <1>1, <2>1, SessionGoesOn DEF Listener!HandleLine, ControlStep
  <2> QED
    BY <1>0, <1>1, <2>1, <2>2, ControlKeeps
<1> QED
  BY <1>2, <1>3 DEF Listener!HandleLine

\* A step of a handler that stays within it, or that answers "error".
LEMMA HandlerKeeps ==
    ASSUME ListenerInv, ctl.pc \in Requested, NEW pc \in Requested,
           pc \in {"load", "writeCert", "writeKey", "bind"} => Listener!Locked,
           \/ Listener!Step(pc) /\ UNCHANGED spent
           \/ Listener!Fault /\ Listener!Respond("error"),
           certFile' \in [Addresses -> Int], keyFile' \in [Addresses -> Int], expired' = expired,
           UNCHANGED <<raw, Listener!controller, watch, missed>>
    PROVE  ListenerInv' /\ PromiseStep
<1>0. ctl.pc # "closed" /\ pc # "closed"
  BY DEF Requested
<1>1. CASE Listener!Step(pc) /\ UNCHANGED spent
  <2>1. CtlOK' /\ ctl'.pc = pc /\ answer' = answer /\ UsedOK'
    BY <1>1, StepOK DEF ListenerInv, UsedOK
  <2>2. ControlStep
    BY <1>0, <1>1, <2>1, SessionGoesOn DEF ControlStep, Listener!Locked
  <2> QED
    BY <2>1, <2>2, ControlKeeps DEF ListenerInv, Listener!TypeOK
<1>2. CASE Listener!Fault /\ Listener!Respond("error")
  <2>1. /\ CtlOK' /\ ~Listener!Locked' /\ answer' = "error" /\ UsedOK'
        /\ ctl'.pc # "closed" /\ spent'.crashes = spent.crashes
    BY <1>2, RespondOK, SpendOK DEF ListenerInv, Listener!Fault
  <2>2. ControlStep
    BY <1>0, <2>1, SessionGoesOn DEF ControlStep
  <2> QED
    BY <2>1, <2>2, ControlKeeps DEF ListenerInv, Listener!TypeOK
<1> QED
  BY <1>1, <1>2

\* What is written to a certificate's files.
LEMMA SetFiles ==
    ASSUME ListenerInv, NEW v \in Int, Listener!SetCert(v) \/ Listener!SetKey(v)
    PROVE  /\ certFile' \in [Addresses -> Int] /\ keyFile' \in [Addresses -> Int]
           /\ expired' = expired
BY DEF ListenerInv, Listener!TypeOK, Listener!SetCert, Listener!SetKey

\* What the files hold is a key pair, or the sign of an empty or a missing file.
LEMMA FileValues ==
    ASSUME ListenerInv, ctl.pc \in Requested
    PROVE  /\ certFile[Listener!Address(ctl.pair)] \in Int /\ keyFile[Listener!Address(ctl.pair)] \in Int
           /\ Listener!Address(ctl.pair) \in Addresses
BY DEF ListenerInv, Listener!TypeOK, CtlOK, Eligible, Listener!Pairs, Listener!Address

\* The files of a certificate are removed.
LEMMA ResetKeeps ==
    ASSUME ListenerInv, Listener!ResetCertificate
    PROVE  ListenerInv' /\ PromiseStep
<1>1. CASE Listener!RemoveFile("resetCert", "resetKey", certFile, Listener!SetCert)
  <2>1. /\ ctl.pc = "resetCert" /\ UNCHANGED <<raw, Listener!controller, watch, missed>>
        /\ \/ Listener!SetCert(Listener!None) /\ Listener!Step("resetKey") /\ UNCHANGED spent
           \/ Listener!Fault /\ Listener!SetCert(certFile[Listener!Address(ctl.pair)]) /\ Listener!Respond("error")
    BY <1>1 DEF Listener!RemoveFile
  <2>2. certFile[Listener!Address(ctl.pair)] \in Int /\ Listener!None \in Int
    BY <2>1, FileValues DEF Requested, Listener!None
  <2>3. /\ certFile' \in [Addresses -> Int] /\ keyFile' \in [Addresses -> Int]
        /\ expired' = expired
    BY <2>1, <2>2, SetFiles
  <2> QED
    BY <2>1, <2>3, HandlerKeeps DEF Requested
<1>2. CASE Listener!RemoveFile("resetKey", "enable", keyFile, Listener!SetKey)
  <2>1. /\ ctl.pc = "resetKey" /\ UNCHANGED <<raw, Listener!controller, watch, missed>>
        /\ \/ Listener!SetKey(Listener!None) /\ Listener!Step("enable") /\ UNCHANGED spent
           \/ Listener!Fault /\ Listener!SetKey(keyFile[Listener!Address(ctl.pair)]) /\ Listener!Respond("error")
    BY <1>2 DEF Listener!RemoveFile
  <2>2. keyFile[Listener!Address(ctl.pair)] \in Int /\ Listener!None \in Int
    BY <2>1, FileValues DEF Requested, Listener!None
  <2>3. /\ certFile' \in [Addresses -> Int] /\ keyFile' \in [Addresses -> Int]
        /\ expired' = expired
    BY <2>1, <2>2, SetFiles
  <2> QED
    BY <2>1, <2>3, HandlerKeeps DEF Requested
<1> QED
  BY <1>1, <1>2 DEF Listener!ResetCertificate

\* The files of a certificate are written.
LEMMA WriteKeeps ==
    ASSUME ListenerInv, Listener!WriteCertificate
    PROVE  ListenerInv' /\ PromiseStep
<1>1. ctl.cert \in Int /\ ctl.key \in Int /\ Listener!Empty \in Int
  BY DEF ListenerInv, CtlOK, Ctl, Listener!Empty
<1>2. CASE Listener!WriteFile("writeCert", "writeKey", ctl.cert, Listener!SetCert)
  <2>1. /\ ctl.pc = "writeCert" /\ UNCHANGED <<raw, Listener!controller, watch, missed>>
        /\ \/ Listener!SetCert(ctl.cert) /\ Listener!Step("writeKey") /\ UNCHANGED spent
           \/ Listener!Fault /\ Listener!SetCert(Listener!Empty) /\ Listener!Respond("error")
    BY <1>2 DEF Listener!WriteFile
  <2>2. /\ certFile' \in [Addresses -> Int] /\ keyFile' \in [Addresses -> Int]
        /\ expired' = expired
    BY <1>1, <2>1, SetFiles
  <2> QED
    BY <2>1, <2>2, HandlerKeeps DEF Requested, Listener!Locked
<1>3. CASE Listener!WriteFile("writeKey", "bind", ctl.key, Listener!SetKey)
  <2>1. /\ ctl.pc = "writeKey" /\ UNCHANGED <<raw, Listener!controller, watch, missed>>
        /\ \/ Listener!SetKey(ctl.key) /\ Listener!Step("bind") /\ UNCHANGED spent
           \/ Listener!Fault /\ Listener!SetKey(Listener!Empty) /\ Listener!Respond("error")
    BY <1>3 DEF Listener!WriteFile
  <2>2. /\ certFile' \in [Addresses -> Int] /\ keyFile' \in [Addresses -> Int]
        /\ expired' = expired
    BY <1>1, <2>1, SetFiles
  <2> QED
    BY <2>1, <2>2, HandlerKeeps DEF Requested, Listener!Locked
<1> QED
  BY <1>2, <1>3 DEF Listener!WriteCertificate

\* A system call fails and the request is refused.
LEMMA CallFailsKeeps ==
    ASSUME ListenerInv, Listener!CallFails
    PROVE  ListenerInv' /\ PromiseStep
<1>1. /\ ctl.pc \in {"writeCert", "writeKey", "bind"} /\ Listener!Fault /\ Listener!Respond("error")
      /\ UNCHANGED <<raw, Listener!files, Listener!controller, watch, missed>>
  BY DEF Listener!CallFails
<1>2. certFile' \in [Addresses -> Int] /\ keyFile' \in [Addresses -> Int] /\ expired' = expired
  BY <1>1 DEF ListenerInv, Listener!TypeOK, Listener!files
<1>3. "enable" \in Requested /\ ctl.pc \in Requested
  BY <1>1 DEF Requested
<1> QED
  BY <1>1, <1>2, <1>3, HandlerKeeps

\* A certificate is loaded, or generated.
LEMMA LoadKeeps ==
    ASSUME ListenerInv, Listener!LoadOrCreateCertificate
    PROVE  ListenerInv' /\ PromiseStep
<1>1. /\ ctl.pc = "load" /\ UNCHANGED <<raw, Listener!files, Listener!controller, watch, answer, missed>>
  BY DEF Listener!LoadOrCreateCertificate
<1>2. /\ certFile[Listener!Address(ctl.pair)] \in Int /\ keyFile[Listener!Address(ctl.pair)] \in Int
      /\ spent.keys \in Nat
  BY <1>1, FileValues DEF Requested, ListenerInv, UsedOK
<1>3. "bind" \in Requested /\ "writeCert" \in Requested /\ ctl \in Ctl
  BY DEF Requested, ListenerInv, CtlOK
<1>4. UsedOK' /\ spent'.requests = spent.requests /\ spent'.crashes = spent.crashes
  BY DEF Listener!LoadOrCreateCertificate, ListenerInv, UsedOK
<1>5. InHand(ctl', "bind", ctl.pair) \/ InHand(ctl', "writeCert", ctl.pair)
  <2>1. CASE ctl' = [ctl EXCEPT !.pc = "bind", !.cert = certFile[Listener!Address(ctl.pair)],
                                !.key = keyFile[Listener!Address(ctl.pair)]]
    BY <1>2, <1>3, <2>1, WithCertificate
  <2>2. CASE ctl' = [ctl EXCEPT !.pc = "writeCert", !.cert = spent.keys + 1, !.key = spent.keys + 1]
    <3>1. spent.keys + 1 \in Int
      BY <1>2
    <3> QED
      BY <1>3, <2>2, <3>1, WithCertificate
  <2> QED
    BY <2>1, <2>2 DEF Listener!LoadOrCreateCertificate, Listener!GenerateCertificate
<1>6. CtlOK'
  BY <1>1, <1>4, <1>5 DEF ListenerInv, CtlOK, Requested, InHand
<1>7. ControlStep
  <2>1. Listener!Session' = Listener!Session  BY <1>1, <1>4, <1>5, SessionGoesOn DEF InHand
  <2> QED  BY <1>1, <1>5, <2>1 DEF ControlStep, Listener!Locked, InHand
<1> QED
  BY <1>1, <1>4, <1>6, <1>7, ControlKeeps DEF Listener!files, ListenerInv, Listener!TypeOK

\* A certificate runs out.
LEMMA ExpireKeeps ==
    ASSUME ListenerInv, Listener!Expire
    PROVE  ListenerInv' /\ PromiseStep
<1>1. UNCHANGED <<raw, certFile, keyFile, ctl, Listener!controller, watch, answer, missed, spent>>
  BY DEF Listener!Expire
<1>2. CtlOK' /\ UsedOK' /\ ControlStep
  BY <1>1 DEF ListenerInv, CtlOK, UsedOK, ControlStep, Listener!Locked, Listener!Session
<1>3. expired' \subseteq Nat
  BY DEF Listener!Expire, ListenerInv, Listener!TypeOK, UsedOK
<1> QED
  BY <1>1, <1>2, <1>3, ControlKeeps DEF ListenerInv, Listener!TypeOK

-----------------------------------------------------------------------------
(* Closing and opening.                                                    *)

WatchState == [pc : {"ticking", "missing", "exited"}, bound : Listener!Pairs \cup {Listener!NoPair},
               cancelled : BOOLEAN]

\* A watcher whose context is cancelled.
LEMMA Cancelling ==
    ASSUME NEW m \in WatchState
    PROVE  [m EXCEPT !.cancelled = TRUE] \in WatchState
BY DEF WatchState

\* The controller has no listener.
Closed ==
    /\ pair' = Listener!NoPair /\ unusableCh' = 0 /\ serving' = {} /\ missed' = FALSE
    /\ watch' \in [Listener!Gens -> WatchState]

\* Disabling leaves the controller without a listener, whatever it had.
LEMMA DisableCloses ==
    ASSUME ListenerInv, Listener!DisableLocked
    PROVE  Closed
<1>1. watch \in [Listener!Gens -> WatchState]
  BY DEF ListenerInv, Listener!TypeOK, WatchState
<1>2. \A g \in Listener!Gens : watch[g] \in WatchState /\ [watch[g] EXCEPT !.cancelled = TRUE] \in WatchState
  BY <1>1, Cancelling
<1>3. watch' \in [Listener!Gens -> WatchState]
  BY <1>2 DEF Listener!DisableLocked
<1>4. serving' = {}
  BY DEF Listener!DisableLocked, ListenerInv, Standing
<1> QED
  BY <1>3, <1>4 DEF Listener!DisableLocked, Closed

\* Once it is closed, the promise asks only that a request is being served, or that
\* the pipe or the process has ended.
LEMMA ClosedKeeps ==
    ASSUME ListenerInv, Closed, CtlOK', UsedOK', raw' = raw,
           certFile' \in [Addresses -> Int], keyFile' \in [Addresses -> Int], expired' \subseteq Nat,
           \/ /\ answer = "none" /\ answer' \in {"none", "error"} /\ unusable' = unusable
              /\ Listener!Session' = Listener!Session
           \/ /\ answer = "none" /\ answer' = "ok" /\ unusable' = FALSE
              /\ Listener!Session' = Listener!Session
           \/ answer' = "none" /\ unusable' = FALSE /\ Listener!Session' # Listener!Session
    PROVE  ListenerInv' /\ PromiseStep
<1>1. Listener!TypeOK'
  BY DEF ListenerInv, Listener!TypeOK, Closed, WatchState
<1>2. Standing'
  BY DEF Standing, Closed
<1>3. Listener!Open' = {} /\ Listener!Snapshot' = Listener!Snapshot
  BY DEF Listener!Open, Listener!Snapshot, Listener!EligiblePairs, Closed
<1>4. PromiseStep
  <2>1. CASE /\ answer = "none" /\ answer' \in {"none", "error"} /\ unusable' = unusable
             /\ Listener!Session' = Listener!Session
    BY <1>3, <2>1 DEF PromiseStep, Listener!Promise!Next, Listener!Promise!Close, Listener!Promise!Closing, Closed
  <2>2. CASE /\ answer = "none" /\ answer' = "ok" /\ unusable' = FALSE
             /\ Listener!Session' = Listener!Session
    BY <1>3, <2>2 DEF PromiseStep, Listener!Promise!Next, Listener!Promise!Stop, Listener!Promise!Closing, Closed
  <2>3. CASE answer' = "none" /\ unusable' = FALSE /\ Listener!Session' # Listener!Session
    BY <1>3, <2>3 DEF PromiseStep, Listener!Promise!Next, Listener!Promise!Leave, Listener!Promise!Closing, Closed
  <2> QED
    BY <2>1, <2>2, <2>3
<1> QED
  BY <1>1, <1>2, <1>4 DEF ListenerInv

\* Enable closes what is open before anything else.
LEMMA EnableKeeps ==
    ASSUME ListenerInv, Listener!Enable
    PROVE  ListenerInv' /\ PromiseStep
<1>1. /\ ctl.pc = "enable" /\ Listener!DisableLocked /\ UNCHANGED <<raw, Listener!files, unusable>>
      /\ \/ Listener!Step("load") /\ UNCHANGED spent
         \/ Listener!Respond("error") /\ UNCHANGED spent
         \/ Listener!Fault /\ Listener!Respond("error")
  BY DEF Listener!Enable
<1>2. answer = "none" /\ ctl.pc \in Requested /\ "load" \in Requested
  BY <1>1 DEF ListenerInv, CtlOK, Requested
<1>3. UsedOK' /\ spent'.requests = spent.requests /\ spent'.crashes = spent.crashes
  BY <1>1, SpendOK DEF ListenerInv, UsedOK, Listener!Fault
<1>4. CtlOK' /\ answer' \in {"none", "error"} /\ ctl'.pc # "closed"
  BY <1>1, <1>2, <1>3, StepOK, RespondOK DEF ListenerInv
<1>5. /\ certFile' \in [Addresses -> Int] /\ keyFile' \in [Addresses -> Int]
      /\ expired' \subseteq Nat /\ raw' = raw /\ unusable' = unusable
  BY <1>1 DEF ListenerInv, Listener!TypeOK, Listener!files
<1>6. Closed
  BY <1>1, DisableCloses
<1>7. Listener!Session' = Listener!Session
  BY <1>1, <1>3, <1>4, SessionGoesOn
<1> QED
  BY <1>2, <1>3, <1>4, <1>5, <1>6, <1>7, ClosedKeeps

\* Disabling on request, and when the pipe ends.
LEMMA DisableKeeps ==
    ASSUME ListenerInv, Listener!Disable \/ Listener!Hangup
    PROVE  ListenerInv' /\ PromiseStep
<1>1. /\ Listener!DisableLocked /\ unusable' = FALSE /\ UNCHANGED <<raw, Listener!files, spent>>
  BY DEF Listener!Disable, Listener!Hangup
<1>2. /\ CtlOK'
      /\ \/ answer = "none" /\ answer' = "ok" /\ Listener!Session' = Listener!Session
         \/ answer' = "none" /\ Listener!Session' # Listener!Session
  <2>1. CASE Listener!Disable
    <3>1. ctl.pc = "disable" /\ answer = "none"
      BY <2>1 DEF Listener!Disable, ListenerInv, CtlOK, Requested
    <3>2. CtlOK' /\ answer' = "ok" /\ ctl'.pc # "closed"
      BY <2>1, RespondOK DEF Listener!Disable
    <3> QED
      BY <1>1, <3>1, <3>2, SessionGoesOn
  <2>2. CASE Listener!Hangup
    <3>1. ctl'.pc = "closed" /\ ctl.pc = "idle" /\ CtlOK'
      BY <2>2 DEF Listener!Hangup, CtlOK, Ctl, Listener!Idle, Listener!None, Requested
    <3> QED
      BY <2>2, <3>1 DEF Listener!Hangup, Listener!Session
  <2> QED
    BY <2>1, <2>2
<1>3. /\ certFile' \in [Addresses -> Int] /\ keyFile' \in [Addresses -> Int]
      /\ expired' \subseteq Nat /\ raw' = raw /\ UsedOK'
  BY <1>1 DEF ListenerInv, Listener!TypeOK, Listener!files, UsedOK
<1>4. Closed
  BY <1>1, DisableCloses
<1> QED
  BY <1>1, <1>2, <1>3, <1>4, ClosedKeeps

\* The process stops and starts again, with whatever files it left.
LEMMA RestartKeeps ==
    ASSUME ListenerInv, Listener!Restart
    PROVE  ListenerInv' /\ PromiseStep
<1>1. /\ ctl' = Listener!Idle /\ answer' = "none" /\ raw' = raw /\ unusable' = FALSE
      /\ Listener!SetCert(Listener!Empty) \/ Listener!SetKey(Listener!Empty) \/ UNCHANGED Listener!files
      /\ Listener!Spend("crashes", MaxCrashes)
  BY DEF Listener!Restart
<1>2. CtlOK'
  BY <1>1 DEF CtlOK, Ctl, Listener!Idle, Listener!None, Requested
<1>3. /\ certFile' \in [Addresses -> Int] /\ keyFile' \in [Addresses -> Int]
      /\ expired' \subseteq Nat
  <2>1. CASE UNCHANGED Listener!files
    BY <2>1 DEF ListenerInv, Listener!TypeOK, Listener!files
  <2>2. CASE Listener!SetCert(Listener!Empty) \/ Listener!SetKey(Listener!Empty)
    <3>1. Listener!Empty \in Int /\ expired \subseteq Nat
      BY DEF Listener!Empty, ListenerInv, Listener!TypeOK
    <3> QED
      BY <2>2, <3>1, SetFiles
  <2> QED
    BY <1>1, <2>1, <2>2
<1>4. UsedOK' /\ Listener!Session' # Listener!Session
  BY <1>1, SpendOK DEF ListenerInv, Listener!Session
<1>5. Closed
  <2>1. Listener!Unborn \in WatchState
    BY DEF Listener!Unborn, WatchState
  <2>2. watch' = [g \in Listener!Gens |-> Listener!Unborn]
    BY DEF Listener!Restart
  <2>3. pair' = Listener!NoPair /\ unusableCh' = 0 /\ serving' = {} /\ missed' = FALSE
    BY DEF Listener!Restart
  <2> QED
    BY <2>1, <2>2, <2>3 DEF Closed
<1> QED
  BY <1>1, <1>2, <1>3, <1>4, <1>5, ClosedKeeps

\* A listener opens only where none is, for an eligible pair, and under the
\* generation of its own request.
LEMMA BindKeeps ==
    ASSUME ListenerInv, Listener!Bind, MaxRequests \in Nat
    PROVE  ListenerInv' /\ PromiseStep
<1> DEFINE g == spent.requests
           fresh == [pc |-> "ticking", bound |-> ctl.pair, cancelled |-> FALSE]
<1>1. ctl.pc = "bind" /\ UNCHANGED <<raw, Listener!files, spent>>
  BY DEF Listener!Bind
<1>2. /\ certFile' \in [Addresses -> Int] /\ keyFile' \in [Addresses -> Int]
      /\ expired' \subseteq Nat /\ UsedOK'
  BY <1>1 DEF ListenerInv, Listener!TypeOK, Listener!files, UsedOK
<1>3. CASE Listener!Respond("error") /\ UNCHANGED <<Listener!controller, watch, missed>>
  <2>1. CtlOK' /\ ~Listener!Locked' /\ answer' = "error" /\ ctl'.pc # "closed"
    BY <1>3, RespondOK
  <2>2. ControlStep
    BY <1>1, <1>3, <2>1, SessionGoesOn DEF ControlStep
  <2> QED
    BY <1>2, <2>1, <2>2, ControlKeeps
<1>4. CASE /\ pair' = ctl.pair /\ unusableCh' = g /\ unusable' = FALSE
           /\ serving' = serving \cup {g}
           /\ watch' = [watch EXCEPT ![g] = fresh]
           /\ missed' = ~Listener!ContainsPair(Listener!Snapshot, ctl.pair) /\ Listener!Respond("ok")
  <2>1. CtlOK' /\ ~Listener!Locked' /\ answer' = "ok" /\ Listener!Session' = Listener!Session
    BY <1>1, <1>4, RespondOK, SessionGoesOn
  <2>2. /\ unusableCh = 0 /\ serving = {} /\ answer = "none" /\ ctl.pair \in Eligible
        /\ g \in Listener!Gens /\ g # 0
    BY <1>1 DEF ListenerInv, Standing, Listener!Locked, CtlOK, Requested, UsedOK, Listener!Gens
  <2>3. fresh \in WatchState /\ fresh.bound = ctl.pair /\ fresh.pc = "ticking" /\ ~fresh.cancelled
    BY <2>2 DEF WatchState, Eligible
  <2> HIDE DEF fresh, g
  <2>4. watch' \in [Listener!Gens -> WatchState] /\ watch'[g] = fresh
    BY <1>4, <2>2, <2>3 DEF ListenerInv, Listener!TypeOK, WatchState
  <2>5. serving' = {g} /\ ctl.pair \in Listener!Pairs
    BY <1>4, <2>2 DEF Eligible
  <2>6. Listener!TypeOK'
    BY <1>1, <1>2, <1>4, <2>1, <2>2, <2>4, <2>5 DEF ListenerInv, Listener!TypeOK, WatchState, Listener!ContainsPair
  <2>7. Listener!ContainsPair(Listener!Snapshot, ctl.pair) <=> ctl.pair \in raw
    BY <2>2 DEF Listener!ContainsPair, Listener!Snapshot, Listener!EligiblePairs, Eligible
  <2>8. Standing'
    BY <1>1, <1>4, <2>1, <2>2, <2>3, <2>4, <2>5, <2>7 DEF Standing
  <2>9. Listener!Open = {} /\ Listener!Open' = {ctl.pair} /\ Listener!Snapshot' = Listener!Snapshot
    BY <1>1, <2>2, <2>3, <2>4, <2>5 DEF Listener!Open, Listener!Snapshot, Listener!EligiblePairs
  <2>10. Listener!Promise!Open
    BY <1>4, <2>1, <2>2, <2>9 DEF Listener!Promise!Open, Eligible, Listener!ContainsPair
  <2> QED
    BY <1>2, <2>1, <2>6, <2>8, <2>10 DEF ListenerInv, PromiseStep, Listener!Promise!Next
<1> QED
  BY <1>3, <1>4 DEF Listener!Bind

-----------------------------------------------------------------------------
(* The network and the watchers.                                           *)

\* An address that goes makes the open pair a missed one.
LEMMA MoveKeeps ==
    ASSUME ListenerInv, Listener!Move
    PROVE  ListenerInv' /\ PromiseStep
<1>1. /\ Listener!Spend("moves", MaxMoves) /\ UNCHANGED <<Listener!files, ctl, Listener!controller, watch, answer>>
      /\ missed' = (missed \/ ~(Listener!Open \subseteq Listener!EligiblePairs(raw')))
  BY DEF Listener!Move
<1>2. raw' \subseteq Listener!Pairs
  BY DEF Listener!Move, ListenerInv, Listener!TypeOK
<1>3. UsedOK' /\ spent'.requests = spent.requests /\ spent'.crashes = spent.crashes
  BY <1>1, SpendOK DEF ListenerInv
<1>4. Listener!TypeOK' /\ CtlOK'
  BY <1>1, <1>2, <1>3 DEF ListenerInv, Listener!TypeOK, CtlOK, Listener!files, Listener!controller
<1>5. Standing
  BY DEF ListenerInv
<1>6. unusableCh # 0 /\ pair \notin raw' => missed'
  BY <1>1, <1>5, OpenIs DEF Listener!EligiblePairs
<1>7. Standing'
  BY <1>1, <1>5, <1>6 DEF Standing, Listener!controller, Listener!Locked
<1>8. Listener!Open' = Listener!Open
  BY <1>1 DEF Listener!Open, Listener!controller
<1>9. Listener!Promise!Move
  <2>1. Listener!Session' = Listener!Session  BY <1>1, <1>3 DEF Listener!Session
  <2> QED
    BY <1>1, <1>2, <1>8, <2>1 DEF Listener!Promise!Move, Listener!controller, Listener!Snapshot, Listener!EligiblePairs
<1> QED
  BY <1>3, <1>4, <1>7, <1>9 DEF ListenerInv, PromiseStep, Listener!Promise!Next

\* The memory of one watcher changes, and it is not the current one's, or the
\* current one has seen its pair missing.
LEMMA WatchOnly ==
    ASSUME ListenerInv, NEW g \in Listener!Gens, NEW m \in WatchState, watch' = [watch EXCEPT ![g] = m],
           UsedOK', spent'.requests = spent.requests, spent'.crashes = spent.crashes, missed' \in BOOLEAN,
           missed => missed',
           UNCHANGED <<raw, Listener!files, ctl, Listener!controller, answer>>,
           unusableCh = g =>
              m.bound = watch[g].bound /\ ~m.cancelled /\ m.pc = "missing" /\ missed',
           missed' # missed => g \in serving /\ missed'
    PROVE  ListenerInv' /\ PromiseStep
<1>1. watch' \in [Listener!Gens -> WatchState] /\ watch'[g] = m /\ \A h \in Listener!Gens : h # g => watch'[h] = watch[h]
  BY DEF ListenerInv, Listener!TypeOK, WatchState
<1>2. Listener!TypeOK' /\ CtlOK'
  BY <1>1 DEF ListenerInv, Listener!TypeOK, CtlOK, Listener!files, Listener!controller, WatchState
<1>3. Standing /\ unusableCh \in Listener!Gens \cup {0}
  BY DEF ListenerInv, Listener!TypeOK
<1>4. Standing'
  BY <1>1, <1>3 DEF Standing, Listener!controller, Listener!Locked
<1>5. Listener!Open' = Listener!Open /\ Listener!Snapshot' = Listener!Snapshot
  <2>1. (unusableCh = 0 => Listener!Open' = {}) /\ (unusableCh # 0 => Listener!Open' = {pair})
    BY <1>4 DEF Standing, Listener!Open, Listener!controller
  <2> QED
    BY <1>3, <2>1, OpenIs DEF Listener!controller, Listener!Snapshot, Listener!EligiblePairs
<1>6. PromiseStep
  <2>0. Listener!Session' = Listener!Session
    BY DEF Listener!Session
  <2>1. CASE missed' = missed
    BY <1>5, <2>0, <2>1 DEF PromiseStep, Listener!Promise!vars, Listener!controller
  <2>2. CASE missed' # missed
    <3>1. Listener!Open # {} /\ missed' = TRUE
      BY <2>2 DEF Listener!Open
    <3> QED
      BY <1>5, <2>0, <3>1 DEF PromiseStep, Listener!Promise!Next, Listener!Promise!Doubt, Listener!controller
  <2> QED
    BY <2>1, <2>2
<1> QED
  BY <1>2, <1>4, <1>6 DEF ListenerInv

\* What becomes of a watcher's memory.
LEMMA SeenMissing ==
    ASSUME NEW m \in WatchState
    PROVE  LET e == [m EXCEPT !.pc = "missing"]
           IN  e \in WatchState /\ e.pc = "missing" /\ e.bound = m.bound /\ e.cancelled = m.cancelled
BY DEF WatchState

\* A tick that finds the pair gone: the current listener's has been missed by then.
LEMMA TickKeeps ==
    ASSUME ListenerInv, NEW g \in Listener!Gens, Listener!Tick(g)
    PROVE  ListenerInv' /\ PromiseStep
<1> DEFINE m == [watch[g] EXCEPT !.pc = "missing"]
<1>1. /\ watch' = [watch EXCEPT ![g] = m] /\ ~Listener!ContainsPair(Listener!Snapshot, watch[g].bound)
      /\ UNCHANGED <<raw, Listener!files, ctl, Listener!controller, answer, missed, spent>>
  BY DEF Listener!Tick
<1>2. watch[g] \in WatchState /\ missed \in BOOLEAN /\ g # 0
  BY DEF ListenerInv, Listener!TypeOK, WatchState, Listener!Gens
<1>3. m \in WatchState /\ m.pc = "missing" /\ m.bound = watch[g].bound /\ m.cancelled = watch[g].cancelled
  BY <1>2, SeenMissing
<1> HIDE DEF m
<1>4. unusableCh = g => ~watch[g].cancelled /\ missed
  BY <1>1, <1>2 DEF ListenerInv, Standing, Listener!ContainsPair, Listener!Snapshot, Listener!EligiblePairs, Eligible
<1>5. UsedOK' /\ spent' = spent
  BY <1>1 DEF ListenerInv, UsedOK
<1> QED
  BY <1>1, <1>2, <1>3, <1>4, <1>5, WatchOnly

\* A snapshot that fails counts as a missing pair.
LEMMA TickFailsKeeps ==
    ASSUME ListenerInv, NEW g \in Listener!Gens, Listener!TickFails(g)
    PROVE  ListenerInv' /\ PromiseStep
<1> DEFINE m == [watch[g] EXCEPT !.pc = "missing"]
<1>1. /\ watch' = [watch EXCEPT ![g] = m] /\ Listener!Fault /\ missed' = (missed \/ g \in serving)
      /\ UNCHANGED <<raw, Listener!files, ctl, Listener!controller, answer>>
  BY DEF Listener!TickFails
<1>2. watch[g] \in WatchState /\ missed \in BOOLEAN /\ g # 0
  BY DEF ListenerInv, Listener!TypeOK, WatchState, Listener!Gens
<1>3. m \in WatchState /\ m.pc = "missing" /\ m.bound = watch[g].bound /\ m.cancelled = watch[g].cancelled
  BY <1>2, SeenMissing
<1> HIDE DEF m
<1>4. unusableCh = g => ~watch[g].cancelled /\ g \in serving
  BY <1>2 DEF ListenerInv, Standing
<1>5. UsedOK' /\ spent'.requests = spent.requests /\ spent'.crashes = spent.crashes
  BY <1>1, SpendOK DEF ListenerInv, Listener!Fault
<1>6. /\ missed' \in BOOLEAN /\ missed => missed' 
      /\ unusableCh = g => missed'
      /\ missed' # missed => g \in serving /\ missed'
  BY <1>1, <1>2, <1>4
<1> QED
  BY <1>1, <1>3, <1>4, <1>5, <1>6, WatchOnly

\* Only a listener that is closed has a cancelled watcher.
LEMMA CancelledKeeps ==
    ASSUME ListenerInv, NEW g \in Listener!Gens, Listener!Cancelled(g)
    PROVE  ListenerInv' /\ PromiseStep
<1>1. /\ watch' = [watch EXCEPT ![g] = Listener!Unborn] /\ watch[g].cancelled
      /\ UNCHANGED <<raw, Listener!files, ctl, Listener!controller, answer, missed, spent>>
  BY DEF Listener!Cancelled
<1>2. Listener!Unborn \in WatchState /\ missed \in BOOLEAN /\ g # 0
  BY DEF ListenerInv, Listener!TypeOK, WatchState, Listener!Unborn, Listener!Gens
<1>3. unusableCh # g
  BY <1>1, <1>2 DEF ListenerInv, Standing
<1>4. UsedOK' /\ spent' = spent
  BY <1>1 DEF ListenerInv, UsedOK
<1> QED
  BY <1>1, <1>2, <1>3, <1>4, WatchOnly

\* A watcher that finds its own pair and channel closes its own listener, which has
\* been missed; one that does not leaves the controller alone.
LEMMA WatchKeeps ==
    ASSUME ListenerInv, NEW g \in Listener!Gens, Listener!Watch(g)
    PROVE  ListenerInv' /\ PromiseStep
<1>1. /\ watch[g].pc = "missing" /\ ~Listener!Locked /\ watch' = [watch EXCEPT ![g] = Listener!Unborn]
      /\ UNCHANGED <<raw, Listener!files, ctl, answer, spent>>
  BY DEF Listener!Watch
<1>2. /\ Listener!Unborn \in WatchState /\ missed \in BOOLEAN /\ g # 0
      /\ watch' \in [Listener!Gens -> WatchState]
  BY <1>1 DEF ListenerInv, Listener!TypeOK, WatchState, Listener!Unborn, Listener!Gens
<1>3. UsedOK' /\ spent' = spent
  BY <1>1 DEF ListenerInv, UsedOK
<1>4. CASE Listener!CurrentGeneration(g)
  <2>1. /\ serving' = serving \ {unusableCh} /\ pair' = Listener!NoPair /\ unusableCh' = 0
        /\ missed' = FALSE /\ unusable' = TRUE
    BY <1>4 DEF Listener!Watch
  <2>2. serving = {g} /\ unusableCh = g /\ missed
    BY <1>1, <1>2, <1>4 DEF Listener!CurrentGeneration, ListenerInv, Standing
  <2>3. serving' = {}
    BY <2>1, <2>2
  <2>4. Listener!TypeOK' /\ CtlOK'
    BY <1>1, <1>2, <2>1, <2>3 DEF ListenerInv, Listener!TypeOK, CtlOK, Listener!files, WatchState
  <2>5. Standing'
    BY <2>1, <2>3 DEF Standing
  <2>6. Listener!Open' = {} /\ Listener!Snapshot' = Listener!Snapshot
    BY <1>1, <2>3 DEF Listener!Open, Listener!Snapshot, Listener!EligiblePairs
  <2>7. Listener!Promise!Vanish
    <3>1. Listener!Session' = Listener!Session  BY <1>1 DEF Listener!Session
    <3> QED  BY <1>1, <2>1, <2>2, <2>6, <3>1 DEF Listener!Promise!Vanish, Listener!Promise!Closing
  <2> QED
    BY <1>3, <2>4, <2>5, <2>7 DEF ListenerInv, PromiseStep, Listener!Promise!Next
<1>5. CASE ~Listener!CurrentGeneration(g)
  <2>1. UNCHANGED <<Listener!controller, missed>>
    BY <1>5 DEF Listener!Watch
  <2>2. unusableCh # g
    BY <1>2, <1>5 DEF Listener!CurrentGeneration, ListenerInv, Standing
  <2> QED
    BY <1>1, <1>2, <1>3, <2>1, <2>2, WatchOnly
<1> QED
  BY <1>4, <1>5

-----------------------------------------------------------------------------
\* At first there is no listener and no request.
LEMMA InitInv == Listener!Init /\ MaxRequests \in Nat => ListenerInv /\ Listener!Promise!Init
<1> SUFFICES ASSUME Listener!Init, MaxRequests \in Nat PROVE ListenerInv /\ Listener!Promise!Init
  OBVIOUS
<1>1. Listener!Unborn \in WatchState
  BY DEF Listener!Unborn, WatchState
<1>2. watch \in [Listener!Gens -> WatchState]
  BY <1>1 DEF Listener!Init
<1>3. Listener!TypeOK
  <2>1. raw \subseteq Listener!Pairs /\ certFile \in [Addresses -> Int] /\ keyFile \in [Addresses -> Int]
    BY DEF Listener!Init, Listener!None
  <2> QED
    BY <1>2, <2>1 DEF Listener!Init, Listener!TypeOK, WatchState
<1>4. CtlOK
  BY DEF Listener!Init, CtlOK, Ctl, Listener!Idle, Listener!None, Requested
<1>5. UsedOK
  BY DEF Listener!Init, UsedOK
<1>6. Standing
  BY <1>4 DEF Listener!Init, Standing, Listener!Locked, Listener!Idle
<1>7. Listener!Open = {} /\ Listener!Snapshot \subseteq Eligible
  BY DEF Listener!Init, Listener!Open, Listener!Snapshot, Listener!EligiblePairs, Eligible
<1>8. Listener!Promise!Init
  BY <1>7 DEF Listener!Init, Listener!Promise!Init, Eligible
<1> QED
  BY <1>3, <1>4, <1>5, <1>6, <1>8 DEF ListenerInv

\* Every step of the controller, of a watcher, of the network or of the process
\* keeps the invariant and is allowed by the promise.
LEMMA StepKeeps == MaxRequests \in Nat /\ ListenerInv /\ [Listener!Next]_(Listener!vars) => ListenerInv' /\ PromiseStep
<1> SUFFICES ASSUME MaxRequests \in Nat, ListenerInv, [Listener!Next]_(Listener!vars) PROVE ListenerInv' /\ PromiseStep
  OBVIOUS
<1>1. CASE Listener!HandleLine
  BY <1>1, HandleLineKeeps
<1>2. CASE Listener!ServeStep
  BY <1>2, ResetKeeps, EnableKeeps, LoadKeeps, WriteKeeps, BindKeeps, CallFailsKeeps, DisableKeeps
     DEF Listener!ServeStep
<1>3. CASE Listener!Hangup
  BY <1>3, DisableKeeps
<1>4. CASE \E g \in Listener!Gens : Listener!Watcher(g)
  BY <1>4, TickKeeps, TickFailsKeeps, CancelledKeeps, WatchKeeps DEF Listener!Watcher
<1>5. CASE Listener!Move \/ Listener!Expire \/ Listener!Restart
  BY <1>5, MoveKeeps, ExpireKeeps, RestartKeeps
<1>6. CASE UNCHANGED Listener!vars
  <2>1. ControlStep /\ CtlOK' /\ UsedOK'
    BY <1>6 DEF Listener!vars, ControlStep, ListenerInv, CtlOK, UsedOK, Listener!controller, Listener!Locked, Listener!Session
  <2>2. /\ certFile' \in [Addresses -> Int] /\ keyFile' \in [Addresses -> Int]
        /\ expired' \subseteq Nat
    BY <1>6 DEF Listener!vars, ListenerInv, Listener!TypeOK
  <2> QED
    BY <2>1, <2>2, ControlKeeps
<1> QED
  BY <1>1, <1>2, <1>3, <1>4, <1>5, <1>6 DEF Listener!Next

\* Every variable keeps its type, and the open listener is the current one.
THEOREM StandingAlways ==
    ASSUME MaxRequests \in Nat
    PROVE  Listener!Spec => [](Listener!TypeOK /\ Standing)
<1>1. Listener!Init => ListenerInv
  BY InitInv
<1>2. ListenerInv /\ [Listener!Next]_(Listener!vars) => ListenerInv'
  BY StepKeeps
<1>3. ListenerInv => Listener!TypeOK /\ Standing
  BY DEF ListenerInv
<1> QED
  BY <1>1, <1>2, <1>3, PTL DEF Listener!Spec

\* The controller, with its mutex, its generations of watchers and its certificate
\* files, implements ListenerPromise: it starts as the promise does, and each of its
\* steps is one the promise allows or none it can see.
THEOREM ImplementsPromise ==
    ASSUME MaxRequests \in Nat
    PROVE  Listener!Spec => Listener!Promise!Init /\ [][Listener!Promise!Next]_(Listener!Promise!vars)
<1>1. Listener!Init => ListenerInv /\ Listener!Promise!Init
  BY InitInv
<1>2. ListenerInv /\ [Listener!Next]_(Listener!vars) => ListenerInv' /\ [Listener!Promise!Next]_(Listener!Promise!vars)
  BY StepKeeps DEF PromiseStep
<1> QED
  BY <1>1, <1>2, PTL DEF Listener!Spec
-----------------------------------------------------------------------------
(* Recordings.                                                             *)

NoteRow ==
    [row : {"none", "live", "trash", "gone"}, old : BOOLEAN,
     status : {"draft", "recording", "uploaded", "ready", "failed"},
     key : Keys \cup {NoKey}, ret : {"none", "kept", "discarded"},
     hash : Clips \cup {"none"}, gen : Nat]
Job == [n : Notes, key : Keys, claimed : BOOLEAN, published : BOOLEAN, gen : Nat]

\* Before the object of a request is whole, and from then on.
Early == {"grant", "put"}
Late == {"stored", "verified", "hash", "attached", "counted"}
Moving == Early \cup Late

Request ==
    [op : {"idle", "upload", "import", "purge"}, pc : Moving \cup {"idle", "create", "blob"},
     n : Notes \cup {0}, key : Keys \cup {NoKey}, clip : Clips \cup {"none"}, gen : Nat]

Types ==
    /\ note \in [Notes -> NoteRow] /\ disk \in [Keys -> Clips \cup {Absent, Partial}]
    /\ req \in [Clients -> Request] /\ uploads \in [Notes -> 0..MaxUploads]
    /\ jobs \subseteq Job /\ purger \subseteq Keys /\ discarded \subseteq Keys

\* The object is whole, was discarded, or belongs to a note that is no more.
Safe(k) == disk[k] \in Clips \/ k \in discarded \/ note[k[1]].row = "gone"

\* A note has a key of its own, whose object is safe.
NoteFits(n) ==
    /\ note[n].row = "none" => note[n] = Unborn
    /\ note[n].key # NoKey =>
          note[n].key[1] = n /\ note[n].key[2] <= uploads[n] /\ Safe(note[n].key)
    /\ note[n].ret = "discarded" => \E k \in discarded : k[1] = n

\* What a request writes to is not yet a note's; what it has written is safe;
\* what it purges has no note left.
ReqFits(c) ==
    /\ req[c].pc \in Moving =>
          /\ req[c].op \in {"upload", "import"} /\ req[c].n \in Notes /\ req[c].clip \in Clips
          /\ req[c].key \in Keys /\ req[c].key[1] = req[c].n /\ req[c].key[2] <= uploads[req[c].n]
    /\ req[c].pc = "create" => req[c].op = "import" /\ req[c].clip \in Clips
    /\ req[c].pc \in Early => note[req[c].n].key # req[c].key
    /\ req[c].pc \in Late => Safe(req[c].key)
    /\ req[c].pc = "blob" => req[c].key \in Keys /\ note[req[c].key[1]].row = "gone"

\* No two requests write to one object.
Distinct ==
    \A c, d \in Clients :
        req[c].pc \in Moving /\ req[d].pc \in Moving /\ req[c].key = req[d].key => c = d

\* A job is of a note there is or was; it has published a generation after the first.
JobFits(j) == j.key[1] = j.n /\ note[j.n].row # "none" /\ (j.published => j.gen > 0)

\* What the purger and the retention policy delete.
DeletionsFit ==
    /\ \A k \in purger : note[k[1]].row = "gone"
    /\ \A k \in discarded : note[k[1]].gen > 0
    /\ \A j \in jobs : JobFits(j)

AudioInv ==
    /\ Types /\ Distinct /\ DeletionsFit
    /\ \A n \in Notes : NoteFits(n)
    /\ \A c \in Clients : ReqFits(c)
\* Nothing is being written to the object.
Cold(k) == \A c \in Clients : req[c].pc \in Early => req[c].key # k

\* What no step undoes, whatever else it does.
Mild ==
    /\ \A n \in Notes : note[n].row = "gone" => note'[n].row = "gone"
    /\ \A n \in Notes : note'[n].row = "none" => note'[n] = note[n]
    /\ \A n \in Notes : note[n].gen <= note'[n].gen
    /\ \A n \in Notes : uploads[n] <= uploads'[n]
    /\ discarded \subseteq discarded'
    /\ \A k \in Keys : Safe(k) /\ Cold(k) => Safe(k)'

SameAudio ==
    \A n \in Notes :
        /\ note'[n].key = note[n].key
        /\ note'[n].ret = "discarded" => note[n].ret = "discarded" \/ \E k \in discarded' : k[1] = n

\* A key is a note and a number.
LEMMA KeyIs ==
    /\ \A k \in Keys : k[1] \in Notes /\ k[2] \in 1..MaxUploads /\ k # NoKey
    /\ \A n \in Notes, i \in 1..MaxUploads :
          <<n, i>> \in Keys /\ <<n, i>>[1] = n /\ <<n, i>>[2] = i
  BY DEF Keys, NoKey

\* The object of a note is not written to: the request that wrote it is past it.
LEMMA NoteIsCold ==
    ASSUME AudioInv, NEW n \in Notes, note[n].key # NoKey
    PROVE note[n].key \in Keys /\ Safe(note[n].key) /\ Cold(note[n].key)
<1>1. note[n].key \in Keys /\ note[n].key[1] = n /\ Safe(note[n].key)
  BY DEF AudioInv, Types, NoteRow, NoteFits
<1>2. ASSUME NEW c \in Clients, req[c].pc \in Early PROVE req[c].key # note[n].key
  <2>1. req[c].key[1] = req[c].n /\ note[req[c].n].key # req[c].key
    BY <1>2 DEF AudioInv, ReqFits, Moving
  <2> QED  BY <1>1, <2>1
<1> QED  BY <1>1, <1>2 DEF Cold

\* Nor is the object of a request that has written it.
LEMMA LateIsCold ==
    ASSUME AudioInv, NEW c \in Clients, req[c].pc \in Late
    PROVE req[c].key \in Keys /\ Safe(req[c].key) /\ Cold(req[c].key)
<1>1. req[c].key \in Keys /\ Safe(req[c].key)  BY DEF AudioInv, ReqFits, Moving
<1>2. ASSUME NEW d \in Clients, req[d].pc \in Early PROVE req[d].key # req[c].key
  BY <1>2 DEF AudioInv, Distinct, Moving, Early, Late
<1> QED  BY <1>1, <1>2 DEF Cold

\* A note that keeps its audio.
LEMMA NoteStays ==
    ASSUME AudioInv, Types', Mild, NEW n \in Notes,
           note'[n].key = note[n].key,
           note'[n].ret = "discarded" => note[n].ret = "discarded" \/ \E k \in discarded' : k[1] = n
    PROVE NoteFits(n)'
<1>1. NoteFits(n)  BY DEF AudioInv
<1>2. note'[n].row = "none" => note'[n] = Unborn  BY <1>1 DEF Mild, NoteFits, Unborn
<1>3. ASSUME note[n].key # NoKey
      PROVE note[n].key[1] = n /\ note[n].key[2] <= uploads'[n] /\ Safe(note[n].key)'
  <2>1. note[n].key \in Keys /\ Safe(note[n].key)'  BY <1>3, NoteIsCold DEF Mild
  <2>2. uploads[n] \in Nat /\ uploads'[n] \in Nat /\ uploads[n] <= uploads'[n]
    BY UploadsAssumption DEF AudioInv, Types, Mild
  <2>3. note[n].key[2] \in Nat  BY <2>1, KeyIs, UploadsAssumption
  <2> QED  BY <1>1, <1>3, <2>1, <2>2, <2>3 DEF NoteFits
<1>4. note'[n].ret = "discarded" => \E k \in discarded' : k[1] = n  BY <1>1 DEF Mild, NoteFits
<1> QED  BY <1>2, <1>3, <1>4 DEF NoteFits, Safe

\* A request that takes no step.
LEMMA ReqStays ==
    ASSUME AudioInv, Types', Mild, NEW c \in Clients, req'[c] = req[c],
           req[c].pc \in Early => note'[req[c].n].key # req[c].key
    PROVE ReqFits(c)'
<1>1. ReqFits(c)  BY DEF AudioInv
<1>2. ASSUME req[c].pc \in Moving PROVE req[c].key[2] <= uploads'[req[c].n]
  <2>1. req[c].n \in Notes /\ req[c].key \in Keys /\ req[c].key[2] <= uploads[req[c].n]
    BY <1>1, <1>2 DEF ReqFits
  <2>2. uploads[req[c].n] \in Nat /\ uploads'[req[c].n] \in Nat /\ uploads[req[c].n] <= uploads'[req[c].n]
    BY <2>1, UploadsAssumption DEF AudioInv, Types, Mild
  <2>3. req[c].key[2] \in Nat  BY <2>1, KeyIs, UploadsAssumption
  <2> QED  BY <2>1, <2>2, <2>3
<1>3. req[c].pc \in Late => Safe(req[c].key)'  BY LateIsCold DEF Mild
<1>4. req[c].pc = "blob" => req[c].key \in Keys /\ note'[req[c].key[1]].row = "gone"
  BY <1>1, KeyIs DEF ReqFits, Mild
<1> QED  BY <1>1, <1>2, <1>3, <1>4 DEF ReqFits, Safe

\* A request that goes on with its object.
LEMMA ReqGoes ==
    ASSUME AudioInv, Types', Mild, NEW c \in Clients, req[c].pc \in Moving, NEW pc \in Moving,
           req' = [req EXCEPT ![c].pc = pc],
           pc \in Early => note'[req[c].n].key # req[c].key, pc \in Late => Safe(req[c].key)'
    PROVE ReqFits(c)'
<1>1. ReqFits(c) /\ req[c] \in Request  BY DEF AudioInv, Types
<1>2. /\ req'[c].pc = pc /\ req'[c].op = req[c].op /\ req'[c].n = req[c].n
      /\ req'[c].key = req[c].key /\ req'[c].clip = req[c].clip
  BY <1>1 DEF AudioInv, Types, Request
<1>3. req[c].key[2] <= uploads'[req[c].n]
  <2>1. req[c].n \in Notes /\ req[c].key \in Keys /\ req[c].key[2] <= uploads[req[c].n]
    BY <1>1 DEF ReqFits
  <2>2. uploads[req[c].n] \in Nat /\ uploads'[req[c].n] \in Nat /\ uploads[req[c].n] <= uploads'[req[c].n]
    BY <2>1, UploadsAssumption DEF AudioInv, Types, Mild
  <2>3. req[c].key[2] \in Nat  BY <2>1, KeyIs, UploadsAssumption
  <2> QED  BY <2>1, <2>2, <2>3
<1>4. pc # "create" /\ pc # "blob"  BY DEF Moving, Early, Late
<1> QED  BY <1>1, <1>2, <1>3, <1>4 DEF ReqFits, Safe

\* Requests keep their objects for themselves.
LEMMA DistinctStays ==
    ASSUME AudioInv,
           \A c \in Clients : req'[c].pc \in Moving => req[c].pc \in Moving /\ req'[c].key = req[c].key
    PROVE Distinct'
  BY DEF AudioInv, Distinct

\* A request that is over, or goes on with its object.
LEMMA OneReq ==
    ASSUME AudioInv, NEW c \in Clients, NEW r, req' = [req EXCEPT ![c] = r],
           r.pc \in Moving => req[c].pc \in Moving /\ r.key = req[c].key
    PROVE Distinct' /\ req'[c] = r /\ \A d \in Clients : d # c => req'[d] = req[d]
<1>1. req'[c] = r /\ \A d \in Clients : d # c => req'[d] = req[d]  BY DEF AudioInv, Types
<1> QED  BY <1>1, DistinctStays

\* Nothing new to delete.
LEMMA DeletionsStay ==
    ASSUME AudioInv, Types', Mild, purger' \subseteq purger, discarded' \subseteq discarded,
           \A j \in jobs' : j \in jobs \/ JobFits(j)'
    PROVE DeletionsFit'
<1>1. \A k \in purger' : note'[k[1]].row = "gone"  BY KeyIs DEF AudioInv, DeletionsFit, Mild, Types
<1>2. ASSUME NEW k \in discarded' PROVE note'[k[1]].gen > 0
  <2>1. k[1] \in Notes /\ note[k[1]].gen > 0  BY <1>2, KeyIs DEF AudioInv, DeletionsFit, Types
  <2>2. note[k[1]].gen \in Nat /\ note'[k[1]].gen \in Nat  BY <2>1 DEF AudioInv, Types, NoteRow
  <2> QED  BY <2>1, <2>2 DEF Mild
<1>3. ASSUME NEW j \in jobs', j \in jobs PROVE JobFits(j)'
  <2>1. j.n \in Notes  BY <1>3 DEF AudioInv, Types, Job
  <2>2. JobFits(j)  BY <1>3 DEF AudioInv, DeletionsFit
  <2> QED  BY <2>1, <2>2 DEF JobFits, Mild
<1> QED  BY <1>1, <1>2, <1>3 DEF DeletionsFit
\* Steps of a note alone: what is left is that its audio stays.
LEMMA NoteStep ==
    ASSUME AudioInv, NEW n \in Notes, NEW r \in NoteRow, note' = [note EXCEPT ![n] = r],
           r.key = note[n].key, r.ret # "discarded" \/ r.ret = note[n].ret, note[n].gen <= r.gen,
           r.row # "none", note[n].row = "gone" => r.row = "gone",
           UNCHANGED <<disk, req, purger, uploads, discarded>>,
           jobs' \subseteq Job, \A j \in jobs' : j \in jobs \/ JobFits(j)'
    PROVE AudioInv'
<1>1. Types'  BY DEF AudioInv, Types
<1>2. note'[n] = r /\ \A m \in Notes : m # n => note'[m] = note[m]  BY DEF AudioInv, Types
<1>3. \A m \in Notes : note[m].gen \in Nat  BY DEF AudioInv, Types, NoteRow
<1>4. \A m \in Notes : uploads[m] \in Nat  BY UploadsAssumption DEF AudioInv, Types
<1>5. \A m \in Notes : note[m].row = "gone" => note'[m].row = "gone"  BY <1>2
<1>6. \A k \in Keys : Safe(k) => Safe(k)'  BY <1>5, KeyIs DEF Safe
<1>7. Mild  BY <1>2, <1>3, <1>4, <1>5, <1>6 DEF Mild
<1>8. SameAudio  BY <1>2 DEF SameAudio
<1>9. \A m \in Notes : NoteFits(m)'  BY <1>1, <1>7, <1>8, NoteStays DEF SameAudio
<1>10. ASSUME NEW c \in Clients PROVE ReqFits(c)'
  <2>1. req[c].pc \in Early => note'[req[c].n].key # req[c].key
    BY <1>8 DEF AudioInv, ReqFits, SameAudio, Moving
  <2> QED  BY <1>1, <1>7, <2>1, ReqStays
<1>11. Distinct'  BY DistinctStays
<1>12. DeletionsFit'  BY <1>1, <1>7, DeletionsStay
<1> QED  BY <1>1, <1>9, <1>10, <1>11, <1>12 DEF AudioInv

\* Of AudioInv, what is left to show of a step of one request that leaves the
\* notes' audio alone.
LEMMA ReqStep ==
    ASSUME AudioInv, Types', Mild, SameAudio, NEW c \in Clients, ReqFits(c)', Distinct', DeletionsFit',
           \A d \in Clients : d # c => req'[d] = req[d]
    PROVE AudioInv'
<1>1. \A m \in Notes : NoteFits(m)'  BY NoteStays DEF SameAudio
<1>2. ASSUME NEW d \in Clients, d # c PROVE ReqFits(d)'
  <2>1. req[d].pc \in Early => note'[req[d].n].key # req[d].key
    BY DEF AudioInv, ReqFits, SameAudio, Moving
  <2> QED  BY <1>2, <2>1, ReqStays
<1> QED  BY <1>1, <1>2 DEF AudioInv

\* The values that a note, a request and an object begin with.
LEMMA Beginnings ==
    /\ Draft \in NoteRow /\ Unborn \in NoteRow /\ Idle \in Request
    /\ Draft.key = NoKey /\ Draft.ret = "none" /\ Draft.gen = 0 /\ Draft.row = "live"
    /\ Unborn.key = NoKey /\ Unborn.ret = "none" /\ Unborn.gen = 0 /\ Unborn.row = "none"
    /\ Idle.pc = "idle"
<1>1. Draft \in NoteRow  BY DEF Draft, NoteRow
<1>2. Draft.key = NoKey /\ Draft.ret = "none" /\ Draft.gen = 0 /\ Draft.row = "live"  BY DEF Draft
<1>3. /\ Unborn \in NoteRow /\ Unborn.row = "none"
      /\ Unborn.key = Draft.key /\ Unborn.ret = Draft.ret /\ Unborn.gen = Draft.gen
  BY <1>1 DEF Unborn, NoteRow
<1>4. Idle \in Request /\ Idle.pc = "idle"  BY DEF Idle, Request
<1> QED  BY <1>1, <1>2, <1>3, <1>4

\* Create, start, trash, restore and age a note.
LEMMA NoteSteps ==
    ASSUME AudioInv, NEW n \in Notes,
           HandleCreateNote(n) \/ HandleStartNoteCapture(n) \/ DeleteNote(n) \/ RestoreNote(n) \/ GrowOld(n)
    PROVE AudioInv'
<1>0. note[n] \in NoteRow /\ note \in [Notes -> NoteRow] /\ jobs \subseteq Job  BY DEF AudioInv, Types
<1>1. CASE HandleCreateNote(n)
  <2>1. note[n] = Unborn  BY <1>1 DEF HandleCreateNote, CreateNote, AudioInv, NoteFits
  <2>2. PICK r \in NoteRow : r = Draft  BY Beginnings
  <2>3. r.key = note[n].key /\ r.ret = note[n].ret /\ note[n].gen <= r.gen /\ r.row # "none" /\ note[n].row # "gone"
    BY <2>1, <2>2, Beginnings
  <2> QED  BY <1>0, <1>1, <2>2, <2>3, NoteStep DEF HandleCreateNote, CreateNote
<1>2. CASE HandleStartNoteCapture(n)
  <2>1. PICK r : r = [note[n] EXCEPT !.status = "recording"]  OBVIOUS
  <2>2. r \in NoteRow /\ r.key = note[n].key /\ r.ret = note[n].ret /\ r.gen = note[n].gen /\ r.row = note[n].row
    BY <1>0, <2>1 DEF NoteRow
  <2>3. note' = [note EXCEPT ![n] = r] /\ note[n].row = "live"
    BY <1>2, <2>1 DEF HandleStartNoteCapture, StartNoteCapture, Live
  <2>4. note[n].gen <= r.gen  BY <1>0, <2>2 DEF NoteRow
  <2> QED  BY <1>0, <1>2, <2>2, <2>3, <2>4, NoteStep DEF HandleStartNoteCapture
<1>3. CASE DeleteNote(n)
  <2>1. PICK r : r = [[note[n] EXCEPT !.row = "trash"] EXCEPT !.old = FALSE]  OBVIOUS
  <2>2. r \in NoteRow /\ r.key = note[n].key /\ r.ret = note[n].ret /\ r.gen = note[n].gen /\ r.row = "trash"
    BY <1>0, <2>1 DEF NoteRow
  <2>3. note' = [note EXCEPT ![n] = r] /\ note[n].row = "live"
    BY <1>0, <1>3, <2>1 DEF DeleteNote, Live
  <2>4. note[n].gen <= r.gen  BY <1>0, <2>2 DEF NoteRow
  <2> QED  BY <1>0, <1>3, <2>2, <2>3, <2>4, NoteStep DEF DeleteNote
<1>4. CASE RestoreNote(n)
  <2>1. PICK r : r = [note[n] EXCEPT !.row = "live"]  OBVIOUS
  <2>2. r \in NoteRow /\ r.key = note[n].key /\ r.ret = note[n].ret /\ r.gen = note[n].gen /\ r.row = "live"
    BY <1>0, <2>1 DEF NoteRow
  <2>3. note' = [note EXCEPT ![n] = r] /\ note[n].row = "trash"  BY <1>4, <2>1 DEF RestoreNote
  <2>4. note[n].gen <= r.gen  BY <1>0, <2>2 DEF NoteRow
  <2> QED  BY <1>0, <1>4, <2>2, <2>3, <2>4, NoteStep DEF RestoreNote
<1>5. CASE GrowOld(n)
  <2>1. PICK r : r = [note[n] EXCEPT !.old = TRUE]  OBVIOUS
  <2>2. r \in NoteRow /\ r.key = note[n].key /\ r.ret = note[n].ret /\ r.gen = note[n].gen /\ r.row = note[n].row
    BY <1>0, <2>1 DEF NoteRow
  <2>3. note' = [note EXCEPT ![n] = r] /\ note[n].row = "trash"  BY <1>5, <2>1 DEF GrowOld
  <2>4. note[n].gen <= r.gen  BY <1>0, <2>2 DEF NoteRow
  <2> QED  BY <1>0, <1>5, <2>2, <2>3, <2>4, NoteStep DEF GrowOld
<1> QED  BY <1>1, <1>2, <1>3, <1>4, <1>5
\* A request that ends, with nothing but the disk or the notes' hashes changed.
LEMMA ReqEnds ==
    ASSUME AudioInv, Types', Mild, SameAudio, DeletionsFit', NEW c \in Clients, Done(c)
    PROVE AudioInv'
<1>1. PICK r : r = Idle  OBVIOUS
<1>2. r.pc = "idle" /\ r.pc \notin Moving  BY <1>1, Beginnings DEF Moving, Early, Late
<1>3. Distinct' /\ req'[c] = r /\ \A d \in Clients : d # c => req'[d] = req[d]
  BY <1>1, <1>2, OneReq DEF Done
<1>4. ReqFits(c)'  BY <1>2, <1>3 DEF ReqFits, Moving, Early, Late
<1> QED  BY <1>3, <1>4, ReqStep

\* A request that goes on with its object, with nothing but the disk or the
\* notes' hashes changed.
LEMMA ReqOn ==
    ASSUME AudioInv, Types', Mild, SameAudio, DeletionsFit', NEW c \in Clients, NEW pc \in Moving, Go(c, pc),
           req[c].pc \in Moving, pc \in Early => req[c].pc \in Early, pc \in Late => Safe(req[c].key)'
    PROVE AudioInv'
<1>0. req' = [req EXCEPT ![c].pc = pc]  BY DEF Go
<1>1. /\ req'[c].pc = pc /\ req'[c].key = req[c].key
      /\ \A d \in Clients : d # c => req'[d] = req[d]
  BY <1>0 DEF AudioInv, Types, Request
<1>2. Distinct'  BY <1>1, DistinctStays
<1>3. pc \in Early => note'[req[c].n].key # req[c].key  BY DEF AudioInv, ReqFits, SameAudio
<1>4. ReqFits(c)'  BY <1>0, <1>3, ReqGoes
<1> QED  BY <1>1, <1>2, <1>4, ReqStep

\* Steps that leave the rows of the notes and the retention policy alone.
LEMMA DiskMild ==
    ASSUME AudioInv, UNCHANGED <<note, uploads, discarded>>,
           \A k \in Keys : disk'[k] = disk[k] \/ disk'[k] \in Clips \/ note[k[1]].row = "gone" \/ ~Cold(k)
    PROVE Mild /\ SameAudio
<1>1. \A n \in Notes : note[n].gen \in Nat  BY DEF AudioInv, Types, NoteRow
<1>2. \A n \in Notes : uploads[n] \in Nat  BY UploadsAssumption DEF AudioInv, Types
<1>3. \A k \in Keys : Safe(k) /\ Cold(k) => Safe(k)'  BY DEF Safe
<1> QED  BY <1>1, <1>2, <1>3 DEF Mild, SameAudio

\* A request is in one of its types after a step.
LEMMA ReqTypes ==
    ASSUME AudioInv, NEW c \in Clients
    PROVE /\ Done(c) => req' \in [Clients -> Request]
          /\ \A pc \in Moving : Go(c, pc) => req' \in [Clients -> Request]
<1>1. req \in [Clients -> Request]  BY DEF AudioInv, Types
<1>2. ASSUME Done(c) PROVE req' \in [Clients -> Request]  BY <1>1, <1>2, Beginnings DEF Done
<1>3. ASSUME NEW pc \in Moving, Go(c, pc) PROVE req' \in [Clients -> Request]
  BY <1>1, <1>3 DEF Go, Request
<1> QED  BY <1>2, <1>3

\* UploadHandler writes to an object that is no note's yet.
LEMMA PutSteps ==
    ASSUME AudioInv, NEW c \in Clients, PutBegins(c) \/ PutEnds(c) \/ PutFails(c)
    PROVE AudioInv'
<1>0. req[c].pc \in Early /\ req[c].pc \in Moving
  BY DEF PutBegins, PutEnds, PutFails, Early, Moving
<1>1. req[c].key \in Keys /\ req[c].clip \in Clips /\ ~Cold(req[c].key)
  BY <1>0 DEF AudioInv, ReqFits, Cold
<1>2. PICK v \in Clips \cup {Absent, Partial} :
         disk' = [disk EXCEPT ![req[c].key] = v] /\ (PutEnds(c) => v = req[c].clip)
  BY <1>1 DEF PutBegins, PutEnds, PutFails
<1>3. UNCHANGED <<note, jobs, purger, uploads, discarded>>
  BY DEF PutBegins, PutEnds, PutFails
<1>4. disk' \in [Keys -> Clips \cup {Absent, Partial}] /\ disk'[req[c].key] = v
      /\ \A k \in Keys : k # req[c].key => disk'[k] = disk[k]
  BY <1>1, <1>2 DEF AudioInv, Types
<1>5. Mild /\ SameAudio  BY <1>1, <1>3, <1>4, DiskMild
<1>6. CASE Done(c)
  <2>1. Types'  BY <1>3, <1>4, <1>6, ReqTypes DEF AudioInv, Types
  <2> QED  BY <1>3, <1>5, <1>6, <2>1, DeletionsStay, ReqEnds
<1>7. ASSUME NEW pc \in Moving, Go(c, pc), pc \in Early \/ PutEnds(c) PROVE AudioInv'
  <2>1. Types'  BY <1>3, <1>4, <1>7, ReqTypes DEF AudioInv, Types
  <2>2. req'[c].key = req[c].key  BY <1>7 DEF Go, AudioInv, Types, Request
  <2>3. pc \in Late => PutEnds(c)  BY <1>7 DEF Early, Late
  <2>4. pc \in Late => Safe(req[c].key)'  BY <1>1, <1>2, <1>4, <2>2, <2>3 DEF Safe
  <2>5. DeletionsFit'  BY <1>3, <1>5, <2>1, DeletionsStay
  <2> QED  BY <1>0, <1>5, <1>7, <2>1, <2>4, <2>5, ReqOn
<1>8. Done(c) \/ Go(c, "grant") \/ Go(c, "put") \/ (Go(c, "stored") /\ PutEnds(c))
  BY DEF PutBegins, PutEnds, PutFails
<1>9. {"grant", "put"} \subseteq Early /\ {"grant", "put", "stored"} \subseteq Moving
  BY DEF Early, Late, Moving
<1> QED  BY <1>6, <1>7, <1>8, <1>9

\* The report of an upload, and the end of a purge.
LEMMA ReportSteps ==
    ASSUME AudioInv, NEW c \in Clients,
           \/ HandleAudioUploaded(c) \/ PurgeBlob(c)
           \/ CurrentTranscriptGeneration(c) \/ EnqueueTranscribe(c) \/ StatementFails(c)
    PROVE AudioInv'
<1>m. {"stored", "verified", "hash", "attached", "counted"} \subseteq Moving
  BY DEF Early, Late, Moving
<1>1. CASE HandleAudioUploaded(c)
  <2>1. UNCHANGED <<note, disk, jobs, purger, uploads, discarded>> /\ req[c].pc \in Late
        /\ req[c].pc \in Moving
    BY <1>1, <1>m DEF HandleAudioUploaded, Doing, Late
  <2>2. Mild /\ SameAudio  BY <2>1, DiskMild
  <2>3. CASE Done(c)
    <3>1. Types'  BY <2>1, <2>3, ReqTypes DEF AudioInv, Types
    <3> QED  BY <2>1, <2>2, <2>3, <3>1, DeletionsStay, ReqEnds
  <2>4. CASE Go(c, "verified")
    <3>1. Types'  BY <1>m, <2>1, <2>4, ReqTypes DEF AudioInv, Types
    <3>2. req'[c].key = req[c].key  BY <2>4 DEF Go, AudioInv, Types, Request
    <3>3. Safe(req[c].key)'  BY <2>1, <2>2, <3>2, LateIsCold DEF Mild
    <3>4. DeletionsFit'  BY <2>1, <2>2, <3>1, DeletionsStay
    <3>5. "verified" \notin Early  BY DEF Early
    <3> QED  BY <1>m, <2>1, <2>2, <2>4, <3>1, <3>3, <3>4, <3>5, ReqOn
  <2> QED  BY <1>1, <2>3, <2>4 DEF HandleAudioUploaded
<1>2. CASE PurgeBlob(c)
  <2>1. req[c].key \in Keys /\ note[req[c].key[1]].row = "gone"
    BY <1>2 DEF PurgeBlob, Doing, AudioInv, ReqFits
  <2>2. PICK v \in Clips \cup {Absent, Partial} : disk' = [disk EXCEPT ![req[c].key] = v]
    <3>1. disk = [disk EXCEPT ![req[c].key] = disk[req[c].key]]  BY <2>1 DEF AudioInv, Types
    <3>2. disk[req[c].key] \in Clips \cup {Absent, Partial}  BY <2>1 DEF AudioInv, Types
    <3> QED  BY <1>2, <3>1, <3>2 DEF PurgeBlob, Delete
  <2>3. UNCHANGED <<note, jobs, purger, uploads, discarded>> /\ Done(c)  BY <1>2 DEF PurgeBlob
  <2>4. disk' \in [Keys -> Clips \cup {Absent, Partial}]
        /\ \A k \in Keys : k # req[c].key => disk'[k] = disk[k]
    BY <2>1, <2>2 DEF AudioInv, Types
  <2>5. Mild /\ SameAudio  BY <2>1, <2>3, <2>4, DiskMild
  <2>6. Types'  BY <2>3, <2>4, ReqTypes DEF AudioInv, Types
  <2> QED  BY <2>3, <2>5, <2>6, DeletionsStay, ReqEnds
<1>3. CASE EnqueueTranscribe(c)
  <2>1. UNCHANGED <<note, disk, purger, uploads, discarded>> /\ req[c].pc = "counted"
    BY <1>3 DEF EnqueueTranscribe
  <2>2. Mild /\ SameAudio  BY <2>1, DiskMild
  <2>3. req[c].pc \in Late /\ req[c].pc \in Moving /\ "stored" \notin Early  BY <2>1, <1>m DEF Late, Early
  <2>4. req[c].n \in Notes /\ req[c].key \in Keys /\ req[c].key[1] = req[c].n
    BY <2>3 DEF AudioInv, ReqFits
  <2>5. PICK g : g = req[c].gen  OBVIOUS
  <2>6. g \in Nat  BY <2>5 DEF AudioInv, Types, Request
  <2>7. PICK j : j = [n |-> req[c].n, key |-> req[c].key, claimed |-> FALSE, published |-> FALSE, gen |-> g]
    OBVIOUS
  <2>8. j \in Job /\ j.key[1] = j.n /\ ~j.published /\ j.n = req[c].n  BY <2>4, <2>6, <2>7 DEF Job
  <2>9. jobs' \subseteq jobs \cup {j} /\ (jobs' # jobs => Row(req[c].n))
    BY <1>3, <2>5, <2>7 DEF EnqueueTranscribe
  <2>10. Done(c) \/ Go(c, "stored")  BY <1>3 DEF EnqueueTranscribe
  <2>11. req' \in [Clients -> Request]  BY <1>m, <2>10, ReqTypes
  <2>12. Types'  BY <2>1, <2>8, <2>9, <2>11 DEF AudioInv, Types
  <2>13. DeletionsFit'
    <3>1. jobs' # jobs => JobFits(j)'  BY <2>1, <2>4, <2>8, <2>9 DEF JobFits, Row
    <3> QED  BY <2>1, <2>2, <2>9, <2>12, <3>1, DeletionsStay
  <2>14. CASE Done(c)  BY <2>2, <2>12, <2>13, <2>14, ReqEnds
  <2>15. CASE Go(c, "stored")
    <3>1. req'[c].key = req[c].key  BY <2>15 DEF Go, AudioInv, Types, Request
    <3>2. Safe(req[c].key)'  BY <2>2, <2>3, <3>1, LateIsCold DEF Mild
    <3> QED  BY <1>m, <2>2, <2>3, <2>12, <2>13, <2>15, <3>2, ReqOn
  <2> QED  BY <2>10, <2>14, <2>15
<1>4. CASE CurrentTranscriptGeneration(c)
  <2>1. UNCHANGED <<note, disk, jobs, purger, uploads, discarded>> /\ req[c].pc = "attached"
    BY <1>4 DEF CurrentTranscriptGeneration, Doing
  <2>2. Mild /\ SameAudio  BY <2>1, DiskMild
  <2>3. req[c].pc \in Late /\ req[c].pc \in Moving /\ "counted" \in Late /\ "counted" \notin Early
    BY <2>1, <1>m DEF Late, Early
  <2>4. PICK g \in Nat : g = note[req[c].n].gen  BY <2>3 DEF AudioInv, ReqFits, Types, NoteRow
  <2>5. PICK r : r = [[req[c] EXCEPT !.pc = "counted"] EXCEPT !.gen = g]  OBVIOUS
  <2>6. req \in [Clients -> Request] /\ req[c] \in Request  BY DEF AudioInv, Types
  <2>7. /\ r \in Request /\ r.pc = "counted" /\ r.op = req[c].op /\ r.n = req[c].n
        /\ r.key = req[c].key /\ r.clip = req[c].clip
    BY <1>m, <2>4, <2>5, <2>6 DEF Request
  <2>8. req' = [req EXCEPT ![c] = r]  BY <1>4, <2>4, <2>5, <2>6 DEF CurrentTranscriptGeneration
  <2>9. Types'  BY <2>1, <2>6, <2>7, <2>8 DEF AudioInv, Types
  <2>10. Distinct' /\ req'[c] = r /\ \A d \in Clients : d # c => req'[d] = req[d]
    BY <2>3, <2>7, <2>8, OneReq
  <2>11. DeletionsFit'  BY <2>1, <2>2, <2>9, DeletionsStay
  <2>12. ReqFits(c) /\ Safe(req[c].key)  BY <2>3 DEF AudioInv, ReqFits
  <2>13. ReqFits(c)'  BY <2>1, <2>3, <2>7, <2>10, <2>12 DEF ReqFits, Safe
  <2> QED  BY <2>2, <2>9, <2>10, <2>11, <2>13, ReqStep
<1>5. CASE StatementFails(c)
  <2>1. UNCHANGED <<note, disk, jobs, purger, uploads, discarded>> /\ req[c].pc \in Late
        /\ req[c].pc \in Moving
    BY <1>5, <1>m DEF StatementFails, Doing, Attached, Late
  <2>2. Mild /\ SameAudio  BY <2>1, DiskMild
  <2>3. CASE Done(c)
    <3>1. Types'  BY <2>1, <2>3, ReqTypes DEF AudioInv, Types
    <3> QED  BY <2>1, <2>2, <2>3, <3>1, DeletionsStay, ReqEnds
  <2>4. CASE Go(c, "stored")
    <3>1. Types'  BY <1>m, <2>1, <2>4, ReqTypes DEF AudioInv, Types
    <3>2. req'[c].key = req[c].key  BY <2>4 DEF Go, AudioInv, Types, Request
    <3>3. Safe(req[c].key)'  BY <2>1, <2>2, <3>2, LateIsCold DEF Mild
    <3>4. DeletionsFit'  BY <2>1, <2>2, <3>1, DeletionsStay
    <3>5. "stored" \notin Early  BY DEF Early
    <3> QED  BY <1>m, <2>1, <2>2, <2>4, <3>1, <3>3, <3>4, <3>5, ReqOn
  <2> QED  BY <1>5, <2>3, <2>4 DEF StatementFails
<1> QED  BY <1>1, <1>2, <1>3, <1>4, <1>5
\* A key that no request has yet.
LEMMA FreshIs ==
    ASSUME AudioInv, NEW n \in Notes, uploads[n] < MaxUploads, uploads' = [uploads EXCEPT ![n] = @ + 1]
    PROVE /\ FreshKey(n) \in Keys /\ FreshKey(n)[1] = n /\ FreshKey(n)[2] <= uploads'[n]
          /\ \A d \in Clients : req[d].pc \in Moving => req[d].key # FreshKey(n)
          /\ note[n].key # FreshKey(n)
          /\ uploads' \in [Notes -> 0..MaxUploads] /\ \A m \in Notes : uploads[m] <= uploads'[m]
<1>1. uploads \in [Notes -> 0..MaxUploads]  BY DEF AudioInv, Types
<1>2. PICK u : u = uploads[n]  OBVIOUS
<1>3. u \in Nat /\ u + 1 \in 1..MaxUploads  BY <1>1, <1>2, UploadsAssumption
<1>4. FreshKey(n) = <<n, u + 1>>  BY <1>2 DEF FreshKey
<1>5. FreshKey(n) \in Keys /\ FreshKey(n)[1] = n /\ FreshKey(n)[2] = u + 1  BY <1>3, <1>4, KeyIs
<1>6. uploads'[n] = u + 1 /\ \A m \in Notes : m # n => uploads'[m] = uploads[m]  BY <1>1, <1>2
<1>7. ASSUME NEW d \in Clients, req[d].pc \in Moving PROVE req[d].key # FreshKey(n)
  <2>1. req[d].key[1] = req[d].n /\ req[d].key[2] <= uploads[req[d].n]  BY <1>7 DEF AudioInv, ReqFits
  <2> QED  BY <1>2, <1>3, <1>5, <2>1
<1>8. note[n].key # FreshKey(n)
  <2>1. note[n].key # NoKey => note[n].key[2] <= uploads[n]  BY DEF AudioInv, NoteFits
  <2> QED  BY <1>2, <1>3, <1>5, <2>1, KeyIs
<1>9. uploads' \in [Notes -> 0..MaxUploads]  BY <1>1, <1>2, <1>3
<1>10. \A m \in Notes : uploads[m] <= uploads'[m]  BY <1>1, <1>2, <1>3, <1>6, UploadsAssumption
<1> QED  BY <1>3, <1>5, <1>6, <1>7, <1>8, <1>9, <1>10

\* A request that begins to write to a fresh object.
LEMMA FreshReq ==
    ASSUME AudioInv, Types', Mild, SameAudio, DeletionsFit', NEW c \in Clients, NEW r, req' = [req EXCEPT ![c] = r],
           r.pc = "grant", r.op \in {"upload", "import"}, r.n \in Notes, r.clip \in Clips, r.key \in Keys,
           r.key[1] = r.n, r.key[2] <= uploads'[r.n], note[r.n].key # r.key,
           \A d \in Clients : req[d].pc \in Moving => req[d].key # r.key
    PROVE AudioInv'
<1>1. req'[c] = r /\ \A d \in Clients : d # c => req'[d] = req[d]  BY DEF AudioInv, Types
<1>2. Distinct'  BY <1>1 DEF AudioInv, Distinct
<1>3. note'[r.n].key # r.key  BY DEF SameAudio
<1>4. ReqFits(c)'  BY <1>1, <1>3 DEF ReqFits, Moving, Early, Late
<1> QED  BY <1>1, <1>2, <1>4, ReqStep

\* A signed link, for a new object.
LEMMA UploadURLStep ==
    ASSUME AudioInv, NEW c \in Clients, NEW n \in Notes, HandleAudioUploadURL(c, n) PROVE AudioInv'
<1>1. UNCHANGED <<note, disk, jobs, purger, discarded>> /\ uploads[n] < MaxUploads
      /\ uploads' = [uploads EXCEPT ![n] = @ + 1]
  BY DEF HandleAudioUploadURL
<1>2. PICK clip \in Clips :
         req' = [req EXCEPT ![c] = [op |-> "upload", pc |-> "grant", n |-> n, key |-> FreshKey(n),
                                    clip |-> clip, gen |-> 0]]
  BY DEF HandleAudioUploadURL
<1>3. PICK k : k = FreshKey(n)  OBVIOUS
<1>4. k \in Keys /\ k[1] = n /\ k[2] <= uploads'[n] /\ note[n].key # k
      /\ \A d \in Clients : req[d].pc \in Moving => req[d].key # k
  BY <1>1, <1>3, FreshIs
<1>5. uploads' \in [Notes -> 0..MaxUploads] /\ \A m \in Notes : uploads[m] <= uploads'[m]  BY <1>1, FreshIs
<1>6. PICK r : r = [op |-> "upload", pc |-> "grant", n |-> n, key |-> k, clip |-> clip, gen |-> 0]  OBVIOUS
<1>7. r \in Request /\ r.pc = "grant" /\ r.op = "upload" /\ r.n = n /\ r.clip \in Clips /\ r.key = k
  BY <1>4, <1>6 DEF Request, Moving, Early
<1>8. req' = [req EXCEPT ![c] = r]  BY <1>2, <1>3, <1>6
<1>9. Types'  BY <1>1, <1>5, <1>7, <1>8 DEF AudioInv, Types
<1>10. Mild /\ SameAudio
  <2>1. \A m \in Notes : note[m].gen \in Nat  BY DEF AudioInv, Types, NoteRow
  <2>2. \A q \in Keys : Safe(q) => Safe(q)'  BY <1>1 DEF Safe
  <2> QED  BY <1>1, <1>5, <2>1, <2>2 DEF Mild, SameAudio
<1>11. DeletionsFit'  BY <1>1, <1>9, <1>10, DeletionsStay
<1>12. r.n \in Notes /\ r.op \in {"upload", "import"} /\ r.key \in Keys /\ r.key[1] = r.n
       /\ r.key[2] <= uploads'[r.n] /\ note[r.n].key # r.key
  BY <1>4, <1>7
<1>13. \A d \in Clients : req[d].pc \in Moving => req[d].key # r.key  BY <1>4, <1>7
<1> QED  BY <1>7, <1>8, <1>9, <1>10, <1>11, <1>12, <1>13, FreshReq

\* An import is admitted.
LEMMA ImportStep ==
    ASSUME AudioInv, NEW c \in Clients, NEW clip \in Clips, HandleImportNote(c, clip) PROVE AudioInv'
<1>1. UNCHANGED <<note, disk, jobs, purger, uploads, discarded>>  BY DEF HandleImportNote
<1>2. PICK r : r = [Idle EXCEPT !.op = "import", !.pc = "create", !.clip = clip]  OBVIOUS
<1>3. r \in Request /\ r.pc = "create" /\ r.op = "import" /\ r.clip \in Clips
  BY <1>2, Beginnings DEF Request
<1>4. req' = [req EXCEPT ![c] = r]  BY <1>2 DEF HandleImportNote
<1>5. r.pc \notin Moving  BY <1>3 DEF Moving, Early, Late
<1>6. Distinct' /\ req'[c] = r /\ \A d \in Clients : d # c => req'[d] = req[d]  BY <1>4, <1>5, OneReq
<1>7. Types'  BY <1>1, <1>3, <1>4 DEF AudioInv, Types
<1>8. Mild /\ SameAudio  BY <1>1, DiskMild
<1>9. ReqFits(c)'  BY <1>3, <1>6 DEF ReqFits, Moving, Early, Late
<1> QED  BY <1>1, <1>6, <1>7, <1>8, <1>9, DeletionsStay, ReqStep

\* The import makes its note, which has no audio yet.
LEMMA ImportCreatesStep ==
    ASSUME AudioInv, NEW c \in Clients, NEW n \in Notes, ImportCreates(c, n) PROVE AudioInv'
<1>0. UNCHANGED <<disk, jobs, purger, discarded>> /\ uploads[n] < MaxUploads /\ note[n].row = "none"
      /\ uploads' = [uploads EXCEPT ![n] = @ + 1] /\ note' = [note EXCEPT ![n] = Draft]
      /\ req[c].op = "import" /\ req[c].pc = "create"
  BY DEF ImportCreates, CreateNote, Doing
<1>1. req' = [req EXCEPT ![c].pc = "grant", ![c].n = n, ![c].key = FreshKey(n)]  BY DEF ImportCreates
<1>2. PICK k : k = FreshKey(n)  OBVIOUS
<1>3. k \in Keys /\ k[1] = n /\ k[2] <= uploads'[n] /\ note[n].key # k
      /\ \A d \in Clients : req[d].pc \in Moving => req[d].key # k
  BY <1>0, <1>2, FreshIs
<1>4. uploads' \in [Notes -> 0..MaxUploads] /\ \A m \in Notes : uploads[m] <= uploads'[m]  BY <1>0, FreshIs
<1>5. note[n] = Unborn  BY <1>0 DEF AudioInv, NoteFits
<1>6. note'[n] = Draft /\ \A m \in Notes : m # n => note'[m] = note[m]  BY <1>0 DEF AudioInv, Types
<1>7. note' \in [Notes -> NoteRow]  BY <1>0, Beginnings DEF AudioInv, Types
<1>8. SameAudio  BY <1>5, <1>6, Beginnings DEF SameAudio
<1>9. \A m \in Notes : (note[m].row = "gone" => note'[m].row = "gone") /\ (note'[m].row = "none" => note'[m] = note[m])
  BY <1>0, <1>6, Beginnings
<1>10. \A m \in Notes : note[m].gen <= note'[m].gen
  <2>1. \A m \in Notes : note[m].gen \in Nat  BY DEF AudioInv, Types, NoteRow
  <2> QED  BY <1>5, <1>6, <2>1, Beginnings
<1>11. \A q \in Keys : Safe(q) => Safe(q)'  BY <1>0, <1>9, KeyIs DEF Safe
<1>12. Mild  BY <1>0, <1>4, <1>9, <1>10, <1>11 DEF Mild
<1>13. PICK r : r = [[[req[c] EXCEPT !.pc = "grant"] EXCEPT !.n = n] EXCEPT !.key = k]  OBVIOUS
<1>14. req[c] \in Request /\ req \in [Clients -> Request]  BY DEF AudioInv, Types
<1>15. r \in Request /\ r.pc = "grant" /\ r.op = "import" /\ r.n = n /\ r.clip = req[c].clip /\ r.key = k
  BY <1>0, <1>3, <1>13, <1>14 DEF Request, Moving, Early
<1>16. req' = [req EXCEPT ![c] = r]  BY <1>1, <1>2, <1>13, <1>14
<1>17. r.clip \in Clips  BY <1>0, <1>15 DEF AudioInv, ReqFits
<1>18. Types'  BY <1>0, <1>4, <1>7, <1>15, <1>16 DEF AudioInv, Types
<1>19. DeletionsFit'  BY <1>0, <1>12, <1>18, DeletionsStay
<1>20. r.n \in Notes /\ r.op \in {"upload", "import"} /\ r.key \in Keys /\ r.key[1] = r.n
       /\ r.key[2] <= uploads'[r.n] /\ note[r.n].key # r.key
  BY <1>3, <1>15
<1>21. \A d \in Clients : req[d].pc \in Moving => req[d].key # r.key  BY <1>3, <1>15
<1> QED  BY <1>8, <1>12, <1>15, <1>16, <1>17, <1>18, <1>19, <1>20, <1>21, FreshReq
\* AttachAudio: the note takes the object of the request, which is safe and of
\* which no other request writes.
LEMMA AttachStep ==
    ASSUME AudioInv, NEW c \in Clients, AttachAudio(c) PROVE AudioInv'
<1>m. {"stored", "verified", "hash", "attached"} \subseteq Moving /\ {"hash", "attached"} \cap Early = {}
      /\ {"stored", "verified", "hash", "attached"} \subseteq Late
  BY DEF Early, Late, Moving
<1>0. UNCHANGED <<disk, jobs, purger, uploads, discarded>> /\ req[c].pc \in {"stored", "verified"}
  BY DEF AttachAudio, Doing
<1>1. req[c].pc \in Late /\ req[c].pc \in Moving  BY <1>0, <1>m
<1>2. PICK n \in Notes : n = req[c].n  BY <1>1 DEF AudioInv, ReqFits
<1>3. PICK k \in Keys : k = req[c].key  BY <1>1 DEF AudioInv, ReqFits
<1>4. k[1] = n /\ k[2] <= uploads[n] /\ Safe(k) /\ Cold(k)
  BY <1>1, <1>2, <1>3, LateIsCold DEF AudioInv, ReqFits
<1>5. CASE Done(c) /\ UNCHANGED note
  <2>1. Mild /\ SameAudio  BY <1>0, <1>5, DiskMild
  <2>2. Types'  BY <1>0, <1>5, ReqTypes DEF AudioInv, Types
  <2> QED  BY <1>0, <1>5, <2>1, <2>2, DeletionsStay, ReqEnds
<1>6. ASSUME NEW pc \in {"hash", "attached"}, Row(n), SetNoteAudio(n, k), Go(c, pc) PROVE AudioInv'
  <2>0. note[n] \in NoteRow /\ note \in [Notes -> NoteRow]  BY DEF AudioInv, Types
  <2>1. PICK r : r = [[note[n] EXCEPT !.key = k] EXCEPT !.status = "uploaded"]  OBVIOUS
  <2>2. r \in NoteRow /\ r.key = k /\ r.ret = note[n].ret /\ r.gen = note[n].gen /\ r.row = note[n].row
    BY <2>0, <2>1 DEF NoteRow
  <2>3. note' = [note EXCEPT ![n] = r]  BY <1>6, <2>0, <2>1 DEF SetNoteAudio
  <2>4. note'[n] = r /\ \A m \in Notes : m # n => note'[m] = note[m]  BY <2>0, <2>3
  <2>5. Types'  BY <1>0, <1>6, <1>m, <2>2, <2>3, ReqTypes DEF AudioInv, Types
  <2>6. Mild
    <3>1. \A m \in Notes : note[m].gen \in Nat /\ note'[m].gen = note[m].gen /\ note'[m].row = note[m].row
      BY <2>2, <2>4 DEF AudioInv, Types, NoteRow
    <3>2. \A m \in Notes : uploads[m] \in Nat  BY UploadsAssumption DEF AudioInv, Types
    <3>3. \A q \in Keys : Safe(q) => Safe(q)'  BY <1>0, <3>1, KeyIs DEF Safe
    <3>4. note[n].row # "none"  BY <1>6 DEF Row
    <3>5. \A m \in Notes : note'[m].row = "none" => note'[m] = note[m]  BY <2>4, <3>1, <3>4
    <3> QED  BY <1>0, <3>1, <3>2, <3>3, <3>5 DEF Mild
  <2>7. Safe(k)'  BY <1>4, <2>6 DEF Mild
  <2>8. NoteFits(n)'
    <3>1. note[n].ret = "discarded" => \E q \in discarded' : q[1] = n  BY <1>0 DEF AudioInv, NoteFits
    <3>2. r.row # "none"  BY <1>6, <2>2 DEF Row
    <3> QED  BY <1>0, <1>4, <2>2, <2>4, <2>7, <3>1, <3>2 DEF NoteFits, Safe
  <2>9. \A m \in Notes : NoteFits(m)'  BY <2>4, <2>5, <2>6, <2>8, NoteStays
  <2>10. /\ req'[c].key = req[c].key /\ req'[c].pc = pc
         /\ \A d \in Clients : d # c => req'[d] = req[d]
    BY <1>6 DEF Go, AudioInv, Types, Request
  <2>11. ReqFits(c)'
    <3>1. pc \in Moving /\ pc \notin Early  BY <1>m
    <3>2. Safe(req[c].key)'  BY <1>3, <2>7, <2>10
    <3> QED  BY <1>1, <1>6, <2>5, <2>6, <3>1, <3>2, ReqGoes DEF Go
  <2>12. ASSUME NEW d \in Clients, d # c PROVE ReqFits(d)'
    <3>1. ASSUME req[d].pc \in Early PROVE note'[req[d].n].key # req[d].key
      <4>1. req[d].key # k  BY <1>1, <1>3, <2>12, <3>1 DEF AudioInv, Distinct, Moving
      <4>2. req[d].n \in Notes /\ note[req[d].n].key # req[d].key  BY <3>1 DEF AudioInv, ReqFits, Moving
      <4> QED  BY <2>2, <2>4, <4>1, <4>2
    <3> QED  BY <2>5, <2>6, <2>10, <2>12, <3>1, ReqStays
  <2>13. Distinct'  BY <1>1, <2>10, DistinctStays
  <2>14. DeletionsFit'  BY <1>0, <2>5, <2>6, DeletionsStay
  <2> QED  BY <2>5, <2>9, <2>11, <2>12, <2>13, <2>14 DEF AudioInv
<1> QED  BY <1>2, <1>3, <1>5, <1>6 DEF AttachAudio

\* SetNoteHashesForOwner: the audio stays.
LEMMA HashStep ==
    ASSUME AudioInv, NEW c \in Clients, SetNoteHashesForOwner(c) PROVE AudioInv'
<1>m. "hash" \in Moving /\ "counted" \in Moving /\ "hash" \in Late /\ "counted" \notin Early
  BY DEF Early, Late, Moving
<1>0. UNCHANGED <<disk, jobs, purger, uploads, discarded>> /\ req[c].pc = "hash"
  BY DEF SetNoteHashesForOwner, Doing
<1>1. PICK n \in Notes : n = req[c].n  BY <1>0, <1>m DEF AudioInv, ReqFits
<1>2. req[c].clip \in Clips  BY <1>0, <1>m DEF AudioInv, ReqFits
<1>3. CASE Done(c) /\ UNCHANGED note
  <2>1. Mild /\ SameAudio  BY <1>0, <1>3, DiskMild
  <2>2. Types'  BY <1>0, <1>3, ReqTypes DEF AudioInv, Types
  <2> QED  BY <1>0, <1>3, <2>1, <2>2, DeletionsStay, ReqEnds
<1>4. CASE Row(n) /\ note' = [note EXCEPT ![n].hash = req[c].clip] /\ Go(c, "counted")
  <2>0. note[n] \in NoteRow /\ note \in [Notes -> NoteRow]  BY DEF AudioInv, Types
  <2>1. PICK r : r = [note[n] EXCEPT !.hash = req[c].clip]  OBVIOUS
  <2>2. r \in NoteRow /\ r.key = note[n].key /\ r.ret = note[n].ret /\ r.gen = note[n].gen /\ r.row = note[n].row
    BY <1>2, <2>0, <2>1 DEF NoteRow
  <2>3. note' = [note EXCEPT ![n] = r]  BY <1>4, <2>1
  <2>4. note'[n] = r /\ \A m \in Notes : m # n => note'[m] = note[m]  BY <2>0, <2>3
  <2>5. Types'  BY <1>0, <1>4, <1>m, <2>2, <2>3, ReqTypes DEF AudioInv, Types
  <2>6. SameAudio  BY <2>2, <2>4 DEF SameAudio
  <2>7. Mild
    <3>1. \A m \in Notes : note[m].gen \in Nat /\ note'[m].gen = note[m].gen /\ note'[m].row = note[m].row
      BY <2>2, <2>4 DEF AudioInv, Types, NoteRow
    <3>2. \A m \in Notes : uploads[m] \in Nat  BY UploadsAssumption DEF AudioInv, Types
    <3>3. \A q \in Keys : Safe(q) => Safe(q)'  BY <1>0, <3>1, KeyIs DEF Safe
    <3>4. note[n].row # "none"  BY <1>4 DEF Row
    <3>5. \A m \in Notes : note'[m].row = "none" => note'[m] = note[m]  BY <2>4, <3>1, <3>4
    <3> QED  BY <1>0, <3>1, <3>2, <3>3, <3>5 DEF Mild
  <2>8. req'[c].key = req[c].key  BY <1>4 DEF Go, AudioInv, Types, Request
  <2>9. Safe(req[c].key)'  BY <1>0, <1>m, <2>7, <2>8, LateIsCold DEF Mild
  <2>10. DeletionsFit'  BY <1>0, <2>5, <2>7, DeletionsStay
  <2> QED  BY <1>0, <1>4, <1>m, <2>5, <2>6, <2>7, <2>9, <2>10, ReqOn
<1> QED  BY <1>1, <1>3, <1>4 DEF SetNoteHashesForOwner
\* Rows that go with what refers to them.
LEMMA DropIs ==
    ASSUME AudioInv, NEW S \in SUBSET Notes, DropRows(S), UNCHANGED <<disk, uploads, discarded>>
    PROVE /\ note' \in [Notes -> NoteRow] /\ \A n \in S : note'[n].row = "gone" /\ note'[n].key = note[n].key
          /\ jobs' \subseteq jobs /\ Mild /\ SameAudio
<1>0. \A n \in Notes : note[n] \in NoteRow  BY DEF AudioInv, Types
<1>1. PICK g : g = [n \in Notes |-> [note[n] EXCEPT !.row = "gone"]]  OBVIOUS
<1>2. \A n \in Notes : /\ g[n] \in NoteRow /\ g[n].row = "gone" /\ g[n].key = note[n].key
                       /\ g[n].ret = note[n].ret /\ g[n].gen = note[n].gen
  BY <1>0, <1>1 DEF NoteRow
<1>3. note' = [n \in Notes |-> IF n \in S THEN g[n] ELSE note[n]]  BY <1>1 DEF DropRows
<1>4. \A n \in Notes : note'[n] = g[n] \/ note'[n] = note[n]  BY <1>3
<1>5. \A n \in S : note'[n] = g[n]  BY <1>3
<1>6. note' \in [Notes -> NoteRow]  BY <1>0, <1>2, <1>3
<1>7. \A n \in Notes : /\ note[n].row = "gone" => note'[n].row = "gone"
                       /\ note'[n].row = "none" => note'[n] = note[n]
                       /\ note'[n].gen = note[n].gen /\ note[n].gen \in Nat
                       /\ note'[n].key = note[n].key /\ note'[n].ret = note[n].ret
  BY <1>0, <1>2, <1>4 DEF NoteRow
<1>8. \A n \in Notes : uploads[n] \in Nat  BY UploadsAssumption DEF AudioInv, Types
<1>9. \A k \in Keys : Safe(k) => Safe(k)'  BY <1>7, KeyIs DEF Safe
<1>10. Mild /\ SameAudio  BY <1>7, <1>8, <1>9 DEF Mild, SameAudio
<1>11. jobs' \subseteq jobs  BY DEF DropRows
<1> QED  BY <1>2, <1>5, <1>6, <1>7, <1>10, <1>11

\* A purge, by hand: the object goes after the row.
LEMMA PurgeStep ==
    ASSUME AudioInv, NEW c \in Clients, NEW n \in Notes, HandlePurgeNote(c, n) PROVE AudioInv'
<1>0. UNCHANGED <<disk, purger, uploads, discarded>> /\ DropRows({n})  BY DEF HandlePurgeNote
<1>1. note' \in [Notes -> NoteRow] /\ note'[n].row = "gone" /\ jobs' \subseteq jobs /\ Mild /\ SameAudio
  BY <1>0, DropIs
<1>2. PICK r : r = IF note[n].key = NoKey THEN Idle
                   ELSE [Idle EXCEPT !.op = "purge", !.pc = "blob", !.key = note[n].key]
  OBVIOUS
<1>3. req' = [req EXCEPT ![c] = r]  BY <1>2 DEF HandlePurgeNote
<1>4. note[n].key # NoKey => note[n].key \in Keys /\ note[n].key[1] = n
  BY DEF AudioInv, Types, NoteRow, NoteFits
<1>5. r \in Request /\ (r.pc = "idle" \/ (r.pc = "blob" /\ r.key \in Keys /\ r.key[1] = n))
  <2>1. CASE note[n].key = NoKey  BY <1>2, <2>1, Beginnings
  <2>2. CASE note[n].key # NoKey
    <3>1. PICK k : k = note[n].key  OBVIOUS
    <3>2. r = [Idle EXCEPT !.op = "purge", !.pc = "blob", !.key = k]  BY <1>2, <2>2, <3>1
    <3>3. k \in Keys /\ k[1] = n  BY <1>4, <2>2, <3>1
    <3> QED  BY <3>2, <3>3, Beginnings DEF Request
  <2> QED  BY <2>1, <2>2
<1>6. r.pc \notin Moving  BY <1>5 DEF Moving, Early, Late
<1>7. Distinct' /\ req'[c] = r /\ \A d \in Clients : d # c => req'[d] = req[d]  BY <1>3, <1>6, OneReq
<1>8. Types'  BY <1>0, <1>1, <1>3, <1>5 DEF AudioInv, Types
<1>9. ReqFits(c)'  BY <1>1, <1>5, <1>6, <1>7 DEF ReqFits, Moving, Early, Late
<1>10. DeletionsFit'  BY <1>0, <1>1, <1>8, DeletionsStay
<1> QED  BY <1>1, <1>7, <1>8, <1>9, <1>10, ReqStep

\* No request takes a step.
LEMMA NoReq ==
    ASSUME AudioInv, Types', Mild, SameAudio, DeletionsFit', UNCHANGED req PROVE AudioInv'
<1>1. \A m \in Notes : NoteFits(m)'  BY NoteStays DEF SameAudio
<1>2. ASSUME NEW d \in Clients PROVE ReqFits(d)'
  <2>1. req[d].pc \in Early => note'[req[d].n].key # req[d].key
    BY DEF AudioInv, ReqFits, SameAudio, Moving
  <2> QED  BY <2>1, ReqStays
<1>3. Distinct'  BY DistinctStays
<1> QED  BY <1>1, <1>2, <1>3 DEF AudioInv

\* The trash is purged: the rows first, then their objects one by one.
LEMMA TrashSteps ==
    ASSUME AudioInv, PurgeExpired \/ RunTrashPurge PROVE AudioInv'
<1>1. CASE PurgeExpired
  <2>0. UNCHANGED <<disk, req, uploads, discarded>> /\ DropRows(Expired) /\ purger' = AudioOf(Expired)
    BY <1>1 DEF PurgeExpired
  <2>1. PICK S \in SUBSET Notes : S = Expired  BY DEF Expired
  <2>2. note' \in [Notes -> NoteRow] /\ jobs' \subseteq jobs /\ Mild /\ SameAudio
        /\ \A n \in S : note'[n].row = "gone"
    BY <2>0, <2>1, DropIs
  <2>3. \A k \in purger' : k \in Keys /\ k[1] \in S
    <3>1. \A n \in S : note[n].key # NoKey => note[n].key \in Keys /\ note[n].key[1] = n
      BY DEF AudioInv, Types, NoteRow, NoteFits
    <3> QED  BY <2>0, <2>1, <3>1 DEF AudioOf
  <2>4. Types'  BY <2>0, <2>2, <2>3 DEF AudioInv, Types
  <2>5. DeletionsFit'
    <3>1. \A k \in purger' : note'[k[1]].row = "gone"  BY <2>2, <2>3
    <3>2. ASSUME NEW k \in discarded' PROVE note'[k[1]].gen > 0
      <4>1. k[1] \in Notes /\ note[k[1]].gen > 0  BY <2>0, <3>2, KeyIs DEF AudioInv, DeletionsFit, Types
      <4>2. note[k[1]].gen \in Nat /\ note'[k[1]].gen \in Nat  BY <2>4, <4>1 DEF AudioInv, Types, NoteRow
      <4> QED  BY <2>2, <4>1, <4>2 DEF Mild
    <3>3. ASSUME NEW j \in jobs' PROVE JobFits(j)'
      <4>1. j \in jobs /\ j.n \in Notes  BY <2>2, <3>3 DEF AudioInv, Types, Job
      <4>2. JobFits(j)  BY <4>1 DEF AudioInv, DeletionsFit
      <4> QED  BY <2>2, <4>1, <4>2 DEF JobFits, Mild
    <3> QED  BY <3>1, <3>2, <3>3 DEF DeletionsFit
  <2> QED  BY <2>0, <2>2, <2>4, <2>5, NoReq
<1>2. CASE RunTrashPurge
  <2>1. PICK k \in purger : /\ purger' = purger \ {k} /\ UNCHANGED <<note, req, jobs, uploads, discarded>>
                            /\ disk' = Delete(k) \/ UNCHANGED disk
    BY <1>2 DEF RunTrashPurge
  <2>2. k \in Keys /\ note[k[1]].row = "gone"  BY DEF AudioInv, Types, DeletionsFit
  <2>3. disk' \in [Keys -> Clips \cup {Absent, Partial}] /\ \A q \in Keys : q # k => disk'[q] = disk[q]
    BY <2>1, <2>2 DEF AudioInv, Types, Delete
  <2>4. Mild /\ SameAudio  BY <2>1, <2>2, <2>3, DiskMild
  <2>5. Types'  BY <2>1, <2>3 DEF AudioInv, Types
  <2>6. DeletionsFit'  BY <2>1, <2>4, <2>5, DeletionsStay
  <2> QED  BY <2>1, <2>4, <2>5, <2>6, NoReq
<1> QED  BY <1>1, <1>2

\* A job is claimed, or skipped with its note in the trash.
LEMMA ProcessStep ==
    ASSUME AudioInv, NEW j \in jobs, Process(j) PROVE AudioInv'
<1>0. UNCHANGED <<note, disk, req, purger, uploads, discarded>>  BY DEF Process
<1>1. PICK i : i = [j EXCEPT !.claimed = TRUE]  OBVIOUS
<1>2. j \in Job /\ JobFits(j) /\ jobs \subseteq Job  BY DEF AudioInv, Types, DeletionsFit
<1>3. i \in Job /\ i.n = j.n /\ i.key = j.key /\ i.published = j.published /\ i.gen = j.gen
  BY <1>1, <1>2 DEF Job
<1>4. JobFits(i)'  BY <1>0, <1>2, <1>3 DEF JobFits
<1>5. jobs' \subseteq jobs \cup {i}  BY <1>1 DEF Process
<1>6. Mild /\ SameAudio  BY <1>0, DiskMild
<1>7. Types'  BY <1>0, <1>2, <1>3, <1>5 DEF AudioInv, Types
<1>8. DeletionsFit'  BY <1>0, <1>4, <1>5, <1>6, <1>7, DeletionsStay
<1> QED  BY <1>0, <1>6, <1>7, <1>8, NoReq

\* The transcription reads the audio, and keeps it.
LEMMA TranscribeStep ==
    ASSUME AudioInv, NEW j \in jobs, Transcribe(j) PROVE AudioInv'
<1>0. UNCHANGED <<disk, req, purger, uploads, discarded>>  BY DEF Transcribe
<1>1. j \in Job /\ j.n \in Notes /\ j.gen \in Nat /\ j.key[1] = j.n /\ note[j.n].row # "none"
  BY DEF AudioInv, Types, Job, DeletionsFit, JobFits
<1>2. PICK n \in Notes : n = j.n  BY <1>1
<1>3. note[n] \in NoteRow /\ note \in [Notes -> NoteRow] /\ jobs \subseteq Job  BY DEF AudioInv, Types
<1>4. note[n].gen \in Nat  BY <1>3 DEF NoteRow
<1>5. CASE jobs' = jobs \ {j} /\ UNCHANGED note
  <2>1. Mild /\ SameAudio  BY <1>0, <1>5, DiskMild
  <2>2. Types'  BY <1>0, <1>5 DEF AudioInv, Types
  <2>3. DeletionsFit'  BY <1>0, <1>5, <2>1, <2>2, DeletionsStay
  <2> QED  BY <1>0, <2>1, <2>2, <2>3, NoReq
<1>6. CASE jobs' = jobs \ {j} /\ note' = [note EXCEPT ![n].status = "failed"]
  <2>1. PICK r : r = [note[n] EXCEPT !.status = "failed"]  OBVIOUS
  <2>2. r \in NoteRow /\ r.key = note[n].key /\ r.ret = note[n].ret /\ r.gen = note[n].gen /\ r.row = note[n].row
    BY <1>3, <2>1 DEF NoteRow
  <2>3. note' = [note EXCEPT ![n] = r]  BY <1>6, <2>1
  <2>4. note[n].gen <= r.gen /\ r.row # "none"  BY <1>1, <1>2, <1>4, <2>2
  <2> QED  BY <1>0, <1>3, <1>6, <2>2, <2>3, <2>4, NoteStep
<1>7. CASE /\ note' = [note EXCEPT ![n].gen = @ + 1, ![n].status = "ready"]
           /\ jobs' = (jobs \ {j}) \cup {[j EXCEPT !.published = TRUE, !.gen = @ + 1]}
  <2>0. PICK g \in Nat, h \in Nat : g = note[n].gen + 1 /\ h = j.gen + 1  BY <1>1, <1>4
  <2>1. PICK r : r = [[note[n] EXCEPT !.gen = g] EXCEPT !.status = "ready"]  OBVIOUS
  <2>2. r \in NoteRow /\ r.key = note[n].key /\ r.ret = note[n].ret /\ r.gen = g /\ r.row = note[n].row
    BY <1>3, <2>1 DEF NoteRow
  <2>3. note' = [note EXCEPT ![n] = r]  BY <1>3, <1>7, <2>0, <2>1
  <2>4. note[n].gen <= r.gen /\ r.row # "none"  BY <1>1, <1>2, <1>4, <2>0, <2>2
  <2>5. PICK i : i = [j EXCEPT !.published = TRUE, !.gen = h]  OBVIOUS
  <2>6. i \in Job /\ i.n = n /\ i.key = j.key /\ i.gen = h  BY <1>1, <1>2, <2>5 DEF Job
  <2>7. note'[n].row # "none"  BY <1>3, <2>3, <2>4
  <2>8. JobFits(i)'  BY <1>1, <1>2, <2>0, <2>6, <2>7 DEF JobFits
  <2>9. jobs' \subseteq Job /\ \A q \in jobs' : q \in jobs \/ JobFits(q)'  BY <1>3, <1>7, <2>0, <2>5, <2>6, <2>8
  <2> QED  BY <1>0, <2>2, <2>3, <2>4, <2>9, NoteStep
<1> QED  BY <1>2, <1>5, <1>6, <1>7 DEF Transcribe
LEMMA RetentionStep ==
    ASSUME AudioInv, NEW j \in jobs, ApplyAudioRetention(j) PROVE AudioInv'
<1>0. UNCHANGED <<req, purger, uploads>> /\ jobs' = jobs \ {j} /\ j.published  BY DEF ApplyAudioRetention
<1>1. /\ j \in Job /\ j.n \in Notes /\ j.key \in Keys /\ j.gen \in Nat
      /\ JobFits(j) /\ j.key[1] = j.n /\ note[j.n].row # "none" /\ j.gen > 0
  BY <1>0 DEF AudioInv, Types, Job, DeletionsFit, JobFits
<1>2. PICK n \in Notes : n = j.n  BY <1>1
<1>3. note[n] \in NoteRow /\ note \in [Notes -> NoteRow] /\ jobs \subseteq Job  BY DEF AudioInv, Types
<1>4. note[n].gen \in Nat  BY <1>3 DEF NoteRow
<1>5. PICK h \in Clips \cup {"none"} : h = HashOf(j)
  BY <1>1, <1>2, <1>3 DEF HashOf, NoteRow
<1>6. CASE UNCHANGED <<note, disk, discarded>>
  <2>1. Mild /\ SameAudio  BY <1>0, <1>6, DiskMild
  <2>2. Types'  BY <1>0, <1>6 DEF AudioInv, Types
  <2>3. DeletionsFit'  BY <1>0, <1>6, <2>1, <2>2, DeletionsStay
  <2> QED  BY <1>0, <2>1, <2>2, <2>3, NoReq
<1>7. CASE RetentionKept(j)
  <2>1. PICK r : r = [[note[n] EXCEPT !.hash = h] EXCEPT !.ret = "kept"]  OBVIOUS
  <2>2. r \in NoteRow /\ r.key = note[n].key /\ r.ret = "kept" /\ r.gen = note[n].gen /\ r.row = note[n].row
    BY <1>3, <2>1 DEF NoteRow
  <2>3. note' = [note EXCEPT ![n] = r] /\ UNCHANGED <<disk, discarded>>
    BY <1>2, <1>3, <1>5, <1>7, <2>1 DEF RetentionKept
  <2>4. note[n].gen <= r.gen /\ r.row # "none" /\ r.ret # "discarded"  BY <1>1, <1>2, <1>4, <2>2
  <2>5. jobs' \subseteq Job /\ \A q \in jobs' : q \in jobs \/ JobFits(q)'  BY <1>0, <1>3
  <2>6. UNCHANGED <<disk, req, purger, uploads, discarded>>  BY <1>0, <2>3
  <2> QED  BY <2>2, <2>3, <2>4, <2>5, <2>6, NoteStep
<1>8. CASE note[j.n].gen = j.gen /\ RetentionDiscarded(j)
  <2>1. PICK r : /\ r \in NoteRow /\ r.key = note[n].key /\ r.gen = note[n].gen /\ r.row = note[n].row
                 /\ note' = [note EXCEPT ![n] = r]
    <3>1. PICK a, b : a = [note[n] EXCEPT !.hash = h] /\ b = [a EXCEPT !.ret = "discarded"]  OBVIOUS
    <3>2. a \in NoteRow /\ a.key = note[n].key /\ a.gen = note[n].gen /\ a.row = note[n].row
      BY <1>3, <3>1 DEF NoteRow
    <3>3. b \in NoteRow /\ b.key = a.key /\ b.gen = a.gen /\ b.row = a.row  BY <3>1, <3>2 DEF NoteRow
    <3>4. note' = [note EXCEPT ![n] = a] \/ note' = [note EXCEPT ![n] = b]
      BY <1>2, <1>3, <1>5, <1>8, <3>1 DEF RetentionDiscarded
    <3> QED  BY <3>2, <3>3, <3>4
  <2>2. note'[n] = r /\ \A m \in Notes : m # n => note'[m] = note[m]  BY <1>3, <2>1
  <2>3. discarded' = discarded \cup {j.key} /\ disk' = [disk EXCEPT ![j.key] = Absent]
    BY <1>8 DEF RetentionDiscarded, Delete
  <2>4. Types'  BY <1>0, <1>1, <2>1, <2>3 DEF AudioInv, Types
  <2>5. \A m \in Notes : note[m].gen \in Nat /\ note'[m].gen = note[m].gen /\ note'[m].row = note[m].row
    BY <2>1, <2>2 DEF AudioInv, Types, NoteRow
  <2>6. \A k \in Keys : Safe(k) => Safe(k)'
    <3>1. \A k \in Keys : k # j.key => disk'[k] = disk[k]  BY <2>3 DEF AudioInv, Types
    <3> QED  BY <2>3, <2>5, <3>1, KeyIs DEF Safe
  <2>7. \A m \in Notes : note'[m].row = "none" => note'[m] = note[m]
    BY <1>1, <1>2, <2>2, <2>5
  <2>8. \A m \in Notes : uploads[m] \in Nat  BY UploadsAssumption DEF AudioInv, Types
  <2>9. Mild  BY <1>0, <2>3, <2>5, <2>6, <2>7, <2>8 DEF Mild
  <2>10. SameAudio
    <3>1. \E k \in discarded' : k[1] = n  BY <1>1, <1>2, <2>3
    <3> QED  BY <2>1, <2>2, <3>1 DEF SameAudio
  <2>11. DeletionsFit'
    <3>1. ASSUME NEW k \in discarded' PROVE note'[k[1]].gen > 0
      <4>1. CASE k = j.key  BY <1>1, <1>8, <2>5, <4>1
      <4>2. CASE k \in discarded
        <5>1. k[1] \in Notes /\ note[k[1]].gen > 0  BY <4>2, KeyIs DEF AudioInv, Types, DeletionsFit
        <5> QED  BY <2>5, <5>1
      <4> QED  BY <2>3, <4>1, <4>2
    <3>2. \A k \in purger' : note'[k[1]].row = "gone"
      BY <1>0, <2>5, KeyIs DEF AudioInv, Types, DeletionsFit
    <3>3. ASSUME NEW q \in jobs' PROVE JobFits(q)'
      <4>1. q \in jobs /\ q.n \in Notes  BY <1>0, <3>3 DEF AudioInv, Types, Job
      <4>2. JobFits(q)  BY <4>1 DEF AudioInv, DeletionsFit
      <4> QED  BY <2>5, <4>1, <4>2 DEF JobFits
    <3> QED  BY <3>1, <3>2, <3>3 DEF DeletionsFit
  <2> QED  BY <1>0, <2>4, <2>9, <2>10, <2>11, NoReq
<1> QED  BY <1>6, <1>7, <1>8 DEF ApplyAudioRetention

\* The server stops: a request that is remembered goes back to where its client
\* left it, never behind the object it has written.
LEMMA CrashStep ==
    ASSUME AudioInv, Crash PROVE AudioInv'
<1>0. UNCHANGED <<note, disk, uploads, discarded>> /\ purger' = {}
      /\ req' = [c \in Clients |-> Remembered(req[c])]
      /\ jobs' = {[j EXCEPT !.claimed = FALSE] : j \in jobs}
  BY DEF Crash
<1>j. ASSUME NEW i \in jobs' PROVE i \in Job /\ JobFits(i)'
  <2>1. PICK j \in jobs : i = [j EXCEPT !.claimed = FALSE]  BY <1>0, <1>j
  <2>2. j \in Job /\ JobFits(j)  BY DEF AudioInv, Types, DeletionsFit
  <2>3. i \in Job /\ i.n = j.n /\ i.key = j.key /\ i.published = j.published /\ i.gen = j.gen
    BY <2>1, <2>2 DEF Job
  <2> QED  BY <1>0, <2>2, <2>3 DEF JobFits
<1>1. ASSUME NEW c \in Clients
      PROVE \/ req'[c] = Idle
            \/ \E pc \in Moving : /\ req'[c] = [req[c] EXCEPT !.pc = pc] /\ req[c].pc \in Moving
                                  /\ pc \in Early <=> req[c].pc \in Early
  <2>0. req'[c] = Remembered(req[c]) /\ req[c] \in Request  BY <1>0 DEF AudioInv, Types
  <2>1. {"grant", "put"} = Early /\ {"stored", "verified", "attached", "counted"} \subseteq Late
        /\ "stored" \notin Early /\ "verified" \notin Early /\ "attached" \notin Early
        /\ "counted" \notin Early
        /\ Early \subseteq Moving /\ Late \subseteq Moving
    BY DEF Early, Late, Moving
  <2>2. req[c] = [req[c] EXCEPT !.pc = req[c].pc]  BY <2>0 DEF Request
  <2>3. CASE req[c].op = "upload" /\ req[c].pc = "put"
    BY <2>0, <2>1, <2>3 DEF Remembered
  <2>4. CASE req[c].op = "upload" /\ req[c].pc \in {"verified", "attached", "counted"}
    <3>1. req'[c] = [req[c] EXCEPT !.pc = "stored"]  BY <2>0, <2>4 DEF Remembered
    <3> QED  BY <2>1, <2>4, <3>1
  <2>5. CASE req[c].op = "upload" /\ req[c].pc \in {"grant", "stored"}
    <3>1. req'[c] = req[c]  BY <2>0, <2>5 DEF Remembered
    <3> QED  BY <2>1, <2>2, <2>5, <3>1
  <2>6. CASE ~(req[c].op = "upload" /\ req[c].pc \in {"put", "verified", "attached", "counted", "grant", "stored"})
    BY <2>0, <2>6 DEF Remembered
  <2> QED  BY <2>3, <2>4, <2>5, <2>6
<1>2. ASSUME NEW c \in Clients
      PROVE /\ req'[c] \in Request
            /\ req'[c].pc \in Moving =>
                  /\ req[c].pc \in Moving /\ req'[c].key = req[c].key /\ req'[c].n = req[c].n
                  /\ req'[c].op = req[c].op /\ req'[c].clip = req[c].clip
                  /\ req'[c].pc \in Early <=> req[c].pc \in Early
            /\ req'[c].pc \notin Moving => req'[c].pc = "idle"
  <2>1. req[c] \in Request  BY DEF AudioInv, Types
  <2>2. CASE req'[c] = Idle
    BY <2>2, Beginnings DEF Moving, Early, Late
  <2>3. CASE req'[c] # Idle
    <3>1. PICK pc \in Moving : /\ req'[c] = [req[c] EXCEPT !.pc = pc] /\ req[c].pc \in Moving
                               /\ pc \in Early <=> req[c].pc \in Early
      BY <1>1, <2>3
    <3>2. /\ req'[c] \in Request /\ req'[c].pc = pc /\ req'[c].key = req[c].key /\ req'[c].n = req[c].n
          /\ req'[c].op = req[c].op /\ req'[c].clip = req[c].clip
      BY <2>1, <3>1 DEF Request
    <3> QED  BY <3>1, <3>2
  <2> QED  BY <2>2, <2>3
<1>3. req' \in [Clients -> Request]  BY <1>0, <1>2
<1>4. Types'  BY <1>0, <1>3, <1>j DEF AudioInv, Types
<1>5. Mild /\ SameAudio  BY <1>0, DiskMild
<1>6. \A m \in Notes : NoteFits(m)'  BY <1>4, <1>5, NoteStays DEF SameAudio
<1>7. Distinct'  BY <1>2, DistinctStays
<1>8. DeletionsFit'  BY <1>0, <1>4, <1>5, <1>j, DeletionsStay
<1>9. ASSUME NEW c \in Clients PROVE ReqFits(c)'
  <2>1. CASE req'[c].pc \notin Moving
    BY <1>2, <2>1 DEF ReqFits, Moving, Early, Late
  <2>2. CASE req'[c].pc \in Moving
    <3>1. ReqFits(c) /\ req[c].pc \in Moving  BY <1>2, <2>2 DEF AudioInv
    <3>2. req'[c].pc # "create" /\ req'[c].pc # "blob"  BY <2>2 DEF Moving, Early, Late
    <3>3. req'[c].pc \in Late => req[c].pc \in Late
      BY <1>2, <2>2 DEF Moving, Early, Late
    <3>4. req'[c].pc \in Late => Safe(req'[c].key)  BY <1>2, <2>2, <3>1, <3>3 DEF ReqFits
    <3> QED  BY <1>0, <1>2, <2>2, <3>1, <3>2, <3>4 DEF ReqFits, Safe
  <2> QED  BY <2>1, <2>2
<1> QED  BY <1>4, <1>6, <1>7, <1>8, <1>9 DEF AudioInv

\* Every step keeps AudioInv.
LEMMA AudioStep ==
    ASSUME AudioInv, [Next]_vars PROVE AudioInv'
<1>1. ASSUME NEW c \in Clients, RequestStep(c) PROVE AudioInv'
  BY <1>1, PutSteps, ReportSteps, AttachStep, HashStep, ImportCreatesStep DEF RequestStep
<1>2. CASE UNCHANGED vars
  <2>1. UNCHANGED <<note, disk, req, jobs, purger, uploads, discarded>>  BY <1>2 DEF vars
  <2>2. Mild /\ SameAudio  BY <2>1, DiskMild
  <2>3. Types'  BY <2>1 DEF AudioInv, Types
  <2>4. DeletionsFit'  BY <2>1, <2>2, <2>3, DeletionsStay
  <2> QED  BY <2>1, <2>2, <2>3, <2>4, NoReq
<1>3. CASE WorkerStep
  BY <1>3, ProcessStep, TranscribeStep, RetentionStep DEF WorkerStep
<1> QED
  BY <1>1, <1>2, <1>3, NoteSteps, UploadURLStep, PurgeStep, ImportStep, TrashSteps, CrashStep DEF Next

\* The audio of a note, in the trash or not, is on disk and whole until its row is
\* gone, unless the retention policy has discarded it after a transcript: for any
\* notes, clips and requests, and whatever breaks off, fails or is restarted.
THEOREM AudioStays == Spec => []AudioIsKept
<1>1. Init => AudioInv
  <2> SUFFICES ASSUME Init PROVE AudioInv  OBVIOUS
  <2>1. Types
    <3>1. note \in [Notes -> NoteRow] /\ req \in [Clients -> Request]  BY Beginnings DEF Init
    <3>2. uploads \in [Notes -> 0..MaxUploads]  BY UploadsAssumption DEF Init
    <3> QED  BY <3>1, <3>2 DEF Init, Types
  <2>2. \A c \in Clients : req[c].pc = "idle"  BY Beginnings DEF Init
  <2>3. "idle" \notin Moving  BY DEF Moving, Early, Late
  <2>4. Distinct /\ \A c \in Clients : ReqFits(c)
    BY <2>2, <2>3 DEF Distinct, ReqFits, Moving, Early, Late
  <2>5. \A n \in Notes : NoteFits(n)
    <3>1. \A n \in Notes : note[n] = Unborn  BY DEF Init
    <3> QED  BY <3>1, Beginnings DEF NoteFits
  <2>6. DeletionsFit  BY DEF Init, DeletionsFit
  <2> QED  BY <2>1, <2>4, <2>5, <2>6 DEF AudioInv
<1>2. AudioInv /\ [Next]_vars => AudioInv'  BY AudioStep
<1>3. AudioInv => AudioIsKept
  <2> SUFFICES ASSUME AudioInv PROVE AudioIsKept  OBVIOUS
  <2>1. TypeOK  BY DEF AudioInv, Types, TypeOK, NoteRow
  <2>2. ASSUME NEW n \in Notes, Row(n), note[n].key # NoKey
        PROVE disk[note[n].key] \in Clips \/ (note[n].key \in discarded /\ note[n].gen > 0)
    <3>1. note[n].key[1] = n /\ Safe(note[n].key)  BY <2>2 DEF AudioInv, NoteFits
    <3>2. note[n].row # "gone"  BY <2>2 DEF Row
    <3>3. note[n].key \in discarded => note[n].gen > 0  BY <3>1 DEF AudioInv, DeletionsFit
    <3> QED  BY <3>1, <3>2, <3>3 DEF Safe
  <2>3. \A n \in Notes : note[n].ret = "discarded" => \E k \in discarded : k[1] = n
    BY DEF AudioInv, NoteFits
  <2> QED  BY <2>1, <2>2, <2>3 DEF AudioIsKept
<1> QED  BY <1>1, <1>2, <1>3, PTL DEF Spec
-----------------------------------------------------------------------------
(* Backups.                                                                *)

Runs == [pc : {"idle", "dump", "prune"}, at : Nat, doomed : SUBSET Dumps!Stamps]

DumpTypes ==
    /\ clock \in Dumps!Stamps /\ overlap \in BOOLEAN /\ broken \in 0..MaxBrokenDumps
    /\ file \in [Dumps!Stamps -> {"absent", "partial", "good"}]
    /\ run \in [Runners -> Runs] /\ made \subseteq Dumps!Stamps
    /\ \A r \in Runners : run[r].pc = "idle" => run[r] = Dumps!Idle
    /\ \A r \in Runners : run[r].pc # "idle" => run[r].at \in Dumps!Stamps
    /\ \A r \in Runners : run[r].doomed # {} => run[r].pc = "prune"

\* One run at a time.
Alone == \A q, r \in Runners : run[q].pc # "idle" /\ run[r].pc # "idle" => q = r

\* No file is from the future.
FilesArePast == \A t \in Dumps!Stamps : file[t] # "absent" \/ t \in made => t <= clock

NewestIsWhole == made # {} => \E t \in made : file[t] = "good" /\ \A u \in made : u <= t

\* The file of a run is the newest there is; once it is dumped it is whole, and
\* not among those to go.
RunFits(r) ==
    /\ run[r].pc # "idle" =>
          run[r].at <= clock /\ \A t \in Dumps!Stamps : file[t] # "absent" => t <= run[r].at
    /\ run[r].pc = "dump" => \A u \in made : u < run[r].at
    /\ run[r].pc = "prune" =>
          /\ run[r].at \in made /\ file[run[r].at] = "good" /\ run[r].at \notin run[r].doomed
          /\ \A u \in made : u <= run[r].at

InTurn == Alone /\ FilesArePast /\ NewestIsWhole /\ \A r \in Runners : RunFits(r)

DumpInv == DumpTypes /\ (~overlap => InTurn)
\* A prune never takes the newest file, whatever is kept beyond it.
LEMMA NewestIsNotBeyond ==
    ASSUME NEW t, RetentionCount > 0, Dumps!Newer(t) = {} PROVE t \notin Dumps!Beyond
<1>1. Dumps!Cardinality({}) = Cardinality({})  BY Zenon DEF Dumps!Cardinality, Cardinality
<1>2. Dumps!Cardinality(Dumps!Newer(t)) = 0  BY <1>1, FS_EmptySet, Zenon
<1>3. ~(0 >= RetentionCount)  BY DumpsAssumption
<1> QED  BY <1>2, <1>3, Zenon DEF Dumps!Beyond

\* A runner that goes on with v.
LEMMA RunnerGoes ==
    ASSUME DumpTypes, NEW r \in Runners, NEW v \in Runs, run' = [run EXCEPT ![r] = v],
           v.pc = "idle" => v = Dumps!Idle, v.pc # "idle" => v.at \in Dumps!Stamps,
           v.doomed # {} => v.pc = "prune",
           clock' \in Dumps!Stamps, overlap' \in BOOLEAN, broken' \in 0..MaxBrokenDumps,
           file' \in [Dumps!Stamps -> {"absent", "partial", "good"}], made' \subseteq Dumps!Stamps
    PROVE DumpTypes' /\ run'[r] = v /\ \A q \in Runners : q # r => run'[q] = run[q]
<1>1. run \in [Runners -> Runs]  BY DEF DumpTypes
<1>2. run'[r] = v /\ \A q \in Runners : q # r => run'[q] = run[q]  BY <1>1
<1>3. run' \in [Runners -> Runs]  BY <1>1
<1>4. \A q \in Runners : /\ run'[q].pc = "idle" => run'[q] = Dumps!Idle
                         /\ run'[q].pc # "idle" => run'[q].at \in Dumps!Stamps
                         /\ run'[q].doomed # {} => run'[q].pc = "prune"
  BY <1>2 DEF DumpTypes
<1> QED  BY <1>2, <1>3, <1>4 DEF DumpTypes

\* The only run, or none.
LEMMA OthersIdle ==
    ASSUME Alone, NEW r \in Runners, run[r].pc # "idle", NEW v,
           run'[r] = v, \A q \in Runners : q # r => run'[q] = run[q]
    PROVE /\ Alone' /\ \A q \in Runners : q # r => run'[q].pc = "idle"
          /\ \A q \in Runners : q # r => RunFits(q)'
<1>1. \A q \in Runners : q # r => run'[q].pc = "idle"  BY DEF Alone
<1> QED  BY <1>1 DEF Alone, RunFits

\* Time goes by.
LEMMA TickDumps ==
    ASSUME DumpInv, Dumps!Tick PROVE DumpInv'
<1>1. clock \in Nat /\ clock' = clock + 1 /\ clock' \in Dumps!Stamps
  BY DumpsAssumption DEF DumpInv, DumpTypes, Dumps!Tick, Dumps!Stamps
<1>2. UNCHANGED <<file, run, overlap, made, broken>>  BY DEF Dumps!Tick
<1>3. DumpTypes'  BY <1>1, <1>2 DEF DumpInv, DumpTypes
<1>4. ASSUME InTurn PROVE InTurn'
  <2>1. Alone' /\ NewestIsWhole'  BY <1>2, <1>4 DEF InTurn, Alone, NewestIsWhole
  <2>2. FilesArePast'  BY <1>1, <1>2, <1>4 DEF InTurn, FilesArePast, Dumps!Stamps
  <2>3. ASSUME NEW r \in Runners PROVE RunFits(r)'
    <3>1. RunFits(r)  BY <1>4 DEF InTurn
    <3>2. run[r].at \in Nat  BY DEF DumpInv, DumpTypes, Runs
    <3>3. run[r].at <= clock => run[r].at <= clock'  BY <1>1, <3>2
    <3> QED  BY <1>2, <3>1, <3>3 DEF RunFits
  <2> QED  BY <2>1, <2>2, <2>3 DEF InTurn
<1> QED  BY <1>2, <1>3, <1>4 DEF DumpInv

\* A dump begins, in a second of its own or in a run that overlaps.
LEMMA CreateDumps ==
    ASSUME DumpInv, NEW r \in Runners, Dumps!Create(r) PROVE DumpInv'
<1>0. UNCHANGED <<clock, made, broken>> /\ run[r] = Dumps!Idle /\ clock \in Dumps!Stamps
      /\ file' = [file EXCEPT ![clock] = "partial"]
  BY DEF DumpInv, DumpTypes, Dumps!Create
<1>1. PICK v : v = [Dumps!Idle EXCEPT !.pc = "dump", !.at = clock]  OBVIOUS
<1>2. clock \in Nat  BY <1>0, DumpsAssumption DEF Dumps!Stamps
<1>3. Dumps!Idle \in Runs /\ Dumps!Idle.pc = "idle" /\ Dumps!Idle.doomed = {}  BY DEF Dumps!Idle, Runs
<1>4. v \in Runs /\ v.pc = "dump" /\ v.at = clock /\ v.doomed = {}  BY <1>1, <1>2, <1>3 DEF Runs
<1>5. run' = [run EXCEPT ![r] = v]  BY <1>1 DEF Dumps!Create
<1>6. file' \in [Dumps!Stamps -> {"absent", "partial", "good"}] /\ file'[clock] = "partial"
      /\ \A t \in Dumps!Stamps : t # clock => file'[t] = file[t]
  BY <1>0 DEF DumpInv, DumpTypes
<1>7. overlap' \in BOOLEAN  BY DEF Dumps!Create
<1>8. DumpTypes' /\ run'[r] = v /\ \A q \in Runners : q # r => run'[q] = run[q]
  <2>1. v.pc # "idle" /\ v.at \in Dumps!Stamps  BY <1>0, <1>4
  <2>2. clock' \in Dumps!Stamps /\ broken' \in 0..MaxBrokenDumps /\ made' \subseteq Dumps!Stamps
    BY <1>0 DEF DumpInv, DumpTypes
  <2> QED  BY <1>4, <1>5, <1>6, <1>7, <2>1, <2>2, RunnerGoes DEF DumpInv
<1>9. ASSUME ~overlap' PROVE InTurn'
  <2>1. ~overlap /\ file[clock] = "absent" /\ \A q \in Runners : run[q] = Dumps!Idle
    BY <1>9 DEF Dumps!Create
  <2>2. InTurn  BY <2>1 DEF DumpInv
  <2>3. \A q \in Runners : q # r => run'[q].pc = "idle"  BY <1>3, <1>8, <2>1
  <2>4. Alone'  BY <2>3 DEF Alone
  <2>5. FilesArePast'
    BY <1>0, <1>2, <1>6, <2>2 DEF InTurn, FilesArePast
  <2>6. made \subseteq Nat  BY DumpsAssumption DEF DumpInv, DumpTypes, Dumps!Stamps
  <2>7. made # {} => \E t \in made : file[t] = "good" /\ t # clock /\ t <= clock /\ \A u \in made : u <= t
    BY <2>1, <2>2 DEF InTurn, NewestIsWhole, FilesArePast, DumpInv, DumpTypes
  <2>8. NewestIsWhole'  BY <1>0, <1>6, <2>7 DEF NewestIsWhole, DumpInv, DumpTypes
  <2>9. \A u \in made : u < clock  BY <1>2, <2>6, <2>7
  <2>10. RunFits(r)'
    <3>1. clock' <= clock'  BY <1>0, <1>2
    <3>2. \A t \in Dumps!Stamps : file'[t] # "absent" => t <= clock  BY <1>0, <2>5 DEF FilesArePast
    <3> QED  BY <1>0, <1>4, <1>8, <2>9, <3>1, <3>2 DEF RunFits
  <2>11. \A q \in Runners : RunFits(q)'  BY <2>3, <2>10 DEF RunFits
  <2> QED  BY <2>4, <2>5, <2>8, <2>11 DEF InTurn
<1> QED  BY <1>8, <1>9 DEF DumpInv

\* A dump ends, well or not.
LEMMA DumpEnds ==
    ASSUME DumpInv, NEW r \in Runners, Dumps!DumpSucceeds(r) \/ Dumps!DumpFails(r) PROVE DumpInv'
<1>0. run[r] \in Runs /\ run \in [Runners -> Runs] /\ run[r].pc = "dump" /\ run[r].at \in Dumps!Stamps
      /\ run[r].doomed = {} /\ UNCHANGED <<clock, overlap>>
  BY DEF DumpInv, DumpTypes, Dumps!DumpSucceeds, Dumps!DumpFails
<1>n. \A t \in Dumps!Stamps : t \in Nat  BY DumpsAssumption DEF Dumps!Stamps
<1>1. CASE Dumps!DumpSucceeds(r)
  <2>1. PICK a \in Dumps!Stamps : a = run[r].at  BY <1>0
  <2>2. PICK v : v = [run[r] EXCEPT !.pc = "prune"]  OBVIOUS
  <2>3. v \in Runs /\ v.pc = "prune" /\ v.at = a /\ v.doomed = {}  BY <1>0, <2>1, <2>2 DEF Runs
  <2>4. run' = [run EXCEPT ![r] = v] /\ made' = made \cup {a} /\ broken' = broken
    BY <1>0, <1>1, <2>1, <2>2 DEF Dumps!DumpSucceeds
  <2>5. file' \in [Dumps!Stamps -> {"absent", "partial", "good"}]
        /\ (~overlap => file'[a] = "good" /\ \A t \in Dumps!Stamps : t # a => file'[t] = file[t])
    <3>1. file' = [file EXCEPT ![a] = "good"] \/ (overlap /\ file' = file)
      BY <1>1, <2>1 DEF Dumps!DumpSucceeds
    <3> QED  BY <3>1 DEF DumpInv, DumpTypes
  <2>6. DumpTypes' /\ run'[r] = v /\ \A q \in Runners : q # r => run'[q] = run[q]
    <3>1. v.pc # "idle" /\ v.at \in Dumps!Stamps  BY <2>3
    <3>2. clock' \in Dumps!Stamps /\ overlap' \in BOOLEAN /\ broken' \in 0..MaxBrokenDumps /\ made' \subseteq Dumps!Stamps
      BY <1>0, <2>4 DEF DumpInv, DumpTypes
    <3> QED  BY <2>3, <2>4, <2>5, <3>1, <3>2, RunnerGoes DEF DumpInv
  <2>7. ASSUME ~overlap PROVE InTurn'
    <3>1. InTurn  BY <2>7 DEF DumpInv
    <3>2. file'[a] = "good" /\ \A t \in Dumps!Stamps : t # a => file'[t] = file[t]  BY <2>5, <2>7
    <3>3. Alone' /\ \A q \in Runners : q # r => RunFits(q)'
      BY <1>0, <2>6, <3>1, OthersIdle DEF InTurn
    <3>4. RunFits(r)  BY <3>1 DEF InTurn
    <3>5. a <= clock /\ (\A u \in made : u < a)
          /\ (\A t \in Dumps!Stamps : file[t] # "absent" => t <= a)
      BY <1>0, <2>1, <3>4 DEF RunFits
    <3>6. a <= a /\ \A u \in made : u <= a
      BY <1>n, <3>5 DEF DumpInv, DumpTypes
    <3>7. FilesArePast'  BY <1>0, <2>4, <3>1, <3>2, <3>5 DEF InTurn, FilesArePast
    <3>8. \A u \in made' : u <= a  BY <2>4, <3>6
    <3>9. NewestIsWhole'  BY <2>4, <3>2, <3>8 DEF NewestIsWhole
    <3>10. \A t \in Dumps!Stamps : file'[t] # "absent" => t <= a  BY <3>2, <3>5, <3>6
    <3>11. RunFits(r)'  BY <1>0, <2>3, <2>4, <2>6, <3>2, <3>5, <3>8, <3>10 DEF RunFits
    <3> QED  BY <3>3, <3>7, <3>9, <3>11 DEF InTurn
  <2> QED  BY <1>0, <2>6, <2>7 DEF DumpInv
<1>2. CASE Dumps!DumpFails(r)
  <2>1. PICK v \in Runs : v = Dumps!Idle  BY DEF Dumps!Idle, Runs
  <2>2. v.pc = "idle" /\ v.doomed = {}  BY <2>1 DEF Dumps!Idle
  <2>3. run' = [run EXCEPT ![r] = v] /\ UNCHANGED <<clock, file, overlap, made>>
    BY <1>2, <2>1 DEF Dumps!DumpFails
  <2>4. broken' \in 0..MaxBrokenDumps
    BY <1>2, DumpsAssumption DEF DumpInv, DumpTypes, Dumps!DumpFails
  <2>5. DumpTypes' /\ run'[r] = v /\ \A q \in Runners : q # r => run'[q] = run[q]
    <3>1. clock' \in Dumps!Stamps /\ overlap' \in BOOLEAN /\ made' \subseteq Dumps!Stamps
          /\ file' \in [Dumps!Stamps -> {"absent", "partial", "good"}]
      BY <2>3 DEF DumpInv, DumpTypes
    <3> QED  BY <2>1, <2>2, <2>3, <2>4, <3>1, RunnerGoes DEF DumpInv
  <2>6. ASSUME InTurn PROVE InTurn'
    <3>1. Alone' /\ \A q \in Runners : q # r => RunFits(q)'
      BY <1>0, <2>5, <2>6, OthersIdle DEF InTurn
    <3>2. RunFits(r)'  BY <2>2, <2>5 DEF RunFits
    <3>3. FilesArePast' /\ NewestIsWhole'  BY <2>3, <2>6 DEF InTurn, FilesArePast, NewestIsWhole
    <3> QED  BY <3>1, <3>2, <3>3 DEF InTurn
  <2> QED  BY <2>3, <2>5, <2>6 DEF DumpInv
<1> QED  BY <1>1, <1>2
\* The prune after a dump lists the directory: its own file is the newest.
LEMMA PruneListsKeeps ==
    ASSUME DumpInv, NEW r \in Runners, Dumps!PruneLists(r) PROVE DumpInv'
<1>0. run[r] \in Runs /\ run \in [Runners -> Runs] /\ run[r].pc = "prune" /\ run[r].at \in Dumps!Stamps
      /\ UNCHANGED <<clock, file, overlap, made, broken>>
  BY DEF DumpInv, DumpTypes, Dumps!PruneLists
<1>1. PICK b : b = Dumps!Beyond  OBVIOUS
<1>2. b \in SUBSET Dumps!Stamps  BY <1>1, Zenon DEF Dumps!Beyond, Dumps!List
<1>3. run' = [run EXCEPT ![r] = IF RetentionCount > 0 /\ b # {} THEN [run[r] EXCEPT !.doomed = b] ELSE Dumps!Idle]
  BY <1>1 DEF Dumps!PruneLists
<1>4. clock' \in Dumps!Stamps /\ overlap' \in BOOLEAN /\ made' \subseteq Dumps!Stamps
      /\ broken' \in 0..MaxBrokenDumps /\ file' \in [Dumps!Stamps -> {"absent", "partial", "good"}]
  BY <1>0 DEF DumpInv, DumpTypes
<1>5. ASSUME NEW v \in Runs, run' = [run EXCEPT ![r] = v],
             v = Dumps!Idle \/ (v.pc = "prune" /\ v.at = run[r].at /\ v.doomed = b /\ RetentionCount > 0)
      PROVE DumpInv'
  <2>1. Dumps!Idle.pc = "idle" /\ Dumps!Idle.doomed = {}  BY DEF Dumps!Idle
  <2>2. (v.pc = "idle" => v = Dumps!Idle) /\ (v.pc # "idle" => v.at \in Dumps!Stamps)
        /\ (v.doomed # {} => v.pc = "prune")
    BY <1>0, <1>5, <2>1
  <2>3. DumpTypes' /\ run'[r] = v /\ \A q \in Runners : q # r => run'[q] = run[q]
    BY <1>4, <1>5, <2>2, RunnerGoes DEF DumpInv
  <2>4. ASSUME InTurn PROVE InTurn'
    <3>1. Alone' /\ \A q \in Runners : q # r => RunFits(q)'
      BY <1>0, <2>3, <2>4, OthersIdle DEF InTurn
    <3>2. FilesArePast' /\ NewestIsWhole'  BY <1>0, <2>4 DEF InTurn, FilesArePast, NewestIsWhole
    <3>3. RunFits(r)  BY <2>4 DEF InTurn
    <3>4. RunFits(r)'
      <4>1. CASE v = Dumps!Idle  BY <2>1, <2>3, <4>1 DEF RunFits
      <4>2. CASE v.pc = "prune" /\ v.at = run[r].at /\ v.doomed = b /\ RetentionCount > 0
        <5>1. Dumps!Newer(run[r].at) = {}
          <6>1. \A t \in Dumps!Stamps : t \in Nat  BY DumpsAssumption DEF Dumps!Stamps
          <6> QED  BY <1>0, <3>3, <6>1 DEF RunFits, Dumps!Newer, Dumps!List
        <5>2. run[r].at \notin b  BY <1>1, <4>2, <5>1, NewestIsNotBeyond
        <5> QED  BY <1>0, <2>3, <3>3, <4>2, <5>2 DEF RunFits
      <4> QED  BY <1>5, <4>1, <4>2
    <3> QED  BY <3>1, <3>2, <3>4 DEF InTurn
  <2> QED  BY <1>0, <2>3, <2>4 DEF DumpInv
<1>6. CASE RetentionCount > 0 /\ b # {}
  <2>1. PICK v : v = [run[r] EXCEPT !.doomed = b]  OBVIOUS
  <2>2. v \in Runs /\ v.pc = "prune" /\ v.at = run[r].at /\ v.doomed = b  BY <1>0, <1>2, <2>1 DEF Runs
  <2> QED  BY <1>3, <1>5, <1>6, <2>1, <2>2
<1>7. CASE ~(RetentionCount > 0 /\ b # {})
  <2>1. PICK v \in Runs : v = Dumps!Idle  BY DEF Dumps!Idle, Runs
  <2> QED  BY <1>3, <1>5, <1>7, <2>1
<1> QED  BY <1>6, <1>7

\* One file after the other.
LEMMA PruneRemovesKeeps ==
    ASSUME DumpInv, NEW r \in Runners, Dumps!PruneRemoves(r) PROVE DumpInv'
<1>1. PICK t \in run[r].doomed :
         /\ file' = [file EXCEPT ![t] = "absent"] /\ UNCHANGED <<clock, overlap, made, broken>>
         /\ run' = [run EXCEPT ![r] = IF run[r].doomed = {t} THEN Dumps!Idle ELSE [run[r] EXCEPT !.doomed = run[r].doomed \ {t}]]
  BY DEF Dumps!PruneRemoves
<1>0. run[r] \in Runs /\ run \in [Runners -> Runs] /\ run[r].pc = "prune" /\ run[r].at \in Dumps!Stamps
      /\ t \in Dumps!Stamps
  BY DEF DumpInv, DumpTypes, Runs
<1>2. PICK b : b = run[r].doomed \ {t}  OBVIOUS
<1>3. b \in SUBSET Dumps!Stamps  BY <1>0, <1>2 DEF Runs
<1>4. file' \in [Dumps!Stamps -> {"absent", "partial", "good"}] /\ file'[t] = "absent"
      /\ \A u \in Dumps!Stamps : u # t => file'[u] = file[u]
  BY <1>0, <1>1 DEF DumpInv, DumpTypes
<1>5. clock' \in Dumps!Stamps /\ overlap' \in BOOLEAN /\ made' \subseteq Dumps!Stamps /\ broken' \in 0..MaxBrokenDumps
  BY <1>1 DEF DumpInv, DumpTypes
<1>6. ASSUME NEW v \in Runs, run' = [run EXCEPT ![r] = v],
             v = Dumps!Idle \/ (v.pc = "prune" /\ v.at = run[r].at /\ v.doomed = b)
      PROVE DumpInv'
  <2>1. Dumps!Idle.pc = "idle" /\ Dumps!Idle.doomed = {}  BY DEF Dumps!Idle
  <2>2. (v.pc = "idle" => v = Dumps!Idle) /\ (v.pc # "idle" => v.at \in Dumps!Stamps)
        /\ (v.doomed # {} => v.pc = "prune")
    BY <1>0, <1>6, <2>1
  <2>3. DumpTypes' /\ run'[r] = v /\ \A q \in Runners : q # r => run'[q] = run[q]
    BY <1>4, <1>5, <1>6, <2>2, RunnerGoes DEF DumpInv
  <2>4. ASSUME InTurn PROVE InTurn'
    <3>1. Alone' /\ \A q \in Runners : q # r => RunFits(q)'
      BY <1>0, <2>3, <2>4, OthersIdle DEF InTurn
    <3>2. PICK a \in Dumps!Stamps : a = run[r].at  BY <1>0
    <3>3. /\ a <= clock /\ a \in made /\ file[a] = "good" /\ a \notin run[r].doomed
          /\ (\A u \in made : u <= a) /\ \A u \in Dumps!Stamps : file[u] # "absent" => u <= a
      BY <1>0, <2>4, <3>2 DEF InTurn, RunFits
    <3>4. a # t /\ file'[a] = "good"  BY <1>4, <3>3
    <3>5. \A u \in Dumps!Stamps : file'[u] # "absent" => file[u] # "absent"  BY <1>4
    <3>6. FilesArePast'  BY <1>1, <2>4, <3>5 DEF InTurn, FilesArePast
    <3>7. NewestIsWhole'  BY <1>1, <3>3, <3>4 DEF NewestIsWhole
    <3>8. RunFits(r)'
      <4>1. CASE v = Dumps!Idle  BY <2>1, <2>3, <4>1 DEF RunFits
      <4>2. CASE v.pc = "prune" /\ v.at = run[r].at /\ v.doomed = b
        <5>1. run'[r].pc = "prune" /\ run'[r].at = a /\ a \notin run'[r].doomed  BY <1>2, <2>3, <3>2, <3>3, <4>2
        <5>2. \A u \in Dumps!Stamps : file'[u] # "absent" => u <= a  BY <3>3, <3>5
        <5>3. a <= clock' /\ a \in made' /\ \A u \in made' : u <= a  BY <1>1, <3>3
        <5> QED  BY <3>4, <5>1, <5>2, <5>3 DEF RunFits
      <4> QED  BY <1>6, <4>1, <4>2
    <3> QED  BY <3>1, <3>6, <3>7, <3>8 DEF InTurn
  <2> QED  BY <1>1, <2>3, <2>4 DEF DumpInv
<1>7. CASE run[r].doomed = {t}
  <2>1. PICK v \in Runs : v = Dumps!Idle  BY DEF Dumps!Idle, Runs
  <2> QED  BY <1>1, <1>6, <1>7, <2>1
<1>8. CASE run[r].doomed # {t}
  <2>1. PICK v : v = [run[r] EXCEPT !.doomed = b]  OBVIOUS
  <2>2. v \in Runs /\ v.pc = "prune" /\ v.at = run[r].at /\ v.doomed = b  BY <1>0, <1>3, <2>1 DEF Runs
  <2> QED  BY <1>1, <1>2, <1>6, <1>8, <2>1, <2>2
<1> QED  BY <1>7, <1>8

\* Unless runs overlap or share a second, the newest dump that was completed is
\* there and whole: for any number of runners, seconds and broken dumps, and any
\* retention count.
THEOREM NewestBackupIsKept == Dumps!Spec => []NewestBackupStays
<1>1. Dumps!Init => DumpInv
  <2> SUFFICES ASSUME Dumps!Init PROVE DumpInv  OBVIOUS
  <2>0. Dumps!Idle \in Runs /\ Dumps!Idle.pc = "idle" /\ Dumps!Idle.doomed = {}  BY DEF Dumps!Idle, Runs
  <2>1. \A r \in Runners : run[r] = Dumps!Idle  BY DEF Dumps!Init
  <2>2. run \in [Runners -> Runs]  BY <2>0 DEF Dumps!Init
  <2>a. clock \in Dumps!Stamps /\ broken \in 0..MaxBrokenDumps
    BY DumpsAssumption DEF Dumps!Init, Dumps!Stamps
  <2>b. file \in [Dumps!Stamps -> {"absent", "partial", "good"}] /\ overlap \in BOOLEAN /\ made \subseteq Dumps!Stamps
    BY DEF Dumps!Init
  <2>3. DumpTypes  BY <2>0, <2>1, <2>2, <2>a, <2>b DEF DumpTypes
  <2>4. Alone /\ \A r \in Runners : RunFits(r)  BY <2>0, <2>1 DEF Alone, RunFits
  <2>5. FilesArePast /\ NewestIsWhole  BY DEF Dumps!Init, FilesArePast, NewestIsWhole
  <2> QED  BY <2>3, <2>4, <2>5 DEF DumpInv, InTurn
<1>2. DumpInv /\ [Dumps!Next]_(Dumps!vars) => DumpInv'
  <2> SUFFICES ASSUME DumpInv, [Dumps!Next]_(Dumps!vars) PROVE DumpInv'  OBVIOUS
  <2>1. CASE UNCHANGED Dumps!vars
    <3>1. UNCHANGED <<clock, file, run, overlap, made, broken>>  BY <2>1 DEF Dumps!vars
    <3>2. DumpTypes'  BY <3>1 DEF DumpInv, DumpTypes
    <3>3. InTurn => InTurn'
      BY <3>1 DEF InTurn, Alone, FilesArePast, NewestIsWhole, RunFits
    <3> QED  BY <3>1, <3>2, <3>3 DEF DumpInv
  <2> QED
    BY <2>1, TickDumps, CreateDumps, DumpEnds, PruneListsKeeps, PruneRemovesKeeps DEF Dumps!Next, Dumps!Step
<1>3. DumpInv => NewestBackupStays
  <2> SUFFICES ASSUME DumpInv PROVE NewestBackupStays  OBVIOUS
  <2>1. Dumps!TypeOK  BY DEF DumpInv, DumpTypes, Runs, Dumps!TypeOK
  <2>2. made # {} /\ ~overlap => \E t \in made : file[t] = "good" /\ \A u \in made : u <= t
    BY DEF DumpInv, InTurn, NewestIsWhole
  <2> QED  BY <2>1, <2>2 DEF NewestBackupStays, Dumps!NewestBackupStays
<1> QED  BY <1>1, <1>2, <1>3, PTL DEF Dumps!Spec
============================================================================
