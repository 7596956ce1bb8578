----------------------------- MODULE MCStorage ------------------------------
(* The files the server keeps: recordings (Recordings), backups (Backups),   *)
(* the certificates of the listener for iOS clients (ListenerController),    *)
(* and the models it downloads as it starts (EmbeddedStartup).  They share   *)
(* no state; a behaviour is of one of the four.                              *)
EXTENDS Recordings

CONSTANTS
    Runners, RetentionCount, MaxTime, MaxBrokenDumps,
    Interfaces, Addresses, Private, MaxRequests, MaxMoves,
    Sources, Percents, DetectAttempts,
    MaxTroubles   \* bound: failed statements and stops together, of a recording

\* The dumps have some seconds, and what breaks is bounded.
ASSUME DumpsAssumption ==
    MaxTime \in Nat \ {0} /\ MaxBrokenDumps \in Nat /\ RetentionCount \in Nat

VARIABLES
    part,
    clock, file, run, overlap, made, broken,
    raw, certFile, keyFile, expired, ctl, pair, unusableCh, serving, unusable, watch, answer,
    missed, spent,
    step, progress, share, pull, probes

Dumps == INSTANCE Backups WITH MaxFaults <- MaxBrokenDumps, faults <- broken
Listener == INSTANCE ListenerController WITH used <- spent
Startup == INSTANCE EmbeddedStartup

dumpVars == <<clock, file, run, overlap, made, broken>>
listenerVars == <<raw, certFile, keyFile, expired, ctl, pair, unusableCh, serving, unusable,
                  watch, answer, missed, spent>>
startupVars == <<step, progress, share, pull, probes>>
mcvars == <<vars, dumpVars, listenerVars, startupVars, part>>

MCInit ==
    /\ Init /\ Dumps!Init /\ Listener!Init /\ Startup!Init
    /\ part \in {"recordings", "dumps", "listener", "startup"}

MCNext ==
    /\ UNCHANGED part
    /\ \/ /\ part = "recordings" /\ Next /\ used'.faults + used'.crashes <= MaxTroubles
          /\ UNCHANGED <<dumpVars, listenerVars, startupVars>>
       \/ part = "dumps" /\ Dumps!Next /\ UNCHANGED <<vars, listenerVars, startupVars>>
       \/ part = "listener" /\ Listener!Next /\ UNCHANGED <<vars, dumpVars, startupVars>>
       \/ part = "startup" /\ Startup!Next /\ UNCHANGED <<vars, dumpVars, listenerVars>>

\* The fairness of EmbeddedStartup, whose first step is enabled at once.
StartupFairness ==
    /\ WF_startupVars(part = "startup" /\ Startup!Step) /\ WF_startupVars(Startup!Ready)
    /\ \A s \in Sources : SF_startupVars(Startup!PullEnds(s))

MCSpec ==
    MCInit /\ [][MCNext]_mcvars /\ Fairness /\ Listener!Fairness /\ StartupFairness

\* Of Backups: the newest finished dump is never pruned.
NewestBackupStays == Dumps!NewestBackupStays

\* Of ListenerController: it implements ListenerPromise.
KeepsPromise == Listener!KeepsPromise

\* Of EmbeddedStartup: readiness comes, and is never taken back.
ReadyHolds == Startup!ReadyHolds
=============================================================================
