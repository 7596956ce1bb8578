--------------------------- MODULE EmbeddedStartup --------------------------
(***************************************************************************)
(* What the desktop application is told while an embedded server starts    *)
(* (internal/embedded/progress.go, ollama.go, cmd/muesli/                  *)
(* embedded_startup.go): the phases run one after the other, but the two   *)
(* model downloads report in the background of the rest of the start.      *)
(***************************************************************************)
EXTENDS Integers, FiniteSets, FiniteSetsExt

CONSTANTS
    Sources,         \* the model downloads
    Percents,        \* what a line of a download may say
    DetectAttempts   \* probes of Ollama

VARIABLES
    step,      \* where the start is
    progress,  \* the Reporter's snapshot
    share,     \* the percentage of every source heard of
    pull,      \* the downloads
    probes

vars == <<step, progress, share, pull, probes>>

Silent == -1

Init ==
    /\ step = "db" /\ probes = 0
    /\ progress = [phase |-> "db-init", percent |-> 0, ready |-> FALSE, degraded |-> FALSE]
    /\ share = [s \in Sources |-> Silent]
    /\ pull = [s \in Sources |-> [state |-> "none", last |-> Silent]]

TypeOK ==
    /\ progress.phase \in {"db-init", "pgvector", "migrate", "ollama-check", "model-pull", "ready"}
    /\ progress.percent \in 0..100 /\ progress.ready \in BOOLEAN
    /\ \A s \in Sources : share[s] \in {Silent} \cup 0..100

\* Advance: readiness is the last phase's and no other's.
Advance(phase) ==
    progress' = [progress EXCEPT !.phase = phase, !.ready = (phase = "ready"),
                                 !.percent = IF phase = "ready" THEN 100 ELSE 0]

\* SetSourcePercent: the average of the sources heard of.
SetSourcePercent(s, percent) ==
    LET heard == [share EXCEPT ![s] = percent]
        known == {q \in Sources : heard[q] # Silent}
    IN /\ share' = heard
       /\ progress' = [progress EXCEPT !.percent =
             MapThenSumSet(LAMBDA q : heard[q], known) \div Cardinality(known)]

\* Start: pgvector only if it is bundled.
Start ==
    /\ step = "db"
    /\ \/ Advance("pgvector") /\ step' = "vector"
       \/ Advance("migrate") /\ step' = "migrate"
    /\ UNCHANGED <<share, pull, probes>>

InstallPgvector ==
    /\ step = "vector"
    /\ Advance("migrate") /\ step' = "migrate"
    /\ UNCHANGED <<share, pull, probes>>

Migrated ==
    /\ step = "migrate"
    /\ Advance("ollama-check") /\ step' = "detect"
    /\ UNCHANGED <<share, pull, probes>>

\* Anything before the downloads may fail, and the server does not come up.
StartFails ==
    /\ step \in {"db", "vector", "migrate"}
    /\ step' = "failed"
    /\ UNCHANGED <<progress, share, pull, probes>>

\* DetectOllamaWithRetry; ConfigureEmbeddedOllama; the downloads begin.
DetectOllama ==
    /\ step = "detect"
    /\ probes' = probes + 1
    /\ \/ /\ step' = "boot"
          /\ progress' = [progress EXCEPT !.phase = "model-pull", !.percent = 0, !.degraded = FALSE]
          /\ pull' = [s \in Sources |-> [state |-> "running", last |-> Silent]]
       \/ /\ probes + 1 < DetectAttempts
          /\ UNCHANGED <<step, progress, pull>>
       \/ /\ probes + 1 = DetectAttempts
          /\ step' = "boot" /\ progress' = [progress EXCEPT !.degraded = TRUE]
          /\ UNCHANGED pull
    /\ UNCHANGED share

\* PullModel: a line with a percentage that differs from the last one is
\* reported.
PullLine(s) ==
    /\ pull[s].state = "running"
    /\ \E percent \in Percents :
          /\ percent # pull[s].last
          /\ SetSourcePercent(s, percent)
          /\ pull' = [pull EXCEPT ![s].last = percent]
    /\ UNCHANGED <<step, probes>>

\* The stream ends, breaks off or takes too long: all the same to the progress.
PullEnds(s) ==
    /\ pull[s].state = "running"
    /\ pull' = [pull EXCEPT ![s].state = "done"]
    /\ UNCHANGED <<step, progress, share, probes>>

\* The rest of run comes as far as serving, and completes the start; or fails.
Complete ==
    /\ step = "boot"
    /\ step' \in {"serving", "failed"}
    /\ UNCHANGED <<progress, share, pull, probes>>

\* Mutation: the first download that ends makes the server ready.
ReadyEarly ==
    /\ step = "serving" /\ ~progress.ready
    /\ pull[CHOOSE s \in Sources : TRUE].state # "running"
    /\ Advance("ready")
    /\ UNCHANGED <<step, share, pull, probes>>

\* runEmbeddedStartupPhases: both downloads have ended and the start is complete.
Ready ==
    /\ step = "serving" /\ ~progress.ready
    /\ \A s \in Sources : pull[s].state # "running"
    /\ Advance("ready")
    /\ UNCHANGED <<step, share, pull, probes>>

Step == Start \/ InstallPgvector \/ Migrated \/ DetectOllama \/ Complete
Next == Step \/ StartFails \/ Ready \/ \E s \in Sources : PullLine(s) \/ PullEnds(s)

\* A download ends at modelPullTimeout at the latest.
Fairness ==
    /\ WF_vars(Step) /\ WF_vars(Ready)
    /\ \A s \in Sources : SF_vars(PullEnds(s))

Spec == Init /\ [][Next]_vars /\ Fairness

\* A server that comes to serve becomes ready, and once it has said so it never
\* takes it back, nor shows less than everything: no late report of a download.
ReadyHolds ==
    /\ []TypeOK
    /\ [](progress.ready => progress.percent = 100)
    /\ [][progress.ready => progress'.ready]_vars
    /\ (step = "serving") ~> progress.ready
=============================================================================
