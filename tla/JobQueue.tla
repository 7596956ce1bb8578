------------------------------ MODULE JobQueue ------------------------------
(***************************************************************************)
(* The Postgres job queue (internal/store/jobs.go) and the worker pool     *)
(* that leases from it (internal/worker/worker.go, recovery.go, and the    *)
(* settling half of Processor.Process in pipeline.go).                     *)
(*                                                                         *)
(* Every statement against the jobs table is one atomic step; whatever a   *)
(* worker does between two statements may interleave with the other        *)
(* workers, the sweeps, the admin handlers and the passing of time.  Time  *)
(* is abstracted to what the code compares: a lease is absent, still held, *)
(* or expired.                                                             *)
(***************************************************************************)
EXTENDS Integers, FiniteSets

CONSTANTS
    Jobs,            \* job ids that can be enqueued
    Workers,         \* worker goroutines, of any number of server processes
    Notes,           \* notes the jobs target
    NoteOf,          \* the note each job targets
    MaxJobAttempts,  \* store.MaxJobAttempts
    MaxAbandons,     \* bound: crashes and failed settle writes in one behaviour
    MaxPriority,     \* bound: priority a "process next" may reach
    LeaseCoversWork  \* TRUE: no live worker outlives the lease of its claim

ASSUME ConstantsAssumption ==
    /\ NoteOf \in [Jobs -> Notes]
    /\ MaxJobAttempts \in Nat \ {0}
    /\ MaxAbandons \in Nat
    /\ MaxPriority \in Nat
    /\ LeaseCoversWork \in BOOLEAN

VARIABLES
    job,      \* the jobs table
    worker,   \* what each worker goroutine holds in memory
    created,  \* number of rows inserted so far; stands for created_at
    abandons  \* crashes and failed settle writes so far

vars == <<job, worker, created, abandons>>

\* finished_at, last_error and the payload never decide a transition here.
Statuses == {"absent", "pending", "running", "done", "failed", "cancelled"}
Settled == {"done", "failed", "cancelled"}
Leases == {"none", "held", "expired"}

JobRow == [status: Statuses, attempts: Nat, lease: Leases,
           priority: Nat, created: Nat]

\* idle: polling.  running: inside runTranscribe/runSummarize/...
\* failing: FailJob has read attempts and not yet written.
\* terminal: FailJob returned and handleTerminalFailure is due.
Phases == {"idle", "running", "failing", "terminal"}

WorkerState == [phase: Phases, job: Jobs \cup {"no-job"}, attempts: Nat,
                seen: Nat, retryable: BOOLEAN]

Idle == [phase |-> "idle", job |-> "no-job", attempts |-> 0,
         seen |-> 0, retryable |-> FALSE]

TypeOK ==
    /\ job \in [Jobs -> JobRow]
    /\ worker \in [Workers -> WorkerState]
    /\ \A w \in Workers : worker[w].phase # "idle" => worker[w].job \in Jobs
    /\ created \in Nat
    /\ abandons \in 0..MaxAbandons

Init ==
    /\ job = [j \in Jobs |-> [status |-> "absent", attempts |-> 0,
                              lease |-> "none", priority |-> 0, created |-> 0]]
    /\ worker = [w \in Workers |-> Idle]
    /\ created = 0
    /\ abandons = 0

-----------------------------------------------------------------------------
(* Enqueueing, cancelling and prioritising: the API side.                  *)

\* INSERT INTO jobs: pending, no lease, default priority, created_at = now().
EnqueueJob(j) ==
    /\ job[j].status = "absent"
    /\ job' = [job EXCEPT ![j] = [@ EXCEPT !.status = "pending", !.created = created + 1]]
    /\ created' = created + 1
    /\ UNCHANGED <<worker, abandons>>

\* Mutation: the WHERE status='pending' is lost.
CancelJobAnyStatus(j) ==
    /\ job[j].status \in {"pending", "running"}
    /\ job' = [job EXCEPT ![j] = [@ EXCEPT !.status = "cancelled"]]
    /\ UNCHANGED <<worker, created, abandons>>

\* handleCancelJob; the re-check is the WHERE status='pending' of CancelJob.
\* The row keeps its retry lease.
CancelJob(j) ==
    /\ job[j].status = "pending"
    /\ job' = [job EXCEPT ![j] = [@ EXCEPT !.status = "cancelled"]]
    /\ UNCHANGED <<worker, created, abandons>>

Pending == {j \in Jobs : job[j].status = "pending"}

\* p = COALESCE(MAX(priority), 0) + 1 over the pending rows.
IsNextPriority(p) ==
    /\ \A j \in Pending : job[j].priority < p
    /\ \E j \in Pending : job[j].priority = p - 1

\* handleProcessNextNote / handleProcessNextJob.
BumpNoteJobPriority(n) ==
    LET bumped == {j \in Pending : NoteOf[j] = n}
    IN  /\ bumped # {}
        /\ \E p \in 1..MaxPriority :
              /\ IsNextPriority(p)
              /\ job' = [j \in Jobs |->
                            IF j \in bumped THEN [job[j] EXCEPT !.priority = p]
                            ELSE job[j]]
        /\ UNCHANGED <<worker, created, abandons>>

-----------------------------------------------------------------------------
(* Claiming and settling: the worker side.                                 *)

\* Mutation: a pending row that waited out its backoff is overlooked.
ClaimableUnleased(j) ==
    \/ job[j].status = "pending" /\ job[j].lease = "none"
    \/ job[j].status = "running" /\ job[j].lease = "expired"

Claimable(j) ==
    \/ job[j].status = "pending" /\ job[j].lease # "held"
    \/ job[j].status = "running" /\ job[j].lease = "expired"

\* ORDER BY priority DESC, created_at ASC.
Before(j, k) ==
    \/ job[j].priority > job[k].priority
    \/ job[j].priority = job[k].priority /\ job[j].created <= job[k].created

ClaimJob(w, j) ==
    /\ worker[w].phase = "idle"
    /\ Claimable(j)
    /\ \A k \in Jobs : Claimable(k) => Before(j, k)
    /\ job' = [job EXCEPT ![j] = [@ EXCEPT !.status = "running", !.lease = "held",
                                           !.attempts = job[j].attempts + 1]]
    /\ worker' = [worker EXCEPT ![w] = [Idle EXCEPT !.phase = "running",
                                                    !.job = j,
                                                    !.attempts = job[j].attempts + 1]]
    /\ UNCHANGED <<created, abandons>>

\* The run succeeded: UPDATE ... SET status='done' WHERE id, whoever holds it.
CompleteJob(w) ==
    /\ worker[w].phase = "running"
    /\ job' = [job EXCEPT ![worker[w].job] =
                       [@ EXCEPT !.status = "done", !.lease = "none"]]
    /\ worker' = [worker EXCEPT ![w] = Idle]
    /\ UNCHANGED <<created, abandons>>

\* The run failed: FailJob starts with SELECT attempts.
FailJobRead(w, retryable) ==
    /\ worker[w].phase = "running"
    /\ worker' = [worker EXCEPT ![w] =
                       [@ EXCEPT !.phase = "failing",
                                 !.seen = job[worker[w].job].attempts,
                                 !.retryable = retryable]]
    /\ UNCHANGED <<job, created, abandons>>

\* Mutation: attempts <= MaxJobAttempts.
FailJobWriteOffByOne(w) ==
    LET j == worker[w].job
        retry == worker[w].retryable /\ worker[w].seen <= MaxJobAttempts
        terminal == ~worker[w].retryable \/ worker[w].attempts >= MaxJobAttempts
    IN  /\ worker[w].phase = "failing"
        /\ job' = [job EXCEPT ![j] =
                       [@ EXCEPT !.status = IF retry THEN "pending" ELSE "failed",
                                 !.lease = IF retry THEN "held" ELSE "none"]]
        /\ worker' = [worker EXCEPT ![w] =
                          IF terminal THEN [@ EXCEPT !.phase = "terminal"]
                          ELSE Idle]
        /\ UNCHANGED <<created, abandons>>

\* FailJob ends with an UPDATE by id.  Whether note-level effects are due is
\* decided by Process from the attempts its own claim returned.
FailJobWrite(w) ==
    LET j == worker[w].job
        retry == worker[w].retryable /\ worker[w].seen < MaxJobAttempts
        terminal == ~worker[w].retryable \/ worker[w].attempts >= MaxJobAttempts
    IN  /\ worker[w].phase = "failing"
        /\ job' = [job EXCEPT ![j] =
                       [@ EXCEPT !.status = IF retry THEN "pending" ELSE "failed",
                                 !.lease = IF retry THEN "held" ELSE "none"]]
        /\ worker' = [worker EXCEPT ![w] =
                          IF terminal THEN [@ EXCEPT !.phase = "terminal"]
                          ELSE Idle]
        /\ UNCHANGED <<created, abandons>>

\* handleTerminalFailure writes notes and summaries, never this table.
HandleTerminalFailure(w) ==
    /\ worker[w].phase = "terminal"
    /\ worker' = [worker EXCEPT ![w] = Idle]
    /\ UNCHANGED <<job, created, abandons>>

\* The process dies, its context is cancelled, or the settle write errors:
\* the worker forgets the job and the row stays as it is.
Abandon(w) ==
    /\ worker[w].phase # "idle"
    /\ abandons < MaxAbandons
    /\ worker' = [worker EXCEPT ![w] = Idle]
    /\ abandons' = abandons + 1
    /\ UNCHANGED <<job, created>>

-----------------------------------------------------------------------------
(* Time and recovery.                                                      *)

Working(w, j) == worker[w].phase \in {"running", "failing"} /\ worker[w].job = j

\* now() passes lease_expires_at: a retry backoff elapses, or a claim's lease
\* runs out.  defaultJobLease is sized so that the latter outlives the work.
LeaseExpires(j) ==
    /\ job[j].lease = "held"
    /\ job[j].status \in {"pending", "running"}
    /\ LeaseCoversWork /\ job[j].status = "running"
           => \A w \in Workers : ~Working(w, j)
    /\ job' = [job EXCEPT ![j] = [@ EXCEPT !.lease = "expired"]]
    /\ UNCHANGED <<worker, created, abandons>>

\* Mutation: the sweep ignores the lease, as store.ResetRunningJobs does.
ResetRunningJobs ==
    LET stale == {j \in Jobs : job[j].status = "running"}
    IN  /\ stale # {}
        /\ job' = [j \in Jobs |->
                      IF j \in stale
                      THEN [job[j] EXCEPT !.status = "pending", !.lease = "none"]
                      ELSE job[j]]
        /\ UNCHANGED <<worker, created, abandons>>

\* recoverStartupJobs once per process start, runStaleSweep every minute.
ResetExpiredRunningJobs ==
    LET stale == {j \in Jobs : job[j].status = "running" /\ job[j].lease = "expired"}
    IN  /\ stale # {}
        /\ job' = [j \in Jobs |->
                      IF j \in stale
                      THEN [job[j] EXCEPT !.status = "pending", !.lease = "none"]
                      ELSE job[j]]
        /\ UNCHANGED <<worker, created, abandons>>

-----------------------------------------------------------------------------
WorkerStep(w) ==
    \/ \E j \in Jobs : ClaimJob(w, j)
    \/ CompleteJob(w)
    \/ \E retryable \in BOOLEAN : FailJobRead(w, retryable)
    \/ FailJobWrite(w)
    \/ HandleTerminalFailure(w)

Next ==
    \/ \E j \in Jobs : EnqueueJob(j)
    \/ \E j \in Jobs : CancelJob(j)
    \/ \E n \in Notes : BumpNoteJobPriority(n)
    \/ \E w \in Workers : WorkerStep(w)
    \/ \E w \in Workers : Abandon(w)
    \/ \E j \in Jobs : LeaseExpires(j)
    \/ ResetExpiredRunningJobs

Spec == Init /\ [][Next]_vars

\* Every worker goroutine loops until shutdown, and the clock moves on.
Fairness ==
    /\ \A w \in Workers : WF_vars(WorkerStep(w))
    /\ \A j \in Jobs : WF_vars(LeaseExpires(j))

FairSpec == Spec /\ Fairness

-----------------------------------------------------------------------------
(* Properties.                                                             *)

\* While leases cover the work, no two workers ever process the same job:
\* what SELECT ... FOR UPDATE SKIP LOCKED plus the lease are for.
OneRunnerPerJob ==
    \A v, w \in Workers : \A j \in Jobs :
        Working(v, j) /\ Working(w, j) => v = w

\* Process decides "terminal" from the attempts its claim returned, FailJob
\* from a fresh SELECT.  The two agree: a worker about to apply the
\* note-level failure effects always has a row that is failed for good.
TerminalVerdictsAgree ==
    \A w \in Workers :
        worker[w].phase = "terminal" => job[worker[w].job].status = "failed"

\* A job that is done, failed or cancelled is never picked up, requeued or
\* settled again, although CompleteJob and FailJob update by id alone.
SettledIsFinal ==
    [][\A j \in Jobs : job[j].status \in Settled
                           => job'[j].status = job[j].status]_vars

\* Every job that is enqueued is eventually done, failed or cancelled, across
\* crashes, retries and lease recoveries.
EveryJobSettles ==
    \A j \in Jobs : job[j].status = "pending" ~> job[j].status \in Settled

-----------------------------------------------------------------------------
(* Expected by comments in the code, and not so: README.md, "Known         *)
(* departures".                                                           *)

\* MaxJobAttempts "caps retries before a job is marked terminally failed".
AttemptsCapped == \A j \in Jobs : job[j].attempts <= MaxJobAttempts
=============================================================================
