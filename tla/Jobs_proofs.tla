-------------------------- MODULE Jobs_proofs --------------------------
(***************************************************************************)
(* Proofs about the specifications that MCJobs holds: JobQueue, for any    *)
(* set of jobs and workers, any attempt cap and any number of crashes, and *)
(* WebhookDelivery (Webhooks!), for any deliveries, batch size, retry      *)
(* schedule and number of restarts.                                        *)
(*                                                                         *)
(* CompleteJob and FailJob update a row by id, with no check that the      *)
(* caller still owns it, so neither OneRunnerPerJob nor SettledIsFinal is  *)
(* inductive.  What makes them true is ClaimsStand: while leases cover the *)
(* work, the row of every busy worker is running under a held lease and    *)
(* carries the attempt number that worker claimed, so no claim, sweep or   *)
(* cancellation can match it.                                              *)
(*                                                                         *)
(* A delivery worker lists rows first and claims each one later, when      *)
(* another worker may have it.  What keeps them apart, until a process is  *)
(* stopped, is Marked and OneHolder: a row a worker holds is in_flight and *)
(* so cannot be claimed again, and no two workers hold the same row.       *)
(***************************************************************************)
EXTENDS MCJobs, TLAPS

Busy(w) == worker[w].phase \in {"running", "failing"}

\* A busy worker's claim is still the one on its row.
ClaimsStand ==
    \A w \in Workers : Busy(w) =>
        /\ job[worker[w].job].status = "running"
        /\ job[worker[w].job].lease = "held"
        /\ job[worker[w].job].attempts = worker[w].attempts

\* FailJob's fresh read returned the attempt number of the claim.
ReadIsFresh ==
    \A w \in Workers :
        worker[w].phase = "failing" => worker[w].seen = worker[w].attempts

\* Busy workers hold different jobs.
ClaimsDistinct ==
    \A v, w \in Workers :
        Busy(v) /\ Busy(w) /\ worker[v].job = worker[w].job => v = w

Owned == ClaimsStand /\ ReadIsFresh /\ ClaimsDistinct /\ TerminalVerdictsAgree

IInv == TypeOK /\ Owned

-----------------------------------------------------------------------------
\* What the statements of jobs.go do to one row stays within its type.
LEMMA RowEdits ==
    ASSUME NEW r \in JobRow, NEW st \in Statuses, NEW ls \in Leases, NEW n \in Nat
    PROVE  /\ [r EXCEPT !.status = st] \in JobRow
           /\ [r EXCEPT !.lease = ls] \in JobRow
           /\ [r EXCEPT !.priority = n] \in JobRow
           /\ [r EXCEPT !.status = st, !.lease = ls] \in JobRow
           /\ [r EXCEPT !.status = st, !.created = n] \in JobRow
           /\ [r EXCEPT !.status = st, !.lease = ls, !.attempts = n] \in JobRow
<1> USE DEF JobRow
<1>1. [r EXCEPT !.status = st] \in JobRow
  OBVIOUS
<1>2. [r EXCEPT !.lease = ls] \in JobRow
  OBVIOUS
<1>3. [r EXCEPT !.priority = n] \in JobRow
  OBVIOUS
<1>4. [r EXCEPT !.status = st, !.lease = ls] \in JobRow
  OBVIOUS
<1>5. [r EXCEPT !.status = st, !.created = n] \in JobRow
  OBVIOUS
<1>6. [r EXCEPT !.status = st, !.lease = ls, !.attempts = n] \in JobRow
  OBVIOUS
<1> QED
  BY <1>1, <1>2, <1>3, <1>4, <1>5, <1>6

\* Whatever a worker forgets, claims or records leaves its memory well typed.
LEMMA MemoryEdits ==
    ASSUME NEW m \in WorkerState, NEW j \in Jobs, NEW n \in Nat, NEW b \in BOOLEAN
    PROVE  /\ Idle \in WorkerState
           /\ Idle.phase = "idle"
           /\ [Idle EXCEPT !.phase = "running", !.job = j, !.attempts = n] \in WorkerState
           /\ [m EXCEPT !.phase = "failing", !.seen = n, !.retryable = b] \in WorkerState
           /\ [m EXCEPT !.phase = "terminal"] \in WorkerState
<1> USE DEF WorkerState, Phases
<1>1. Idle \in WorkerState /\ Idle.phase = "idle"
  BY DEF Idle
<1>2. [Idle EXCEPT !.phase = "running", !.job = j, !.attempts = n] \in WorkerState
  BY DEF Idle
<1>3. [m EXCEPT !.phase = "failing", !.seen = n, !.retryable = b] \in WorkerState
  OBVIOUS
<1>4. [m EXCEPT !.phase = "terminal"] \in WorkerState
  OBVIOUS
<1> QED
  BY <1>1, <1>2, <1>3, <1>4

\* The same edits, field by field.
LEMMA MemoryFields ==
    ASSUME NEW m \in WorkerState, NEW j \in Jobs, NEW n \in Nat, NEW b \in BOOLEAN
    PROVE  /\ [Idle EXCEPT !.phase = "running", !.job = j, !.attempts = n].phase = "running"
           /\ [Idle EXCEPT !.phase = "running", !.job = j, !.attempts = n].job = j
           /\ [Idle EXCEPT !.phase = "running", !.job = j, !.attempts = n].attempts = n
           /\ [m EXCEPT !.phase = "failing", !.seen = n, !.retryable = b].phase = "failing"
           /\ [m EXCEPT !.phase = "failing", !.seen = n, !.retryable = b].job = m.job
           /\ [m EXCEPT !.phase = "failing", !.seen = n, !.retryable = b].attempts = m.attempts
           /\ [m EXCEPT !.phase = "failing", !.seen = n, !.retryable = b].seen = n
           /\ [m EXCEPT !.phase = "terminal"].phase = "terminal"
           /\ [m EXCEPT !.phase = "terminal"].job = m.job
<1>1. [Idle EXCEPT !.phase = "running", !.job = j, !.attempts = n].phase = "running"
  BY DEF Idle
<1>2. [Idle EXCEPT !.phase = "running", !.job = j, !.attempts = n].job = j
  BY DEF Idle
<1>3. [Idle EXCEPT !.phase = "running", !.job = j, !.attempts = n].attempts = n
  BY DEF Idle
<1>4. [m EXCEPT !.phase = "failing", !.seen = n, !.retryable = b].phase = "failing"
  BY DEF WorkerState
<1>5. [m EXCEPT !.phase = "failing", !.seen = n, !.retryable = b].job = m.job
  BY DEF WorkerState
<1>6. [m EXCEPT !.phase = "failing", !.seen = n, !.retryable = b].attempts = m.attempts
  BY DEF WorkerState
<1>7. [m EXCEPT !.phase = "failing", !.seen = n, !.retryable = b].seen = n
  BY DEF WorkerState
<1>8. [m EXCEPT !.phase = "terminal"].phase = "terminal"
  BY DEF WorkerState
<1>9. [m EXCEPT !.phase = "terminal"].job = m.job
  BY DEF WorkerState
<1> QED
  BY <1>1, <1>2, <1>3, <1>4, <1>5, <1>6, <1>7, <1>8, <1>9

\* A step that replaces one row by a row and one memory by a memory of the
\* same or no job keeps the whole state well typed.
LEMMA PointUpdate ==
    ASSUME TypeOK, NEW j \in Jobs, NEW w \in Workers,
           NEW r \in JobRow, NEW m \in WorkerState,
           m.phase # "idle" => m.job \in Jobs,
           job' = [job EXCEPT ![j] = r], worker' = [worker EXCEPT ![w] = m],
           created' = created, abandons' = abandons
    PROVE  TypeOK'
BY DEF TypeOK

\* Every action keeps the rows and the workers' memories well typed, whatever
\* the leases do.
LEMMA TypeOKStep == TypeOK /\ [Next]_vars => TypeOK'
<1> SUFFICES ASSUME TypeOK, [Next]_vars PROVE TypeOK'
  OBVIOUS
<1> USE ConstantsAssumption DEF TypeOK
<1>a. {"pending", "running", "done", "failed", "cancelled"} \subseteq Statuses
      /\ {"none", "held", "expired"} \subseteq Leases
  BY DEF Statuses, Leases
<1>b. \A j \in Jobs : job[j].attempts \in Nat /\ job[j].attempts + 1 \in Nat
  BY DEF JobRow
<1>1. ASSUME NEW j \in Jobs, EnqueueJob(j) PROVE TypeOK'
  <2> DEFINE n == created + 1
             r == [job[j] EXCEPT !.status = "pending", !.created = n]
  <2>1. n \in Nat
    OBVIOUS
  <2>2. /\ job' = [job EXCEPT ![j] = r] /\ created' = n
        /\ worker' = worker /\ abandons' = abandons
    BY <1>1 DEF EnqueueJob
  <2> HIDE DEF n
  <2>3. r \in JobRow
    BY <1>a, <2>1, RowEdits
  <2> HIDE DEF r
  <2> QED
    BY <2>1, <2>2, <2>3
<1>2. ASSUME NEW j \in Jobs, CancelJob(j) PROVE TypeOK'
  BY <1>2, <1>a, RowEdits DEF CancelJob
<1>3. ASSUME NEW n \in Notes, BumpNoteJobPriority(n) PROVE TypeOK'
  <2>1. PICK p \in 1..MaxPriority :
           job' = [j \in Jobs |->
                      IF j \in {k \in Pending : NoteOf[k] = n}
                      THEN [job[j] EXCEPT !.priority = p] ELSE job[j]]
    BY <1>3, Zenon DEF BumpNoteJobPriority
  <2>p. p \in Nat
    OBVIOUS
  <2>2. \A j \in Jobs : [job[j] EXCEPT !.priority = p] \in JobRow
    BY <1>a, <2>p, RowEdits
  <2>3. job' \in [Jobs -> JobRow]
    BY <2>1, <2>2
  <2> QED
    BY <1>3, <2>3 DEF BumpNoteJobPriority
<1>4. ASSUME NEW w \in Workers, NEW j \in Jobs, ClaimJob(w, j) PROVE TypeOK'
  <2> DEFINE n == job[j].attempts + 1
             r == [job[j] EXCEPT !.status = "running", !.lease = "held", !.attempts = n]
             m == [Idle EXCEPT !.phase = "running", !.job = j, !.attempts = n]
  <2>1. n \in Nat
    BY <1>b
  <2>2. /\ job' = [job EXCEPT ![j] = r] /\ worker' = [worker EXCEPT ![w] = m]
        /\ created' = created /\ abandons' = abandons
    BY <1>4 DEF ClaimJob
  <2> HIDE DEF n
  <2>3. r \in JobRow
    BY <1>a, <2>1, RowEdits
  <2>4. worker[w] \in WorkerState
    OBVIOUS
  <2>5. m \in WorkerState
    BY <2>1, <2>4, MemoryEdits
  <2>6. m.job = j
    BY <2>1, <2>4, MemoryFields
  <2> HIDE DEF r, m
  <2> QED
    BY <2>2, <2>3, <2>5, <2>6, PointUpdate
<1>5. ASSUME NEW w \in Workers, CompleteJob(w) PROVE TypeOK'
  <2> DEFINE j == worker[w].job
             r == [job[j] EXCEPT !.status = "done", !.lease = "none"]
  <2>1. j \in Jobs /\ Idle \in WorkerState /\ Idle.phase = "idle"
    BY <1>5, MemoryEdits DEF CompleteJob
  <2>2. r \in JobRow
    BY <1>a, <2>1, RowEdits
  <2>3. /\ job' = [job EXCEPT ![j] = r] /\ worker' = [worker EXCEPT ![w] = Idle]
        /\ created' = created /\ abandons' = abandons
    BY <1>5 DEF CompleteJob
  <2> HIDE DEF r, j
  <2> QED
    BY <2>1, <2>2, <2>3, PointUpdate
<1>6. ASSUME NEW w \in Workers, NEW r \in BOOLEAN, FailJobRead(w, r) PROVE TypeOK'
  <2> DEFINE n == job[worker[w].job].attempts
             m == [worker[w] EXCEPT !.phase = "failing", !.seen = n, !.retryable = r]
  <2>1. worker[w].job \in Jobs /\ n \in Nat
    BY <1>6, <1>b DEF FailJobRead
  <2>2. /\ worker' = [worker EXCEPT ![w] = m]
        /\ job' = job /\ created' = created /\ abandons' = abandons
    BY <1>6 DEF FailJobRead
  <2> HIDE DEF n
  <2>w. worker[w] \in WorkerState
    OBVIOUS
  <2>3. m \in WorkerState
    BY <2>1, <2>w, MemoryEdits
  <2>4. m.job = worker[w].job
    BY <2>1, <2>w, MemoryFields
  <2> HIDE DEF m
  <2> QED
    BY <2>1, <2>2, <2>3, <2>4
<1>7. ASSUME NEW w \in Workers, FailJobWrite(w) PROVE TypeOK'
  <2> DEFINE j == worker[w].job
             t == [worker[w] EXCEPT !.phase = "terminal"]
  <2>1. j \in Jobs /\ created' = created /\ abandons' = abandons
    BY <1>7 DEF FailJobWrite
  <2>2. PICK st \in Statuses, ls \in Leases :
           job' = [job EXCEPT ![j] = [job[j] EXCEPT !.status = st, !.lease = ls]]
    BY <1>7, <1>a DEF FailJobWrite
  <2> DEFINE r == [job[j] EXCEPT !.status = st, !.lease = ls]
  <2>3. r \in JobRow
    BY <2>1, RowEdits
  <2>4. PICK m \in {t, Idle} : worker' = [worker EXCEPT ![w] = m]
    BY <1>7 DEF FailJobWrite
  <2>5. t \in WorkerState /\ Idle \in WorkerState /\ Idle.phase = "idle"
    BY <2>1, MemoryEdits
  <2>6. t.job = j
    BY <2>1, MemoryFields
  <2> HIDE DEF r, j, t
  <2> QED
    BY <2>1, <2>2, <2>3, <2>4, <2>5, <2>6, PointUpdate DEF r
<1>8. ASSUME NEW w \in Workers, HandleTerminalFailure(w) PROVE TypeOK'
  <2>1. Idle \in WorkerState /\ Idle.phase = "idle"
    BY <1>8, MemoryEdits DEF HandleTerminalFailure
  <2> QED
    BY <1>8, <2>1 DEF HandleTerminalFailure
<1>9. ASSUME NEW w \in Workers, Abandon(w) PROVE TypeOK'
  <2>1. Idle \in WorkerState /\ Idle.phase = "idle"
    BY <1>9, MemoryEdits DEF Abandon
  <2> QED
    BY <1>9, <2>1 DEF Abandon
<1>10. ASSUME NEW j \in Jobs, LeaseExpires(j) PROVE TypeOK'
  BY <1>10, <1>a, RowEdits DEF LeaseExpires
<1>11. CASE ResetExpiredRunningJobs
  BY <1>11, <1>a, RowEdits DEF ResetExpiredRunningJobs
<1>12. CASE UNCHANGED vars
  BY <1>12 DEF vars
<1> QED
  BY <1>1, <1>2, <1>3, <1>4, <1>5, <1>6, <1>7, <1>8, <1>9, <1>10, <1>11, <1>12
  DEF Next, WorkerStep

\* The initial state is well typed.
LEMMA TypeOKInit == Init => TypeOK
<1> SUFFICES ASSUME Init PROVE TypeOK
  OBVIOUS
<1>1. Idle \in WorkerState /\ Idle.phase = "idle"
  BY DEF Idle, WorkerState, Phases
<1>2. job \in [Jobs -> JobRow]
  BY DEF Init, JobRow, Statuses, Leases
<1> QED
  BY <1>1, <1>2, ConstantsAssumption DEF Init, TypeOK

\* Type correctness, with or without leases that cover the work: no step of
\* the queue, its workers or its sweeps leaves a busy worker without a job
\* or a row outside the statuses of the jobs table.
THEOREM TypeCorrect == Spec => []TypeOK
<1> QED
  BY TypeOKInit, TypeOKStep, PTL DEF Spec

-----------------------------------------------------------------------------
(* Ownership of a claimed row.                                             *)

\* A step of one worker keeps every claim standing if it leaves the rows of
\* the other workers alone and its own new claim, if any, is a proper one.
LEMMA WorkerMoves ==
    ASSUME Owned, NEW w \in Workers,
           \A v \in Workers : v # w => worker'[v] = worker[v],
           \A v \in Workers : v # w /\ worker[v].phase \in {"running", "failing", "terminal"}
               => job'[worker[v].job] = job[worker[v].job],
           Busy(w)' => /\ job'[worker'[w].job].status = "running"
                       /\ job'[worker'[w].job].lease = "held"
                       /\ job'[worker'[w].job].attempts = worker'[w].attempts,
           Busy(w)' => \A v \in Workers :
                          v # w /\ Busy(v) => worker[v].job # worker'[w].job,
           worker'[w].phase = "failing" => worker'[w].seen = worker'[w].attempts,
           worker'[w].phase = "terminal" => job'[worker'[w].job].status = "failed"
    PROVE  Owned'
<1> USE DEF Owned, Busy
<1>1. ClaimsStand'
  BY DEF ClaimsStand
<1>2. ReadIsFresh'
  BY DEF ReadIsFresh
<1>3. ClaimsDistinct'
  BY DEF ClaimsDistinct
<1>4. TerminalVerdictsAgree'
  BY DEF TerminalVerdictsAgree
<1> QED
  BY <1>1, <1>2, <1>3, <1>4

\* A step of the API, the clock or a sweep keeps every claim standing if it
\* spares the rows that are running under a held lease and the failed ones.
LEMMA RowsMove ==
    ASSUME TypeOK, Owned, worker' = worker,
           \A j \in Jobs : job[j].status = "running" /\ job[j].lease = "held"
               /\ (\E w \in Workers : Busy(w) /\ worker[w].job = j) => job'[j] = job[j],
           \A j \in Jobs : job[j].status = "failed" => job'[j] = job[j]
    PROVE  Owned'
<1> USE DEF Owned, Busy
<1>0. \A w \in Workers : worker[w].phase # "idle" => worker[w].job \in Jobs
  BY DEF TypeOK
<1>1. ClaimsStand'
  BY <1>0 DEF ClaimsStand
<1>2. ReadIsFresh'
  BY DEF ReadIsFresh
<1>3. ClaimsDistinct'
  BY DEF ClaimsDistinct
<1>4. TerminalVerdictsAgree'
  BY <1>0 DEF TerminalVerdictsAgree
<1> QED
  BY <1>1, <1>2, <1>3, <1>4

\* The three writes to a row that matter here, field by field.
LEMMA RowFields ==
    ASSUME NEW r \in JobRow, NEW st \in Statuses, NEW ls \in Leases, NEW n \in Nat
    PROVE  /\ [r EXCEPT !.status = st, !.lease = ls].status = st
           /\ [r EXCEPT !.status = st, !.lease = ls, !.attempts = n].status = st
           /\ [r EXCEPT !.status = st, !.lease = ls, !.attempts = n].lease = ls
           /\ [r EXCEPT !.status = st, !.lease = ls, !.attempts = n].attempts = n
<1> USE DEF JobRow
<1>1. [r EXCEPT !.status = st, !.lease = ls].status = st
  OBVIOUS
<1>2. [r EXCEPT !.status = st, !.lease = ls, !.attempts = n].status = st
  OBVIOUS
<1>3. [r EXCEPT !.status = st, !.lease = ls, !.attempts = n].lease = ls
  OBVIOUS
<1>4. [r EXCEPT !.status = st, !.lease = ls, !.attempts = n].attempts = n
  OBVIOUS
<1> QED
  BY <1>1, <1>2, <1>3, <1>4

\* No other worker is busy with, or about to report the failure of, the job
\* of a busy worker or a job that could be claimed.
LEMMA RowIsFree ==
    ASSUME TypeOK, Owned, NEW w \in Workers, NEW j \in Jobs,
           Claimable(j) \/ (Busy(w) /\ worker[w].job = j)
    PROVE  \A v \in Workers :
               v # w /\ worker[v].phase \in {"running", "failing", "terminal"}
                   => worker[v].job # j
BY DEF Owned, Busy, ClaimsStand, ClaimsDistinct, TerminalVerdictsAgree, Claimable

LEMMA OwnedStep ==
    ASSUME LeaseCoversWork, TypeOK, Owned, [Next]_vars
    PROVE  Owned'
<1> USE ConstantsAssumption
<1>t. /\ job \in [Jobs -> JobRow] /\ worker \in [Workers -> WorkerState]
      /\ \A w \in Workers : worker[w].phase # "idle" => worker[w].job \in Jobs
      /\ \A w \in Workers : worker[w] \in WorkerState
      /\ \A j \in Jobs : job[j] \in JobRow
  BY DEF TypeOK
<1>a. {"pending", "running", "done", "failed", "cancelled"} \subseteq Statuses
      /\ {"none", "held", "expired"} \subseteq Leases
  BY DEF Statuses, Leases
<1>1. ASSUME NEW j \in Jobs, EnqueueJob(j) PROVE Owned'
  <2>1. worker' = worker /\ job[j].status = "absent"
        /\ \A k \in Jobs : k # j => job'[k] = job[k]
    BY <1>1, <1>t DEF EnqueueJob
  <2> QED
    BY <2>1, RowsMove
<1>2. ASSUME NEW j \in Jobs, CancelJob(j) PROVE Owned'
  <2>1. worker' = worker /\ job[j].status = "pending"
        /\ \A k \in Jobs : k # j => job'[k] = job[k]
    BY <1>2, <1>t DEF CancelJob
  <2> QED
    BY <2>1, RowsMove
<1>3. ASSUME NEW n \in Notes, BumpNoteJobPriority(n) PROVE Owned'
  <2>1. \A k \in Jobs : job[k].status # "pending" => job'[k] = job[k]
    BY <1>3, <1>t DEF BumpNoteJobPriority, Pending
  <2>2. worker' = worker
    BY <1>3 DEF BumpNoteJobPriority
  <2> QED
    BY <2>1, <2>2, RowsMove
<1>4. ASSUME NEW w \in Workers, NEW j \in Jobs, ClaimJob(w, j) PROVE Owned'
  <2> DEFINE n == job[j].attempts + 1
             r == [job[j] EXCEPT !.status = "running", !.lease = "held", !.attempts = n]
             m == [Idle EXCEPT !.phase = "running", !.job = j, !.attempts = n]
  <2>1. n \in Nat
    BY <1>t DEF JobRow
  <2>2. job' = [job EXCEPT ![j] = r] /\ worker' = [worker EXCEPT ![w] = m]
    BY <1>4 DEF ClaimJob
  <2>3. Claimable(j)
    BY <1>4 DEF ClaimJob
  <2> HIDE DEF n
  <2>4. r.status = "running" /\ r.lease = "held" /\ r.attempts = n
    BY <1>t, <1>a, <2>1, RowFields
  <2>5. m.phase = "running" /\ m.job = j /\ m.attempts = n
    BY <1>t, <2>1, MemoryFields
  <2> HIDE DEF r, m
  <2>6. job'[j] = r /\ worker'[w] = m
        /\ (\A k \in Jobs : k # j => job'[k] = job[k])
        /\ (\A v \in Workers : v # w => worker'[v] = worker[v])
    BY <1>t, <2>2
  <2>7. \A v \in Workers :
            v # w /\ worker[v].phase \in {"running", "failing", "terminal"}
                => worker[v].job # j /\ worker[v].job \in Jobs
    BY <1>t, <2>3, RowIsFree
  <2> QED
    BY <2>4, <2>5, <2>6, <2>7, WorkerMoves DEF Busy
<1>5. ASSUME NEW w \in Workers, CompleteJob(w) PROVE Owned'
  <2> DEFINE j == worker[w].job
  <2>1. Busy(w) /\ j \in Jobs
    BY <1>5, <1>t DEF CompleteJob, Busy
  <2>2. (\A k \in Jobs : k # j => job'[k] = job[k])
        /\ (\A v \in Workers : v # w => worker'[v] = worker[v])
        /\ worker'[w] = Idle
    BY <1>5, <1>t DEF CompleteJob
  <2>3. Idle.phase = "idle"
    BY DEF Idle
  <2>4. \A v \in Workers :
            v # w /\ worker[v].phase \in {"running", "failing", "terminal"}
                => worker[v].job # j /\ worker[v].job \in Jobs
    BY <1>t, <2>1, RowIsFree
  <2> QED
    BY <2>2, <2>3, <2>4, WorkerMoves DEF Busy
<1>6. ASSUME NEW w \in Workers, NEW b \in BOOLEAN, FailJobRead(w, b) PROVE Owned'
  <2> DEFINE j == worker[w].job
             n == job[j].attempts
             m == [worker[w] EXCEPT !.phase = "failing", !.seen = n, !.retryable = b]
  <2>1. j \in Jobs /\ Busy(w)
    BY <1>6, <1>t DEF FailJobRead, Busy
  <2>2. n \in Nat
    BY <2>1, <1>t DEF JobRow
  <2>3. worker' = [worker EXCEPT ![w] = m] /\ job' = job
    BY <1>6 DEF FailJobRead
  <2>4. job[j].status = "running" /\ job[j].lease = "held" /\ n = worker[w].attempts
    BY <2>1 DEF Owned, ClaimsStand
  <2>5. \A v \in Workers :
            v # w /\ worker[v].phase \in {"running", "failing", "terminal"}
                => worker[v].job # j
    BY <1>t, <2>1, RowIsFree
  <2> HIDE DEF n
  <2>6. m.phase = "failing" /\ m.job = j /\ m.attempts = worker[w].attempts /\ m.seen = n
    BY <1>t, <2>1, <2>2, MemoryFields
  <2> HIDE DEF m
  <2>7. worker'[w] = m /\ (\A v \in Workers : v # w => worker'[v] = worker[v])
    BY <1>t, <2>3
  <2> QED
    BY <2>3, <2>4, <2>5, <2>6, <2>7, WorkerMoves DEF Busy, n
<1>7. ASSUME NEW w \in Workers, FailJobWrite(w) PROVE Owned'
  <2> DEFINE j == worker[w].job
             t == [worker[w] EXCEPT !.phase = "terminal"]
             f == [job[j] EXCEPT !.status = "failed", !.lease = "none"]
  <2>1. Busy(w) /\ j \in Jobs /\ worker[w].seen = worker[w].attempts
    BY <1>7, <1>t DEF FailJobWrite, Busy, Owned, ReadIsFresh
  <2>2. worker[w].seen \in Nat /\ worker[w].attempts \in Nat
    BY <1>t DEF WorkerState
  <2>3. (\A k \in Jobs : k # j => job'[k] = job[k])
        /\ (\A v \in Workers : v # w => worker'[v] = worker[v])
    BY <1>7, <1>t DEF FailJobWrite
  <2>4. worker'[w] = t \/ worker'[w] = Idle
    BY <1>7, <1>t DEF FailJobWrite
  <2>5. worker'[w] # Idle => ~worker[w].retryable \/ worker[w].attempts >= MaxJobAttempts
    BY <1>7, <1>t DEF FailJobWrite
  <2>6. ~(worker[w].retryable /\ worker[w].seen < MaxJobAttempts) => job'[j] = f
    BY <1>7, <1>t, <2>1 DEF FailJobWrite
  <2>7. worker'[w] # Idle => job'[j] = f
    BY <2>1, <2>2, <2>5, <2>6
  <2>8. f.status = "failed"
    BY <1>t, <1>a, <2>1, RowFields
  <2>9. t.phase = "terminal" /\ t.job = j
    BY <1>t, <2>1, <2>2, MemoryFields
  <2>10. Idle.phase = "idle"
    BY DEF Idle
  <2>11. \A v \in Workers :
            v # w /\ worker[v].phase \in {"running", "failing", "terminal"}
                => worker[v].job # j /\ worker[v].job \in Jobs
    BY <1>t, <2>1, RowIsFree
  <2> HIDE DEF t, f
  <2> QED
    BY <2>3, <2>4, <2>7, <2>8, <2>9, <2>10, <2>11, WorkerMoves DEF Busy
<1>8. ASSUME NEW w \in Workers, HandleTerminalFailure(w) \/ Abandon(w) PROVE Owned'
  <2>1. (\A v \in Workers : v # w => worker'[v] = worker[v])
        /\ worker'[w] = Idle /\ job' = job
    BY <1>8, <1>t DEF HandleTerminalFailure, Abandon
  <2>2. Idle.phase = "idle"
    BY DEF Idle
  <2> QED
    BY <2>1, <2>2, WorkerMoves DEF Busy
<1>9. ASSUME NEW j \in Jobs, LeaseExpires(j) PROVE Owned'
  <2>1. worker' = worker /\ \A k \in Jobs : k # j => job'[k] = job[k]
    BY <1>9, <1>t DEF LeaseExpires
  <2>2. job[j].status = "running" => \A w \in Workers : ~(Busy(w) /\ worker[w].job = j)
    BY <1>9 DEF LeaseExpires, Working, Busy
  <2>3. job[j].status # "failed"
    BY <1>9 DEF LeaseExpires
  <2> QED
    BY <2>1, <2>2, <2>3, RowsMove
<1>10. CASE ResetExpiredRunningJobs
  <2>1. \A k \in Jobs : ~(job[k].status = "running" /\ job[k].lease = "expired")
                            => job'[k] = job[k]
    BY <1>10, <1>t DEF ResetExpiredRunningJobs
  <2>2. worker' = worker
    BY <1>10 DEF ResetExpiredRunningJobs
  <2> QED
    BY <2>1, <2>2, RowsMove
<1>11. CASE UNCHANGED vars
  BY <1>11 DEF vars, Owned, Busy, ClaimsStand, ReadIsFresh, ClaimsDistinct,
               TerminalVerdictsAgree
<1> QED
  BY <1>1, <1>2, <1>3, <1>4, <1>5, <1>6, <1>7, <1>8, <1>9, <1>10, <1>11
  DEF Next, WorkerStep

\* Nothing is claimed initially.
LEMMA OwnedInit == Init => Owned
<1>1. Idle.phase = "idle"
  BY DEF Idle
<1> QED
  BY <1>1 DEF Init, Owned, Busy, ClaimsStand, ReadIsFresh, ClaimsDistinct,
              TerminalVerdictsAgree

\* While leases cover the work, a busy worker's claim is never taken from
\* its row by another claim, a sweep or a cancellation.
THEOREM OwnershipHolds == LeaseCoversWork /\ Spec => []IInv
<1> SUFFICES ASSUME LeaseCoversWork PROVE Spec => []IInv
  OBVIOUS
<1>1. Init => IInv
  BY TypeOKInit, OwnedInit DEF IInv
<1>2. IInv /\ [Next]_vars => IInv'
  BY TypeOKStep, OwnedStep DEF IInv
<1> QED
  BY <1>1, <1>2, PTL DEF Spec

\* No two workers ever process one job at the same time.
THEOREM RunnersAreUnique == LeaseCoversWork /\ Spec => []OneRunnerPerJob
<1>1. IInv => OneRunnerPerJob
  BY DEF IInv, Owned, ClaimsDistinct, OneRunnerPerJob, Working, Busy
<1> QED
  BY <1>1, OwnershipHolds, PTL

\* The note-level effects of a terminal failure are only ever applied for a
\* job whose row is failed for good.
THEOREM VerdictsAgree == LeaseCoversWork /\ Spec => []TerminalVerdictsAgree
<1>1. IInv => TerminalVerdictsAgree
  BY DEF IInv, Owned
<1> QED
  BY <1>1, OwnershipHolds, PTL

\* Only a busy worker's own row is settled, and that row is running.
LEMMA SettledStep ==
    ASSUME IInv, [Next]_vars, NEW j \in Jobs, job[j].status \in Settled
    PROVE  job'[j].status = job[j].status
<1> USE DEF Settled
<1>t. /\ job \in [Jobs -> JobRow]
      /\ \A w \in Workers : worker[w].phase # "idle" => worker[w].job \in Jobs
  BY DEF IInv, TypeOK
<1>b. \A w \in Workers : Busy(w) => worker[w].job # j
  BY DEF IInv, Owned, ClaimsStand
<1>1. ASSUME NEW k \in Jobs, EnqueueJob(k) \/ CancelJob(k) \/ LeaseExpires(k)
      PROVE  job'[j] = job[j]
  BY <1>1, <1>t DEF EnqueueJob, CancelJob, LeaseExpires
<1>2. ASSUME NEW n \in Notes, BumpNoteJobPriority(n) PROVE job'[j] = job[j]
  BY <1>2, <1>t DEF BumpNoteJobPriority, Pending
<1>3. ASSUME NEW w \in Workers, NEW k \in Jobs, ClaimJob(w, k) PROVE job'[j] = job[j]
  BY <1>3, <1>t DEF ClaimJob, Claimable
<1>4. ASSUME NEW w \in Workers, CompleteJob(w) \/ FailJobWrite(w) PROVE job'[j] = job[j]
  BY <1>4, <1>t, <1>b DEF CompleteJob, FailJobWrite, Busy
<1>5. ASSUME NEW w \in Workers, NEW b \in BOOLEAN, FailJobRead(w, b) PROVE job'[j] = job[j]
  BY <1>5 DEF FailJobRead
<1>6. ASSUME NEW w \in Workers, HandleTerminalFailure(w) \/ Abandon(w) PROVE job'[j] = job[j]
  BY <1>6 DEF HandleTerminalFailure, Abandon
<1>7. CASE ResetExpiredRunningJobs
  BY <1>7, <1>t DEF ResetExpiredRunningJobs
<1>8. CASE UNCHANGED vars
  BY <1>8 DEF vars
<1> QED
  BY <1>1, <1>2, <1>3, <1>4, <1>5, <1>6, <1>7, <1>8 DEF Next, WorkerStep

\* A done, failed or cancelled job is never settled a second time, although
\* CompleteJob and FailJob match the row by id alone.
THEOREM SettlingIsFinal == LeaseCoversWork /\ Spec => SettledIsFinal
<1> DEFINE Final == \A j \in Jobs : job[j].status \in Settled
                                       => job'[j].status = job[j].status
<1>1. IInv /\ [Next]_vars => [Final]_vars
  BY SettledStep
<1>2. Spec => [][Next]_vars
  BY PTL DEF Spec
<1> QED
  BY <1>1, <1>2, OwnershipHolds, PTL DEF SettledIsFinal

-----------------------------------------------------------------------------
(* Webhook deliveries (module WebhookDelivery).                            *)

\* A delivery in hand is marked in the table, until a process is restarted.
Marked ==
    \A p \in Processes, d \in Deliveries :
        Webhooks!Holds(p, d) => delivery[d].status = "in_flight"
OneHolder ==
    \A p, q \in Processes, d \in Deliveries :
        Webhooks!Holds(p, d) /\ Webhooks!Holds(q, d) => p = q

DispatchInv ==
    /\ Webhooks!TypeOK
    /\ \A p \in Processes : sender[p].pc = "down" => stops > 0
    /\ stops = 0 => Marked /\ OneHolder

\* A worker that goes on with r.
LEMMA HookWorker ==
    ASSUME Webhooks!TypeOK, NEW p \in Processes, NEW r \in Webhooks!Worker,
           r.pc \in Webhooks!Busy => r.batch # {},
           sender' = [sender EXCEPT ![p] = r],
           delivery' \in [Deliveries -> Webhooks!Row],
           stops' \in 0..MaxStops, lost' \in 0..MaxLost, retries' \in 0..MaxRetries
    PROVE Webhooks!TypeOK'
<1>1. sender \in [Processes -> Webhooks!Worker]  BY DEF Webhooks!TypeOK
<1>2. sender' \in [Processes -> Webhooks!Worker]  BY <1>1
<1>3. \A q \in Processes : sender'[q].pc \in Webhooks!Busy => sender'[q].batch # {}
  BY <1>1 DEF Webhooks!TypeOK
<1> QED  BY <1>2, <1>3 DEF Webhooks!TypeOK

\* What is left of a batch is one.
LEMMA HookNextRow ==
    ASSUME Webhooks!TypeOK, NEW p \in Processes
    PROVE /\ Webhooks!NextRow(p) \in Webhooks!Worker
          /\ Webhooks!NextRow(p).pc = "claim"
          /\ Webhooks!NextRow(p).pc \notin Webhooks!Busy
<1>1. sender[p].batch \in SUBSET Webhooks!Listed  BY DEF Webhooks!TypeOK, Webhooks!Worker
<1>2. PICK b : b = sender[p].batch \ {Webhooks!Current(p)}  OBVIOUS
<1>3. b \in SUBSET Webhooks!Listed  BY <1>1, <1>2
<1>4. Webhooks!NextRow(p) = [pc |-> "claim", batch |-> b]  BY <1>2 DEF Webhooks!NextRow
<1> QED  BY <1>3, <1>4 DEF Webhooks!Worker, Webhooks!Busy

\* A poll lists some of the deliveries.
LEMMA HookLists ==
    ASSUME NEW p \in Processes, Webhooks!ListPendingDeliveries(p)
    PROVE \E first \in SUBSET Deliveries :
             sender' = [sender EXCEPT ![p] = [@ EXCEPT !.pc = "claim",
                          !.batch = {[id |-> d, attempts |-> delivery[d].attempts] : d \in first}]]
<1>1. PICK first : /\ first = {d \in Webhooks!Due : Webhooks!Cardinality({e \in Webhooks!Due : e < d}) < BatchLimit}
                   /\ sender' = [sender EXCEPT ![p] = [@ EXCEPT !.pc = "claim",
                          !.batch = {[id |-> d, attempts |-> delivery[d].attempts] : d \in first}]]
  BY Zenon DEF Webhooks!ListPendingDeliveries
<1>2. first \in SUBSET Deliveries  BY <1>1, Zenon DEF Webhooks!Due
<1> QED  BY <1>1, <1>2, Zenon

\* The table and the workers keep their types.
LEMMA HookTypes ==
    ASSUME Webhooks!TypeOK, [Webhooks!Next]_(Webhooks!vars) PROVE Webhooks!TypeOK'
<1> USE BoundsAssumption
<1>a. delivery \in [Deliveries -> Webhooks!Row] /\ sender \in [Processes -> Webhooks!Worker]
      /\ stops \in 0..MaxStops /\ lost \in 0..MaxLost /\ retries \in 0..MaxRetries
  BY DEF Webhooks!TypeOK
<1>b. \A d \in Deliveries : delivery[d] \in Webhooks!Row  BY <1>a
<1>c. /\ {"pending", "in_flight", "delivered", "failed"} \subseteq Webhooks!Statuses
      /\ Webhooks!Polling \in Webhooks!Worker /\ Webhooks!Polling.pc \notin Webhooks!Busy
      /\ [Webhooks!Polling EXCEPT !.pc = "down"] \in Webhooks!Worker
      /\ [Webhooks!Polling EXCEPT !.pc = "down"].pc \notin Webhooks!Busy
  BY DEF Webhooks!Statuses, Webhooks!Polling, Webhooks!Worker, Webhooks!Busy
<1>d. ASSUME NEW d, NEW st \in Webhooks!Statuses, delivery' = [delivery EXCEPT ![d].status = st]
      PROVE delivery' \in [Deliveries -> Webhooks!Row]
  BY <1>a, <1>b, <1>d DEF Webhooks!Row
<1>1. ASSUME NEW d \in Deliveries, Webhooks!CreateDelivery(d) PROVE Webhooks!TypeOK'
  BY <1>1, <1>c, <1>d DEF Webhooks!CreateDelivery, Webhooks!TypeOK
<1>2. ASSUME NEW d \in Deliveries, Webhooks!RetryDelivery(d) PROVE Webhooks!TypeOK'
  <2>1. delivery' \in [Deliveries -> Webhooks!Row]
    BY <1>2, <1>a, <1>c DEF Webhooks!RetryDelivery, Webhooks!Row
  <2> QED  BY <1>2, <1>a, <2>1 DEF Webhooks!RetryDelivery, Webhooks!TypeOK
<1>3. ASSUME NEW d \in Deliveries, Webhooks!BackoffElapses(d) PROVE Webhooks!TypeOK'
  <2>1. delivery' \in [Deliveries -> Webhooks!Row]
    BY <1>3, <1>a, <1>b DEF Webhooks!BackoffElapses, Webhooks!Row
  <2> QED  BY <1>3, <2>1 DEF Webhooks!BackoffElapses, Webhooks!TypeOK
<1>4. ASSUME NEW p \in Processes, Webhooks!ListPendingDeliveries(p) PROVE Webhooks!TypeOK'
  <2>1. PICK first \in SUBSET Deliveries :
          sender' = [sender EXCEPT ![p] = [@ EXCEPT !.pc = "claim",
                       !.batch = {[id |-> d, attempts |-> delivery[d].attempts] : d \in first}]]
    BY <1>4, HookLists
  <2>2. PICK b : b = {[id |-> d, attempts |-> delivery[d].attempts] : d \in first}  OBVIOUS
  <2>3. b \in SUBSET Webhooks!Listed  BY <1>b, <2>2 DEF Webhooks!Listed, Webhooks!Row
  <2>4. sender' = [sender EXCEPT ![p] = [sender[p] EXCEPT !.pc = "claim", !.batch = b]]  BY <2>1, <2>2
  <2>5. /\ [sender[p] EXCEPT !.pc = "claim", !.batch = b] \in Webhooks!Worker
        /\ [sender[p] EXCEPT !.pc = "claim", !.batch = b].pc \notin Webhooks!Busy
    BY <1>a, <2>3 DEF Webhooks!Worker, Webhooks!Busy
  <2>6. UNCHANGED <<delivery, stops, lost, retries>>  BY <1>4, Zenon DEF Webhooks!ListPendingDeliveries
  <2> QED  BY <1>a, <2>4, <2>5, <2>6, HookWorker
<1>5. ASSUME NEW p \in Processes, Webhooks!ClaimDelivery(p) PROVE Webhooks!TypeOK'
  <2>1. PICK d : d = Webhooks!Current(p).id  OBVIOUS
  <2>2. CASE delivery[d].status = "pending"
    <3>1. delivery' = [delivery EXCEPT ![d].status = "in_flight"]
      BY <1>5, <2>1, <2>2 DEF Webhooks!ClaimDelivery
    <3>2. sender' = [sender EXCEPT ![p] = [sender[p] EXCEPT !.pc = "post"]]
          /\ sender[p].batch # {} /\ UNCHANGED <<stops, lost, retries>>
      BY <1>5, <2>1, <2>2 DEF Webhooks!ClaimDelivery
    <3>3. [sender[p] EXCEPT !.pc = "post"] \in Webhooks!Worker /\ [sender[p] EXCEPT !.pc = "post"].batch # {}
      BY <1>a, <3>2 DEF Webhooks!Worker
    <3>4. delivery' \in [Deliveries -> Webhooks!Row]  BY <1>c, <1>d, <3>1
    <3> QED  BY <1>a, <3>2, <3>3, <3>4, HookWorker
  <2>3. CASE delivery[d].status # "pending"
    <3>1. delivery' = [delivery EXCEPT ![d].status = delivery[d].status]
      BY <1>5, <2>1, <2>3 DEF Webhooks!ClaimDelivery
    <3>2. delivery' \in [Deliveries -> Webhooks!Row]  BY <1>a, <1>b, <3>1 DEF Webhooks!Row
    <3>3. sender' = [sender EXCEPT ![p] = Webhooks!NextRow(p)] /\ UNCHANGED <<stops, lost, retries>>
      BY <1>5, <2>1, <2>3 DEF Webhooks!ClaimDelivery
    <3> QED  BY <1>a, <3>2, <3>3, HookNextRow, HookWorker
  <2> QED  BY <2>2, <2>3
<1>6. ASSUME NEW p \in Processes, Webhooks!BatchDone(p) PROVE Webhooks!TypeOK'
  BY <1>6, <1>a, <1>c, HookWorker DEF Webhooks!BatchDone
<1>7. ASSUME NEW p \in Processes, Webhooks!Dispatch(p) PROVE Webhooks!TypeOK'
  <2>1. PICK pc \in {"sent", "fail", "give-up"} : sender' = [sender EXCEPT ![p].pc = pc]
    BY <1>7 DEF Webhooks!Dispatch
  <2>2. sender' = [sender EXCEPT ![p] = [sender[p] EXCEPT !.pc = pc]]  BY <1>a, <2>1
  <2>3. sender[p].batch # {}  BY <1>7 DEF Webhooks!Dispatch, Webhooks!TypeOK, Webhooks!Busy
  <2>4. [sender[p] EXCEPT !.pc = pc] \in Webhooks!Worker /\ [sender[p] EXCEPT !.pc = pc].batch # {}
    BY <1>a, <2>3 DEF Webhooks!Worker
  <2> QED  BY <1>7, <1>a, <2>2, <2>4, HookWorker DEF Webhooks!Dispatch
<1>8. ASSUME NEW p \in Processes, Webhooks!MarkDelivered(p) PROVE Webhooks!TypeOK'
  BY <1>8, <1>a, <1>c, <1>d, HookNextRow, HookWorker DEF Webhooks!MarkDelivered
<1>9. ASSUME NEW p \in Processes, Webhooks!MarkFailed(p) PROVE Webhooks!TypeOK'
  <2>1. PICK d : d = Webhooks!Current(p).id  OBVIOUS
  <2>2. PICK st \in {"pending", "failed"}, due \in BOOLEAN :
          delivery' = [delivery EXCEPT ![d] = [status |-> st, attempts |-> @.attempts + 1, due |-> due]]
    BY <1>9, <2>1 DEF Webhooks!MarkFailed
  <2>3. ASSUME d \in Deliveries
        PROVE [status |-> st, attempts |-> delivery[d].attempts + 1, due |-> due] \in Webhooks!Row
    <3>1. st \in Webhooks!Statuses  BY <1>c
    <3>2. delivery[d].attempts + 1 \in Nat  BY <1>b, <2>3 DEF Webhooks!Row
    <3> QED  BY <3>1, <3>2 DEF Webhooks!Row
  <2>4. PICK r : r = [status |-> st, attempts |-> delivery[d].attempts + 1, due |-> due]  OBVIOUS
  <2>5. delivery' = [delivery EXCEPT ![d] = r] /\ (d \in Deliveries => r \in Webhooks!Row)  BY <2>2, <2>3, <2>4
  <2>6. delivery' \in [Deliveries -> Webhooks!Row]  BY <1>a, <2>5
  <2> QED  BY <1>9, <1>a, <2>6, HookNextRow, HookWorker DEF Webhooks!MarkFailed
<1>10. ASSUME NEW p \in Processes, Webhooks!SettleFails(p) PROVE Webhooks!TypeOK'
  <2>1. lost' \in 0..MaxLost  BY <1>10, <1>a DEF Webhooks!SettleFails
  <2> QED  BY <1>10, <1>a, <2>1, HookNextRow, HookWorker DEF Webhooks!SettleFails
<1>11. ASSUME NEW p \in Processes, Webhooks!Stop(p) PROVE Webhooks!TypeOK'
  <2>1. stops' \in 0..MaxStops  BY <1>11, <1>a DEF Webhooks!Stop
  <2>2. PICK r \in Webhooks!Worker : r = [Webhooks!Polling EXCEPT !.pc = "down"]  BY <1>c
  <2>3. r.pc \notin Webhooks!Busy  BY <1>c, <2>2
  <2>4. sender' = [sender EXCEPT ![p] = r] /\ UNCHANGED <<delivery, lost, retries>>  BY <1>11, <2>2 DEF Webhooks!Stop
  <2> QED  BY <1>a, <2>1, <2>3, <2>4, HookWorker
<1>12. ASSUME NEW p \in Processes, Webhooks!Run(p) PROVE Webhooks!TypeOK'
  <2>1. delivery' \in [Deliveries -> Webhooks!Row]  BY <1>12, <1>a, <1>b, <1>c DEF Webhooks!Run, Webhooks!Row
  <2> QED  BY <1>12, <1>a, <1>c, <2>1, HookWorker DEF Webhooks!Run
<1>13. ASSUME NEW p \in Processes, Webhooks!ResetFails(p) PROVE Webhooks!TypeOK'
  <2>1. lost' \in 0..MaxLost  BY <1>13, <1>a DEF Webhooks!ResetFails
  <2> QED  BY <1>13, <1>a, <1>c, <2>1, HookWorker DEF Webhooks!ResetFails
<1>14. CASE UNCHANGED Webhooks!vars
  BY <1>14 DEF Webhooks!vars, Webhooks!TypeOK
<1> QED
  BY <1>1, <1>2, <1>3, <1>4, <1>5, <1>6, <1>7, <1>8, <1>9, <1>10, <1>11, <1>12, <1>13, <1>14
  DEF Webhooks!Next, Webhooks!WorkerStep

\* A worker that holds nothing afterwards, and a table that keeps the mark of
\* every delivery that others hold.
LEMMA HookLets ==
    ASSUME DispatchInv, Webhooks!TypeOK', NEW p \in Processes, NEW r, r.pc \notin Webhooks!Busy,
           sender' = [sender EXCEPT ![p] = r], r.pc # "down", stops' = stops,
           stops = 0 =>
             \A q \in Processes, d \in Deliveries :
                 q # p /\ Webhooks!Holds(q, d) => delivery'[d].status = "in_flight"
    PROVE DispatchInv'
<1>1. sender'[p] = r /\ \A q \in Processes : q # p => sender'[q] = sender[q]
  BY DEF DispatchInv, Webhooks!TypeOK
<1>2. \A q \in Processes, d \in Deliveries :
         Webhooks!Holds(q, d)' => q # p /\ Webhooks!Holds(q, d)
  BY <1>1 DEF Webhooks!Holds, Webhooks!Current
<1>4. \A q \in Processes : sender'[q].pc = "down" => stops' > 0
  BY <1>1 DEF DispatchInv
<1>5. ASSUME stops' = 0 PROVE Marked' /\ OneHolder'
  <2>1. stops = 0  BY <1>5
  <2>2. Marked'  BY <1>2, <1>5 DEF Marked
  <2>3. OneHolder'  BY <1>2, <2>1 DEF OneHolder, DispatchInv
  <2> QED  BY <2>2, <2>3
<1> QED  BY <1>4, <1>5 DEF DispatchInv

\* Once a process has died nothing is promised.
LEMMA HookDies == ASSUME Webhooks!TypeOK', stops' > 0 PROVE DispatchInv'
<1>1. stops' # 0  BY BoundsAssumption DEF Webhooks!TypeOK
<1> QED  BY <1>1 DEF DispatchInv

\* No worker moves, and no mark goes.
LEMMA HookTable ==
    ASSUME DispatchInv, Webhooks!TypeOK', UNCHANGED <<sender, stops>>,
           \A d \in Deliveries : delivery[d].status = "in_flight" => delivery'[d].status = "in_flight"
    PROVE DispatchInv'
<1>1. \A q \in Processes, d \in Deliveries : Webhooks!Holds(q, d)' <=> Webhooks!Holds(q, d)
  BY DEF Webhooks!Holds, Webhooks!Current
<1>2. stops = 0 => Marked' /\ OneHolder'  BY <1>1 DEF DispatchInv, Marked, OneHolder
<1> QED  BY <1>2 DEF DispatchInv

\* A worker that keeps what it holds.
LEMMA HookGoes ==
    ASSUME DispatchInv, Webhooks!TypeOK', NEW p \in Processes, sender[p].pc \in Webhooks!Busy, NEW pc,
           pc # "down", sender' = [sender EXCEPT ![p].pc = pc], UNCHANGED <<delivery, stops>>
    PROVE DispatchInv'
<1>1. /\ sender'[p].pc = pc /\ sender'[p].batch = sender[p].batch
      /\ \A q \in Processes : q # p => sender'[q] = sender[q]
  BY DEF DispatchInv, Webhooks!TypeOK, Webhooks!Worker
<1>2. \A q \in Processes, d \in Deliveries : Webhooks!Holds(q, d)' => Webhooks!Holds(q, d)
  BY <1>1 DEF Webhooks!Holds, Webhooks!Current
<1>3. stops = 0 => Marked' /\ OneHolder'  BY <1>2 DEF DispatchInv, Marked, OneHolder
<1>4. \A q \in Processes : sender'[q].pc = "down" => stops' > 0  BY <1>1 DEF DispatchInv
<1> QED  BY <1>3, <1>4 DEF DispatchInv

\* ClaimDelivery: a row that is pending is in nobody's hand.
LEMMA HookClaim ==
    ASSUME DispatchInv, Webhooks!TypeOK', NEW p \in Processes, Webhooks!ClaimDelivery(p)
    PROVE DispatchInv'
<1>0. Webhooks!TypeOK /\ delivery \in [Deliveries -> Webhooks!Row] /\ sender \in [Processes -> Webhooks!Worker]
      /\ stops \in Nat
  BY BoundsAssumption DEF DispatchInv, Webhooks!TypeOK
<1>1. PICK d : d = Webhooks!Current(p).id  OBVIOUS
<1>2. CASE delivery[d].status # "pending"
  <2>1. delivery' = [delivery EXCEPT ![d].status = delivery[d].status] /\ stops' = stops
        /\ sender' = [sender EXCEPT ![p] = Webhooks!NextRow(p)]
    BY <1>1, <1>2 DEF Webhooks!ClaimDelivery
  <2>2. \A e \in Deliveries : delivery'[e].status = delivery[e].status
    BY <1>0, <2>1 DEF Webhooks!Row
  <2>3. stops = 0 => \A q \in Processes, e \in Deliveries :
                        q # p /\ Webhooks!Holds(q, e) => delivery'[e].status = "in_flight"
    BY <2>2 DEF DispatchInv, Marked
  <2>4. PICK r : r = Webhooks!NextRow(p)  OBVIOUS
  <2>5. r.pc \notin Webhooks!Busy /\ r.pc # "down"  BY <1>0, <2>4, HookNextRow
  <2> QED  BY <2>1, <2>3, <2>4, <2>5, HookLets
<1>3. CASE delivery[d].status = "pending"
  <2>1. delivery' = [delivery EXCEPT ![d].status = "in_flight"] /\ stops' = stops
        /\ sender' = [sender EXCEPT ![p] = [sender[p] EXCEPT !.pc = "post"]]
    BY <1>1, <1>3 DEF Webhooks!ClaimDelivery
  <2>2. /\ sender'[p].pc = "post" /\ sender'[p].batch = sender[p].batch
        /\ \A q \in Processes : q # p => sender'[q] = sender[q]
    BY <1>0, <2>1 DEF Webhooks!Worker
  <2>3. \A e \in Deliveries : e # d => delivery'[e] = delivery[e]  BY <1>0, <2>1
  <2>4. d \in Deliveries => delivery'[d].status = "in_flight"  BY <1>0, <2>1 DEF Webhooks!Row
  <2>5. \A q \in Processes, e \in Deliveries :
           Webhooks!Holds(q, e)' => (q = p /\ e = d) \/ (q # p /\ Webhooks!Holds(q, e))
    BY <1>1, <2>2 DEF Webhooks!Holds, Webhooks!Current
  <2>6. ASSUME stops = 0 PROVE Marked' /\ OneHolder'
    <3>1. \A q \in Processes : d \in Deliveries => ~Webhooks!Holds(q, d)
      BY <1>3, <2>6 DEF DispatchInv, Marked
    <3>2. Marked'  BY <2>3, <2>4, <2>5, <2>6 DEF DispatchInv, Marked
    <3>3. OneHolder'  BY <2>5, <2>6, <3>1 DEF DispatchInv, OneHolder
    <3> QED  BY <3>2, <3>3
  <2>7. \A q \in Processes : sender'[q].pc = "down" => stops' > 0  BY <2>1, <2>2 DEF DispatchInv
  <2> QED  BY <2>1, <2>6, <2>7 DEF DispatchInv
<1> QED  BY <1>2, <1>3

\* MarkDelivered, MarkFailed and a write that fails: the row settled was the
\* worker's own.
LEMMA HookSettles ==
    ASSUME DispatchInv, Webhooks!TypeOK', NEW p \in Processes,
           Webhooks!MarkDelivered(p) \/ Webhooks!MarkFailed(p) \/ Webhooks!SettleFails(p)
    PROVE DispatchInv'
<1>0. Webhooks!TypeOK /\ delivery \in [Deliveries -> Webhooks!Row] /\ stops \in Nat
  BY BoundsAssumption DEF DispatchInv, Webhooks!TypeOK
<1>1. PICK d : d = Webhooks!Current(p).id  OBVIOUS
<1>2. sender[p].pc \in Webhooks!Busy /\ sender' = [sender EXCEPT ![p] = Webhooks!NextRow(p)] /\ stops' = stops
  BY DEF Webhooks!MarkDelivered, Webhooks!MarkFailed, Webhooks!SettleFails, Webhooks!Busy
<1>3. \A e \in Deliveries : e # d => delivery'[e] = delivery[e]
  BY <1>0, <1>1 DEF Webhooks!MarkDelivered, Webhooks!MarkFailed, Webhooks!SettleFails
<1>4. ASSUME stops = 0, NEW q \in Processes, NEW e \in Deliveries, q # p, Webhooks!Holds(q, e)
      PROVE delivery'[e].status = "in_flight"
  <2>1. e # d
    <3>1. e = d => Webhooks!Holds(p, e)  BY <1>1, <1>2 DEF Webhooks!Holds
    <3> QED  BY <1>4, <3>1 DEF DispatchInv, OneHolder
  <2> QED  BY <1>3, <1>4, <2>1 DEF DispatchInv, Marked
<1>5. PICK r : r = Webhooks!NextRow(p)  OBVIOUS
<1>6. r.pc \notin Webhooks!Busy /\ r.pc # "down"  BY <1>0, <1>5, HookNextRow
<1>7. sender' = [sender EXCEPT ![p] = r]  BY <1>2, <1>5
<1>8. stops = 0 => \A q \in Processes, e \in Deliveries :
                     q # p /\ Webhooks!Holds(q, e) => delivery'[e].status = "in_flight"
  BY <1>4
<1> QED  BY <1>2, <1>6, <1>7, <1>8, HookLets

\* Every step of the deliveries keeps DispatchInv.
LEMMA DispatchStep ==
    ASSUME DispatchInv, [Webhooks!Next]_(Webhooks!vars) PROVE DispatchInv'
<1>0. Webhooks!TypeOK /\ Webhooks!TypeOK'  BY HookTypes DEF DispatchInv
<1>a. delivery \in [Deliveries -> Webhooks!Row] /\ stops \in Nat
  BY <1>0, BoundsAssumption DEF Webhooks!TypeOK
<1>b. Webhooks!Polling.pc = "idle" /\ [Webhooks!Polling EXCEPT !.pc = "down"].pc = "down"
      /\ "idle" \notin Webhooks!Busy /\ "down" \notin Webhooks!Busy /\ "post" \in Webhooks!Busy
  BY DEF Webhooks!Polling, Webhooks!Busy
<1>1. ASSUME NEW d \in Deliveries,
             Webhooks!CreateDelivery(d) \/ Webhooks!RetryDelivery(d) \/ Webhooks!BackoffElapses(d)
      PROVE DispatchInv'
  <2>1. UNCHANGED <<sender, stops>> /\ delivery[d].status # "in_flight"
        /\ \A e \in Deliveries : e # d => delivery'[e] = delivery[e]
    BY <1>1, <1>a DEF Webhooks!CreateDelivery, Webhooks!RetryDelivery, Webhooks!BackoffElapses
  <2> QED  BY <1>0, <2>1, HookTable
<1>2. ASSUME NEW p \in Processes, Webhooks!ListPendingDeliveries(p) PROVE DispatchInv'
  <2>1. PICK b : sender' = [sender EXCEPT ![p] = [@ EXCEPT !.pc = "claim", !.batch = b]]
    BY <1>2, Zenon DEF Webhooks!ListPendingDeliveries
  <2>2. UNCHANGED <<delivery, stops>>  BY <1>2, Zenon DEF Webhooks!ListPendingDeliveries
  <2>3. sender' = [sender EXCEPT ![p] = [sender[p] EXCEPT !.pc = "claim", !.batch = b]]  BY <2>1
  <2>4. [sender[p] EXCEPT !.pc = "claim", !.batch = b].pc = "claim"
    BY <1>0 DEF Webhooks!TypeOK, Webhooks!Worker
  <2>5. "claim" \notin Webhooks!Busy  BY DEF Webhooks!Busy
  <2>6. stops = 0 => \A q \in Processes, d \in Deliveries :
                        q # p /\ Webhooks!Holds(q, d) => delivery'[d].status = "in_flight"
    BY <2>2 DEF DispatchInv, Marked
  <2>7. PICK r : r = [sender[p] EXCEPT !.pc = "claim", !.batch = b]  OBVIOUS
  <2>8. r.pc \notin Webhooks!Busy /\ r.pc # "down" /\ sender' = [sender EXCEPT ![p] = r]
    BY <2>3, <2>4, <2>5, <2>7
  <2> QED  BY <1>0, <2>2, <2>6, <2>8, HookLets
<1>3. ASSUME NEW p \in Processes, Webhooks!BatchDone(p) PROVE DispatchInv'
  <2>1. UNCHANGED <<delivery, stops>> /\ sender' = [sender EXCEPT ![p] = Webhooks!Polling]
    BY <1>3 DEF Webhooks!BatchDone
  <2>2. stops = 0 => \A q \in Processes, d \in Deliveries :
                        q # p /\ Webhooks!Holds(q, d) => delivery'[d].status = "in_flight"
    BY <2>1 DEF DispatchInv, Marked
  <2>3. PICK r : r = Webhooks!Polling  OBVIOUS
  <2>4. r.pc \notin Webhooks!Busy /\ r.pc # "down"  BY <1>b, <2>3
  <2> QED  BY <1>0, <2>1, <2>2, <2>3, <2>4, HookLets
<1>4. ASSUME NEW p \in Processes, Webhooks!Dispatch(p) PROVE DispatchInv'
  <2>1. PICK pc \in {"sent", "fail", "give-up"} : sender' = [sender EXCEPT ![p].pc = pc]
    BY <1>4 DEF Webhooks!Dispatch
  <2> QED  BY <1>0, <1>4, <1>b, <2>1, HookGoes DEF Webhooks!Dispatch
<1>5. ASSUME NEW p \in Processes, Webhooks!Stop(p) PROVE DispatchInv'
  <2>1. stops' > 0  BY <1>5, <1>a DEF Webhooks!Stop
  <2> QED  BY <1>0, <2>1, HookDies
<1>6. ASSUME NEW p \in Processes, Webhooks!Run(p) \/ Webhooks!ResetFails(p) PROVE DispatchInv'
  <2>1. stops' > 0  BY <1>6 DEF Webhooks!Run, Webhooks!ResetFails, DispatchInv
  <2> QED  BY <1>0, <2>1, HookDies
<1>7. CASE UNCHANGED Webhooks!vars
  BY <1>0, <1>7, HookTable DEF Webhooks!vars
<1> QED
  BY <1>0, <1>1, <1>2, <1>3, <1>4, <1>5, <1>6, <1>7, HookClaim, HookSettles
  DEF Webhooks!Next, Webhooks!WorkerStep

\* Until a process is restarted, no delivery is in the hands of two workers,
\* although each of them may have listed it (ListPendingDeliveries releases its
\* row locks with the statement, ClaimDelivery is a compare-and-set): for any
\* number of processes and deliveries, retries and lost writes.
THEOREM DispatchersAreUnique == Webhooks!Spec => []OneDispatcher
<1>1. Webhooks!Init => DispatchInv
  <2> SUFFICES ASSUME Webhooks!Init PROVE DispatchInv  OBVIOUS
  <2>1. Webhooks!TypeOK
    BY BoundsAssumption DEF Webhooks!Init, Webhooks!TypeOK, Webhooks!Row, Webhooks!Worker, Webhooks!Statuses,
       Webhooks!Polling, Webhooks!Busy
  <2>2. \A p \in Processes : sender[p].pc = "idle"  BY DEF Webhooks!Init, Webhooks!Polling
  <2>3. \A p \in Processes, d \in Deliveries : ~Webhooks!Holds(p, d)
    BY <2>2 DEF Webhooks!Holds, Webhooks!Busy
  <2> QED  BY <2>1, <2>2, <2>3 DEF DispatchInv, Marked, OneHolder
<1>2. DispatchInv /\ [Webhooks!Next]_(Webhooks!vars) => DispatchInv'  BY DispatchStep
<1>3. DispatchInv => OneDispatcher
  BY DEF DispatchInv, OneDispatcher, Webhooks!OneDispatcher, OneHolder
<1> QED  BY <1>1, <1>2, <1>3, PTL DEF Webhooks!Spec
============================================================================
