---------------------------- MODULE LiveOutputs -----------------------------
(***************************************************************************)
(* Live in-meeting prompts of one note (internal/store/live_templates.go,  *)
(* internal/worker/livegenerate.go): every eligible template has one       *)
(* output row per live stream, and at most one job renders it.  Segments,  *)
(* template edits, supersession, trash and recovery reconcile the rows     *)
(* while workers generate from a fixed prefix of the transcript and        *)
(* publish behind a fence.                                                 *)
(*                                                                         *)
(* One step is one transaction or one plugin call.  A row's id is new      *)
(* every time it is inserted; as jobs.live_output_id cascades, a job       *)
(* exists only as long as the row it was made for.  The cadence between    *)
(* two starts and the leases are abstracted: a pending job can be claimed. *)
(***************************************************************************)
EXTENDS Integers, FiniteSets

CONSTANTS
    Templates,        \* the owner's templates, ordered as the listing orders them
    MaxLive,          \* MaxLiveTemplates
    Jobs,             \* ids of live_generate jobs; a forgotten one is used again
    Workers,          \* worker goroutines
    MaxJobAttempts,   \* store.MaxJobAttempts
    MaxRev,           \* bound: finalized segments of a stream
    MaxStreams,       \* bound: live streams of the note
    MaxEdits,         \* bound: template creations, updates and deletions
    MaxFaults,        \* bound: failed best-effort cleanups and reconciliations
    MaxCrashes,       \* bound: process crashes
    MaxCancels,       \* bound: administrative cancellations
    MaxTrash          \* bound: times the note is moved to the trash

VARIABLES
    template,  \* the templates table: absent, after (not live), during (and auto-run)
    stream,    \* the note's transcript: its owner and its finalized segments
    trashed,   \* notes.deleted_at
    row,       \* live_template_outputs, by template and stream
    job,       \* the live_generate jobs
    worker,    \* what each worker goroutine holds in memory
    notified,  \* a NOTIFY for the note is on its way
    bounds     \* edits, faults, cancellations and trashings so far

vars == <<template, stream, trashed, row, job, worker, notified, bounds>>

None == 0
Streams == 1..MaxStreams
Rows == Templates \X Streams
NoKey == <<None, None>>

\* id is 0 without a transcript and -1 when the batch pipeline wrote it.
Stream == [id: -1..MaxStreams, last: 0..MaxStreams, rev: 0..MaxRev]

OutputRow == [status: {"absent", "pending", "running", "ready", "failed"},
              active: Jobs \cup {None}, desired: 0..MaxRev, rendered: 0..MaxRev,
              visible: BOOLEAN, version: Nat]

NoRow == [status |-> "absent", active |-> None, desired |-> 0, rendered |-> 0,
          visible |-> FALSE, version |-> 0]

\* target 0 is SQL NULL: a job renders at least one segment.
JobRow == [status: {"absent", "pending", "running", "done", "failed", "cancelled"},
           row: Rows \cup {NoKey}, target: 0..MaxRev, attempts: Nat]

NoJob == [status |-> "absent", row |-> NoKey, target |-> 0, attempts |-> 0]

WorkerState == [pc: {"idle", "trash", "claim", "generate", "publish", "complete",
                     "fail", "terminal"},
                job: Jobs \cup {None}, attempts: Nat, target: 0..MaxRev,
                retryable: BOOLEAN]

Idle == [pc |-> "idle", job |-> None, attempts |-> 0, target |-> 0,
         retryable |-> FALSE]

TypeOK ==
    /\ template \in [Templates -> {"absent", "after", "during"}]
    /\ stream \in Stream
    /\ trashed \in BOOLEAN
    /\ row \in [Rows -> OutputRow]
    /\ job \in [Jobs -> JobRow]
    /\ worker \in [Workers -> WorkerState]
    /\ notified \in BOOLEAN
    /\ bounds \in [edits: 0..MaxEdits, faults: 0..MaxFaults,
                   crashes: 0..MaxCrashes, cancels: 0..MaxCancels, trash: 0..MaxTrash]

Init ==
    /\ template \in [Templates -> {"absent", "after", "during"}]
    /\ Cardinality({t \in Templates : template[t] = "during"}) <= MaxLive
    /\ stream = [id |-> 0, last |-> 0, rev |-> 0]
    /\ trashed = FALSE
    /\ row = [r \in Rows |-> NoRow]
    /\ job = [j \in Jobs |-> NoJob]
    /\ worker = [w \in Workers |-> Idle]
    /\ notified = FALSE
    /\ bounds = [edits |-> 0, faults |-> 0, crashes |-> 0, cancels |-> 0, trash |-> 0]

-----------------------------------------------------------------------------
(* Reading the tables.                                                     *)

\* visibleLiveEligibleTemplatesTx: during and auto-run, in the stable order.
Visible(tmpl) == {t \in Templates : tmpl[t] = "during"}

\* EligibleLiveTemplatesTx: the first MaxLive of them.
Eligible(tmpl) ==
    {t \in Visible(tmpl) : Cardinality({u \in Visible(tmpl) : u < t}) < MaxLive}

\* currentStreamForNoteTx: the note's unsealed live stream.  A sealed
\* transcript is deleted in the transaction that seals it.
HasStream == stream.id \in Streams

Exists(r) == row[r].status # "absent"

\* A job id nothing refers to any more may be used for a new job.
Fresh == {j \in Jobs : /\ job[j].status \notin {"pending", "running"}
                       /\ \A r \in Rows : row[r].active # j
                       /\ \A w \in Workers : worker[w].job # j}

NewJobs(need) == CHOOSE f \in [need -> Fresh] : \A s, t \in need : f[s] = f[t] => s = t

\* jobs.live_output_id REFERENCES live_template_outputs ON DELETE CASCADE.
Cascade(jobs, rows) ==
    [j \in Jobs |-> IF jobs[j].row # NoKey /\ rows[jobs[j].row].status = "absent"
                    THEN NoJob ELSE jobs[j]]

\* scheduleLiveJobTx: one new pending job, recorded as the row's active job.
ScheduledJob(r) == [status |-> "pending", row |-> r, target |-> 0, attempts |-> 0]
Scheduled(o, j) == [o EXCEPT !.active = j, !.status = "pending"]

-----------------------------------------------------------------------------
(* Reconciliation.                                                         *)

\* Mutation: a row whose job runs is left as it is.
RetiredStaysVisible(o) == IF o.active # None /\ o.status = "running" THEN o ELSE NoRow

\* What EndLiveTemplateStream and applyEligibilityTx make of a row that is no
\* longer wanted: hidden while its job runs, else removed, its job with it.
Retired(o) ==
    IF o.active # None /\ o.status = "running"
    THEN [o EXCEPT !.visible = FALSE, !.version = @ + 1]
    ELSE NoRow

\* What applyEligibilityTx makes of the row of an eligible template: inserted
\* once there is a finalized segment, its demand raised, a job scheduled when
\* none is active.
Demanded(o, rev, j) ==
    LET made == IF o.status = "absent"
                THEN [NoRow EXCEPT !.status = "pending", !.desired = rev,
                                   !.visible = TRUE, !.version = 1]
                ELSE IF rev > o.desired
                THEN [o EXCEPT !.desired = rev, !.version = @ + 1]
                ELSE o
    IN IF made.active = None THEN Scheduled(made, j) ELSE made

\* applyEligibilityTx on the current stream, after the templates have become
\* tmpl, the table rows, and the stream has rev finalized segments.
ApplyEligibility(tmpl, rows, rev) ==
    LET s == stream.id
        el == Eligible(tmpl)
        start == {t \in el : rev > 0 /\ rows[<<t, s>>].active = None}
        new == NewJobs(start)
        after == [r \in Rows |->
            IF r[2] # s \/ (r[1] \in el /\ rev = 0) THEN rows[r]
            ELSE IF r[1] \notin el THEN Retired(rows[r])
            ELSE Demanded(rows[r], rev, IF r[1] \in start THEN new[r[1]] ELSE None)]
    IN /\ row' = after
       /\ job' = [j \in Jobs |->
            IF \E t \in start : new[t] = j
            THEN ScheduledJob(<<CHOOSE t \in start : new[t] = j, s>>)
            ELSE Cascade(job, after)[j]]
       /\ notified' = (notified \/ after # row)

\* EndLiveTemplateStream for a stream.
EndLiveTemplateStream(s) ==
    LET after == [r \in Rows |-> IF r[2] = s THEN Retired(row[r]) ELSE row[r]]
    IN /\ row' = after
       /\ job' = Cascade(job, after)
       /\ notified' = (notified \/ after # row)

\* ReconcileOwnerEligibilityTx: the owner's streams, those of trashed notes
\* left out, in the transaction of the template's mutation.
ReconcileOwnerEligibility(tmpl, rows) ==
    IF HasStream /\ ~trashed
    THEN ApplyEligibility(tmpl, rows, stream.rev)
    ELSE /\ row' = rows
         /\ job' = Cascade(job, rows)
         /\ UNCHANGED notified

\* validateLiveTemplateCap, under the owner's advisory lock.
CapAllows(t, kind) ==
    kind = "during" => Cardinality(Visible(template) \ {t}) < MaxLive

Edit == /\ bounds.edits < MaxEdits
        /\ bounds' = [bounds EXCEPT !.edits = @ + 1]

CreateTemplate(t, kind) ==
    /\ template[t] = "absent" /\ kind # "absent"
    /\ CapAllows(t, kind)
    /\ template' = [template EXCEPT ![t] = kind]
    /\ ReconcileOwnerEligibility(template', row)
    /\ Edit
    /\ UNCHANGED <<stream, trashed, worker>>

UpdateTemplate(t, kind) ==
    /\ template[t] # "absent" /\ kind # "absent"
    /\ CapAllows(t, kind)
    /\ template' = [template EXCEPT ![t] = kind]
    /\ ReconcileOwnerEligibility(template', row)
    /\ Edit
    /\ UNCHANGED <<stream, trashed, worker>>

\* The template's rows, of whatever stream, go with it (ON DELETE CASCADE).
DeleteTemplate(t) ==
    /\ template[t] # "absent"
    /\ template' = [template EXCEPT ![t] = "absent"]
    /\ ReconcileOwnerEligibility(template',
          [r \in Rows |-> IF r[1] = t THEN NoRow ELSE row[r]])
    /\ Edit
    /\ UNCHANGED <<stream, trashed, worker>>

-----------------------------------------------------------------------------
(* The transcript.                                                         *)

\* endLiveStreamBestEffort: a failure rolls the savepoint back and is logged.
EndLiveStreamBestEffort(s) ==
    \/ /\ EndLiveTemplateStream(s)
       /\ UNCHANGED bounds
    \/ /\ bounds.faults < MaxFaults
       /\ bounds' = [bounds EXCEPT !.faults = @ + 1]
       /\ UNCHANGED <<row, job, notified>>

\* CreateStreamTranscript: refused over a batch transcript; a note in the
\* trash is not found by handleNoteStream.
CreateStreamTranscript ==
    /\ ~trashed /\ stream.id # -1
    /\ stream.last < MaxStreams
    /\ stream' = [id |-> stream.last + 1, last |-> stream.last + 1, rev |-> 0]
    /\ IF HasStream THEN EndLiveStreamBestEffort(stream.id)
                    ELSE UNCHANGED <<row, job, notified, bounds>>
    /\ UNCHANGED <<template, trashed, worker>>

\* SaveTranscript replaces the stream's transcript by the batch pipeline's.
SaveTranscript ==
    /\ HasStream
    /\ stream' = [stream EXCEPT !.id = -1, !.rev = 0]
    /\ EndLiveStreamBestEffort(stream.id)
    /\ UNCHANGED <<template, trashed, worker>>

\* AppendStreamSegment, with reconcileLiveDemandBestEffort in a savepoint of
\* its transaction.  ReconcileStreamDemandTx asks for the stream, not for the
\* note: a segment is appended, and demanded, for a note in the trash too.
AppendStreamSegment ==
    /\ HasStream /\ stream.rev < MaxRev
    /\ stream' = [stream EXCEPT !.rev = @ + 1]
    /\ \/ /\ ApplyEligibility(template, row, stream.rev + 1)
          /\ UNCHANGED bounds
       \/ /\ bounds.faults < MaxFaults
          /\ bounds' = [bounds EXCEPT !.faults = @ + 1]
          /\ UNCHANGED <<row, job, notified>>
    /\ UNCHANGED <<template, trashed, worker>>

\* DeleteNote moves the note to the trash and ends its stream with it.
DeleteNote ==
    /\ ~trashed /\ bounds.trash < MaxTrash
    /\ trashed' = TRUE
    /\ bounds' = [bounds EXCEPT !.trash = @ + 1]
    /\ IF HasStream THEN EndLiveTemplateStream(stream.id)
                    ELSE UNCHANGED <<row, job, notified>>
    /\ UNCHANGED <<template, stream, worker>>

RestoreNote ==
    /\ trashed
    /\ trashed' = FALSE
    /\ UNCHANGED <<template, stream, row, job, worker, notified, bounds>>

\* RecoverLiveTemplateOutputs: rows of a stream that is not current.  (Rows
\* without demand for an hour are removed too; a meeting is shorter here.)
RecoverLiveTemplateOutputs ==
    LET stale == {r \in Rows : Exists(r) /\ r[2] # stream.id}
        after == [r \in Rows |-> IF r \in stale THEN NoRow ELSE row[r]]
    IN /\ stale # {}
       /\ row' = after
       /\ job' = Cascade(job, after)
       /\ notified' = TRUE
       /\ UNCHANGED <<template, stream, trashed, worker, bounds>>

\* CancelJob by an administrator: only a pending job, and only the job.
CancelJob(j) ==
    /\ job[j].status = "pending" /\ bounds.cancels < MaxCancels
    /\ job' = [job EXCEPT ![j].status = "cancelled"]
    /\ bounds' = [bounds EXCEPT !.cancels = @ + 1]
    /\ UNCHANGED <<template, stream, trashed, row, worker, notified>>

-----------------------------------------------------------------------------
(* A worker.                                                               *)

\* ClaimJob: every claim counts as an attempt.
ClaimJob(w, j) ==
    /\ worker[w].pc = "idle"
    /\ job[j].status = "pending"
    /\ job' = [job EXCEPT ![j].status = "running", ![j].attempts = @ + 1]
    /\ worker' = [worker EXCEPT ![w] = [Idle EXCEPT !.pc = "trash", !.job = j,
                                            !.attempts = job'[j].attempts]]
    /\ UNCHANGED <<template, stream, trashed, row, notified, bounds>>

\* Process skips the work of a trashed note and completes the job.
NoteIsTrashed(w) ==
    /\ worker[w].pc = "trash"
    /\ worker' = [worker EXCEPT ![w].pc = IF trashed THEN "complete" ELSE "claim"]
    /\ UNCHANGED <<template, stream, trashed, row, job, notified, bounds>>

\* The job is still the active one of its row, the row's stream is current and
\* its template eligible: what the claim and both completions demand.
Fence(j) ==
    LET r == job[j].row
    IN /\ row[r].active = j
       /\ HasStream /\ r[2] = stream.id
       /\ r[1] \in Eligible(template)

\* ClaimLiveGenerateJobTx.  The row is gone (and the job with it), or no longer
\* to be rendered and removed, or running with the job's target fixed by the
\* first claim.
ClaimLiveGenerateJob(w) ==
    LET j == worker[w].job
        r == job[j].row
        dropped == [row EXCEPT ![r] = NoRow]
        target == IF job[j].target = 0 THEN row[r].desired ELSE job[j].target
    IN /\ worker[w].pc = "claim"
       /\ \/ /\ job[j].status = "absent"
             /\ worker' = [worker EXCEPT ![w].pc = "complete"]
             /\ UNCHANGED <<row, job, notified>>
          \/ /\ job[j].status # "absent" /\ ~Fence(j)
             /\ row' = dropped
             /\ job' = Cascade(job, dropped)
             /\ worker' = [worker EXCEPT ![w].pc = "complete"]
             /\ UNCHANGED notified
          \/ /\ job[j].status # "absent" /\ Fence(j)
             /\ row' = [row EXCEPT ![r].status = "running", ![r].version = @ + 1]
             /\ job' = [job EXCEPT ![j].target = target]
             /\ worker' = [worker EXCEPT ![w].pc = "generate", ![w].target = target]
             /\ notified' = TRUE
       /\ UNCHANGED <<template, stream, trashed, bounds>>

\* runLiveGenerate from the claim to the plugin's answer, which may be an
\* error that is worth a retry or not.  A template deleted meanwhile ends it.
RunLiveGenerate(w) ==
    /\ worker[w].pc = "generate"
    /\ \/ worker' = [worker EXCEPT ![w].pc = "publish"]
       \/ \E again \in BOOLEAN :
             worker' = [worker EXCEPT ![w].pc = "fail", ![w].retryable = again]
       \/ /\ job[worker[w].job].status = "absent"
          /\ worker' = [worker EXCEPT ![w].pc = "complete"]
    /\ UNCHANGED <<template, stream, trashed, row, job, notified, bounds>>

\* Mutation: no follow-up job for demand that has outgrown the target.
SettleOnce(j, o, status, grown) ==
    LET r == job[j].row
        dropped == [row EXCEPT ![r] = NoRow]
    IN \/ /\ job[j].status = "absent"
          /\ UNCHANGED <<row, job, notified>>
       \/ /\ job[j].status # "absent"
          /\ row' = IF Fence(j) THEN [row EXCEPT ![r] = o] ELSE dropped
          /\ job' = Cascade([job EXCEPT ![j].status = status], row')
          /\ notified' = TRUE

\* The end of both completions: discardIneligibleLiveRowTx, or the row o with
\* one follow-up job when demand has outgrown the target.
Settle(j, o, status, grown) ==
    LET r == job[j].row
        dropped == [row EXCEPT ![r] = NoRow]
        new == NewJobs({r})
    IN \/ /\ job[j].status = "absent"
          /\ UNCHANGED <<row, job, notified>>
       \/ /\ job[j].status # "absent" /\ ~Fence(j)
          /\ row' = dropped
          /\ job' = Cascade(job, dropped)
          /\ notified' = TRUE
       \/ /\ job[j].status # "absent" /\ Fence(j)
          /\ row' = [row EXCEPT ![r] = IF grown THEN Scheduled(o, new[r]) ELSE o]
          /\ job' = [i \in Jobs |-> IF i = j THEN [job[j] EXCEPT !.status = status]
                                    ELSE IF grown /\ i = new[r] THEN ScheduledJob(r)
                                    ELSE job[i]]
          /\ notified' = TRUE

\* CompleteLiveGenerateSuccessTx publishes the answer to the fixed target.
CompleteLiveGenerateSuccess(w) ==
    LET j == worker[w].job
        o == row[job[j].row]
    IN /\ worker[w].pc = "publish"
       /\ Settle(j, [o EXCEPT !.status = "ready", !.rendered = worker[w].target,
                              !.active = None, !.version = @ + 1],
                 "done", o.desired > worker[w].target)
       /\ worker' = [worker EXCEPT ![w].pc = "complete"]
       /\ UNCHANGED <<template, stream, trashed, bounds>>

\* CompleteJob updates by id: nothing when the job has gone.
CompleteJob(w) ==
    LET j == worker[w].job
    IN /\ worker[w].pc = "complete"
       /\ job' = IF job[j].status = "absent" THEN job
                 ELSE [job EXCEPT ![j].status = "done"]
       /\ worker' = [worker EXCEPT ![w] = Idle]
       /\ UNCHANGED <<template, stream, trashed, row, notified, bounds>>

\* FailJob, and Process's own decision whether the failure was the last one.
FailJob(w) ==
    LET j == worker[w].job
        again == worker[w].retryable /\ worker[w].attempts < MaxJobAttempts
    IN /\ worker[w].pc = "fail"
       /\ \/ /\ job[j].status = "absent"
             /\ worker' = [worker EXCEPT ![w] = Idle]
             /\ UNCHANGED job
          \/ /\ job[j].status # "absent" /\ again
             /\ job' = [job EXCEPT ![j].status = "pending"]
             /\ worker' = [worker EXCEPT ![w] = Idle]
          \/ /\ job[j].status # "absent" /\ ~again
             /\ job' = [job EXCEPT ![j].status = "failed"]
             /\ worker' = [worker EXCEPT ![w].pc = "terminal"]
       /\ UNCHANGED <<template, stream, trashed, row, notified, bounds>>

\* handleLiveGenerateTerminalFailure, CompleteLiveGenerateFailureTx.  The
\* target is the job row's; a job that never completed a claim has none.
CompleteLiveGenerateFailure(w) ==
    LET j == worker[w].job
        o == row[job[j].row]
    IN /\ worker[w].pc = "terminal"
       /\ Settle(j, [o EXCEPT !.status = "failed", !.active = None, !.version = @ + 1],
                 "failed", job[j].target # 0 /\ o.desired > job[j].target)
       /\ worker' = [worker EXCEPT ![w] = Idle]
       /\ UNCHANGED <<template, stream, trashed, bounds>>

\* The process dies; ResetExpiredRunningJobs requeues the job once its lease
\* has run out.
Crash(w) ==
    LET j == worker[w].job
    IN /\ worker[w].pc # "idle" /\ bounds.crashes < MaxCrashes
       /\ job' = IF job[j].status = "running"
                 THEN [job EXCEPT ![j].status = "pending"] ELSE job
       /\ worker' = [worker EXCEPT ![w] = Idle]
       /\ bounds' = [bounds EXCEPT !.crashes = @ + 1]
       /\ UNCHANGED <<template, stream, trashed, row, notified>>

-----------------------------------------------------------------------------

WorkerStep(w) ==
    \/ \E j \in Jobs : ClaimJob(w, j)
    \/ NoteIsTrashed(w)
    \/ ClaimLiveGenerateJob(w)
    \/ RunLiveGenerate(w)
    \/ CompleteLiveGenerateSuccess(w)
    \/ CompleteJob(w)
    \/ FailJob(w)
    \/ CompleteLiveGenerateFailure(w)

Next ==
    \/ \E t \in Templates : \E k \in {"after", "during"} :
          CreateTemplate(t, k) \/ UpdateTemplate(t, k)
    \/ \E t \in Templates : DeleteTemplate(t)
    \/ CreateStreamTranscript
    \/ SaveTranscript
    \/ AppendStreamSegment
    \/ DeleteNote
    \/ RestoreNote
    \/ RecoverLiveTemplateOutputs
    \/ \E j \in Jobs : CancelJob(j)
    \/ \E w \in Workers : WorkerStep(w) \/ Crash(w)

Spec == Init /\ [][Next]_vars

\* Workers poll, and the recovery sweep runs every five minutes.
Fairness ==
    /\ \A w \in Workers : WF_vars(WorkerStep(w))
    /\ WF_vars(RecoverLiveTemplateOutputs)

FairSpec == Spec /\ Fairness

-----------------------------------------------------------------------------
(* Properties.                                                             *)

\* Whatever reconciles a row, its active job or a worker's completion, no row
\* ever has two jobs that are pending or running, so that no insert meets the
\* unique index jobs_live_active_uniq and is lost with its transaction.
OneJobPerRow ==
    /\ TypeOK
    /\ \A i, j \in Jobs :
        (/\ job[i].status \in {"pending", "running"}
         /\ job[j].status \in {"pending", "running"}
         /\ job[i].row = job[j].row) => i = j

\* What a viewer of the note is shown belongs to the stream being recorded and
\* to a template that is still eligible, whatever answers arrive late.  (A
\* cleanup that failed leaves rows to the next sweep, and a segment appended
\* to a note in the trash makes rows that template edits do not reach.)  Its
\* row has one job under way at most.
VisibleIsCurrent ==
    /\ OneJobPerRow
    /\ bounds.faults + bounds.trash = 0 =>
         \A r \in Rows : row[r].visible =>
           r[2] = stream.id /\ r[1] \in Eligible(template)

\* Demand that can be met is met: once no more segments come, every row has
\* been rendered to its demand, has failed for good, or has been removed; rows
\* that a failed cleanup left behind are swept.  (A crash between the two
\* transactions of a terminal failure, a cancelled job and a job skipped for a
\* trashed note leave a row with an active job that nobody runs, and
\* applyEligibilityTx schedules nothing for it.)
DemandIsServed ==
    []<>(/\ \/ bounds.crashes + bounds.cancels + bounds.trash > 0
            \/ \A r \in Rows : row[r].rendered < row[r].desired => row[r].status = "failed"
         /\ \A r \in Rows : Exists(r) => r[2] = stream.id)
=============================================================================
