----------------------------- MODULE Summarize ------------------------------
(***************************************************************************)
(* Summarising one transcribed note: the fan-out of one summarize job per  *)
(* template (internal/store/summaries.go), Processor.runSummarize, the     *)
(* settling order of Process and FinalizeNote (internal/worker/            *)
(* pipeline.go), and the API handlers that start another round while one   *)
(* is in flight (internal/api/notes.go, notes_template_summarize.go,       *)
(* transcripts.go, admin_jobs.go).                                         *)
(*                                                                         *)
(* One step is one database statement, transaction or plugin call.  Leases *)
(* are JobQueue's subject; what is kept of them is the attempt count, and  *)
(* the requeueing of a job whose worker died.                              *)
(***************************************************************************)
EXTENDS Integers, FiniteSets

CONSTANTS
    Jobs,            \* ids of summarize jobs, and of the summaries made for them
    Workers,         \* worker goroutines
    Handlers,        \* API requests served in one behaviour
    Kinds,           \* the requests made: "resummarize", "review", "template"
    Templates,       \* the owner's templates
    MaxJobAttempts,  \* store.MaxJobAttempts
    MaxFaults,       \* bound: process crashes and abandoned requests
    MaxAdmin,        \* bound: admin retries and cancellations
    MaxTrash         \* bound: times the note is moved to the trash

\* The pool is finite, and "none" is the lack of a job, a template or a kind.
ASSUME ConstantsAssumption ==
    /\ IsFiniteSet(Workers)
    /\ "none" \notin Jobs \cup Templates
    /\ Kinds \subseteq {"resummarize", "review", "template"}
    /\ MaxJobAttempts \in Nat \ {0}
    /\ MaxFaults \in Nat /\ MaxAdmin \in Nat /\ MaxTrash \in Nat

VARIABLES
    note,       \* the notes row
    summary,    \* the summaries table
    job,        \* its summarize jobs
    worker,     \* what each worker goroutine holds in memory
    handler,    \* the API handlers
    fanout,     \* the transcribe job has yet to fan out
    rounds,     \* times the note has been put into 'summarizing' from elsewhere
    announced,  \* times a finalizer has run the ready side effects
    bounds      \* faults, admin interventions and trashings so far

vars == <<note, summary, job, worker, handler, fanout, rounds, announced, bounds>>

SummaryRow == [state: {"absent", "pending", "ready", "failed"},
               template: Templates \cup {"none"}]

JobRow == [status: {"absent", "pending", "running", "done", "failed", "cancelled"},
           summary: Jobs \cup {"none"}, attempts: 0..MaxJobAttempts + MaxFaults]

\* The statement a worker is about to execute.
WorkerState == [pc: {"idle", "trash", "run", "store", "complete", "fail",
                     "fail-summary", "count", "ready", "announce"},
                job: Jobs \cup {"none"}, attempts: Nat, retryable: BOOLEAN]

Idle == [pc |-> "idle", job |-> "none", attempts |-> 0, retryable |-> FALSE]

\* todo: templates still without a job.  new: the row created for the next one.
HandlerState == [pc: {"new", "delete", "status", "create", "enqueue", "ready", "over"},
                 kind: Kinds \cup {"none"}, todo: SUBSET Templates,
                 new: Jobs \cup {"none"}]

TypeOK ==
    /\ note \in [status: {"transcribing", "summarizing", "ready"}, trashed: BOOLEAN]
    /\ summary \in [Jobs -> SummaryRow]
    /\ job \in [Jobs -> JobRow]
    /\ worker \in [Workers -> WorkerState]
    /\ handler \in [Handlers -> HandlerState]
    /\ \A w \in Workers : worker[w].pc # "idle" => job[worker[w].job].summary \in Jobs
    /\ \A h \in Handlers : handler[h].pc = "enqueue" => handler[h].new \in Jobs
    /\ fanout \in BOOLEAN
    /\ rounds \in Nat /\ announced \in Nat
    /\ bounds \in [faults: 0..MaxFaults, admin: 0..MaxAdmin, trash: 0..MaxTrash]

\* The note has a transcript and no summaries: a transcribe job has published
\* it and deleted the old ones, or it became ready without any.
Init ==
    /\ fanout \in BOOLEAN
    /\ note = [status |-> IF fanout THEN "transcribing" ELSE "ready", trashed |-> FALSE]
    /\ summary = [s \in Jobs |-> [state |-> "absent", template |-> "none"]]
    /\ job = [j \in Jobs |-> [status |-> "absent", summary |-> "none", attempts |-> 0]]
    /\ worker = [w \in Workers |-> Idle]
    /\ handler = [h \in Handlers |-> [pc |-> "new", kind |-> "none", todo |-> {},
                                      new |-> "none"]]
    /\ rounds = 0 /\ announced = 0
    /\ bounds = [faults |-> 0, admin |-> 0, trash |-> 0]

-----------------------------------------------------------------------------
(* Starting a round.                                                       *)

\* An id is fresh while neither a job nor a summary has used it.
Fresh(j) == job[j].status = "absent" /\ summary[j].template = "none"

SetNoteStatus(s) ==
    /\ note' = [note EXCEPT !.status = s]
    /\ rounds' = rounds + (IF s = "summarizing" /\ note.status # s THEN 1 ELSE 0)

\* EnqueueSummarizeJobsIfCurrent, called by the transcribe job: one
\* transaction writes the status, the pending summaries and the jobs, whatever
\* a request has made of the note since the transcript was published.  Which
\* templates run automatically is the owner's setting at that time.
EnqueueSummarizeJobsIfCurrent ==
    /\ fanout
    /\ fanout' = FALSE
    /\ \E auto \in SUBSET Templates : \E new \in [auto -> {j \in Jobs : Fresh(j)}] :
          /\ \A s, t \in auto : new[s] = new[t] => s = t
          /\ summary' = [s \in Jobs |->
                IF \E t \in auto : new[t] = s
                THEN [state |-> "pending", template |-> CHOOSE t \in auto : new[t] = s]
                ELSE summary[s]]
          /\ job' = [j \in Jobs |->
                IF \E t \in auto : new[t] = j
                THEN [job[j] EXCEPT !.status = "pending", !.summary = j]
                ELSE job[j]]
          /\ SetNoteStatus(IF auto = {} THEN "ready" ELSE "summarizing")
    /\ UNCHANGED <<worker, handler, announced, bounds>>

\* handleResummarize takes inFlightGuard and holds it to its return;
\* handleSummarizeTemplate and a completed review take no guard.  GetNote does
\* not find a trashed note; the transcript they all require is there.
Begin(h, kind) ==
    /\ handler[h].pc = "new"
    /\ ~note.trashed
    /\ kind = "resummarize" =>
          \A g \in Handlers : handler[g].pc \notin {"new", "over"}
                                  => handler[g].kind # "resummarize"
    /\ handler' = [handler EXCEPT ![h] = [@ EXCEPT !.pc = "delete", !.kind = kind]]
    /\ UNCHANGED <<note, summary, job, worker, rounds, fanout, announced, bounds>>

\* DeleteNoteSummaries, or deleteNoteTemplateSummary for one template.  The
\* templates of the round are read next, by TemplatesForSummary.
DeleteNoteSummaries(h) ==
    /\ handler[h].pc = "delete"
    /\ \E ts \in IF handler[h].kind = "template" THEN {{t} : t \in Templates}
                 ELSE SUBSET Templates :
          /\ handler' = [handler EXCEPT ![h] = [@ EXCEPT !.pc = "status", !.todo = ts]]
          /\ summary' = [s \in Jobs |->
                IF handler[h].kind = "template" => summary[s].template \in ts
                THEN [summary[s] EXCEPT !.state = "absent"]
                ELSE summary[s]]
    /\ UNCHANGED <<note, job, worker, rounds, fanout, announced, bounds>>

\* EnqueueSummarizeJobs: SetNoteStatus comes before the rows and the jobs.
SetSummarizing(h) ==
    /\ handler[h].pc = "status"
    /\ SetNoteStatus("summarizing")
    /\ handler' = [handler EXCEPT ![h].pc = IF handler[h].todo = {} THEN "ready" ELSE "create"]
    /\ UNCHANGED <<summary, job, worker, fanout, announced, bounds>>

CreatePendingSummary(h) ==
    /\ handler[h].pc = "create"
    /\ \E t \in handler[h].todo, s \in Jobs :
          /\ Fresh(s)
          /\ summary' = [summary EXCEPT ![s] = [state |-> "pending", template |-> t]]
          /\ handler' = [handler EXCEPT ![h].pc = "enqueue", ![h].new = s, ![h].todo = @ \ {t}]
    /\ UNCHANGED <<note, job, worker, rounds, fanout, announced, bounds>>

EnqueueNoteJob(h) ==
    LET s == handler[h].new
    IN  /\ handler[h].pc = "enqueue"
        /\ job' = [job EXCEPT ![s] = [@ EXCEPT !.status = "pending", !.summary = s]]
        /\ handler' = [handler EXCEPT ![h] = [@ EXCEPT !.pc = "create", !.new = "none"]]
        /\ UNCHANGED <<note, summary, worker, rounds, fanout, announced, bounds>>

\* The loop ends; with no template at all the note is set ready.
EndRound(h) ==
    /\ \/ /\ handler[h].pc = "create" /\ handler[h].todo = {}
          /\ UNCHANGED <<note, rounds>>
       \/ handler[h].pc = "ready" /\ SetNoteStatus("ready")
    /\ handler' = [handler EXCEPT ![h].pc = "over"]
    /\ UNCHANGED <<summary, job, worker, fanout, announced, bounds>>

-----------------------------------------------------------------------------
(* Processor.Process of a summarize job.                                   *)

Goto(w, pc) == worker' = [worker EXCEPT ![w].pc = pc]
Return(w) == worker' = [worker EXCEPT ![w] = Idle]

ClaimJob(w, j) ==
    /\ worker[w].pc = "idle"
    /\ job[j].status = "pending"
    /\ job' = [job EXCEPT ![j].status = "running", ![j].attempts = @ + 1]
    /\ worker' = [worker EXCEPT ![w] = [pc |-> "trash", job |-> j,
                                        attempts |-> job[j].attempts + 1,
                                        retryable |-> FALSE]]
    /\ UNCHANGED <<note, summary, handler, rounds, fanout, announced, bounds>>

\* NoteIsTrashed: the job is completed and the note left as it is.
SkipTrashed(w) ==
    /\ worker[w].pc = "trash"
    /\ IF note.trashed
       THEN /\ job' = [job EXCEPT ![worker[w].job].status = "done"]
            /\ Return(w)
       ELSE Goto(w, "run") /\ UNCHANGED job
    /\ UNCHANGED <<note, summary, handler, rounds, fanout, announced, bounds>>

\* runSummarize up to the agent's answer: an answer to store, or an error that
\* retrying may or cannot cure.
RunSummarize(w) ==
    /\ worker[w].pc = "run"
    /\ \/ Goto(w, "store")
       \/ \E retryable \in BOOLEAN :
             worker' = [worker EXCEPT ![w] = [@ EXCEPT !.pc = "fail", !.retryable = retryable]]
    /\ UNCHANGED <<note, summary, job, handler, rounds, fanout, announced, bounds>>

\* A row deleted by another round is ErrNotFound, which counts as retryable.
CompleteSummary(w) ==
    LET s == job[worker[w].job].summary
    IN  /\ worker[w].pc = "store"
        /\ IF summary[s].state = "absent"
           THEN /\ worker' = [worker EXCEPT ![w] = [@ EXCEPT !.pc = "fail", !.retryable = TRUE]]
                /\ UNCHANGED summary
           ELSE /\ Goto(w, "complete")
                /\ summary' = [summary EXCEPT ![s].state = "ready"]
        /\ UNCHANGED <<note, job, handler, rounds, fanout, announced, bounds>>

\* Mutation: finalize while the job still counts as running, then settle.
CompleteJobAfterwards(w) ==
    /\ worker[w].pc = "complete"
    /\ IF \E j \in Jobs : job[j].status \in {"pending", "running"}
       THEN UNCHANGED note ELSE note' = [note EXCEPT !.status = "ready"]
    /\ job' = [job EXCEPT ![worker[w].job].status = "done"]
    /\ Return(w)
    /\ UNCHANGED <<summary, handler, rounds, fanout, announced, bounds>>

CompleteJob(w) ==
    /\ worker[w].pc = "complete"
    /\ job' = [job EXCEPT ![worker[w].job].status = "done"]
    /\ Goto(w, "count")
    /\ UNCHANGED <<note, summary, handler, rounds, fanout, announced, bounds>>

Terminal(w) == ~worker[w].retryable \/ worker[w].attempts >= MaxJobAttempts

\* Mutation: handleTerminalFailure goes straight to FinalizeNote.
FailJobSkipsSummary(w) ==
    /\ worker[w].pc = "fail"
    /\ job' = [job EXCEPT ![worker[w].job].status = IF Terminal(w) THEN "failed" ELSE "pending"]
    /\ IF Terminal(w) THEN Goto(w, "count") ELSE Return(w)
    /\ UNCHANGED <<note, summary, handler, rounds, fanout, announced, bounds>>

\* FailJob; handleTerminalFailure follows a failure that is final.
FailJob(w) ==
    /\ worker[w].pc = "fail"
    /\ job' = [job EXCEPT ![worker[w].job].status = IF Terminal(w) THEN "failed" ELSE "pending"]
    /\ IF Terminal(w) THEN Goto(w, "fail-summary") ELSE Return(w)
    /\ UNCHANGED <<note, summary, handler, rounds, fanout, announced, bounds>>

\* FailSummary updates by id; a deleted row is logged and passed over.
FailSummary(w) ==
    LET s == job[worker[w].job].summary
    IN  /\ worker[w].pc = "fail-summary"
        /\ summary' = [summary EXCEPT ![s].state = IF @ = "absent" THEN @ ELSE "failed"]
        /\ Goto(w, "count")
        /\ UNCHANGED <<note, job, handler, rounds, fanout, announced, bounds>>

-----------------------------------------------------------------------------
(* FinalizeNote.                                                           *)

CountActiveSummarizeJobs(w) ==
    /\ worker[w].pc = "count"
    /\ IF \E j \in Jobs : job[j].status \in {"pending", "running"}
       THEN Return(w) ELSE Goto(w, "ready")
    /\ UNCHANGED <<note, summary, job, handler, rounds, fanout, announced, bounds>>

\* Mutation: the UPDATE drops AND status <> 'ready', so every caller wins.
MarkNoteReadyAlwaysWins(w) ==
    /\ worker[w].pc = "ready"
    /\ SetNoteStatus("ready")
    /\ Goto(w, "announce")
    /\ UNCHANGED <<summary, job, handler, fanout, announced, bounds>>

\* UPDATE notes SET status='ready' WHERE status <> 'ready'; one caller wins.
MarkNoteReady(w) ==
    /\ worker[w].pc = "ready"
    /\ IF note.status = "ready" THEN Return(w) ELSE Goto(w, "announce")
    /\ SetNoteStatus("ready")
    /\ UNCHANGED <<summary, job, handler, fanout, announced, bounds>>

\* maybeExtractActionItems, the embed job and enqueueNoteCompletedWebhooks.
Announce(w) ==
    /\ worker[w].pc = "announce"
    /\ announced' = announced + 1
    /\ Return(w)
    /\ UNCHANGED <<note, summary, job, handler, rounds, fanout, bounds>>

-----------------------------------------------------------------------------
(* Administrators, the trash, and faults.                                  *)

CancelJob(j) ==
    /\ bounds.admin < MaxAdmin
    /\ job[j].status = "pending"
    /\ job' = [job EXCEPT ![j].status = "cancelled"]
    /\ bounds' = [bounds EXCEPT !.admin = @ + 1]
    /\ UNCHANGED <<note, summary, worker, handler, rounds, fanout, announced>>

\* handleRetryJob enqueues a copy of a failed job, for the same summary row,
\* and leaves the note's status alone.
RetryJob(f, j) ==
    /\ bounds.admin < MaxAdmin
    /\ job[f].status = "failed" /\ Fresh(j)
    /\ job' = [job EXCEPT ![j] = [@ EXCEPT !.status = "pending", !.summary = job[f].summary]]
    /\ bounds' = [bounds EXCEPT !.admin = @ + 1]
    /\ UNCHANGED <<note, summary, worker, handler, rounds, fanout, announced>>

DeleteNote ==
    /\ bounds.trash < MaxTrash /\ ~note.trashed
    /\ note' = [note EXCEPT !.trashed = TRUE]
    /\ bounds' = [bounds EXCEPT !.trash = @ + 1]
    /\ UNCHANGED <<summary, job, worker, handler, rounds, fanout, announced>>

RestoreNote ==
    /\ note.trashed
    /\ note' = [note EXCEPT !.trashed = FALSE]
    /\ UNCHANGED <<summary, job, worker, handler, rounds, fanout, announced, bounds>>

\* The process dies or its context is cancelled; once its lease has expired a
\* job it was running is pending again.
Crash(w) ==
    /\ worker[w].pc # "idle"
    /\ bounds.faults < MaxFaults
    /\ job' = [job EXCEPT ![worker[w].job].status = IF @ = "running" THEN "pending" ELSE @]
    /\ Return(w)
    /\ bounds' = [bounds EXCEPT !.faults = @ + 1]
    /\ UNCHANGED <<note, summary, handler, rounds, fanout, announced>>

\* A statement of the request fails, or its client goes away.
AbandonRequest(h) ==
    /\ handler[h].pc \notin {"new", "over"}
    /\ bounds.faults < MaxFaults
    /\ handler' = [handler EXCEPT ![h].pc = "over"]
    /\ bounds' = [bounds EXCEPT !.faults = @ + 1]
    /\ UNCHANGED <<note, summary, job, worker, rounds, fanout, announced>>

-----------------------------------------------------------------------------
HandlerStep(h) ==
    \/ DeleteNoteSummaries(h)
    \/ SetSummarizing(h)
    \/ CreatePendingSummary(h)
    \/ EnqueueNoteJob(h)
    \/ EndRound(h)

WorkerStep(w) ==
    \/ \E j \in Jobs : ClaimJob(w, j)
    \/ SkipTrashed(w)
    \/ RunSummarize(w)
    \/ CompleteSummary(w)
    \/ CompleteJob(w)
    \/ FailJob(w)
    \/ FailSummary(w)
    \/ CountActiveSummarizeJobs(w)
    \/ MarkNoteReady(w)
    \/ Announce(w)

Next ==
    \/ EnqueueSummarizeJobsIfCurrent
    \/ \E h \in Handlers, kind \in Kinds : Begin(h, kind)
    \/ \E h \in Handlers : HandlerStep(h)
    \/ \E w \in Workers : WorkerStep(w)
    \/ \E j \in Jobs : CancelJob(j)
    \/ \E f, j \in Jobs : RetryJob(f, j)
    \/ DeleteNote
    \/ RestoreNote
    \/ \E w \in Workers : Crash(w)
    \/ \E h \in Handlers : AbandonRequest(h)

Spec == Init /\ [][Next]_vars

\* Worker goroutines loop until shutdown and a handler runs to its return.
FairSpec ==
    /\ Spec
    /\ \A w \in Workers : WF_vars(WorkerStep(w))
    /\ \A h \in Handlers : WF_vars(HandlerStep(h))

-----------------------------------------------------------------------------
(* Properties.                                                             *)

Active == \E j \in Jobs : job[j].status \in {"pending", "running"}

\* Nobody has intervened: no crash, abandoned request, cancellation or trash.
Undisturbed == bounds = [faults |-> 0, admin |-> 0, trash |-> 0]

\* A summary is pending only while something will still decide it: a live job,
\* the worker about to mark it failed, or the request about to enqueue its job.
PendingIsOwed ==
    \A s \in Jobs : Undisturbed /\ summary[s].state = "pending" =>
        \/ \E j \in Jobs : job[j].summary = s /\ job[j].status \in {"pending", "running"}
        \/ \E w \in Workers : /\ worker[w].pc = "fail-summary"
                              /\ job[worker[w].job].summary = s
        \/ \E h \in Handlers : handler[h].pc = "enqueue" /\ handler[h].new = s

\* What summaries.go calls "the single summary row (if any)" of a (note,
\* template) pair.
OneSummaryPerTemplate ==
    \A s, t \in Jobs :
        /\ summary[s].state # "absent" /\ summary[t].state # "absent"
        /\ summary[s].template = summary[t].template
        => s = t

\* inFlightGuard: however many resummarize requests overlap, a template is left
\* with one summary.  Single-template requests take no guard and may leave two,
\* and so may a fan-out that finds a request under way.
GuardKeepsOneSummary ==
    (\A h \in Handlers : handler[h].kind \in {"none", "resummarize"})
        => OneSummaryPerTemplate

\* FinalizeNote: the ready side effects "fire exactly once per note, even
\* under a race".  No round is announced twice, whatever finalizers and
\* guarded requests overlap.
AnnouncedOnce == TypeOK /\ GuardKeepsOneSummary /\ announced <= rounds

\* The note never stays in 'summarizing': the worker that settles the last job
\* finds none active and flips it to ready.
SummarizingEnds == note.status = "summarizing" ~> note.status # "summarizing"

\* It does not, however rounds overlap, while nobody intervenes.
RoundsEnd ==
    Undisturbed /\ note.status = "summarizing" ~> ~Undisturbed \/ note.status # "summarizing"

-----------------------------------------------------------------------------
(* Expected by comments in the code, and not so: README.md, "Known         *)
(* departures".                                                           *)

\* FinalizeNote makes a note ready "once it has a transcript and no summarize
\* jobs remain pending/running".
ReadyMeansSettled == note.status = "ready" => ~Active
=============================================================================
