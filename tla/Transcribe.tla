----------------------------- MODULE Transcribe -----------------------------
(***************************************************************************)
(* The transcription pipeline of one note: Processor.runTranscribe and     *)
(* handleTerminalFailure (internal/worker/pipeline.go), the store          *)
(* operations it calls on the notes, transcripts and jobs tables, and the  *)
(* requests that compete with it: uploads, retranscribe, retries, live     *)
(* streams and diarization reviews.                                        *)
(*                                                                         *)
(* One step is one database statement, transaction or plugin call.  The    *)
(* leases and attempt counts of the jobs table are JobQueue's subject: a   *)
(* retryable failure here either requeues the job or is its last attempt.  *)
(* The summarize jobs are one flag: some are queued or running, or none.   *)
(***************************************************************************)
EXTENDS Integers

CONSTANTS
    Jobs,        \* transcribe jobs that requests may create
    Workers,     \* worker goroutines
    Keys,        \* audio objects the client has uploaded
    MaxFaults,   \* bound: crashes, failed statements and lease overruns
    MaxStreams,  \* bound: live streams started on the note
    MaxReviews   \* bound: review transitions requested

\* Ids of jobs are not one of the words that stand for the lack of one.
ASSUME ConstantsAssumption ==
    /\ Jobs \cap {"nobody", "stream", "none"} = {}
    /\ MaxFaults \in Nat
    /\ MaxStreams \in Nat
    /\ MaxReviews \in Nat

VARIABLES
    note,        \* the notes row
    transcript,  \* the note's transcripts row
    job,         \* its transcribe jobs, from the request that creates them on
    active,      \* some summarize job of the note is pending or running
    fanout,      \* transcript generation at the latest summarize fan-out
    storage,     \* audio objects present in the object store
    worker,      \* what each worker goroutine holds in memory
    stream,      \* the live stream handler
    review,      \* the diarization review handler
    faults,      \* faults so far
    config       \* embedded: a server that completes reviews by itself;
                 \* discard: AudioRetention = "discard"

vars == <<note, transcript, job, active, fanout, storage, worker, stream, review,
          faults, config>>

Statuses == {"draft", "uploaded", "transcribing", "summarizing", "ready", "failed"}
ReviewStates == {"pending", "in_review", "completed"}
Generations == Nat

\* hash stands for the audio_hash columns: the object they were taken from.
Note == [status: Statuses, claim: Jobs \cup {"nobody"}, partial: BOOLEAN,
         retention: {"unset", "kept", "discarded"},
         audio: Keys \cup {"none"}, hash: Keys \cup {"none"}]

\* gen 0: there is no row.  by: the job that published it, or a live stream.
Transcript == [gen: Generations, by: Jobs \cup {"nobody", "stream"},
               review: ReviewStates, partial: BOOLEAN]

\* requested, counted: the handler is before, after reading expected_generation.
\* exp, prior, pub are the payload's expected_generation, claimed_prior_status
\* and published_generation; pub 0 means published is false.
Job == [status: {"absent", "requested", "counted", "pending", "running", "done",
                 "failed"},
        kind: {"none", "upload", "retranscribe", "retry", "admin-retry"},
        key: Keys \cup {"none"}, exp: Generations,
        prior: Statuses \cup {"none"}, pub: Generations]

\* The statement a worker is about to execute.
Steps == {"idle", "check", "claim", "persist", "load", "plugin", "resume", "save",
          "checkpoint", "still", "hash", "partial", "review", "delete", "enqueue",
          "retain", "release", "complete", "fail", "terminal"}

Worker == [pc: Steps, job: Jobs \cup {"none"}, exp: Generations,
           prior: Statuses \cup {"none"}, pub: Generations,
           review: ReviewStates, partial: BOOLEAN, retryable: BOOLEAN]

Idle == [pc |-> "idle", job |-> "none", exp |-> 0, prior |-> "none", pub |-> 0,
         review |-> "pending", partial |-> FALSE, retryable |-> FALSE]

TypeOK ==
    /\ note \in Note
    /\ transcript \in Transcript
    /\ job \in [Jobs -> Job]
    /\ active \in BOOLEAN
    /\ fanout \in Generations
    /\ storage \in SUBSET Keys
    /\ worker \in [Workers -> Worker]
    /\ \A w \in Workers : worker[w].pc # "idle" => worker[w].job \in Jobs
    /\ stream \in [pc: {"idle", "accepted", "opened"}, exp: Generations, started: 0..MaxStreams]
    /\ review \in [pc: {"idle", "read", "written", "fanning"}, exp: Generations,
                   to: ReviewStates, started: 0..MaxReviews]
    /\ faults \in 0..MaxFaults
    /\ config \in [embedded: BOOLEAN, discard: BOOLEAN]

\* A draft note; the objects a client may announce are already uploaded.
Init ==
    /\ note = [status |-> "draft", claim |-> "nobody", partial |-> FALSE,
               retention |-> "unset", audio |-> "none", hash |-> "none"]
    /\ transcript = [gen |-> 0, by |-> "nobody", review |-> "completed", partial |-> FALSE]
    /\ job = [j \in Jobs |-> [status |-> "absent", kind |-> "none", key |-> "none",
                              exp |-> 0, prior |-> "none", pub |-> 0]]
    /\ active = FALSE
    /\ fanout = 0
    /\ storage = Keys
    /\ worker = [w \in Workers |-> Idle]
    /\ stream = [pc |-> "idle", exp |-> 0, started |-> 0]
    /\ review = [pc |-> "idle", exp |-> 0, to |-> "pending", started |-> 0]
    /\ faults = 0
    /\ config \in [embedded: BOOLEAN, discard: BOOLEAN]

-----------------------------------------------------------------------------
(* Requests that enqueue a transcribe job.  Each reads, then inserts.      *)

\* handleAudioUploaded: Verify, then SetNoteAudio whatever the note's status.
Upload(j, k) ==
    /\ job[j].status = "absent"
    /\ k \in storage
    /\ note' = [note EXCEPT !.audio = k, !.status = "uploaded"]
    /\ job' = [job EXCEPT ![j] = [@ EXCEPT !.status = "requested", !.kind = "upload", !.key = k]]
    /\ UNCHANGED <<transcript, active, fanout, storage, worker, stream, review, faults, config>>

\* handleRetranscribe: the in-flight guard and retranscribeConflictReason.
Retranscribe(j) ==
    /\ job[j].status = "absent"
    /\ \A i \in Jobs : ~(/\ job[i].kind = "retranscribe"
                         /\ job[i].status \in {"requested", "counted"})
    /\ note.audio # "none" /\ note.retention # "discarded"
    /\ note.status \in {"ready", "failed"}
    /\ job' = [job EXCEPT ![j] = [@ EXCEPT !.status = "requested", !.kind = "retranscribe",
                                           !.key = note.audio]]
    /\ UNCHANGED <<note, transcript, active, fanout, storage, worker, stream, review, faults, config>>

\* handleRetryNote on a failed note, handleRetryJob on any: a copy of a failed
\* job with its claim lineage and checkpoint cleared.
Retry(j, kind) ==
    /\ job[j].status = "absent"
    /\ kind = "retry" => note.status = "failed"
    /\ \E f \in Jobs :
          /\ job[f].status = "failed"
          /\ job' = [job EXCEPT ![j] = [@ EXCEPT !.status = "requested", !.kind = kind,
                                                 !.key = job[f].key]]
    /\ UNCHANGED <<note, transcript, active, fanout, storage, worker, stream, review, faults, config>>

\* CurrentTranscriptGeneration, read by every enqueue site.
ReadExpectedGeneration(j) ==
    /\ job[j].status = "requested"
    /\ job' = [job EXCEPT ![j] = [@ EXCEPT !.status = "counted", !.exp = transcript.gen]]
    /\ UNCHANGED <<note, transcript, active, fanout, storage, worker, stream, review, faults, config>>

\* EnqueueNoteJob, or for a retried note the RetryNote transaction.
Enqueue(j) ==
    /\ job[j].status = "counted"
    /\ job' = [job EXCEPT ![j].status = "pending"]
    /\ note' = IF job[j].kind = "retry"
               THEN [note EXCEPT !.status = "uploaded", !.partial = FALSE] ELSE note
    /\ UNCHANGED <<transcript, active, fanout, storage, worker, stream, review, faults, config>>

-----------------------------------------------------------------------------
(* runTranscribe, statement by statement.                                  *)

Goto(w, pc) == worker' = [worker EXCEPT ![w].pc = pc]

\* The transcript this job published is still the note's.
StillOurs(w) == transcript.gen = worker[w].pub

\* ClaimJob and the decoding of the payload.
ClaimJob(w, j) ==
    /\ worker[w].pc = "idle"
    /\ job[j].status = "pending"
    /\ job' = [job EXCEPT ![j].status = "running"]
    /\ worker' = [worker EXCEPT ![w] = [Idle EXCEPT !.pc = "check", !.job = j,
                     !.exp = job[j].exp, !.prior = job[j].prior, !.pub = job[j].pub]]
    /\ UNCHANGED <<note, transcript, active, fanout, storage, stream, review, faults, config>>

\* A stale job goes on to release the claim an earlier attempt left, if any.
CheckGeneration(w) ==
    LET required == IF worker[w].pub # 0 THEN worker[w].pub ELSE worker[w].exp
    IN  /\ worker[w].pc = "check"
        /\ Goto(w, IF transcript.gen = required THEN "claim" ELSE "release")
        /\ UNCHANGED <<note, transcript, job, active, fanout, storage, stream, review, faults, config>>

ClaimNoteForTranscription(w) ==
    LET j == worker[w].job
    IN  /\ worker[w].pc = "claim"
        /\ IF note.claim = j
           THEN UNCHANGED note /\ Goto(w, "load")
           ELSE /\ note' = [note EXCEPT !.status = "transcribing", !.claim = j]
                /\ worker' = [worker EXCEPT ![w] = [@ EXCEPT !.pc = "persist",
                                                             !.prior = note.status]]
        /\ UNCHANGED <<transcript, job, active, fanout, storage, stream, review, faults, config>>

\* UpdateJobPayload replaces the row's payload by the worker's copy.
Persist(w) ==
    job' = [job EXCEPT ![worker[w].job] = [@ EXCEPT !.exp = worker[w].exp,
                !.prior = worker[w].prior, !.pub = worker[w].pub]]

PersistPriorStatus(w) ==
    /\ worker[w].pc = "persist"
    /\ Persist(w)
    /\ Goto(w, "load")
    /\ UNCHANGED <<note, transcript, active, fanout, storage, stream, review, faults, config>>

LoadNote(w) ==
    /\ worker[w].pc = "load"
    /\ Goto(w, IF worker[w].pub # 0 THEN "resume" ELSE "plugin")
    /\ UNCHANGED <<note, transcript, job, active, fanout, storage, stream, review, faults, config>>

\* A retry that has already published takes up after the save.
ResumeAfterPublication(w) ==
    /\ worker[w].pc = "resume"
    /\ worker' = [worker EXCEPT ![w] = [@ EXCEPT !.pc = "still", !.review = transcript.review]]
    /\ UNCHANGED <<note, transcript, job, active, fanout, storage, stream, review, faults, config>>

\* The plugin reads the audio and returns a whole or a partial transcript,
\* whose speaker labels do or do not call for a review.
PluginAnswers(w, partial, state) ==
    /\ worker[w].pc = "plugin"
    /\ job[worker[w].job].key \in storage
    /\ worker' = [worker EXCEPT ![w] = [@ EXCEPT !.pc = "save", !.partial = partial,
                                                 !.review = state]]
    /\ UNCHANGED <<note, transcript, job, active, fanout, storage, stream, review, faults, config>>

PluginFails(w, retryable) ==
    /\ worker[w].pc = "plugin"
    /\ worker' = [worker EXCEPT ![w] = [@ EXCEPT !.pc = "fail", !.retryable = retryable]]
    /\ UNCHANGED <<note, transcript, job, active, fanout, storage, stream, review, faults, config>>

SaveTranscript(w) ==
    /\ worker[w].pc = "save"
    /\ IF transcript.gen # worker[w].exp
       THEN UNCHANGED <<note, transcript>> /\ Goto(w, "release")
       ELSE /\ note' = [note EXCEPT !.claim = "nobody"]
            /\ transcript' = [gen |-> transcript.gen + 1, by |-> worker[w].job,
                              review |-> worker[w].review, partial |-> worker[w].partial]
            /\ worker' = [worker EXCEPT ![w] = [@ EXCEPT !.pc = "checkpoint",
                                                         !.pub = transcript.gen + 1]]
    /\ UNCHANGED <<job, active, fanout, storage, stream, review, faults, config>>

\* Mutation: the checkpoint advances expected_generation instead.
CheckpointAdvancesExpected(w) ==
    /\ worker[w].pc = "checkpoint"
    /\ job' = [job EXCEPT ![worker[w].job] = [@ EXCEPT !.exp = worker[w].pub]]
    /\ Goto(w, "still")
    /\ UNCHANGED <<note, transcript, active, fanout, storage, stream, review, faults, config>>

CheckpointPublication(w) ==
    /\ worker[w].pc = "checkpoint"
    /\ Persist(w)
    /\ Goto(w, "still")
    /\ UNCHANGED <<note, transcript, active, fanout, storage, stream, review, faults, config>>

TranscriptStillCurrent(w) ==
    /\ worker[w].pc = "still"
    /\ Goto(w, IF StillOurs(w) THEN "hash" ELSE "release")
    /\ UNCHANGED <<note, transcript, job, active, fanout, storage, stream, review, faults, config>>

\* hashNoteAudio may fail, which is logged and skipped.
SetNoteHashes(w) ==
    LET k == job[worker[w].job].key
    IN  /\ worker[w].pc = "hash"
        /\ \/ UNCHANGED note /\ Goto(w, "partial")
           \/ /\ k \in storage
              /\ note' = IF StillOurs(w) THEN [note EXCEPT !.hash = k] ELSE note
              /\ Goto(w, IF StillOurs(w) THEN "partial" ELSE "release")
        /\ UNCHANGED <<transcript, job, active, fanout, storage, stream, review, faults, config>>

\* A partial result marks the note and then fails the job for good.
SetNotePartialTranscript(w) ==
    /\ worker[w].pc = "partial"
    /\ note' = IF StillOurs(w) THEN [note EXCEPT !.partial = worker[w].partial] ELSE note
    /\ worker' = [worker EXCEPT ![w] = [@ EXCEPT
                     !.pc = IF ~StillOurs(w) THEN "release"
                            ELSE IF worker[w].partial THEN "fail" ELSE "review",
                     !.retryable = FALSE]]
    /\ UNCHANGED <<transcript, job, active, fanout, storage, stream, review, faults, config>>

\* Summaries wait for the review, which an embedded server completes itself.
HoldForReview(w) ==
    /\ worker[w].pc = "review"
    /\ \/ /\ worker[w].review = "completed"
          /\ UNCHANGED transcript /\ Goto(w, "delete")
       \/ /\ worker[w].review # "completed" /\ ~config.embedded
          /\ UNCHANGED transcript /\ Goto(w, "retain")
       \/ /\ worker[w].review # "completed" /\ config.embedded /\ StillOurs(w)
          /\ transcript' = [transcript EXCEPT !.review = "completed"]
          /\ Goto(w, "delete")
       \/ /\ worker[w].review # "completed" /\ config.embedded /\ ~StillOurs(w)
          /\ UNCHANGED transcript
          /\ worker' = [worker EXCEPT ![w] = [@ EXCEPT !.pc = "fail", !.retryable = TRUE]]
    /\ UNCHANGED <<note, job, active, fanout, storage, stream, review, faults, config>>

DeleteNoteSummaries(w) ==
    /\ worker[w].pc = "delete"
    /\ Goto(w, IF StillOurs(w) THEN "enqueue" ELSE "release")
    /\ UNCHANGED <<note, transcript, job, active, fanout, storage, stream, review, faults, config>>

\* The fan-out: summarize jobs and the status, or ready when no template of the
\* owner runs automatically just then.
FanOut ==
    /\ \/ note' = [note EXCEPT !.status = "summarizing"] /\ active' = TRUE
       \/ note' = [note EXCEPT !.status = "ready"] /\ UNCHANGED active
    /\ fanout' = transcript.gen

\* Mutation: compares with the generation observed at enqueue.
EnqueueSummarizeJobsExpected(w) ==
    /\ worker[w].pc = "enqueue"
    /\ IF transcript.gen = worker[w].exp
       THEN FanOut /\ Goto(w, "retain")
       ELSE UNCHANGED <<note, active, fanout>> /\ Goto(w, "release")
    /\ UNCHANGED <<transcript, job, storage, stream, review, faults, config>>

EnqueueSummarizeJobs(w) ==
    /\ worker[w].pc = "enqueue"
    /\ IF StillOurs(w)
       THEN FanOut /\ Goto(w, "retain")
       ELSE UNCHANGED <<note, active, fanout>> /\ Goto(w, "release")
    /\ UNCHANGED <<transcript, job, storage, stream, review, faults, config>>

\* Mutation: the generation is not checked again before the delete.
ApplyAudioRetentionUnchecked(w) ==
    /\ worker[w].pc = "retain"
    /\ IF config.discard
       THEN /\ note' = [note EXCEPT !.retention = "discarded"]
            /\ storage' = storage \ {job[worker[w].job].key}
       ELSE /\ note' = [note EXCEPT !.retention = "kept"]
            /\ UNCHANGED storage
    /\ Goto(w, "complete")
    /\ UNCHANGED <<transcript, job, active, fanout, stream, review, faults, config>>

\* applyAudioRetention; a failing storage.Delete leaves everything as it is.
ApplyAudioRetention(w) ==
    LET k == job[worker[w].job].key
    IN  /\ worker[w].pc = "retain"
        /\ \/ /\ ~StillOurs(w)
              /\ UNCHANGED <<note, storage>> /\ Goto(w, "release")
           \/ /\ StillOurs(w) /\ config.discard
              /\ \/ /\ note' = [note EXCEPT !.retention = "discarded"]
                    /\ storage' = storage \ {k}
                 \/ UNCHANGED <<note, storage>>
              /\ Goto(w, "complete")
           \/ /\ StillOurs(w) /\ ~config.discard
              /\ note' = [note EXCEPT !.retention = "kept"]
              /\ UNCHANGED storage /\ Goto(w, "complete")
        /\ UNCHANGED <<transcript, job, active, fanout, stream, review, faults, config>>

\* releaseTranscribeClaim: only while this job's own claim still stands, and
\* only if the status it displaced is known.
ReleaseTranscribeClaim(w) ==
    LET standing == /\ worker[w].prior # "none"
                    /\ note.status = "transcribing" /\ note.claim = worker[w].job
    IN  /\ worker[w].pc = "release"
        /\ note' = IF standing
                   THEN [note EXCEPT !.status = worker[w].prior, !.claim = "nobody"]
                   ELSE note
        /\ Goto(w, "complete")
        /\ UNCHANGED <<transcript, job, active, fanout, storage, stream, review, faults, config>>

CompleteJob(w) ==
    /\ worker[w].pc = "complete"
    /\ job' = [job EXCEPT ![worker[w].job].status = "done"]
    /\ worker' = [worker EXCEPT ![w] = Idle]
    /\ UNCHANGED <<note, transcript, active, fanout, storage, stream, review, faults, config>>

\* FailJob requeues a retryable failure, unless it was the last attempt.
FailJob(w) ==
    /\ worker[w].pc = "fail"
    /\ \/ /\ worker[w].retryable
          /\ job' = [job EXCEPT ![worker[w].job].status = "pending"]
          /\ worker' = [worker EXCEPT ![w] = Idle]
       \/ /\ job' = [job EXCEPT ![worker[w].job].status = "failed"]
          /\ Goto(w, "terminal")
    /\ UNCHANGED <<note, transcript, active, fanout, storage, stream, review, faults, config>>

\* Mutation: fails the note only under the job's own claim, which a save clears.
HandleTerminalFailureIfClaimed(w) ==
    /\ worker[w].pc = "terminal"
    /\ note' = IF note.claim = worker[w].job THEN [note EXCEPT !.status = "failed"] ELSE note
    /\ worker' = [worker EXCEPT ![w] = Idle]
    /\ UNCHANGED <<transcript, job, active, fanout, storage, stream, review, faults, config>>

HandleTerminalFailure(w) ==
    /\ worker[w].pc = "terminal"
    /\ note' = [note EXCEPT !.status = "failed"]
    /\ worker' = [worker EXCEPT ![w] = Idle]
    /\ UNCHANGED <<transcript, job, active, fanout, storage, stream, review, faults, config>>

-----------------------------------------------------------------------------
(* Faults.                                                                 *)

Fault == faults < MaxFaults /\ faults' = faults + 1 /\ UNCHANGED config

\* A statement fails and runTranscribe returns its error; GetNoteByID's is
\* the one it classifies as not retryable.
StatementFails(w) ==
    /\ Fault
    /\ worker[w].pc \in {"check", "claim", "persist", "load", "resume", "save",
                         "checkpoint", "still", "review", "delete", "enqueue"}
    /\ worker' = [worker EXCEPT ![w] = [@ EXCEPT !.pc = "fail",
                                                 !.retryable = worker[w].pc # "load"]]
    /\ UNCHANGED <<note, transcript, job, active, fanout, storage, stream, review>>

\* A statement fails whose error is only logged: the partial flag, the retention
\* state or the claim stays as it is and the job goes on.  The audio may be deleted
\* already when the transaction that records it fails.
LoggedStatementFails(w) ==
    /\ Fault
    /\ worker[w].pc \in {"partial", "retain", "release"}
    /\ worker' = [worker EXCEPT ![w] = [@ EXCEPT
                     !.pc = IF worker[w].pc # "partial" THEN "complete"
                            ELSE IF worker[w].partial THEN "fail" ELSE "review",
                     !.retryable = FALSE]]
    /\ \/ UNCHANGED storage
       \/ /\ worker[w].pc = "retain" /\ config.discard /\ StillOurs(w)
          /\ storage' = storage \ {job[worker[w].job].key}
    /\ UNCHANGED <<note, transcript, job, active, fanout, stream, review>>

\* ResetExpiredRunningJobs: a running row whose lease has expired is pending again.
ResetExpiredRunningJobs(j) ==
    job' = IF job[j].status = "running" THEN [job EXCEPT ![j].status = "pending"] ELSE job

\* The process dies, or a settling write fails.  The row stays running until its
\* lease has expired; nobody else can act on it before, so it is reset here.
Crash(w) ==
    /\ Fault
    /\ worker[w].pc # "idle"
    /\ ResetExpiredRunningJobs(worker[w].job)
    /\ worker' = [worker EXCEPT ![w] = Idle]
    /\ UNCHANGED <<note, transcript, active, fanout, storage, stream, review>>

\* The lease expires under a live worker: the row is claimable once more.
LeaseOverrun(w) ==
    /\ Fault
    /\ worker[w].pc # "idle" /\ job[worker[w].job].status = "running"
    /\ ResetExpiredRunningJobs(worker[w].job)
    /\ UNCHANGED <<note, transcript, active, fanout, storage, worker, stream, review>>

-----------------------------------------------------------------------------
(* Live streams, reviews and summaries of the same note.                   *)

\* handleNoteStream accepts a note that is not mid-pipeline...
StreamAccepted ==
    /\ stream.pc = "idle" /\ stream.started < MaxStreams
    /\ note.status \notin {"uploaded", "transcribing", "summarizing"}
    /\ stream' = [stream EXCEPT !.pc = "accepted", !.started = @ + 1]
    /\ UNCHANGED <<note, transcript, job, active, fanout, storage, worker, review, faults, config>>

\* ...opens a plugin session, reads the generation...
StreamOpened ==
    /\ stream.pc = "accepted"
    /\ stream' = [stream EXCEPT !.pc = "opened", !.exp = transcript.gen]
    /\ UNCHANGED <<note, transcript, job, active, fanout, storage, worker, review, faults, config>>

\* ...and replaces a stream-owned transcript, never a batch one, leaving any
\* job's claim on the note in place.
CreateStreamTranscript ==
    /\ stream.pc = "opened"
    /\ transcript' = IF transcript.by \in {"nobody", "stream"} /\ transcript.gen = stream.exp
                     THEN [gen |-> transcript.gen + 1, by |-> "stream",
                           review |-> "completed", partial |-> FALSE]
                     ELSE transcript
    /\ stream' = [stream EXCEPT !.pc = "idle", !.exp = 0]
    /\ UNCHANGED <<note, job, active, fanout, storage, worker, review, faults, config>>

IsLegalTransition(from, to) ==
    <<from, to>> \in {<<"pending", "in_review">>, <<"in_review", "completed">>,
                      <<"in_review", "pending">>, <<"completed", "in_review">>}

\* UpdateReviewState reads state and generation...
ReviewRead(to) ==
    /\ review.pc = "idle" /\ review.started < MaxReviews
    /\ transcript.gen # 0
    /\ IsLegalTransition(transcript.review, to)
    /\ review' = [pc |-> "read", exp |-> transcript.gen, to |-> to,
                  started |-> review.started + 1]
    /\ UNCHANGED <<note, transcript, job, active, fanout, storage, worker, stream, faults, config>>

ReviewDone == [review EXCEPT !.pc = "idle", !.exp = 0, !.to = "pending"]

\* ...and writes where the generation still matches.
ReviewWrite ==
    LET matched == transcript.gen = review.exp
    IN  /\ review.pc = "read"
        /\ transcript' = IF matched THEN [transcript EXCEPT !.review = review.to] ELSE transcript
        /\ review' = IF matched /\ review.to = "completed"
                     THEN [review EXCEPT !.pc = "written"]
                     ELSE ReviewDone
        /\ UNCHANGED <<note, job, active, fanout, storage, worker, stream, faults, config>>

\* A completed review releases the summaries, whatever the note is doing now:
\* EnqueueSummarizeJobs without a transaction, first the status...
ReviewFanOut ==
    /\ review.pc = "written"
    /\ note' = [note EXCEPT !.status = "summarizing"]
    /\ review' = [review EXCEPT !.pc = "fanning"]
    /\ UNCHANGED <<transcript, job, active, fanout, storage, worker, stream, faults, config>>

\* ...and then the jobs, or the status again when there is no template.
ReviewEnqueues ==
    /\ review.pc = "fanning"
    /\ \/ active' = TRUE /\ UNCHANGED note
       \/ note' = [note EXCEPT !.status = "ready"] /\ UNCHANGED active
    /\ fanout' = transcript.gen
    /\ review' = ReviewDone
    /\ UNCHANGED <<transcript, job, storage, worker, stream, faults, config>>

\* A statement of the review request fails, and the request with it.
ReviewFails ==
    /\ Fault
    /\ review.pc # "idle"
    /\ review' = ReviewDone
    /\ UNCHANGED <<note, transcript, job, active, fanout, storage, worker, stream>>

\* The last summarize job settles and FinalizeNote marks the note ready.
SummariesSettle ==
    /\ active
    /\ active' = FALSE
    /\ note' = IF transcript.gen # 0 THEN [note EXCEPT !.status = "ready"] ELSE note
    /\ UNCHANGED <<transcript, job, fanout, storage, worker, stream, review, faults, config>>

-----------------------------------------------------------------------------
RunTranscribe(w) ==
    \/ \E j \in Jobs : ClaimJob(w, j)
    \/ CheckGeneration(w)
    \/ ClaimNoteForTranscription(w)
    \/ PersistPriorStatus(w)
    \/ LoadNote(w)
    \/ ResumeAfterPublication(w)
    \/ \E partial \in BOOLEAN, state \in {"pending", "completed"} :
          PluginAnswers(w, partial, state)
    \/ \E retryable \in BOOLEAN : PluginFails(w, retryable)
    \/ SaveTranscript(w)
    \/ CheckpointPublication(w)
    \/ TranscriptStillCurrent(w)
    \/ SetNoteHashes(w)
    \/ SetNotePartialTranscript(w)
    \/ HoldForReview(w)
    \/ DeleteNoteSummaries(w)
    \/ EnqueueSummarizeJobs(w)
    \/ ApplyAudioRetention(w)
    \/ ReleaseTranscribeClaim(w)
    \/ CompleteJob(w)
    \/ FailJob(w)
    \/ HandleTerminalFailure(w)

Next ==
    \/ \E j \in Jobs, k \in Keys : Upload(j, k)
    \/ \E j \in Jobs : Retranscribe(j)
    \/ \E j \in Jobs, kind \in {"retry", "admin-retry"} : Retry(j, kind)
    \/ \E j \in Jobs : ReadExpectedGeneration(j)
    \/ \E j \in Jobs : Enqueue(j)
    \/ \E w \in Workers : RunTranscribe(w)
    \/ \E w \in Workers : StatementFails(w)
    \/ \E w \in Workers : LoggedStatementFails(w)
    \/ \E w \in Workers : Crash(w)
    \/ \E w \in Workers : LeaseOverrun(w)
    \/ StreamAccepted
    \/ StreamOpened
    \/ CreateStreamTranscript
    \/ \E to \in ReviewStates : ReviewRead(to)
    \/ ReviewWrite
    \/ ReviewFanOut
    \/ ReviewEnqueues
    \/ ReviewFails
    \/ SummariesSettle

Spec == Init /\ [][Next]_vars

-----------------------------------------------------------------------------
(* Properties.                                                             *)

\* Nothing that could still move the note is under way.
Quiescent ==
    /\ \A w \in Workers : worker[w].pc = "idle"
    /\ \A j \in Jobs : job[j].status \in {"absent", "done", "failed"}
    /\ ~active
    /\ stream.pc = "idle"
    /\ review.pc = "idle"

\* A retry of a job never replaces the transcript that job itself published,
\* and with it a review the user has made since.
OwnTranscriptStands ==
    [][transcript'.gen # transcript.gen /\ transcript.by \in Jobs
           => transcript'.by # transcript.by]_vars

\* Audio is deleted only on the authority of the current transcript, by the
\* job that published it.
DiscardIsOwned ==
    [][storage' # storage
           => \E w \in Workers : /\ worker[w].pc = "retain" /\ worker'[w].pc # "retain"
                                 /\ worker[w].job = transcript.by]_vars

\* When all work has ended without a fault, the note is not left mid-pipeline.
\* There are two exceptions.  A server that is not embedded lets it wait for the
\* diarization review of its transcript.  And where a live stream has won the
\* transcript from the note's jobs, they end as stale and restore the status each
\* displaced: 'uploaded', or the 'transcribing' of another job that has ended too.
NotStuck ==
    TypeOK /\ (faults = 0 /\ Quiescent /\ note.status \in {"uploaded", "transcribing", "summarizing"}
        => \/ transcript.review # "completed" /\ ~config.embedded
           \/ transcript.by = "stream")

\* A job that is done while its transcript is the note's, whole and reviewed,
\* has requested summaries from that very transcript.
DoneMeansFannedOut ==
    \A j \in Jobs :
        job[j].status = "done" /\ transcript.by = j /\ ~transcript.partial
                /\ transcript.review = "completed" /\ review.pc \notin {"written", "fanning"}
            => fanout = transcript.gen

\* So it is as long as no statement fails and no process dies between the save
\* of the transcript and the fan-out: stale jobs, retries, reviews and streams
\* in between do not keep the current transcript from being summarized.
CurrentIsFannedOut == faults = 0 => DoneMeansFannedOut

\* A note is never locked out of retranscribe for audio that still exists.
DiscardedMeansGone ==
    note.retention = "discarded" => note.audio \notin storage

-----------------------------------------------------------------------------
(* Expected by comments in the code, and not so: README.md, "Known         *)
(* departures".                                                           *)

\* A job whose transcript has been superseded does not fail the note.
StaleJobTouchesNothing ==
    [][\A w \in Workers :
           worker[w].pc = "terminal" /\ worker'[w].pc = "idle" /\ note'.status = "failed"
               => transcript.gen \in {worker[w].exp, worker[w].pub}]_vars

\* A job that may still publish finds its audio.
AudioAwaitsRetry ==
    \A j \in Jobs :
        job[j].status = "pending" /\ job[j].pub = 0 /\ job[j].exp = transcript.gen
            => job[j].key \in storage
=============================================================================
