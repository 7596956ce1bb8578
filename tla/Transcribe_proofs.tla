------------------------- MODULE Transcribe_proofs -------------------------
(***************************************************************************)
(* Proofs about Transcribe, for any set of jobs, workers and audio objects *)
(* and any number of faults, streams and reviews.                          *)
(*                                                                         *)
(* Nothing in the code locks the transcript: each statement compares its   *)
(* generation with a number that was put down earlier, in a row or in a    *)
(* worker's memory.  Lineage says what those numbers are worth: a job's    *)
(* expected generation is older than any transcript it published, and a    *)
(* generation a job remembers as its own is nobody else's.  It survives    *)
(* every fault, and OwnTranscriptStands and DiscardIsOwned follow from it. *)
(*                                                                         *)
(* CurrentIsFannedOut needs more: Smooth, which one fault breaks.  The     *)
(* publisher of the current transcript has one worker, never starts over   *)
(* and is on its way to the fan-out until the fan-out is made.             *)
(*                                                                         *)
(* The proofs first reduce every action to the few facts the invariants    *)
(* depend on (LocalStep, EarlyStep, GuardedStep, RequestStep, TableStep,   *)
(* AsideStep, LossStep), and then argue about those.                       *)
(***************************************************************************)
EXTENDS Transcribe, TLAPS

\* The statements that follow a publication and are guarded by its generation.
Guarded == {"checkpoint", "still", "hash", "partial", "review", "delete", "enqueue", "retain"}

\* The row has been inserted: the request that fills it in is over.
Filed == {"pending", "running", "done", "failed"}

\* A checkpointed generation is not ahead of the transcript, and if it is the
\* transcript's then that is the job's.
Published(t, p, j) ==
    p # 0 => p <= t.gen /\ (p = t.gen => t.by = j)

\* What a worker remembers of its job.
WorkerLineage ==
    \A w \in Workers : worker[w].pc # "idle" =>
        /\ job[worker[w].job].status \in Filed
        /\ worker[w].exp = job[worker[w].job].exp
        /\ Published(transcript, worker[w].pub, worker[w].job)
        /\ worker[w].pc \in Guarded \cup {"resume"} => worker[w].pub # 0

\* What the row of a job says; in particular a job whose transcript is the
\* note's has seen an earlier one when it was enqueued.
JobLineage ==
    \A j \in Jobs :
        /\ Published(transcript, job[j].pub, j)
        /\ transcript.by = j => job[j].status \in Filed /\ job[j].exp < transcript.gen

Lineage == TypeOK /\ WorkerLineage /\ JobLineage

\* The worker is at job j.
Working(w, j) == worker[w].pc # "idle" /\ worker[w].job = j

\* Without faults a job has one worker, and the row says so.
OneWorkerEach ==
    \A w \in Workers : worker[w].pc # "idle" =>
        /\ job[worker[w].job].status = IF worker[w].pc = "terminal" THEN "failed" ELSE "running"
        /\ \A v \in Workers : Working(v, worker[w].job) => v = w

\* The publisher of the current transcript does not start over.
PublisherGoesOn ==
    /\ \A j \in Jobs : transcript.by = j => job[j].status \in {"running", "done", "failed"}
    /\ \A w \in Workers : Working(w, transcript.by) =>
        /\ worker[w].pc \in Guarded \cup {"complete", "fail", "terminal"}
        /\ worker[w].pub = transcript.gen
        /\ worker[w].partial = transcript.partial
        /\ worker[w].pc = "fail" => transcript.partial /\ ~worker[w].retryable

\* The worker is on its way to the fan-out.
WillFanOut(w) ==
    \/ worker[w].pc \in {"delete", "enqueue"}
    \/ /\ worker[w].pc \in {"checkpoint", "still", "hash", "partial", "review"}
       /\ worker[w].review = "completed" \/ config.embedded

\* The current transcript, whole and reviewed, is fanned out, or its publisher
\* will do it.
FanOutIsOwed ==
    transcript.by \in Jobs /\ ~transcript.partial
            /\ transcript.review = "completed" /\ review.pc \notin {"written", "fanning"}
        => \/ fanout = transcript.gen
           \/ \E w \in Workers : worker[w].job = transcript.by /\ WillFanOut(w)

Smooth == OneWorkerEach /\ PublisherGoesOn /\ FanOutIsOwed

IInv == Lineage /\ (faults = 0 => Smooth)

-----------------------------------------------------------------------------
(* What the statements do to the rows, to a worker's memory and to the     *)
(* table of workers.                                                       *)

\* A worker's memory after a step: where it is, and what else it holds.
Memory(e, m, pc, pub, rev, partial, retryable) ==
    /\ e \in Worker /\ e.pc = pc /\ e.job = m.job /\ e.exp = m.exp /\ e.pub = pub
    /\ e.review = rev /\ e.partial = partial /\ e.retryable = retryable

\* A worker that only moves on.
LEMMA MoveOn ==
    ASSUME NEW m \in Worker, NEW pc \in Steps
    PROVE  Memory([m EXCEPT !.pc = pc],
                  m, pc, m.pub, m.review, m.partial, m.retryable)
BY DEF Worker, Memory

\* A worker that claims the note remembers the status it displaces.
LEMMA MoveWithPrior ==
    ASSUME NEW m \in Worker, NEW pc \in Steps, NEW st \in Statuses
    PROVE  Memory([m EXCEPT !.pc = pc, !.prior = st],
                  m, pc, m.pub, m.review, m.partial, m.retryable)
BY DEF Worker, Memory

\* A worker that resumes has the review state of the transcript.
LEMMA MoveWithReview ==
    ASSUME NEW m \in Worker, NEW pc \in Steps, NEW r \in ReviewStates
    PROVE  Memory([m EXCEPT !.pc = pc, !.review = r],
                  m, pc, m.pub, r, m.partial, m.retryable)
BY DEF Worker, Memory

\* A worker that has the plugin's answer.
LEMMA MoveWithAnswer ==
    ASSUME NEW m \in Worker, NEW pc \in Steps, NEW r \in ReviewStates, NEW b \in BOOLEAN
    PROVE  Memory([m EXCEPT !.pc = pc, !.partial = b, !.review = r],
                  m, pc, m.pub, r, b, m.retryable)
BY DEF Worker, Memory

\* A worker that fails, or may.
LEMMA MoveWithVerdict ==
    ASSUME NEW m \in Worker, NEW pc \in Steps, NEW b \in BOOLEAN
    PROVE  Memory([m EXCEPT !.pc = pc, !.retryable = b],
                  m, pc, m.pub, m.review, m.partial, b)
BY DEF Worker, Memory

\* A worker that has published.
LEMMA MoveWithPublication ==
    ASSUME NEW m \in Worker, NEW pc \in Steps, NEW n \in Nat
    PROVE  Memory([m EXCEPT !.pc = pc, !.pub = n],
                  m, pc, n, m.review, m.partial, m.retryable)
BY DEF Worker, Memory, Generations

\* A worker that has decoded the payload of the job it claimed.
LEMMA Decoded ==
    ASSUME NEW j \in Jobs, NEW r \in Job
    PROVE  LET e == [Idle EXCEPT !.pc = "check", !.job = j, !.exp = r.exp,
                                 !.prior = r.prior, !.pub = r.pub]
           IN  /\ e \in Worker /\ e.pc = "check" /\ e.job = j /\ e.exp = r.exp
               /\ e.pub = r.pub
BY DEF Idle, Worker, Job, Steps, ReviewStates, Generations

\* A worker with no job.
LEMMA IdleFacts == Idle \in Worker /\ Idle.pc = "idle"
BY DEF Idle, Worker, Steps, ReviewStates, Generations

\* One worker's memory is replaced, the others' stay.
Replaces(w, e) == worker' = [worker EXCEPT ![w] = e]

\* The table of workers after one of them moved.
LEMMA ReplaceFacts ==
    ASSUME TypeOK, NEW w \in Workers, NEW e \in Worker, Replaces(w, e)
    PROVE  /\ worker' \in [Workers -> Worker]
           /\ worker'[w] = e
           /\ \A v \in Workers : v # w => worker'[v] = worker[v]
           /\ worker[w] \in Worker
BY DEF TypeOK, Replaces

\* What the statements do to the notes row.
LEMMA NoteStatus ==
    ASSUME NEW n \in Note, NEW st \in Statuses
    PROVE  [n EXCEPT !.status = st] \in Note
BY DEF Note

\* Taking or clearing the claim on a note.
LEMMA NoteClaim ==
    ASSUME NEW n \in Note, NEW c \in Jobs \cup {"nobody"}
    PROVE  [n EXCEPT !.claim = c] \in Note
BY DEF Note

\* Claiming a note, or releasing it to the status it had.
LEMMA NoteStatusClaim ==
    ASSUME NEW n \in Note, NEW st \in Statuses, NEW c \in Jobs \cup {"nobody"}
    PROVE  [n EXCEPT !.status = st, !.claim = c] \in Note
BY DEF Note

\* Marking a note as partially transcribed.
LEMMA NotePartial ==
    ASSUME NEW n \in Note, NEW b \in BOOLEAN
    PROVE  [n EXCEPT !.partial = b] \in Note
BY DEF Note

\* A note that is retried.
LEMMA NoteRetried ==
    ASSUME NEW n \in Note
    PROVE  [n EXCEPT !.status = "uploaded", !.partial = FALSE] \in Note
BY DEF Note, Statuses

\* A note whose audio has been kept or discarded.
LEMMA NoteRetention ==
    ASSUME NEW n \in Note, NEW r \in {"kept", "discarded"}
    PROVE  [n EXCEPT !.retention = r] \in Note
BY DEF Note

\* A note whose audio has been uploaded.
LEMMA NoteAudio ==
    ASSUME NEW n \in Note, NEW k \in Keys
    PROVE  [n EXCEPT !.audio = k, !.status = "uploaded"] \in Note
BY DEF Note, Statuses

\* A note whose audio has been hashed.
LEMMA NoteHash ==
    ASSUME NEW n \in Note, NEW k \in Keys
    PROVE  [n EXCEPT !.hash = k] \in Note
BY DEF Note

\* The rows of the jobs table.
Requested(e, r) == e \in Job /\ e.status = "requested" /\ e.pub = r.pub

\* The row a request has begun to fill in.
LEMMA RequestRow ==
    ASSUME NEW r \in Job, NEW kind \in {"upload", "retranscribe", "retry", "admin-retry"},
           NEW k \in Keys \cup {"none"}
    PROVE  Requested([r EXCEPT !.status = "requested", !.kind = kind, !.key = k], r)
BY DEF Job, Requested

\* The row once the expected generation has been read.
LEMMA CountedRow ==
    ASSUME NEW r \in Job, NEW n \in Nat
    PROVE  LET e == [r EXCEPT !.status = "counted", !.exp = n]
           IN  /\ e \in Job /\ e.status = "counted" /\ e.exp = n /\ e.pub = r.pub
BY DEF Job, Generations

\* A row whose status alone changes.
LEMMA StatusRow ==
    ASSUME NEW r \in Job, NEW st \in Filed
    PROVE  LET e == [r EXCEPT !.status = st]
           IN  /\ e \in Job /\ e.status = st /\ e.exp = r.exp /\ e.pub = r.pub /\ e.kind = r.kind
BY DEF Job, Filed

\* A row whose payload a worker has replaced by its own copy.
LEMMA PayloadRow ==
    ASSUME NEW r \in Job, NEW m \in Worker
    PROVE  LET e == [r EXCEPT !.exp = m.exp, !.prior = m.prior, !.pub = m.pub]
           IN  /\ e \in Job /\ e.status = r.status /\ e.exp = m.exp /\ e.pub = m.pub
BY DEF Job, Worker, Generations

\* One row is replaced, the others stay.
Updates(j, e) == job' = [job EXCEPT ![j] = e]

\* The jobs table after the update of one row.
LEMMA UpdateFacts ==
    ASSUME TypeOK, NEW j \in Jobs, NEW e \in Job, Updates(j, e)
    PROVE  /\ job' \in [Jobs -> Job]
           /\ job'[j] = e
           /\ \A i \in Jobs : i # j => job'[i] = job[i]
           /\ job[j] \in Job
BY DEF TypeOK, Updates

-----------------------------------------------------------------------------
(* Steps of a worker that leave the jobs and the transcript alone.         *)

Others == <<active, fanout, stream, review, config>>

\* The worker moves on between two statements of runTranscribe.
LocalStep(w) ==
    /\ \A v \in Workers : v # w => worker'[v] = worker[v]
    /\ worker[w].pc \notin {"idle", "terminal"} /\ worker'[w].pc \notin {"idle", "terminal"}
    /\ worker'[w].job = worker[w].job /\ worker'[w].exp = worker[w].exp
    /\ worker'[w].pub = worker[w].pub
    /\ UNCHANGED <<job, transcript, fanout, review, config>>

\* A worker that replaces its memory and writes neither a job nor the transcript
\* makes a local step.
LEMMA LocalMove ==
    ASSUME TypeOK, NEW w \in Workers, NEW pc \in Steps, NEW e \in Worker, Replaces(w, e),
           NEW rev, NEW partial, NEW retryable,
           Memory(e, worker[w], pc, worker[w].pub, rev, partial, retryable),
           worker[w].pc \notin {"idle", "terminal"}, pc \notin {"idle", "terminal"},
           note' \in Note, storage' \in SUBSET Keys, UNCHANGED <<transcript, job, Others>>,
           faults' \in 0..MaxFaults
    PROVE  TypeOK' /\ LocalStep(w) /\ worker'[w] = e /\ worker'[w].pc = pc
<1>1. /\ worker' \in [Workers -> Worker] /\ worker'[w] = e
      /\ \A v \in Workers : v # w => worker'[v] = worker[v]
  BY ReplaceFacts
<1> QED
  BY <1>1 DEF TypeOK, LocalStep, Memory, Others

\* What else a worker holds has not changed.
Same(w) ==
    /\ worker'[w].review = worker[w].review /\ worker'[w].partial = worker[w].partial
    /\ worker'[w].retryable = worker[w].retryable

\* So does one that only moves on.
LEMMA LocalGoto ==
    ASSUME TypeOK, NEW w \in Workers, NEW pc \in Steps, Goto(w, pc),
           worker[w].pc \notin {"idle", "terminal"}, pc \notin {"idle", "terminal"},
           note' \in Note, storage' \in SUBSET Keys, UNCHANGED <<transcript, job, Others, faults>>
    PROVE  TypeOK' /\ LocalStep(w) /\ worker'[w].pc = pc /\ Same(w)
<1> DEFINE e == [worker[w] EXCEPT !.pc = pc]
<1>1. worker[w] \in Worker /\ faults' \in 0..MaxFaults
  BY DEF TypeOK
<1>2. Replaces(w, e)
  BY DEF Goto, Replaces
<1>3. Memory(e, worker[w], pc, worker[w].pub,
             worker[w].review, worker[w].partial, worker[w].retryable)
  BY <1>1, MoveOn
<1>4. e \in Worker
  BY <1>3 DEF Memory
<1> HIDE DEF e
<1>5. TypeOK' /\ LocalStep(w) /\ worker'[w] = e /\ worker'[w].pc = pc
  BY <1>1, <1>2, <1>3, <1>4, LocalMove
<1> QED
  BY <1>3, <1>5 DEF Same, Memory

\* A step towards the publication, or out of runTranscribe, that is not guarded
\* by the generation of a publication.
EarlyStep(w) ==
    /\ worker[w].pc \in {"check", "claim", "load", "resume", "plugin", "save", "release"}
    /\ worker'[w].pc \in Guarded \cup {"resume"} => worker[w].pub # 0 \/ worker[w].pc = "resume"
    /\ faults' = faults

\* CheckGeneration is an early step.
LEMMA CheckDoes ==
    ASSUME TypeOK, NEW w \in Workers, CheckGeneration(w)
    PROVE  TypeOK' /\ LocalStep(w) /\ EarlyStep(w)
<1>1. PICK pc \in {"claim", "release"} : Goto(w, pc)
  BY DEF CheckGeneration
<1>2. /\ worker[w].pc = "check" /\ UNCHANGED <<note, storage, transcript, job, Others, faults>>
  BY DEF CheckGeneration, Others
<1>3. note' \in Note /\ storage' \in SUBSET Keys
  BY <1>2 DEF TypeOK
<1> QED
  BY <1>1, <1>2, <1>3, LocalGoto DEF Steps, EarlyStep, Guarded

\* ClaimNoteForTranscription is an early step, whether it takes the claim or finds
\* its own.
LEMMA ClaimNoteDoes ==
    ASSUME TypeOK, NEW w \in Workers, ClaimNoteForTranscription(w)
    PROVE  TypeOK' /\ LocalStep(w) /\ EarlyStep(w)
<1>1. /\ worker[w].pc = "claim" /\ UNCHANGED <<storage, transcript, job, Others, faults>>
      /\ worker[w] \in Worker /\ worker[w].job \in Jobs /\ note \in Note /\ note.status \in Statuses
      /\ storage' \in SUBSET Keys /\ faults' \in 0..MaxFaults
  BY DEF ClaimNoteForTranscription, Others, TypeOK, Note
<1>2. CASE note' = note /\ Goto(w, "load")
  BY <1>1, <1>2, LocalGoto DEF Steps, EarlyStep, Guarded
<1>3. CASE /\ note' = [note EXCEPT !.status = "transcribing", !.claim = worker[w].job]
           /\ worker' = [worker EXCEPT ![w] = [@ EXCEPT !.pc = "persist", !.prior = note.status]]
  <2> DEFINE e == [worker[w] EXCEPT !.pc = "persist", !.prior = note.status]
  <2>1. Replaces(w, e)
    BY <1>3 DEF Replaces
  <2>2. "persist" \in Steps /\ "transcribing" \in Statuses
    BY DEF Steps, Statuses
  <2>3. Memory(e, worker[w], "persist", worker[w].pub,
               worker[w].review, worker[w].partial, worker[w].retryable)
    BY <1>1, <2>2, MoveWithPrior
  <2>4. e \in Worker
    BY <2>3 DEF Memory
  <2> HIDE DEF e
  <2>5. note' \in Note
    BY <1>1, <1>3, <2>2, NoteStatusClaim
  <2>6. TypeOK' /\ LocalStep(w) /\ worker'[w].pc = "persist"
    BY <1>1, <2>1, <2>2, <2>3, <2>4, <2>5, LocalMove
  <2> QED
    BY <1>1, <2>6 DEF EarlyStep, Guarded
<1> QED
  BY <1>2, <1>3 DEF ClaimNoteForTranscription

\* LoadNote is an early step; only a job that has published resumes.
LEMMA LoadDoes ==
    ASSUME TypeOK, NEW w \in Workers, LoadNote(w)
    PROVE  TypeOK' /\ LocalStep(w) /\ EarlyStep(w)
<1>1. /\ worker[w].pc = "load" /\ UNCHANGED <<note, storage, transcript, job, Others, faults>>
      /\ note' \in Note /\ storage' \in SUBSET Keys
  BY DEF LoadNote, Others, TypeOK
<1>2. CASE worker[w].pub # 0 /\ Goto(w, "resume")
  BY <1>1, <1>2, LocalGoto DEF Steps, EarlyStep
<1>3. CASE Goto(w, "plugin")
  BY <1>1, <1>3, LocalGoto DEF Steps, EarlyStep, Guarded
<1> QED
  BY <1>2, <1>3 DEF LoadNote

\* ResumeAfterPublication is an early step.
LEMMA ResumeDoes ==
    ASSUME TypeOK, NEW w \in Workers, ResumeAfterPublication(w)
    PROVE  TypeOK' /\ LocalStep(w) /\ EarlyStep(w)
<1> DEFINE e == [worker[w] EXCEPT !.pc = "still", !.review = transcript.review]
<1>1. /\ worker[w].pc = "resume" /\ UNCHANGED <<note, storage, transcript, job, Others, faults>>
      /\ Replaces(w, e)
  BY DEF ResumeAfterPublication, Others, Replaces
<1>2. /\ note' \in Note /\ storage' \in SUBSET Keys /\ transcript.review \in ReviewStates
      /\ worker[w] \in Worker /\ faults' \in 0..MaxFaults
  BY <1>1 DEF TypeOK, Transcript
<1>3. "still" \in Steps
  BY DEF Steps
<1>4. Memory(e, worker[w], "still", worker[w].pub,
             transcript.review, worker[w].partial, worker[w].retryable)
  BY <1>2, <1>3, MoveWithReview
<1>5. e \in Worker
  BY <1>4 DEF Memory
<1> HIDE DEF e
<1>6. TypeOK' /\ LocalStep(w) /\ worker'[w].pc = "still"
  BY <1>1, <1>2, <1>3, <1>4, <1>5, LocalMove
<1> QED
  BY <1>1, <1>6 DEF EarlyStep

\* PluginAnswers is an early step.
LEMMA PluginAnswersDoes ==
    ASSUME TypeOK, NEW w \in Workers, NEW partial \in BOOLEAN,
           NEW state \in {"pending", "completed"}, PluginAnswers(w, partial, state)
    PROVE  TypeOK' /\ LocalStep(w) /\ EarlyStep(w)
<1> DEFINE e == [worker[w] EXCEPT !.pc = "save", !.partial = partial, !.review = state]
<1>1. /\ worker[w].pc = "plugin" /\ UNCHANGED <<note, storage, transcript, job, Others, faults>>
      /\ Replaces(w, e)
  BY DEF PluginAnswers, Others, Replaces
<1>2. /\ note' \in Note /\ storage' \in SUBSET Keys /\ state \in ReviewStates
      /\ worker[w] \in Worker /\ faults' \in 0..MaxFaults
  BY <1>1 DEF TypeOK, ReviewStates
<1>3. "save" \in Steps
  BY DEF Steps
<1>4. Memory(e, worker[w], "save", worker[w].pub, state, partial, worker[w].retryable)
  BY <1>2, <1>3, MoveWithAnswer
<1>5. e \in Worker
  BY <1>4 DEF Memory
<1> HIDE DEF e
<1>6. TypeOK' /\ LocalStep(w) /\ worker'[w].pc = "save"
  BY <1>1, <1>2, <1>3, <1>4, <1>5, LocalMove
<1> QED
  BY <1>1, <1>6 DEF EarlyStep, Guarded

\* A worker that gives its job up, after a plugin's failure or a statement's.
LEMMA FailsDoes ==
    ASSUME TypeOK, NEW w \in Workers, NEW b \in BOOLEAN,
           Replaces(w, [worker[w] EXCEPT !.pc = "fail", !.retryable = b]),
           worker[w].pc \notin {"idle", "terminal"}, faults' \in 0..MaxFaults,
           note' \in Note, UNCHANGED <<storage, transcript, job, Others>>
    PROVE  /\ TypeOK' /\ LocalStep(w)
           /\ worker'[w].pc = "fail" /\ worker'[w].retryable = b
           /\ worker'[w].partial = worker[w].partial
<1> DEFINE e == [worker[w] EXCEPT !.pc = "fail", !.retryable = b]
<1>1. Replaces(w, e)
  OBVIOUS
<1>2. storage' \in SUBSET Keys /\ worker[w] \in Worker
  BY DEF TypeOK
<1>3. "fail" \in Steps
  BY DEF Steps
<1>4. Memory(e, worker[w], "fail", worker[w].pub, worker[w].review, worker[w].partial, b)
  BY <1>2, <1>3, MoveWithVerdict
<1>5. e \in Worker
  BY <1>4 DEF Memory
<1> HIDE DEF e
<1>6. TypeOK' /\ LocalStep(w) /\ worker'[w] = e /\ worker'[w].pc = "fail"
  BY <1>1, <1>2, <1>3, <1>4, <1>5, LocalMove
<1> QED
  BY <1>4, <1>6 DEF Memory

\* PluginFails is an early step.
LEMMA PluginFailsDoes ==
    ASSUME TypeOK, NEW w \in Workers, NEW b \in BOOLEAN, PluginFails(w, b)
    PROVE  TypeOK' /\ LocalStep(w) /\ EarlyStep(w)
<1>1. /\ Replaces(w, [worker[w] EXCEPT !.pc = "fail", !.retryable = b])
      /\ worker[w].pc = "plugin" /\ UNCHANGED <<note, storage, transcript, job, Others, faults>>
  BY DEF PluginFails, Others, Replaces
<1>2. note' \in Note /\ faults' \in 0..MaxFaults
  BY <1>1 DEF TypeOK
<1>3. TypeOK' /\ LocalStep(w) /\ worker'[w].pc = "fail"
  BY <1>1, <1>2, FailsDoes
<1> QED
  BY <1>1, <1>3 DEF EarlyStep, Guarded

\* ReleaseTranscribeClaim is an early step.
LEMMA ReleaseDoes ==
    ASSUME TypeOK, NEW w \in Workers, ReleaseTranscribeClaim(w)
    PROVE  TypeOK' /\ LocalStep(w) /\ EarlyStep(w)
<1>1. /\ worker[w].pc = "release" /\ UNCHANGED <<storage, transcript, job, Others, faults>>
      /\ Goto(w, "complete") /\ storage' \in SUBSET Keys
      /\ worker[w] \in Worker /\ note \in Note
  BY DEF ReleaseTranscribeClaim, Others, TypeOK
<1>2. CASE note' = note
  BY <1>1, <1>2, LocalGoto DEF Steps, EarlyStep, Guarded
<1>3. CASE /\ worker[w].prior # "none"
           /\ note' = [note EXCEPT !.status = worker[w].prior, !.claim = "nobody"]
  <2>1. worker[w].prior \in Statuses
    BY <1>1, <1>3 DEF Worker
  <2>2. note' \in Note
    BY <1>1, <1>3, <2>1, NoteStatusClaim
  <2> QED
    BY <1>1, <2>2, LocalGoto DEF Steps, EarlyStep, Guarded
<1> QED
  BY <1>2, <1>3 DEF ReleaseTranscribeClaim

\* A step guarded by the generation of the worker's publication.
GuardedStep(w) ==
    /\ worker[w].pc \in Guarded /\ faults' = faults
    /\ worker'[w].review = worker[w].review /\ worker'[w].partial = worker[w].partial
    /\ StillOurs(w) =>
        \/ worker[w].pc = "still" /\ worker'[w].pc = "hash"
        \/ worker[w].pc = "hash" /\ worker'[w].pc = "partial"
        \/ worker[w].pc = "partial" /\ ~worker[w].partial /\ worker'[w].pc = "review"
        \/ /\ worker[w].pc = "partial" /\ worker[w].partial
           /\ worker'[w].pc = "fail" /\ ~worker'[w].retryable
        \/ worker[w].pc = "review" /\ worker[w].review = "completed" /\ worker'[w].pc = "delete"
        \/ /\ worker[w].pc = "review" /\ worker[w].review # "completed" /\ ~config.embedded
           /\ worker'[w].pc = "retain"
        \/ worker[w].pc = "delete" /\ worker'[w].pc = "enqueue"
        \/ worker[w].pc = "retain" /\ worker'[w].pc = "complete"

\* TranscriptStillCurrent is a guarded step.
LEMMA StillDoes ==
    ASSUME TypeOK, NEW w \in Workers, TranscriptStillCurrent(w)
    PROVE  TypeOK' /\ LocalStep(w) /\ GuardedStep(w)
<1>1. PICK pc \in {"hash", "release"} : Goto(w, pc) /\ (StillOurs(w) => pc = "hash")
  BY DEF TranscriptStillCurrent
<1>2. /\ worker[w].pc = "still" /\ UNCHANGED <<note, storage, transcript, job, Others, faults>>
      /\ note' \in Note /\ storage' \in SUBSET Keys
  BY DEF TranscriptStillCurrent, Others, TypeOK
<1>3. TypeOK' /\ LocalStep(w) /\ worker'[w].pc = pc /\ Same(w)
  BY <1>1, <1>2, LocalGoto DEF Steps
<1> QED
  BY <1>1, <1>2, <1>3 DEF GuardedStep, Guarded, Same

\* SetNoteHashes is a guarded step.
LEMMA HashDoes ==
    ASSUME TypeOK, NEW w \in Workers, SetNoteHashes(w)
    PROVE  TypeOK' /\ LocalStep(w) /\ GuardedStep(w)
<1>1. PICK pc \in {"partial", "release"} : Goto(w, pc) /\ (StillOurs(w) => pc = "partial")
  BY DEF SetNoteHashes
<1>2. /\ worker[w].pc = "hash" /\ UNCHANGED <<storage, transcript, job, Others, faults>>
      /\ storage' \in SUBSET Keys /\ storage \subseteq Keys /\ note \in Note
  BY DEF SetNoteHashes, Others, TypeOK
<1>3. note' \in Note
  <2>1. \/ note' = note
        \/ /\ job[worker[w].job].key \in storage
           /\ note' = [note EXCEPT !.hash = job[worker[w].job].key]
    BY DEF SetNoteHashes
  <2> QED
    BY <1>2, <2>1, NoteHash
<1>4. TypeOK' /\ LocalStep(w) /\ worker'[w].pc = pc /\ Same(w)
  BY <1>1, <1>2, <1>3, LocalGoto DEF Steps
<1> QED
  BY <1>1, <1>2, <1>4 DEF GuardedStep, Guarded, Same

\* SetNotePartialTranscript is a guarded step.
LEMMA PartialDoes ==
    ASSUME TypeOK, NEW w \in Workers, SetNotePartialTranscript(w)
    PROVE  TypeOK' /\ LocalStep(w) /\ GuardedStep(w)
<1> DEFINE pc == IF ~StillOurs(w) THEN "release" ELSE IF worker[w].partial THEN "fail" ELSE "review"
           e == [worker[w] EXCEPT !.pc = pc, !.retryable = FALSE]
<1>1. /\ worker[w].pc = "partial" /\ UNCHANGED <<storage, transcript, job, Others, faults>>
      /\ Replaces(w, e)
  BY DEF SetNotePartialTranscript, Others, Replaces
<1>2. /\ storage' \in SUBSET Keys /\ note \in Note /\ worker[w] \in Worker
      /\ worker[w].partial \in BOOLEAN /\ faults' \in 0..MaxFaults
  BY <1>1 DEF TypeOK, Worker
<1>3. note' \in Note
  BY <1>2, NotePartial DEF SetNotePartialTranscript
<1>4. pc \in Steps /\ pc \notin {"idle", "terminal"}
  BY DEF Steps
<1>5. StillOurs(w) => pc = IF worker[w].partial THEN "fail" ELSE "review"
  OBVIOUS
<1> HIDE DEF pc
<1>6. Memory(e, worker[w], pc, worker[w].pub, worker[w].review, worker[w].partial, FALSE)
  BY <1>2, <1>4, MoveWithVerdict
<1>7. e \in Worker
  BY <1>6 DEF Memory
<1> HIDE DEF e
<1>8. TypeOK' /\ LocalStep(w) /\ worker'[w] = e /\ worker'[w].pc = pc
  BY <1>1, <1>2, <1>3, <1>4, <1>6, <1>7, LocalMove
<1> QED
  BY <1>1, <1>2, <1>5, <1>6, <1>8 DEF GuardedStep, Guarded, Memory

\* DeleteNoteSummaries is a guarded step.
LEMMA DeleteDoes ==
    ASSUME TypeOK, NEW w \in Workers, DeleteNoteSummaries(w)
    PROVE  TypeOK' /\ LocalStep(w) /\ GuardedStep(w)
<1>1. PICK pc \in {"enqueue", "release"} : Goto(w, pc) /\ (StillOurs(w) => pc = "enqueue")
  BY DEF DeleteNoteSummaries
<1>2. /\ worker[w].pc = "delete" /\ UNCHANGED <<note, storage, transcript, job, Others, faults>>
      /\ note' \in Note /\ storage' \in SUBSET Keys
  BY DEF DeleteNoteSummaries, Others, TypeOK
<1>3. TypeOK' /\ LocalStep(w) /\ worker'[w].pc = pc /\ Same(w)
  BY <1>1, <1>2, LocalGoto DEF Steps
<1> QED
  BY <1>1, <1>2, <1>3 DEF GuardedStep, Guarded, Same

\* ApplyAudioRetention is a guarded step, and deletes only under a publication that
\* is still the transcript.
LEMMA RetainDoes ==
    ASSUME TypeOK, NEW w \in Workers, ApplyAudioRetention(w)
    PROVE  /\ TypeOK' /\ LocalStep(w) /\ GuardedStep(w)
           /\ worker[w].pc = "retain" /\ worker'[w].pc # "retain"
           /\ storage' # storage => StillOurs(w)
<1>1. PICK pc \in {"complete", "release"} : Goto(w, pc) /\ (StillOurs(w) => pc = "complete")
  BY DEF ApplyAudioRetention
<1>2. /\ worker[w].pc = "retain" /\ UNCHANGED <<transcript, job, Others, faults>>
      /\ storage \subseteq Keys /\ note \in Note
  BY DEF ApplyAudioRetention, Others, TypeOK
<1>3. /\ storage' \in SUBSET Keys
      /\ storage' # storage => StillOurs(w)
  BY <1>2 DEF ApplyAudioRetention
<1>4. note' \in Note
  <2>1. \/ note' = note
        \/ note' = [note EXCEPT !.retention = "discarded"]
        \/ note' = [note EXCEPT !.retention = "kept"]
    BY DEF ApplyAudioRetention
  <2> QED
    BY <1>2, <2>1, NoteRetention
<1>5. TypeOK' /\ LocalStep(w) /\ worker'[w].pc = pc /\ Same(w)
  BY <1>1, <1>2, <1>3, <1>4, LocalGoto DEF Steps
<1> QED
  BY <1>1, <1>2, <1>3, <1>5 DEF GuardedStep, Guarded, Same

\* HoldForReview, except where an embedded server completes the review.
LEMMA HoldDoes ==
    ASSUME TypeOK, NEW w \in Workers, HoldForReview(w),
           worker[w].review = "completed" \/ ~config.embedded \/ ~StillOurs(w)
    PROVE  TypeOK' /\ LocalStep(w) /\ GuardedStep(w)
<1>1. /\ worker[w].pc = "review" /\ UNCHANGED <<note, storage, transcript, job, Others, faults>>
  BY DEF HoldForReview, Others
<1>2. note' \in Note /\ storage' \in SUBSET Keys /\ faults' \in 0..MaxFaults
  BY <1>1 DEF TypeOK
<1>3. CASE worker[w].review = "completed" /\ Goto(w, "delete")
  <2>1. TypeOK' /\ LocalStep(w) /\ worker'[w].pc = "delete" /\ Same(w)
    BY <1>1, <1>2, <1>3, LocalGoto DEF Steps
  <2> QED
    BY <1>1, <1>3, <2>1 DEF GuardedStep, Guarded, Same
<1>4. CASE worker[w].review # "completed" /\ ~config.embedded /\ Goto(w, "retain")
  <2>1. TypeOK' /\ LocalStep(w) /\ worker'[w].pc = "retain" /\ Same(w)
    BY <1>1, <1>2, <1>4, LocalGoto DEF Steps
  <2> QED
    BY <1>1, <1>4, <2>1 DEF GuardedStep, Guarded, Same
<1>5. CASE ~StillOurs(w) /\ Replaces(w, [worker[w] EXCEPT !.pc = "fail", !.retryable = TRUE])
  <2> DEFINE e == [worker[w] EXCEPT !.pc = "fail", !.retryable = TRUE]
  <2>1. "fail" \in Steps /\ worker[w] \in Worker
    BY DEF Steps, TypeOK
  <2>2. Memory(e, worker[w], "fail", worker[w].pub, worker[w].review, worker[w].partial, TRUE)
    BY <2>1, MoveWithVerdict
  <2>3. e \in Worker
    BY <2>2 DEF Memory
  <2>4. Replaces(w, e)
    BY <1>5
  <2> HIDE DEF e
  <2>5. TypeOK' /\ LocalStep(w) /\ worker'[w] = e
    BY <1>1, <1>2, <2>1, <2>2, <2>3, <2>4, LocalMove
  <2> QED
    BY <1>1, <1>5, <2>2, <2>5 DEF GuardedStep, Guarded, Memory
<1> QED
  BY <1>3, <1>4, <1>5 DEF HoldForReview, Replaces

-----------------------------------------------------------------------------
(* Steps that write the jobs table.                                        *)

\* A request fills in or files a row of its own, which no worker has yet.
RequestStep(j) ==
    /\ job[j].status \in {"absent", "requested", "counted"}
    /\ \A i \in Jobs : i # j => job'[i] = job[i]
    /\ job'[j].status \in {"requested", "counted", "pending"} /\ job'[j].pub = job[j].pub
    /\ UNCHANGED <<transcript, fanout, worker, review, faults, config>>

\* The update of a row that is not filed yet is a step of a request.
LEMMA RequestMove ==
    ASSUME TypeOK, NEW j \in Jobs, NEW e \in Job, Updates(j, e),
           job[j].status \in {"absent", "requested", "counted"},
           e.status \in {"requested", "counted", "pending"}, e.pub = job[j].pub,
           note' \in Note, UNCHANGED <<transcript, storage, worker, Others, faults>>
    PROVE  TypeOK' /\ RequestStep(j)
<1>1. /\ job' \in [Jobs -> Job] /\ job'[j] = e
      /\ \A i \in Jobs : i # j => job'[i] = job[i]
  BY UpdateFacts
<1> QED
  BY <1>1 DEF TypeOK, RequestStep, Others

\* Upload is a step of a request.
LEMMA UploadDoes ==
    ASSUME TypeOK, NEW j \in Jobs, NEW k \in Keys, Upload(j, k)
    PROVE  TypeOK' /\ RequestStep(j)
<1> DEFINE e == [job[j] EXCEPT !.status = "requested", !.kind = "upload", !.key = k]
<1>1. /\ Updates(j, e) /\ job[j].status = "absent"
      /\ UNCHANGED <<transcript, storage, worker, Others, faults>>
  BY DEF Upload, Updates, Others
<1>2. note' \in Note /\ job[j] \in Job
  BY NoteAudio DEF Upload, TypeOK
<1>3. Requested(e, job[j])
  BY <1>2, RequestRow
<1> HIDE DEF e
<1> QED
  BY <1>1, <1>2, <1>3, RequestMove DEF Requested

\* Retranscribe is a step of a request.
LEMMA RetranscribeDoes ==
    ASSUME TypeOK, NEW j \in Jobs, Retranscribe(j)
    PROVE  TypeOK' /\ RequestStep(j)
<1> DEFINE e == [job[j] EXCEPT !.status = "requested", !.kind = "retranscribe", !.key = note.audio]
<1>1. /\ Updates(j, e) /\ job[j].status = "absent"
      /\ UNCHANGED <<note, transcript, storage, worker, Others, faults>>
  BY DEF Retranscribe, Updates, Others
<1>2. note' \in Note /\ job[j] \in Job /\ note.audio \in Keys \cup {"none"}
  BY <1>1 DEF TypeOK, Note
<1>3. Requested(e, job[j])
  BY <1>2, RequestRow
<1> HIDE DEF e
<1> QED
  BY <1>1, <1>2, <1>3, RequestMove DEF Requested

\* Retry is a step of a request.
LEMMA RetryDoes ==
    ASSUME TypeOK, NEW j \in Jobs, NEW kind \in {"retry", "admin-retry"}, Retry(j, kind)
    PROVE  TypeOK' /\ RequestStep(j)
<1>1. PICK f \in Jobs : job' = [job EXCEPT ![j] = [@ EXCEPT !.status = "requested", !.kind = kind,
                                                            !.key = job[f].key]]
  BY DEF Retry
<1> DEFINE k == job[f].key
           e == [job[j] EXCEPT !.status = "requested", !.kind = kind, !.key = k]
<1>2. /\ Updates(j, e) /\ job[j].status = "absent"
      /\ UNCHANGED <<note, transcript, storage, worker, Others, faults>>
  BY <1>1 DEF Retry, Updates, Others
<1>3. note' \in Note /\ job[j] \in Job /\ k \in Keys \cup {"none"}
  BY <1>2 DEF TypeOK, Job
<1> HIDE DEF k
<1>4. Requested(e, job[j])
  BY <1>3, RequestRow
<1> HIDE DEF e
<1> QED
  BY <1>2, <1>3, <1>4, RequestMove DEF Requested

\* ReadExpectedGeneration is a step of a request.
LEMMA ReadExpectedDoes ==
    ASSUME TypeOK, NEW j \in Jobs, ReadExpectedGeneration(j)
    PROVE  TypeOK' /\ RequestStep(j)
<1> DEFINE e == [job[j] EXCEPT !.status = "counted", !.exp = transcript.gen]
<1>1. /\ Updates(j, e) /\ job[j].status = "requested"
      /\ UNCHANGED <<note, transcript, storage, worker, Others, faults>>
  BY DEF ReadExpectedGeneration, Updates, Others
<1>2. note' \in Note /\ job[j] \in Job /\ transcript.gen \in Nat
  BY <1>1 DEF TypeOK, Transcript, Generations
<1>3. e \in Job /\ e.status = "counted" /\ e.pub = job[j].pub
  BY <1>2, CountedRow
<1> HIDE DEF e
<1> QED
  BY <1>1, <1>2, <1>3, RequestMove

\* Enqueue is a step of a request.
LEMMA EnqueueDoes ==
    ASSUME TypeOK, NEW j \in Jobs, Enqueue(j)
    PROVE  TypeOK' /\ RequestStep(j)
<1> DEFINE e == [job[j] EXCEPT !.status = "pending"]
<1>1. /\ Updates(j, e) /\ job[j].status = "counted"
      /\ UNCHANGED <<transcript, storage, worker, Others, faults>>
  BY DEF Enqueue, Updates, Others
<1>2. note' \in Note /\ job[j] \in Job
  BY NoteRetried DEF Enqueue, TypeOK
<1>3. "pending" \in Filed
  BY DEF Filed
<1>4. e \in Job /\ e.status = "pending" /\ e.pub = job[j].pub
  BY <1>2, <1>3, StatusRow
<1> HIDE DEF e
<1> QED
  BY <1>1, <1>2, <1>4, RequestMove

\* A worker and the row of its job change together.
TableStep(w, j) ==
    /\ \A v \in Workers : v # w => worker'[v] = worker[v]
    /\ \A i \in Jobs : i # j => job'[i] = job[i]
    /\ job'[j].exp = job[j].exp
    /\ UNCHANGED <<transcript, fanout, review, config>>

\* A worker and a row that are replaced together, the expected generation kept.
LEMMA TableMove ==
    ASSUME TypeOK, NEW w \in Workers, NEW j \in Jobs, NEW m \in Worker, NEW r \in Job,
           Replaces(w, m), Updates(j, r), m.pc # "idle" => m.job \in Jobs,
           r.exp = job[j].exp, faults' \in 0..MaxFaults,
           UNCHANGED <<note, transcript, storage, Others>>
    PROVE  TypeOK' /\ TableStep(w, j) /\ worker'[w] = m /\ job'[j] = r
<1>1. /\ worker' \in [Workers -> Worker] /\ worker'[w] = m
      /\ \A v \in Workers : v # w => worker'[v] = worker[v]
  BY ReplaceFacts
<1>2. /\ job' \in [Jobs -> Job] /\ job'[j] = r
      /\ \A i \in Jobs : i # j => job'[i] = job[i]
  BY UpdateFacts
<1> QED
  BY <1>1, <1>2 DEF TypeOK, TableStep, Others

\* ClaimJob moves a pending row and an idle worker.
LEMMA ClaimJobDoes ==
    ASSUME TypeOK, NEW w \in Workers, NEW j \in Jobs, ClaimJob(w, j)
    PROVE  /\ TypeOK' /\ TableStep(w, j) /\ faults' = faults
           /\ worker[w].pc = "idle" /\ job[j].status = "pending"
           /\ job'[j].status = "running" /\ job'[j].pub = job[j].pub
           /\ worker'[w].pc = "check" /\ worker'[w].job = j
           /\ worker'[w].exp = job[j].exp /\ worker'[w].pub = job[j].pub
<1> DEFINE m == [Idle EXCEPT !.pc = "check", !.job = j, !.exp = job[j].exp,
                             !.prior = job[j].prior, !.pub = job[j].pub]
           r == [job[j] EXCEPT !.status = "running"]
<1>1. /\ Replaces(w, m) /\ Updates(j, r) /\ worker[w].pc = "idle" /\ job[j].status = "pending"
      /\ UNCHANGED <<note, transcript, storage, Others, faults>>
  BY DEF ClaimJob, Replaces, Updates, Others
<1>2. job[j] \in Job /\ faults' \in 0..MaxFaults /\ "running" \in Filed
  BY <1>1 DEF TypeOK, Filed
<1>3. /\ m \in Worker /\ m.pc = "check" /\ m.job = j /\ m.exp = job[j].exp
      /\ m.pub = job[j].pub
  BY <1>2, Decoded
<1>4. r \in Job /\ r.status = "running" /\ r.exp = job[j].exp /\ r.pub = job[j].pub
  BY <1>2, StatusRow
<1> HIDE DEF m, r
<1>5. TypeOK' /\ TableStep(w, j) /\ worker'[w] = m /\ job'[j] = r
  BY <1>1, <1>2, <1>3, <1>4, TableMove
<1> QED
  BY <1>1, <1>3, <1>4, <1>5

\* UpdateJobPayload, before the plugin is called and after the publication.
LEMMA PersistDoes ==
    ASSUME TypeOK, NEW w \in Workers, NEW pc \in {"load", "still"},
           worker[w].exp = job[worker[w].job].exp,
           (PersistPriorStatus(w) /\ pc = "load") \/ (CheckpointPublication(w) /\ pc = "still")
    PROVE  /\ TypeOK' /\ TableStep(w, worker[w].job) /\ faults' = faults
           /\ worker[w].pc = IF pc = "load" THEN "persist" ELSE "checkpoint"
           /\ worker[w].job \in Jobs
           /\ job'[worker[w].job].status = job[worker[w].job].status
           /\ job'[worker[w].job].pub = worker[w].pub
           /\ worker'[w].pc = pc /\ worker'[w].job = worker[w].job
           /\ worker'[w].exp = worker[w].exp /\ worker'[w].pub = worker[w].pub
           /\ Same(w)
<1> DEFINE j == worker[w].job
           m == [worker[w] EXCEPT !.pc = pc]
           r == [job[j] EXCEPT !.exp = worker[w].exp, !.prior = worker[w].prior,
                               !.pub = worker[w].pub]
<1>1. /\ Replaces(w, m) /\ Updates(j, r)
      /\ UNCHANGED <<note, transcript, storage, Others, faults>>
      /\ worker[w].pc = IF pc = "load" THEN "persist" ELSE "checkpoint"
  BY DEF PersistPriorStatus, CheckpointPublication, Persist, Goto, Replaces, Updates, Others
<1>2. /\ j \in Jobs /\ worker[w] \in Worker /\ job[j] \in Job /\ pc \in Steps
      /\ faults' \in 0..MaxFaults
  BY <1>1 DEF TypeOK, Steps
<1>3. Memory(m, worker[w], pc, worker[w].pub, worker[w].review, worker[w].partial,
             worker[w].retryable)
  BY <1>2, MoveOn
<1>4. r \in Job /\ r.status = job[j].status /\ r.exp = worker[w].exp /\ r.pub = worker[w].pub
  BY <1>2, PayloadRow
<1>5. m \in Worker /\ m.job \in Jobs
  BY <1>2, <1>3 DEF Memory
<1> HIDE DEF m, r
<1>6. TypeOK' /\ TableStep(w, j) /\ worker'[w] = m /\ job'[j] = r
  BY <1>1, <1>2, <1>4, <1>5, TableMove
<1> QED
  BY <1>1, <1>2, <1>3, <1>4, <1>6 DEF Memory, Same

\* A worker that lets its job go, whatever becomes of the row.
LEMMA LeaveDoes ==
    ASSUME TypeOK, NEW w \in Workers, NEW st \in Filed, worker[w].pc # "idle",
           Replaces(w, Idle), Updates(worker[w].job, [job[worker[w].job] EXCEPT !.status = st]),
           faults' \in 0..MaxFaults, UNCHANGED <<note, transcript, storage, Others>>
    PROVE  /\ TypeOK' /\ TableStep(w, worker[w].job) /\ worker[w].job \in Jobs
           /\ job'[worker[w].job].status = st
           /\ job'[worker[w].job].pub = job[worker[w].job].pub
           /\ worker'[w].pc = "idle"
<1> DEFINE j == worker[w].job
           r == [job[j] EXCEPT !.status = st]
<1>1. j \in Jobs /\ job[j] \in Job
  BY DEF TypeOK
<1>2. r \in Job /\ r.status = st /\ r.exp = job[j].exp /\ r.pub = job[j].pub
  BY <1>1, StatusRow
<1>3. Updates(j, r)
  OBVIOUS
<1> HIDE DEF j, r
<1>4. TypeOK' /\ TableStep(w, j) /\ worker'[w] = Idle /\ job'[j] = r
  BY <1>1, <1>2, <1>3, IdleFacts, TableMove DEF j
<1> QED
  BY <1>1, <1>2, <1>4, IdleFacts DEF j

\* CompleteJob settles the row as done.
LEMMA CompleteDoes ==
    ASSUME TypeOK, NEW w \in Workers, CompleteJob(w)
    PROVE  /\ TypeOK' /\ TableStep(w, worker[w].job) /\ worker[w].job \in Jobs
           /\ worker[w].pc = "complete" /\ worker'[w].pc = "idle" /\ faults' = faults
           /\ job'[worker[w].job].status = "done"
           /\ job'[worker[w].job].pub = job[worker[w].job].pub
<1>1. /\ Replaces(w, Idle) /\ Updates(worker[w].job, [job[worker[w].job] EXCEPT !.status = "done"])
      /\ worker[w].pc = "complete" /\ UNCHANGED <<note, transcript, storage, Others, faults>>
  BY DEF CompleteJob, Replaces, Updates, Others
<1>2. faults' \in 0..MaxFaults /\ "done" \in Filed
  BY <1>1 DEF TypeOK, Filed
<1> QED
  BY <1>1, <1>2, LeaveDoes

\* FailJob requeues a job that is worth another attempt.
LEMMA RequeueDoes ==
    ASSUME TypeOK, NEW w \in Workers, worker[w].pc # "idle", faults' \in 0..MaxFaults,
           worker' = [worker EXCEPT ![w] = Idle],
           job' = [job EXCEPT ![worker[w].job].status = "pending"],
           UNCHANGED <<note, transcript, storage, Others>>
    PROVE  /\ TypeOK' /\ TableStep(w, worker[w].job) /\ worker[w].job \in Jobs
           /\ worker'[w].pc = "idle" /\ job'[worker[w].job].status = "pending"
           /\ job'[worker[w].job].pub = job[worker[w].job].pub
<1>1. /\ Replaces(w, Idle)
      /\ Updates(worker[w].job, [job[worker[w].job] EXCEPT !.status = "pending"])
  BY DEF Replaces, Updates
<1>2. "pending" \in Filed
  BY DEF Filed
<1> QED
  BY <1>1, <1>2, LeaveDoes

\* FailJob on the last attempt, or on a failure that is not worth another.
LEMMA FailForGoodDoes ==
    ASSUME TypeOK, NEW w \in Workers, worker[w].pc = "fail",
           job' = [job EXCEPT ![worker[w].job].status = "failed"], Goto(w, "terminal"),
           UNCHANGED <<note, transcript, storage, Others, faults>>
    PROVE  /\ TypeOK' /\ TableStep(w, worker[w].job) /\ worker[w].job \in Jobs
           /\ job'[worker[w].job].status = "failed"
           /\ job'[worker[w].job].pub = job[worker[w].job].pub
           /\ worker'[w].pc = "terminal" /\ worker'[w].job = worker[w].job
           /\ worker'[w].exp = worker[w].exp /\ worker'[w].pub = worker[w].pub
           /\ worker'[w].partial = worker[w].partial
<1> DEFINE j == worker[w].job
           m == [worker[w] EXCEPT !.pc = "terminal"]
           r == [job[j] EXCEPT !.status = "failed"]
<1>1. Replaces(w, m) /\ Updates(j, r)
  BY DEF Replaces, Updates, Goto
<1>2. /\ j \in Jobs /\ job[j] \in Job /\ worker[w] \in Worker
      /\ "terminal" \in Steps /\ "failed" \in Filed /\ faults' \in 0..MaxFaults
  BY DEF TypeOK, Steps, Filed
<1>3. Memory(m, worker[w], "terminal", worker[w].pub, worker[w].review, worker[w].partial,
             worker[w].retryable)
  BY <1>2, MoveOn
<1>4. r \in Job /\ r.status = "failed" /\ r.exp = job[j].exp /\ r.pub = job[j].pub
  BY <1>2, StatusRow
<1>5. m \in Worker /\ m.job \in Jobs
  BY <1>2, <1>3 DEF Memory
<1> HIDE DEF m, r
<1>6. TypeOK' /\ TableStep(w, j) /\ worker'[w] = m /\ job'[j] = r
  BY <1>1, <1>2, <1>4, <1>5, TableMove
<1> QED
  BY <1>2, <1>3, <1>4, <1>6 DEF Memory

\* HandleTerminalFailure fails the note and lets the worker go.
LEMMA TerminalDoes ==
    ASSUME TypeOK, NEW w \in Workers, HandleTerminalFailure(w)
    PROVE  /\ TypeOK' /\ worker[w].pc = "terminal" /\ worker'[w].pc = "idle"
           /\ \A v \in Workers : v # w => worker'[v] = worker[v]
           /\ UNCHANGED <<job, transcript, fanout, review, faults, config>>
<1>1. /\ Replaces(w, Idle) /\ worker[w].pc = "terminal"
      /\ UNCHANGED <<transcript, job, storage, Others, faults>>
      /\ note' = [note EXCEPT !.status = "failed"] /\ note \in Note /\ "failed" \in Statuses
  BY DEF HandleTerminalFailure, Replaces, Others, TypeOK, Statuses
<1>2. note' \in Note
  BY <1>1, NoteStatus
<1>3. /\ worker' \in [Workers -> Worker] /\ worker'[w] = Idle
      /\ \A v \in Workers : v # w => worker'[v] = worker[v]
  BY <1>1, IdleFacts, ReplaceFacts
<1> QED
  BY <1>1, <1>2, <1>3, IdleFacts DEF TypeOK, Others

-----------------------------------------------------------------------------
(* Steps that write the transcript or fan out.                             *)

\* SaveTranscript where the generation is the expected one.
LEMMA PublishDoes ==
    ASSUME TypeOK, NEW w \in Workers, SaveTranscript(w), transcript.gen = worker[w].exp
    PROVE  /\ TypeOK' /\ worker[w].pc = "save" /\ worker[w].job \in Jobs
           /\ \A v \in Workers : v # w => worker'[v] = worker[v]
           /\ transcript'.gen = transcript.gen + 1 /\ transcript'.by = worker[w].job
           /\ transcript'.review = worker[w].review /\ transcript'.partial = worker[w].partial
           /\ worker'[w].pc = "checkpoint" /\ worker'[w].job = worker[w].job
           /\ worker'[w].exp = worker[w].exp /\ worker'[w].pub = transcript.gen + 1
           /\ worker'[w].review = worker[w].review /\ worker'[w].partial = worker[w].partial
           /\ UNCHANGED <<job, fanout, review, faults, config>>
<1> DEFINE n == transcript.gen + 1
           m == [worker[w] EXCEPT !.pc = "checkpoint", !.pub = n]
<1>1. /\ Replaces(w, m) /\ worker[w].pc = "save"
      /\ transcript' = [gen |-> n, by |-> worker[w].job, review |-> worker[w].review,
                        partial |-> worker[w].partial]
      /\ note' = [note EXCEPT !.claim = "nobody"]
      /\ UNCHANGED <<job, storage, Others, faults>>
  BY DEF SaveTranscript, Replaces, Others
<1>2. /\ worker[w] \in Worker /\ worker[w].job \in Jobs /\ transcript.gen \in Nat /\ n \in Nat
      /\ "checkpoint" \in Steps /\ note \in Note
      /\ worker[w].review \in ReviewStates /\ worker[w].partial \in BOOLEAN
  BY <1>1 DEF TypeOK, Transcript, Generations, Steps, Worker
<1>3. note' \in Note
  BY <1>1, <1>2, NoteClaim
<1> HIDE DEF n
<1>4. Memory(m, worker[w], "checkpoint", n, worker[w].review, worker[w].partial,
             worker[w].retryable)
  BY <1>2, MoveWithPublication
<1>5. m \in Worker
  BY <1>4 DEF Memory
<1> HIDE DEF m
<1>6. /\ worker' \in [Workers -> Worker] /\ worker'[w] = m
      /\ \A v \in Workers : v # w => worker'[v] = worker[v]
  BY <1>1, <1>5, ReplaceFacts
<1>7. transcript' \in Transcript
  BY <1>1, <1>2 DEF Transcript, Generations
<1>8. TypeOK'
  BY <1>1, <1>2, <1>3, <1>4, <1>6, <1>7 DEF TypeOK, Others, Memory
<1> QED
  BY <1>1, <1>2, <1>4, <1>6, <1>8 DEF Memory, Others, n

\* SaveTranscript where another transcript has come before.
LEMMA SupersededDoes ==
    ASSUME TypeOK, NEW w \in Workers, SaveTranscript(w), transcript.gen # worker[w].exp
    PROVE  TypeOK' /\ LocalStep(w) /\ EarlyStep(w)
<1>1. /\ worker[w].pc = "save" /\ Goto(w, "release")
      /\ UNCHANGED <<note, storage, transcript, job, Others, faults>>
      /\ note' \in Note /\ storage' \in SUBSET Keys
  BY DEF SaveTranscript, Others, TypeOK
<1> QED
  BY <1>1, LocalGoto DEF Steps, EarlyStep, Guarded

\* A server that completes the review itself.
LEMMA SelfReviewDoes ==
    ASSUME TypeOK, NEW w \in Workers, HoldForReview(w),
           worker[w].review # "completed", config.embedded, StillOurs(w)
    PROVE  /\ TypeOK' /\ worker[w].pc = "review"
           /\ \A v \in Workers : v # w => worker'[v] = worker[v]
           /\ transcript'.gen = transcript.gen /\ transcript'.by = transcript.by
           /\ transcript'.partial = transcript.partial
           /\ worker'[w].pc = "delete" /\ worker'[w].job = worker[w].job
           /\ worker'[w].exp = worker[w].exp /\ worker'[w].pub = worker[w].pub /\ Same(w)
           /\ UNCHANGED <<job, fanout, review, faults, config>>
<1> DEFINE m == [worker[w] EXCEPT !.pc = "delete"]
<1>1. /\ Replaces(w, m) /\ worker[w].pc = "review"
      /\ transcript' = [transcript EXCEPT !.review = "completed"]
      /\ UNCHANGED <<note, job, storage, Others, faults>>
  BY DEF HoldForReview, Goto, Replaces, Others
<1>2. worker[w] \in Worker /\ worker[w].job \in Jobs /\ "delete" \in Steps
  BY <1>1 DEF TypeOK, Steps
<1>3. Memory(m, worker[w], "delete", worker[w].pub, worker[w].review, worker[w].partial,
             worker[w].retryable)
  BY <1>2, MoveOn
<1>4. m \in Worker
  BY <1>3 DEF Memory
<1> HIDE DEF m
<1>5. /\ worker' \in [Workers -> Worker] /\ worker'[w] = m
      /\ \A v \in Workers : v # w => worker'[v] = worker[v]
  BY <1>1, <1>4, ReplaceFacts
<1>6. /\ transcript' \in Transcript
      /\ transcript'.gen = transcript.gen /\ transcript'.by = transcript.by
      /\ transcript'.partial = transcript.partial
  BY <1>1 DEF TypeOK, Transcript, ReviewStates
<1>7. TypeOK'
  BY <1>1, <1>2, <1>3, <1>5, <1>6 DEF TypeOK, Others, Memory
<1> QED
  BY <1>1, <1>3, <1>5, <1>6, <1>7 DEF Memory, Others, Same

\* The fan-out records the generation it was made from.
LEMMA FanOutTypes ==
    ASSUME TypeOK, FanOut
    PROVE  note' \in Note /\ active' \in BOOLEAN /\ fanout' = transcript.gen
           /\ fanout' \in Generations
<1>1. note \in Note /\ active \in BOOLEAN /\ transcript.gen \in Generations
      /\ "summarizing" \in Statuses /\ "ready" \in Statuses
  BY DEF TypeOK, Transcript, Statuses
<1> QED
  BY <1>1, NoteStatus DEF FanOut

\* EnqueueSummarizeJobs for the current transcript.
LEMMA FanOutDoes ==
    ASSUME TypeOK, NEW w \in Workers, EnqueueSummarizeJobs(w), StillOurs(w)
    PROVE  /\ TypeOK' /\ worker[w].pc = "enqueue" /\ fanout' = transcript.gen
           /\ \A v \in Workers : v # w => worker'[v] = worker[v]
           /\ worker'[w].pc = "retain" /\ worker'[w].job = worker[w].job
           /\ worker'[w].exp = worker[w].exp /\ worker'[w].pub = worker[w].pub /\ Same(w)
           /\ UNCHANGED <<job, transcript, review, faults, config>>
<1> DEFINE m == [worker[w] EXCEPT !.pc = "retain"]
<1>1. /\ Replaces(w, m) /\ worker[w].pc = "enqueue" /\ FanOut
      /\ UNCHANGED <<transcript, job, storage, stream, review, faults, config>>
  BY DEF EnqueueSummarizeJobs, Goto, Replaces
<1>2. worker[w] \in Worker /\ worker[w].job \in Jobs /\ "retain" \in Steps
  BY <1>1 DEF TypeOK, Steps
<1>3. Memory(m, worker[w], "retain", worker[w].pub, worker[w].review, worker[w].partial,
             worker[w].retryable)
  BY <1>2, MoveOn
<1>4. m \in Worker
  BY <1>3 DEF Memory
<1> HIDE DEF m
<1>5. /\ worker' \in [Workers -> Worker] /\ worker'[w] = m
      /\ \A v \in Workers : v # w => worker'[v] = worker[v]
  BY <1>1, <1>4, ReplaceFacts
<1>6. note' \in Note /\ active' \in BOOLEAN /\ fanout' = transcript.gen /\ fanout' \in Generations
  BY <1>1, FanOutTypes
<1>7. TypeOK'
  BY <1>1, <1>2, <1>3, <1>5, <1>6 DEF TypeOK, Memory
<1> QED
  BY <1>1, <1>3, <1>5, <1>6, <1>7 DEF Memory, Same

\* EnqueueSummarizeJobs for a transcript that has been superseded.
LEMMA NoFanOutDoes ==
    ASSUME TypeOK, NEW w \in Workers, EnqueueSummarizeJobs(w), ~StillOurs(w)
    PROVE  TypeOK' /\ LocalStep(w) /\ GuardedStep(w)
<1>1. /\ worker[w].pc = "enqueue" /\ Goto(w, "release")
      /\ UNCHANGED <<note, storage, transcript, job, Others, faults>>
      /\ note' \in Note /\ storage' \in SUBSET Keys
  BY DEF EnqueueSummarizeJobs, Others, TypeOK
<1>2. TypeOK' /\ LocalStep(w) /\ worker'[w].pc = "release" /\ Same(w)
  BY <1>1, LocalGoto DEF Steps
<1> QED
  BY <1>1, <1>2 DEF GuardedStep, Guarded, Same

-----------------------------------------------------------------------------
(* Faults, live streams and reviews.                                       *)

\* The workers and the jobs table stay as they are.
AsideStep == UNCHANGED <<job, worker, faults, config>>

\* A stream that is accepted writes only its own state.
LEMMA StreamAcceptedDoes ==
    ASSUME TypeOK, StreamAccepted
    PROVE  TypeOK' /\ AsideStep /\ UNCHANGED <<transcript, fanout, review>>
<1>1. stream' \in [pc: {"idle", "accepted", "opened"}, exp: Generations, started: 0..MaxStreams]
  <2>1. /\ stream \in [pc: {"idle", "accepted", "opened"}, exp: Generations,
                       started: 0..MaxStreams]
        /\ stream.started < MaxStreams
        /\ stream' = [stream EXCEPT !.pc = "accepted", !.started = @ + 1]
    BY DEF TypeOK, StreamAccepted
  <2>2. stream.started + 1 \in 0..MaxStreams
    BY <2>1, ConstantsAssumption
  <2> QED
    BY <2>1, <2>2
<1> QED
  BY <1>1 DEF StreamAccepted, TypeOK, AsideStep

\* A stream that is opened writes only its own state.
LEMMA StreamOpenedDoes ==
    ASSUME TypeOK, StreamOpened
    PROVE  TypeOK' /\ AsideStep /\ UNCHANGED <<transcript, fanout, review>>
<1>1. transcript.gen \in Generations
  BY DEF TypeOK, Transcript
<1>2. stream' \in [pc: {"idle", "accepted", "opened"}, exp: Generations, started: 0..MaxStreams]
  BY <1>1 DEF StreamOpened, TypeOK
<1> QED
  BY <1>2 DEF StreamOpened, TypeOK, AsideStep

\* CreateStreamTranscript never replaces the transcript of a job.
LEMMA CreateStreamDoes ==
    ASSUME TypeOK, CreateStreamTranscript
    PROVE  /\ TypeOK' /\ AsideStep /\ UNCHANGED <<fanout, review>>
           /\ \/ transcript' = transcript
              \/ /\ transcript.by \notin Jobs /\ transcript'.by = "stream"
                 /\ transcript'.gen = transcript.gen + 1
<1>1. stream' \in [pc: {"idle", "accepted", "opened"}, exp: Generations, started: 0..MaxStreams]
  BY DEF CreateStreamTranscript, TypeOK, Generations
<1>2. CASE transcript' = transcript
  BY <1>1, <1>2 DEF CreateStreamTranscript, TypeOK, AsideStep
<1>3. CASE /\ transcript.by \in {"nobody", "stream"}
           /\ transcript' = [gen |-> transcript.gen + 1, by |-> "stream",
                             review |-> "completed", partial |-> FALSE]
  <2>1. transcript.by \notin Jobs
    BY <1>3, ConstantsAssumption
  <2>2. transcript.gen + 1 \in Generations
    BY DEF TypeOK, Transcript, Generations
  <2>3. transcript' \in Transcript
    BY <1>3, <2>2 DEF Transcript, ReviewStates
  <2>4. TypeOK' /\ AsideStep /\ UNCHANGED <<fanout, review>>
    BY <1>1, <2>3 DEF CreateStreamTranscript, TypeOK, AsideStep
  <2> QED
    BY <1>3, <2>1, <2>4
<1> QED
  BY <1>2, <1>3 DEF CreateStreamTranscript

ReviewType == [pc: {"idle", "read", "written", "fanning"}, exp: Generations, to: ReviewStates,
               started: 0..MaxReviews]

\* A review that begins writes only its own state.
LEMMA ReviewReadDoes ==
    ASSUME TypeOK, NEW to \in ReviewStates, ReviewRead(to)
    PROVE  /\ TypeOK' /\ AsideStep /\ UNCHANGED <<transcript, fanout>>
           /\ review.pc = "idle" /\ review'.pc = "read"
<1>1. /\ review.pc = "idle" /\ review.started < MaxReviews /\ review.started \in 0..MaxReviews
      /\ review' = [pc |-> "read", exp |-> transcript.gen, to |-> to,
                    started |-> review.started + 1]
      /\ transcript.gen \in Generations
  BY DEF ReviewRead, TypeOK, Transcript
<1>2. review.started + 1 \in 0..MaxReviews
  BY <1>1, ConstantsAssumption
<1>3. review' \in ReviewType
  BY <1>1, <1>2 DEF ReviewType
<1> QED
  BY <1>1, <1>3 DEF ReviewRead, TypeOK, AsideStep, ReviewType

\* A review handler that has returned.
LEMMA ReviewDoneType ==
    ASSUME TypeOK
    PROVE  ReviewDone \in ReviewType /\ ReviewDone.pc = "idle"
BY DEF TypeOK, ReviewDone, ReviewType, ReviewStates, Generations

\* A review leaves a transcript as it was, or completed with the fan-out to come, or
\* not completed.
LEMMA ReviewWriteDoes ==
    ASSUME TypeOK, ReviewWrite
    PROVE  /\ TypeOK' /\ AsideStep /\ UNCHANGED fanout
           /\ transcript'.gen = transcript.gen /\ transcript'.by = transcript.by
           /\ transcript'.partial = transcript.partial
           /\ review.pc = "read"
           /\ \/ transcript' = transcript /\ review'.pc = "idle"
              \/ review'.pc = "written"
              \/ transcript'.review # "completed"
<1>1. /\ review \in ReviewType /\ transcript \in Transcript /\ review.pc = "read"
      /\ review.to \in ReviewStates
      /\ UNCHANGED <<note, job, active, fanout, storage, worker, stream, faults, config>>
  BY DEF TypeOK, ReviewType, ReviewWrite
<1>2. CASE transcript' = transcript /\ review' = ReviewDone
  BY <1>1, <1>2, ReviewDoneType DEF TypeOK, AsideStep, ReviewType
<1>3. CASE /\ transcript' = [transcript EXCEPT !.review = review.to]
           /\ review' = IF review.to = "completed" THEN [review EXCEPT !.pc = "written"]
                        ELSE ReviewDone
  <2>1. /\ transcript' \in Transcript /\ transcript'.review = review.to
        /\ transcript'.gen = transcript.gen /\ transcript'.by = transcript.by
        /\ transcript'.partial = transcript.partial
    BY <1>1, <1>3 DEF Transcript
  <2>2. [review EXCEPT !.pc = "written"] \in ReviewType
        /\ [review EXCEPT !.pc = "written"].pc = "written"
    BY <1>1 DEF ReviewType
  <2>3. review' \in ReviewType /\ (review.to = "completed" => review'.pc = "written")
    BY <1>3, <2>2, ReviewDoneType
  <2>4. TypeOK' /\ AsideStep /\ UNCHANGED fanout
    BY <1>1, <2>1, <2>3 DEF TypeOK, AsideStep, ReviewType
  <2> QED
    BY <1>1, <2>1, <2>3, <2>4
<1> QED
  BY <1>2, <1>3 DEF ReviewWrite

\* A completed review marks the note.
LEMMA ReviewFanOutDoes ==
    ASSUME TypeOK, ReviewFanOut
    PROVE  TypeOK' /\ AsideStep /\ UNCHANGED <<transcript, fanout>> /\ review'.pc = "fanning"
<1>1. note \in Note /\ "summarizing" \in Statuses /\ review \in ReviewType
  BY DEF TypeOK, Statuses, ReviewType
<1>2. note' \in Note
  BY <1>1, NoteStatus DEF ReviewFanOut
<1>3. review' \in ReviewType /\ review'.pc = "fanning"
  BY <1>1 DEF ReviewFanOut, ReviewType
<1> QED
  BY <1>2, <1>3 DEF ReviewFanOut, TypeOK, AsideStep, ReviewType

\* And then it fans the current transcript out.
LEMMA ReviewEnqueuesDoes ==
    ASSUME TypeOK, ReviewEnqueues
    PROVE  TypeOK' /\ AsideStep /\ UNCHANGED transcript /\ fanout' = transcript.gen
<1>1. note \in Note /\ "ready" \in Statuses /\ transcript.gen \in Generations
  BY DEF TypeOK, Statuses, Transcript
<1>2. note' \in Note /\ active' \in BOOLEAN
  <2>1. active \in BOOLEAN
    BY DEF TypeOK
  <2>2. \/ active' = TRUE /\ note' = note
        \/ note' = [note EXCEPT !.status = "ready"] /\ active' = active
    BY DEF ReviewEnqueues
  <2> QED
    BY <1>1, <2>1, <2>2, NoteStatus
<1>3. /\ fanout' = transcript.gen /\ review' = ReviewDone
      /\ UNCHANGED <<transcript, job, storage, worker, stream, faults, config>>
  BY DEF ReviewEnqueues
<1> QED
  BY <1>1, <1>2, <1>3, ReviewDoneType DEF TypeOK, AsideStep, ReviewType

\* The end of the summaries leaves the transcript alone.
LEMMA SummariesSettleDoes ==
    ASSUME TypeOK, SummariesSettle
    PROVE  TypeOK' /\ AsideStep /\ UNCHANGED <<transcript, fanout, review>>
<1>1. note \in Note /\ "ready" \in Statuses
  BY DEF TypeOK, Statuses
<1>2. note' \in Note
  BY <1>1, NoteStatus DEF SummariesSettle
<1> QED
  BY <1>2 DEF SummariesSettle, TypeOK, AsideStep

\* A fault is counted.
LEMMA FaultDoes ==
    ASSUME TypeOK, Fault
    PROVE  faults' \in 0..MaxFaults /\ faults' # 0
BY ConstantsAssumption DEF TypeOK, Fault

\* A failing statement is a local step, and a fault.
LEMMA StatementFailsDoes ==
    ASSUME TypeOK, NEW w \in Workers, StatementFails(w)
    PROVE  TypeOK' /\ LocalStep(w) /\ worker'[w].pc = "fail" /\ faults' # 0
<1> DEFINE b == worker[w].pc # "load"
<1>1. /\ Replaces(w, [worker[w] EXCEPT !.pc = "fail", !.retryable = b])
      /\ worker[w].pc \notin {"idle", "terminal"} /\ b \in BOOLEAN
      /\ UNCHANGED <<note, storage, transcript, job, Others>>
  BY DEF StatementFails, Fault, Replaces, Others
<1>2. faults' \in 0..MaxFaults /\ faults' # 0 /\ note' \in Note
  BY <1>1, FaultDoes DEF StatementFails, TypeOK
<1> HIDE DEF b
<1> QED
  BY <1>1, <1>2, FailsDoes

\* A failing statement that is only logged is a local step, and a fault; it deletes
\* audio only where applyAudioRetention would.
LEMMA LoggedStatementFailsDoes ==
    ASSUME TypeOK, NEW w \in Workers, LoggedStatementFails(w)
    PROVE  /\ TypeOK' /\ LocalStep(w) /\ faults' # 0
           /\ worker'[w].pc \in Guarded => worker[w].pc \in Guarded
           /\ worker'[w].pc \notin {"resume", "retain"}
           /\ storage' # storage => worker[w].pc = "retain" /\ StillOurs(w)
<1>1. PICK pc \in {"complete", "fail", "review"} :
         /\ Replaces(w, [worker[w] EXCEPT !.pc = pc, !.retryable = FALSE])
         /\ pc = "review" => worker[w].pc = "partial"
  BY DEF LoggedStatementFails, Replaces
<1> DEFINE e == [worker[w] EXCEPT !.pc = pc, !.retryable = FALSE]
<1>2. /\ worker[w].pc \in {"partial", "retain", "release"}
      /\ UNCHANGED <<note, transcript, job, Others>>
      /\ faults' \in 0..MaxFaults /\ faults' # 0
      /\ storage' # storage => worker[w].pc = "retain" /\ StillOurs(w)
  BY FaultDoes DEF LoggedStatementFails, Fault, Others
<1>3. worker[w] \in Worker /\ note' \in Note /\ storage' \in SUBSET Keys
  BY <1>2 DEF TypeOK, LoggedStatementFails
<1>4. Memory(e, worker[w], pc, worker[w].pub, worker[w].review, worker[w].partial, FALSE)
  BY <1>3, MoveWithVerdict DEF Steps
<1>5. e \in Worker /\ pc \in Steps /\ Replaces(w, e)
  BY <1>1, <1>4 DEF Memory, Steps
<1> HIDE DEF e
<1>6. TypeOK' /\ LocalStep(w) /\ worker'[w].pc = pc
  BY <1>2, <1>3, <1>4, <1>5, LocalMove
<1> QED
  BY <1>1, <1>2, <1>6 DEF Guarded

\* A failing review request gives up, and is a fault.
LEMMA ReviewFailsDoes ==
    ASSUME TypeOK, ReviewFails
    PROVE  TypeOK' /\ faults' # 0 /\ UNCHANGED <<transcript, job, worker>>
<1>1. /\ UNCHANGED <<note, transcript, job, active, fanout, storage, worker, stream, config>>
      /\ faults' \in 0..MaxFaults /\ faults' # 0 /\ review' = ReviewDone
  BY FaultDoes DEF ReviewFails, Fault
<1> QED
  BY <1>1, ReviewDoneType DEF TypeOK, ReviewType

\* What a crash or an overrun lease does to rows and workers: a row that is being
\* worked on may become claimable, a worker may forget.
LossStep ==
    /\ \A v \in Workers : worker'[v] = worker[v] \/ worker'[v].pc = "idle"
    /\ \A i \in Jobs : /\ job[i].status \in Filed => job'[i].status \in Filed
                       /\ job'[i].exp = job[i].exp /\ job'[i].pub = job[i].pub
    /\ UNCHANGED <<transcript, fanout, review, config>>

\* A crash is a loss, and a fault.
LEMMA CrashDoes ==
    ASSUME TypeOK, NEW w \in Workers, Crash(w)
    PROVE  TypeOK' /\ LossStep /\ faults' # 0
<1>1. /\ worker[w].pc # "idle" /\ worker' = [worker EXCEPT ![w] = Idle]
      /\ UNCHANGED <<note, transcript, storage, Others>>
      /\ faults' \in 0..MaxFaults /\ faults' # 0
  BY FaultDoes DEF Crash, Fault, Others
<1>2. CASE job' = job
  <2>1. Replaces(w, Idle)
    BY <1>1 DEF Replaces
  <2>2. /\ worker' \in [Workers -> Worker] /\ worker'[w] = Idle
        /\ \A v \in Workers : v # w => worker'[v] = worker[v]
    BY <2>1, IdleFacts, ReplaceFacts
  <2> QED
    BY <1>1, <1>2, <2>2, IdleFacts DEF TypeOK, LossStep, Others
<1>3. CASE job' = [job EXCEPT ![worker[w].job].status = "pending"]
  <2>1. /\ TypeOK' /\ TableStep(w, worker[w].job)
        /\ worker'[w].pc = "idle" /\ job'[worker[w].job].status = "pending"
        /\ job'[worker[w].job].pub = job[worker[w].job].pub
    BY <1>1, <1>3, RequeueDoes
  <2> QED
    BY <1>1, <2>1 DEF TableStep, LossStep, Filed
<1> QED
  BY <1>2, <1>3 DEF Crash, ResetExpiredRunningJobs

\* A lease that expires under a live worker is a loss, and a fault.
LEMMA LeaseOverrunDoes ==
    ASSUME TypeOK, NEW w \in Workers, LeaseOverrun(w)
    PROVE  TypeOK' /\ LossStep /\ faults' # 0
<1> DEFINE j == worker[w].job
           r == [job[j] EXCEPT !.status = "pending"]
<1>1. /\ worker[w].pc # "idle" /\ Updates(j, r)
      /\ UNCHANGED <<note, transcript, storage, worker, Others>>
      /\ faults' \in 0..MaxFaults /\ faults' # 0
  BY FaultDoes DEF LeaseOverrun, ResetExpiredRunningJobs, Fault, Others, Updates
<1>2. j \in Jobs /\ job[j] \in Job /\ "pending" \in Filed
  BY <1>1 DEF TypeOK, Filed
<1>3. r \in Job /\ r.status = "pending" /\ r.exp = job[j].exp /\ r.pub = job[j].pub
  BY <1>2, StatusRow
<1> HIDE DEF j, r
<1>4. /\ job' \in [Jobs -> Job] /\ job'[j] = r
      /\ \A i \in Jobs : i # j => job'[i] = job[i]
  BY <1>1, <1>2, <1>3, UpdateFacts
<1> QED
  BY <1>1, <1>2, <1>3, <1>4 DEF TypeOK, LossStep, Others

-----------------------------------------------------------------------------
(* Lineage is inductive.                                                   *)

\* What Lineage asks of one worker.
Descends(w) ==
    /\ job[worker[w].job].status \in Filed
    /\ worker[w].exp = job[worker[w].job].exp
    /\ Published(transcript, worker[w].pub, worker[w].job)
    /\ worker[w].pc \in Guarded \cup {"resume"} => worker[w].pub # 0

\* A step keeps the lineage if the transcript only grows, rows in the table keep what
\* they expect, and what is new is as it should be.
LEMMA LineageKept ==
    ASSUME Lineage, TypeOK',
           transcript'.gen >= transcript.gen,
           transcript'.gen = transcript.gen => transcript'.by = transcript.by,
           \A i \in Jobs : job[i].status \in Filed =>
               job'[i].status \in Filed /\ job'[i].exp = job[i].exp,
           \A i \in Jobs : job'[i].pub = job[i].pub \/ Published(transcript', job'[i].pub, i),
           \A i \in Jobs : transcript'.by = i =>
               transcript.by = i \/ (job'[i].status \in Filed /\ job'[i].exp < transcript'.gen),
           \A v \in Workers : worker'[v] = worker[v] \/ worker'[v].pc = "idle" \/ Descends(v)'
    PROVE  Lineage'
<1>1. transcript.gen \in Nat /\ transcript'.gen \in Nat
  BY DEF Lineage, TypeOK, Transcript, Generations
<1>2. ASSUME NEW p \in Nat, NEW i, Published(transcript, p, i)
      PROVE  Published(transcript', p, i)
  BY <1>1, <1>2 DEF Published
<1>3. \A i \in Jobs : job[i].pub \in Nat /\ job[i].exp \in Nat /\ job'[i].exp \in Nat
  BY DEF Lineage, TypeOK, Job, Generations
<1>4. \A i \in Jobs : Published(transcript', job'[i].pub, i)
  BY <1>2, <1>3 DEF Lineage, JobLineage
<1>5. ASSUME NEW i \in Jobs, transcript'.by = i
      PROVE  job'[i].status \in Filed /\ job'[i].exp < transcript'.gen
  <2>1. CASE transcript.by = i
    BY <1>1, <1>3, <2>1 DEF Lineage, JobLineage
  <2> QED
    BY <1>5, <2>1
<1>6. JobLineage'
  BY <1>4, <1>5 DEF JobLineage
<1>7. ASSUME NEW v \in Workers, worker'[v].pc # "idle" PROVE Descends(v)'
  <2>1. CASE worker'[v] = worker[v]
    <3>1. /\ worker[v].pc # "idle" /\ worker[v].job \in Jobs /\ worker[v].pub \in Nat
          /\ Descends(v)
      BY <1>7, <2>1 DEF Lineage, WorkerLineage, Descends, TypeOK, Worker, Generations
    <3>2. Published(transcript', worker[v].pub, worker[v].job)
      BY <1>2, <2>1, <3>1 DEF Descends
    <3> QED
      BY <2>1, <3>1, <3>2 DEF Descends
  <2> QED
    BY <1>7, <2>1
<1>8. WorkerLineage'
  BY <1>7 DEF WorkerLineage, Descends
<1> QED
  BY <1>6, <1>8 DEF Lineage

\* Local steps keep the lineage, if a guarded statement is reached only after a
\* publication.
LEMMA LineageLocal ==
    ASSUME Lineage, TypeOK', NEW w \in Workers, LocalStep(w),
           worker'[w].pc \in Guarded \cup {"resume"} => worker[w].pub # 0
    PROVE  Lineage'
<1>1. /\ worker[w].pc # "idle" /\ Descends(w) /\ transcript.gen \in Nat
  BY DEF LocalStep, Lineage, WorkerLineage, Descends, TypeOK, Transcript, Generations
<1>2. Published(transcript', worker[w].pub, worker[w].job)
  BY <1>1 DEF Descends, LocalStep, Published
<1>3. Descends(w)'
  BY <1>1, <1>2 DEF Descends, LocalStep
<1> QED
  BY <1>1, <1>3, LineageKept DEF LocalStep

\* So do the early steps.
LEMMA LineageEarly ==
    ASSUME Lineage, TypeOK', NEW w \in Workers, LocalStep(w), EarlyStep(w)
    PROVE  Lineage'
<1>1. worker'[w].pc \in Guarded \cup {"resume"} => worker[w].pub # 0
  BY DEF EarlyStep, Lineage, WorkerLineage
<1> QED
  BY <1>1, LineageLocal

\* So do the guarded ones.
LEMMA LineageGuarded ==
    ASSUME Lineage, TypeOK', NEW w \in Workers, LocalStep(w), GuardedStep(w)
    PROVE  Lineage'
<1>1. worker[w].pub # 0
  BY DEF GuardedStep, Guarded, Lineage, WorkerLineage
<1> QED
  BY <1>1, LineageLocal

\* A request fills in a row no transcript and no worker refers to.
LEMMA LineageRequest ==
    ASSUME Lineage, TypeOK', NEW j \in Jobs, RequestStep(j)
    PROVE  Lineage'
<1>1. job[j].status \notin Filed /\ transcript.gen \in Nat
  BY DEF RequestStep, Filed, Lineage, TypeOK, Transcript, Generations
<1>2. \A i \in Jobs : job[i].status \in Filed => job'[i] = job[i]
  BY <1>1 DEF RequestStep
<1>3. \A i \in Jobs : job'[i].pub = job[i].pub
  BY DEF RequestStep
<1> QED
  BY <1>1, <1>2, <1>3, LineageKept DEF RequestStep

\* Steps of a worker and its row: the row stays filed, its publication and the
\* worker's memory are of the same descent.
LEMMA LineageTable ==
    ASSUME Lineage, TypeOK', NEW w \in Workers, NEW j \in Jobs, TableStep(w, j),
           job'[j].status \in Filed,
           job'[j].pub = job[j].pub \/ Published(transcript, job'[j].pub, j),
           \/ worker'[w].pc = "idle"
           \/ /\ worker'[w].job = j /\ worker'[w].exp = job[j].exp
              /\ Published(transcript, worker'[w].pub, j)
              /\ worker'[w].pc \in Guarded \cup {"resume"} => worker'[w].pub # 0
    PROVE  Lineage'
<1>1. transcript' = transcript /\ transcript.gen \in Nat
  BY DEF TableStep, Lineage, TypeOK, Transcript, Generations
<1>3. \A i \in Jobs : job[i].status \in Filed => job'[i].status \in Filed /\ job'[i].exp = job[i].exp
  BY DEF TableStep
<1>4. \A i \in Jobs : job'[i].pub = job[i].pub \/ Published(transcript', job'[i].pub, i)
  BY <1>1 DEF TableStep
<1>5. worker'[w].pc = "idle" \/ Descends(w)'
  BY <1>1 DEF Descends, TableStep
<1>6. \A v \in Workers : worker'[v] = worker[v] \/ worker'[v].pc = "idle" \/ Descends(v)'
  BY <1>5 DEF TableStep
<1> QED
  BY <1>1, <1>3, <1>4, <1>6, LineageKept

\* Steps that leave the jobs and the transcript's generation alone, and let workers
\* forget or move on with what they had.
LEMMA LineageAside ==
    ASSUME Lineage, TypeOK', job' = job,
           transcript'.gen = transcript.gen, transcript'.by = transcript.by,
           \A v \in Workers : worker'[v] = worker[v] \/ worker'[v].pc = "idle"
    PROVE  Lineage'
<1>1. transcript.gen \in Nat
  BY DEF Lineage, TypeOK, Transcript, Generations
<1>2. transcript'.gen >= transcript.gen
  BY <1>1
<1> QED
  BY <1>2, LineageKept

\* Forgetting a job, or making its row claimable again, keeps the lineage: the
\* generations on the row stay.
LEMMA LineageLoss ==
    ASSUME Lineage, TypeOK', LossStep
    PROVE  Lineage'
<1>1. transcript.gen \in Nat /\ transcript' = transcript
  BY DEF Lineage, TypeOK, Transcript, Generations, LossStep
<1>2. transcript'.gen >= transcript.gen
  BY <1>1
<1> QED
  BY <1>1, <1>2, LineageKept DEF LossStep

\* The publication of a job descends from the row's expectation.
LEMMA LineagePublish ==
    ASSUME Lineage, NEW w \in Workers, SaveTranscript(w), transcript.gen = worker[w].exp
    PROVE  Lineage'
<1>1. TypeOK
  BY DEF Lineage
<1>2. /\ TypeOK' /\ worker[w].pc = "save" /\ worker[w].job \in Jobs
      /\ \A v \in Workers : v # w => worker'[v] = worker[v]
      /\ transcript'.gen = transcript.gen + 1 /\ transcript'.by = worker[w].job
      /\ worker'[w].pc = "checkpoint" /\ worker'[w].job = worker[w].job
      /\ worker'[w].exp = worker[w].exp /\ worker'[w].pub = transcript.gen + 1
      /\ job' = job
  BY <1>1, PublishDoes
<1>3. transcript.gen \in Nat
  BY <1>1 DEF TypeOK, Transcript, Generations
<1>4. job[worker[w].job].status \in Filed /\ worker[w].exp = job[worker[w].job].exp
  BY <1>2 DEF Lineage, WorkerLineage
<1>5. Descends(w)'
  BY <1>2, <1>3, <1>4 DEF Descends, Published
<1>6. \A v \in Workers : worker'[v] = worker[v] \/ worker'[v].pc = "idle" \/ Descends(v)'
  BY <1>2, <1>5
<1>7. /\ transcript'.gen >= transcript.gen /\ transcript'.gen # transcript.gen
      /\ job'[worker[w].job].exp < transcript'.gen
  BY <1>2, <1>3, <1>4
<1> QED
  BY <1>2, <1>4, <1>6, <1>7, LineageKept

\* A server that completes a review, and the fan-out, move a worker on.
LEMMA LineageMovesOn ==
    ASSUME Lineage, TypeOK', NEW w \in Workers, worker[w].pc \in Guarded,
           job' = job, transcript'.gen = transcript.gen, transcript'.by = transcript.by,
           \A v \in Workers : v # w => worker'[v] = worker[v],
           worker'[w].job = worker[w].job, worker'[w].exp = worker[w].exp,
           worker'[w].pub = worker[w].pub
    PROVE  Lineage'
<1>1. transcript.gen \in Nat /\ worker[w].pc # "idle"
  BY DEF Lineage, TypeOK, Transcript, Generations, Guarded
<1>2. transcript'.gen >= transcript.gen
  BY <1>1
<1>3. Descends(w)'
  BY <1>1 DEF Descends, Lineage, WorkerLineage, Published
<1> QED
  BY <1>2, <1>3, LineageKept

\* A live stream's transcript is nobody's.
LEMMA LineageStream ==
    ASSUME Lineage, CreateStreamTranscript
    PROVE  Lineage'
<1>1. TypeOK
  BY DEF Lineage
<1>2. /\ TypeOK' /\ job' = job /\ worker' = worker
      /\ \/ transcript' = transcript
         \/ transcript'.by = "stream" /\ transcript'.gen = transcript.gen + 1
  BY <1>1, CreateStreamDoes DEF AsideStep
<1>3. transcript.gen \in Nat /\ "stream" \notin Jobs
  BY <1>1, ConstantsAssumption DEF TypeOK, Transcript, Generations
<1>4. CASE transcript' = transcript
  BY <1>2, <1>4, LineageAside
<1>5. CASE transcript'.by = "stream" /\ transcript'.gen = transcript.gen + 1
  <2>1. /\ transcript'.gen >= transcript.gen /\ transcript'.gen # transcript.gen
        /\ \A i \in Jobs : transcript'.by # i
    BY <1>3, <1>5
  <2> QED
    BY <1>2, <2>1, LineageKept
<1> QED
  BY <1>2, <1>4, <1>5

\* There is no transcript and no job at first.
LEMMA LineageInit == Init => Lineage
<1> SUFFICES ASSUME Init PROVE Lineage
  OBVIOUS
<1>1. transcript \in Transcript /\ transcript.gen = 0 /\ transcript.by = "nobody"
  BY DEF Init, Transcript, Generations, ReviewStates
<1>2. note \in Note
  BY DEF Init, Note, Statuses
<1>3. job \in [Jobs -> Job] /\ \A j \in Jobs : job[j].pub = 0
  BY DEF Init, Job, Generations
<1>4. worker \in [Workers -> Worker] /\ \A w \in Workers : worker[w].pc = "idle"
  BY IdleFacts DEF Init
<1>5. /\ stream \in [pc: {"idle", "accepted", "opened"}, exp: Generations, started: 0..MaxStreams]
      /\ review \in [pc: {"idle", "read", "written", "fanning"}, exp: Generations, to: ReviewStates,
                     started: 0..MaxReviews]
      /\ faults \in 0..MaxFaults
  BY ConstantsAssumption DEF Init, Generations, ReviewStates
<1>6. TypeOK
  BY <1>1, <1>2, <1>3, <1>4, <1>5 DEF TypeOK, Init, Generations
<1>7. WorkerLineage /\ JobLineage
  BY <1>1, <1>3, <1>4, ConstantsAssumption DEF WorkerLineage, JobLineage, Published
<1> QED
  BY <1>6, <1>7 DEF Lineage

\* Every statement of runTranscribe keeps the lineage.
LEMMA LineageRun ==
    ASSUME Lineage, NEW w \in Workers, RunTranscribe(w)
    PROVE  Lineage'
<1>1. TypeOK
  BY DEF Lineage
<1>2. CASE \E j \in Jobs : ClaimJob(w, j)
  <2>1. PICK j \in Jobs : ClaimJob(w, j)
    BY <1>2
  <2>2. /\ TypeOK' /\ TableStep(w, j) /\ job'[j].status = "running" /\ job'[j].pub = job[j].pub
        /\ worker'[w].pc = "check" /\ worker'[w].job = j
        /\ worker'[w].exp = job[j].exp /\ worker'[w].pub = job[j].pub
    BY <1>1, <2>1, ClaimJobDoes
  <2>3. Published(transcript, job[j].pub, j)
    BY DEF Lineage, JobLineage
  <2> QED
    BY <2>2, <2>3, LineageTable DEF Filed, Guarded
<1>3. CASE \/ CheckGeneration(w) \/ ClaimNoteForTranscription(w) \/ LoadNote(w)
           \/ ResumeAfterPublication(w) \/ ReleaseTranscribeClaim(w)
  BY <1>1, <1>3, CheckDoes, ClaimNoteDoes, LoadDoes, ResumeDoes, ReleaseDoes, LineageEarly
<1>4. CASE \E partial \in BOOLEAN, state \in {"pending", "completed"} :
              PluginAnswers(w, partial, state)
  BY <1>1, <1>4, PluginAnswersDoes, LineageEarly
<1>5. CASE \E retryable \in BOOLEAN : PluginFails(w, retryable)
  BY <1>1, <1>5, PluginFailsDoes, LineageEarly
<1>6. CASE SaveTranscript(w)
  BY <1>1, <1>6, SupersededDoes, LineageEarly, LineagePublish
<1>7. CASE PersistPriorStatus(w) \/ CheckpointPublication(w)
  <2>1. PICK pc \in {"load", "still"} :
            (PersistPriorStatus(w) /\ pc = "load") \/ (CheckpointPublication(w) /\ pc = "still")
    <3>1. CASE PersistPriorStatus(w)
      <4> WITNESS "load" \in {"load", "still"}
      <4> QED
        BY <3>1
    <3>2. CASE CheckpointPublication(w)
      <4> WITNESS "still" \in {"load", "still"}
      <4> QED
        BY <3>2
    <3> QED
      BY <1>7, <3>1, <3>2
  <2>2. worker[w].pc # "idle"
    BY <1>7 DEF PersistPriorStatus, CheckpointPublication
  <2>3. Descends(w)
    BY <2>2 DEF Lineage, WorkerLineage, Descends
  <2>4. /\ TypeOK' /\ TableStep(w, worker[w].job) /\ worker[w].job \in Jobs
        /\ worker[w].pc = IF pc = "load" THEN "persist" ELSE "checkpoint"
        /\ job'[worker[w].job].status = job[worker[w].job].status
        /\ job'[worker[w].job].pub = worker[w].pub
        /\ worker'[w].pc = pc /\ worker'[w].job = worker[w].job
        /\ worker'[w].exp = worker[w].exp /\ worker'[w].pub = worker[w].pub
    BY <1>1, <2>1, <2>3, PersistDoes DEF Descends
  <2> QED
    BY <2>3, <2>4, LineageTable DEF Descends, Guarded
<1>8. CASE \/ TranscriptStillCurrent(w) \/ SetNoteHashes(w) \/ SetNotePartialTranscript(w)
           \/ DeleteNoteSummaries(w) \/ ApplyAudioRetention(w)
  BY <1>1, <1>8, StillDoes, HashDoes, PartialDoes, DeleteDoes, RetainDoes, LineageGuarded
<1>9. CASE HoldForReview(w)
  <2>1. CASE worker[w].review = "completed" \/ ~config.embedded \/ ~StillOurs(w)
    BY <1>1, <1>9, <2>1, HoldDoes, LineageGuarded
  <2>2. CASE worker[w].review # "completed" /\ config.embedded /\ StillOurs(w)
    BY <1>1, <1>9, <2>2, SelfReviewDoes, LineageMovesOn DEF Guarded
  <2> QED
    BY <2>1, <2>2
<1>10. CASE EnqueueSummarizeJobs(w)
  <2>1. CASE StillOurs(w)
    BY <1>1, <1>10, <2>1, FanOutDoes, LineageMovesOn DEF Guarded
  <2>2. CASE ~StillOurs(w)
    BY <1>1, <1>10, <2>2, NoFanOutDoes, LineageGuarded
  <2> QED
    BY <2>1, <2>2
<1>11. CASE CompleteJob(w)
  BY <1>1, <1>11, CompleteDoes, LineageTable DEF Filed
<1>12. CASE FailJob(w)
  <2>1. CASE /\ job' = [job EXCEPT ![worker[w].job].status = "pending"]
             /\ worker' = [worker EXCEPT ![w] = Idle]
    <3>1. /\ worker[w].pc # "idle" /\ faults' \in 0..MaxFaults
          /\ UNCHANGED <<note, transcript, storage, Others>>
      BY <1>1, <1>12 DEF FailJob, TypeOK, Others
    <3> QED
      BY <1>1, <2>1, <3>1, RequeueDoes, LineageTable DEF Filed
  <2>2. CASE job' = [job EXCEPT ![worker[w].job].status = "failed"] /\ Goto(w, "terminal")
    <3>1. /\ worker[w].pc = "fail" /\ UNCHANGED <<note, transcript, storage, Others, faults>>
      BY <1>12 DEF FailJob, Others
    <3>2. Descends(w)
      BY <3>1 DEF Lineage, WorkerLineage, Descends
    <3> QED
      BY <1>1, <2>2, <3>1, <3>2, FailForGoodDoes, LineageTable DEF Filed, Descends, Guarded
  <2> QED
    BY <1>12, <2>1, <2>2 DEF FailJob
<1>13. CASE HandleTerminalFailure(w)
  BY <1>1, <1>13, TerminalDoes, LineageAside
<1> QED
  BY <1>2, <1>3, <1>4, <1>5, <1>6, <1>7, <1>8, <1>9, <1>10, <1>11, <1>12, <1>13
     DEF RunTranscribe

\* The lineage is inductive, faults included.
LEMMA LineageStep == Lineage /\ [Next]_vars => Lineage'
<1> SUFFICES ASSUME Lineage, [Next]_vars PROVE Lineage'
  OBVIOUS
<1>1. TypeOK
  BY DEF Lineage
<1>2. CASE \E j \in Jobs, k \in Keys : Upload(j, k)
  BY <1>1, <1>2, UploadDoes, LineageRequest
<1>3. CASE \E j \in Jobs : Retranscribe(j) \/ ReadExpectedGeneration(j) \/ Enqueue(j)
  BY <1>1, <1>3, RetranscribeDoes, ReadExpectedDoes, EnqueueDoes, LineageRequest
<1>4. CASE \E j \in Jobs, kind \in {"retry", "admin-retry"} : Retry(j, kind)
  BY <1>1, <1>4, RetryDoes, LineageRequest
<1>5. CASE \E w \in Workers : RunTranscribe(w)
  BY <1>5, LineageRun
<1>6. CASE \E w \in Workers : StatementFails(w)
  BY <1>1, <1>6, StatementFailsDoes, LineageLocal DEF Guarded
<1>7. CASE \E w \in Workers : Crash(w) \/ LeaseOverrun(w)
  BY <1>1, <1>7, CrashDoes, LeaseOverrunDoes, LineageLoss
<1>8. CASE StreamAccepted \/ StreamOpened \/ SummariesSettle
  BY <1>1, <1>8, StreamAcceptedDoes, StreamOpenedDoes, SummariesSettleDoes, LineageAside
     DEF AsideStep
<1>9. CASE CreateStreamTranscript
  BY <1>9, LineageStream
<1>10. CASE \E to \in ReviewStates : ReviewRead(to)
  BY <1>1, <1>10, ReviewReadDoes, LineageAside DEF AsideStep
<1>11. CASE ReviewWrite
  BY <1>1, <1>11, ReviewWriteDoes, LineageAside DEF AsideStep
<1>12. CASE ReviewFanOut \/ ReviewEnqueues
  BY <1>1, <1>12, ReviewFanOutDoes, ReviewEnqueuesDoes, LineageAside DEF AsideStep
<1>13. CASE UNCHANGED vars
  BY <1>1, <1>13 DEF vars, Lineage, TypeOK, WorkerLineage, JobLineage, Published
<1>14. ASSUME NEW w \in Workers, LoggedStatementFails(w) PROVE Lineage'
  <2>1. /\ TypeOK' /\ LocalStep(w)
        /\ worker'[w].pc \in Guarded \cup {"resume"} => worker[w].pc \in Guarded
    BY <1>1, <1>14, LoggedStatementFailsDoes
  <2>2. worker[w].pc \in Guarded => worker[w].pub # 0
    BY DEF Lineage, WorkerLineage, Guarded
  <2> QED
    BY <2>1, <2>2, LineageLocal
<1>15. CASE ReviewFails
  BY <1>1, <1>15, ReviewFailsDoes, LineageAside
<1> QED
  BY <1>2, <1>3, <1>4, <1>5, <1>6, <1>7, <1>8, <1>9, <1>10, <1>11, <1>12, <1>13, <1>14, <1>15
     DEF Next

-----------------------------------------------------------------------------
(* What follows from the lineage.                                          *)

\* The lineage holds in every behaviour of the pipeline.
THEOREM LineageAlways == Spec => []Lineage
BY LineageInit, LineageStep, PTL DEF Spec

\* Every variable of the pipeline keeps its type, and a worker that is not idle
\* has a job.
THEOREM TypeCorrect == Spec => []TypeOK
<1>1. Lineage => TypeOK
  BY DEF Lineage
<1> QED
  BY <1>1, LineageAlways, PTL

\* SaveTranscript and CreateStreamTranscript are the only statements that replace
\* a transcript.
LEMMA WhoReplaces ==
    ASSUME TypeOK, Next, transcript'.gen # transcript.gen
    PROVE  CreateStreamTranscript \/ \E w \in Workers : SaveTranscript(w)
<1>1. CASE \E w \in Workers : RunTranscribe(w)
  <2>1. PICK w \in Workers : RunTranscribe(w)
    BY <1>1
  <2>2. ~HoldForReview(w)
    <3>1. SUFFICES ASSUME HoldForReview(w) PROVE transcript'.gen = transcript.gen
      OBVIOUS
    <3>2. CASE worker[w].review = "completed" \/ ~config.embedded \/ ~StillOurs(w)
      BY <3>1, <3>2, HoldDoes DEF LocalStep
    <3>3. CASE worker[w].review # "completed" /\ config.embedded /\ StillOurs(w)
      BY <3>1, <3>3, SelfReviewDoes
    <3> QED
      BY <3>2, <3>3
  <2> QED
    BY <2>1, <2>2 DEF RunTranscribe, ClaimJob, CheckGeneration, ClaimNoteForTranscription,
       PersistPriorStatus, LoadNote, ResumeAfterPublication, PluginAnswers, PluginFails,
       CheckpointPublication, TranscriptStillCurrent, SetNoteHashes, SetNotePartialTranscript,
       DeleteNoteSummaries, EnqueueSummarizeJobs, ApplyAudioRetention, ReleaseTranscribeClaim,
       CompleteJob, FailJob, HandleTerminalFailure
<1>2. CASE \/ \E j \in Jobs, k \in Keys : Upload(j, k)
           \/ \E j \in Jobs : Retranscribe(j) \/ ReadExpectedGeneration(j) \/ Enqueue(j)
           \/ \E j \in Jobs, kind \in {"retry", "admin-retry"} : Retry(j, kind)
  BY <1>2 DEF Upload, Retranscribe, ReadExpectedGeneration, Enqueue, Retry
<1>3. CASE \E w \in Workers : StatementFails(w) \/ LoggedStatementFails(w) \/ Crash(w) \/ LeaseOverrun(w)
  BY <1>3 DEF StatementFails, LoggedStatementFails, Crash, LeaseOverrun
<1>4. CASE \/ StreamAccepted \/ StreamOpened \/ ReviewFanOut \/ SummariesSettle
           \/ ReviewEnqueues \/ ReviewFails \/ \E to \in ReviewStates : ReviewRead(to)
  BY <1>4 DEF StreamAccepted, StreamOpened, ReviewFanOut, SummariesSettle, ReviewRead,
     ReviewEnqueues, ReviewFails
<1>5. CASE ReviewWrite
  BY <1>5, ReviewWriteDoes
<1> QED
  BY <1>1, <1>2, <1>3, <1>4, <1>5 DEF Next

\* A retry of a job never replaces the transcript that job itself published: the
\* job's expected generation is older than its publication, so the save of a
\* second attempt is refused, whatever crashed or was lost in between.
THEOREM OwnTranscriptIsSafe == Spec => OwnTranscriptStands
<1>1. ASSUME Lineage, [Next]_vars
      PROVE  [transcript'.gen # transcript.gen /\ transcript.by \in Jobs
                  => transcript'.by # transcript.by]_vars
  <2>1. SUFFICES ASSUME Next, transcript'.gen # transcript.gen, transcript.by \in Jobs
                 PROVE  transcript'.by # transcript.by
    BY <1>1 DEF vars
  <2>2. TypeOK
    BY <1>1 DEF Lineage
  <2>3. CASE CreateStreamTranscript
    BY <2>1, <2>2, <2>3, CreateStreamDoes, ConstantsAssumption
  <2>4. ASSUME NEW w \in Workers, SaveTranscript(w) PROVE transcript'.by # transcript.by
    <3>1. CASE transcript.gen # worker[w].exp
      BY <2>1, <2>2, <2>4, <3>1, SupersededDoes DEF LocalStep
    <3>2. CASE transcript.gen = worker[w].exp
      <4>1. /\ worker[w].pc = "save" /\ worker[w].job \in Jobs
            /\ transcript'.by = worker[w].job
        BY <2>2, <2>4, <3>2, PublishDoes
      <4>2. worker[w].exp = job[worker[w].job].exp
        BY <1>1, <4>1 DEF Lineage, WorkerLineage
      <4>3. transcript.by = worker[w].job => job[worker[w].job].exp < transcript.gen
        BY <1>1, <4>1 DEF Lineage, JobLineage
      <4>4. transcript.gen \in Nat
        BY <2>2 DEF TypeOK, Transcript, Generations
      <4> QED
        BY <3>2, <4>1, <4>2, <4>3, <4>4
    <3> QED
      BY <3>1, <3>2
  <2> QED
    BY <2>1, <2>2, <2>3, <2>4, WhoReplaces
<1> QED
  BY <1>1, LineageAlways, PTL DEF Spec, OwnTranscriptStands

\* Only applyAudioRetention deletes audio objects, whether it records it or fails to.
LEMMA WhoDeletes ==
    ASSUME Next, storage' # storage
    PROVE  \E w \in Workers : ApplyAudioRetention(w) \/ LoggedStatementFails(w)
<1>1. CASE \E w \in Workers : RunTranscribe(w)
  BY <1>1 DEF RunTranscribe, ClaimJob, CheckGeneration, ClaimNoteForTranscription,
     PersistPriorStatus, LoadNote, ResumeAfterPublication, PluginAnswers, PluginFails,
     SaveTranscript, CheckpointPublication, TranscriptStillCurrent, SetNoteHashes,
     SetNotePartialTranscript, HoldForReview, DeleteNoteSummaries, EnqueueSummarizeJobs,
     ReleaseTranscribeClaim, CompleteJob, FailJob, HandleTerminalFailure
<1>2. CASE \/ \E j \in Jobs, k \in Keys : Upload(j, k)
           \/ \E j \in Jobs : Retranscribe(j) \/ ReadExpectedGeneration(j) \/ Enqueue(j)
           \/ \E j \in Jobs, kind \in {"retry", "admin-retry"} : Retry(j, kind)
  BY <1>2 DEF Upload, Retranscribe, ReadExpectedGeneration, Enqueue, Retry
<1>3. CASE \E w \in Workers : StatementFails(w) \/ Crash(w) \/ LeaseOverrun(w)
  BY <1>3 DEF StatementFails, Crash, LeaseOverrun
<1>4. CASE \/ StreamAccepted \/ StreamOpened \/ CreateStreamTranscript \/ ReviewWrite
           \/ ReviewFanOut \/ ReviewEnqueues \/ ReviewFails
           \/ SummariesSettle \/ \E to \in ReviewStates : ReviewRead(to)
  BY <1>4 DEF StreamAccepted, StreamOpened, CreateStreamTranscript, ReviewWrite,
     ReviewFanOut, ReviewEnqueues, ReviewFails, SummariesSettle, ReviewRead
<1> QED
  BY <1>1, <1>2, <1>3, <1>4 DEF Next

\* Audio is deleted only by the job that published the current transcript: a
\* generation that a worker remembers having published and that is still the
\* transcript's can be nobody else's.
THEOREM DiscardIsAuthorised == Spec => DiscardIsOwned
<1>1. ASSUME Lineage, [Next]_vars
      PROVE  [storage' # storage
                  => \E w \in Workers : /\ worker[w].pc = "retain" /\ worker'[w].pc # "retain"
                                        /\ worker[w].job = transcript.by]_vars
  <2>1. SUFFICES ASSUME Next, storage' # storage
                 PROVE  \E w \in Workers : /\ worker[w].pc = "retain" /\ worker'[w].pc # "retain"
                                           /\ worker[w].job = transcript.by
    BY <1>1 DEF vars
  <2>2. PICK w \in Workers : ApplyAudioRetention(w) \/ LoggedStatementFails(w)
    BY <2>1, WhoDeletes
  <2>3. worker[w].pc = "retain" /\ worker'[w].pc # "retain" /\ StillOurs(w)
    BY <1>1, <2>1, <2>2, RetainDoes, LoggedStatementFailsDoes DEF Lineage
  <2>4. worker[w].pub # 0 /\ Published(transcript, worker[w].pub, worker[w].job)
    BY <1>1, <2>3 DEF Lineage, WorkerLineage, Guarded
  <2>5. worker[w].job = transcript.by
    BY <2>3, <2>4 DEF Published, StillOurs
  <2> QED
    BY <2>3, <2>5
<1> QED
  BY <1>1, LineageAlways, PTL DEF Spec, DiscardIsOwned

-----------------------------------------------------------------------------
(* Smooth is kept by the steps that are not faults.                        *)

\* What a step may do to the publisher of the current transcript: it goes on, and
\* if it was on its way to the fan-out it still is.
StaysOnCourse(w) ==
    /\ worker'[w].pc \in Guarded \cup {"complete", "fail", "terminal"}
    /\ worker'[w].partial = worker[w].partial
    /\ worker'[w].pc = "fail" => worker[w].partial /\ ~worker'[w].retryable
    /\ WillFanOut(w) /\ ~worker[w].partial => WillFanOut(w)'

\* A move that leaves every row's status and the transcript alone.
LEMMA SmoothMove ==
    ASSUME Lineage, Smooth, NEW w \in Workers,
           \A v \in Workers : v # w => worker'[v] = worker[v],
           worker[w].pc \notin {"idle", "terminal"}, worker'[w].pc \notin {"idle", "terminal"},
           worker'[w].job = worker[w].job, worker'[w].pub = worker[w].pub,
           \A i \in Jobs : job'[i].status = job[i].status,
           UNCHANGED <<transcript, fanout, review, config>>,
           worker[w].job = transcript.by => StaysOnCourse(w)
    PROVE  Smooth'
<1>1. \A v \in Workers : /\ worker'[v].pc = "idle" <=> worker[v].pc = "idle"
                         /\ worker'[v].pc = "terminal" <=> worker[v].pc = "terminal"
                         /\ worker'[v].job = worker[v].job /\ worker'[v].pub = worker[v].pub
  OBVIOUS
<1>2. \A v \in Workers : worker[v].pc # "idle" => worker[v].job \in Jobs
  BY DEF Lineage, TypeOK
<1>3. OneWorkerEach'
  BY <1>1, <1>2 DEF Smooth, OneWorkerEach, Working
<1>4. ASSUME NEW v \in Workers, Working(v, transcript.by)'
      PROVE  /\ worker'[v].pc \in Guarded \cup {"complete", "fail", "terminal"}
             /\ worker'[v].pub = transcript'.gen
             /\ worker'[v].partial = transcript'.partial
             /\ worker'[v].pc = "fail" => transcript'.partial /\ ~worker'[v].retryable
  <2>1. /\ Working(v, transcript.by)
        /\ worker[v].pub = transcript.gen /\ worker[v].partial = transcript.partial
    BY <1>1, <1>4 DEF Working, Smooth, PublisherGoesOn
  <2>2. CASE v = w
    BY <2>1, <2>2 DEF Working, StaysOnCourse
  <2>3. CASE v # w
    BY <2>1, <2>3 DEF Smooth, PublisherGoesOn
  <2> QED
    BY <2>2, <2>3
<1>5. PublisherGoesOn'
  <2>1. \A j \in Jobs : transcript'.by = j => job'[j].status \in {"running", "done", "failed"}
    BY DEF Smooth, PublisherGoesOn
  <2> QED
    BY <1>4, <2>1 DEF PublisherGoesOn
<1>6. FanOutIsOwed'
  <2>1. SUFFICES ASSUME transcript.by \in Jobs, ~transcript.partial,
                        transcript.review = "completed", review.pc \notin {"written", "fanning"},
                        fanout # transcript.gen
                 PROVE  \E v \in Workers : worker'[v].job = transcript.by /\ WillFanOut(v)'
    BY DEF FanOutIsOwed
  <2>2. PICK v \in Workers : worker[v].job = transcript.by /\ WillFanOut(v)
    BY <2>1 DEF Smooth, FanOutIsOwed
  <2>3. CASE v = w
    <3>1. Working(w, transcript.by)
      BY <2>2, <2>3 DEF Working
    <3>2. ~worker[w].partial
      BY <2>1, <3>1 DEF Smooth, PublisherGoesOn
    <3> QED
      BY <2>2, <2>3, <3>2 DEF StaysOnCourse
  <2>4. CASE v # w
    BY <2>2, <2>4 DEF WillFanOut
  <2> QED
    BY <2>3, <2>4
<1> QED
  BY <1>3, <1>5, <1>6 DEF Smooth

\* Early steps are not the publisher's.
LEMMA SmoothEarly ==
    ASSUME Lineage, Smooth, NEW w \in Workers, LocalStep(w), EarlyStep(w)
    PROVE  Smooth'
<1>1. worker[w].job # transcript.by
  BY DEF EarlyStep, Smooth, PublisherGoesOn, Working, Guarded
<1> QED
  BY <1>1, SmoothMove DEF LocalStep

\* Guarded steps keep the publisher on its course.
LEMMA SmoothGuarded ==
    ASSUME Lineage, Smooth, NEW w \in Workers, LocalStep(w), GuardedStep(w)
    PROVE  Smooth'
<1>1. ASSUME worker[w].job = transcript.by PROVE StaysOnCourse(w)
  <2>1. StillOurs(w)
    BY <1>1 DEF GuardedStep, Guarded, Smooth, PublisherGoesOn, Working, StillOurs
  <2>2. config' = config
    BY DEF LocalStep
  <2> QED
    BY <2>1, <2>2 DEF StaysOnCourse, GuardedStep, WillFanOut, Guarded
<1> QED
  BY <1>1, SmoothMove DEF LocalStep

\* The row of a request is nobody's yet.
LEMMA SmoothRequest ==
    ASSUME Lineage, Smooth, NEW j \in Jobs, RequestStep(j)
    PROVE  Smooth'
<1>1. /\ transcript.by # j
      /\ \A w \in Workers : worker[w].pc # "idle" => worker[w].job # j /\ worker[w].job \in Jobs
  BY DEF RequestStep, Smooth, OneWorkerEach, PublisherGoesOn, Lineage, TypeOK
<1>2. OneWorkerEach'
  BY <1>1 DEF RequestStep, Smooth, OneWorkerEach, Working
<1>3. PublisherGoesOn'
  BY <1>1 DEF RequestStep, Smooth, PublisherGoesOn, Working
<1>4. FanOutIsOwed'
  BY DEF RequestStep, Smooth, FanOutIsOwed, WillFanOut
<1> QED
  BY <1>2, <1>3, <1>4 DEF Smooth

\* A job that is claimed is not the publisher of the current transcript.
LEMMA SmoothClaim ==
    ASSUME Lineage, Smooth, NEW w \in Workers, NEW j \in Jobs, ClaimJob(w, j)
    PROVE  Smooth'
<1>1. /\ TableStep(w, j) /\ worker[w].pc = "idle" /\ job[j].status = "pending"
      /\ job'[j].status = "running" /\ worker'[w].pc = "check" /\ worker'[w].job = j
  BY ClaimJobDoes DEF Lineage
<1>2. /\ transcript.by # j
      /\ \A v \in Workers : worker[v].pc # "idle" => worker[v].job # j /\ worker[v].job \in Jobs
  BY <1>1 DEF Smooth, OneWorkerEach, PublisherGoesOn, Lineage, TypeOK
<1>3. OneWorkerEach'
  BY <1>1, <1>2 DEF TableStep, Smooth, OneWorkerEach, Working
<1>4. PublisherGoesOn'
  BY <1>1, <1>2 DEF TableStep, Smooth, PublisherGoesOn, Working
<1>5. FanOutIsOwed'
  <2>1. \A v \in Workers : WillFanOut(v) => v # w /\ WillFanOut(v)' /\ worker'[v] = worker[v]
    BY <1>1 DEF TableStep, WillFanOut
  <2> QED
    BY <1>1, <2>1 DEF TableStep, Smooth, FanOutIsOwed
<1> QED
  BY <1>3, <1>4, <1>5 DEF Smooth

\* A worker settles its job; the publisher of the current transcript has fanned out
\* by then, or fails for good.
LEMMA SmoothSettle ==
    ASSUME Lineage, Smooth, NEW w \in Workers,
           worker[w].pc \in {"complete", "fail", "terminal"},
           \A v \in Workers : v # w => worker'[v] = worker[v],
           \A i \in Jobs : i # worker[w].job => job'[i] = job[i],
           UNCHANGED <<transcript, fanout, review, config>>,
           job'[worker[w].job].status \in {"pending", "done", "failed"},
           job'[worker[w].job].status = "pending" => transcript.by # worker[w].job,
           \/ worker'[w].pc = "idle"
           \/ /\ worker'[w].pc = "terminal" /\ worker'[w].job = worker[w].job
              /\ worker'[w].pub = worker[w].pub /\ worker'[w].partial = worker[w].partial
              /\ job'[worker[w].job].status = "failed"
    PROVE  Smooth'
<1>1. \A v \in Workers : worker[v].pc # "idle" =>
          worker[v].job \in Jobs /\ (v # w => worker[v].job # worker[w].job)
  BY DEF Smooth, OneWorkerEach, Working, Lineage, TypeOK
<1>2. OneWorkerEach'
  BY <1>1 DEF Smooth, OneWorkerEach, Working
<1>3. PublisherGoesOn'
  <2>1. \A j \in Jobs : transcript'.by = j => job'[j].status \in {"running", "done", "failed"}
    BY DEF Smooth, PublisherGoesOn
  <2>2. ASSUME NEW v \in Workers, Working(v, transcript.by)'
        PROVE  /\ worker'[v].pc \in Guarded \cup {"complete", "fail", "terminal"}
               /\ worker'[v].pub = transcript'.gen
               /\ worker'[v].partial = transcript'.partial
               /\ worker'[v].pc = "fail" => transcript'.partial /\ ~worker'[v].retryable
    <3>1. CASE v = w
      BY <2>2, <3>1 DEF Smooth, PublisherGoesOn, Working
    <3>2. CASE v # w
      BY <2>2, <3>2 DEF Smooth, PublisherGoesOn, Working
    <3> QED
      BY <3>1, <3>2
  <2> QED
    BY <2>1, <2>2 DEF PublisherGoesOn
<1>4. FanOutIsOwed'
  <2>1. \A v \in Workers : WillFanOut(v) => v # w /\ WillFanOut(v)' /\ worker'[v] = worker[v]
    BY DEF WillFanOut
  <2> QED
    BY <2>1 DEF Smooth, FanOutIsOwed
<1> QED
  BY <1>2, <1>3, <1>4 DEF Smooth

\* The job that publishes is on its way to the fan-out.
LEMMA SmoothPublish ==
    ASSUME Lineage, Smooth, NEW w \in Workers, SaveTranscript(w), transcript.gen = worker[w].exp
    PROVE  Smooth'
<1>1. TypeOK /\ \A v \in Workers : worker[v].pc # "idle" => worker[v].job \in Jobs
  BY DEF Lineage, TypeOK
<1>2. /\ worker[w].pc = "save" /\ worker[w].job \in Jobs
      /\ \A v \in Workers : v # w => worker'[v] = worker[v]
      /\ transcript'.gen = transcript.gen + 1 /\ transcript'.by = worker[w].job
      /\ transcript'.review = worker[w].review /\ transcript'.partial = worker[w].partial
      /\ worker'[w].pc = "checkpoint" /\ worker'[w].job = worker[w].job
      /\ worker'[w].pub = transcript.gen + 1
      /\ worker'[w].review = worker[w].review /\ worker'[w].partial = worker[w].partial
      /\ job' = job
  BY <1>1, PublishDoes
<1>3. OneWorkerEach'
  BY <1>1, <1>2 DEF Smooth, OneWorkerEach, Working
<1>4. \A v \in Workers : Working(v, transcript.by)' => v = w
  BY <1>2 DEF Smooth, OneWorkerEach, Working
<1>5. job'[worker[w].job].status = "running"
  BY <1>2 DEF Smooth, OneWorkerEach
<1>6. PublisherGoesOn'
  BY <1>2, <1>4, <1>5 DEF PublisherGoesOn, Guarded
<1>7. transcript'.review = "completed" => WillFanOut(w)'
  BY <1>2 DEF WillFanOut
<1>8. FanOutIsOwed'
  BY <1>2, <1>7 DEF FanOutIsOwed
<1> QED
  BY <1>3, <1>6, <1>8 DEF Smooth

\* A step of the publisher that leaves the fan-out owed or pays it.
LEMMA SmoothOwn ==
    ASSUME Lineage, Smooth, NEW w \in Workers,
           worker[w].pc \in Guarded, worker'[w].pc \in Guarded, StillOurs(w),
           \A v \in Workers : v # w => worker'[v] = worker[v],
           worker'[w].job = worker[w].job, worker'[w].pub = worker[w].pub,
           worker'[w].partial = worker[w].partial,
           transcript'.gen = transcript.gen, transcript'.by = transcript.by,
           transcript'.partial = transcript.partial, job' = job,
           WillFanOut(w)' \/ fanout' = transcript'.gen
    PROVE  Smooth'
<1>1. /\ worker[w].pc \notin {"idle", "terminal", "fail"}
      /\ worker'[w].pc \notin {"idle", "terminal", "fail"}
      /\ worker[w].job = transcript.by
  BY DEF Guarded, Lineage, WorkerLineage, Published, StillOurs
<1>2. OneWorkerEach'
  BY <1>1 DEF Smooth, OneWorkerEach, Working
<1>3. PublisherGoesOn'
  <2>1. \A j \in Jobs : transcript'.by = j => job'[j].status \in {"running", "done", "failed"}
    BY DEF Smooth, PublisherGoesOn
  <2>2. ASSUME NEW v \in Workers, Working(v, transcript.by)'
        PROVE  /\ worker'[v].pc \in Guarded \cup {"complete", "fail", "terminal"}
               /\ worker'[v].pub = transcript'.gen
               /\ worker'[v].partial = transcript'.partial
               /\ worker'[v].pc = "fail" => transcript'.partial /\ ~worker'[v].retryable
    <3>1. CASE v = w
      BY <1>1, <3>1 DEF Smooth, PublisherGoesOn, Working
    <3>2. CASE v # w
      BY <2>2, <3>2 DEF Smooth, PublisherGoesOn, Working
    <3> QED
      BY <3>1, <3>2
  <2> QED
    BY <2>1, <2>2 DEF PublisherGoesOn
<1>4. FanOutIsOwed'
  BY <1>1 DEF FanOutIsOwed
<1> QED
  BY <1>2, <1>3, <1>4 DEF Smooth

\* Streams and reviews: the fan-out is owed no more, or as it was.
LEMMA SmoothAside ==
    ASSUME Lineage, Smooth, AsideStep, transcript'.gen = transcript.gen,
           transcript'.by = transcript.by, transcript'.partial = transcript.partial,
           \/ fanout' = transcript'.gen
           \/ review'.pc \in {"written", "fanning"}
           \/ transcript'.review # "completed"
           \/ /\ UNCHANGED <<transcript, fanout>> /\ review.pc \notin {"written", "fanning"}
           \/ UNCHANGED <<transcript, fanout, review>>
    PROVE  Smooth'
<1>1. OneWorkerEach'
  BY DEF AsideStep, Smooth, OneWorkerEach, Working
<1>2. PublisherGoesOn'
  BY DEF AsideStep, Smooth, PublisherGoesOn, Working
<1>3. FanOutIsOwed'
  BY DEF AsideStep, Smooth, FanOutIsOwed, WillFanOut
<1> QED
  BY <1>1, <1>2, <1>3 DEF Smooth

\* A live stream takes over only a transcript that is nobody's or a stream's.
LEMMA SmoothStream ==
    ASSUME Lineage, Smooth, CreateStreamTranscript
    PROVE  Smooth'
<1>1. /\ TypeOK /\ \A v \in Workers : worker[v].pc # "idle" => worker[v].job \in Jobs
      /\ "stream" \notin Jobs
  BY ConstantsAssumption DEF Lineage, TypeOK
<1>2. /\ AsideStep /\ UNCHANGED <<fanout, review>>
      /\ transcript' = transcript \/ transcript'.by = "stream"
  BY <1>1, CreateStreamDoes
<1>3. CASE transcript' = transcript
  BY <1>2, <1>3, SmoothAside
<1>4. CASE transcript'.by = "stream"
  <2>1. OneWorkerEach'
    BY <1>2 DEF AsideStep, Smooth, OneWorkerEach, Working
  <2>2. PublisherGoesOn' /\ FanOutIsOwed'
    BY <1>1, <1>2, <1>4 DEF AsideStep, PublisherGoesOn, Working, FanOutIsOwed
  <2> QED
    BY <2>1, <2>2 DEF Smooth
<1> QED
  BY <1>2, <1>3, <1>4

\* Every statement of runTranscribe keeps the pipeline smooth.
LEMMA SmoothRun ==
    ASSUME Lineage, Smooth, NEW w \in Workers, RunTranscribe(w)
    PROVE  Smooth'
<1>1. TypeOK
  BY DEF Lineage
<1>2. CASE \E j \in Jobs : ClaimJob(w, j)
  BY <1>2, SmoothClaim
<1>3. CASE \/ CheckGeneration(w) \/ ClaimNoteForTranscription(w) \/ LoadNote(w)
           \/ ResumeAfterPublication(w) \/ ReleaseTranscribeClaim(w)
  BY <1>1, <1>3, CheckDoes, ClaimNoteDoes, LoadDoes, ResumeDoes, ReleaseDoes, SmoothEarly
<1>4. CASE \E partial \in BOOLEAN, state \in {"pending", "completed"} :
              PluginAnswers(w, partial, state)
  BY <1>1, <1>4, PluginAnswersDoes, SmoothEarly
<1>5. CASE \E retryable \in BOOLEAN : PluginFails(w, retryable)
  BY <1>1, <1>5, PluginFailsDoes, SmoothEarly
<1>6. CASE SaveTranscript(w)
  BY <1>1, <1>6, SupersededDoes, SmoothEarly, SmoothPublish
<1>7. CASE PersistPriorStatus(w) \/ CheckpointPublication(w)
  <2>1. PICK pc \in {"load", "still"} :
            (PersistPriorStatus(w) /\ pc = "load") \/ (CheckpointPublication(w) /\ pc = "still")
    <3>1. CASE PersistPriorStatus(w)
      <4> WITNESS "load" \in {"load", "still"}
      <4> QED
        BY <3>1
    <3>2. CASE CheckpointPublication(w)
      <4> WITNESS "still" \in {"load", "still"}
      <4> QED
        BY <3>2
    <3> QED
      BY <1>7, <3>1, <3>2
  <2>2. worker[w].pc # "idle"
    BY <1>7 DEF PersistPriorStatus, CheckpointPublication
  <2>3. worker[w].exp = job[worker[w].job].exp
    BY <2>2 DEF Lineage, WorkerLineage
  <2>4. /\ TableStep(w, worker[w].job) /\ worker[w].job \in Jobs
        /\ worker[w].pc = IF pc = "load" THEN "persist" ELSE "checkpoint"
        /\ job'[worker[w].job].status = job[worker[w].job].status
        /\ worker'[w].pc = pc /\ worker'[w].job = worker[w].job
        /\ worker'[w].pub = worker[w].pub /\ Same(w)
    BY <1>1, <2>1, <2>3, PersistDoes
  <2>5. worker[w].job = transcript.by => worker[w].pc # "persist"
    BY <2>2 DEF Smooth, PublisherGoesOn, Working, Guarded
  <2>6. worker[w].job = transcript.by => StaysOnCourse(w)
    BY <2>4, <2>5 DEF StaysOnCourse, Same, WillFanOut, TableStep, Guarded
  <2> QED
    BY <2>4, <2>6, SmoothMove DEF TableStep
<1>8. CASE \/ TranscriptStillCurrent(w) \/ SetNoteHashes(w) \/ SetNotePartialTranscript(w)
           \/ DeleteNoteSummaries(w) \/ ApplyAudioRetention(w)
  BY <1>1, <1>8, StillDoes, HashDoes, PartialDoes, DeleteDoes, RetainDoes, SmoothGuarded
<1>9. CASE HoldForReview(w)
  <2>1. CASE worker[w].review = "completed" \/ ~config.embedded \/ ~StillOurs(w)
    BY <1>1, <1>9, <2>1, HoldDoes, SmoothGuarded
  <2>2. CASE worker[w].review # "completed" /\ config.embedded /\ StillOurs(w)
    BY <1>1, <1>9, <2>2, SelfReviewDoes, SmoothOwn DEF Guarded, Same, WillFanOut
  <2> QED
    BY <2>1, <2>2
<1>10. CASE EnqueueSummarizeJobs(w)
  <2>1. CASE StillOurs(w)
    BY <1>1, <1>10, <2>1, FanOutDoes, SmoothOwn DEF Guarded, Same
  <2>2. CASE ~StillOurs(w)
    BY <1>1, <1>10, <2>2, NoFanOutDoes, SmoothGuarded
  <2> QED
    BY <2>1, <2>2
<1>11. CASE CompleteJob(w)
  BY <1>1, <1>11, CompleteDoes, SmoothSettle DEF TableStep
<1>12. CASE FailJob(w)
  <2>1. CASE /\ worker[w].retryable
             /\ job' = [job EXCEPT ![worker[w].job].status = "pending"]
             /\ worker' = [worker EXCEPT ![w] = Idle]
    <3>1. /\ worker[w].pc = "fail" /\ worker[w].pc # "idle" /\ faults' \in 0..MaxFaults
          /\ UNCHANGED <<note, transcript, storage, Others>>
      BY <1>1, <1>12 DEF FailJob, TypeOK, Others
    <3>2. transcript.by # worker[w].job
      BY <2>1, <3>1 DEF Smooth, PublisherGoesOn, Working
    <3> QED
      BY <1>1, <2>1, <3>1, <3>2, RequeueDoes, SmoothSettle DEF TableStep
  <2>2. CASE job' = [job EXCEPT ![worker[w].job].status = "failed"] /\ Goto(w, "terminal")
    <3>1. /\ worker[w].pc = "fail" /\ UNCHANGED <<note, transcript, storage, Others, faults>>
      BY <1>12 DEF FailJob, Others
    <3> QED
      BY <1>1, <2>2, <3>1, FailForGoodDoes, SmoothSettle DEF TableStep
  <2> QED
    BY <1>12, <2>1, <2>2 DEF FailJob
<1>13. CASE HandleTerminalFailure(w)
  <2>1. /\ worker[w].pc = "terminal" /\ worker'[w].pc = "idle"
        /\ \A v \in Workers : v # w => worker'[v] = worker[v]
        /\ UNCHANGED <<job, transcript, fanout, review, config>>
    BY <1>1, <1>13, TerminalDoes
  <2>2. job'[worker[w].job].status = "failed"
    BY <2>1 DEF Smooth, OneWorkerEach
  <2> QED
    BY <2>1, <2>2, SmoothSettle
<1> QED
  BY <1>2, <1>3, <1>4, <1>5, <1>6, <1>7, <1>8, <1>9, <1>10, <1>11, <1>12, <1>13
     DEF RunTranscribe

\* A statement that succeeds is no fault.
LEMMA RunIsNoFault ==
    ASSUME NEW w \in Workers, RunTranscribe(w)
    PROVE  faults' = faults
BY DEF RunTranscribe, ClaimJob, CheckGeneration, ClaimNoteForTranscription, PersistPriorStatus,
   LoadNote, ResumeAfterPublication, PluginAnswers, PluginFails, SaveTranscript,
   CheckpointPublication, TranscriptStillCurrent, SetNoteHashes, SetNotePartialTranscript,
   HoldForReview, DeleteNoteSummaries, EnqueueSummarizeJobs, ApplyAudioRetention,
   ReleaseTranscribeClaim, CompleteJob, FailJob, HandleTerminalFailure

\* There is no worker and no publisher at first.
LEMMA SmoothInit == Init => Smooth
<1> SUFFICES ASSUME Init PROVE Smooth
  OBVIOUS
<1>1. transcript.by = "nobody" /\ "nobody" \notin Jobs
  BY ConstantsAssumption DEF Init
<1>2. \A w \in Workers : worker[w].pc = "idle"
  BY IdleFacts DEF Init
<1> QED
  BY <1>1, <1>2 DEF Smooth, OneWorkerEach, PublisherGoesOn, FanOutIsOwed, Working

\* Without a fault, every step keeps the pipeline smooth.
LEMMA SmoothStep == IInv /\ [Next]_vars => (faults' = 0 => Smooth')
<1> SUFFICES ASSUME IInv, [Next]_vars, faults' = 0 PROVE Smooth'
  OBVIOUS
<1>1. Lineage /\ TypeOK
  BY DEF IInv, Lineage
<1>2. ASSUME faults' = faults PROVE Smooth
  BY <1>2 DEF IInv
<1>3. CASE \E j \in Jobs, k \in Keys : Upload(j, k)
  BY <1>1, <1>2, <1>3, UploadDoes, SmoothRequest DEF RequestStep
<1>4. CASE \E j \in Jobs : Retranscribe(j) \/ ReadExpectedGeneration(j) \/ Enqueue(j)
  BY <1>1, <1>2, <1>4, RetranscribeDoes, ReadExpectedDoes, EnqueueDoes, SmoothRequest
     DEF RequestStep
<1>5. CASE \E j \in Jobs, kind \in {"retry", "admin-retry"} : Retry(j, kind)
  BY <1>1, <1>2, <1>5, RetryDoes, SmoothRequest DEF RequestStep
<1>6. CASE \E w \in Workers : RunTranscribe(w)
  BY <1>1, <1>2, <1>6, RunIsNoFault, SmoothRun
<1>7. CASE \/ \E w \in Workers : StatementFails(w) \/ LoggedStatementFails(w)
                                 \/ Crash(w) \/ LeaseOverrun(w)
           \/ ReviewFails
  BY <1>1, <1>7, StatementFailsDoes, LoggedStatementFailsDoes, CrashDoes, LeaseOverrunDoes,
     ReviewFailsDoes
<1>8. CASE StreamAccepted \/ StreamOpened \/ SummariesSettle
  BY <1>1, <1>2, <1>8, StreamAcceptedDoes, StreamOpenedDoes, SummariesSettleDoes, SmoothAside
     DEF AsideStep
<1>9. CASE CreateStreamTranscript
  BY <1>1, <1>2, <1>9, SmoothStream DEF CreateStreamTranscript
<1>10. CASE \E to \in ReviewStates : ReviewRead(to)
  BY <1>1, <1>2, <1>10, ReviewReadDoes, SmoothAside DEF AsideStep
<1>11. CASE ReviewWrite
  <2>1. /\ AsideStep /\ UNCHANGED fanout
        /\ transcript'.gen = transcript.gen /\ transcript'.by = transcript.by
        /\ transcript'.partial = transcript.partial
        /\ review.pc = "read"
        /\ \/ transcript' = transcript /\ review'.pc = "idle"
           \/ review'.pc = "written"
           \/ transcript'.review # "completed"
    BY <1>1, <1>11, ReviewWriteDoes
  <2>2. Smooth
    BY <1>2, <2>1 DEF AsideStep
  <2> QED
    BY <1>1, <2>1, <2>2, SmoothAside
<1>12. CASE ReviewFanOut \/ ReviewEnqueues
  BY <1>1, <1>2, <1>12, ReviewFanOutDoes, ReviewEnqueuesDoes, SmoothAside DEF AsideStep
<1>13. CASE UNCHANGED vars
  <2>1. AsideStep /\ UNCHANGED <<transcript, fanout, review>>
    BY <1>13 DEF vars, AsideStep
  <2>2. Smooth
    BY <1>2, <2>1 DEF AsideStep
  <2> QED
    BY <1>1, <2>1, <2>2, SmoothAside
<1> QED
  BY <1>3, <1>4, <1>5, <1>6, <1>7, <1>8, <1>9, <1>10, <1>11, <1>12, <1>13 DEF Next

\* The inductive invariant: the lineage always, and as long as there is no fault
\* one worker per job, a publisher that goes on, and a fan-out that is owed.
THEOREM IInvAlways == Spec => []IInv
<1>1. Init => IInv
  BY LineageInit, SmoothInit DEF IInv
<1>2. IInv /\ [Next]_vars => IInv'
  BY LineageStep, SmoothStep DEF IInv
<1> QED
  BY <1>1, <1>2, PTL DEF Spec

\* A job that is done while its transcript is the note's, whole and reviewed, has
\* requested summaries of that very transcript, as long as no statement failed and
\* no process died: whatever retries, reviews, streams and other jobs of the note
\* come in between.
THEOREM CurrentIsSummarized == Spec => []CurrentIsFannedOut
<1>1. IInv => CurrentIsFannedOut
  <2>1. SUFFICES ASSUME IInv, faults = 0, NEW j \in Jobs, job[j].status = "done",
                        transcript.by = j, ~transcript.partial,
                        transcript.review = "completed", review.pc \notin {"written", "fanning"},
                        fanout # transcript.gen
                 PROVE  FALSE
    BY DEF CurrentIsFannedOut, DoneMeansFannedOut
  <2>2. Smooth
    BY <2>1 DEF IInv
  <2>3. PICK w \in Workers : worker[w].job = j /\ WillFanOut(w)
    BY <2>1, <2>2 DEF Smooth, FanOutIsOwed
  <2>4. worker[w].pc \notin {"idle", "terminal"}
    BY <2>3 DEF WillFanOut
  <2>5. job[j].status = "running"
    BY <2>2, <2>3, <2>4 DEF Smooth, OneWorkerEach
  <2> QED
    BY <2>1, <2>5
<1> QED
  BY <1>1, IInvAlways, PTL
============================================================================
