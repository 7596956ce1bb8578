# TLA+ verification of muesli

muesli records meetings, transcribes them and summarises them with an LLM. A Go
server (`internal/`, `cmd/muesli`) keeps everything in Postgres and an object
store; plugins (transcribers and agents) are called over HTTP or WebSocket; an
Electron application, a web administration and mobile applications are its
clients. The desktop build runs the same server with a Postgres of its own. The
specifications here model the server's protocols: the job queue and what runs on
it, the live stream from the client's microphone to the plugin's utterances, the
calendar and its briefs, the organisation of notes, the recordings, and the
processes of the desktop build.

- [Inventory](#inventory): the parts of the system and what makes them correct
- [Modules](#modules): which module models which part, and how
- [Runs](#runs): what TLC checks, in which bounds, under which fairness
- [Known departures](#known-departures): where the code does not do what its comments say
- [Proofs](#proofs): what TLAPS proves, and how
- [What is not modelled](#what-is-not-modelled) and the [plan](#plan)

## Inventory

| Component | State | Operations | Hard behaviours | Correct when |
|---|---|---|---|---|
| Job queue and workers (`store/jobs.go`, `worker/worker.go`, `recovery.go`) | `jobs` rows: status, attempts, lease, priority, created_at, payload; the job each goroutine has claimed | enqueue, claim, complete, fail, cancel, bump, reset expired; poll, process, recover, sweep | claims race; leases expire; settling updates are by id alone; a process dies between two statements | one runner per job; settled is final; every job settles |
| Transcription (`worker/pipeline.go`) | the note row, the transcript row and its generation, the job's payload | claim the note, call the plugin, save, checkpoint, hashes, partial flag, review, fan-out, retention, release | several jobs for one note; retries that resume; a stream or another job replaces the transcript between any two statements | a job publishes once; the note gets out of the pipeline; the current transcript is summarised; audio is deleted only by its publisher |
| Transcripts and review (`store/transcripts.go`) | segments, generation, review state, gaps | save, stream append, record a gap, review transitions | optimistic generations | stale writers are refused |
| Summaries (`worker/pipeline.go`, `store/summaries.go`) | `summaries` rows, note status | fan out, run, settle, finalise, resummarize, cancel, retry | count, then write; several rounds at once; cancel; trash | the note leaves `summarizing`; a round is announced once; a pending summary is owed by somebody |
| Webhooks (`store/webhooks.go`, `webhook/deliver.go`) | deliveries: status, attempts, next attempt | create, list, claim, post, settle, retry, reset | batches go stale; crash in flight; several processes | one dispatcher; every delivery settles |
| Live stream, audio half (`api/stream.go`) | the audio channel, the drop tracker, gap rows | read, evict, push, observe, flush, send, tear down | two goroutines on a bounded channel | no frame is lost silently; the client's socket never stalls |
| Live stream, client half (`api/stream_outbound.go`) | the mailbox, three wake-up channels, a debounce timer | enqueue, coalesce, close, write | lost wake-ups; a stale partial after a final | order; stored finals are shown; the writer ends |
| Streaming plugin (`pluginkit/streaming.go`, `stream_server.go`, `cmd/whisper-cpp-streaming`) | slots, the model, a session's window, queued commits, the transcription in flight | admit, load, feed, commit, transcribe, hand over, finish, shut down | a transcription runs beside the audio; a bounded queue of finals; a client leaves while the model loads | all speech is in one final, in order; slots come back |
| Live prompts (`store/live_templates.go`, `worker/livegenerate.go`) | output rows, their visibility, demand and active job | append, reconcile, schedule, generate, complete behind a fence, fail, recover | late completions; edits, a second stream, trash and recovery while a job runs | one job per row; a shown answer is the current stream's; demand is served |
| Live viewers (`store/live_notifications.go`, `live_subscriptions.go`, `api/live_prompts.go`) | subscription leases, per-viewer mailboxes and versions | admit, renew, wake, reread, heartbeat | lost NOTIFYs; expired leases; capacity | viewers come to show what is stored |
| Calendar (`worker/calendarsync.go`, `store/calendar.go`, `api/calendar.go`) | sources, events, links of notes | connect, select, fetch, upsert, prune, status | overlapping passes; partial passes | the copy converges to the upstream calendar |
| Pre-meeting briefs (`store/event_briefs.go`, `worker/prebrief*.go`) | brief rows, input hashes, generations, jobs | reconcile, enqueue, generate, publish, fail, retry, expire | event, template or agent change while a brief is written | a ready brief is of its inputs; a pending one is owed; all settle |
| Folders and shares (`store/folders.go`, `shares.go`) | folders with parents, visibility, trash; filings; share links | create, move, file, trash, restore, purge, share | check and write are separate statements | a forest; a private folder is its owner's |
| Tags, links, copies (`store/notes.go`, `tags.go`, `notelinks.go`) | tags, links, titles, bodies | save a body, link mentions, copy, rename, trash, purge | requests of many statements; a removal looks for other notes, then deletes | a tag goes with its last note; mentions are linked |
| Mobile note list (`store/mobile_notes.go`) | the client's cursor | read a page | the list changes between pages | an untouched note is on one page |
| People (`people/`, `store/people.go`, `speaker_aliases.go`) | people, companies, aliases | derive, link, relink, merge, delete | a merge beside links, deletes and other merges | a merge loses no speaker |
| Recordings (`api/upload.go`, `import_audio.go`, `storage/local.go`, `worker/trashpurge.go`) | objects, the rows that name them | upload, import, attach, retain, trash, purge | file and row change in separate steps; crash | audio goes with its row or by retention only |
| Backups (`backup/`, `worker/backup.go`) | dump files | dump, prune | overlapping runs, broken dumps | the newest good dump stays |
| Listener for iOS clients (`api/listener_controller.go`, `iosaccess/`) | the bound listener, watchers, certificate files | enable, disable, reset, status | a watcher acts late; the address disappears; files half written | `ListenerPromise` |
| Embedded services (`embedded/`, `cmd/muesli`) | owner lock, postmaster, pid file, password, key, plugins, progress | start, adopt or refuse, spawn, report, stop | overlapping launches, reused process ids, kills | one owner; starts fail for cause; launches end |
| Conversations (`api/chat.go`, `cross_analysis.go`, `store/conversations.go`, `cross_analysis.go`) | conversation and message rows, an in-memory guard, the snapshot a handler holds | create, send, analyse, append, title, delete | history and snapshot are read in several statements, long before the answer is stored | an answer follows its question in context; an analysis is of all its meetings |
| Registry, search, insights, embeddings, auth, export, applications | | | | not modelled, see below |

How they interact. API handlers write notes and enqueue jobs; workers lease jobs
and write notes, transcripts, summaries, briefs and live outputs; the
transcription job fans out into summarize jobs, the last of which makes the note
ready, extracts action items, enqueues an embedding job and creates webhook
deliveries. A live stream writes its own transcript row, which the uploaded
recording's transcript later replaces, and every finalized segment raises demand
for the live prompts. A calendar pass stores events and then reconciles briefs.
Nothing but the database connects the parts, and nothing but single statements and
a few transactions is atomic in it: the hard behaviours are nearly all
interleavings of statements of two requests or workers, or of a request and its
own retry.

`PROJECT.json` lists the hazards line by line, with the properties that would
catch each one.

## Modules

| Module | Models | Checked by |
|---|---|---|
| `JobQueue` | the jobs table, the pool and the recovery sweeps | `MCJobs`, `Jobs_proofs` |
| `WebhookDelivery` | the deliveries table and one delivery worker per process | `MCJobs`, `Jobs_proofs` |
| `StreamingPlugin` | slots, model and sessions of a streaming transcriber | `MCJobs` |
| `Transcribe` | one note from upload to fan-out, with its transcribe jobs, streams, reviews | `MCTranscribe`, `Transcribe_proofs` |
| `Summarize` | one transcribed note, its summaries, summarize jobs and requests | `MCSummarize`, `Summarize_proofs` |
| `AudioBuffer` | reader and writer goroutine of one stream | `MCStreaming`, `Streaming_proofs` |
| `OutboundMailbox` | relay and client writer of one stream | `MCStreaming` |
| `LiveOutputs` | the live prompt outputs of one note and their jobs | `LiveViewers` extends it |
| `LiveViewers` | composes `LiveOutputs` with the viewers of the note | `MCLive`, through `MCStreaming`; `Streaming_proofs` |
| `Calendar` | one calendar source, its passes and stored events | `EventBriefs` extends it |
| `EventBriefs` | composes `Calendar` with the briefs of its events | `MCEventBriefs`, `EventBriefs_proofs` |
| `Library` | folders, filing, shares, readable reads | `MCLibrary`, `MCNotebook`, `Notebook_proofs` |
| `Notebook` | titles, bodies, mentions, links, tags, copies, trash | `MCNotebook`, `Notebook_proofs` |
| `MobileNotes` | the paged list | `MCNotebook` |
| `People` | people, companies and speaker aliases | `MCNotebook`, `Notebook_proofs` |
| `Conversations` | chat turns and analyses across meetings | `MCNotebook`, `Notebook_proofs` |
| `Recordings` | uploads, imports, retention, purge | `MCStorage`, `Storage_proofs` |
| `Backups` | dumps and pruning | `MCStorage`, `Storage_proofs` |
| `ListenerPromise` | abstract: what the listener controller promises | `ListenerController` implements it |
| `ListenerController` | control pipe, controller, watchers, certificate files | `MCStorage`, `Storage_proofs` |
| `Embedded` | launches of the desktop server on one data directory | `MCEmbedded`, `Embedded_proofs` |
| `EmbeddedStartup` | progress reports and model downloads of one start | `MCStorage` |

The state variables are the rows and the local variables that outlive a
statement; an action is one statement, one transaction, one section under a
lock, one `select`, one file operation or one call to a plugin, and is named after
the function that performs it. Where a function has several statements, a `pc` (or
`stage`) field says which comes next. Definitions named in a `Mutation:` comment
are the planted faults that show the properties can fail.

**JobQueue.** `job` holds status, attempts, lease, priority and creation order of
every row; `worker` what each goroutine remembers of its claim. Time is reduced
to what the SQL compares with `now()`: a lease is absent, held or expired.
`FailJob` is two steps, because it is a SELECT and an UPDATE. `Abandon` is a dead
process or a failed settling write. `LeaseCoversWork` states the sizing of
`defaultJobLease`: a lease is not shorter than the work it covers. It is a
parameter, and the theorems that need it say so.

**Transcribe.** `runTranscribe` is followed statement by statement (`Steps`). A
transcript is a generation number, its author, its review state and whether it is
partial. Leases are abstracted away: a retryable failure is requeued or was the
last attempt, a crash or a lease overrun makes the row claimable again. Summarize
jobs are one flag. The fan-out of a review is two steps, the templates and then the
jobs. A failing `SetNotePartialTranscript` is only logged and the job goes on
(`LoggedStatementFails`). Whether the server is embedded is chosen at start-up; whether
the owner has templates that run automatically is chosen at every fan-out.

**Summarize.** The same for one round of summaries after another: the three kinds
of request, each of which deletes, sets the status, creates rows and enqueues jobs
in separate statements; `Process` up to `FinalizeNote`, which counts, then writes.
`rounds` and `announced` are history variables.

**WebhookDelivery.** A process lists a batch, then claims, posts and settles row
by row, from the attempts it *listed*. `Run` is a start of the server, which requeues
what was in flight; `ResetFails` is one whose requeue fails and is only logged.

**AudioBuffer.** Each of the three selects of `enqueueAudioFrame` is a step.
Positions are counted in frames of equal length, numbered from one.

**OutboundMailbox.** `closers` tells apart the two steps of `close`, flag and
wake-up; `wake` is the set of wake-up channels that hold a signal. The debounce
timer may fire at any moment it is set.

**StreamingPlugin.** Audio is counted in samples. A chunk is cut into detector
frames with the remainder carried over, as `Feed` does, under its mutex: one step.
Whether a frame is speech is the detector's choice (`EnergyVAD` and
`AdaptiveEnergyVAD` are signal processing). The transcription in flight is a step
to answer and a step to take the mutex and hand over; commits queue behind it and
the oldest is given up at `MaxPendingCommits`. Handler, slots, loader and shutdown
are those of `stream_server.go` and the live engine.

**LiveOutputs, LiveViewers.** A row is a (template, stream) pair with demand,
served revision, visibility, event version and active job. Each store function is
one transaction and so one step; the worker's load, plugin call and completion are
separate, with everything else in between. The 60-second cadence is enabledness.
A viewer has a lease that may lapse, a mailbox that coalesces, the versions it has
sent and what its client shows; a NOTIFY may be lost.

**Calendar, EventBriefs.** What an event says is its version; a hash is what it is
computed from: the versions of event, template and agent. Every edit makes a version
that was not there before; an edit that is taken back, after which the code computes
the earlier hash again, is left out (see the departures). A pass fetches, upserts
in one transaction, prunes, looks up the default agent once (a lookup that fails counts
as no agent), reconciles the briefs in batches and records its status; the scheduler's
and a request's passes may overlap.

**Library, Notebook, MobileNotes, People.** Requests that check first and write
later are two steps or more. `raced` (Library) and `sure`, `late`, `left`, `spoke`, `steady` are
history variables: a write made on a check that no longer held, the mentions that
named one note all along, the notes that got a tag since its removal looked for them
and whether one let go of it, the aliases a merge has moved, the notes nobody touched
during a scroll. Putting a tag on a note, taking it off, and the merges of people and of
companies are READ COMMITTED transactions, statement by statement: each statement sees
what was committed before it, the writes are visible to others at the commit, the rows
written are locked until then, a row that is referred to cannot be deleted, and of
transactions that wait for each other one is aborted.

**Conversations.** A send is a handler that goes from one store or plugin call to the
next (`pc`). Its snapshot has, for every meeting, the generation read and `held`,
whether that generation's segments were still there when the third statement read
them. `at` is the start of the transaction that inserted a message, which is what
`created_at` has. Retrieval of passages, prompts and rate limits are left out.

**Recordings, Backups.** An object is absent, partial or a clip; a request is a
sequence of statements and file operations with a possible failure or stop after
each. The client is the desktop application's (`uploadMachine.ts`): it reports an
object once its PUT succeeded, and asks for a new link for a new recording. The server
itself would accept any object that is not empty, and another PUT to a link until it
expires. `Process` skips the job of a note in the trash. `stranded` has the notes whose
recording was left without a job. A backup file is named by its second and there before it is whole.

**ListenerController and ListenerPromise.** The promise has six variables: the
host's addresses, the pair being served, whether the last listener was closed for
its address, the last answer, whether the address has been missed, and the session,
which changes when the pipe or the process ends. A listener opens only while a request
is being answered, and closes then, with the session, or because its address went
missing; a failed
request leaves none open; one whose address stays away is closed. The controller
has the pipe's requests, the mutex, one watcher per generation, certificate and key
files that may be half written, renewals, and restarts. `KeepsPromise` is
`Promise!Spec` under `INSTANCE ListenerPromise WITH network <- Snapshot,
open <- Open, ...`.

**Embedded, EmbeddedStartup.** A process id names whatever process has it now. The
launch is followed from owner lock to serving and from signal to exit, with the
files it leaves: pid file, password, key, registrations. EmbeddedStartup keeps
only what the desktop application is told.

## Runs

All bounds are CONSTANTS that a guard tests. Deadlock checking is off throughout:
each model has an end (all jobs settled, all frames sent, all requests made) at
which the program waits for more requests.

Components that share no state are checked in one run by giving every behaviour a
`part` (`MCJobs`, `MCStreaming`, `MCNotebook`, `MCStorage`): the variables of the
other parts keep their initial values. Kinds of disturbance are kept apart in the
same way where all of them at once would be too many: `profile` in `MCEventBriefs`
and `MCLive`, `scenario` in `MCSummarize`, `Single`, `Streamed` and `Reviewed` in
`MCTranscribe`, `HookBound` in `MCJobs`, `MaxTroubles` in `MCStorage`, `MaxTotal` in
`MCEmbedded`. What a behaviour may meet is in these
modules, and is the first thing to widen.

| Run | Instance | Shows |
|---|---|---|
| `jobs` (`MCJobs`) | 2 jobs, 2 workers, 2 attempts, 2 abandons, priorities up to 2; 2 deliveries, 2 processes, 1 stop, lost write or retry, or 1 delivery, a stop and a lost write; 2 plugin clients for 1 slot, chunks of 3 and 12 samples, frames of 2, 2 queued commits, 1 failed load; 246 k states | `OneRunnerPerJob`, `TerminalVerdictsAgree`, `SettledIsFinal`, `EveryJobSettles`; `OneDispatcher`, `DeliverySettles`; `SpeechIsCovered`, `SlotsComeBack` |
| `transcribe` (`MCTranscribe`) | 2 jobs and 2 workers with a stream, or with 2 reviews, without faults; or 1 job with a fault and a stream or reviews; or 1 job with 2 faults on an embedded server that keeps audio; 3.6 M states | `CurrentIsFannedOut`, `NotStuck`, `OwnTranscriptStands`, `DiscardIsOwned` |
| `summarize` (`MCSummarize`) | 2 requests of any kind, 2 workers, 2 attempts; or fan-out and 1 request with one fault, intervention or trashing | `AnnouncedOnce` (with `GuardKeepsOneSummary`), `PendingIsOwed`, `RoundsEnd` |
| `streaming` (`MCStreaming`) | 7 frames through a channel of 2; 2 segments, 2 events, 1 gap notice; 2 templates, 2 streams, 5 jobs, 1 edit, fault, crash, cancellation, trashing; 2 viewers for 1 place, 1 lapse; 253 k states | `Accounted`, `NothingLostSilently`; `ShownFinalsAreStored`, `WriterEnds`; `VisibleIsCurrent` (with `OneJobPerRow`), `DemandIsServed`; `ViewerConverges` |
| `library` (`MCNotebook`) | 2 users, 3 folders, 2 notes, 1 share link, 2 requests under way, 5 in all; 3 notes, 2 titles or 2 tags, 3 edits, 1 fault; pages of up to 2 over 3 notes with 5 changes; 2 attendees, 2 speakers, 2 tasks; 2 conversations, 2 meetings, 2 sends, 1 disturbance; 736 k states | `Forest`, `TagsGoWithTheirLastNote`, `MentionsAreLinked`, `PagesCoverTheList`, `MergeKeepsSpeakers`, `AnsweredInContext`, `AnalysedAsAdmitted` |
| `event_briefs` (`MCEventBriefs`) | 1 source of each kind, 2 events, 1 template, 2 syncers, 3 jobs; six profiles of edits, overlaps, changes, faults, time and settings; edits move an event within the window, past the horizon, and past what is fetched; 576 k states | `PendingIsOwed`, `ReadyIsFresh`, `BriefsSettle` |
| `embedded` (`MCEmbedded`) | 2 overlapping launches, 2 process ids, at most 2 of kill, crash, reused id and failing statement; 555 k states | `OneOwner`, `StartFailsForCause`, `EveryLaunchEnds` |
| `storage` (`MCStorage`) | 1 note, 2 clients, 2 uploads, 1 fault or crash; 2 backup runs in 4 seconds, 2 kept, 2 broken; 2 interfaces, 2 addresses, 2 requests, 2 moves; 2 downloads; 219 k states | `AudioIsKept`, `RecordingsSettle`; `NewestBackupStays`; `KeepsPromise`; `ReadyHolds` |
| `transcribe_crash` | 1 job, 1 fault | refutes `DoneMeansFannedOut` |
| `transcribe_lockout` | 2 jobs, 2 recordings | refutes `DiscardedMeansGone` |
| `summarize_cancel` | fan-out, 1 job, 1 cancellation | refutes `SummarizingEnds` |
| `library_private` | as `library`, folders only | refutes `PrivateFoldersHoldOwnNotes` |

The type invariant of every module is a conjunct of one of its properties, or, for
`JobQueue` and `AudioBuffer`, a theorem.

Why the bounds are enough. The races are between two parties, so two of each
suffice: two workers for one job, two jobs for one note, two requests, two
processes, two launches, two syncers, two merges. Two attempts give a first, a
retry and a last failure. Two faults let a retry itself be disturbed. Seven frames
through a channel of two allow two separate runs of drops with frames sent in
between. A chunk of twelve samples holds more utterances than the queue takes; one
of three leaves a remainder. Three folders allow a cycle of two below a third and
a subtree trashed in two parts. Two streams and an edit let an answer come back to a
row that has moved on. Two brief generations and a third job let a retry meet its
successor.

Symmetry is used in `transcribe` (workers, jobs, recordings) and `library`
(requests, tasks, speakers), which have no liveness properties. The others identify
interchangeable ids by using them in order.

Fairness. Specifications ask for fairness of program steps only: worker goroutines
poll until shutdown (`worker.Run`), a handler that has begun runs to its return,
goroutines of a stream or a plugin that can run do run, schedulers and sweeps
recur, a heartbeat and a renewal tick, a stopped server is started again
(`WebhookDelivery`), and the clock moves on, so leases and backoffs elapse. Nothing
obliges clients, plugins, administrators, notifications or the network to act.
That a plugin call returns is part of a step being taken: every call has a
timeout. Fairness is weak, with one exception: a model download ends under strong
fairness (`PullEnds` in `EmbeddedStartup`), because `modelPullTimeout` ends it
however many lines it prints in the meantime. Where several parties' steps are
grouped under one WF (`StreamingPlugin`), less is assumed than of each alone.

What the properties rest on. The code ensures each only with the exceptions its
statement makes; the next section has what happens in them.

- `OneRunnerPerJob` and its companions need `LeaseCoversWork`.
- `CurrentIsFannedOut` and `NotStuck` are about behaviours without faults, and `NotStuck`
  lets a note be whose transcript a live stream has won from its jobs.
- `RoundsEnd` and `PendingIsOwed` of `Summarize` are about undisturbed behaviours.
- `OneDispatcher` ends with the first restart, `DeliverySettles` with the first settling
  or requeueing write that is lost.
- `DemandIsServed` excludes crashes, cancellations and the trash.
- `PendingIsOwed` of `EventBriefs` and `BriefsSettle` except briefs whose job ended
  without a verdict (`dropped`), `ReadyIsFresh` and the content in `BriefsSettle` passes
  that stored an older event over a newer one (`overlap`).
- `Forest` ends with a write made on a check that no longer held (`raced`).
- `TagsGoWithTheirLastNote` lets a removal take the rows made since it looked for other
  notes, and leave a tag on no note if one let go of it since.
- `MergeKeepsSpeakers` is about the speakers linked when the merge moves them (`spoke`).
- `RecordingsSettle` excepts notes left without a job by a stop or a failing statement,
  or by the trash (`stranded`), and imports that meet a stream; that a purged note's audio
  goes is claimed as long as nothing fails or stops.
- `NewestBackupStays` excludes overlapping runs.

## Known departures

Four runs show the code doing something else than its comments say.

- **A crash between publication and checkpoint** (`transcribe_crash`).
  `runTranscribe` saves the transcript, then records `published` in the job's
  payload. If the process dies or the second write fails in between, the retry
  finds a newer generation than it expects (its own), takes itself for stale and
  completes. `SaveTranscript` cleared the claim, so the status is not restored
  either: the note stays `transcribing`, with a transcript and no summaries.
- **Locked out by an earlier recording** (`transcribe_lockout`). `SetNoteAudio`
  leaves `retention_state` alone. A note whose first recording was discarded stays
  `discarded` after a second is uploaded, and refuses to be retranscribed while
  its audio exists.
- **Cancelled, and never finalised** (`summarize_cancel`). `CancelJob` settles a
  summarize job without `FinalizeNote`. If it was the last, the note stays
  `summarizing`.
- **A private folder with a teammate's note** (`library_private`).
  `SetFolderVisibility` unfiles nothing. What teammates filed while a folder was
  shared stays in it, and `ListReadableNotes` lists it to the owner, who cannot
  open it.

More were met while modelling. The first ones can be reproduced by the edit named.

| Edit | Refutes | What happens |
|---|---|---|
| `Jobs.cfg`: `INVARIANTS AttemptsCapped` | jobs.go:14, "MaxJobAttempts caps retries" | only `FailJob` consults the cap: a job whose worker dies each time is claimed without limit |
| `Transcribe.cfg`: `INVARIANTS NotStuck`, without its disjunct `transcript.by = "stream"` | transcripts.go:240, "lets the losing job restore the status it displaced" | two jobs claim the note in turn, a stream supersedes both; the status the second displaced and restores is `transcribing`. With one job it is `uploaded`, which no job is left to change |
| `Transcribe_lockout.cfg`: `PROPERTIES StaleJobTouchesNothing` | pipeline.go:290, a stale job "touches nothing" | a job that becomes stale while its plugin runs, then fails for good, marks the note failed over a newer transcript |
| `Transcribe_lockout.cfg`: `INVARIANTS AudioAwaitsRetry` | pipeline.go:581, "no retryable path can strand a note without the audio" | a second job for the recording finds it deleted by the first job's retention step |
| `Summarize_cancel.cfg`: `MaxFaults = 1`, `MaxAdmin = 0` | pipeline.go:69, or "the note could get stuck in 'summarizing' forever" | a process dies after settling the last job and before `FinalizeNote`; nothing finalises later |
| `Summarize.cfg`: `INVARIANTS ReadyMeansSettled` | pipeline.go:815, ready once "no summarize jobs remain" | a request enqueues a job between the count and `MarkNoteReady` |
| `Summarize.cfg`: `INVARIANTS OneSummaryPerTemplate` | summaries.go:268, "the single summary row (if any)" | two single-template requests both delete, then both create |
| `Notebook.cfg`: `INVARIANTS ListedInOrder`, no `PROPERTIES` | conversations.go:133, "in chronological order" | question and answer of an analysis are inserted in one transaction and share its `now()`, so ORDER BY created_at leaves open which comes first |
| `Streaming.cfg`: `INVARIANTS GapsNeverHeard` | transcripts.go:416, an interval "that never reached a transcriber" | the drop tracker keeps the start of its run; a frame the writer takes between two evictions lies inside the recorded gap |

In the cfgs with several properties the edited line replaces them all.

The others are behaviours of the models that a property names as its exception, or
that lie between two models.

*Jobs.* A worker that outlives its lease settles by id the row another worker has claimed
since (jobs.go:196); `LeaseCoversWork` assumes that none does.

*Transcription and summaries.* `handleTerminalFailure` (pipeline.go:142) writes the
note without claim or generation. The guarded UPDATE at notes.go:632 re-evaluates
only the note row under READ COMMITTED, so its EXISTS on the transcript may be of an
older snapshot. `GetLatestFailedJobByNoteID` (jobs.go:427) returns the latest failed
job of any type, which the note-level retry takes for a transcribe job. A
resummarize of the whole note that overlaps the fan-out of its transcribe job leaves
two summaries of a template. A process that dies between `FailJob` and `FailSummary`
leaves the summary pending (pipeline.go:151).

*Webhooks.* A starting process requeues the deliveries another one has in flight
(webhooks.go:119, against webhooks.go:47, "so only one worker processes it"), and a
row retried by one process may be claimed by another from an older listing, whose
count decides. A settling write that fails is only logged (deliver.go:172): the row
stays in flight until the next start. So is a requeue that fails at a start
(deliver.go:61): what was in flight then stays so until another one.

*Live prompts.* A template switched off and on again while its row's job runs leaves
the row hidden (live_templates.go:335). A crash between `FailJob` and the failure's
transaction, or a cancelled job, leaves the row with an active job that has ended. A
segment appended after the note went to the trash creates rows and jobs again. A row
removed and inserted again restarts `event_version`, and a viewer that saw neither
takes the new row for the old one (live_prompts.go:264).

*Streaming plugin.* A load that failed is answered to every later stream until a
restart (live.go:38). `main` of whisper-cpp-streaming gives its handlers no server
context, so that a stop cuts open utterances instead of finishing them (main.go:47).

*Calendar and briefs.* Of two overlapping passes the one that fetched first may store
last: an older event replaces a newer one until the next pass. A crash between
`FailJob` and `FailEventBriefIfCurrent`, or a cancelled job, leaves a brief pending.
A worker that has read an edited template when the edit is taken back, before any pass
saw it, publishes the withdrawn text: the hash is again the one of its generation, and
no later pass finds a difference. A failing lookup of the default agent counts as no
agent (prebriefs.go:150), and every brief of the pass fails until the next one.
Every pass prunes events that are more than a day past, and their notes lose the
event (calendar.go:250).

*Folders, notes, people.* Two folders moved into each other at once form a cycle. A
folder created in, or moved to, one that is being trashed stays live under it. The
depth limit does not count trashed children, which may be restored later
(folders.go:152). `AddNoteFolder` and `AddLink` check and insert separately. A share
link keeps serving a note in the trash. `RemoveNoteTag` looks for other notes and deletes
the tag in one statement, but may wait for a lock in between (tags.go:101): a tag that
was put on another note meanwhile is taken off it too, and of two removals that both
see the other's row neither deletes the tag. A copy whose statements fail half way stays as it is; links made for mentions are never
removed, and a copy's are not made. An alias linked between the two statements of
`MergePeople` loses its person, opposite merges delete both, and the calendar derives
a merged or deleted person again. A relink overwrites a link the user made between
its read and its write (link.go:40, against the comment at link.go:10).

*Conversations.* `LoadCrossAnalysisSnapshot` reads whether a note is ready and complete
before it reads its transcript. A stream or a retranscription that begins in between
lets an unfinished transcript be analysed, against cross_analysis.go:60, "is not ready,
has no durable transcript, or is partial fails the whole call"; the verification before
the answer is stored compares generations only. A chat turn that fails between its two
`AppendMessage` calls leaves a question without an answer.

*Recordings and backups.* A stop between `SetNoteAudio` and `EnqueueNoteJob` leaves the
note `uploaded` with no job. So does the trash: the job of a trashed note is completed
without being done (pipeline.go:79), and a note that is restored afterwards stays
`uploaded` until its owner retranscribes it. A stop between the purge of a row and of its blob, and a
replaced recording, leak an object. Two imports of one file both find no note with its
hash (import_audio.go:141), and an import enqueues with generation 0 some statements
after creating a note that a client may meanwhile have streamed to (import_audio.go:217).
A prune counts unfinished and broken dumps among those to keep, so that with overlapping
runs it may delete the newest whole one, and two dumps begun within one second share a
file.

*Listener.* A stop between writing a renewed certificate and its key leaves a pair that
does not match (certificate.go:74): every Enable fails until a Reset. A Reset that
cannot remove a file answers an error while the old listener goes on serving.

*Embedded.* A kill between creating and writing the password file leaves it empty, and
nothing repairs it: every later launch is refused (postgres.go:433-437), though there is
no cluster yet and so no data. Two first launches may write a master key each before the
owner lock is taken (masterkey.go:88). Plugins and database share one ten second
shutdown budget (main.go:173).

## Proofs

Eight modules hold theorems about a specification for every value of its constants:
any number of jobs, workers, handlers, notes, frames, folders, people, launches, events,
and any number of faults, crashes and requests, where the runs have two or three of each.
Where a run checks several components, the proof module extends the module of the run and
speaks of each component's own specification (`Webhooks!Spec`, `Live!ViewSpec`,
`Book!Spec`), not of the parts and profiles the run divides it into.

What is assumed of the constants TLC evaluates in the run of the component:

- `ConstantsAssumption` of `JobQueue`, `AudioBuffer`, `Transcribe`, `Summarize`,
  `Embedded`, `Conversations` and `EventBriefs`, `UploadsAssumption` of `Recordings`,
  `BoundsAssumption` of `MCJobs`, `DumpsAssumption` of `MCStorage`, `NotebookAssumption`
  of `MCNotebook`: bounds are numbers, sets are finite where they are counted, a value
  that stands for "none" is not among the others, and the name a copy gets is not a
  title that is mentioned;
- `StreamingAssumption` of `MCStreaming`: the same, and job ids suffice. A model has
  finitely many ids and uses one again when nothing refers to it; what is assumed is that
  rows that need a job find one each that no other row and no worker refers to, however
  many refer to one. With 4 rows and 1 worker that takes 5 ids;
- `MaxRequests \in Nat` for `ListenerController`, a hypothesis of its two theorems.

| Theorem | States | Under |
|---|---|---|
| `Jobs_proofs!RunnersAreUnique`, `VerdictsAgree`, `SettlingIsFinal` | `OneRunnerPerJob`, `TerminalVerdictsAgree`, `SettledIsFinal` | `LeaseCoversWork` |
| `Jobs_proofs!DispatchersAreUnique` | `OneDispatcher` | |
| `Streaming_proofs!FramesAccounted`, `NothingIsLostSilently`, `ReaderNeverBlocks` | `Accounted`, `NothingLostSilently`, `NeverBlocks` | |
| `Streaming_proofs!OnlyTheCurrentIsShown` | `VisibleIsCurrent` (with `OneJobPerRow`) | |
| `Transcribe_proofs!OwnTranscriptIsSafe`, `DiscardIsAuthorised`, `CurrentIsSummarized` | `OwnTranscriptStands`, `DiscardIsOwned`, `CurrentIsFannedOut` | |
| `Summarize_proofs!PendingRowsAreOwed`, `NoRoundTwice`, `AnnouncedAtMostOnce` | `PendingIsOwed`, `announced <= rounds`, `AnnouncedOnce` | `AnnouncedAtMostOnce`: no fan-out outstanding at the start |
| `Embedded_proofs!DirectoryHasOneOwner`, `StartsFailForCause` | `OneOwner`, `StartFailsForCause` | |
| `Notebook_proofs!TurnsAreWhole`, `AnalysesAreWhole` | `AnsweredInContext`, `AnalysedAsAdmitted` | |
| `Notebook_proofs!FoldersAreAForest` | `Forest` | |
| `Notebook_proofs!RemovalsTakeTheirOwn`, `AnsweredBodiesAreLinked` | `TagsGoWithTheirLastNote`, `MentionsAreLinked` | |
| `Notebook_proofs!MergesKeepSpeakers` | `MergeKeepsSpeakers` | |
| `EventBriefs_proofs!PendingBriefsAreOwed`, `ReadyBriefsAreFresh` | `PendingIsOwed`, `ReadyIsFresh` | |
| `Storage_proofs!AudioStays` | `AudioIsKept` | |
| `Storage_proofs!NewestBackupIsKept` | `NewestBackupStays` | |
| `Storage_proofs!ImplementsPromise` | the safety half of `KeepsPromise` | |

The type invariant of each component is a theorem of its own or a part of these. The
inductive invariants were checked with TLC on the runs' instances, or larger ones,
before they were proved.

**JobQueue.** `TypeCorrect` needs nothing else. The other theorems take
`LeaseCoversWork` as a hypothesis. `OneRunnerPerJob` is not inductive: it does not
say why a row that is being worked on cannot be claimed. The inductive invariant
(`OwnershipHolds`) adds

- `ClaimsStand`: a worker at work has a row that is running, whose lease is held,
  and whose attempts are those its claim returned. So no other claim, sweep or
  cancellation touches it;
- `ReadIsFresh`: the count FailJob has read is that of the claim. With it the two
  decisions "terminal" and "requeue", taken from different reads, agree;
- `ClaimsDistinct`: workers at work have different rows;
- `TerminalVerdictsAgree` itself.

From it follow `RunnersAreUnique`, `VerdictsAgree` and, step by step,
`SettlingIsFinal`: a settled row is not running, so no worker's update by id can
reach it.

**WebhookDelivery.** Every process lists every pending delivery; only `ClaimDelivery`, a
compare-and-set, decides who posts it. As long as no process was stopped (`stops`), a
delivery in the hands of a process is `in_flight` in the table (`Marked`), and no two
processes have it in their hands (`OneHolder`): a claim finds it `pending`, and only the
process that has it takes the mark away. A start requeues what is in flight, which is why
the property ends there.

**AudioBuffer.** `NothingLostSilently` speaks of the end only; `Accounted` is the
balance that holds all along: frames received are those sent, in the channel,
recorded, in the current run, or in a goroutine's hands. It is inductive together
with

- `Bounded` and `NeverBlocks`: the reader alone sends, so after an eviction, or
  after the writer has emptied the channel, there is room;
- `HeldIsFresh`: the writer holds a frame exactly between receive and write;
- `EndsInOrder`: the channel is closed by the reader's last step, which leaves no
  run unrecorded, and a writer that ended in good order has drained it. It turns
  the balance into `NothingLostSilently`;
- `HasFrame`: a frame on offer has a number.

**LiveOutputs, LiveViewers.** `LiveInv`: a job that is pending or running is the active one
of its row (`JobFits`), from which `OneJobPerRow` follows. To keep it, a new job must have
an id nothing refers to, so the invariant also says what workers hold (`WorkerFits`,
`WorkersApart`): no two the same job, and each one that is where the worker's step left it
or was removed with its row. A row that reconciliation gives up goes with its jobs, by the
cascade, or keeps its job and is hidden (`Retired`); a completion writes only behind the
fence, where the job is the active one and so the only one of its row. `VisibleFits` is
the rest of the property, and adds that a note in the trash has been counted
(`bounds.trash`). The steps of the viewers leave all of it alone.

**Transcribe.** No lock protects the transcript: every statement compares its
generation with a number put down earlier, in a row or in a worker's memory.
`Lineage` says what those numbers are worth: a job's expected generation is older
than any transcript it has published, a checkpointed or remembered generation is not
ahead of the transcript's, and if it equals it the transcript is that job's. It
survives every crash, retry, stream and review. `OwnTranscriptStands` follows, because
the save of a second attempt finds a generation that is not the one it expects, and
`DiscardIsOwned`, because the fence of the retention step compares generations.
`CurrentIsFannedOut` also needs `Smooth`, which a single fault breaks (see
`transcribe_crash`): a job has one worker, the publisher of the current transcript
does not start over, and until the fan-out is made it is at one of the statements
before it, or the review that is due will make it. `NotStuck` stays with TLC:
it is about what is left when everything has ended, and an invariant for it would have
to say who restores which status.

**Summarize.** `Rows` says that a worker's job is running, or about to be failed, in
its name only, and what each request handler has made. `Count` is the balance behind
the announcement: the announcements made, those of workers past `MarkNoteReady`, and
the round that may still be announced are no more than the rounds begun.
`MarkNoteReady` turns the one into the other by a compare-and-set, so two finalizers
that both counted no active job cannot both announce. `PendingIsOwed` is inductive
together with `Rows`. `Single` (one request is open while all take the in-flight guard,
it deletes before it creates, and what it is yet to create is not there) gives
`GuardKeepsOneSummary`. It is proved for a note past its
fan-out: the fan-out of a transcribe job does not take the guard, and one that overlaps
a resummarize request leaves two summaries of a template. The run makes the same
distinction, as the scenario `requests`.

**Embedded.** Lock, pid file and password file may each be stale. `PmOK` says what
they are worth: a postmaster that runs is the one the file names, and as long as the
server that started it runs, that server has the lock. `Mine` says what a server at
each of its statements relies on: the lock, no postmaster when it is about to start
one, the password and key it has read, its registrations. `Shared` is about the files
alone: a cluster that exists has a password that is written.

**Conversations.** `Guards`: a conversation in the guard has one handler that holds
it, and only a holder appends. `Knows`: the history such a handler has read is still
all of it, and between its two appends its question is the last message, unless the
conversation was deleted, which nothing undoes. `Seen`: a generation never comes back,
so a meeting whose segments were gone when they were read differs from the snapshot at
`Verify`; past it every meeting has its segments. `Admits`: past `RecheckAgent` the
agent is an admitted one. `Kept` is what these make of the messages.

**Library.** `FolderInv`: parents are rows (`FoldersFit`), a folder about to be created is
about to be created by one request only (`DraftsFit`), and unless a write was made on a
check that no longer held, there is no cycle and nothing live in the trash (`Tree`). The
descendants a recursive query finds are defined step by step in the module; the proofs
use that they are the least set closed under children (`DescendantsAreReach`), so that a
cycle through a folder that moved would have its new parent below it, which the check
excludes.

**Notebook.** `TagsGoWithTheirLastNote` speaks of the end of a removal, two statements
after it looked. `TagsFit` carries what it saw across everything that runs in between:
the row it removes is still there; if it saw no other note with the tag, whoever has it
now came late, and if it saw one, one still has it or let go of it (`WorkFits`). That
needs that no two transactions have the same row in hand (`Apart`), which the row's lock
ensures. For `MentionsAreLinked`, every mention that has named one other live note
since the save (`sure`) is yet to be looked up, is being linked to that very note, or
has its link (`MentionsFit`). A step that changes what a title names takes it out of `sure`.

**People.** `FolkInv`: the foreign keys hold (`PersonFits`, `AliasFits`); a merge merges
two different people or companies, the company that a merge has moved people to is there
as long as the merge is open, and once a merge of people has come to the speakers it has moved every
one of them that it found (`TaskFits`); two merges never have the same row deleted
(`TasksApart`), because the first one's lock makes the second wait.

**Recordings.** `AudioInv`: the key of a note is its own and its object is `Safe`: whole,
discarded by retention, or of a purged note (`NoteFits`). What a request is writing to is
nobody's yet, and no two requests write to one object (`ReqFits`, `Distinct`), so a write
that breaks off spoils nothing; what the purger is about to delete belongs to no row
(`DeletionsFit`). `Mild` says what no step undoes, and each action is checked against it
once instead of against every other request.

**Backups.** `DumpInv`: unless runs overlap, one run is under way (`Alone`), its file is
the newest there is, and from the end of its dump that file is whole and not among those
it is about to remove (`RunFits`). Pruning counts newer files, whole or not: with none newer,
a file is not beyond any positive retention count.

**EventBriefs.** Nothing is locked between reading inputs and publishing; a brief has
an id and a generation, and jobs and workers carry copies of both. The invariant has
three layers.

- `Shape`: types, and what a pass may rely on: each event of its page is a row that
  was stored, every pair to do has such an event, and each template has a version.
- `Ledger`: an id is given to one pair and never again. So a job row, or the copy a
  worker still holds after the row was deleted (`Ticket`), speaks of one pair, of a
  generation that is not ahead of the brief's, and of the event row the brief hangs on.
  A worker that has not failed its job either has the running row, or the brief is gone
  too. What it is about to complete is no longer pending. With this, `PendingIsOwed` is
  inductive: neither deleting queued jobs nor completing one leaves a pending brief
  behind, and a retry finds no worker about to complete the generation it reopens.
- `Fresh`: a hash is of versions that were there (`HashOK`), a pass has read none that
  is ahead of what is stored (`PassFresh`), and what a worker has read so far is no
  older than the hash of its generation, if that is still current (`WorkerFresh`).
  Versions only rise (`Rises`), except where overlapping passes put an older event over
  a newer one, which `overlap` records; a generation keeps its hash (`Steady`).

`PublishEventBrief` compares generations, not hashes. That this suffices is what
`ReadyBriefsAreFresh` shows. `ConstantsAssumption` asks for natural numbers where
versions and times are counted, and for a first event that fits the calendar.

**ListenerController.** `Standing`: the open listener belongs to the channel the
controller has, its watcher is neither cancelled nor gone, and if that watcher saw its
pair missing it was missing. The mapping to `ListenerPromise` is that of the module's
INSTANCE. Each action is shown to be a step of the promise or to leave its variables
alone.

Only model-checked:

- what needs fairness, which is out of the prover's reach: `EveryJobSettles`,
  `DeliverySettles`, `SlotsComeBack`, `RoundsEnd`, `WriterEnds`, `DemandIsServed`,
  `ViewerConverges`, `BriefsSettle`, `EveryLaunchEnds`, `RecordingsSettle`, the
  liveness of `KeepsPromise` and `ReadyHolds`;
- `NotStuck`, as said;
- what is read off a sequence by a filter or a sort, which takes induction over data to
  reason about: `ShownFinalsAreStored` (the finals among the messages written),
  `PagesCoverTheList` (the sorted list and its pages, and the positions of `Library`) and
  `SpeechIsCovered` (the finals among the events of a session).

## What is not modelled

- In the modelled parts: payload contents, error texts and listings; the gap
  boundary label on a final segment; `ConfirmSegmentSpeaker`; the capture status
  `recording`; SQL statement snapshots, except in `People` and the tags of `Notebook` (a guarded UPDATE is
  atomic here, while under READ COMMITTED its sub-select may see an older snapshot
  than the row it locks); S3 storage; the parsing of provider answers and OAuth
  exchanges; names of folders.
- A model with transcribe and summarize jobs on one note.
- Rate limits (`ratelimit/`) and prompt rendering (`execution/`, apart from the
  admission and validation that are steps of `Conversations`).
- The registry of templates and plugins, smart lists, configuration: rows the
  modelled parts read, where they are constants or inputs.
- Search, retrieval of passages for a chat, insights, embeddings, digest, export:
  request and response, or best-effort background work no other part waits for.
- Authentication, sessions, crypto: checks and conversions.
- Plugin, calendar and mail clients: I/O. Their answers are inputs.
- Voice activity detection and its evaluation tools (`ami-eval`): signal processing
  and reports.
- The applications.

## Plan

1. An abstract specification of generation-guarded publication (read a generation,
   work, publish if it is unchanged), which `Transcribe`, the briefs and the live
   outputs are shown to implement.
2. A composition of `Transcribe` and `Summarize` on one note, with the note-level
   retry.
3. Proofs of the properties over sequences, once filters and sorts are replaced by what
   they establish: `ShownFinalsAreStored`, `SpeechIsCovered`, `PagesCoverTheList`.
4. The upload and recording state machines of the desktop application.
