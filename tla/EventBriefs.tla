----------------------------- MODULE EventBriefs ----------------------------
(***************************************************************************)
(* Pre-meeting briefs (internal/store/event_briefs.go, internal/worker/    *)
(* prebriefs.go and prebrief_job.go).  After a calendar pass has stored    *)
(* its events it reconciles their briefs: a pair of an upcoming event and  *)
(* an eligible template whose input hash changed gets a new generation and *)
(* a job for it.  A worker loads what the brief is about, asks the agent   *)
(* and publishes, if the generation is still the one of its job.           *)
(*                                                                         *)
(* A hash is modelled by what it is computed from: the versions of event,  *)
(* template and agent.  So is the content an agent answers.  Every edit    *)
(* gives a version that was not there before: an edit that is taken back,  *)
(* after which the code computes the earlier hash again, is left out.      *)
(***************************************************************************)
EXTENDS Calendar, FiniteSetsExt

CONSTANTS
    Templates,
    Jobs,            \* ids of pre_generate jobs, used in order
    Workers,
    Horizon,         \* preBriefEligibilityHorizon
    BatchSize,       \* preBriefBatchSize
    MaxJobAttempts,
    MaxChanges,      \* bound: edits of templates and of the default agent
    MaxCrashes,      \* bound: crashes of a worker
    MaxAdmin         \* bound: cancellations and retries by an administrator

\* The clock and the counters are natural numbers, and the calendar reaches
\* past the first event.
ASSUME ConstantsAssumption ==
    /\ MaxClock \in Nat /\ Lookahead \in Nat /\ MaxClock + Lookahead >= 1
    /\ MaxEdits \in Nat /\ MaxChanges \in Nat

VARIABLES
    template,  \* on: visible, pre and auto-run; its version counts its edits
    agent,     \* the default agent: its version, or none
    brief,     \* event_briefs, by external event and template
    job,       \* the pre_generate jobs
    pass,      \* the reconciliation of each calendar pass
    worker,    \* what each worker goroutine holds
    dropped,   \* generations that lost their job without a verdict
    overlap,   \* some pass stored an event older than the stored one
    bounds     \* changes, crashes, admin actions and brief ids so far

briefVars == <<template, agent, brief, job, pass, worker, dropped, overlap, bounds>>
vars == <<calVars, briefVars>>

Pairs == Events \X Templates
NoHash == <<0, 0, 0>>
NoBrief == [id |-> 0, gen |-> 0, hash |-> NoHash, status |-> "none", content |-> NoHash]
NoJob == [status |-> "absent", pair |-> <<0, 0>>, row |-> 0, brief |-> 0, gen |-> 0, attempts |-> 0]
NoPass == [phase |-> "none", now |-> 0, eligible |-> {}, tmpl |-> {}, agent |-> 0, after |-> 0,
           batch |-> {}, todo |-> {}]
Idle == [pc |-> "idle", job |-> 0, held |-> NoJob, event |-> NoRow, content |-> NoHash, retryable |-> FALSE]

Active(j) == job[j].status \in {"pending", "running"}

TypeOK ==
    /\ CalTypeOK
    /\ \A t \in Templates : template[t].state \in {"on", "off", "gone"}
    /\ agent.there \in BOOLEAN
    /\ \A p \in Pairs : brief[p].status \in {"none", "pending", "ready", "failed"}
    /\ \A j \in Jobs : job[j].status \in
          {"absent", "pending", "running", "failed"}
    /\ \A w \in Workers : worker[w].job \in Jobs \cup {0}

Init ==
    /\ CalInit
    /\ template \in [Templates -> [state: {"on", "off"}, version: {1}]]
    /\ agent = [there |-> TRUE, version |-> 1]
    /\ brief = [p \in Pairs |-> NoBrief]
    /\ job = [j \in Jobs |-> NoJob]
    /\ pass = [s \in Syncers |-> NoPass]
    /\ worker = [w \in Workers |-> Idle]
    /\ dropped = {}
    /\ overlap = FALSE
    /\ bounds = [changes |-> 0, crashes |-> 0, admin |-> 0, ids |-> 0]

-----------------------------------------------------------------------------
(* The tables.                                                             *)

\* preBriefWindow.
Upcoming(start, now) == start > now /\ start <= now + Horizon

\* The brief still has the generation the job was made for.
IsCurrent(j) == brief[j.pair].id = j.brief /\ brief[j.pair].gen = j.gen

\* enqueuePreGenerateJobTx; the unique index on pending and running jobs of one
\* generation refuses a second one.  A job that is finished, or failed and can
\* no longer be retried, gives its place to the next.
FreeJobs == {j \in Jobs : /\ \A w \in Workers : worker[w].job # j
                         /\ \/ job[j] = NoJob
                            \/ job[j].status = "failed" /\ ~IsCurrent(job[j])}
MayEnqueue(id, gen) ==
    /\ FreeJobs # {}
    /\ ~\E j \in Jobs : Active(j) /\ job[j].brief = id /\ job[j].gen = gen
EnqueuePreGenerateJob(p, id, gen) ==
    job' = [job EXCEPT ![CHOOSE j \in FreeJobs : TRUE] =
              [status |-> "pending", pair |-> p, row |-> event[p[1]].row,
               brief |-> id, gen |-> gen, attempts |-> 0]]

\* The briefs of the pairs in S are deleted together with their pending jobs
\* (deleteBriefsReturningIDs, deleteQueuedPreJobsForBriefs).
DeleteBriefs(S) ==
    LET ids == {brief[p].id : p \in S} \ {0}
    IN /\ brief' = [p \in Pairs |-> IF p \in S THEN NoBrief ELSE brief[p]]
       /\ job' = [j \in Jobs |-> IF job[j].status = "pending" /\ job[j].brief \in ids
                                 THEN NoJob ELSE job[j]]

\* The ON DELETE CASCADE of an event: its briefs and every job of it.
CascadeEvents ==
    LET gone == {e \in Events : Stored(e) /\ event'[e] = NoRow}
    IN /\ brief' = [p \in Pairs |-> IF p[1] \in gone THEN NoBrief ELSE brief[p]]
       /\ job' = [j \in Jobs |-> IF job[j].pair[1] \in gone THEN NoJob ELSE job[j]]

-----------------------------------------------------------------------------
(* The calendar's steps.                                                   *)

Calm == UNCHANGED briefVars

\* Requests and the scheduler.
HandleSetNoteEvent(e) == SetNoteEvent(e) /\ Calm
HandleClearNoteEvent == ClearNoteEvent /\ Calm
HandleSelectCalendarSource == SetSelectedCalendars /\ Calm
HandleCreateCalendarSource(s) == CreateSource(s) /\ Calm
HandleRefreshCalendar(s) == KickCalendarSync(s) /\ Calm
HandleDeleteCalendarSource ==
    /\ DeleteSource
    /\ CascadeEvents
    /\ UNCHANGED <<template, agent, pass, worker, dropped, overlap, bounds>>
StartCalendarScheduler(s) == SyncAllSourcesOnce(s) /\ Calm

CalendarStep ==
    \/ Tick /\ Calm
    \/ \E e \in Events : (UpstreamEdit(e) /\ Calm) \/ HandleSetNoteEvent(e)
    \/ HandleClearNoteEvent \/ HandleSelectCalendarSource \/ HandleDeleteCalendarSource
    \/ \E s \in Syncers : HandleCreateCalendarSource(s) \/ HandleRefreshCalendar(s)

\* What a pass that has begun goes on to do.
SyncStep(s) ==
    \/ FetchEvents(s) /\ Calm
    \/ /\ UpsertEvents(s)
       /\ overlap' = (overlap \/ \E e \in Events : Stored(e) /\ event'[e].version < event[e].version)
       /\ UNCHANGED <<template, agent, brief, job, pass, worker, dropped, bounds>>
    \/ /\ PruneEvents(s)
       /\ CascadeEvents
       /\ UNCHANGED <<template, agent, pass, worker, dropped, overlap, bounds>>

FetchFault(s) == FetchFails(s) /\ Calm

-----------------------------------------------------------------------------
(* ReconcilePreBriefs, after the events of a pass are stored.              *)

Step(s, from, to) == pass[s].phase = from /\ pass' = [pass EXCEPT ![s] = to]

\* The clock, and TemplatesForPhase.
ReconcilePreBriefs(s) ==
    /\ sync[s].phase = "pruned"
    /\ Step(s, "none", [NoPass EXCEPT !.phase = "agent", !.now = clock,
            !.eligible = {t \in Templates : template[t].state = "on"},
            !.tmpl = {<<t, template[t].version>> : t \in Templates}])
    /\ UNCHANGED <<calVars, template, agent, brief, job, worker, dropped, overlap, bounds>>

\* resolveDefaultAgentIdentity, once for the pass.
ResolveDefaultAgentIdentity(s) ==
    /\ Step(s, "agent", [pass[s] EXCEPT !.phase = "window",
                           !.agent = IF agent.there THEN agent.version ELSE 0])
    /\ UNCHANGED <<calVars, template, agent, brief, job, worker, dropped, overlap, bounds>>

\* A lookup that fails counts as no agent, and the pass goes on.
DefaultPluginFails(s) ==
    /\ used.faults < MaxFaults
    /\ used' = [used EXCEPT !.faults = @ + 1]
    /\ Step(s, "agent", [pass[s] EXCEPT !.phase = "window", !.agent = 0])
    /\ UNCHANGED <<clock, upstream, source, event, rows, link, sync>>
    /\ UNCHANGED <<template, agent, brief, job, worker, dropped, overlap, bounds>>

\* Mutation: the reconciliation begins with the batches.
KeepEventBriefsOutsideWindow(s) ==
    /\ Step(s, "window", [pass[s] EXCEPT !.phase = "page"])
    /\ UNCHANGED <<calVars, template, agent, brief, job, worker, dropped, overlap, bounds>>

DeleteEventBriefsOutsideWindow(s) ==
    /\ Step(s, "window", [pass[s] EXCEPT !.phase = "page"])
    /\ DeleteBriefs({p \in Pairs : Stored(p[1]) /\ ~Upcoming(event[p[1]].start, pass[s].now)})
    /\ UNCHANGED <<calVars, template, agent, worker, dropped, overlap, bounds>>

\* UpcomingEventsForSourceBatch: the next page of upcoming events; an empty one
\* ends the loop.
UpcomingEventsForSourceBatch(s) ==
    LET found == {e \in Events : /\ Stored(e) /\ Upcoming(event[e].start, pass[s].now)
                                 /\ e > pass[s].after}
        page == {e \in found : Cardinality({d \in found : d < e}) < BatchSize}
    IN /\ Step(s, "page",
            IF page = {} THEN [pass[s] EXCEPT !.phase = "done"]
            ELSE [pass[s] EXCEPT !.phase = "clean", !.after = Max(page),
                    !.batch = {<<e, event[e]>> : e \in page},
                    !.todo = page \X pass[s].eligible])
       /\ UNCHANGED <<calVars, template, agent, brief, job, worker, dropped, overlap, bounds>>

DeleteIneligibleEventBriefs(s) ==
    /\ Step(s, "clean", [pass[s] EXCEPT !.phase = "pairs"])
    /\ DeleteBriefs({p \in Pairs : \E b \in pass[s].batch :
                        /\ p[1] = b[1] /\ event[b[1]].row = b[2].row
                        /\ p[2] \notin pass[s].eligible})
    /\ UNCHANGED <<calVars, template, agent, worker, dropped, overlap, bounds>>

\* The event as the page of the pass has it.
Batched(s, e) == (CHOOSE b \in pass[s].batch : b[1] = e)[2]

\* computePreBriefHash, or none without an agent.
ComputePreBriefHash(s, p) ==
    LET tv == CHOOSE v \in 1..MaxChanges + 1 : <<p[2], v>> \in pass[s].tmpl
    IN IF pass[s].agent = 0 THEN NoHash ELSE <<Batched(s, p[1]).version, tv, pass[s].agent>>

\* ReconcileEventBriefPair: nothing for an equal hash, else a new generation,
\* pending with a job for it, or failed when there is no agent.  The pair
\* refers to the event and the template: if one is gone the pass fails.
ReconcilePair(s, p) ==
    LET hash == ComputePreBriefHash(s, p)
        old == brief[p]
        id == IF old = NoBrief THEN bounds.ids + 1 ELSE old.id
        referable == event[p[1]].row = Batched(s, p[1]).row /\ template[p[2]].state # "gone"
        same == old # NoBrief /\ old.hash = hash
        new == [id |-> id, gen |-> old.gen + 1, hash |-> hash, content |-> NoHash,
                status |-> IF hash = NoHash THEN "failed" ELSE "pending"]
    IN \/ /\ ~referable
          /\ SyncFails(s) /\ UNCHANGED used
          /\ pass' = [pass EXCEPT ![s] = NoPass]
          /\ UNCHANGED <<brief, job, bounds>>
       \/ /\ referable
          /\ pass' = [pass EXCEPT ![s].todo = @ \ {p}]
          /\ \/ same /\ UNCHANGED <<brief, job, bounds>>
             \/ /\ ~same
                /\ brief' = [brief EXCEPT ![p] = new]
                /\ bounds' = [bounds EXCEPT !.ids = IF old = NoBrief THEN @ + 1 ELSE @]
                /\ \/ hash = NoHash /\ UNCHANGED job
                   \/ /\ hash # NoHash /\ MayEnqueue(id, new.gen)
                      /\ EnqueuePreGenerateJob(p, id, new.gen)
          /\ UNCHANGED calVars

\* The pairs of a page, event by event and template by template.
ReconcileEventBriefPair(s) ==
    /\ pass[s].phase = "pairs"
    /\ \E p \in pass[s].todo :
          /\ \A r \in pass[s].todo : p[1] < r[1] \/ (p[1] = r[1] /\ p[2] <= r[2])
          /\ ReconcilePair(s, p)
    /\ UNCHANGED <<template, agent, worker, dropped, overlap>>

\* A short page was the last one.
NextPage(s) ==
    /\ pass[s].todo = {}
    /\ Step(s, "pairs", [pass[s] EXCEPT
            !.phase = IF Cardinality(pass[s].batch) < BatchSize THEN "done" ELSE "page"])
    /\ UNCHANGED <<calVars, template, agent, brief, job, worker, dropped, overlap, bounds>>

FinishSync(s) ==
    /\ Step(s, "done", NoPass)
    /\ UpdateSourceStatus(s)
    /\ UNCHANGED <<template, agent, brief, job, worker, dropped, overlap, bounds>>

\* Any other statement of the reconciliation may fail (before the agent is
\* looked up, that of the templates); what is written stays.
ReconcileFault(s) ==
    /\ pass[s].phase \notin {"none", "done"} /\ used.faults < MaxFaults
    /\ used' = [used EXCEPT !.faults = @ + 1]
    /\ SyncFails(s)
    /\ pass' = [pass EXCEPT ![s] = NoPass]
    /\ UNCHANGED <<template, agent, brief, job, worker, dropped, overlap, bounds>>

ReconcileStep(s) ==
    \/ ReconcilePreBriefs(s)
    \/ ResolveDefaultAgentIdentity(s)
    \/ DeleteEventBriefsOutsideWindow(s)
    \/ UpcomingEventsForSourceBatch(s)
    \/ DeleteIneligibleEventBriefs(s)
    \/ ReconcileEventBriefPair(s)
    \/ NextPage(s)
    \/ FinishSync(s)

-----------------------------------------------------------------------------
(* Templates, the default agent and the administrator.                     *)

Change == bounds.changes < MaxChanges /\ bounds' = [bounds EXCEPT !.changes = @ + 1]

\* UpdateTemplate: a template that stops being eligible takes its briefs along
\* (cleanupBriefsForTemplateAllOwners).
UpdateTemplate(t, state) ==
    /\ template[t].state # "gone" /\ Change
    /\ template' = [template EXCEPT ![t] = [state |-> state, version |-> @.version + 1]]
    /\ IF template[t].state = "on" /\ state = "off"
       THEN DeleteBriefs(Events \X {t}) ELSE UNCHANGED <<brief, job>>
    /\ UNCHANGED <<calVars, agent, pass, worker, dropped, overlap>>

DeleteTemplate(t) ==
    /\ template[t].state # "gone" /\ Change
    /\ template' = [template EXCEPT ![t].state = "gone"]
    /\ DeleteBriefs(Events \X {t})
    /\ UNCHANGED <<calVars, agent, pass, worker, dropped, overlap>>

\* The default agent is configured anew, or removed.
ChangeAgent ==
    /\ Change
    /\ \E there \in BOOLEAN : agent' = [there |-> there, version |-> agent.version + 1]
    /\ UNCHANGED <<calVars, template, brief, job, pass, worker, dropped, overlap>>

Admin == bounds.admin < MaxAdmin /\ bounds' = [bounds EXCEPT !.admin = @ + 1]

\* CancelJob: the brief is left as it is.
CancelJob(j) ==
    /\ job[j].status = "pending"
    /\ job' = [job EXCEPT ![j] = NoJob]
    /\ dropped' = dropped \cup {<<job[j].brief, job[j].gen>>}
    /\ UNCHANGED <<calVars, template, agent, brief, pass, worker, overlap>>

\* RetryPreBriefJob, for a failed job whose generation is still the current one.
RetryPreBriefJob(j) ==
    LET p == job[j].pair
    IN /\ event[p[1]].row = job[j].row /\ event[p[1]].start > clock
       /\ template[p[2]].state = "on"
       /\ brief[p].id = job[j].brief /\ brief[p].gen = job[j].gen
       /\ MayEnqueue(job[j].brief, job[j].gen)
       /\ brief' = [brief EXCEPT ![p].status = "pending"]
       /\ EnqueuePreGenerateJob(p, job[j].brief, job[j].gen)
       /\ UNCHANGED <<calVars, template, agent, pass, worker, dropped, overlap>>

HandleCancelJob(j) == CancelJob(j) /\ Admin
HandleRetryJob(j) == job[j].status = "failed" /\ RetryPreBriefJob(j) /\ Admin

-----------------------------------------------------------------------------
(* A worker.                                                               *)

Stay == UNCHANGED <<calVars, template, agent, pass, overlap>>
Go(w, pc) == worker' = [worker EXCEPT ![w].pc = pc]

ClaimJob(w, j) ==
    /\ worker[w].pc = "idle" /\ job[j].status = "pending"
    /\ job' = [job EXCEPT ![j].status = "running", ![j].attempts = @ + 1]
    /\ worker' = [worker EXCEPT ![w] = [Idle EXCEPT !.pc = "event", !.job = j, !.held = job'[j]]]
    /\ UNCHANGED <<brief, dropped, bounds>> /\ Stay

\* The job as it was claimed: its row may be gone since.
Held(w) == worker[w].held
Row(w) == job[worker[w].job]
Current(w) == IsCurrent(Held(w))

\* GetCalendarEventByID; without the event there is nothing to do.
LoadEvent(w) ==
    LET e == Held(w).pair[1]
    IN /\ worker[w].pc = "event"
       /\ \/ /\ event[e].row = Held(w).row
             /\ worker' = [worker EXCEPT ![w].pc = "pair", ![w].event = event[e]]
          \/ /\ event[e].row # Held(w).row
             /\ Go(w, "complete")
       /\ UNCHANGED <<brief, job, dropped, bounds>> /\ Stay

\* The brief, the event's start, the template, the generation and the agent, in
\* the order runPreGenerate checks them.
RunPreGenerate(w) ==
    LET p == Held(w).pair
        found == brief[p].id = Held(w).brief
        ineligible == worker[w].event.start <= clock \/ template[p[2]].state # "on"
    IN /\ worker[w].pc = "pair"
       /\ \/ ~found /\ Go(w, "complete")
          \/ found /\ ineligible /\ Go(w, "cleanup")
          \/ found /\ ~ineligible /\ ~Current(w) /\ Go(w, "complete")
          \/ found /\ ~ineligible /\ Current(w) /\ ~agent.there /\ Go(w, "fail")
          \/ /\ found /\ ~ineligible /\ Current(w) /\ agent.there
             /\ worker' = [worker EXCEPT ![w].pc = "generate", ![w].content =
                   <<worker[w].event.version, template[p[2]].version, agent.version>>]
       /\ UNCHANGED <<brief, job, dropped, bounds>> /\ Stay

\* CleanupIneligibleEventBriefIfCurrent.
CleanupIneligibleEventBriefIfCurrent(w) ==
    /\ worker[w].pc = "cleanup"
    /\ Go(w, "complete")
    /\ IF Current(w) THEN DeleteBriefs({Held(w).pair}) ELSE UNCHANGED <<brief, job>>
    /\ UNCHANGED <<dropped, bounds>> /\ Stay

\* Mutation: the generation is not compared.
PublishEventBriefAnyway(w) ==
    /\ worker[w].pc = "generate"
    /\ Go(w, "complete")
    /\ brief' = IF brief[Held(w).pair].id = Held(w).brief
                THEN [brief EXCEPT ![Held(w).pair].status = "ready",
                                   ![Held(w).pair].content = worker[w].content]
                ELSE brief
    /\ UNCHANGED <<job, dropped, bounds>> /\ Stay

\* The agent answers; PublishEventBrief for the job's own generation.
PublishEventBrief(w) ==
    /\ worker[w].pc = "generate"
    /\ Go(w, "complete")
    /\ brief' = IF Current(w)
                THEN [brief EXCEPT ![Held(w).pair].status = "ready",
                                   ![Held(w).pair].content = worker[w].content]
                ELSE brief
    /\ UNCHANGED <<job, dropped, bounds>> /\ Stay

\* The agent fails, for good or for now.
GenerateFails(w) ==
    /\ worker[w].pc = "generate"
    /\ \E retryable \in BOOLEAN :
          worker' = [worker EXCEPT ![w].pc = "fail", ![w].retryable = retryable]
    /\ UNCHANGED <<brief, job, dropped, bounds>> /\ Stay

CompleteJob(w) ==
    /\ worker[w].pc = "complete"
    /\ job' = [job EXCEPT ![worker[w].job] = NoJob]
    /\ worker' = [worker EXCEPT ![w] = Idle]
    /\ UNCHANGED <<brief, dropped, bounds>> /\ Stay

\* FailJob; the last failure goes on to the brief.
FailJob(w) ==
    LET again == worker[w].retryable /\ Held(w).attempts < MaxJobAttempts
    IN /\ worker[w].pc = "fail"
       /\ \/ /\ Row(w) = NoJob
             /\ worker' = [worker EXCEPT ![w] = Idle]
             /\ UNCHANGED job
          \/ /\ Row(w) # NoJob /\ again
             /\ job' = [job EXCEPT ![worker[w].job].status = "pending"]
             /\ worker' = [worker EXCEPT ![w] = Idle]
          \/ /\ Row(w) # NoJob /\ ~again
             /\ job' = [job EXCEPT ![worker[w].job].status = "failed"]
             /\ Go(w, "terminal")
       /\ UNCHANGED <<brief, dropped, bounds>> /\ Stay

\* Mutation: the failure of a job stays with the job.
LeaveEventBrief(w) ==
    /\ worker[w].pc = "terminal"
    /\ worker' = [worker EXCEPT ![w] = Idle]
    /\ UNCHANGED <<brief, job, dropped, bounds>> /\ Stay

\* handlePreGenerateTerminalFailure, FailEventBriefIfCurrent.
HandlePreGenerateTerminalFailure(w) ==
    /\ worker[w].pc = "terminal"
    /\ worker' = [worker EXCEPT ![w] = Idle]
    /\ brief' = IF Current(w) THEN [brief EXCEPT ![Held(w).pair].status = "failed"] ELSE brief
    /\ UNCHANGED <<job, dropped, bounds>> /\ Stay

\* The process dies: a running job is claimed again later, a failed one is not.
Crash(w) ==
    /\ worker[w].pc # "idle" /\ bounds.crashes < MaxCrashes
    /\ bounds' = [bounds EXCEPT !.crashes = @ + 1]
    /\ job' = IF Row(w).status = "running"
              THEN [job EXCEPT ![worker[w].job].status = "pending"] ELSE job
    /\ dropped' = IF worker[w].pc = "terminal"
                  THEN dropped \cup {<<Held(w).brief, Held(w).gen>>} ELSE dropped
    /\ worker' = [worker EXCEPT ![w] = Idle]
    /\ UNCHANGED brief /\ Stay

WorkerStep(w) ==
    \/ \E j \in Jobs : ClaimJob(w, j)
    \/ LoadEvent(w) \/ RunPreGenerate(w)
    \/ CleanupIneligibleEventBriefIfCurrent(w)
    \/ PublishEventBrief(w) \/ GenerateFails(w)
    \/ CompleteJob(w) \/ FailJob(w)
    \/ HandlePreGenerateTerminalFailure(w)

-----------------------------------------------------------------------------

Next ==
    \/ CalendarStep
    \/ \E s \in Syncers : StartCalendarScheduler(s) \/ SyncStep(s) \/ FetchFault(s) \/ ReconcileStep(s)
                           \/ DefaultPluginFails(s) \/ ReconcileFault(s)
    \/ \E t \in Templates : DeleteTemplate(t) \/ \E state \in {"on", "off"} : UpdateTemplate(t, state)
    \/ ChangeAgent
    \/ \E j \in Jobs : HandleCancelJob(j) \/ HandleRetryJob(j)
    \/ \E w \in Workers : WorkerStep(w) \/ Crash(w)

\* The scheduler passes every fifteen minutes, a pass once begun runs on, and
\* workers poll.
Fairness ==
    /\ \A s \in Syncers : WF_vars(SyncStep(s) \/ ReconcileStep(s))
    /\ WF_vars(StartCalendarScheduler(Scheduler))
    /\ \A w \in Workers : WF_vars(WorkerStep(w))

Spec == Init /\ [][Next]_vars /\ Fairness

-----------------------------------------------------------------------------
(* Properties.                                                             *)

\* ListEvents, EventBriefsForEvents: what handleListCalendarEvents shows, every
\* stored event with the briefs it has.
ListEvents == {e \in Events : Stored(e)}
EventBriefsForEvents(S) == {p \in S \X Templates : brief[p] # NoBrief}
HandleListCalendarEvents == EventBriefsForEvents(ListEvents)

\* A pending brief has a job that will settle it, or a worker about to fail
\* it; unless that job was cancelled, or its worker died between failing the
\* job and failing the brief.
PendingIsOwed ==
    /\ TypeOK
    /\ \A p \in Pairs : brief[p].status = "pending" =>
        \/ \E j \in Jobs : Active(j) /\ job[j].brief = brief[p].id /\ job[j].gen = brief[p].gen
        \/ \E w \in Workers : worker[w].pc = "terminal" /\ Held(w).brief = brief[p].id
                                                        /\ Held(w).gen = brief[p].gen
        \/ <<brief[p].id, brief[p].gen>> \in dropped

\* A brief the calendar shows as ready was written from nothing older than the
\* inputs its hash was computed from, whatever was edited, replaced, retried or
\* delayed meanwhile; unless overlapping passes stored an older event over a
\* newer one.  And every brief there is hangs on a stored event.
ReadyIsFresh ==
    /\ \A p \in HandleListCalendarEvents : brief[p].status = "ready" /\ ~overlap =>
          \A i \in 1..3 : brief[p].content[i] >= brief[p].hash[i]
    /\ \A p \in Pairs : brief[p] # NoBrief => p \in HandleListCalendarEvents

\* What a pass would want: a brief of the current inputs, settled, for every
\* upcoming event and eligible template, and no other; a ready one was written
\* from just these inputs, unless passes overlapped as said above.
Wanted(p) ==
    /\ Stored(p[1]) /\ Upcoming(event[p[1]].start, clock) /\ template[p[2]].state = "on"
InputsOf(p) ==
    IF agent.there THEN <<event[p[1]].version, template[p[2]].version, agent.version>> ELSE NoHash
Settled ==
    \A p \in Pairs :
        IF Wanted(p)
        THEN /\ brief[p].hash = InputsOf(p) /\ brief[p] # NoBrief
             /\ brief[p].status # "pending" \/ <<brief[p].id, brief[p].gen>> \in dropped
             /\ brief[p].status = "ready" /\ ~overlap => brief[p].content = brief[p].hash
        ELSE brief[p] = NoBrief

\* The copy is what the provider would answer.
Mirrored ==
    source.state = "live" =>
        Fetch(source.selected) = {[event |-> e, version |-> event[e].version, start |-> event[e].start] :
                                     e \in {d \in Events : Stored(d)}}

\* Once edits, clocks and faults come to rest, passes and workers bring the
\* copy of the calendar and its briefs to what they should be, for good, from
\* whatever state they were left in.
BriefsSettle == <>[](Mirrored /\ (source.state = "live" => Settled))
=============================================================================
