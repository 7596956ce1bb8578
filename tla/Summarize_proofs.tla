-------------------------- MODULE Summarize_proofs ---------------------------
(***************************************************************************)
(* Proofs about Summarize, for any jobs, workers, requests and templates   *)
(* and any number of faults, administrators' actions and trashings.        *)
(*                                                                         *)
(* A round is counted when the note becomes 'summarizing' and used up when *)
(* a worker's MarkNoteReady takes it from there: Count balances the two,   *)
(* and Rows says why a worker never finds a note that is still being       *)
(* transcribed.  A row is owed a verdict as long as it is pending (Owed),  *)
(* and while all requests are resummarize requests the one that is active  *)
(* has removed whatever it is about to make again (Single).                *)
(***************************************************************************)
EXTENDS Summarize, FiniteSetTheorems, TLAPS

\* A worker whose job is running.
Busy == {"trash", "run", "store", "complete", "fail"}

\* A worker whose job is settled.
Past == {"fail-summary", "count", "ready", "announce"}

\* What worker w knows of its job.
WorkerOK(w) ==
    /\ worker[w].pc # "idle" =>
          worker[w].job \in Jobs /\ job[worker[w].job].summary \in Jobs
    /\ worker[w].pc \in Busy =>
          /\ job[worker[w].job].status = "running"
          /\ job[worker[w].job].attempts = worker[w].attempts
    /\ worker[w].pc \in Past => job[worker[w].job].status \in {"done", "failed"}
    /\ worker[w].pc = "complete" => summary[job[worker[w].job].summary].state # "pending"

\* A running job has one worker.
Owners ==
    \A v, w \in Workers :
        /\ worker[v].pc \in Busy /\ worker[w].pc \in Busy
        /\ worker[v].job = worker[w].job
        => v = w

\* A job that exists has a row, and was enqueued after the transcription.
JobOK(j) ==
    /\ job[j].status # "absent" =>
          /\ job[j].summary \in Jobs /\ summary[job[j].summary].template # "none"
          /\ note.status # "transcribing"
          /\ Undisturbed => job[j].summary = j
    /\ job[j].status = "absent" => job[j].attempts = 0
    /\ job[j].attempts <= MaxJobAttempts + bounds.faults
    /\ job[j].status = "pending" => job[j].attempts < MaxJobAttempts + bounds.faults

\* The row a request has just made has no job yet.
HandlerOK(h) ==
    /\ handler[h].pc = "enqueue" =>
          /\ handler[h].new \in Jobs /\ job[handler[h].new].status = "absent"
          /\ summary[handler[h].new].template # "none"
    /\ handler[h].pc \in {"create", "enqueue"} => note.status # "transcribing"

\* Two requests never make the same row.
Makers ==
    \A g, h \in Handlers :
        /\ handler[g].pc = "enqueue" /\ handler[h].pc = "enqueue"
        /\ handler[g].new = handler[h].new
        => g = h

Rows ==
    /\ \A w \in Workers : WorkerOK(w)
    /\ Owners
    /\ \A j \in Jobs : JobOK(j)
    /\ \A h \in Handlers : HandlerOK(h)
    /\ Makers
    /\ \A s \in Jobs : summary[s].state # "absent" => summary[s].template # "none"

\* The rounds announced, about to be announced and under way.
Announcing == {w \in Workers : worker[w].pc = "announce"}
Count ==
    announced + Cardinality(Announcing) + (IF note.status = "summarizing" THEN 1 ELSE 0) <= rounds

\* The requests are all resummarize requests: what GuardKeepsOneSummary asks.
Guarded == \A h \in Handlers : handler[h].kind \in {"none", "resummarize"}

Open(h) == handler[h].pc \notin {"new", "over"}

\* The open request is the only one.
Alone ==
    /\ \A g, h \in Handlers : Open(g) /\ Open(h) => g = h
    /\ \A h \in Handlers : Open(h) => handler[h].kind = "resummarize"

\* What it has yet to make is not there.
ToMake ==
    \A h \in Handlers, s \in Jobs :
        /\ handler[h].pc \in {"status", "create", "enqueue", "ready"}
        /\ summary[s].state # "absent"
        => handler[h].pc # "status" /\ summary[s].template \notin handler[h].todo

\* One summary for each template, and why.
Single ==
    /\ \A h \in Handlers : handler[h].pc = "new" => handler[h].kind = "none"
    /\ Guarded => OneSummaryPerTemplate /\ Alone /\ ToMake

\* A note in the trash was put there.
Trashed == note.trashed => ~Undisturbed

\* The inductive invariant.
Inv == TypeOK /\ Rows /\ Count /\ PendingIsOwed /\ Trashed

-----------------------------------------------------------------------------
(* What a step makes of one row.                                           *)

\* Worker w after a step that changes no other one.
WorkerAfter(w, pc, j, attempts) ==
    /\ worker' \in [Workers -> WorkerState]
    /\ \A v \in Workers : v # w => worker'[v] = worker[v]
    /\ worker'[w].pc = pc /\ worker'[w].job = j /\ worker'[w].attempts = attempts

\* Job j after a step that changes no other one.
JobAfter(j, status, s, attempts) ==
    /\ job' \in [Jobs -> JobRow]
    /\ \A k \in Jobs : k # j => job'[k] = job[k]
    /\ job'[j].status = status /\ job'[j].summary = s /\ job'[j].attempts = attempts

\* Request h after a step that changes no other one.
HandlerAfter(h, pc, kind, todo, new) ==
    /\ handler' \in [Handlers -> HandlerState]
    /\ \A g \in Handlers : g # h => handler'[g] = handler[g]
    /\ handler'[h].pc = pc /\ handler'[h].kind = kind /\ handler'[h].todo = todo
    /\ handler'[h].new = new

\* The statements of a worker and of a request.
WorkerPcs == Busy \cup Past \cup {"idle"}
HandlerPcs == {"new", "delete", "status", "create", "enqueue", "ready", "over"}
JobStatuses == {"absent", "pending", "running", "done", "failed", "cancelled"}

\* Goto.
LEMMA GotoIs ==
    ASSUME TypeOK, NEW w \in Workers, NEW pc \in WorkerPcs, Goto(w, pc)
    PROVE  WorkerAfter(w, pc, worker[w].job, worker[w].attempts)
<1> DEFINE r == [worker[w] EXCEPT !.pc = pc]
<1>1. worker \in [Workers -> WorkerState] /\ worker' = [worker EXCEPT ![w] = r]
  BY DEF TypeOK, Goto
<1>2. worker[w] \in WorkerState
  BY <1>1
<1>3. r \in WorkerState /\ r.pc = pc /\ r.job = worker[w].job /\ r.attempts = worker[w].attempts
  BY <1>2 DEF WorkerState, WorkerPcs, Busy, Past
<1> HIDE DEF r
<1> QED
  BY <1>1, <1>3 DEF WorkerAfter

\* A failure is noted.
LEMMA FailureIs ==
    ASSUME TypeOK, NEW w \in Workers, NEW b \in BOOLEAN,
           worker' = [worker EXCEPT ![w] = [@ EXCEPT !.pc = "fail", !.retryable = b]]
    PROVE  WorkerAfter(w, "fail", worker[w].job, worker[w].attempts)
<1> DEFINE r == [worker[w] EXCEPT !.pc = "fail", !.retryable = b]
<1>1. worker \in [Workers -> WorkerState] /\ worker' = [worker EXCEPT ![w] = r]
  BY DEF TypeOK
<1>2. worker[w] \in WorkerState
  BY <1>1
<1>3. r \in WorkerState /\ r.pc = "fail" /\ r.job = worker[w].job /\ r.attempts = worker[w].attempts
  BY <1>2 DEF WorkerState
<1> HIDE DEF r
<1> QED
  BY <1>1, <1>3 DEF WorkerAfter

\* Return.
LEMMA ReturnIs ==
    ASSUME TypeOK, NEW w \in Workers, Return(w)
    PROVE  WorkerAfter(w, "idle", "none", 0)
<1>1. worker \in [Workers -> WorkerState] /\ worker' = [worker EXCEPT ![w] = Idle]
  BY DEF TypeOK, Return
<1>2. Idle \in WorkerState /\ Idle.pc = "idle" /\ Idle.job = "none" /\ Idle.attempts = 0
  BY DEF Idle, WorkerState
<1> QED
  BY <1>1, <1>2 DEF WorkerAfter

\* A job's status.
LEMMA StatusIs ==
    ASSUME TypeOK, NEW j \in Jobs, NEW c \in JobStatuses,
           job' = [job EXCEPT ![j].status = c]
    PROVE  JobAfter(j, c, job[j].summary, job[j].attempts)
<1> DEFINE r == [job[j] EXCEPT !.status = c]
<1>1. job \in [Jobs -> JobRow] /\ job' = [job EXCEPT ![j] = r]
  BY DEF TypeOK
<1>2. job[j] \in JobRow
  BY <1>1
<1>3. r \in JobRow /\ r.status = c /\ r.summary = job[j].summary /\ r.attempts = job[j].attempts
  BY <1>2 DEF JobRow, JobStatuses
<1> HIDE DEF r
<1> QED
  BY <1>1, <1>3 DEF JobAfter

\* A job is enqueued.
LEMMA EnqueueIs ==
    ASSUME TypeOK, NEW j \in Jobs, NEW s \in Jobs,
           job' = [job EXCEPT ![j] = [@ EXCEPT !.status = "pending", !.summary = s]]
    PROVE  JobAfter(j, "pending", s, job[j].attempts)
<1> DEFINE r == [job[j] EXCEPT !.status = "pending", !.summary = s]
<1>1. job \in [Jobs -> JobRow] /\ job' = [job EXCEPT ![j] = r]
  BY DEF TypeOK
<1>2. job[j] \in JobRow
  BY <1>1
<1>3. r \in JobRow /\ r.status = "pending" /\ r.summary = s /\ r.attempts = job[j].attempts
  BY <1>2 DEF JobRow
<1> HIDE DEF r
<1> QED
  BY <1>1, <1>3 DEF JobAfter

\* A request goes on to its next statement.
LEMMA HandlerPcIs ==
    ASSUME TypeOK, NEW h \in Handlers, NEW c \in HandlerPcs,
           handler' = [handler EXCEPT ![h].pc = c]
    PROVE  HandlerAfter(h, c, handler[h].kind, handler[h].todo, handler[h].new)
<1> DEFINE r == [handler[h] EXCEPT !.pc = c]
<1>1. handler \in [Handlers -> HandlerState] /\ handler' = [handler EXCEPT ![h] = r]
  BY DEF TypeOK
<1>2. handler[h] \in HandlerState
  BY <1>1
<1>3. /\ r \in HandlerState /\ r.pc = c /\ r.kind = handler[h].kind /\ r.todo = handler[h].todo
      /\ r.new = handler[h].new
  BY <1>2 DEF HandlerState, HandlerPcs
<1> HIDE DEF r
<1> QED
  BY <1>1, <1>3 DEF HandlerAfter

\* A request changes its kind, its templates or its new row too.
LEMMA HandlerIs ==
    ASSUME TypeOK, NEW h \in Handlers, NEW r \in HandlerState,
           handler' = [handler EXCEPT ![h] = r]
    PROVE  HandlerAfter(h, r.pc, r.kind, r.todo, r.new)
BY DEF TypeOK, HandlerAfter

-----------------------------------------------------------------------------
(* What a step leaves alone.                                               *)

\* A row that was made keeps its template and does not become pending again.
SummaryMoves ==
    /\ summary' \in [Jobs -> SummaryRow]
    /\ \A s \in Jobs : summary[s].template # "none" =>
          /\ summary'[s].template = summary[s].template
          /\ summary'[s].state = "pending" => summary[s].state = "pending"
    /\ \A s \in Jobs : summary'[s].state # "absent" => summary'[s].template # "none"

\* The note does not go back to its transcription.
NoteMoves == note.status # "transcribing" => note'.status # "transcribing"

\* A fault is not undone.
BoundsMove == bounds'.faults >= bounds.faults /\ (Undisturbed' => Undisturbed)

\* The rows stay.
LEMMA SummaryStays ==
    ASSUME TypeOK, Rows, UNCHANGED summary
    PROVE  SummaryMoves
BY DEF TypeOK, Rows, SummaryMoves

\* The counts stay.
LEMMA BoundsStay ==
    ASSUME TypeOK, UNCHANGED bounds
    PROVE  BoundsMove
BY DEF TypeOK, BoundsMove, Undisturbed

\* The trash stays as it is.
LEMMA TrashStays ==
    ASSUME Inv, note'.trashed = note.trashed, BoundsMove
    PROVE  Trashed'
BY DEF Inv, Trashed, BoundsMove

\* A worker that is not idle has a job, which was enqueued.
LEMMA HasJob ==
    ASSUME TypeOK, Rows, NEW w \in Workers, worker[w].pc # "idle"
    PROVE  /\ worker[w].job \in Jobs /\ job[worker[w].job].summary \in Jobs
           /\ job[worker[w].job].status \in {"running", "done", "failed"}
           /\ worker[w].pc \in Busy => job[worker[w].job].status = "running"
           /\ worker[w].pc \in Past => job[worker[w].job].status # "running"
           /\ summary[job[worker[w].job].summary].template # "none"
           /\ note.status # "transcribing"
<1>1. worker[w] \in WorkerState /\ WorkerOK(w)
  BY DEF TypeOK, Rows
<1>2. worker[w].pc \in Busy \/ worker[w].pc \in Past
  BY <1>1 DEF WorkerState, Busy, Past
<1>3. worker[w].job \in Jobs /\ JobOK(worker[w].job)
  BY <1>1 DEF WorkerOK, Rows
<1> QED
  BY <1>1, <1>2, <1>3 DEF WorkerOK, JobOK

\* No other worker has the job of a busy one.
LEMMA OwnJob ==
    ASSUME TypeOK, Rows, NEW w \in Workers, worker[w].pc \in Busy,
           NEW v \in Workers, v # w, worker[v].pc # "idle"
    PROVE  worker[v].job # worker[w].job
<1>1. worker[v] \in WorkerState /\ worker[w].pc # "idle"
  BY DEF TypeOK, Busy
<1>2. worker[v].pc \in Busy \/ worker[v].pc \in Past
  BY <1>1 DEF WorkerState, Busy, Past
<1> QED
  BY <1>1, <1>2, HasJob DEF Rows, Owners

\* Worker v is not in the step.
LEMMA WorkerStays ==
    ASSUME NEW v \in Workers, worker'[v] = worker[v], TypeOK, Rows, SummaryMoves,
           worker[v].pc # "idle" => job'[worker[v].job] = job[worker[v].job]
    PROVE  WorkerOK(v)'
<1>1. CASE worker[v].pc = "idle"
  BY <1>1 DEF WorkerOK, Busy, Past
<1>2. CASE worker[v].pc # "idle"
  <2>1. WorkerOK(v) /\ summary[job[worker[v].job].summary].template # "none"
    BY <1>2, HasJob DEF Rows
  <2> QED
    BY <1>2, <2>1 DEF WorkerOK, SummaryMoves
<1> QED
  BY <1>1, <1>2

\* Job j is not in the step.
LEMMA JobStays ==
    ASSUME NEW j \in Jobs, JobOK(j), job'[j] = job[j], TypeOK, SummaryMoves, NoteMoves, BoundsMove,
           bounds' \in [faults: 0..MaxFaults, admin: 0..MaxAdmin, trash: 0..MaxTrash]
    PROVE  JobOK(j)'
<1>1. job[j].attempts \in Nat /\ bounds.faults \in Nat /\ bounds'.faults \in Nat
  BY ConstantsAssumption DEF TypeOK, JobRow
<1> QED
  BY <1>1, ConstantsAssumption DEF JobOK, SummaryMoves, NoteMoves, BoundsMove

\* Request h is not in the step.
LEMMA HandlerStays ==
    ASSUME NEW h \in Handlers, HandlerOK(h), handler'[h] = handler[h], SummaryMoves, NoteMoves,
           handler[h].pc = "enqueue" => job'[handler[h].new].status = job[handler[h].new].status
    PROVE  HandlerOK(h)'
BY DEF HandlerOK, SummaryMoves, NoteMoves

-----------------------------------------------------------------------------
(* The balance of the rounds.                                              *)

\* The workers are finitely many.
LEMMA AnnouncingFinite ==
    /\ IsFiniteSet(Announcing) /\ Cardinality(Announcing) \in Nat
<1>1. IsFiniteSet(Workers) /\ Announcing \subseteq Workers
  BY ConstantsAssumption DEF Announcing
<1> QED
  BY <1>1, FS_Subset, FS_CardinalityType

\* No worker begins or ends announcing.
LEMMA AnnouncingSame ==
    ASSUME NEW w \in Workers, NEW pc, NEW j, NEW n, WorkerAfter(w, pc, j, n),
           worker[w].pc # "announce", pc # "announce"
    PROVE  Announcing' = Announcing
BY DEF Announcing, WorkerAfter

\* Worker w begins.
LEMMA AnnouncingMore ==
    ASSUME NEW w \in Workers, NEW j, NEW n, WorkerAfter(w, "announce", j, n),
           worker[w].pc # "announce"
    PROVE  Cardinality(Announcing') = Cardinality(Announcing) + 1
<1>1. Announcing' = Announcing \cup {w} /\ w \notin Announcing
  BY DEF Announcing, WorkerAfter
<1> QED
  BY <1>1, AnnouncingFinite, FS_AddElement

\* Worker w ends.
LEMMA AnnouncingLess ==
    ASSUME NEW w \in Workers, NEW pc, NEW j, NEW n, WorkerAfter(w, pc, j, n),
           worker[w].pc = "announce", pc # "announce"
    PROVE  Cardinality(Announcing') = Cardinality(Announcing) - 1
<1>1. Announcing' = Announcing \ {w} /\ w \in Announcing
  BY DEF Announcing, WorkerAfter
<1> QED
  BY <1>1, AnnouncingFinite, FS_RemoveElement

\* The balance depends on these only.
LEMMA CountStays ==
    ASSUME Count, UNCHANGED <<rounds, announced>>, note'.status = note.status,
           Announcing' = Announcing
    PROVE  Count'
BY DEF Count

\* SetNoteStatus counts a round whenever it begins one.
LEMMA StatusCounts ==
    ASSUME TypeOK, Count, NEW s \in {"summarizing", "ready"}, SetNoteStatus(s),
           UNCHANGED announced, Announcing' = Announcing
    PROVE  Count' /\ rounds' \in Nat
<1> DEFINE c == Cardinality(Announcing)
<1>1. c \in Nat /\ Cardinality(Announcing)' = c
  BY AnnouncingFinite
<1>2. rounds \in Nat /\ announced \in Nat
  BY DEF TypeOK
<1>3. note'.status = s /\ note' = [note EXCEPT !.status = s]
  BY DEF SetNoteStatus, TypeOK
<1>4. rounds' = rounds + (IF s = "summarizing" /\ note.status # s THEN 1 ELSE 0)
  BY DEF SetNoteStatus
<1>5. announced + c + (IF note.status = "summarizing" THEN 1 ELSE 0) <= rounds
  BY DEF Count
<1> HIDE DEF c
<1>6. announced' + c + (IF note'.status = "summarizing" THEN 1 ELSE 0) <= rounds'
  BY <1>1, <1>2, <1>3, <1>4, <1>5
<1> QED
  BY <1>1, <1>2, <1>4, <1>6 DEF Count

\* What SetNoteStatus makes of the note.
LEMMA StatusMoves ==
    ASSUME TypeOK, NEW s \in {"summarizing", "ready"}, SetNoteStatus(s)
    PROVE  /\ note' \in [status: {"transcribing", "summarizing", "ready"}, trashed: BOOLEAN]
           /\ note'.status = s /\ NoteMoves /\ rounds' \in Nat
           /\ note'.trashed = note.trashed
BY DEF TypeOK, SetNoteStatus, NoteMoves

-----------------------------------------------------------------------------
(* A worker's step.                                                        *)

\* The types of the rows; what TypeOK says of workers and requests is in Rows.
RowTypes ==
    /\ note \in [status: {"transcribing", "summarizing", "ready"}, trashed: BOOLEAN]
    /\ summary \in [Jobs -> SummaryRow]
    /\ job \in [Jobs -> JobRow]
    /\ worker \in [Workers -> WorkerState]
    /\ handler \in [Handlers -> HandlerState]
    /\ fanout \in BOOLEAN
    /\ rounds \in Nat /\ announced \in Nat
    /\ bounds \in [faults: 0..MaxFaults, admin: 0..MaxAdmin, trash: 0..MaxTrash]

\* TypeOK follows.
LEMMA TypesFollow ==
    ASSUME RowTypes', Rows'
    PROVE  TypeOK'
BY DEF RowTypes, Rows, TypeOK, WorkerOK, HandlerOK

\* TypeOK has them.
LEMMA TypesHold ==
    ASSUME TypeOK
    PROVE  RowTypes
BY DEF RowTypes, TypeOK

\* Something will still decide row s.
Owed(s) ==
    \/ \E j \in Jobs : job[j].summary = s /\ job[j].status \in {"pending", "running"}
    \/ \E w \in Workers : worker[w].pc = "fail-summary" /\ job[worker[w].job].summary = s
    \/ \E h \in Handlers : handler[h].pc = "enqueue" /\ handler[h].new = s

\* Worker w acts on job k, and nobody else holds that job if it changes.
LEMMA WorkerRows ==
    ASSUME TypeOK, Rows, NEW w \in Workers, NEW pc, NEW j, NEW n, WorkerAfter(w, pc, j, n),
           SummaryMoves, NoteMoves, BoundsMove,
           bounds' \in [faults: 0..MaxFaults, admin: 0..MaxAdmin, trash: 0..MaxTrash],
           UNCHANGED handler, NEW k \in Jobs, \A m \in Jobs : m # k => job'[m] = job[m],
           JobOK(k)', job[k].status # "absent",
           \/ job'[k] = job[k]
           \/ \A v \in Workers : v # w /\ worker[v].pc # "idle" => worker[v].job # k,
           WorkerOK(w)',
           pc \in Busy => \A v \in Workers : v # w /\ worker[v].pc \in Busy => worker[v].job # j
    PROVE  Rows'
<1>1. ASSUME NEW v \in Workers
      PROVE  WorkerOK(v)'
  <2>1. CASE v = w
    BY <2>1
  <2>2. CASE v # w
    <3>1. worker'[v] = worker[v]
      BY <2>2 DEF WorkerAfter
    <3>2. worker[v].pc # "idle" => worker[v].job \in Jobs
      BY HasJob
    <3>3. worker[v].pc # "idle" => job'[worker[v].job] = job[worker[v].job]
      BY <2>2, <3>2
    <3> QED
      BY <3>1, <3>3, WorkerStays
  <2> QED
    BY <2>1, <2>2
<1>2. Owners'
  <2> SUFFICES ASSUME NEW u \in Workers, NEW v \in Workers,
                      worker'[u].pc \in Busy, worker'[v].pc \in Busy,
                      worker'[u].job = worker'[v].job, u # v
               PROVE  FALSE
    BY DEF Owners
  <2>1. CASE u # w /\ v # w
    BY <2>1 DEF WorkerAfter, Rows, Owners
  <2>2. CASE u = w \/ v = w
    BY <2>2 DEF WorkerAfter
  <2> QED
    BY <2>1, <2>2
<1>3. ASSUME NEW m \in Jobs
      PROVE  JobOK(m)'
  <2>1. CASE m # k
    BY <2>1, JobStays DEF Rows
  <2> QED
    BY <2>1
<1>4. ASSUME NEW h \in Handlers
      PROVE  HandlerOK(h)'
  <2>1. HandlerOK(h) /\ handler'[h] = handler[h]
    BY DEF Rows
  <2>2. handler[h].pc = "enqueue" => handler[h].new # k /\ handler[h].new \in Jobs
    BY <2>1 DEF HandlerOK
  <2> QED
    BY <2>1, <2>2, HandlerStays
<1>5. Makers'
  BY DEF Rows, Makers
<1> QED
  BY <1>1, <1>2, <1>3, <1>4, <1>5 DEF Rows, SummaryMoves

\* Worker w acts on job k, and what it leaves undecided is still owed.
LEMMA WorkerOwes ==
    ASSUME TypeOK, Rows, PendingIsOwed,
           NEW w \in Workers, NEW pc, NEW j, NEW n, WorkerAfter(w, pc, j, n),
           BoundsMove, UNCHANGED handler,
           \A s \in Jobs : summary'[s].state = "pending" => summary[s].state = "pending",
           NEW k \in Jobs, \A m \in Jobs : m # k => job'[m] = job[m],
           job'[k].summary = job[k].summary,
           /\ Undisturbed' /\ summary'[job[k].summary].state = "pending"
           /\ job[k].status \in {"pending", "running"}
           => \/ job'[k].status \in {"pending", "running"}
              \/ pc = "fail-summary" /\ j = k,
           worker[w].pc = "fail-summary" => summary'[job[worker[w].job].summary].state # "pending"
    PROVE  PendingIsOwed'
<1> SUFFICES ASSUME NEW s \in Jobs, Undisturbed', summary'[s].state = "pending"
             PROVE  Owed(s)'
  BY DEF PendingIsOwed, Owed
<1>1. Owed(s)
  BY DEF PendingIsOwed, Owed, BoundsMove
<1>2. CASE \E h \in Handlers : handler[h].pc = "enqueue" /\ handler[h].new = s
  BY <1>2 DEF Owed
<1>3. ASSUME NEW v \in Workers, worker[v].pc = "fail-summary", job[worker[v].job].summary = s
      PROVE  Owed(s)'
  <2>1. v # w
    BY <1>3
  <2>2. worker'[v] = worker[v] /\ worker[v].job \in Jobs
    BY <1>3, <2>1, HasJob DEF WorkerAfter
  <2>3. job'[worker[v].job].summary = s
    BY <1>3, <2>2
  <2> QED
    BY <1>3, <2>2, <2>3 DEF Owed
<1>4. ASSUME NEW m \in Jobs, job[m].summary = s, job[m].status \in {"pending", "running"}
      PROVE  Owed(s)'
  <2>1. CASE job'[m].summary = s /\ job'[m].status \in {"pending", "running"}
    BY <2>1 DEF Owed
  <2>2. CASE m = k /\ pc = "fail-summary" /\ j = k
    <3>1. worker'[w].pc = "fail-summary" /\ job'[worker'[w].job].summary = s
      BY <1>4, <2>2 DEF WorkerAfter
    <3> QED
      BY <3>1 DEF Owed
  <2> QED
    BY <1>4, <2>1, <2>2
<1> QED
  BY <1>1, <1>2, <1>3, <1>4 DEF Owed

\* Worker w goes on, or returns to its loop, and nothing else changes.
LEMMA WorkerGoesOn ==
    ASSUME Inv, NEW w \in Workers, worker[w].pc \notin {"idle", "fail-summary", "announce"},
           NEW pc, NEW j, NEW n, WorkerAfter(w, pc, j, n),
           \/ pc = "idle"
           \/ /\ j = worker[w].job /\ n = worker[w].attempts /\ pc # "complete"
              /\ \/ pc \in Busy /\ worker[w].pc \in Busy
                 \/ pc \in Past /\ worker[w].pc \in Past /\ pc # "announce",
           note' \in [status: {"transcribing", "summarizing", "ready"}, trashed: BOOLEAN],
           note'.status = note.status, note'.trashed = note.trashed,
           UNCHANGED <<summary, job, handler, rounds, fanout, announced, bounds>>
    PROVE  Inv'
<1>1. TypeOK /\ Rows /\ Count /\ PendingIsOwed
  BY DEF Inv
<1> PICK k \in Jobs : k = worker[w].job
  BY <1>1, HasJob
<1>2. SummaryMoves /\ NoteMoves /\ BoundsMove
  BY <1>1, SummaryStays, BoundsStay DEF NoteMoves
<1>3. k \in Jobs /\ job[k].status # "absent" /\ WorkerOK(w)
  BY <1>1, HasJob DEF Rows
<1>4. bounds' \in [faults: 0..MaxFaults, admin: 0..MaxAdmin, trash: 0..MaxTrash]
  BY <1>1 DEF TypeOK
<1>5. JobOK(k)'
  BY <1>1, <1>2, <1>3, <1>4, JobStays DEF Rows
<1>6. WorkerOK(w)'
  BY <1>3 DEF WorkerOK, WorkerAfter, Busy, Past
<1>7. pc \in Busy => \A v \in Workers : v # w /\ worker[v].pc \in Busy => worker[v].job # j
  <2>1. CASE pc = "idle"
    BY <2>1 DEF Busy
  <2>2. CASE j = worker[w].job /\ (pc \in Busy => worker[w].pc \in Busy)
    BY <1>1, <2>2 DEF Rows, Owners
  <2> QED
    BY <2>1, <2>2 DEF Busy, Past
<1>8. Rows'
  BY <1>1, <1>2, <1>3, <1>4, <1>5, <1>6, <1>7, WorkerRows
<1>9. TypeOK'
  BY <1>1, <1>8, TypesHold, TypesFollow DEF RowTypes, WorkerAfter
<1>10. Announcing' = Announcing
  BY AnnouncingSame DEF Busy, Past
<1>11. Count'
  BY <1>1, <1>10, CountStays
<1>12. PendingIsOwed'
  BY <1>1, <1>2, <1>3, WorkerOwes
<1>13. Trashed'
  BY <1>2, TrashStays
<1> QED
  BY <1>8, <1>9, <1>11, <1>12, <1>13 DEF Inv

\* RunSummarize.
LEMMA RunSummarizeKeeps ==
    ASSUME Inv, NEW w \in Workers, RunSummarize(w)
    PROVE  Inv'
<1>1. /\ worker[w].pc = "run" /\ TypeOK
      /\ UNCHANGED <<note, summary, job, handler, rounds, fanout, announced, bounds>>
  BY DEF RunSummarize, Inv
<1>2. \/ WorkerAfter(w, "store", worker[w].job, worker[w].attempts)
      \/ WorkerAfter(w, "fail", worker[w].job, worker[w].attempts)
  <2>1. "store" \in WorkerPcs
    BY DEF WorkerPcs, Busy
  <2> QED
    BY <1>1, <2>1, GotoIs, FailureIs DEF RunSummarize
<1>3. "run" \in Busy /\ "store" \in Busy /\ "fail" \in Busy
  BY DEF Busy
<1>4. note' \in [status: {"transcribing", "summarizing", "ready"}, trashed: BOOLEAN]
  BY <1>1 DEF TypeOK
<1> QED
  BY <1>1, <1>2, <1>3, <1>4, WorkerGoesOn

\* CountActiveSummarizeJobs.
LEMMA CountActiveSummarizeJobsKeeps ==
    ASSUME Inv, NEW w \in Workers, CountActiveSummarizeJobs(w)
    PROVE  Inv'
<1>1. /\ worker[w].pc = "count" /\ TypeOK
      /\ UNCHANGED <<note, summary, job, handler, rounds, fanout, announced, bounds>>
  BY DEF CountActiveSummarizeJobs, Inv
<1>2. \/ WorkerAfter(w, "idle", "none", 0)
      \/ WorkerAfter(w, "ready", worker[w].job, worker[w].attempts)
  <2>1. "ready" \in WorkerPcs
    BY DEF WorkerPcs, Past
  <2> QED
    BY <1>1, <2>1, GotoIs, ReturnIs DEF CountActiveSummarizeJobs
<1>3. "count" \in Past /\ "ready" \in Past
  BY DEF Past
<1>4. note' \in [status: {"transcribing", "summarizing", "ready"}, trashed: BOOLEAN]
  BY <1>1 DEF TypeOK
<1> QED
  BY <1>1, <1>2, <1>3, <1>4, WorkerGoesOn

\* MarkNoteReady: the worker that takes the note out of its round announces it.
LEMMA MarkNoteReadyKeeps ==
    ASSUME Inv, NEW w \in Workers, MarkNoteReady(w)
    PROVE  Inv'
<1>1. /\ worker[w].pc = "ready" /\ TypeOK /\ Rows /\ Count /\ PendingIsOwed
      /\ SetNoteStatus("ready")
      /\ UNCHANGED <<summary, job, handler, fanout, announced, bounds>>
  BY DEF MarkNoteReady, Inv
<1>2. /\ note' \in [status: {"transcribing", "summarizing", "ready"}, trashed: BOOLEAN]
      /\ note'.status = "ready" /\ NoteMoves /\ rounds' = rounds
      /\ note'.trashed = note.trashed
  BY <1>1, StatusMoves DEF SetNoteStatus, TypeOK
<1>3. CASE note.status = "ready"
  <2>1. WorkerAfter(w, "idle", "none", 0)
    BY <1>1, <1>3, ReturnIs DEF MarkNoteReady
  <2> QED
    BY <1>1, <1>2, <1>3, <2>1, WorkerGoesOn
<1>4. CASE note.status # "ready"
  <2> PICK k \in Jobs : k = worker[w].job
    BY <1>1, HasJob
  <2>1. WorkerAfter(w, "announce", k, worker[w].attempts)
    <3>1. "announce" \in WorkerPcs
      BY DEF WorkerPcs, Past
    <3> QED
      BY <1>1, <1>4, <3>1, GotoIs DEF MarkNoteReady
  <2>2. note.status = "summarizing"
    <3>1. note.status \in {"transcribing", "summarizing", "ready"}
      BY <1>1 DEF TypeOK
    <3> QED
      BY <1>1, <1>4, <3>1, HasJob
  <2>3. k \in Jobs /\ job[k].status # "absent" /\ WorkerOK(w)
    BY <1>1, HasJob DEF Rows
  <2>4. SummaryMoves /\ BoundsMove /\ "announce" \notin Busy
    BY <1>1, SummaryStays, BoundsStay DEF Busy
  <2>5. bounds' \in [faults: 0..MaxFaults, admin: 0..MaxAdmin, trash: 0..MaxTrash]
    BY <1>1 DEF TypeOK
  <2>6. JobOK(k)'
    BY <1>1, <1>2, <2>3, <2>4, <2>5, JobStays DEF Rows
  <2>7. WorkerOK(w)'
    BY <1>1, <2>1, <2>3 DEF WorkerOK, WorkerAfter, Busy, Past
  <2>8. Rows'
    BY <1>1, <1>2, <2>1, <2>3, <2>4, <2>5, <2>6, <2>7, WorkerRows
  <2>9. TypeOK'
    BY <1>1, <1>2, <2>1, <2>8, TypesHold, TypesFollow DEF RowTypes, WorkerAfter
  <2>10. Count'
    <3>1. Cardinality(Announcing') = Cardinality(Announcing) + 1
      BY <1>1, <2>1, AnnouncingMore
    <3>2. Cardinality(Announcing) \in Nat /\ announced \in Nat /\ rounds \in Nat
      BY <1>1, AnnouncingFinite DEF TypeOK
    <3> QED
      BY <1>1, <1>2, <2>2, <3>1, <3>2 DEF Count
  <2>11. PendingIsOwed'
    BY <1>1, <2>1, <2>3, <2>4, WorkerOwes
  <2>12. Trashed'
    BY <1>2, <2>4, TrashStays
  <2> QED
    BY <2>8, <2>9, <2>10, <2>11, <2>12 DEF Inv
<1> QED
  BY <1>3, <1>4

\* A busy worker settles its job or puts it back.
LEMMA SettleKeeps ==
    ASSUME Inv, NEW w \in Workers, worker[w].pc \in Busy, NEW c \in {"done", "failed", "pending"},
           NEW pc, NEW j, NEW n, WorkerAfter(w, pc, j, n),
           job' = [job EXCEPT ![worker[w].job].status = c],
           pc = "idle" \/ (pc \in {"fail-summary", "count"} /\ j = worker[w].job /\ c # "pending"),
           c = "pending" => job[worker[w].job].attempts < MaxJobAttempts + bounds'.faults,
           /\ Undisturbed' /\ summary[job[worker[w].job].summary].state = "pending"
           => c = "pending" \/ pc = "fail-summary",
           BoundsMove, bounds' \in [faults: 0..MaxFaults, admin: 0..MaxAdmin, trash: 0..MaxTrash],
           UNCHANGED <<note, summary, handler, rounds, fanout, announced>>
    PROVE  Inv'
<1>1. TypeOK /\ Rows /\ Count /\ PendingIsOwed /\ worker[w].pc # "idle"
  BY DEF Inv, Busy
<1> PICK k \in Jobs : k = worker[w].job
  BY <1>1, HasJob
<1>2. SummaryMoves /\ NoteMoves
  BY <1>1, SummaryStays DEF NoteMoves
<1>3. job[k].status = "running" /\ WorkerOK(w) /\ JobOK(k) /\ job[k].summary \in Jobs
  BY <1>1, HasJob DEF Rows
<1>4. JobAfter(k, c, job[k].summary, job[k].attempts)
  BY <1>1, StatusIs DEF JobStatuses
<1>5. JobOK(k)'
  <2>1. job[k].attempts \in Nat /\ bounds.faults \in Nat /\ bounds'.faults \in Nat
    BY <1>1, ConstantsAssumption DEF TypeOK, JobRow
  <2> QED
    BY <1>2, <1>3, <1>4, <2>1, ConstantsAssumption
    DEF JobOK, JobAfter, SummaryMoves, NoteMoves, BoundsMove
<1>6. WorkerOK(w)'
  BY <1>3, <1>4 DEF WorkerOK, WorkerAfter, JobAfter, Busy, Past
<1>7. pc \notin Busy /\ worker[w].pc \notin {"announce", "fail-summary"} /\ pc # "announce"
  BY DEF Busy
<1>8. \A v \in Workers : v # w /\ worker[v].pc # "idle" => worker[v].job # k
  BY <1>1, OwnJob
<1>9. Rows'
  BY <1>1, <1>2, <1>3, <1>4, <1>5, <1>6, <1>7, <1>8, WorkerRows DEF JobAfter
<1>10. TypeOK'
  BY <1>1, <1>4, <1>9, TypesHold, TypesFollow DEF RowTypes, WorkerAfter, JobAfter
<1>11. Announcing' = Announcing
  BY <1>7, AnnouncingSame
<1>12. Count'
  BY <1>1, <1>11, CountStays
<1>13. PendingIsOwed'
  BY <1>1, <1>4, <1>7, WorkerOwes DEF JobAfter
<1>14. Trashed'
  BY TrashStays
<1> QED
  BY <1>9, <1>10, <1>12, <1>13, <1>14 DEF Inv

\* SkipTrashed.
LEMMA SkipTrashedKeeps ==
    ASSUME Inv, NEW w \in Workers, SkipTrashed(w)
    PROVE  Inv'
<1>1. /\ worker[w].pc = "trash" /\ TypeOK /\ BoundsMove
      /\ UNCHANGED <<note, summary, handler, rounds, fanout, announced, bounds>>
  BY BoundsStay DEF SkipTrashed, Inv
<1>2. "trash" \in Busy /\ "run" \in Busy /\ "run" \in WorkerPcs
  BY DEF Busy, WorkerPcs
<1>3. /\ note' \in [status: {"transcribing", "summarizing", "ready"}, trashed: BOOLEAN]
      /\ bounds' \in [faults: 0..MaxFaults, admin: 0..MaxAdmin, trash: 0..MaxTrash]
  BY <1>1 DEF TypeOK
<1>4. CASE note.trashed
  <2>1. WorkerAfter(w, "idle", "none", 0) /\ job' = [job EXCEPT ![worker[w].job].status = "done"]
    BY <1>1, <1>4, ReturnIs DEF SkipTrashed
  <2>2. ~Undisturbed'
    BY <1>1, <1>4 DEF Inv, Trashed, BoundsMove
  <2> QED
    BY <1>1, <1>2, <1>3, <2>1, <2>2, SettleKeeps
<1>5. CASE ~note.trashed
  <2>1. WorkerAfter(w, "run", worker[w].job, worker[w].attempts) /\ UNCHANGED job
    BY <1>1, <1>2, <1>5, GotoIs DEF SkipTrashed
  <2> QED
    BY <1>1, <1>2, <1>3, <2>1, WorkerGoesOn
<1> QED
  BY <1>4, <1>5

\* CompleteJob.
LEMMA CompleteJobKeeps ==
    ASSUME Inv, NEW w \in Workers, CompleteJob(w)
    PROVE  Inv'
<1>1. /\ worker[w].pc = "complete" /\ TypeOK /\ BoundsMove /\ WorkerOK(w)
      /\ job' = [job EXCEPT ![worker[w].job].status = "done"] /\ Goto(w, "count")
      /\ UNCHANGED <<note, summary, handler, rounds, fanout, announced, bounds>>
  BY BoundsStay DEF CompleteJob, Inv, Rows
<1>2. "complete" \in Busy /\ "count" \in WorkerPcs
  BY DEF Busy, Past, WorkerPcs
<1>3. WorkerAfter(w, "count", worker[w].job, worker[w].attempts)
  BY <1>1, <1>2, GotoIs
<1>4. bounds' \in [faults: 0..MaxFaults, admin: 0..MaxAdmin, trash: 0..MaxTrash]
  BY <1>1 DEF TypeOK
<1>5. summary[job[worker[w].job].summary].state # "pending"
  BY <1>1 DEF WorkerOK
<1> QED
  BY <1>1, <1>2, <1>3, <1>4, <1>5, SettleKeeps

\* FailJob.
LEMMA FailJobKeeps ==
    ASSUME Inv, NEW w \in Workers, FailJob(w)
    PROVE  Inv'
<1>1. /\ worker[w].pc = "fail" /\ TypeOK /\ BoundsMove /\ WorkerOK(w) /\ Rows
      /\ UNCHANGED <<note, summary, handler, rounds, fanout, announced, bounds>>
  BY BoundsStay DEF FailJob, Inv, Rows
<1>2. "fail" \in Busy /\ "fail-summary" \in WorkerPcs
  BY DEF Busy, Past, WorkerPcs
<1>3. bounds' \in [faults: 0..MaxFaults, admin: 0..MaxAdmin, trash: 0..MaxTrash]
  BY <1>1 DEF TypeOK
<1>4. CASE Terminal(w)
  <2>1. /\ WorkerAfter(w, "fail-summary", worker[w].job, worker[w].attempts)
        /\ job' = [job EXCEPT ![worker[w].job].status = "failed"]
    BY <1>1, <1>2, <1>4, GotoIs DEF FailJob
  <2> QED
    BY <1>1, <1>2, <1>3, <2>1, SettleKeeps
<1>5. CASE ~Terminal(w)
  <2>1. /\ WorkerAfter(w, "idle", "none", 0)
        /\ job' = [job EXCEPT ![worker[w].job].status = "pending"]
    BY <1>1, <1>5, ReturnIs DEF FailJob
  <2>2. job[worker[w].job].attempts < MaxJobAttempts + bounds'.faults
    <3>1. job[worker[w].job].attempts = worker[w].attempts /\ worker[w].attempts \in Nat
      BY <1>1, <1>2 DEF WorkerOK, TypeOK, WorkerState
    <3>2. bounds'.faults \in Nat
      BY <1>3, ConstantsAssumption
    <3>3. worker[w].attempts < MaxJobAttempts
      BY <1>5, <3>1, ConstantsAssumption DEF Terminal
    <3> QED
      BY <3>1, <3>2, <3>3, ConstantsAssumption
  <2> QED
    BY <1>1, <1>2, <1>3, <2>1, <2>2, SettleKeeps
<1> QED
  BY <1>4, <1>5

\* A row's state.
LEMMA RowIs ==
    ASSUME TypeOK, Rows, NEW s \in Jobs, summary[s].template # "none",
           NEW c \in {"absent", "ready", "failed"}, summary' = [summary EXCEPT ![s].state = c]
    PROVE  /\ SummaryMoves /\ summary'[s].state = c
           /\ \A t \in Jobs : summary'[t].state = "pending" => summary[t].state = "pending"
<1> DEFINE r == [summary[s] EXCEPT !.state = c]
<1>1. summary \in [Jobs -> SummaryRow] /\ summary' = [summary EXCEPT ![s] = r]
  BY DEF TypeOK
<1>2. summary[s] \in SummaryRow
  BY <1>1
<1>3. r \in SummaryRow /\ r.state = c /\ r.template = summary[s].template
  BY <1>2 DEF SummaryRow
<1> HIDE DEF r
<1>4. /\ summary' \in [Jobs -> SummaryRow] /\ summary'[s] = r
      /\ \A t \in Jobs : t # s => summary'[t] = summary[t]
  BY <1>1, <1>3
<1>5. \A t \in Jobs : /\ summary'[t].template = summary[t].template
                      /\ summary'[t].state = "pending" => summary[t].state = "pending"
  BY <1>3, <1>4
<1>6. \A t \in Jobs : summary'[t].state # "absent" => summary'[t].template # "none"
  BY <1>3, <1>4 DEF Rows
<1> QED
  BY <1>3, <1>4, <1>5, <1>6 DEF SummaryMoves

\* A worker stores its verdict in the row of its job.
LEMMA VerdictKeeps ==
    ASSUME Inv, NEW w \in Workers, NEW c \in {"absent", "ready", "failed"}, NEW pc,
           WorkerAfter(w, pc, worker[w].job, worker[w].attempts),
           \/ worker[w].pc = "store" /\ pc = "complete"
           \/ worker[w].pc = "fail-summary" /\ pc = "count",
           summary' = [summary EXCEPT ![job[worker[w].job].summary].state = c],
           UNCHANGED <<note, job, handler, rounds, fanout, announced, bounds>>
    PROVE  Inv'
<1>1. TypeOK /\ Rows /\ Count /\ PendingIsOwed /\ worker[w].pc # "idle"
  BY DEF Inv
<1> PICK k \in Jobs : k = worker[w].job
  BY <1>1, HasJob
<1>2. NoteMoves /\ BoundsMove
  BY <1>1, BoundsStay DEF NoteMoves
<1>3. /\ WorkerOK(w) /\ JobOK(k) /\ job[k].summary \in Jobs /\ job[k].status # "absent"
      /\ summary[job[k].summary].template # "none"
  BY <1>1, HasJob DEF Rows
<1>4. /\ SummaryMoves /\ summary'[job[k].summary].state = c
      /\ \A t \in Jobs : summary'[t].state = "pending" => summary[t].state = "pending"
  BY <1>1, <1>3, RowIs
<1>5. bounds' \in [faults: 0..MaxFaults, admin: 0..MaxAdmin, trash: 0..MaxTrash]
  BY <1>1 DEF TypeOK
<1>6. JobOK(k)'
  BY <1>1, <1>2, <1>3, <1>4, <1>5, JobStays
<1>7. WorkerOK(w)'
  BY <1>3, <1>4 DEF WorkerOK, WorkerAfter, Busy, Past
<1>8. pc \in Busy => \A v \in Workers : v # w /\ worker[v].pc \in Busy => worker[v].job # k
  BY <1>1, OwnJob DEF Busy
<1>9. Rows'
  BY <1>1, <1>2, <1>3, <1>4, <1>5, <1>6, <1>7, <1>8, WorkerRows
<1>10. TypeOK'
  BY <1>1, <1>4, <1>9, TypesHold, TypesFollow DEF RowTypes, WorkerAfter, SummaryMoves
<1>11. Announcing' = Announcing
  BY AnnouncingSame
<1>12. Count'
  BY <1>1, <1>11, CountStays
<1>13. PendingIsOwed'
  BY <1>1, <1>2, <1>4, WorkerOwes
<1>14. Trashed'
  BY <1>2, TrashStays
<1> QED
  BY <1>9, <1>10, <1>12, <1>13, <1>14 DEF Inv

\* CompleteSummary.
LEMMA CompleteSummaryKeeps ==
    ASSUME Inv, NEW w \in Workers, CompleteSummary(w)
    PROVE  Inv'
<1> DEFINE s == job[worker[w].job].summary
<1>1. /\ worker[w].pc = "store" /\ TypeOK
      /\ UNCHANGED <<note, job, handler, rounds, fanout, announced, bounds>>
  BY DEF CompleteSummary, Inv
<1>2. "store" \in Busy /\ "fail" \in Busy /\ "complete" \in WorkerPcs
  BY DEF Busy, WorkerPcs
<1>3. CASE summary[s].state = "absent"
  <2>1. WorkerAfter(w, "fail", worker[w].job, worker[w].attempts) /\ UNCHANGED summary
    BY <1>1, <1>3, FailureIs DEF CompleteSummary
  <2>2. note' \in [status: {"transcribing", "summarizing", "ready"}, trashed: BOOLEAN]
    BY <1>1 DEF TypeOK
  <2> QED
    BY <1>1, <1>2, <2>1, <2>2, WorkerGoesOn
<1>4. CASE summary[s].state # "absent"
  <2>1. /\ WorkerAfter(w, "complete", worker[w].job, worker[w].attempts)
        /\ summary' = [summary EXCEPT ![s].state = "ready"]
    BY <1>1, <1>2, <1>4, GotoIs DEF CompleteSummary
  <2> QED
    BY <1>1, <2>1, VerdictKeeps
<1> QED
  BY <1>3, <1>4

\* FailSummary.
LEMMA FailSummaryKeeps ==
    ASSUME Inv, NEW w \in Workers, FailSummary(w)
    PROVE  Inv'
<1> DEFINE s == job[worker[w].job].summary
<1> DEFINE c == IF summary[s].state = "absent" THEN summary[s].state ELSE "failed"
<1>1. /\ worker[w].pc = "fail-summary" /\ TypeOK /\ Goto(w, "count")
      /\ summary' = [summary EXCEPT ![s].state = c]
      /\ UNCHANGED <<note, job, handler, rounds, fanout, announced, bounds>>
  BY DEF FailSummary, Inv
<1>2. "count" \in WorkerPcs /\ c \in {"absent", "ready", "failed"}
  BY DEF Past, WorkerPcs
<1>3. WorkerAfter(w, "count", worker[w].job, worker[w].attempts)
  BY <1>1, <1>2, GotoIs
<1> HIDE DEF c
<1> QED
  BY <1>1, <1>2, <1>3, VerdictKeeps

\* ClaimJob.
LEMMA ClaimJobKeeps ==
    ASSUME Inv, NEW w \in Workers, NEW k \in Jobs, ClaimJob(w, k)
    PROVE  Inv'
<1> DEFINE n == job[k].attempts + 1
<1>1. /\ worker[w].pc = "idle" /\ job[k].status = "pending" /\ TypeOK /\ Rows /\ Count
      /\ PendingIsOwed /\ JobOK(k)
      /\ job' = [job EXCEPT ![k].status = "running", ![k].attempts = n]
      /\ worker' = [worker EXCEPT ![w] = [pc |-> "trash", job |-> k, attempts |-> n,
                                          retryable |-> FALSE]]
      /\ UNCHANGED <<note, summary, handler, rounds, fanout, announced, bounds>>
  BY DEF ClaimJob, Inv, Rows
<1>2. n \in 0..(MaxJobAttempts + MaxFaults) /\ n <= MaxJobAttempts + bounds.faults /\ n \in Nat
  BY <1>1, ConstantsAssumption DEF TypeOK, JobRow, JobOK
<1> HIDE DEF n
<1>3. JobAfter(k, "running", job[k].summary, n)
  <2> DEFINE r == [job[k] EXCEPT !.status = "running", !.attempts = n]
  <2>1. job \in [Jobs -> JobRow] /\ job[k] \in JobRow
    BY <1>1 DEF TypeOK
  <2>2. r \in JobRow /\ r.status = "running" /\ r.summary = job[k].summary /\ r.attempts = n
    BY <1>2, <2>1 DEF JobRow
  <2>3. job' = [job EXCEPT ![k] = r]
    BY <1>1
  <2> HIDE DEF r
  <2> QED
    BY <2>1, <2>2, <2>3 DEF JobAfter
<1>4. WorkerAfter(w, "trash", k, n)
  <2> DEFINE r == [pc |-> "trash", job |-> k, attempts |-> n, retryable |-> FALSE]
  <2>1. r \in WorkerState /\ r.pc = "trash" /\ r.job = k /\ r.attempts = n
    BY <1>2 DEF WorkerState
  <2>2. worker \in [Workers -> WorkerState] /\ worker' = [worker EXCEPT ![w] = r]
    BY <1>1 DEF TypeOK
  <2> HIDE DEF r
  <2> QED
    BY <2>1, <2>2 DEF WorkerAfter
<1>5. SummaryMoves /\ NoteMoves /\ BoundsMove
  BY <1>1, SummaryStays, BoundsStay DEF NoteMoves
<1>6. bounds' \in [faults: 0..MaxFaults, admin: 0..MaxAdmin, trash: 0..MaxTrash]
  BY <1>1 DEF TypeOK
<1>7. JobOK(k)'
  BY <1>1, <1>2, <1>3, <1>5 DEF JobOK, JobAfter, SummaryMoves, NoteMoves, BoundsMove
<1>8. WorkerOK(w)'
  BY <1>1, <1>3, <1>4 DEF WorkerOK, WorkerAfter, JobAfter, JobOK, Busy, Past
<1>9. \A v \in Workers : v # w /\ worker[v].pc # "idle" => worker[v].job # k
  BY <1>1, HasJob
<1>10. Rows'
  <2>1. \A v \in Workers : v # w /\ worker[v].pc \in Busy => worker[v].job # k
    BY <1>9 DEF Busy
  <2>2. job[k].status # "absent"
    BY <1>1
  <2>3. \A m \in Jobs : m # k => job'[m] = job[m]
    BY <1>3 DEF JobAfter
  <2> QED
    BY <1>1, <1>4, <1>5, <1>6, <1>7, <1>8, <1>9, <2>1, <2>2, <2>3, WorkerRows
<1>11. TypeOK'
  BY <1>1, <1>3, <1>4, <1>10, TypesHold, TypesFollow DEF RowTypes, WorkerAfter, JobAfter
<1>12. Count'
  BY <1>1, <1>4, AnnouncingSame, CountStays
<1>13. PendingIsOwed'
  BY <1>1, <1>3, <1>4, <1>5, WorkerOwes DEF JobAfter
<1>14. Trashed'
  BY <1>1, <1>5, TrashStays
<1> QED
  BY <1>10, <1>11, <1>12, <1>13, <1>14 DEF Inv

\* A worker whose job is settled leaves it at that: it has announced, or died.
LEMMA PastReturns ==
    ASSUME Inv, NEW w \in Workers, worker[w].pc \in Past, WorkerAfter(w, "idle", "none", 0),
           UNCHANGED <<note, summary, job, handler, rounds, fanout>>,
           announced' \in Nat,
           announced' = announced \/ (worker[w].pc = "announce" /\ announced' = announced + 1),
           worker[w].pc = "fail-summary" => ~Undisturbed',
           BoundsMove, bounds' \in [faults: 0..MaxFaults, admin: 0..MaxAdmin, trash: 0..MaxTrash]
    PROVE  Inv'
<1>1. TypeOK /\ Rows /\ Count /\ PendingIsOwed /\ worker[w].pc # "idle"
  BY DEF Inv, Past
<1> PICK k \in Jobs : k = worker[w].job
  BY <1>1, HasJob
<1>2. SummaryMoves /\ NoteMoves /\ "idle" \notin Busy
  BY <1>1, SummaryStays DEF NoteMoves, Busy
<1>3. job[k].status # "absent"
  BY <1>1, HasJob
<1>4. JobOK(k)'
  BY <1>1, <1>2, JobStays DEF Rows
<1>5. WorkerOK(w)'
  BY DEF WorkerOK, WorkerAfter, Busy, Past
<1>6. Rows'
  BY <1>1, <1>2, <1>3, <1>4, <1>5, WorkerRows
<1>7. TypeOK'
  BY <1>1, <1>6, TypesHold, TypesFollow DEF RowTypes, WorkerAfter
<1>8. Count'
  <2>1. Cardinality(Announcing) \in Nat /\ announced \in Nat /\ rounds \in Nat
    BY <1>1, AnnouncingFinite DEF TypeOK
  <2>2. CASE worker[w].pc = "announce"
    <3>1. Cardinality(Announcing') = Cardinality(Announcing) - 1
      BY <2>2, AnnouncingLess
    <3> QED
      BY <1>1, <2>1, <3>1 DEF Count
  <2>3. CASE worker[w].pc # "announce"
    <3>1. Announcing' = Announcing
      BY <2>3, AnnouncingSame
    <3> QED
      BY <1>1, <2>3, <3>1 DEF Count
  <2> QED
    BY <2>2, <2>3
<1>9. PendingIsOwed'
  <2>1. CASE Undisturbed'
    BY <1>1, <2>1, WorkerOwes
  <2>2. CASE ~Undisturbed'
    BY <2>2 DEF PendingIsOwed
  <2> QED
    BY <2>1, <2>2
<1>10. Trashed'
  BY TrashStays
<1> QED
  BY <1>6, <1>7, <1>8, <1>9, <1>10 DEF Inv

\* Announce.
LEMMA AnnounceKeeps ==
    ASSUME Inv, NEW w \in Workers, Announce(w)
    PROVE  Inv'
<1>1. /\ worker[w].pc = "announce" /\ TypeOK /\ BoundsMove /\ Return(w)
      /\ announced' = announced + 1
      /\ UNCHANGED <<note, summary, job, handler, rounds, fanout, bounds>>
  BY BoundsStay DEF Announce, Inv
<1>2. "announce" \in Past /\ WorkerAfter(w, "idle", "none", 0)
  BY <1>1, ReturnIs DEF Past
<1>3. /\ announced' \in Nat
      /\ bounds' \in [faults: 0..MaxFaults, admin: 0..MaxAdmin, trash: 0..MaxTrash]
  BY <1>1 DEF TypeOK
<1> QED
  BY <1>1, <1>2, <1>3, PastReturns

\* A fault is one more.
LEMMA FaultIs ==
    ASSUME TypeOK, bounds.faults < MaxFaults, bounds' = [bounds EXCEPT !.faults = @ + 1]
    PROVE  /\ bounds' \in [faults: 0..MaxFaults, admin: 0..MaxAdmin, trash: 0..MaxTrash]
           /\ bounds'.faults = bounds.faults + 1 /\ BoundsMove /\ ~Undisturbed'
<1>1. bounds.faults \in Nat /\ MaxFaults \in Nat
  BY ConstantsAssumption DEF TypeOK
<1>2. /\ bounds' \in [faults: 0..MaxFaults, admin: 0..MaxAdmin, trash: 0..MaxTrash]
      /\ bounds'.faults = bounds.faults + 1
  BY <1>1 DEF TypeOK
<1>3. ~Undisturbed'
  BY <1>1, <1>2 DEF Undisturbed
<1> QED
  BY <1>1, <1>2, <1>3 DEF BoundsMove

\* Crash: a running job goes back to the queue, a settled one stays as it is.
LEMMA CrashKeeps ==
    ASSUME Inv, NEW w \in Workers, Crash(w)
    PROVE  Inv'
<1>1. /\ worker[w].pc # "idle" /\ TypeOK /\ Rows /\ Return(w)
      /\ bounds.faults < MaxFaults /\ bounds' = [bounds EXCEPT !.faults = @ + 1]
      /\ job' = [job EXCEPT ![worker[w].job].status = IF @ = "running" THEN "pending" ELSE @]
      /\ UNCHANGED <<note, summary, handler, rounds, fanout, announced>>
  BY DEF Crash, Inv
<1>2. WorkerAfter(w, "idle", "none", 0)
  BY <1>1, ReturnIs
<1>3. /\ bounds' \in [faults: 0..MaxFaults, admin: 0..MaxAdmin, trash: 0..MaxTrash]
      /\ bounds'.faults = bounds.faults + 1 /\ BoundsMove /\ ~Undisturbed'
  BY <1>1, FaultIs
<1>4. worker[w].pc \in Busy \/ worker[w].pc \in Past
  BY <1>1 DEF TypeOK, WorkerState, Busy, Past
<1>5. /\ worker[w].job \in Jobs
      /\ worker[w].pc \in Busy => job[worker[w].job].status = "running"
      /\ worker[w].pc \in Past => job[worker[w].job].status # "running"
  BY <1>1, HasJob
<1>6. CASE worker[w].pc \in Busy
  <2>1. job' = [job EXCEPT ![worker[w].job].status = "pending"]
    BY <1>1, <1>5, <1>6
  <2>2. job[worker[w].job].attempts < MaxJobAttempts + bounds'.faults
    <3>1. JobOK(worker[w].job) /\ job[worker[w].job].attempts \in Nat /\ bounds.faults \in Nat
      BY <1>1, <1>5, ConstantsAssumption DEF Rows, TypeOK, JobRow
    <3> QED
      BY <1>3, <3>1, ConstantsAssumption DEF JobOK
  <2> QED
    BY <1>1, <1>2, <1>3, <1>6, <2>1, <2>2, SettleKeeps
<1>7. CASE worker[w].pc \in Past
  <2> PICK k \in Jobs : k = worker[w].job
    BY <1>5
  <2>1. job[k] \in JobRow /\ job \in [Jobs -> JobRow]
    BY <1>1 DEF TypeOK
  <2>2. [job[k] EXCEPT !.status = job[k].status] = job[k]
    BY <2>1 DEF JobRow
  <2>3. job' = [job EXCEPT ![k] = [job[k] EXCEPT !.status = job[k].status]]
    BY <1>1, <1>5, <1>7
  <2>4. job' = job
    BY <2>1, <2>2, <2>3
  <2>5. announced' \in Nat
    BY <1>1 DEF TypeOK
  <2> QED
    BY <1>1, <1>2, <1>3, <1>7, <2>4, <2>5, PastReturns
<1> QED
  BY <1>4, <1>6, <1>7

-----------------------------------------------------------------------------
(* A step outside the workers.                                             *)

\* It enqueues new jobs or takes pending ones away, and no worker has those.
LEMMA OutsideKeeps ==
    ASSUME Inv, UNCHANGED <<worker, announced>>, RowTypes', SummaryMoves, NoteMoves, BoundsMove,
           \/ note'.status = note.status /\ rounds' = rounds
           \/ \E s \in {"summarizing", "ready"} : SetNoteStatus(s),
           note'.trashed => note.trashed \/ ~Undisturbed',
           \A m \in Jobs : \/ job'[m] = job[m]
                           \/ job[m].status \in {"absent", "pending"} /\ JobOK(m)',
           \A h \in Handlers : HandlerOK(h)', Makers', PendingIsOwed'
    PROVE  Inv'
<1>1. TypeOK /\ Rows /\ Count
  BY DEF Inv
<1>2. ASSUME NEW v \in Workers
      PROVE  WorkerOK(v)'
  <2>1. worker[v].pc # "idle" => job'[worker[v].job] = job[worker[v].job]
    BY <1>1, HasJob
  <2> QED
    BY <1>1, <2>1, WorkerStays
<1>3. ASSUME NEW m \in Jobs
      PROVE  JobOK(m)'
  <2>1. CASE job'[m] = job[m]
    BY <1>1, <2>1, JobStays DEF Rows, RowTypes
  <2> QED
    BY <2>1
<1>4. Owners'
  BY <1>1 DEF Rows, Owners
<1>5. Rows'
  BY <1>2, <1>3, <1>4 DEF Rows, SummaryMoves
<1>6. TypeOK'
  BY <1>5, TypesFollow
<1>7. Announcing' = Announcing
  BY DEF Announcing
<1>8. Count'
  BY <1>1, <1>7, CountStays, StatusCounts
<1>9. Trashed'
  BY DEF Inv, Trashed, BoundsMove
<1> QED
  BY <1>5, <1>6, <1>8, <1>9 DEF Inv

\* Request h takes a step, and the job it enqueues is for its own row.
LEMMA RequestKeeps ==
    ASSUME Inv, NEW h \in Handlers, NEW pc, NEW kind, NEW todo, NEW new,
           HandlerAfter(h, pc, kind, todo, new), UNCHANGED <<worker, announced, fanout>>,
           note' \in [status: {"transcribing", "summarizing", "ready"}, trashed: BOOLEAN],
           job' \in [Jobs -> JobRow], rounds' \in Nat,
           bounds' \in [faults: 0..MaxFaults, admin: 0..MaxAdmin, trash: 0..MaxTrash],
           SummaryMoves, NoteMoves, BoundsMove,
           \/ note'.status = note.status /\ rounds' = rounds
           \/ \E s \in {"summarizing", "ready"} : SetNoteStatus(s),
           note'.trashed = note.trashed,
           \A m \in Jobs : \/ job'[m] = job[m]
                           \/ /\ job[m].status = "absent" /\ JobOK(m)'
                              /\ handler[h].pc = "enqueue" /\ handler[h].new = m,
           HandlerOK(h)',
           pc = "enqueue" =>
              \A g \in Handlers : g # h /\ handler[g].pc = "enqueue" => handler[g].new # new,
           \A s \in Jobs : summary'[s].state = "pending" =>
              summary[s].state = "pending" \/ (pc = "enqueue" /\ new = s),
           \A s \in Jobs :
              Undisturbed' /\ handler[h].pc = "enqueue" /\ handler[h].new = s => Owed(s)'
    PROVE  Inv'
<1>1. TypeOK /\ Rows /\ PendingIsOwed
  BY DEF Inv
<1>2. ASSUME NEW g \in Handlers
      PROVE  HandlerOK(g)'
  <2>1. CASE g = h
    BY <2>1
  <2>2. CASE g # h
    <3>1. handler'[g] = handler[g] /\ HandlerOK(g)
      BY <1>1, <2>2 DEF HandlerAfter, Rows
    <3>2. handler[g].pc = "enqueue" => job'[handler[g].new] = job[handler[g].new]
      <4>1. handler[g].pc = "enqueue" => handler[g].new \in Jobs
        BY <3>1 DEF HandlerOK
      <4>2. handler[g].pc = "enqueue" /\ handler[h].pc = "enqueue"
               => handler[g].new # handler[h].new
        BY <1>1, <2>2 DEF Rows, Makers
      <4> QED
        BY <4>1, <4>2
    <3> QED
      BY <3>1, <3>2, HandlerStays
  <2> QED
    BY <2>1, <2>2
<1>3. Makers'
  <2> SUFFICES ASSUME NEW f \in Handlers, NEW g \in Handlers, f # g,
                      handler'[f].pc = "enqueue", handler'[g].pc = "enqueue",
                      handler'[f].new = handler'[g].new
               PROVE  FALSE
    BY DEF Makers
  <2>1. CASE f # h /\ g # h
    BY <1>1, <2>1 DEF HandlerAfter, Rows, Makers
  <2>2. CASE f = h \/ g = h
    BY <2>2 DEF HandlerAfter
  <2> QED
    BY <2>1, <2>2
<1>4. PendingIsOwed'
  <2> SUFFICES ASSUME NEW s \in Jobs, Undisturbed', summary'[s].state = "pending"
               PROVE  Owed(s)'
    BY DEF PendingIsOwed, Owed
  <2>1. CASE pc = "enqueue" /\ new = s
    BY <2>1 DEF Owed, HandlerAfter
  <2>2. CASE summary[s].state = "pending"
    <3>1. Owed(s)
      BY <1>1, <2>2 DEF PendingIsOwed, Owed, BoundsMove
    <3>2. ASSUME NEW m \in Jobs, job[m].summary = s, job[m].status \in {"pending", "running"}
          PROVE  Owed(s)'
      <4>1. job'[m] = job[m]
        BY <3>2
      <4> QED
        BY <3>2, <4>1 DEF Owed
    <3>3. ASSUME NEW v \in Workers, worker[v].pc = "fail-summary", job[worker[v].job].summary = s
          PROVE  Owed(s)'
      <4>1. worker'[v] = worker[v] /\ job'[worker[v].job] = job[worker[v].job]
        BY <1>1, <3>3, HasJob
      <4> QED
        BY <3>3, <4>1 DEF Owed
    <3>4. ASSUME NEW g \in Handlers, handler[g].pc = "enqueue", handler[g].new = s
          PROVE  Owed(s)'
      <4>1. CASE g = h
        BY <3>4, <4>1
      <4>2. CASE g # h
        BY <3>4, <4>2 DEF Owed, HandlerAfter
      <4> QED
        BY <4>1, <4>2
    <3> QED
      BY <3>1, <3>2, <3>3, <3>4 DEF Owed
  <2> QED
    BY <2>1, <2>2
<1>5. RowTypes'
  BY <1>1, TypesHold DEF RowTypes, HandlerAfter, SummaryMoves
<1> QED
  BY <1>2, <1>3, <1>4, <1>5, OutsideKeeps

\* Begin.
LEMMA BeginKeeps ==
    ASSUME Inv, NEW h \in Handlers, NEW kind \in Kinds, Begin(h, kind)
    PROVE  Inv'
<1> DEFINE r == [handler[h] EXCEPT !.pc = "delete", !.kind = kind]
<1>1. /\ handler[h].pc = "new" /\ TypeOK /\ Rows /\ handler' = [handler EXCEPT ![h] = r]
      /\ UNCHANGED <<note, summary, job, worker, rounds, fanout, announced, bounds>>
  BY DEF Begin, Inv
<1>2. handler[h] \in HandlerState
  BY <1>1 DEF TypeOK
<1>3. r \in HandlerState /\ r.pc = "delete"
  BY <1>2 DEF HandlerState
<1> HIDE DEF r
<1>4. HandlerAfter(h, r.pc, r.kind, r.todo, r.new)
  BY <1>1, <1>3, HandlerIs
<1>5. SummaryMoves /\ NoteMoves /\ BoundsMove
  BY <1>1, SummaryStays, BoundsStay DEF NoteMoves
<1>6. HandlerOK(h)'
  BY <1>3, <1>4 DEF HandlerOK, HandlerAfter
<1>7. /\ note' \in [status: {"transcribing", "summarizing", "ready"}, trashed: BOOLEAN]
      /\ job' \in [Jobs -> JobRow] /\ rounds' \in Nat
      /\ bounds' \in [faults: 0..MaxFaults, admin: 0..MaxAdmin, trash: 0..MaxTrash]
  BY <1>1 DEF TypeOK
<1> QED
  BY <1>1, <1>3, <1>4, <1>5, <1>6, <1>7, RequestKeeps

\* DeleteNoteSummaries.
LEMMA DeleteNoteSummariesKeeps ==
    ASSUME Inv, NEW h \in Handlers, DeleteNoteSummaries(h)
    PROVE  Inv'
<1>1. PICK ts \in SUBSET Templates :
         /\ handler' = [handler EXCEPT ![h] = [@ EXCEPT !.pc = "status", !.todo = ts]]
         /\ summary' = [s \in Jobs |->
               IF handler[h].kind = "template" => summary[s].template \in ts
               THEN [summary[s] EXCEPT !.state = "absent"]
               ELSE summary[s]]
  <2>1. \A t \in Templates : {t} \in SUBSET Templates
    OBVIOUS
  <2> QED
    BY <2>1 DEF DeleteNoteSummaries
<1> DEFINE r == [handler[h] EXCEPT !.pc = "status", !.todo = ts]
<1>2. /\ handler[h].pc = "delete" /\ TypeOK /\ Rows /\ handler' = [handler EXCEPT ![h] = r]
      /\ UNCHANGED <<note, job, worker, rounds, fanout, announced, bounds>>
  BY <1>1 DEF DeleteNoteSummaries, Inv
<1>3. handler[h] \in HandlerState
  BY <1>2 DEF TypeOK
<1>4. r \in HandlerState /\ r.pc = "status"
  BY <1>3 DEF HandlerState
<1> HIDE DEF r
<1>5. HandlerAfter(h, r.pc, r.kind, r.todo, r.new)
  BY <1>2, <1>4, HandlerIs
<1>6. ASSUME NEW s \in Jobs
      PROVE  /\ summary'[s] \in SummaryRow
             /\ summary'[s].template = summary[s].template
             /\ summary'[s].state = summary[s].state \/ summary'[s].state = "absent"
  <2>1. summary[s] \in SummaryRow
    BY <1>2 DEF TypeOK
  <2>2. [summary[s] EXCEPT !.state = "absent"] \in SummaryRow
    BY <2>1 DEF SummaryRow
  <2>3. summary'[s] = IF handler[h].kind = "template" => summary[s].template \in ts
                      THEN [summary[s] EXCEPT !.state = "absent"]
                      ELSE summary[s]
    BY <1>1
  <2> QED
    BY <2>1, <2>2, <2>3 DEF SummaryRow
<1>7. SummaryMoves
  <2>1. summary' \in [Jobs -> SummaryRow]
    <3>1. \A s \in Jobs : [summary[s] EXCEPT !.state = "absent"] \in SummaryRow
                          /\ summary[s] \in SummaryRow
      BY <1>2 DEF TypeOK, SummaryRow
    <3> QED
      BY <1>1, <3>1
  <2>2. \A s \in Jobs : summary[s].state # "absent" => summary[s].template # "none"
    BY <1>2 DEF Rows
  <2> QED
    BY <1>6, <2>1, <2>2 DEF SummaryMoves
<1>8. NoteMoves /\ BoundsMove
  BY <1>2, BoundsStay DEF NoteMoves
<1>9. HandlerOK(h)'
  BY <1>4, <1>5 DEF HandlerOK, HandlerAfter
<1>10. /\ note' \in [status: {"transcribing", "summarizing", "ready"}, trashed: BOOLEAN]
       /\ job' \in [Jobs -> JobRow] /\ rounds' \in Nat
       /\ bounds' \in [faults: 0..MaxFaults, admin: 0..MaxAdmin, trash: 0..MaxTrash]
  BY <1>2 DEF TypeOK
<1>11. \A s \in Jobs : summary'[s].state = "pending" => summary[s].state = "pending"
  BY <1>6
<1> QED
  BY <1>2, <1>4, <1>5, <1>7, <1>8, <1>9, <1>10, <1>11, RequestKeeps

\* SetSummarizing.
LEMMA SetSummarizingKeeps ==
    ASSUME Inv, NEW h \in Handlers, SetSummarizing(h)
    PROVE  Inv'
<1>1. /\ handler[h].pc = "status" /\ TypeOK /\ Rows /\ SetNoteStatus("summarizing")
      /\ UNCHANGED <<summary, job, worker, fanout, announced, bounds>>
  BY DEF SetSummarizing, Inv
<1>2. PICK c \in {"ready", "create"} : handler' = [handler EXCEPT ![h].pc = c]
  BY DEF SetSummarizing
<1>3. HandlerAfter(h, c, handler[h].kind, handler[h].todo, handler[h].new)
  BY <1>1, <1>2, HandlerPcIs DEF HandlerPcs
<1>4. /\ note' \in [status: {"transcribing", "summarizing", "ready"}, trashed: BOOLEAN]
      /\ note'.status = "summarizing" /\ NoteMoves /\ rounds' \in Nat
      /\ note'.trashed = note.trashed
  BY <1>1, StatusMoves
<1>5. SummaryMoves /\ BoundsMove
  BY <1>1, SummaryStays, BoundsStay
<1>6. HandlerOK(h)'
  BY <1>3, <1>4 DEF HandlerOK, HandlerAfter
<1>7. /\ job' \in [Jobs -> JobRow]
      /\ bounds' \in [faults: 0..MaxFaults, admin: 0..MaxAdmin, trash: 0..MaxTrash]
  BY <1>1 DEF TypeOK
<1> QED
  BY <1>1, <1>3, <1>4, <1>5, <1>6, <1>7, RequestKeeps

\* EndRound.
LEMMA EndRoundKeeps ==
    ASSUME Inv, NEW h \in Handlers, EndRound(h)
    PROVE  Inv'
<1>1. /\ handler[h].pc \in {"create", "ready"} /\ TypeOK /\ Rows
      /\ handler' = [handler EXCEPT ![h].pc = "over"]
      /\ UNCHANGED <<summary, job, worker, fanout, announced, bounds>>
  BY DEF EndRound, Inv
<1>2. HandlerAfter(h, "over", handler[h].kind, handler[h].todo, handler[h].new)
  <2>1. "over" \in HandlerPcs
    BY DEF HandlerPcs
  <2> QED
    BY <1>1, <2>1, HandlerPcIs
<1>3. UNCHANGED <<note, rounds>> \/ SetNoteStatus("ready")
  BY DEF EndRound
<1>4. /\ note' \in [status: {"transcribing", "summarizing", "ready"}, trashed: BOOLEAN]
      /\ NoteMoves /\ rounds' \in Nat /\ note'.trashed = note.trashed
  BY <1>1, <1>3, StatusMoves DEF TypeOK, NoteMoves
<1>5. SummaryMoves /\ BoundsMove
  BY <1>1, SummaryStays, BoundsStay
<1>6. HandlerOK(h)'
  BY <1>2 DEF HandlerOK, HandlerAfter
<1>7. /\ job' \in [Jobs -> JobRow]
      /\ bounds' \in [faults: 0..MaxFaults, admin: 0..MaxAdmin, trash: 0..MaxTrash]
  BY <1>1 DEF TypeOK
<1>8. \/ note'.status = note.status /\ rounds' = rounds
      \/ \E s \in {"summarizing", "ready"} : SetNoteStatus(s)
  BY <1>3
<1> QED
  BY <1>1, <1>2, <1>4, <1>5, <1>6, <1>7, <1>8, RequestKeeps

\* AbandonRequest: the row it has just made is left without a job.
LEMMA AbandonRequestKeeps ==
    ASSUME Inv, NEW h \in Handlers, AbandonRequest(h)
    PROVE  Inv'
<1>1. /\ TypeOK /\ Rows /\ handler' = [handler EXCEPT ![h].pc = "over"]
      /\ bounds.faults < MaxFaults /\ bounds' = [bounds EXCEPT !.faults = @ + 1]
      /\ UNCHANGED <<note, summary, job, worker, rounds, fanout, announced>>
  BY DEF AbandonRequest, Inv
<1>2. HandlerAfter(h, "over", handler[h].kind, handler[h].todo, handler[h].new)
  <2>1. "over" \in HandlerPcs
    BY DEF HandlerPcs
  <2> QED
    BY <1>1, <2>1, HandlerPcIs
<1>3. /\ bounds' \in [faults: 0..MaxFaults, admin: 0..MaxAdmin, trash: 0..MaxTrash]
      /\ BoundsMove /\ ~Undisturbed'
  BY <1>1, FaultIs
<1>4. SummaryMoves /\ NoteMoves
  BY <1>1, SummaryStays DEF NoteMoves
<1>5. HandlerOK(h)'
  BY <1>2 DEF HandlerOK, HandlerAfter
<1>6. /\ note' \in [status: {"transcribing", "summarizing", "ready"}, trashed: BOOLEAN]
      /\ job' \in [Jobs -> JobRow] /\ rounds' \in Nat
  BY <1>1 DEF TypeOK
<1> QED
  BY <1>1, <1>2, <1>3, <1>4, <1>5, <1>6, RequestKeeps

\* CreatePendingSummary.
LEMMA CreatePendingSummaryKeeps ==
    ASSUME Inv, NEW h \in Handlers, CreatePendingSummary(h)
    PROVE  Inv'
<1>1. PICK t \in handler[h].todo, s \in Jobs :
         /\ Fresh(s)
         /\ summary' = [summary EXCEPT ![s] = [state |-> "pending", template |-> t]]
         /\ handler' = [handler EXCEPT ![h].pc = "enqueue", ![h].new = s, ![h].todo = @ \ {t}]
  BY DEF CreatePendingSummary
<1> DEFINE r == [handler[h] EXCEPT !.pc = "enqueue", !.new = s, !.todo = @ \ {t}]
<1>2. /\ handler[h].pc = "create" /\ TypeOK /\ Rows /\ handler' = [handler EXCEPT ![h] = r]
      /\ UNCHANGED <<note, job, worker, rounds, fanout, announced, bounds>>
  BY <1>1 DEF CreatePendingSummary, Inv
<1>3. handler[h] \in HandlerState
  BY <1>2 DEF TypeOK
<1>4. r \in HandlerState /\ r.pc = "enqueue" /\ r.new = s
  BY <1>3 DEF HandlerState
<1>5. t \in Templates /\ t # "none"
  BY <1>1, <1>3, ConstantsAssumption DEF HandlerState
<1> HIDE DEF r
<1>6. HandlerAfter(h, r.pc, r.kind, r.todo, r.new)
  BY <1>2, <1>4, HandlerIs
<1> DEFINE n == [state |-> "pending", template |-> t]
<1>7. n \in SummaryRow /\ n.state = "pending" /\ n.template = t
  BY <1>5 DEF SummaryRow
<1>8. summary \in [Jobs -> SummaryRow] /\ summary' = [summary EXCEPT ![s] = n]
  BY <1>1, <1>2 DEF TypeOK
<1> HIDE DEF n
<1>9. /\ summary' \in [Jobs -> SummaryRow] /\ summary'[s] = n
      /\ \A u \in Jobs : u # s => summary'[u] = summary[u]
  BY <1>7, <1>8
<1>10. SummaryMoves
  BY <1>1, <1>2, <1>5, <1>7, <1>9 DEF SummaryMoves, Fresh, Rows
<1>11. NoteMoves /\ BoundsMove
  BY <1>2, BoundsStay DEF NoteMoves
<1>12. HandlerOK(h)'
  BY <1>1, <1>2, <1>4, <1>5, <1>6, <1>7, <1>9 DEF HandlerOK, HandlerAfter, Fresh, Rows
<1>13. \A g \in Handlers : g # h /\ handler[g].pc = "enqueue" => handler[g].new # s
  BY <1>1, <1>2 DEF Rows, HandlerOK, Fresh
<1>14. /\ note' \in [status: {"transcribing", "summarizing", "ready"}, trashed: BOOLEAN]
       /\ job' \in [Jobs -> JobRow] /\ rounds' \in Nat
       /\ bounds' \in [faults: 0..MaxFaults, admin: 0..MaxAdmin, trash: 0..MaxTrash]
  BY <1>2 DEF TypeOK
<1>15. \A u \in Jobs : summary'[u].state = "pending" => summary[u].state = "pending" \/ s = u
  BY <1>9
<1> QED
  BY <1>2, <1>4, <1>6, <1>10, <1>11, <1>12, <1>13, <1>14, <1>15, RequestKeeps

\* A job that is enqueued has its attempts before it.
LEMMA NewJobOK ==
    ASSUME TypeOK, NEW j \in Jobs, JobOK(j), job[j].status = "absent", NEW s \in Jobs,
           job'[j].status = "pending", job'[j].summary = s, job'[j].attempts = job[j].attempts,
           summary'[s].template # "none", note'.status # "transcribing",
           Undisturbed' => s = j,
           bounds' \in [faults: 0..MaxFaults, admin: 0..MaxAdmin, trash: 0..MaxTrash]
    PROVE  JobOK(j)'
<1>1. bounds'.faults \in Nat /\ job[j].attempts = 0
  BY ConstantsAssumption DEF JobOK
<1> QED
  BY <1>1, ConstantsAssumption DEF JobOK

\* EnqueueNoteJob.
LEMMA EnqueueNoteJobKeeps ==
    ASSUME Inv, NEW h \in Handlers, EnqueueNoteJob(h)
    PROVE  Inv'
<1> DEFINE r == [handler[h] EXCEPT !.pc = "create", !.new = "none"]
<1>1. /\ handler[h].pc = "enqueue" /\ TypeOK /\ Rows /\ handler' = [handler EXCEPT ![h] = r]
      /\ UNCHANGED <<note, summary, worker, rounds, fanout, announced, bounds>>
  BY DEF EnqueueNoteJob, Inv
<1>2. HandlerOK(h)
  BY <1>1 DEF Rows
<1> PICK s \in Jobs : s = handler[h].new
  BY <1>1, <1>2 DEF HandlerOK
<1>3. /\ job' = [job EXCEPT ![s] = [@ EXCEPT !.status = "pending", !.summary = s]]
      /\ job[s].status = "absent" /\ summary[s].template # "none"
      /\ note.status # "transcribing"
  BY <1>1, <1>2 DEF EnqueueNoteJob, HandlerOK
<1>4. handler[h] \in HandlerState
  BY <1>1 DEF TypeOK
<1>5. r \in HandlerState /\ r.pc = "create"
  BY <1>4 DEF HandlerState
<1> HIDE DEF r
<1>6. HandlerAfter(h, r.pc, r.kind, r.todo, r.new)
  BY <1>1, <1>5, HandlerIs
<1>7. JobAfter(s, "pending", s, job[s].attempts)
  BY <1>1, <1>3, EnqueueIs
<1>8. SummaryMoves /\ NoteMoves /\ BoundsMove
  BY <1>1, SummaryStays, BoundsStay DEF NoteMoves
<1>9. /\ note' \in [status: {"transcribing", "summarizing", "ready"}, trashed: BOOLEAN]
      /\ rounds' \in Nat
      /\ bounds' \in [faults: 0..MaxFaults, admin: 0..MaxAdmin, trash: 0..MaxTrash]
  BY <1>1 DEF TypeOK
<1>10. JobOK(s)'
  <2>1. JobOK(s)
    BY <1>1 DEF Rows
  <2>2. /\ job'[s].status = "pending" /\ job'[s].summary = s
        /\ job'[s].attempts = job[s].attempts
    BY <1>7 DEF JobAfter
  <2> QED
    BY <1>1, <1>3, <1>9, <2>1, <2>2, NewJobOK
<1>11. HandlerOK(h)'
  BY <1>1, <1>3, <1>5, <1>6 DEF HandlerOK, HandlerAfter
<1>12. \A u \in Jobs : Undisturbed' /\ handler[h].pc = "enqueue" /\ handler[h].new = u => Owed(u)'
  BY <1>7 DEF Owed, JobAfter
<1>13. job' \in [Jobs -> JobRow] /\ \A m \in Jobs : m # s => job'[m] = job[m]
  BY <1>7 DEF JobAfter
<1> QED
  BY <1>1, <1>3, <1>5, <1>6, <1>8, <1>9, <1>10, <1>11, <1>12, <1>13, RequestKeeps

-----------------------------------------------------------------------------
(* The fan-out, administrators and the trash.                              *)

\* One more intervention or trashing.
LEMMA InterventionIs ==
    ASSUME TypeOK,
           \/ bounds.admin < MaxAdmin /\ bounds' = [bounds EXCEPT !.admin = @ + 1]
           \/ bounds.trash < MaxTrash /\ bounds' = [bounds EXCEPT !.trash = @ + 1]
    PROVE  /\ bounds' \in [faults: 0..MaxFaults, admin: 0..MaxAdmin, trash: 0..MaxTrash]
           /\ BoundsMove /\ ~Undisturbed'
<1>1. /\ bounds.faults \in Nat /\ bounds.admin \in Nat /\ bounds.trash \in Nat
      /\ MaxAdmin \in Nat /\ MaxTrash \in Nat /\ MaxFaults \in Nat
  BY ConstantsAssumption DEF TypeOK
<1>2. /\ bounds' \in [faults: 0..MaxFaults, admin: 0..MaxAdmin, trash: 0..MaxTrash]
      /\ bounds'.faults = bounds.faults
  BY <1>1 DEF TypeOK
<1>3. bounds'.admin = bounds.admin + 1 \/ bounds'.trash = bounds.trash + 1
  BY <1>1 DEF TypeOK
<1>4. ~Undisturbed'
  BY <1>1, <1>3 DEF Undisturbed
<1> QED
  BY <1>1, <1>2, <1>4 DEF BoundsMove

\* A request is not disturbed by jobs for rows other than the one it has made.
LEMMA RequestsStay ==
    ASSUME TypeOK, Rows, UNCHANGED handler, SummaryMoves, NoteMoves,
           \A m \in Jobs : \/ job'[m] = job[m]
                           \/ job[m].status # "absent"
                           \/ summary[m].template = "none"
    PROVE  (\A h \in Handlers : HandlerOK(h)') /\ Makers'
<1>1. ASSUME NEW h \in Handlers
      PROVE  HandlerOK(h)'
  <2>1. HandlerOK(h)
    BY DEF Rows
  <2>2. handler[h].pc = "enqueue" => job'[handler[h].new] = job[handler[h].new]
    BY <2>1 DEF HandlerOK
  <2> QED
    BY <2>1, <2>2, HandlerStays
<1>2. Makers'
  BY DEF Rows, Makers
<1> QED
  BY <1>1, <1>2

\* CancelJob.
LEMMA CancelJobKeeps ==
    ASSUME Inv, NEW j \in Jobs, CancelJob(j)
    PROVE  Inv'
<1>1. /\ TypeOK /\ Rows /\ job[j].status = "pending" /\ JobOK(j)
      /\ job' = [job EXCEPT ![j].status = "cancelled"]
      /\ bounds.admin < MaxAdmin /\ bounds' = [bounds EXCEPT !.admin = @ + 1]
      /\ UNCHANGED <<note, summary, worker, handler, rounds, fanout, announced>>
  BY DEF CancelJob, Inv, Rows
<1>2. /\ bounds' \in [faults: 0..MaxFaults, admin: 0..MaxAdmin, trash: 0..MaxTrash]
      /\ BoundsMove /\ ~Undisturbed'
  BY <1>1, InterventionIs
<1>3. JobAfter(j, "cancelled", job[j].summary, job[j].attempts)
  <2>1. "cancelled" \in JobStatuses
    BY DEF JobStatuses
  <2> QED
    BY <1>1, <2>1, StatusIs
<1>4. SummaryMoves /\ NoteMoves
  BY <1>1, SummaryStays DEF NoteMoves
<1>5. JobOK(j)'
  <2>1. job[j].attempts \in Nat /\ bounds.faults \in Nat /\ bounds'.faults \in Nat
    BY <1>1, <1>2, ConstantsAssumption DEF TypeOK, JobRow
  <2> QED
    BY <1>1, <1>2, <1>3, <1>4, <2>1, ConstantsAssumption
    DEF JobOK, JobAfter, SummaryMoves, NoteMoves, BoundsMove
<1>6. \A m \in Jobs : m # j => job'[m] = job[m]
  BY <1>3 DEF JobAfter
<1>7. (\A h \in Handlers : HandlerOK(h)') /\ Makers'
  BY <1>1, <1>4, <1>6, RequestsStay
<1>8. PendingIsOwed'
  BY <1>2 DEF PendingIsOwed
<1>9. RowTypes'
  BY <1>1, <1>2, <1>3, TypesHold DEF RowTypes, JobAfter
<1> QED
  BY <1>1, <1>2, <1>4, <1>5, <1>6, <1>7, <1>8, <1>9, OutsideKeeps

\* RetryJob.
LEMMA RetryJobKeeps ==
    ASSUME Inv, NEW f \in Jobs, NEW j \in Jobs, RetryJob(f, j)
    PROVE  Inv'
<1>1. /\ TypeOK /\ Rows /\ job[f].status = "failed" /\ Fresh(j) /\ JobOK(f) /\ JobOK(j)
      /\ job' = [job EXCEPT ![j] = [@ EXCEPT !.status = "pending", !.summary = job[f].summary]]
      /\ bounds.admin < MaxAdmin /\ bounds' = [bounds EXCEPT !.admin = @ + 1]
      /\ UNCHANGED <<note, summary, worker, handler, rounds, fanout, announced>>
  BY DEF RetryJob, Inv, Rows
<1>2. /\ bounds' \in [faults: 0..MaxFaults, admin: 0..MaxAdmin, trash: 0..MaxTrash]
      /\ BoundsMove /\ ~Undisturbed'
  BY <1>1, InterventionIs
<1> PICK s \in Jobs : s = job[f].summary
  BY <1>1 DEF JobOK
<1>3. JobAfter(j, "pending", s, job[j].attempts)
  BY <1>1, EnqueueIs
<1>4. SummaryMoves /\ NoteMoves
  BY <1>1, SummaryStays DEF NoteMoves
<1>5. JobOK(j)'
  <2>1. /\ job[j].status = "absent" /\ summary'[s].template # "none"
        /\ note'.status # "transcribing"
    BY <1>1 DEF JobOK, Fresh
  <2>2. /\ job'[j].status = "pending" /\ job'[j].summary = s
        /\ job'[j].attempts = job[j].attempts
    BY <1>3 DEF JobAfter
  <2> QED
    BY <1>1, <1>2, <2>1, <2>2, NewJobOK
<1>6. \A m \in Jobs : m # j => job'[m] = job[m]
  BY <1>3 DEF JobAfter
<1>7. job[j].status = "absent" /\ summary[j].template = "none"
  BY <1>1 DEF Fresh
<1>8. (\A h \in Handlers : HandlerOK(h)') /\ Makers'
  BY <1>1, <1>4, <1>6, <1>7, RequestsStay
<1>9. PendingIsOwed'
  BY <1>2 DEF PendingIsOwed
<1>10. RowTypes'
  BY <1>1, <1>2, <1>3, TypesHold DEF RowTypes, JobAfter
<1> QED
  BY <1>1, <1>2, <1>4, <1>5, <1>6, <1>7, <1>8, <1>9, <1>10, OutsideKeeps

\* DeleteNote and RestoreNote.
LEMMA TrashKeeps ==
    ASSUME Inv, DeleteNote \/ RestoreNote
    PROVE  Inv'
<1>1. /\ TypeOK /\ Rows /\ PendingIsOwed
      /\ UNCHANGED <<summary, job, worker, handler, rounds, fanout, announced>>
      /\ \E b \in BOOLEAN : note' = [note EXCEPT !.trashed = b]
  BY DEF DeleteNote, RestoreNote, Inv
<1>2. /\ note' \in [status: {"transcribing", "summarizing", "ready"}, trashed: BOOLEAN]
      /\ note'.status = note.status
  BY <1>1 DEF TypeOK
<1>3. /\ bounds' \in [faults: 0..MaxFaults, admin: 0..MaxAdmin, trash: 0..MaxTrash]
      /\ BoundsMove /\ (note'.trashed => ~Undisturbed')
  <2>1. CASE DeleteNote
    BY <1>1, <2>1, InterventionIs DEF DeleteNote
  <2>2. CASE RestoreNote
    <3>1. UNCHANGED bounds /\ note' = [note EXCEPT !.trashed = FALSE]
      BY <2>2 DEF RestoreNote
    <3> QED
      BY <1>1, <3>1, BoundsStay DEF TypeOK
  <2> QED
    BY <2>1, <2>2
<1>4. SummaryMoves /\ NoteMoves
  BY <1>1, <1>2, SummaryStays DEF NoteMoves
<1>5. (\A h \in Handlers : HandlerOK(h)') /\ Makers'
  BY <1>1, <1>4, RequestsStay
<1>6. PendingIsOwed'
  BY <1>1, <1>3 DEF PendingIsOwed, BoundsMove
<1>7. RowTypes'
  BY <1>1, <1>2, <1>3, TypesHold DEF RowTypes
<1> QED
  BY <1>1, <1>2, <1>3, <1>4, <1>5, <1>6, <1>7, OutsideKeeps

\* EnqueueSummarizeJobsIfCurrent: every new row comes with its job.
LEMMA EnqueueSummarizeJobsIfCurrentKeeps ==
    ASSUME Inv, EnqueueSummarizeJobsIfCurrent
    PROVE  Inv'
<1>1. PICK auto \in SUBSET Templates : \E new \in [auto -> {j \in Jobs : Fresh(j)}] :
         /\ summary' = [s \in Jobs |->
               IF \E t \in auto : new[t] = s
               THEN [state |-> "pending", template |-> CHOOSE t \in auto : new[t] = s]
               ELSE summary[s]]
         /\ job' = [j \in Jobs |->
               IF \E t \in auto : new[t] = j
               THEN [job[j] EXCEPT !.status = "pending", !.summary = j]
               ELSE job[j]]
         /\ SetNoteStatus(IF auto = {} THEN "ready" ELSE "summarizing")
  BY DEF EnqueueSummarizeJobsIfCurrent
<1>2. PICK new \in [auto -> {j \in Jobs : Fresh(j)}] :
         /\ summary' = [s \in Jobs |->
               IF \E t \in auto : new[t] = s
               THEN [state |-> "pending", template |-> CHOOSE t \in auto : new[t] = s]
               ELSE summary[s]]
         /\ job' = [j \in Jobs |->
               IF \E t \in auto : new[t] = j
               THEN [job[j] EXCEPT !.status = "pending", !.summary = j]
               ELSE job[j]]
         /\ SetNoteStatus(IF auto = {} THEN "ready" ELSE "summarizing")
  BY <1>1
<1> DEFINE N == {new[t] : t \in auto}
<1>3. /\ TypeOK /\ Rows /\ PendingIsOwed /\ fanout' = FALSE
      /\ UNCHANGED <<worker, handler, announced, bounds>>
  BY DEF EnqueueSummarizeJobsIfCurrent, Inv
<1>4. PICK c \in {"summarizing", "ready"} : SetNoteStatus(c)
  BY <1>2
<1>5. /\ note' \in [status: {"transcribing", "summarizing", "ready"}, trashed: BOOLEAN]
      /\ note'.status = c /\ NoteMoves /\ rounds' \in Nat
      /\ note'.trashed = note.trashed
  BY <1>3, <1>4, StatusMoves
<1>6. \A j \in N : j \in Jobs /\ job[j].status = "absent" /\ summary[j].template = "none"
  BY DEF Fresh
<1>7. ASSUME NEW s \in N
      PROVE  /\ summary'[s].state = "pending" /\ summary'[s].template \in Templates
             /\ summary'[s] \in SummaryRow
             /\ job'[s] \in JobRow /\ job'[s].status = "pending" /\ job'[s].summary = s
             /\ job'[s].attempts = job[s].attempts
  <2>1. s \in Jobs /\ \E t \in auto : new[t] = s
    BY <1>6
  <2>2. PICK t \in Templates : summary'[s] = [state |-> "pending", template |-> t]
    BY <1>2, <2>1
  <2>3. job'[s] = [job[s] EXCEPT !.status = "pending", !.summary = s] /\ job[s] \in JobRow
    BY <1>2, <1>3, <2>1 DEF TypeOK
  <2>4. summary'[s].state = "pending" /\ summary'[s].template = t /\ summary'[s] \in SummaryRow
    BY <2>2 DEF SummaryRow
  <2>5. /\ job'[s] \in JobRow /\ job'[s].status = "pending" /\ job'[s].summary = s
        /\ job'[s].attempts = job[s].attempts
    BY <2>1, <2>3 DEF JobRow
  <2> QED
    BY <2>4, <2>5
<1>8. ASSUME NEW s \in Jobs, s \notin N
      PROVE  summary'[s] = summary[s] /\ job'[s] = job[s]
  BY <1>2, <1>8
<1>9. summary' \in [Jobs -> SummaryRow] /\ job' \in [Jobs -> JobRow]
  <2>1. \A s \in Jobs : summary'[s] \in SummaryRow /\ job'[s] \in JobRow
    BY <1>3, <1>7, <1>8 DEF TypeOK
  <2>2. summary' = [s \in Jobs |-> summary'[s]] /\ job' = [j \in Jobs |-> job'[j]]
    BY <1>2
  <2> HIDE DEF N
  <2> QED
    BY <2>1, <2>2
<1> HIDE DEF N
<1>10. SummaryMoves
  <2>1. ASSUME NEW s \in Jobs, summary[s].template # "none"
        PROVE  summary'[s] = summary[s]
    BY <1>6, <1>8, <2>1
  <2>2. ASSUME NEW s \in Jobs, summary'[s].state # "absent"
        PROVE  summary'[s].template # "none"
    <3>1. CASE s \in N
      BY <1>7, <3>1, ConstantsAssumption
    <3>2. CASE s \notin N
      BY <1>3, <1>8, <2>2, <3>2 DEF Rows
    <3> QED
      BY <3>1, <3>2
  <2> QED
    BY <1>9, <2>1, <2>2 DEF SummaryMoves
<1>11. BoundsMove /\ bounds' \in [faults: 0..MaxFaults, admin: 0..MaxAdmin, trash: 0..MaxTrash]
  BY <1>3, BoundsStay DEF TypeOK
<1>12. \A j \in N : JobOK(j)'
  <2>1. ASSUME NEW j \in Jobs, j \in N
        PROVE  JobOK(j)'
    <3>1. JobOK(j) /\ job[j].status = "absent"
      BY <1>3, <1>6, <2>1 DEF Rows
    <3>2. summary'[j].template # "none" /\ note'.status # "transcribing"
      BY <1>5, <1>7, <2>1, ConstantsAssumption
    <3>3. /\ job'[j].status = "pending" /\ job'[j].summary = j
          /\ job'[j].attempts = job[j].attempts
      BY <1>7, <2>1
    <3> QED
      BY <1>3, <1>11, <3>1, <3>2, <3>3, NewJobOK
  <2> QED
    BY <1>6, <2>1
<1>13. (\A h \in Handlers : HandlerOK(h)') /\ Makers'
  BY <1>3, <1>5, <1>6, <1>8, <1>10, RequestsStay
<1>14. PendingIsOwed'
  <2> SUFFICES ASSUME NEW s \in Jobs, Undisturbed', summary'[s].state = "pending"
               PROVE  Owed(s)'
    BY DEF PendingIsOwed, Owed
  <2>1. CASE s \in N
    BY <1>7, <2>1 DEF Owed
  <2>2. CASE s \notin N
    <3>1. Owed(s)
      BY <1>3, <1>8, <1>11, <2>2 DEF PendingIsOwed, Owed, BoundsMove
    <3>2. ASSUME NEW m \in Jobs, job[m].summary = s, job[m].status \in {"pending", "running"}
          PROVE  Owed(s)'
      <4>1. job'[m] = job[m]
        BY <1>6, <1>8, <3>2
      <4> QED
        BY <3>2, <4>1 DEF Owed
    <3>3. ASSUME NEW v \in Workers, worker[v].pc = "fail-summary", job[worker[v].job].summary = s
          PROVE  Owed(s)'
      <4>1. worker[v].job \in Jobs /\ job[worker[v].job].status # "absent"
        BY <1>3, <3>3, HasJob
      <4>2. worker'[v] = worker[v] /\ job'[worker[v].job] = job[worker[v].job]
        BY <1>3, <1>6, <1>8, <4>1
      <4> QED
        BY <3>3, <4>2 DEF Owed
    <3>4. ASSUME NEW g \in Handlers, handler[g].pc = "enqueue", handler[g].new = s
          PROVE  Owed(s)'
      BY <1>3, <3>4 DEF Owed
    <3> QED
      BY <3>1, <3>2, <3>3, <3>4 DEF Owed
  <2> QED
    BY <2>1, <2>2
<1>15. RowTypes'
  BY <1>3, <1>5, <1>9, <1>11, TypesHold DEF RowTypes
<1>16. \A m \in Jobs : \/ job'[m] = job[m]
                       \/ job[m].status \in {"absent", "pending"} /\ JobOK(m)'
  BY <1>6, <1>8, <1>12
<1> QED
  BY <1>3, <1>4, <1>5, <1>10, <1>11, <1>13, <1>14, <1>15, <1>16, OutsideKeeps

-----------------------------------------------------------------------------
(* The invariant.                                                          *)

\* Init establishes it.
LEMMA InitInv ==
    ASSUME Init
    PROVE  Inv
<1>1. RowTypes
  <2>1. /\ Idle \in WorkerState
        /\ [pc |-> "new", kind |-> "none", todo |-> {}, new |-> "none"] \in HandlerState
        /\ [state |-> "absent", template |-> "none"] \in SummaryRow
        /\ [status |-> "absent", summary |-> "none", attempts |-> 0] \in JobRow
    BY ConstantsAssumption DEF Idle, WorkerState, HandlerState, SummaryRow, JobRow
  <2>2. bounds \in [faults: 0..MaxFaults, admin: 0..MaxAdmin, trash: 0..MaxTrash]
    BY ConstantsAssumption DEF Init
  <2>3. note \in [status: {"transcribing", "summarizing", "ready"}, trashed: BOOLEAN]
    BY DEF Init
  <2> QED
    BY <2>1, <2>2, <2>3 DEF Init, RowTypes
<1>2. /\ \A w \in Workers : worker[w].pc = "idle"
      /\ \A h \in Handlers : handler[h].pc = "new"
      /\ \A j \in Jobs : /\ job[j].status = "absent" /\ job[j].attempts = 0
                         /\ summary[j].state = "absent"
  BY DEF Init, Idle
<1>3. Rows
  <2>1. bounds.faults = 0
    BY DEF Init
  <2>2. \A w \in Workers : WorkerOK(w)
    BY <1>2 DEF WorkerOK, Busy, Past
  <2>3. \A j \in Jobs : JobOK(j)
    BY <1>2, <2>1, ConstantsAssumption DEF JobOK
  <2>4. \A h \in Handlers : HandlerOK(h)
    BY <1>2 DEF HandlerOK
  <2>5. Owners /\ Makers
    BY <1>2 DEF Owners, Makers, Busy
  <2> QED
    BY <1>2, <2>2, <2>3, <2>4, <2>5 DEF Rows
<1>4. TypeOK
  BY <1>1, <1>3 DEF RowTypes, Rows, TypeOK, WorkerOK, HandlerOK
<1>5. Count
  <2>1. Announcing = {}
    BY <1>2 DEF Announcing
  <2>2. Cardinality(Announcing) = 0
    BY <2>1, FS_EmptySet
  <2>3. note.status # "summarizing" /\ announced = 0 /\ rounds = 0
    BY DEF Init
  <2> QED
    BY <2>2, <2>3 DEF Count
<1>6. PendingIsOwed
  BY <1>2 DEF PendingIsOwed
<1>7. Trashed
  BY DEF Init, Trashed
<1> QED
  BY <1>3, <1>4, <1>5, <1>6, <1>7 DEF Inv

\* Every step keeps it.
LEMMA StepInv ==
    ASSUME Inv, [Next]_vars
    PROVE  Inv'
<1>1. CASE UNCHANGED vars
  BY <1>1 DEF vars, Inv, TypeOK, Rows, WorkerOK, Owners, JobOK, HandlerOK, Makers, Count, Announcing,
              PendingIsOwed, Undisturbed, Trashed
<1>2. CASE EnqueueSummarizeJobsIfCurrent
  BY <1>2, EnqueueSummarizeJobsIfCurrentKeeps
<1>3. ASSUME NEW h \in Handlers, NEW kind \in Kinds, Begin(h, kind)
      PROVE  Inv'
  BY <1>3, BeginKeeps
<1>4. ASSUME NEW h \in Handlers, HandlerStep(h)
      PROVE  Inv'
  BY <1>4, DeleteNoteSummariesKeeps, SetSummarizingKeeps, CreatePendingSummaryKeeps,
     EnqueueNoteJobKeeps, EndRoundKeeps DEF HandlerStep
<1>5. ASSUME NEW w \in Workers, WorkerStep(w)
      PROVE  Inv'
  BY <1>5, ClaimJobKeeps, SkipTrashedKeeps, RunSummarizeKeeps, CompleteSummaryKeeps,
     CompleteJobKeeps, FailJobKeeps, FailSummaryKeeps, CountActiveSummarizeJobsKeeps,
     MarkNoteReadyKeeps, AnnounceKeeps DEF WorkerStep
<1>6. ASSUME NEW j \in Jobs, CancelJob(j)
      PROVE  Inv'
  BY <1>6, CancelJobKeeps
<1>7. ASSUME NEW f \in Jobs, NEW j \in Jobs, RetryJob(f, j)
      PROVE  Inv'
  BY <1>7, RetryJobKeeps
<1>8. CASE DeleteNote \/ RestoreNote
  BY <1>8, TrashKeeps
<1>9. ASSUME NEW w \in Workers, Crash(w)
      PROVE  Inv'
  BY <1>9, CrashKeeps
<1>10. ASSUME NEW h \in Handlers, AbandonRequest(h)
       PROVE  Inv'
  BY <1>10, AbandonRequestKeeps
<1> QED
  BY <1>1, <1>2, <1>3, <1>4, <1>5, <1>6, <1>7, <1>8, <1>9, <1>10 DEF Next

\* The rows agree with what the workers and the requests hold in memory, and the
\* rounds balance, along every behaviour: whatever process dies in whatever
\* statement, and whatever administrators and the trash do.
THEOREM InvAlways == Spec => []Inv
<1>1. Inv /\ [Next]_vars => Inv'
  BY StepInv
<1> QED
  BY <1>1, InitInv, PTL DEF Spec

\* A summary that CreatePendingSummary or the fan-out has made is decided by
\* somebody as long as nobody intervenes.
THEOREM PendingRowsAreOwed == Spec => []PendingIsOwed
<1>1. Inv => PendingIsOwed
  BY DEF Inv
<1> QED
  BY <1>1, InvAlways, PTL

\* FinalizeNote announces a round at most once, whatever requests overlap.
THEOREM NoRoundTwice == Spec => [](TypeOK /\ announced <= rounds)
<1>1. Inv => TypeOK /\ announced <= rounds
  <2> SUFFICES ASSUME Inv
               PROVE  TypeOK /\ announced <= rounds
    OBVIOUS
  <2>1. announced \in Nat /\ rounds \in Nat /\ Cardinality(Announcing) \in Nat
    BY AnnouncingFinite DEF Inv, TypeOK
  <2> QED
    BY <2>1 DEF Inv, Count
<1> QED
  BY <1>1, InvAlways, PTL

-----------------------------------------------------------------------------
(* The guard of handleResummarize.                                         *)

\* A row that is there was there, for the same template.
Leaves ==
    \A s \in Jobs : summary'[s].state # "absent" =>
        summary[s].state # "absent" /\ summary'[s].template = summary[s].template

\* Rows may go while the requests stay.
LEMMA SingleFades ==
    ASSUME Single, Leaves, UNCHANGED handler
    PROVE  Single'
BY DEF Single, Leaves, Guarded, Open, Alone, ToMake, OneSummaryPerTemplate

\* Request h goes on and keeps its kind; the other requests are not open.
LEMMA SingleGoesOn ==
    ASSUME Single, NEW h \in Handlers, NEW pc, NEW todo, NEW new,
           HandlerAfter(h, pc, handler[h].kind, todo, new), Open(h), pc # "new",
           Guarded => OneSummaryPerTemplate',
           Guarded /\ pc \in {"status", "create", "enqueue", "ready"} =>
              \A s \in Jobs : summary'[s].state # "absent" =>
                 pc # "status" /\ summary'[s].template \notin todo
    PROVE  Single'
<1>1. handler'[h].pc = pc /\ handler'[h].kind = handler[h].kind /\ handler'[h].todo = todo
  BY DEF HandlerAfter
<1>2. \A g \in Handlers : g # h => handler'[g] = handler[g]
  BY DEF HandlerAfter
<1>3. Guarded' => Guarded
  BY <1>1, <1>2 DEF Guarded
<1>4. Guarded => \A g \in Handlers : Open(g)' => g = h
  BY <1>1, <1>2 DEF Single, Alone, Open
<1>5. Guarded => Alone'
  BY <1>1, <1>4 DEF Single, Alone, Open
<1>6. Guarded => ToMake'
  <2> SUFFICES ASSUME Guarded, NEW g \in Handlers, NEW s \in Jobs,
                      handler'[g].pc \in {"status", "create", "enqueue", "ready"},
                      summary'[s].state # "absent"
               PROVE  handler'[g].pc # "status" /\ summary'[s].template \notin handler'[g].todo
    BY DEF ToMake
  <2>1. g = h
    BY <1>4 DEF Open
  <2> QED
    BY <1>1, <2>1
<1>7. \A g \in Handlers : handler'[g].pc = "new" => handler'[g].kind = "none"
  BY <1>1, <1>2 DEF Single
<1> QED
  BY <1>3, <1>5, <1>6, <1>7 DEF Single

\* Begin: inFlightGuard lets it in only when no other request is open.
LEMMA BeginSingle ==
    ASSUME TypeOK, Single, NEW h \in Handlers, NEW kind \in Kinds, Begin(h, kind)
    PROVE  Single'
<1> DEFINE r == [handler[h] EXCEPT !.pc = "delete", !.kind = kind]
<1>1. /\ handler[h].pc = "new" /\ handler[h] \in HandlerState
      /\ handler' = [handler EXCEPT ![h] = r] /\ UNCHANGED summary
  BY DEF Begin, TypeOK
<1>2. r \in HandlerState /\ r.pc = "delete" /\ r.kind = kind
  BY <1>1 DEF HandlerState
<1> HIDE DEF r
<1>3. HandlerAfter(h, r.pc, r.kind, r.todo, r.new)
  BY <1>1, <1>2, HandlerIs
<1>4. /\ handler'[h].pc = "delete" /\ handler'[h].kind = kind
      /\ \A g \in Handlers : g # h => handler'[g] = handler[g]
  BY <1>2, <1>3 DEF HandlerAfter
<1>5. \A g \in Handlers : handler'[g].pc = "new" => handler'[g].kind = "none"
  BY <1>4 DEF Single
<1>6. ASSUME Guarded'
      PROVE  Guarded /\ kind = "resummarize"
  <2>1. handler[h].kind = "none"
    BY <1>1 DEF Single
  <2>2. kind # "none"
    BY ConstantsAssumption
  <2> QED
    BY <1>4, <1>6, <2>1, <2>2 DEF Guarded
<1>7. ASSUME Guarded'
      PROVE  \A g \in Handlers : ~Open(g)
  BY <1>6, <1>7 DEF Begin, Single, Alone, Open
<1>8. ASSUME Guarded'
      PROVE  OneSummaryPerTemplate' /\ Alone' /\ ToMake'
  <2>1. \A g \in Handlers : Open(g)' => g = h
    BY <1>4, <1>7, <1>8 DEF Open
  <2>2. Alone'
    BY <1>4, <1>6, <1>8, <2>1 DEF Alone
  <2>3. ToMake'
    BY <1>4, <2>1 DEF ToMake, Open
  <2>4. OneSummaryPerTemplate'
    BY <1>1, <1>6, <1>8 DEF Single, OneSummaryPerTemplate
  <2> QED
    BY <2>2, <2>3, <2>4
<1> QED
  BY <1>5, <1>8 DEF Single

\* DeleteNoteSummaries removes every row of the note.
LEMMA DeleteNoteSummariesSingle ==
    ASSUME TypeOK, Single, NEW h \in Handlers, DeleteNoteSummaries(h)
    PROVE  Single'
<1>1. PICK ts \in SUBSET Templates :
         /\ handler' = [handler EXCEPT ![h] = [@ EXCEPT !.pc = "status", !.todo = ts]]
         /\ summary' = [s \in Jobs |->
               IF handler[h].kind = "template" => summary[s].template \in ts
               THEN [summary[s] EXCEPT !.state = "absent"]
               ELSE summary[s]]
  <2>1. \A t \in Templates : {t} \in SUBSET Templates
    OBVIOUS
  <2> QED
    BY <2>1 DEF DeleteNoteSummaries
<1> DEFINE r == [handler[h] EXCEPT !.pc = "status", !.todo = ts]
<1>2. /\ handler[h].pc = "delete" /\ handler[h] \in HandlerState
      /\ handler' = [handler EXCEPT ![h] = r]
  BY <1>1 DEF DeleteNoteSummaries, TypeOK
<1>3. r \in HandlerState /\ r.pc = "status" /\ r.kind = handler[h].kind
  BY <1>2 DEF HandlerState
<1> HIDE DEF r
<1>4. HandlerAfter(h, r.pc, r.kind, r.todo, r.new)
  BY <1>2, <1>3, HandlerIs
<1>5. Open(h)
  BY <1>2 DEF Open
<1>6. ASSUME Guarded, NEW s \in Jobs
      PROVE  summary'[s].state = "absent"
  <2>1. handler[h].kind = "resummarize"
    BY <1>5, <1>6 DEF Single, Alone
  <2>2. summary[s] \in SummaryRow
    BY DEF TypeOK
  <2>3. summary'[s] = [summary[s] EXCEPT !.state = "absent"]
    BY <1>1, <2>1
  <2> QED
    BY <2>2, <2>3 DEF SummaryRow
<1>7. Guarded => OneSummaryPerTemplate'
  BY <1>6 DEF OneSummaryPerTemplate
<1> QED
  BY <1>3, <1>4, <1>5, <1>6, <1>7, SingleGoesOn

\* CreatePendingSummary makes a row for a template that has none.
LEMMA CreatePendingSummarySingle ==
    ASSUME TypeOK, Single, NEW h \in Handlers, CreatePendingSummary(h)
    PROVE  Single'
<1>1. PICK t \in handler[h].todo, s \in Jobs :
         /\ summary' = [summary EXCEPT ![s] = [state |-> "pending", template |-> t]]
         /\ handler' = [handler EXCEPT ![h].pc = "enqueue", ![h].new = s, ![h].todo = @ \ {t}]
  BY DEF CreatePendingSummary
<1> DEFINE r == [handler[h] EXCEPT !.pc = "enqueue", !.new = s, !.todo = @ \ {t}]
<1>2. /\ handler[h].pc = "create" /\ handler[h] \in HandlerState
      /\ handler' = [handler EXCEPT ![h] = r] /\ summary \in [Jobs -> SummaryRow]
  BY <1>1 DEF CreatePendingSummary, TypeOK
<1>3. /\ r \in HandlerState /\ r.pc = "enqueue" /\ r.kind = handler[h].kind
      /\ r.todo = handler[h].todo \ {t}
  BY <1>2 DEF HandlerState
<1> HIDE DEF r
<1>4. HandlerAfter(h, r.pc, r.kind, r.todo, r.new)
  BY <1>2, <1>3, HandlerIs
<1>5. Open(h)
  BY <1>2 DEF Open
<1>6. summary'[s].template = t /\ \A u \in Jobs : u # s => summary'[u] = summary[u]
  BY <1>1, <1>2
<1>7. Guarded => \A u \in Jobs : summary[u].state # "absent" => summary[u].template \notin handler[h].todo
  BY <1>2 DEF Single, ToMake
<1>8. Guarded => OneSummaryPerTemplate'
  BY <1>6, <1>7 DEF Single, OneSummaryPerTemplate
<1>9. Guarded => \A u \in Jobs : summary'[u].state # "absent" => summary'[u].template \notin r.todo
  BY <1>3, <1>6, <1>7
<1> QED
  BY <1>3, <1>4, <1>5, <1>8, <1>9, SingleGoesOn

\* The other statements of a request leave the rows alone.
LEMMA RequestSingle ==
    ASSUME TypeOK, Single, NEW h \in Handlers,
           SetSummarizing(h) \/ EnqueueNoteJob(h) \/ EndRound(h) \/ AbandonRequest(h)
    PROVE  Single'
<1>1. Open(h) /\ UNCHANGED summary
  BY DEF SetSummarizing, EnqueueNoteJob, EndRound, AbandonRequest, Open
<1>2. Guarded => OneSummaryPerTemplate'
  BY <1>1 DEF Single, OneSummaryPerTemplate
<1>3. CASE SetSummarizing(h)
  <2>1. PICK c \in {"ready", "create"} : handler' = [handler EXCEPT ![h].pc = c]
    BY <1>3 DEF SetSummarizing
  <2>2. HandlerAfter(h, c, handler[h].kind, handler[h].todo, handler[h].new)
    BY <2>1, HandlerPcIs DEF HandlerPcs
  <2>3. Guarded => \A s \in Jobs : summary'[s].state = "absent"
    BY <1>1, <1>3 DEF SetSummarizing, Single, ToMake
  <2> QED
    BY <1>1, <1>2, <2>2, <2>3, SingleGoesOn
<1>4. CASE EnqueueNoteJob(h)
  <2> DEFINE r == [handler[h] EXCEPT !.pc = "create", !.new = "none"]
  <2>1. /\ handler[h].pc = "enqueue" /\ handler[h] \in HandlerState
        /\ handler' = [handler EXCEPT ![h] = r]
    BY <1>4 DEF EnqueueNoteJob, TypeOK
  <2>2. /\ r \in HandlerState /\ r.pc = "create" /\ r.kind = handler[h].kind
        /\ r.todo = handler[h].todo
    BY <2>1 DEF HandlerState
  <2> HIDE DEF r
  <2>3. HandlerAfter(h, r.pc, r.kind, r.todo, r.new)
    BY <2>1, <2>2, HandlerIs
  <2>4. Guarded => \A s \in Jobs : summary'[s].state # "absent" => summary'[s].template \notin r.todo
    BY <1>1, <2>1, <2>2 DEF Single, ToMake
  <2> QED
    BY <1>1, <1>2, <2>2, <2>3, <2>4, SingleGoesOn
<1>5. CASE EndRound(h) \/ AbandonRequest(h)
  <2>1. handler' = [handler EXCEPT ![h].pc = "over"] /\ "over" \in HandlerPcs
    BY <1>5 DEF EndRound, AbandonRequest, HandlerPcs
  <2>2. HandlerAfter(h, "over", handler[h].kind, handler[h].todo, handler[h].new)
    BY <2>1, HandlerPcIs
  <2> QED
    BY <1>1, <1>2, <2>2, SingleGoesOn
<1> QED
  BY <1>3, <1>4, <1>5

\* A worker's verdict is on a row that is there.
LEMMA WorkerSingle ==
    ASSUME TypeOK, Rows, Single, NEW w \in Workers, WorkerStep(w)
    PROVE  Single'
<1>1. UNCHANGED handler
  BY DEF WorkerStep, ClaimJob, SkipTrashed, RunSummarize, CompleteSummary, CompleteJob, FailJob,
         FailSummary, CountActiveSummarizeJobs, MarkNoteReady, Announce
<1>2. CASE UNCHANGED summary
  BY <1>1, <1>2, SingleFades DEF Leaves
<1>3. CASE CompleteSummary(w) \/ FailSummary(w)
  <2>1. worker[w].pc # "idle"
    BY <1>3 DEF CompleteSummary, FailSummary
  <2> PICK s \in Jobs : s = job[worker[w].job].summary
    BY <2>1, HasJob
  <2>2. CASE summary[s].state # "absent"
    <3>1. summary' = summary \/ \E c \in {"ready", "failed"} : summary' = [summary EXCEPT ![s].state = c]
      BY <1>3, <2>2 DEF CompleteSummary, FailSummary
    <3>2. summary \in [Jobs -> SummaryRow]
      BY DEF TypeOK
    <3>3. Leaves
      BY <2>2, <3>1, <3>2 DEF Leaves, SummaryRow
    <3> QED
      BY <1>1, <3>3, SingleFades
  <2>3. CASE summary[s].state = "absent"
    <3>1. summary' = summary \/ summary' = [summary EXCEPT ![s].state = "absent"]
      BY <1>3, <2>3 DEF CompleteSummary, FailSummary
    <3>2. summary \in [Jobs -> SummaryRow]
      BY DEF TypeOK
    <3>3. Leaves
      BY <2>3, <3>1, <3>2 DEF Leaves, SummaryRow
    <3> QED
      BY <1>1, <3>3, SingleFades
  <2> QED
    BY <2>2, <2>3
<1>4. UNCHANGED summary \/ CompleteSummary(w) \/ FailSummary(w)
  BY DEF WorkerStep, ClaimJob, SkipTrashed, RunSummarize, CompleteJob, FailJob,
         CountActiveSummarizeJobs, MarkNoteReady, Announce
<1> QED
  BY <1>2, <1>3, <1>4

\* Every step keeps it, once the fan-out is over.
LEMMA StepSingle ==
    ASSUME Inv, ~fanout, Single, [Next]_vars
    PROVE  ~fanout' /\ Single'
<1>1. TypeOK /\ Rows
  BY DEF Inv
<1>2. CASE UNCHANGED vars \/ DeleteNote \/ RestoreNote
  <2>1. UNCHANGED <<fanout, summary, handler>>
    BY <1>2 DEF vars, DeleteNote, RestoreNote
  <2> QED
    BY <2>1, SingleFades DEF Leaves
<1>3. CASE EnqueueSummarizeJobsIfCurrent
  BY <1>3 DEF EnqueueSummarizeJobsIfCurrent
<1>4. ASSUME NEW h \in Handlers, NEW kind \in Kinds, Begin(h, kind)
      PROVE  ~fanout' /\ Single'
  BY <1>1, <1>4, BeginSingle DEF Begin
<1>5. ASSUME NEW h \in Handlers, HandlerStep(h) \/ AbandonRequest(h)
      PROVE  ~fanout' /\ Single'
  <2>1. UNCHANGED fanout
    BY <1>5 DEF HandlerStep, DeleteNoteSummaries, SetSummarizing, CreatePendingSummary,
                EnqueueNoteJob, EndRound, AbandonRequest
  <2> QED
    BY <1>1, <1>5, <2>1, DeleteNoteSummariesSingle, CreatePendingSummarySingle, RequestSingle
    DEF HandlerStep
<1>6. ASSUME NEW w \in Workers, WorkerStep(w)
      PROVE  ~fanout' /\ Single'
  <2>1. UNCHANGED fanout
    BY <1>6 DEF WorkerStep, ClaimJob, SkipTrashed, RunSummarize, CompleteSummary, CompleteJob,
                FailJob, FailSummary, CountActiveSummarizeJobs, MarkNoteReady, Announce
  <2> QED
    BY <1>1, <1>6, <2>1, WorkerSingle
<1>7. ASSUME (\E j \in Jobs : CancelJob(j)) \/ (\E f, j \in Jobs : RetryJob(f, j))
             \/ (\E w \in Workers : Crash(w))
      PROVE  ~fanout' /\ Single'
  <2>1. UNCHANGED <<fanout, summary, handler>>
    BY <1>7 DEF CancelJob, RetryJob, Crash
  <2> QED
    BY <2>1, SingleFades DEF Leaves
<1> QED
  BY <1>2, <1>3, <1>4, <1>5, <1>6, <1>7 DEF Next

\* A note that is not waiting for its fan-out: the ready side effects fire at
\* most once a round, and while every request is a resummarize request no
\* template is left with two summaries.
THEOREM AnnouncedAtMostOnce == Spec /\ ~fanout => []AnnouncedOnce
<1> DEFINE I == Inv /\ ~fanout /\ Single
<1>1. Init /\ ~fanout => I
  <2> SUFFICES ASSUME Init, ~fanout
               PROVE  Single
    BY InitInv
  <2>1. \A h \in Handlers : handler[h].pc = "new" /\ handler[h].kind = "none"
    BY DEF Init
  <2>2. \A s \in Jobs : summary[s].state = "absent"
    BY DEF Init
  <2> QED
    BY <2>1, <2>2 DEF Single, OneSummaryPerTemplate, Alone, ToMake, Open
<1>2. I /\ [Next]_vars => I'
  BY StepInv, StepSingle
<1>3. I => GuardKeepsOneSummary
  BY DEF Single, Guarded, GuardKeepsOneSummary
<1> HIDE DEF I
<1>4. Spec /\ ~fanout => []GuardKeepsOneSummary
  BY <1>1, <1>2, <1>3, PTL DEF Spec
<1>5. TypeOK /\ announced <= rounds /\ GuardKeepsOneSummary => AnnouncedOnce
  BY DEF AnnouncedOnce
<1> QED
  BY <1>4, <1>5, NoRoundTwice, PTL
============================================================================
