------------------------- MODULE EventBriefs_proofs -------------------------
(***************************************************************************)
(* Proofs about the pre-meeting briefs: that a pending brief is owed a     *)
(* verdict and that a ready one is no older than its hash, for any number  *)
(* of events, templates, jobs, workers and overlapping passes.             *)
(*                                                                         *)
(* The invariant is built in three layers.  Shape types the state and says *)
(* what a pass has read: rows that were stored, versions that were there.  *)
(* Ledger follows the identity of a brief: its id is never given to        *)
(* another pair, so a job, or the job a worker still holds, speaks of one  *)
(* pair only and of a generation that is not ahead of the brief's.         *)
(* Fresh follows the versions.                                             *)
(***************************************************************************)
EXTENDS EventBriefs, TLAPS

Hashes == Nat \X Nat \X Nat
RowRec == [row: Nat, version: Nat, start: Nat]
Afters == {0} \cup {Max(S) : S \in (SUBSET Events) \ {{}}}
BriefRec == [id: Nat, gen: Nat, hash: Hashes, status: {"none", "pending", "ready", "failed"},
             content: Hashes]
JobRec == [status: {"absent", "pending", "running", "failed"}, pair: Pairs \cup {<<0, 0>>},
           row: Nat, brief: Nat, gen: Nat, attempts: Nat]
PassRec == [phase: {"none", "agent", "window", "page", "clean", "pairs", "done"}, now: Nat,
            eligible: SUBSET Templates, tmpl: SUBSET (Templates \X Nat), agent: Nat,
            after: Afters, batch: SUBSET (Events \X RowRec), todo: SUBSET Pairs]
Pcs == {"idle", "event", "pair", "cleanup", "generate", "complete", "fail", "terminal"}
WorkRec == [pc: Pcs, job: Jobs \cup {0}, held: JobRec, event: RowRec, content: Hashes, retryable: BOOLEAN]
SyncRec == [phase: {"idle", "fetching", "fetched", "upserted", "pruned"}, selected: BOOLEAN,
            got: SUBSET Fetched]

CalTypes ==
    /\ clock \in 0..MaxClock
    /\ upstream \in [Events -> [there: BOOLEAN, version: Versions, start: Times]]
    /\ source \in [kind: Kinds, state: {"none", "live", "deleted"}, selected: BOOLEAN,
                   status: {"never", "ok", "error", "auth_error"}]
    /\ event \in [Events -> RowRec]
    /\ rows \in [Events -> Nat]
    /\ sync \in [Syncers -> SyncRec]

TableTypes ==
    /\ template \in [Templates -> [state: {"on", "off", "gone"}, version: Nat]]
    /\ agent \in [there: BOOLEAN, version: Nat]
    /\ overlap \in BOOLEAN
    /\ bounds \in [changes: Nat, crashes: Nat, admin: Nat, ids: Nat]

Types ==
    /\ CalTypes
    /\ TableTypes
    /\ brief \in [Pairs -> BriefRec]
    /\ job \in [Jobs -> JobRec]
    /\ pass \in [Syncers -> PassRec]
    /\ worker \in [Workers -> WorkRec]

\* A stored event has the newest row of its external id.
EventOK(e) == event[e] = NoRow \/ (event[e].row = rows[e] /\ rows[e] >= 1)

\* Every edit of a template is counted.
TemplateOK(t) == template[t].version >= 1 /\ template[t].version <= bounds.changes + 1

\* What a pass has read: one stored row for each event of its page, every pair
\* to do of such an event, and a version of each template.
PassRight(r) ==
    /\ \A b \in r.batch : b[2].row >= 1 /\ b[2].row <= rows[b[1]]
    /\ \A b, c \in r.batch : b[1] = c[1] => b = c
    /\ \A q \in r.todo : \E b \in r.batch : b[1] = q[1]
    /\ r.phase # "none" => \A t \in Templates : \E v \in 1..MaxChanges + 1 : <<t, v>> \in r.tmpl
PassOK(s) == PassRight(pass[s])

Shape ==
    /\ Types
    /\ \A e \in Events : EventOK(e)
    /\ bounds.changes <= MaxChanges
    /\ \A t \in Templates : TemplateOK(t)
    /\ \A s \in Syncers : PassOK(s)

-----------------------------------------------------------------------------

\* A brief has an id that was given out, and an event.
BriefOK(p) ==
    brief[p] # NoBrief =>
        /\ brief[p].id >= 1 /\ brief[p].id <= bounds.ids
        /\ event[p[1]] # NoRow

\* What a job row, or a worker's copy of one, says about the briefs: the id in
\* it was given out, and whoever has it now is the job's pair, at the job's
\* generation or a later one, on the event row the job was made for.
Ticket(k) ==
    /\ k.pair \in Pairs
    /\ k.brief >= 1 /\ k.brief <= bounds.ids
    /\ \A p \in Pairs : brief[p].id = k.brief =>
          p = k.pair /\ k.gen <= brief[p].gen /\ event[p[1]].row = k.row

\* No brief has the id any more.
Gone(id) == \A p \in Pairs : brief[p].id # id

\* A worker that has not failed its job either has the running row, or the row
\* went with the brief; and what it is about to complete is settled.
WorkerOK(w) ==
    /\ worker[w].job \in Jobs
    /\ Ticket(Held(w))
    /\ worker[w].pc # "terminal" =>
          \/ Row(w) = Held(w) /\ Held(w).status = "running"
          \/ Row(w) = NoJob /\ Gone(Held(w).brief)
    /\ worker[w].pc = "terminal" => ~Active(worker[w].job)
    /\ worker[w].pc = "complete" /\ Current(w) => brief[Held(w).pair].status # "pending"

\* A verdict is on its way, or was dropped.
Owed(p) ==
    \/ \E j \in Jobs : Active(j) /\ job[j].brief = brief[p].id /\ job[j].gen = brief[p].gen
    \/ \E w \in Workers : worker[w].pc = "terminal" /\ Held(w).brief = brief[p].id
                                                    /\ Held(w).gen = brief[p].gen
    \/ <<brief[p].id, brief[p].gen>> \in dropped

Ledger ==
    /\ \A p \in Pairs : BriefOK(p)
    /\ \A p, q \in Pairs : brief[p] # NoBrief /\ brief[p].id = brief[q].id => p = q
    /\ \A j \in Jobs : job[j] # NoJob => Ticket(job[j])
    /\ \A w \in Workers : worker[w].pc # "idle" => WorkerOK(w)
    /\ \A u, w \in Workers : worker[u].pc # "idle" /\ worker[w].pc # "idle" /\ u # w
                                => worker[u].job # worker[w].job
    /\ \A p \in Pairs : brief[p].status = "pending" => Owed(p)

-----------------------------------------------------------------------------

AtLeast(c, h) == c[1] >= h[1] /\ c[2] >= h[2] /\ c[3] >= h[3]

\* A hash was computed from versions that were there.
HashOK(p) ==
    brief[p] # NoBrief =>
        /\ brief[p].hash[2] <= template[p[2]].version
        /\ brief[p].hash[3] <= agent.version
        /\ ~overlap => brief[p].hash[1] <= event[p[1]].version
        /\ brief[p].status = "ready" /\ ~overlap => AtLeast(brief[p].content, brief[p].hash)

PassFresh(s) ==
    /\ \A x \in pass[s].tmpl : x[2] <= template[x[1]].version
    /\ pass[s].agent <= agent.version
    /\ \A b \in pass[s].batch : event[b[1]].row = b[2].row /\ ~overlap =>
          b[2].version <= event[b[1]].version

WorkerFresh(w) ==
    /\ worker[w].pc = "pair" /\ Current(w) /\ ~overlap =>
          worker[w].event.version >= brief[Held(w).pair].hash[1]
    /\ worker[w].pc = "generate" /\ Current(w) /\ ~overlap =>
          AtLeast(worker[w].content, brief[Held(w).pair].hash)

Fresh ==
    /\ \A p \in Pairs : HashOK(p)
    /\ \A s \in Syncers : PassFresh(s)
    /\ \A w \in Workers : WorkerFresh(w)

Inv == Shape /\ Ledger /\ Fresh

-----------------------------------------------------------------------------
(* Shape.                                                                  *)

\* The empty records have their types.
LEMMA Empties ==
    /\ NoRow \in RowRec /\ NoHash \in Hashes /\ NoBrief \in BriefRec /\ NoJob \in JobRec
    /\ NoPass \in PassRec /\ Idle \in WorkRec /\ NoSync \in SyncRec
<1>1. NoRow \in RowRec  BY DEF NoRow, RowRec
<1>2. NoHash \in Hashes  BY DEF NoHash, Hashes
<1>3. NoBrief \in BriefRec  BY <1>2 DEF NoBrief, BriefRec
<1>4. NoJob \in JobRec  BY DEF NoJob, JobRec
<1>5. NoPass \in PassRec  BY DEF NoPass, PassRec, Afters
<1>6. Idle \in WorkRec  BY <1>1, <1>2, <1>4 DEF Idle, WorkRec, Pcs
<1>7. NoSync \in SyncRec  BY DEF NoSync, SyncRec
<1> QED  BY <1>1, <1>2, <1>3, <1>4, <1>5, <1>6, <1>7

\* Init: nothing is stored yet.
LEMMA ShapeInit == Init => Shape
<1> SUFFICES ASSUME Init PROVE Shape  OBVIOUS
<1> USE ConstantsAssumption
<1>1. CalTypes
  <2>1. {1, 2} \subseteq Times /\ {1} \subseteq Versions  BY DEF Times, Versions
  <2>2. upstream \in [Events -> [there: BOOLEAN, version: Versions, start: Times]]
    BY <2>1 DEF Init, CalInit
  <2>3. source \in [kind: Kinds, state: {"none", "live", "deleted"}, selected: BOOLEAN,
                    status: {"never", "ok", "error", "auth_error"}]
    BY DEF Init, CalInit
  <2> QED  BY <2>2, <2>3, Empties DEF Init, CalInit, CalTypes
<1>2. TableTypes
  <2>1. template \in [Templates -> [state: {"on", "off", "gone"}, version: Nat]]  BY DEF Init
  <2>2. bounds \in [changes: Nat, crashes: Nat, admin: Nat, ids: Nat]  BY DEF Init
  <2>3. agent \in [there: BOOLEAN, version: Nat]  BY DEF Init
  <2> QED  BY <2>1, <2>2, <2>3 DEF Init, TableTypes
<1>3. Types  BY <1>1, <1>2, Empties DEF Init, Types
<1>4. \A e \in Events : EventOK(e)  BY DEF Init, CalInit, EventOK
<1>5. bounds.changes <= MaxChanges /\ \A t \in Templates : TemplateOK(t)
  BY DEF Init, TemplateOK
<1>6. \A s \in Syncers : PassOK(s)  BY DEF Init, PassOK, PassRight, NoPass
<1> QED  BY <1>3, <1>4, <1>5, <1>6 DEF Shape

\* What the providers answer is a list of events as they are upstream.
LEMMA FetchType ==
    ASSUME CalTypes, NEW selected PROVE Fetch(selected) \subseteq Fetched
<1>1. \A S \in SUBSET Events : Listing(S) \subseteq Fetched
  BY DEF Listing, Fetched, CalTypes
<1>2. source.kind \in Kinds  BY DEF CalTypes
<1> QED  BY <1>1, <1>2 DEF Fetch, Kinds, FetchICS, FetchCalDAV, FetchGoogle, FetchMicrosoft, Window

\* A step that leaves the rows and the passes alone keeps what is known of them.
LEMMA ShapeRest ==
    ASSUME Shape, Types',
           UNCHANGED <<event, rows, template, pass>>, bounds'.changes = bounds.changes
    PROVE Shape'
<1>1. \A e \in Events : EventOK(e)'  BY DEF Shape, EventOK
<1>2. bounds'.changes <= MaxChanges /\ \A t \in Templates : TemplateOK(t)'  BY DEF Shape, TemplateOK
<1>3. \A s \in Syncers : PassOK(s)'  BY DEF Shape, PassOK, PassRight
<1> QED  BY <1>1, <1>2, <1>3 DEF Shape

\* The calendar's steps that store nothing.
LEMMA ShapeCalm ==
    ASSUME Shape, UNCHANGED <<event, rows, briefVars>>, CalTypes' PROVE Shape'
<1>1. Types'  BY DEF Shape, Types, TableTypes, briefVars
<1> QED  BY <1>1, ShapeRest DEF briefVars

\* A pass that moves or ends keeps its type.
LEMMA MoveType ==
    ASSUME CalTypes, NEW s \in Syncers,
           \/ End(s)
           \/ \E phase \in {"idle", "fetching", "fetched", "upserted", "pruned"} : Move(s, phase)
    PROVE sync' \in [Syncers -> SyncRec]
BY Empties DEF CalTypes, End, Move, SyncRec

\* Status and selection of the source.
LEMMA SourceType ==
    ASSUME CalTypes,
           \/ source' = source
           \/ \E st \in {"none", "live", "deleted"} : source' = [source EXCEPT !.state = st]
           \/ \E st \in {"never", "ok", "error", "auth_error"} : source' = [source EXCEPT !.status = st]
           \/ source' = [source EXCEPT !.selected = ~@]
    PROVE source' \in [kind: Kinds, state: {"none", "live", "deleted"}, selected: BOOLEAN,
                       status: {"never", "ok", "error", "auth_error"}]
BY DEF CalTypes

\* The calendar's steps that store nothing keep its types.
LEMMA CalmStep ==
    ASSUME CalTypes,
           \/ Tick \/ ClearNoteEvent \/ SetSelectedCalendars
           \/ \E e \in Events : UpstreamEdit(e) \/ SetNoteEvent(e)
           \/ \E s \in Syncers : CreateSource(s) \/ KickCalendarSync(s) \/ SyncAllSourcesOnce(s)
                                 \/ FetchEvents(s) \/ FetchFails(s)
    PROVE CalTypes' /\ UNCHANGED <<event, rows>>
<1> USE ConstantsAssumption
<1>1. CASE Tick
  BY <1>1 DEF CalTypes, Tick
<1>2. CASE ClearNoteEvent
  BY <1>2 DEF CalTypes, ClearNoteEvent
<1>3. CASE SetSelectedCalendars
  BY <1>3, SourceType DEF CalTypes, SetSelectedCalendars
<1>4. ASSUME NEW e \in Events, UpstreamEdit(e) PROVE CalTypes' /\ UNCHANGED <<event, rows>>
  <2>1. PICK there \in BOOLEAN, start \in Times :
          upstream' = [upstream EXCEPT ![e] = [there |-> there, start |-> start,
                                               version |-> @.version + 1]]
    BY <1>4 DEF UpstreamEdit
  <2>2. upstream[e].version + 1 \in Versions  BY <1>4 DEF UpstreamEdit, CalTypes, Versions
  <2>3. upstream' \in [Events -> [there: BOOLEAN, version: Versions, start: Times]]
    BY <2>1, <2>2 DEF CalTypes
  <2> QED  BY <1>4, <2>3 DEF UpstreamEdit, CalTypes
<1>5. ASSUME NEW e \in Events, SetNoteEvent(e) PROVE CalTypes' /\ UNCHANGED <<event, rows>>
  BY <1>5 DEF CalTypes, SetNoteEvent
<1>6. ASSUME NEW s \in Syncers, SyncSource(s) PROVE CalTypes' /\ UNCHANGED <<event, rows>>
  <2>1. sync' \in [Syncers -> SyncRec]  BY <1>6, Empties DEF CalTypes, SyncSource, SyncRec
  <2> QED  BY <1>6, <2>1 DEF SyncSource, CalTypes
<1>7. ASSUME NEW s \in Syncers, CreateSource(s) PROVE CalTypes' /\ UNCHANGED <<event, rows>>
  <2>1. sync' \in [Syncers -> SyncRec]  BY <1>7, Empties DEF CalTypes, CreateSource, SyncRec
  <2> QED  BY <1>7, <2>1, SourceType DEF CreateSource, CalTypes
<1>8. ASSUME NEW s \in Syncers, FetchEvents(s) PROVE CalTypes' /\ UNCHANGED <<event, rows>>
  <2>1. Fetch(sync[s].selected) \subseteq Fetched  BY FetchType
  <2>2. sync' \in [Syncers -> SyncRec]
    BY <1>8, <2>1 DEF CalTypes, FetchEvents, SyncRec
  <2> QED  BY <1>8, <2>2 DEF FetchEvents, CalTypes
<1>9. ASSUME NEW s \in Syncers, FetchFails(s) PROVE CalTypes' /\ UNCHANGED <<event, rows>>
  <2>1. sync' \in [Syncers -> SyncRec]  BY <1>9, MoveType DEF FetchFails
  <2> QED  BY <1>9, <2>1, SourceType DEF FetchFails, CalTypes
<1> QED  BY <1>1, <1>2, <1>3, <1>4, <1>5, <1>6, <1>7, <1>8, <1>9 DEF KickCalendarSync, SyncAllSourcesOnce

\* Rows that go leave the others as they are.
LEMMA DropShape ==
    ASSUME Shape, NEW S, Drop(S), UNCHANGED rows
    PROVE /\ event' \in [Events -> RowRec]
          /\ \A e \in Events : EventOK(e)'
          /\ \A e \in Events : event'[e] = NoRow \/ event'[e] = event[e]
<1>1. event' = [e \in Events |-> IF e \in S THEN NoRow ELSE event[e]]  BY DEF Drop
<1>2. event \in [Events -> RowRec]  BY DEF Shape, Types, CalTypes
<1>3. event' \in [Events -> RowRec]  BY <1>1, <1>2, Empties
<1> QED  BY <1>1, <1>3 DEF Shape, EventOK

\* An upsert gives a new row to what was not stored, and keeps the row of what was.
LEMMA UpsertShape ==
    ASSUME Shape, NEW s \in Syncers, UpsertEvents(s)
    PROVE /\ CalTypes'
          /\ \A e \in Events : EventOK(e)'
          /\ \A e \in Events : rows'[e] >= rows[e]
          /\ \A e \in Events : event[e] # NoRow => event'[e] # NoRow /\ event'[e].row = event[e].row
          /\ \A e \in Events : event[e] = NoRow => event'[e] = NoRow \/ event'[e].row > rows[e]
<1> USE ConstantsAssumption
<1>0. CalTypes  BY DEF Shape, Types
<1>1. CASE source.state = "deleted" /\ End(s) /\ UNCHANGED <<rows, event>>
  <2>1. sync' \in [Syncers -> SyncRec]  BY <1>0, <1>1, MoveType
  <2>2. CalTypes'  BY <1>0, <1>1, <2>1 DEF UpsertEvents, CalTypes
  <2>3. \A e \in Events : rows[e] \in Nat  BY <1>0 DEF CalTypes
  <2> QED  BY <1>1, <2>2, <2>3 DEF Shape, EventOK
<1>2. CASE source.state # "deleted"
  <2> DEFINE got == sync[s].got
             Of(e) == CHOOSE g \in got : g.event = e
             here == {g.event : g \in got}
  <2>1. /\ rows' = [e \in Events |-> IF e \in here /\ ~Stored(e) THEN rows[e] + 1 ELSE rows[e]]
        /\ event' = [e \in Events |->
                       IF e \in here THEN [row |-> rows'[e], version |-> Of(e).version, start |-> Of(e).start]
                       ELSE event[e]]
        /\ Move(s, "upserted") /\ UNCHANGED <<clock, upstream, source, link, used>>
    BY <1>2 DEF UpsertEvents
  <2>2. sync' \in [Syncers -> SyncRec]  BY <1>0, <2>1, MoveType
  <2>3. \A e \in here : Of(e).version \in Nat /\ Of(e).start \in Nat
    <3>1. got \subseteq Fetched  BY <1>0 DEF CalTypes, SyncRec
    <3>2. \A e \in here : Of(e) \in Fetched  BY <3>1
    <3>3. \A g \in Fetched : g.version \in Nat /\ g.start \in Nat  BY DEF Fetched, Versions, Times
    <3> QED  BY <3>2, <3>3
  <2>4. rows \in [Events -> Nat] /\ rows' \in [Events -> Nat]  BY <1>0, <2>1 DEF CalTypes
  <2> HIDE DEF Of, here
  <2>5. \A e \in Events : event'[e] \in RowRec
    <3> SUFFICES ASSUME NEW e \in Events PROVE event'[e] \in RowRec  OBVIOUS
    <3>1. event[e] \in RowRec  BY <1>0 DEF CalTypes
    <3>2. rows'[e] \in Nat  BY <2>4
    <3>3. CASE e \in here
      <4>1. event'[e] = [row |-> rows'[e], version |-> Of(e).version, start |-> Of(e).start]
        BY <2>1, <3>3
      <4> QED  BY <2>3, <3>2, <3>3, <4>1 DEF RowRec
    <3>4. CASE e \notin here
      <4>1. event'[e] = event[e]  BY <2>1, <3>4
      <4> QED  BY <3>1, <4>1
    <3> QED  BY <3>3, <3>4
  <2>6. CalTypes'
    <3>1. event' \in [Events -> RowRec]  BY <2>1, <2>5
    <3> QED  BY <1>0, <2>1, <2>2, <2>4, <3>1 DEF CalTypes
  <2>7. ASSUME NEW e \in Events
        PROVE /\ EventOK(e)' /\ rows'[e] >= rows[e]
              /\ event[e] # NoRow => event'[e] # NoRow /\ event'[e].row = event[e].row
              /\ event[e] = NoRow => event'[e] = NoRow \/ event'[e].row > rows[e]
    <3>1. EventOK(e) /\ rows[e] \in Nat  BY <2>4 DEF Shape
    <3>2. CASE e \notin here
      BY <2>1, <3>1, <3>2 DEF EventOK, Stored
    <3>3. CASE e \in here /\ Stored(e)
      <4>1. rows'[e] = rows[e] /\ rows[e] >= 1 /\ event[e].row = rows[e]
        BY <2>1, <3>1, <3>3 DEF EventOK, Stored
      <4>2. event'[e].row = rows'[e]  BY <2>1, <3>3
      <4>3. event'[e] # NoRow  BY <4>1, <4>2 DEF NoRow
      <4> QED  BY <3>1, <3>3, <4>1, <4>2, <4>3 DEF EventOK, Stored
    <3>4. CASE e \in here /\ ~Stored(e)
      <4>1. rows'[e] = rows[e] + 1  BY <2>1, <3>4
      <4>2. event'[e].row = rows'[e]  BY <2>1, <3>4
      <4> QED  BY <3>1, <3>4, <4>1, <4>2 DEF EventOK, Stored
    <3> QED  BY <3>2, <3>3, <3>4
  <2> QED  BY <2>6, <2>7
<1> QED  BY <1>1, <1>2 DEF UpsertEvents

\* Passes stay right when rows are only added.
LEMMA PassKept ==
    ASSUME Shape, pass' = pass, rows' \in [Events -> Nat], \A e \in Events : rows'[e] >= rows[e]
    PROVE \A s \in Syncers : PassOK(s)'
<1> SUFFICES ASSUME NEW s \in Syncers PROVE PassOK(s)'  OBVIOUS
<1>1. PassOK(s)  BY DEF Shape
<1>2. pass[s] \in PassRec  BY DEF Shape, Types
<1>3. rows \in [Events -> Nat]  BY DEF Shape, Types, CalTypes
<1>4. ASSUME NEW b \in pass[s].batch PROVE b[2].row >= 1 /\ b[2].row <= rows'[b[1]]
  <2>1. b[1] \in Events /\ b[2].row \in Nat  BY <1>2 DEF PassRec, RowRec
  <2>2. b[2].row >= 1 /\ b[2].row <= rows[b[1]]  BY <1>1 DEF PassOK, PassRight
  <2> QED  BY <1>3, <2>1, <2>2
<1> QED  BY <1>1, <1>4 DEF PassOK, PassRight

\* One pass moves on.
LEMMA PassStep ==
    ASSUME Shape, NEW s \in Syncers, NEW r \in PassRec, PassRight(r),
           pass' = [pass EXCEPT ![s] = r], rows' = rows
    PROVE pass' \in [Syncers -> PassRec] /\ \A u \in Syncers : PassOK(u)'
<1>1. pass \in [Syncers -> PassRec]  BY DEF Shape, Types
<1>2. \A u \in Syncers : pass'[u] = r \/ pass'[u] = pass[u]  BY <1>1
<1>3. pass' \in [Syncers -> PassRec]  BY <1>1
<1>4. \A u \in Syncers : PassRight(pass'[u])  BY <1>2 DEF Shape, PassOK
<1>5. \A u \in Syncers : PassRight(pass'[u]) <=> PassOK(u)'  BY DEF PassOK, PassRight
<1> QED  BY <1>3, <1>4, <1>5

\* Briefs deleted with their jobs keep the tables' types.
LEMMA DeleteTypes ==
    ASSUME Types, NEW S, DeleteBriefs(S)
    PROVE brief' \in [Pairs -> BriefRec] /\ job' \in [Jobs -> JobRec]
<1>1. brief \in [Pairs -> BriefRec] /\ job \in [Jobs -> JobRec]  BY DEF Types
<1> QED  BY <1>1, Empties DEF DeleteBriefs

\* So does the cascade.
LEMMA CascadeTypes ==
    ASSUME Types, CascadeEvents
    PROVE brief' \in [Pairs -> BriefRec] /\ job' \in [Jobs -> JobRec]
<1>1. brief \in [Pairs -> BriefRec] /\ job \in [Jobs -> JobRec]  BY DEF Types
<1> QED  BY <1>1, Empties DEF CascadeEvents

\* A new job takes a free row.
LEMMA Enqueued ==
    ASSUME Types, NEW p \in Pairs, NEW id \in Nat, NEW gen \in Nat, MayEnqueue(id, gen),
           EnqueuePreGenerateJob(p, id, gen)
    PROVE /\ \E j \in FreeJobs :
                job' = [job EXCEPT ![j] = [status |-> "pending", pair |-> p, row |-> event[p[1]].row,
                                           brief |-> id, gen |-> gen, attempts |-> 0]]
          /\ job' \in [Jobs -> JobRec]
<1> DEFINE k == [status |-> "pending", pair |-> p, row |-> event[p[1]].row,
                 brief |-> id, gen |-> gen, attempts |-> 0]
<1>1. k \in JobRec
  <2>1. p[1] \in Events  BY DEF Pairs
  <2>2. event[p[1]] \in RowRec  BY <2>1 DEF Types, CalTypes
  <2> QED  BY <2>2 DEF JobRec, RowRec
<1>2. PICK j \in FreeJobs : job' = [job EXCEPT ![j] = k]
  BY DEF MayEnqueue, EnqueuePreGenerateJob
<1>3. job \in [Jobs -> JobRec]  BY DEF Types
<1> HIDE DEF k
<1>4. job' \in [Jobs -> JobRec]  BY <1>1, <1>2, <1>3
<1> QED  BY <1>2, <1>4 DEF k

\* The calendar's steps: Shape is kept.
LEMMA ShapeCalendar ==
    ASSUME Shape, CalendarStep \/ \E s \in Syncers : StartCalendarScheduler(s) \/ SyncStep(s) \/ FetchFault(s)
    PROVE Shape'
<1>0. Types /\ CalTypes  BY DEF Shape, Types
<1>1. ASSUME Calm,
             \/ Tick \/ ClearNoteEvent \/ SetSelectedCalendars
             \/ \E e \in Events : UpstreamEdit(e) \/ SetNoteEvent(e)
             \/ \E s \in Syncers : CreateSource(s) \/ KickCalendarSync(s) \/ SyncAllSourcesOnce(s)
                                   \/ FetchEvents(s) \/ FetchFails(s)
      PROVE Shape'
  <2>1. CalTypes' /\ UNCHANGED <<event, rows>>  BY <1>0, <1>1, CalmStep
  <2> QED  BY <1>1, <2>1, ShapeCalm DEF Calm
<1>2. ASSUME NEW S, Drop(S), CascadeEvents,
             UNCHANGED <<clock, upstream, rows, template, agent, pass, worker, dropped, overlap, bounds>>,
             sync' \in [Syncers -> SyncRec],
             source' \in [kind: Kinds, state: {"none", "live", "deleted"}, selected: BOOLEAN,
                          status: {"never", "ok", "error", "auth_error"}]
      PROVE Shape'
  <2>1. /\ event' \in [Events -> RowRec]
        /\ \A e \in Events : EventOK(e)'
    BY <1>2, DropShape
  <2>2. brief' \in [Pairs -> BriefRec] /\ job' \in [Jobs -> JobRec]  BY <1>0, <1>2, CascadeTypes
  <2>3. Types'
    <3>1. CalTypes'  BY <1>0, <1>2, <2>1 DEF CalTypes
    <3>2. TableTypes'  BY <1>0, <1>2 DEF Types, TableTypes
    <3> QED  BY <1>0, <1>2, <2>2, <3>1, <3>2 DEF Types
  <2>4. \A s \in Syncers : PassOK(s)'  BY <1>2 DEF Shape, PassOK, PassRight
  <2>5. bounds'.changes <= MaxChanges /\ \A t \in Templates : TemplateOK(t)'
    BY <1>2 DEF Shape, TemplateOK
  <2> QED  BY <2>1, <2>3, <2>4, <2>5 DEF Shape
<1>3. CASE HandleDeleteCalendarSource
  <2>1. Drop(Events) /\ CascadeEvents  BY <1>3 DEF HandleDeleteCalendarSource, DeleteSource
  <2>2. UNCHANGED <<clock, upstream, rows, sync, template, agent, pass, worker, dropped, overlap, bounds>>
    BY <1>3 DEF HandleDeleteCalendarSource, DeleteSource
  <2>3. source' \in [kind: Kinds, state: {"none", "live", "deleted"}, selected: BOOLEAN,
                     status: {"never", "ok", "error", "auth_error"}]
    BY <1>0, <1>3, SourceType DEF HandleDeleteCalendarSource, DeleteSource
  <2>4. sync' \in [Syncers -> SyncRec]  BY <1>0, <2>2 DEF CalTypes
  <2> QED  BY <1>2, <2>1, <2>2, <2>3, <2>4
<1>4. ASSUME NEW s \in Syncers, PruneEvents(s), CascadeEvents,
             UNCHANGED <<template, agent, pass, worker, dropped, overlap, bounds>>
      PROVE Shape'
  <2>1. PICK S : Drop(S)  BY <1>4 DEF PruneEvents
  <2>2. UNCHANGED <<clock, upstream, rows, source>>  BY <1>4 DEF PruneEvents
  <2>3. sync' \in [Syncers -> SyncRec]  BY <1>0, <1>4, MoveType DEF PruneEvents
  <2>4. source' \in [kind: Kinds, state: {"none", "live", "deleted"}, selected: BOOLEAN,
                     status: {"never", "ok", "error", "auth_error"}]
    BY <1>0, <2>2 DEF CalTypes
  <2> QED  BY <1>2, <1>4, <2>1, <2>2, <2>3, <2>4
<1>5. ASSUME NEW s \in Syncers, UpsertEvents(s),
             overlap' = (overlap \/ \E e \in Events : Stored(e) /\ event'[e].version < event[e].version),
             UNCHANGED <<template, agent, brief, job, pass, worker, dropped, bounds>>
      PROVE Shape'
  <2>1. /\ CalTypes'
        /\ \A e \in Events : EventOK(e)'
        /\ \A e \in Events : rows'[e] >= rows[e]
    BY <1>5, UpsertShape
  <2>2. rows' \in [Events -> Nat]  BY <2>1 DEF CalTypes
  <2>3. \A u \in Syncers : PassOK(u)'  BY <1>5, <2>1, <2>2, PassKept
  <2>4. overlap' \in BOOLEAN  BY <1>0, <1>5 DEF Types, TableTypes
  <2>5. Types'  BY <1>0, <1>5, <2>1, <2>4 DEF Types, TableTypes
  <2>6. bounds'.changes <= MaxChanges /\ \A t \in Templates : TemplateOK(t)'
    BY <1>5 DEF Shape, TemplateOK
  <2> QED  BY <2>1, <2>3, <2>5, <2>6 DEF Shape
<1>6. CASE CalendarStep
  BY <1>1, <1>3, <1>6 DEF CalendarStep, HandleSetNoteEvent, HandleClearNoteEvent,
       HandleSelectCalendarSource, HandleCreateCalendarSource, HandleRefreshCalendar
<1>7. ASSUME NEW s \in Syncers, StartCalendarScheduler(s) \/ SyncStep(s) \/ FetchFault(s) PROVE Shape'
  <2>1. CASE StartCalendarScheduler(s)  BY <1>1, <2>1 DEF StartCalendarScheduler
  <2>2. CASE FetchFault(s)  BY <1>1, <2>2 DEF FetchFault
  <2>3. CASE SyncStep(s)  BY <1>1, <1>4, <1>5, <2>3 DEF SyncStep
  <2> QED  BY <1>7, <2>1, <2>2, <2>3
<1> QED  BY <1>6, <1>7

\* The empty pass is right.
LEMMA NoPassRight == NoPass \in PassRec /\ PassRight(NoPass)
BY Empties DEF NoPass, PassRight

\* A step of the reconciliation that only moves its pass: Shape is kept.
LEMMA ShapePass ==
    ASSUME Shape, NEW s \in Syncers, NEW r \in PassRec, PassRight(r),
           pass' = [pass EXCEPT ![s] = r], UNCHANGED <<event, rows, template, overlap, agent, worker>>,
           CalTypes', brief' \in [Pairs -> BriefRec], job' \in [Jobs -> JobRec],
           bounds' \in [changes: Nat, crashes: Nat, admin: Nat, ids: Nat],
           bounds'.changes = bounds.changes
    PROVE Shape'
<1>1. pass' \in [Syncers -> PassRec] /\ \A u \in Syncers : PassOK(u)'  BY PassStep
<1>2. Types'  BY <1>1 DEF Shape, Types, TableTypes
<1>3. \A e \in Events : EventOK(e)'  BY DEF Shape, EventOK
<1>4. bounds'.changes <= MaxChanges /\ \A t \in Templates : TemplateOK(t)'
  BY DEF Shape, TemplateOK
<1> QED  BY <1>1, <1>2, <1>3, <1>4 DEF Shape

\* What the reconciliation of a pair computes from what its pass has read.
LEMMA HashKnown ==
    ASSUME Shape, NEW s \in Syncers, pass[s].phase = "pairs", NEW p \in pass[s].todo
    PROVE /\ p \in Pairs
          /\ \E b \in pass[s].batch : b[1] = p[1] /\ Batched(s, p[1]) = b[2]
          /\ ComputePreBriefHash(s, p) \in Hashes
          /\ \/ ComputePreBriefHash(s, p) = NoHash
             \/ /\ ComputePreBriefHash(s, p)[1] = Batched(s, p[1]).version
                /\ <<p[2], ComputePreBriefHash(s, p)[2]>> \in pass[s].tmpl
                /\ ComputePreBriefHash(s, p)[3] = pass[s].agent
<1> USE ConstantsAssumption
<1> DEFINE tv == CHOOSE v \in 1..MaxChanges + 1 : <<p[2], v>> \in pass[s].tmpl
<1>1. pass[s] \in PassRec /\ PassRight(pass[s])  BY DEF Shape, Types, PassOK
<1>2. p \in Pairs /\ p[1] \in Events /\ p[2] \in Templates  BY <1>1 DEF PassRec, Pairs
<1>3. PICK b \in pass[s].batch : b[1] = p[1]  BY <1>1 DEF PassRight
<1>4. (CHOOSE c \in pass[s].batch : c[1] = p[1]) \in pass[s].batch
      /\ (CHOOSE c \in pass[s].batch : c[1] = p[1])[1] = p[1]
  BY <1>3
<1>5. (CHOOSE c \in pass[s].batch : c[1] = p[1]) = b  BY <1>1, <1>3, <1>4 DEF PassRight
<1>6. Batched(s, p[1]) = b[2]  BY <1>5 DEF Batched
<1>7. b[2].version \in Nat /\ pass[s].agent \in Nat  BY <1>1 DEF PassRec, RowRec
<1>8. \E v \in 1..MaxChanges + 1 : <<p[2], v>> \in pass[s].tmpl  BY <1>1, <1>2 DEF PassRight
<1>9. tv \in Nat /\ <<p[2], tv>> \in pass[s].tmpl
  <2>1. tv \in 1..MaxChanges + 1 /\ <<p[2], tv>> \in pass[s].tmpl  BY <1>8
  <2> QED  BY <2>1
<1>10. ComputePreBriefHash(s, p) = IF pass[s].agent = 0 THEN NoHash
                                   ELSE <<Batched(s, p[1]).version, tv, pass[s].agent>>
  BY DEF ComputePreBriefHash
<1> HIDE DEF tv
<1>11. <<Batched(s, p[1]).version, tv, pass[s].agent>> \in Hashes  BY <1>6, <1>7, <1>9 DEF Hashes
<1> QED  BY <1>2, <1>3, <1>6, <1>9, <1>10, <1>11, Empties

\* A pair gets a new generation with the given hash and id.
NewGeneration(p, hash, id) ==
    /\ brief' = [brief EXCEPT ![p] = [id |-> id, gen |-> brief[p].gen + 1, hash |-> hash,
                                      content |-> NoHash,
                                      status |-> IF hash = NoHash THEN "failed" ELSE "pending"]]
    /\ bounds' = [bounds EXCEPT !.ids = IF brief[p] = NoBrief THEN @ + 1 ELSE @]
    /\ \/ hash = NoHash /\ UNCHANGED job
       \/ /\ hash # NoHash /\ MayEnqueue(id, brief[p].gen + 1)
          /\ EnqueuePreGenerateJob(p, id, brief[p].gen + 1)

\* What the reconciliation of a pair may do.
PairFails(s) ==
    /\ SyncFails(s) /\ pass' = [pass EXCEPT ![s] = NoPass]
    /\ UNCHANGED <<brief, job, bounds>>
PairIsSame(s, p) ==
    /\ pass' = [pass EXCEPT ![s].todo = @ \ {p}]
    /\ UNCHANGED <<calVars, brief, job, bounds>>
PairIsNew(s, p) ==
    /\ event[p[1]].row = Batched(s, p[1]).row
    /\ pass' = [pass EXCEPT ![s].todo = @ \ {p}]
    /\ NewGeneration(p, ComputePreBriefHash(s, p), IF brief[p] = NoBrief THEN bounds.ids + 1 ELSE brief[p].id)
    /\ UNCHANGED calVars

\* ReconcileEventBriefPair does one of the three for a pair it has to do.
LEMMA PairCases ==
    ASSUME NEW s \in Syncers, ReconcileEventBriefPair(s)
    PROVE /\ pass[s].phase = "pairs" /\ UNCHANGED <<template, agent, worker, dropped, overlap>>
          /\ \E p \in pass[s].todo : PairFails(s) \/ PairIsSame(s, p) \/ PairIsNew(s, p)
<1>1. PICK p \in pass[s].todo : ReconcilePair(s, p)  BY DEF ReconcileEventBriefPair
<1>2. PairFails(s) \/ PairIsSame(s, p) \/ PairIsNew(s, p)
  BY <1>1 DEF ReconcilePair, PairFails, PairIsSame, PairIsNew, NewGeneration
<1> QED  BY <1>1, <1>2 DEF ReconcileEventBriefPair

\* A new generation keeps the tables' types.
LEMMA NewGenerationTypes ==
    ASSUME Types, NEW p \in Pairs, NEW hash \in Hashes, NEW id \in Nat, NewGeneration(p, hash, id)
    PROVE /\ brief' \in [Pairs -> BriefRec] /\ job' \in [Jobs -> JobRec]
          /\ bounds' \in [changes: Nat, crashes: Nat, admin: Nat, ids: Nat]
          /\ bounds'.changes = bounds.changes
          /\ bounds'.ids = IF brief[p] = NoBrief THEN bounds.ids + 1 ELSE bounds.ids
<1> DEFINE b == [id |-> id, gen |-> brief[p].gen + 1, hash |-> hash, content |-> NoHash,
                 status |-> IF hash = NoHash THEN "failed" ELSE "pending"]
<1>1. brief[p].gen \in Nat  BY DEF Types, BriefRec
<1>2. b \in BriefRec  BY <1>1, Empties DEF BriefRec
<1>3. brief' = [brief EXCEPT ![p] = b]  BY DEF NewGeneration
<1> HIDE DEF b
<1>4. brief' \in [Pairs -> BriefRec]  BY <1>2, <1>3 DEF Types
<1>5. job' \in [Jobs -> JobRec]
  <2>1. CASE UNCHANGED job  BY <2>1 DEF Types
  <2>2. CASE MayEnqueue(id, brief[p].gen + 1) /\ EnqueuePreGenerateJob(p, id, brief[p].gen + 1)
    <3>1. brief[p].gen + 1 \in Nat  BY <1>1
    <3> QED  BY <2>2, <3>1, Enqueued
  <2> QED  BY <2>1, <2>2 DEF NewGeneration
<1>6. bounds \in [changes: Nat, crashes: Nat, admin: Nat, ids: Nat]  BY DEF Types, TableTypes
<1>7. bounds' = [bounds EXCEPT !.ids = IF brief[p] = NoBrief THEN @ + 1 ELSE @]  BY DEF NewGeneration
<1>8. bounds' \in [changes: Nat, crashes: Nat, admin: Nat, ids: Nat]
  BY <1>6, <1>7
<1> QED  BY <1>4, <1>5, <1>6, <1>7, <1>8

\* SyncFails and UpdateSourceStatus keep the calendar's types.
LEMMA EndTypes ==
    ASSUME CalTypes, NEW s \in Syncers, SyncFails(s) \/ UpdateSourceStatus(s)
    PROVE CalTypes' /\ UNCHANGED <<event, rows>>
<1>1. sync' \in [Syncers -> SyncRec]  BY MoveType DEF SyncFails, UpdateSourceStatus
<1>2. source' \in [kind: Kinds, state: {"none", "live", "deleted"}, selected: BOOLEAN,
                   status: {"never", "ok", "error", "auth_error"}]
  BY SourceType DEF SyncFails, UpdateSourceStatus
<1> QED  BY <1>1, <1>2 DEF SyncFails, UpdateSourceStatus, CalTypes

\* The page a pass reads next.
LEMMA PageRight ==
    ASSUME Shape, NEW s \in Syncers, pass[s].phase = "page",
           NEW page \in (SUBSET Events) \ {{}}, \A e \in page : Stored(e),
           NEW r, r = [pass[s] EXCEPT !.phase = "clean", !.after = Max(page),
                         !.batch = {<<e, event[e]>> : e \in page},
                         !.todo = page \X pass[s].eligible]
    PROVE r \in PassRec /\ PassRight(r)
<1>1. pass[s] \in PassRec /\ PassRight(pass[s])  BY DEF Shape, Types, PassOK
<1>2. Max(page) \in Afters  BY DEF Afters
<1>3. \A e \in Events : event[e] \in RowRec /\ EventOK(e)  BY DEF Shape, Types, CalTypes
<1>4. {<<e, event[e]>> : e \in page} \in SUBSET (Events \X RowRec)  BY <1>3
<1>5. page \X pass[s].eligible \in SUBSET Pairs  BY <1>1 DEF PassRec, Pairs
<1>6. r \in PassRec
  <2> DEFINE m == Max(page)
             bt == {<<e, event[e]>> : e \in page}
             td == page \X pass[s].eligible
  <2>1. m \in Afters /\ bt \in SUBSET (Events \X RowRec) /\ td \in SUBSET Pairs  BY <1>2, <1>4, <1>5
  <2>2. r = [pass[s] EXCEPT !.phase = "clean", !.after = m, !.batch = bt, !.todo = td]  OBVIOUS
  <2> HIDE DEF m, bt, td
  <2> QED  BY <1>1, <2>1, <2>2 DEF PassRec
<1>7. /\ r.batch = {<<e, event[e]>> : e \in page} /\ r.todo = page \X pass[s].eligible
      /\ r.phase = "clean" /\ r.tmpl = pass[s].tmpl
  BY <1>1 DEF PassRec
<1>8. \A b \in r.batch : b[2].row >= 1 /\ b[2].row <= rows[b[1]]
  <2> SUFFICES ASSUME NEW e \in page PROVE event[e].row >= 1 /\ event[e].row <= rows[e]
    BY <1>7
  <2>1. EventOK(e) /\ Stored(e) /\ event[e].row \in Nat  BY <1>3 DEF RowRec
  <2> QED  BY <2>1 DEF EventOK, Stored
<1>9. \A b, c \in r.batch : b[1] = c[1] => b = c  BY <1>7
<1>10. ASSUME NEW q \in r.todo PROVE \E b \in r.batch : b[1] = q[1]
  <2>1. q[1] \in page  BY <1>7
  <2>2. <<q[1], event[q[1]]>> \in r.batch  BY <1>7, <2>1
  <2> QED  BY <2>2
<1> QED  BY <1>1, <1>6, <1>7, <1>8, <1>9, <1>10 DEF PassRight

\* The steps of a reconciliation: Shape is kept.
LEMMA ShapeReconcile ==
    ASSUME Shape, NEW s \in Syncers, ReconcileStep(s) \/ DefaultPluginFails(s) \/ ReconcileFault(s) PROVE Shape'
<1> USE ConstantsAssumption
<1>0. Types /\ CalTypes  BY DEF Shape, Types
<1>a. pass[s] \in PassRec /\ PassRight(pass[s])  BY DEF Shape, Types, PassOK
<1>b. /\ brief \in [Pairs -> BriefRec] /\ job \in [Jobs -> JobRec]
      /\ bounds \in [changes: Nat, crashes: Nat, admin: Nat, ids: Nat]
      /\ agent \in [there: BOOLEAN, version: Nat]
  BY <1>0 DEF Types, TableTypes
<1>c. UNCHANGED calVars => CalTypes' /\ UNCHANGED <<event, rows>>
  BY <1>0 DEF CalTypes, calVars
<1>1. CASE ReconcilePreBriefs(s)
  <2> DEFINE r == [NoPass EXCEPT !.phase = "agent", !.now = clock,
                     !.eligible = {t \in Templates : template[t].state = "on"},
                     !.tmpl = {<<t, template[t].version>> : t \in Templates}]
  <2>1. clock \in Nat /\ \A t \in Templates : template[t].version \in 1..MaxChanges + 1
    <3>1. clock \in 0..MaxClock  BY <1>0 DEF CalTypes
    <3>2. \A t \in Templates : TemplateOK(t) /\ template[t].version \in Nat
      BY <1>0 DEF Shape, Types, TableTypes
    <3>3. bounds.changes \in Nat /\ bounds.changes <= MaxChanges  BY <1>b DEF Shape
    <3> QED  BY <3>1, <3>2, <3>3 DEF TemplateOK
  <2>2. r \in PassRec
    <3> DEFINE tm == {<<t, template[t].version>> : t \in Templates}
               el == {t \in Templates : template[t].state = "on"}
    <3>1. tm \in SUBSET (Templates \X Nat)  BY <2>1
    <3>2. el \in SUBSET Templates  OBVIOUS
    <3>3. r = [NoPass EXCEPT !.phase = "agent", !.now = clock, !.eligible = el, !.tmpl = tm]  OBVIOUS
    <3> HIDE DEF tm, el, r
    <3> QED  BY <2>1, <3>1, <3>2, <3>3, Empties DEF PassRec
  <2>3. r.batch = {} /\ r.todo = {} /\ r.tmpl = {<<t, template[t].version>> : t \in Templates}
    BY DEF NoPass
  <2> HIDE DEF r
  <2>4. PassRight(r)  BY <2>1, <2>3 DEF PassRight
  <2>5. pass' = [pass EXCEPT ![s] = r]  BY <1>1 DEF ReconcilePreBriefs, Step, r
  <2> QED  BY <1>1, <1>b, <1>c, <2>2, <2>4, <2>5, ShapePass DEF ReconcilePreBriefs
<1>9. CASE ResolveDefaultAgentIdentity(s)
  <2> DEFINE r == [pass[s] EXCEPT !.phase = "window", !.agent = IF agent.there THEN agent.version ELSE 0]
  <2>1. r \in PassRec /\ PassRight(r)  BY <1>9, <1>a, <1>b DEF PassRec, PassRight, ResolveDefaultAgentIdentity, Step
  <2>2. pass' = [pass EXCEPT ![s] = r]  BY <1>9 DEF ResolveDefaultAgentIdentity, Step
  <2> HIDE DEF r
  <2> QED  BY <1>9, <1>b, <1>c, <2>1, <2>2, ShapePass DEF ResolveDefaultAgentIdentity
<1>10. CASE DefaultPluginFails(s)
  <2> DEFINE r == [pass[s] EXCEPT !.phase = "window", !.agent = 0]
  <2>1. r \in PassRec /\ PassRight(r)  BY <1>10, <1>a, <1>b DEF PassRec, PassRight, DefaultPluginFails, Step
  <2>2. pass' = [pass EXCEPT ![s] = r]  BY <1>10 DEF DefaultPluginFails, Step
  <2>3. CalTypes' /\ UNCHANGED <<event, rows>>  BY <1>0, <1>10 DEF CalTypes, DefaultPluginFails
  <2> HIDE DEF r
  <2> QED  BY <1>10, <1>b, <2>1, <2>2, <2>3, ShapePass DEF DefaultPluginFails
<1>2. CASE DeleteEventBriefsOutsideWindow(s)
  <2> DEFINE r == [pass[s] EXCEPT !.phase = "page"]
  <2>1. r \in PassRec /\ PassRight(r)  BY <1>2, <1>a DEF PassRec, PassRight, DeleteEventBriefsOutsideWindow, Step
  <2>2. pass' = [pass EXCEPT ![s] = r]  BY <1>2 DEF DeleteEventBriefsOutsideWindow, Step
  <2>3. brief' \in [Pairs -> BriefRec] /\ job' \in [Jobs -> JobRec]
    BY <1>0, <1>2, DeleteTypes DEF DeleteEventBriefsOutsideWindow
  <2> HIDE DEF r
  <2> QED  BY <1>2, <1>b, <1>c, <2>1, <2>2, <2>3, ShapePass DEF DeleteEventBriefsOutsideWindow
<1>3. CASE UpcomingEventsForSourceBatch(s)
  <2> DEFINE found == {e \in Events : /\ Stored(e) /\ Upcoming(event[e].start, pass[s].now)
                                      /\ e > pass[s].after}
             page == {e \in found : Cardinality({d \in found : d < e}) < BatchSize}
             r == IF page = {} THEN [pass[s] EXCEPT !.phase = "done"]
                  ELSE [pass[s] EXCEPT !.phase = "clean", !.after = Max(page),
                          !.batch = {<<e, event[e]>> : e \in page},
                          !.todo = page \X pass[s].eligible]
  <2>1. page \in SUBSET Events /\ \A e \in page : Stored(e)  OBVIOUS
  <2>2. pass[s].phase = "page" /\ pass' = [pass EXCEPT ![s] = r]
    BY <1>3 DEF UpcomingEventsForSourceBatch, Step
  <2> HIDE DEF found, page
  <2>3. r \in PassRec /\ PassRight(r)
    <3>1. CASE page = {}
      <4>1. r = [pass[s] EXCEPT !.phase = "done"]  BY <3>1
      <4> HIDE DEF r
      <4> QED  BY <1>a, <2>2, <4>1 DEF PassRec, PassRight
    <3>2. CASE page # {}
      BY <2>1, <2>2, <3>2, PageRight
    <3> QED  BY <3>1, <3>2
  <2> HIDE DEF r
  <2> QED  BY <1>3, <1>b, <1>c, <2>2, <2>3, ShapePass DEF UpcomingEventsForSourceBatch
<1>4. CASE DeleteIneligibleEventBriefs(s)
  <2> DEFINE r == [pass[s] EXCEPT !.phase = "pairs"]
  <2>1. r \in PassRec /\ PassRight(r)  BY <1>4, <1>a DEF PassRec, PassRight, DeleteIneligibleEventBriefs, Step
  <2>2. pass' = [pass EXCEPT ![s] = r]  BY <1>4 DEF DeleteIneligibleEventBriefs, Step
  <2>3. brief' \in [Pairs -> BriefRec] /\ job' \in [Jobs -> JobRec]
    BY <1>0, <1>4, DeleteTypes DEF DeleteIneligibleEventBriefs
  <2> HIDE DEF r
  <2> QED  BY <1>4, <1>b, <1>c, <2>1, <2>2, <2>3, ShapePass DEF DeleteIneligibleEventBriefs
<1>5. CASE ReconcileEventBriefPair(s)
  <2>1. PICK p \in pass[s].todo : PairFails(s) \/ PairIsSame(s, p) \/ PairIsNew(s, p)
    BY <1>5, PairCases
  <2>2. pass[s].phase = "pairs" /\ UNCHANGED <<template, agent, worker, dropped, overlap>>
    BY <1>5, PairCases
  <2> DEFINE r == [pass[s] EXCEPT !.todo = @ \ {p}]
  <2>3. r \in PassRec /\ PassRight(r)  BY <1>a DEF PassRec, PassRight
  <2>4. [pass EXCEPT ![s].todo = @ \ {p}] = [pass EXCEPT ![s] = r]  BY <1>0 DEF Types
  <2> HIDE DEF r
  <2>5. CASE PairFails(s)
    <3>1. CalTypes' /\ UNCHANGED <<event, rows>>  BY <1>0, <2>5, EndTypes DEF PairFails
    <3> QED  BY <1>b, <2>2, <2>5, <3>1, NoPassRight, ShapePass DEF PairFails
  <2>6. CASE PairIsSame(s, p)
    BY <1>b, <1>c, <2>2, <2>3, <2>4, <2>6, ShapePass DEF PairIsSame
  <2>7. CASE PairIsNew(s, p)
    <3> DEFINE id == IF brief[p] = NoBrief THEN bounds.ids + 1 ELSE brief[p].id
    <3>1. p \in Pairs /\ ComputePreBriefHash(s, p) \in Hashes  BY <2>2, HashKnown
    <3>2. id \in Nat  BY <1>b, <3>1 DEF BriefRec
    <3>3. NewGeneration(p, ComputePreBriefHash(s, p), id)  BY <2>7 DEF PairIsNew
    <3> HIDE DEF id
    <3>4. /\ brief' \in [Pairs -> BriefRec] /\ job' \in [Jobs -> JobRec]
          /\ bounds' \in [changes: Nat, crashes: Nat, admin: Nat, ids: Nat]
          /\ bounds'.changes = bounds.changes
      BY <1>0, <3>1, <3>2, <3>3, NewGenerationTypes
    <3> QED  BY <1>c, <2>2, <2>3, <2>4, <2>7, <3>4, ShapePass DEF PairIsNew
  <2> QED  BY <2>1, <2>5, <2>6, <2>7
<1>6. CASE NextPage(s)
  <2> DEFINE r == [pass[s] EXCEPT !.phase = IF Cardinality(pass[s].batch) < BatchSize THEN "done" ELSE "page"]
  <2>1. r \in PassRec /\ PassRight(r)  BY <1>6, <1>a DEF PassRec, PassRight, NextPage, Step
  <2>2. pass' = [pass EXCEPT ![s] = r]  BY <1>6 DEF NextPage, Step
  <2> HIDE DEF r
  <2> QED  BY <1>6, <1>b, <1>c, <2>1, <2>2, ShapePass DEF NextPage
<1>7. CASE FinishSync(s)
  <2>1. CalTypes' /\ UNCHANGED <<event, rows>>  BY <1>0, <1>7, EndTypes DEF FinishSync
  <2> QED  BY <1>7, <1>b, <2>1, NoPassRight, ShapePass DEF FinishSync, Step
<1>8. CASE ReconcileFault(s)
  <2>1. CalTypes' /\ UNCHANGED <<event, rows>>  BY <1>0, <1>8, EndTypes DEF ReconcileFault
  <2> QED  BY <1>8, <1>b, <2>1, NoPassRight, ShapePass DEF ReconcileFault
<1> QED  BY <1>1, <1>2, <1>3, <1>4, <1>5, <1>6, <1>7, <1>8, <1>9, <1>10 DEF ReconcileStep

\* A step on the briefs, the jobs and the workers: Shape is kept.
LEMMA ShapeTables ==
    ASSUME Shape, UNCHANGED <<calVars, template, agent, pass, overlap>>,
           brief' \in [Pairs -> BriefRec], job' \in [Jobs -> JobRec], worker' \in [Workers -> WorkRec],
           bounds' \in [changes: Nat, crashes: Nat, admin: Nat, ids: Nat],
           bounds'.changes = bounds.changes
    PROVE Shape'
<1>1. Types'  BY DEF Shape, Types, CalTypes, TableTypes, calVars
<1> QED  BY <1>1, ShapeRest DEF calVars

\* A counted change of the templates or of the agent: Shape is kept.
LEMMA ShapeChange ==
    ASSUME Shape, UNCHANGED <<calVars, pass, worker, overlap>>,
           template' \in [Templates -> [state: {"on", "off", "gone"}, version: Nat]],
           \A t \in Templates : \/ template'[t].version = template[t].version
                                \/ template'[t].version = template[t].version + 1,
           agent' \in [there: BOOLEAN, version: Nat],
           brief' \in [Pairs -> BriefRec], job' \in [Jobs -> JobRec], Change
    PROVE Shape'
<1> USE ConstantsAssumption
<1>0. bounds \in [changes: Nat, crashes: Nat, admin: Nat, ids: Nat]  BY DEF Shape, Types, TableTypes
<1>1. /\ bounds' \in [changes: Nat, crashes: Nat, admin: Nat, ids: Nat]
      /\ bounds'.changes = bounds.changes + 1 /\ bounds'.changes <= MaxChanges
  BY <1>0 DEF Change
<1>2. Types'  BY <1>1 DEF Shape, Types, CalTypes, TableTypes, calVars
<1>3. \A e \in Events : EventOK(e)'  BY DEF Shape, EventOK, calVars
<1>4. ASSUME NEW t \in Templates PROVE TemplateOK(t)'
  <2>1. TemplateOK(t) /\ template[t].version \in Nat  BY DEF Shape, Types, TableTypes
  <2> QED  BY <1>0, <1>1, <2>1 DEF TemplateOK
<1>5. \A s \in Syncers : PassOK(s)'  BY DEF Shape, PassOK, PassRight, calVars
<1> QED  BY <1>1, <1>2, <1>3, <1>4, <1>5 DEF Shape

\* Templates and the default agent: Shape is kept.
LEMMA ShapeTemplates ==
    ASSUME Shape,
           \/ ChangeAgent
           \/ \E t \in Templates : DeleteTemplate(t) \/ \E state \in {"on", "off"} : UpdateTemplate(t, state)
    PROVE Shape'
<1>0. /\ Types /\ brief \in [Pairs -> BriefRec] /\ job \in [Jobs -> JobRec]
      /\ template \in [Templates -> [state: {"on", "off", "gone"}, version: Nat]]
      /\ agent \in [there: BOOLEAN, version: Nat]
  BY DEF Shape, Types, TableTypes
<1>1. CASE ChangeAgent
  <2>1. agent' \in [there: BOOLEAN, version: Nat]  BY <1>0, <1>1 DEF ChangeAgent
  <2> QED  BY <1>0, <1>1, <2>1, ShapeChange DEF ChangeAgent
<1>2. ASSUME NEW t \in Templates, DeleteTemplate(t) PROVE Shape'
  <2>1. brief' \in [Pairs -> BriefRec] /\ job' \in [Jobs -> JobRec]
    BY <1>0, <1>2, DeleteTypes DEF DeleteTemplate
  <2>2. template' \in [Templates -> [state: {"on", "off", "gone"}, version: Nat]]
    BY <1>0, <1>2 DEF DeleteTemplate
  <2>3. \A u \in Templates : template'[u].version = template[u].version
    BY <1>0, <1>2 DEF DeleteTemplate
  <2> QED  BY <1>0, <1>2, <2>1, <2>2, <2>3, ShapeChange DEF DeleteTemplate
<1>3. ASSUME NEW t \in Templates, NEW state \in {"on", "off"}, UpdateTemplate(t, state) PROVE Shape'
  <2>1. brief' \in [Pairs -> BriefRec] /\ job' \in [Jobs -> JobRec]
    BY <1>0, <1>3, DeleteTypes DEF UpdateTemplate
  <2>2. template' \in [Templates -> [state: {"on", "off", "gone"}, version: Nat]]
    BY <1>0, <1>3 DEF UpdateTemplate
  <2>3. \A u \in Templates : template'[u].version = template[u].version
                             \/ template'[u].version = template[u].version + 1
    BY <1>0, <1>3 DEF UpdateTemplate
  <2> QED  BY <1>0, <1>3, <2>1, <2>2, <2>3, ShapeChange DEF UpdateTemplate
<1> QED  BY <1>1, <1>2, <1>3

\* The administrator's two requests: Shape is kept.
LEMMA ShapeAdmin ==
    ASSUME Shape, NEW j \in Jobs, HandleCancelJob(j) \/ (HandleRetryJob(j) /\ job[j].pair \in Pairs)
    PROVE Shape'
<1>0. /\ Types /\ brief \in [Pairs -> BriefRec] /\ job \in [Jobs -> JobRec]
      /\ worker \in [Workers -> WorkRec]
      /\ bounds \in [changes: Nat, crashes: Nat, admin: Nat, ids: Nat]
  BY DEF Shape, Types, TableTypes
<1>1. Admin => /\ bounds' \in [changes: Nat, crashes: Nat, admin: Nat, ids: Nat]
               /\ bounds'.changes = bounds.changes
  BY <1>0 DEF Admin
<1>2. CASE HandleCancelJob(j)
  <2>1. job' \in [Jobs -> JobRec]  BY <1>0, <1>2, Empties DEF HandleCancelJob, CancelJob
  <2> QED  BY <1>0, <1>1, <1>2, <2>1, ShapeTables DEF HandleCancelJob, CancelJob
<1>3. CASE HandleRetryJob(j) /\ job[j].pair \in Pairs
  <2>1. brief' \in [Pairs -> BriefRec]
    <3>1. brief' = [brief EXCEPT ![job[j].pair].status = "pending"]
      BY <1>3 DEF HandleRetryJob, RetryPreBriefJob
    <3> QED  BY <1>0, <1>3, <3>1 DEF BriefRec
  <2>2. job[j].brief \in Nat /\ job[j].gen \in Nat  BY <1>0 DEF JobRec
  <2>3. job' \in [Jobs -> JobRec]
    BY <1>0, <1>3, <2>2, Enqueued DEF HandleRetryJob, RetryPreBriefJob
  <2> QED  BY <1>0, <1>1, <1>3, <2>1, <2>3, ShapeTables DEF HandleRetryJob, RetryPreBriefJob
<1> QED  BY <1>2, <1>3

\* A worker moves on with an event.
LEMMA EditEvent ==
    ASSUME worker \in [Workers -> WorkRec], NEW w \in Workers, NEW pc \in Pcs, NEW ev \in RowRec
    PROVE /\ [worker EXCEPT ![w].pc = pc, ![w].event = ev]
               = [worker EXCEPT ![w] = [worker[w] EXCEPT !.pc = pc, !.event = ev]]
          /\ [worker[w] EXCEPT !.pc = pc, !.event = ev] \in WorkRec
<1>1. worker[w] \in WorkRec  OBVIOUS
<1>2. [worker EXCEPT ![w].pc = pc, ![w].event = ev]
        = [worker EXCEPT ![w] = [worker[w] EXCEPT !.pc = pc, !.event = ev]]  OBVIOUS
<1>3. [worker[w] EXCEPT !.pc = pc, !.event = ev] \in WorkRec  BY <1>1 DEF WorkRec
<1> QED  BY <1>2, <1>3

\* A worker moves on with content.
LEMMA EditContent ==
    ASSUME worker \in [Workers -> WorkRec], NEW w \in Workers, NEW pc \in Pcs, NEW c \in Hashes
    PROVE /\ [worker EXCEPT ![w].pc = pc, ![w].content = c]
               = [worker EXCEPT ![w] = [worker[w] EXCEPT !.pc = pc, !.content = c]]
          /\ [worker[w] EXCEPT !.pc = pc, !.content = c] \in WorkRec
<1>1. worker[w] \in WorkRec  OBVIOUS
<1>2. [worker EXCEPT ![w].pc = pc, ![w].content = c]
        = [worker EXCEPT ![w] = [worker[w] EXCEPT !.pc = pc, !.content = c]]  OBVIOUS
<1>3. [worker[w] EXCEPT !.pc = pc, !.content = c] \in WorkRec  BY <1>1 DEF WorkRec
<1> QED  BY <1>2, <1>3

\* A worker moves on with an error.
LEMMA EditRetryable ==
    ASSUME worker \in [Workers -> WorkRec], NEW w \in Workers, NEW pc \in Pcs, NEW b \in BOOLEAN
    PROVE /\ [worker EXCEPT ![w].pc = pc, ![w].retryable = b]
               = [worker EXCEPT ![w] = [worker[w] EXCEPT !.pc = pc, !.retryable = b]]
          /\ [worker[w] EXCEPT !.pc = pc, !.retryable = b] \in WorkRec
<1>1. worker[w] \in WorkRec  OBVIOUS
<1>2. [worker EXCEPT ![w].pc = pc, ![w].retryable = b]
        = [worker EXCEPT ![w] = [worker[w] EXCEPT !.pc = pc, !.retryable = b]]  OBVIOUS
<1>3. [worker[w] EXCEPT !.pc = pc, !.retryable = b] \in WorkRec  BY <1>1 DEF WorkRec
<1> QED  BY <1>2, <1>3

\* The steps of a worker: Shape is kept.
LEMMA ShapeWorker ==
    ASSUME Shape, NEW w \in Workers, WorkerStep(w) \/ Crash(w),
           worker[w].pc # "idle" => worker[w].job \in Jobs /\ Held(w).pair \in Pairs
    PROVE Shape'
<1>0. /\ Types /\ brief \in [Pairs -> BriefRec] /\ job \in [Jobs -> JobRec]
      /\ worker \in [Workers -> WorkRec]
      /\ bounds \in [changes: Nat, crashes: Nat, admin: Nat, ids: Nat]
      /\ event \in [Events -> RowRec]
  BY DEF Shape, Types, TableTypes, CalTypes
<1>p. {"idle", "event", "pair", "cleanup", "generate", "complete", "fail", "terminal"} \subseteq Pcs
  BY DEF Pcs
<1>a. ASSUME NEW pc \in Pcs PROVE [worker EXCEPT ![w].pc = pc] \in [Workers -> WorkRec]
  BY <1>0, <1>a DEF WorkRec
<1>b. [worker EXCEPT ![w] = Idle] \in [Workers -> WorkRec]  BY <1>0, Empties
<1>c. ASSUME NEW j \in Jobs, NEW st \in {"absent", "pending", "running", "failed"}
      PROVE [job EXCEPT ![j].status = st] \in [Jobs -> JobRec]
  BY <1>0 DEF JobRec
<1>d. ASSUME Stay, brief' \in [Pairs -> BriefRec], job' \in [Jobs -> JobRec],
             worker' \in [Workers -> WorkRec], bounds' = bounds
      PROVE Shape'
  BY <1>0, <1>d, ShapeTables DEF Stay
<1>1. ASSUME NEW j \in Jobs, ClaimJob(w, j) PROVE Shape'
  <2>1. job' \in [Jobs -> JobRec]  BY <1>0, <1>1 DEF ClaimJob, JobRec
  <2>2. worker' \in [Workers -> WorkRec]
    <3>1. job'[j] \in JobRec  BY <2>1
    <3> DEFINE k == job'[j]
    <3>2. worker' = [worker EXCEPT ![w] = [Idle EXCEPT !.pc = "event", !.job = j, !.held = k]]
      BY <1>1 DEF ClaimJob
    <3> HIDE DEF k
    <3>3. [Idle EXCEPT !.pc = "event", !.job = j, !.held = k] \in WorkRec
      BY <3>1, <1>p, Empties DEF WorkRec, k
    <3> QED  BY <1>0, <3>2, <3>3
  <2> QED  BY <1>0, <1>1, <1>d, <2>1, <2>2 DEF ClaimJob
<1>2. CASE LoadEvent(w)
  <2>1. Held(w).pair[1] \in Events  BY <1>2 DEF LoadEvent, Pairs
  <2>2. event[Held(w).pair[1]] \in RowRec  BY <1>0, <2>1
  <2>3. worker' \in [Workers -> WorkRec]
    <3>1. CASE Go(w, "complete")  BY <1>a, <1>p, <3>1 DEF Go
    <3>2. CASE worker' = [worker EXCEPT ![w].pc = "pair", ![w].event = event[Held(w).pair[1]]]
      <4> DEFINE ev == event[Held(w).pair[1]]
      <4> HIDE DEF ev
      <4>1. ev \in RowRec /\ worker' = [worker EXCEPT ![w].pc = "pair", ![w].event = ev]
        BY <2>2, <3>2 DEF ev
      <4>2. /\ worker' = [worker EXCEPT ![w] = [worker[w] EXCEPT !.pc = "pair", !.event = ev]]
            /\ [worker[w] EXCEPT !.pc = "pair", !.event = ev] \in WorkRec
        BY <1>0, <1>p, <4>1, EditEvent
      <4> QED  BY <1>0, <4>2
    <3> QED  BY <1>2, <3>1, <3>2 DEF LoadEvent
  <2> QED  BY <1>0, <1>2, <1>d, <2>3 DEF LoadEvent
<1>3. CASE RunPreGenerate(w)
  <2> DEFINE c == <<worker[w].event.version, template[Held(w).pair[2]].version, agent.version>>
  <2>1. c \in Hashes
    <3>1. worker[w].event.version \in Nat  BY <1>0 DEF WorkRec, RowRec
    <3>2. Held(w).pair[2] \in Templates  BY <1>3 DEF RunPreGenerate, Pairs
    <3>3. template[Held(w).pair[2]].version \in Nat /\ agent.version \in Nat
      BY <1>0, <3>2 DEF Types, TableTypes
    <3> QED  BY <3>1, <3>3 DEF Hashes
  <2>2. \/ \E pc \in Pcs : Go(w, pc)
        \/ worker' = [worker EXCEPT ![w].pc = "generate", ![w].content = c]
    BY <1>3, <1>p DEF RunPreGenerate
  <2> HIDE DEF c
  <2>3. worker' \in [Workers -> WorkRec]
    <3>1. ASSUME NEW pc \in Pcs, Go(w, pc) PROVE worker' \in [Workers -> WorkRec]
      BY <1>a, <1>p, <3>1 DEF Go
    <3>2. CASE worker' = [worker EXCEPT ![w].pc = "generate", ![w].content = c]
      <4>1. /\ worker' = [worker EXCEPT ![w] = [worker[w] EXCEPT !.pc = "generate", !.content = c]]
            /\ [worker[w] EXCEPT !.pc = "generate", !.content = c] \in WorkRec
        BY <1>0, <1>p, <2>1, <3>2, EditContent
      <4> QED  BY <1>0, <4>1
    <3> QED  BY <2>2, <3>1, <3>2
  <2> QED  BY <1>0, <1>3, <1>d, <2>3 DEF RunPreGenerate
<1>4. CASE CleanupIneligibleEventBriefIfCurrent(w)
  <2>1. brief' \in [Pairs -> BriefRec] /\ job' \in [Jobs -> JobRec]
    BY <1>0, <1>4, DeleteTypes DEF CleanupIneligibleEventBriefIfCurrent
  <2>2. worker' \in [Workers -> WorkRec]  BY <1>4, <1>a, <1>p DEF CleanupIneligibleEventBriefIfCurrent, Go
  <2> QED  BY <1>4, <1>d, <2>1, <2>2 DEF CleanupIneligibleEventBriefIfCurrent
<1>5. CASE PublishEventBrief(w)
  <2>1. worker[w].content \in Hashes  BY <1>0 DEF WorkRec
  <2>2. [brief EXCEPT ![Held(w).pair].status = "ready", ![Held(w).pair].content = worker[w].content]
          \in [Pairs -> BriefRec]
    BY <1>0, <1>5, <2>1 DEF BriefRec, PublishEventBrief
  <2>3. brief' \in [Pairs -> BriefRec]  BY <1>0, <1>5, <2>2 DEF PublishEventBrief
  <2>4. worker' \in [Workers -> WorkRec]  BY <1>5, <1>a, <1>p DEF PublishEventBrief, Go
  <2> QED  BY <1>0, <1>5, <1>d, <2>3, <2>4 DEF PublishEventBrief
<1>6. CASE GenerateFails(w)
  <2>1. worker' \in [Workers -> WorkRec]
    <3>1. PICK b \in BOOLEAN : worker' = [worker EXCEPT ![w].pc = "fail", ![w].retryable = b]
      BY <1>6 DEF GenerateFails
    <3>2. /\ worker' = [worker EXCEPT ![w] = [worker[w] EXCEPT !.pc = "fail", !.retryable = b]]
          /\ [worker[w] EXCEPT !.pc = "fail", !.retryable = b] \in WorkRec
      BY <1>0, <1>p, <3>1, EditRetryable
    <3> QED  BY <1>0, <3>2
  <2> QED  BY <1>0, <1>6, <1>d, <2>1 DEF GenerateFails
<1>7. CASE CompleteJob(w)
  <2>1. job' \in [Jobs -> JobRec]  BY <1>0, <1>7, Empties DEF CompleteJob
  <2> QED  BY <1>0, <1>7, <1>b, <1>d, <2>1 DEF CompleteJob
<1>8. CASE FailJob(w)
  <2>0. worker[w].job \in Jobs  BY <1>8 DEF FailJob
  <2>1. job' \in [Jobs -> JobRec]
    <3>1. CASE UNCHANGED job  BY <1>0, <3>1
    <3>2. CASE job' = [job EXCEPT ![worker[w].job].status = "pending"]  BY <1>c, <2>0, <3>2
    <3>3. CASE job' = [job EXCEPT ![worker[w].job].status = "failed"]  BY <1>c, <2>0, <3>3
    <3> QED  BY <1>8, <3>1, <3>2, <3>3 DEF FailJob
  <2>2. worker' \in [Workers -> WorkRec]  BY <1>8, <1>a, <1>b, <1>p DEF FailJob, Go
  <2> QED  BY <1>0, <1>8, <1>d, <2>1, <2>2 DEF FailJob
<1>9. CASE HandlePreGenerateTerminalFailure(w)
  <2>1. [brief EXCEPT ![Held(w).pair].status = "failed"] \in [Pairs -> BriefRec]
    BY <1>0, <1>9 DEF BriefRec, HandlePreGenerateTerminalFailure
  <2> QED  BY <1>0, <1>9, <1>b, <1>d, <2>1 DEF HandlePreGenerateTerminalFailure
<1>10. CASE Crash(w)
  <2>1. job' \in [Jobs -> JobRec]  BY <1>0, <1>10, <1>c DEF Crash
  <2>2. /\ bounds' \in [changes: Nat, crashes: Nat, admin: Nat, ids: Nat]
        /\ bounds'.changes = bounds.changes
    BY <1>0, <1>10 DEF Crash
  <2> QED  BY <1>0, <1>10, <1>b, <2>1, <2>2, ShapeTables DEF Crash, Stay
<1> QED  BY <1>1, <1>2, <1>3, <1>4, <1>5, <1>6, <1>7, <1>8, <1>9, <1>10 DEF WorkerStep

-----------------------------------------------------------------------------
(* Ledger.                                                                 *)

\* What every step does to the briefs: each goes, stays on its event at the
\* same or a later generation, or comes new with an id not given out before.
Evolves ==
    /\ bounds'.ids >= bounds.ids
    /\ \A p \in Pairs :
          \/ brief'[p] = NoBrief
          \/ /\ brief[p] # NoBrief /\ brief'[p].id = brief[p].id /\ brief'[p].gen >= brief[p].gen
             /\ event'[p[1]].row = event[p[1]].row
          \/ brief'[p].id > bounds.ids

\* No generation turns pending again.
StillSettled ==
    \A p \in Pairs :
        (brief'[p].status = "pending" /\ brief'[p].id = brief[p].id /\ brief'[p].gen = brief[p].gen)
            => brief[p].status = "pending"

\* The tables are numbers where they are compared.
LEMMA Numbers ==
    ASSUME Shape
    PROVE /\ bounds.ids \in Nat
          /\ \A p \in Pairs : brief[p].id \in Nat /\ brief[p].gen \in Nat /\ p[1] \in Events /\ p[2] \in Templates
          /\ \A j \in Jobs : job[j] \in JobRec
          /\ \A w \in Workers : worker[w] \in WorkRec /\ Held(w) \in JobRec
          /\ \A k \in JobRec : k.brief \in Nat /\ k.gen \in Nat
<1>1. bounds.ids \in Nat  BY DEF Shape, Types, TableTypes
<1>2. \A p \in Pairs : brief[p].id \in Nat /\ brief[p].gen \in Nat  BY DEF Shape, Types, BriefRec
<1>3. \A p \in Pairs : p[1] \in Events /\ p[2] \in Templates  BY DEF Pairs
<1>4. \A j \in Jobs : job[j] \in JobRec  BY DEF Shape, Types
<1>5. \A w \in Workers : worker[w] \in WorkRec /\ Held(w) \in JobRec  BY DEF Shape, Types, WorkRec, Held
<1>6. \A k \in JobRec : k.brief \in Nat /\ k.gen \in Nat  BY DEF JobRec
<1> QED  BY <1>1, <1>2, <1>3, <1>4, <1>5, <1>6

\* A ticket stays true of what the briefs become; an id that is gone stays gone,
\* and a generation that is not current does not become so.
LEMMA TicketLater ==
    ASSUME Shape, Shape', Evolves, NEW k \in JobRec, Ticket(k)
    PROVE /\ Ticket(k)'
          /\ Gone(k.brief) => Gone(k.brief)'
          /\ IsCurrent(k)' => /\ IsCurrent(k)
                              /\ brief'[k.pair].id = brief[k.pair].id
                              /\ brief'[k.pair].gen = brief[k.pair].gen
<1>1. ASSUME NEW p \in Pairs, brief'[p].id = k.brief
      PROVE /\ brief[p].id = k.brief /\ brief'[p].gen >= brief[p].gen
            /\ event'[p[1]].row = event[p[1]].row
  <2>1. k.brief >= 1 /\ k.brief <= bounds.ids  BY DEF Ticket
  <2>2. brief'[p] # NoBrief  BY <1>1, <2>1 DEF NoBrief
  <2>3. brief'[p].id \in Nat /\ bounds.ids \in Nat  BY DEF Shape, Types, BriefRec, TableTypes
  <2>4. ~(brief'[p].id > bounds.ids)  BY <1>1, <2>1, <2>3
  <2> QED  BY <1>1, <2>2, <2>4 DEF Evolves
<1>2. \A p \in Pairs : brief'[p].gen \in Nat /\ brief[p].gen \in Nat  BY DEF Shape, Types, BriefRec
<1>3. k.gen \in Nat /\ k.brief \in Nat /\ bounds.ids \in Nat /\ bounds'.ids \in Nat
  BY DEF JobRec, Shape, Types, TableTypes
<1>4. Ticket(k)'
  <2>1. k.brief <= bounds'.ids  BY <1>3 DEF Ticket, Evolves
  <2>2. ASSUME NEW p \in Pairs, brief'[p].id = k.brief
        PROVE p = k.pair /\ k.gen <= brief'[p].gen /\ event'[p[1]].row = k.row
    <3>1. p = k.pair /\ k.gen <= brief[p].gen /\ event[p[1]].row = k.row  BY <1>1, <2>2 DEF Ticket
    <3> QED  BY <1>1, <1>2, <1>3, <2>2, <3>1
  <2> QED  BY <2>1, <2>2 DEF Ticket
<1>5. Gone(k.brief) => Gone(k.brief)'  BY <1>1 DEF Gone
<1>6. ASSUME IsCurrent(k)'
      PROVE /\ IsCurrent(k)
            /\ brief'[k.pair].id = brief[k.pair].id
            /\ brief'[k.pair].gen = brief[k.pair].gen
  <2>1. k.pair \in Pairs  BY DEF Ticket
  <2>2. brief'[k.pair].id = k.brief /\ brief'[k.pair].gen = k.gen  BY <1>6 DEF IsCurrent
  <2>3. brief[k.pair].id = k.brief /\ brief'[k.pair].gen >= brief[k.pair].gen  BY <1>1, <2>1, <2>2
  <2>4. k.gen <= brief[k.pair].gen  BY <2>1, <2>3 DEF Ticket
  <2>5. brief[k.pair].gen = k.gen  BY <1>2, <1>3, <2>1, <2>2, <2>3, <2>4
  <2> QED  BY <2>2, <2>3, <2>5 DEF IsCurrent
<1> QED  BY <1>4, <1>5, <1>6

\* A worker that does not move stays right if its row stays, or goes with the
\* brief.
LEMMA WorkerKept ==
    ASSUME Shape, Shape', Evolves, NEW w \in Workers, WorkerOK(w), worker'[w] = worker[w],
           \/ StillSettled
           \/ worker[w].pc = "complete" /\ IsCurrent(Held(w)) => brief'[Held(w).pair].status # "pending",
           \/ job'[worker[w].job] = job[worker[w].job]
           \/ job'[worker[w].job] = NoJob /\ (worker[w].pc = "terminal" \/ Gone(Held(w).brief)')
    PROVE WorkerOK(w)'
<1>1. PICK k \in JobRec : k = Held(w)  BY Numbers
<1>2. Held(w)' = k /\ Row(w)' = job'[worker[w].job]  BY <1>1 DEF Held, Row
<1>3. Ticket(k)  BY <1>1 DEF WorkerOK
<1>4. /\ Ticket(k)'
      /\ Gone(k.brief) => Gone(k.brief)'
      /\ IsCurrent(k)' => /\ IsCurrent(k)
                          /\ brief'[k.pair].id = brief[k.pair].id
                          /\ brief'[k.pair].gen = brief[k.pair].gen
  BY <1>3, TicketLater
<1>5. Ticket(Held(w))'
  <2>1. Ticket(Held(w))' <=> Ticket(k)'  BY <1>2 DEF Ticket
  <2> QED  BY <1>4, <2>1
<1>6. worker'[w].pc # "terminal" =>
          \/ Row(w)' = Held(w)' /\ Held(w)'.status = "running"
          \/ Row(w)' = NoJob /\ Gone(Held(w).brief)'
  <2>1. Gone(Held(w).brief)' <=> Gone(k.brief)'  BY <1>2 DEF Gone
  <2> QED  BY <1>1, <1>2, <1>4, <2>1 DEF WorkerOK, Row
<1>7. worker'[w].pc = "terminal" => ~Active(worker[w].job)'
  BY DEF WorkerOK, Active, NoJob
<1>8. worker'[w].pc = "complete" /\ Current(w)' => brief'[k.pair].status # "pending"
  <2> SUFFICES ASSUME worker'[w].pc = "complete", Current(w)', brief'[k.pair].status = "pending" PROVE FALSE
    OBVIOUS
  <2>1. IsCurrent(k)'  BY <1>2 DEF Current, IsCurrent
  <2>2. k.pair \in Pairs  BY <1>3 DEF Ticket
  <2>3. IsCurrent(k)  BY <1>4, <2>1
  <2>4. CASE StillSettled
    <3>1. brief[k.pair].status = "pending"  BY <1>4, <2>1, <2>2, <2>4 DEF StillSettled
    <3> QED  BY <1>1, <2>3, <3>1 DEF WorkerOK, Current
  <2>5. CASE worker[w].pc = "complete" /\ IsCurrent(Held(w)) => brief'[Held(w).pair].status # "pending"
    BY <1>1, <2>3, <2>5
  <2> QED  BY <2>4, <2>5
<1> QED  BY <1>2, <1>5, <1>6, <1>7, <1>8 DEF WorkerOK

\* A job row that keeps what it speaks of keeps its ticket.
LEMMA RowsKept ==
    ASSUME Shape, Shape', Ledger, Evolves, NEW j \in Jobs,
           job'[j] # NoJob => /\ job[j] # NoJob
                              /\ job'[j].pair = job[j].pair /\ job'[j].brief = job[j].brief
                              /\ job'[j].gen = job[j].gen /\ job'[j].row = job[j].row
    PROVE job'[j] # NoJob => Ticket(job[j])'
<1> SUFFICES ASSUME job'[j] # NoJob PROVE Ticket(job[j])'  OBVIOUS
<1>1. PICK k \in JobRec : k = job[j]  BY Numbers
<1>2. Ticket(k)  BY <1>1 DEF Ledger
<1>3. Ticket(k)'  BY <1>2, TicketLater
<1> QED  BY <1>1, <1>3 DEF Ticket

\* Distinct ids, in a form to cite.
OneEach == \A p, q \in Pairs : brief[p] # NoBrief /\ brief[p].id = brief[q].id => p = q

\* A step in which no worker moves.
LEMMA LedgerUnmoved ==
    ASSUME Shape, Shape', Ledger, Evolves, StillSettled, worker' = worker,
           \A p \in Pairs : BriefOK(p)', OneEach',
           \A j \in Jobs : job'[j] # NoJob => Ticket(job[j])',
           \A w \in Workers : worker[w].pc # "idle" =>
              \/ job'[worker[w].job] = job[worker[w].job]
              \/ job'[worker[w].job] = NoJob /\ (worker[w].pc = "terminal" \/ Gone(Held(w).brief)'),
           \A p \in Pairs : brief'[p].status = "pending" => Owed(p)'
    PROVE Ledger'
<1>1. \A w \in Workers : worker'[w].pc # "idle" => WorkerOK(w)'
  BY WorkerKept DEF Ledger
<1> QED  BY <1>1 DEF Ledger, OneEach

\* Rows of busy workers are not pending.
LEMMA BusyRow ==
    ASSUME Ledger, NEW w \in Workers, worker[w].pc # "idle"
    PROVE worker[w].job \in Jobs /\ job[worker[w].job].status # "pending"
BY DEF Ledger, WorkerOK, Row, Active, NoJob

\* Steps that leave the briefs, the jobs and the workers alone and keep every
\* stored row.
LEMMA LedgerQuiet ==
    ASSUME Shape, Shape', Ledger, UNCHANGED <<brief, job, worker, dropped>>, bounds'.ids = bounds.ids,
           \A e \in Events : event[e] # NoRow => event'[e] # NoRow /\ event'[e].row = event[e].row
    PROVE Ledger'
<1>0. \A p \in Pairs : p[1] \in Events  BY Numbers
<1>1. Evolves
  <2>1. bounds'.ids >= bounds.ids  BY Numbers
  <2>2. \A p \in Pairs : brief[p] # NoBrief => event'[p[1]].row = event[p[1]].row
    BY <1>0 DEF Ledger, BriefOK
  <2>3. \A p \in Pairs : brief[p].gen >= brief[p].gen  BY Numbers
  <2> QED  BY <2>1, <2>2, <2>3 DEF Evolves
<1>2. StillSettled  BY DEF StillSettled
<1>3. \A p \in Pairs : BriefOK(p)'  BY <1>0 DEF Ledger, BriefOK
<1>4. OneEach'  BY DEF Ledger, OneEach
<1>5. \A j \in Jobs : job'[j] # NoJob => Ticket(job[j])'  BY <1>1, RowsKept
<1>6. \A p \in Pairs : brief'[p].status = "pending" => Owed(p)'
  BY DEF Ledger, Owed, Active, Held
<1> QED  BY <1>1, <1>2, <1>3, <1>4, <1>5, <1>6, LedgerUnmoved

\* Deleting briefs with their pending jobs: the others are still owed what they
\* were, and no busy worker's row goes.
LEMMA DeleteParts ==
    ASSUME Shape, Shape', Ledger, NEW S \in SUBSET Pairs, DeleteBriefs(S), event' = event, bounds'.ids = bounds.ids
    PROVE /\ Evolves /\ StillSettled
          /\ \A p \in Pairs : BriefOK(p)'
          /\ OneEach'
          /\ \A j \in Jobs : job'[j] # NoJob => Ticket(job[j])'
          /\ \A w \in Workers : worker[w].pc # "idle" => job'[worker[w].job] = job[worker[w].job]
          /\ \A p \in Pairs : brief'[p] = NoBrief \/ brief'[p] = brief[p]
          /\ \A p \in S : brief'[p] = NoBrief
          /\ \A p \in Pairs, j \in Jobs :
                brief'[p].status = "pending" /\ job[j].brief = brief[p].id => job'[j] = job[j]
<1> DEFINE ids == {brief[p].id : p \in S} \ {0}
<1>1. /\ brief' = [p \in Pairs |-> IF p \in S THEN NoBrief ELSE brief[p]]
      /\ job' = [j \in Jobs |-> IF job[j].status = "pending" /\ job[j].brief \in ids THEN NoJob ELSE job[j]]
  BY DEF DeleteBriefs
<1>2. \A p \in Pairs : brief'[p] = IF p \in S THEN NoBrief ELSE brief[p]  BY <1>1
<1>3. \A p \in Pairs : brief[p].gen >= brief[p].gen /\ bounds.ids >= bounds.ids  BY Numbers
<1>4. Evolves
  <2>1. bounds'.ids >= bounds.ids  BY Numbers
  <2> QED  BY <1>2, <1>3, <2>1 DEF Evolves
<1>5. StillSettled  BY <1>2 DEF StillSettled, NoBrief
<1>6. \A p \in Pairs : BriefOK(p)'  BY <1>2 DEF Ledger, BriefOK
<1>7. OneEach'
  <2> SUFFICES ASSUME NEW p \in Pairs, NEW q \in Pairs, brief'[p] # NoBrief, brief'[p].id = brief'[q].id
               PROVE p = q
    BY DEF OneEach
  <2>1. brief'[p] = brief[p] /\ brief[p].id >= 1  BY <1>2 DEF Ledger, BriefOK
  <2>2. brief'[q] # NoBrief  BY <2>1 DEF NoBrief
  <2>3. brief'[q] = brief[q]  BY <1>2, <2>2
  <2> QED  BY <2>1, <2>3 DEF Ledger
<1>8. \A j \in Jobs : job'[j] # NoJob => Ticket(job[j])'
  <2>1. \A j \in Jobs : job'[j] # NoJob => job'[j] = job[j]  BY <1>1
  <2> QED  BY <1>4, <2>1, RowsKept
<1>9. \A w \in Workers : worker[w].pc # "idle" => job'[worker[w].job] = job[worker[w].job]
  BY <1>1, BusyRow
<1>10. ASSUME NEW p \in Pairs, NEW j \in Jobs, brief'[p].status = "pending", job[j].brief = brief[p].id
       PROVE job'[j] = job[j]
  <2>1. p \notin S /\ brief'[p] = brief[p]  BY <1>2, <1>10 DEF NoBrief
  <2>2. brief[p] # NoBrief  BY <1>10, <2>1 DEF NoBrief
  <2>3. brief[p].id \notin ids
    BY <2>1, <2>2 DEF Ledger
  <2> QED  BY <1>1, <1>10, <2>3
<1> QED  BY <1>2, <1>4, <1>5, <1>6, <1>7, <1>8, <1>9, <1>10

\* So a deletion on its own keeps the ledger.
LEMMA LedgerDelete ==
    ASSUME Shape, Shape', Ledger, NEW S \in SUBSET Pairs, DeleteBriefs(S),
           UNCHANGED <<event, worker, dropped>>, bounds'.ids = bounds.ids
    PROVE Ledger'
<1>1. /\ Evolves /\ StillSettled
      /\ \A p \in Pairs : BriefOK(p)'
      /\ OneEach'
      /\ \A j \in Jobs : job'[j] # NoJob => Ticket(job[j])'
      /\ \A w \in Workers : worker[w].pc # "idle" => job'[worker[w].job] = job[worker[w].job]
  BY DeleteParts
<1>2. /\ \A p \in Pairs : brief'[p] = NoBrief \/ brief'[p] = brief[p]
      /\ \A p \in Pairs, j \in Jobs :
            brief'[p].status = "pending" /\ job[j].brief = brief[p].id => job'[j] = job[j]
  BY DeleteParts
<1>3. ASSUME NEW p \in Pairs, brief'[p].status = "pending" PROVE Owed(p)'
  <2>1. brief'[p] = brief[p]  BY <1>2, <1>3 DEF NoBrief
  <2>2. Owed(p)  BY <1>3, <2>1 DEF Ledger
  <2>3. ASSUME NEW j \in Jobs, Active(j), job[j].brief = brief[p].id, job[j].gen = brief[p].gen
        PROVE Owed(p)'
    <3>1. job'[j] = job[j]  BY <1>2, <1>3, <2>3
    <3> QED  BY <2>1, <2>3, <3>1 DEF Owed, Active
  <2> QED  BY <2>1, <2>2, <2>3 DEF Owed, Held
<1> QED  BY <1>1, <1>3, LedgerUnmoved

\* An event that goes takes its briefs and jobs along, and a worker that was
\* busy with one of them is left with an id that is gone.
LEMMA LedgerCascade ==
    ASSUME Shape, Shape', Ledger, CascadeEvents, UNCHANGED <<worker, dropped>>, bounds'.ids = bounds.ids,
           \A e \in Events : event'[e] = NoRow \/ event'[e] = event[e]
    PROVE Ledger'
<1> DEFINE gone == {e \in Events : Stored(e) /\ event'[e] = NoRow}
<1>1. /\ brief' = [p \in Pairs |-> IF p[1] \in gone THEN NoBrief ELSE brief[p]]
      /\ job' = [j \in Jobs |-> IF job[j].pair[1] \in gone THEN NoJob ELSE job[j]]
  BY DEF CascadeEvents
<1>2. \A p \in Pairs : brief'[p] = IF p[1] \in gone THEN NoBrief ELSE brief[p]  BY <1>1
<1>0. \A p \in Pairs : brief[p].gen >= brief[p].gen /\ p[1] \in Events  BY Numbers
<1>3. \A p \in Pairs : brief'[p] # NoBrief =>
          brief'[p] = brief[p] /\ p[1] \notin gone /\ event'[p[1]] = event[p[1]] /\ event[p[1]] # NoRow
  BY <1>0, <1>2 DEF Ledger, BriefOK, Stored
<1> HIDE DEF gone
<1>4. Evolves
  <2>1. bounds'.ids >= bounds.ids  BY Numbers
  <2> QED  BY <1>0, <1>3, <2>1 DEF Evolves
<1>5. StillSettled  BY <1>3 DEF StillSettled, NoBrief
<1>6. \A p \in Pairs : BriefOK(p)'  BY <1>3 DEF Ledger, BriefOK
<1>7. OneEach'
  <2> SUFFICES ASSUME NEW p \in Pairs, NEW q \in Pairs, brief'[p] # NoBrief, brief'[p].id = brief'[q].id
               PROVE p = q
    BY DEF OneEach
  <2>1. brief'[p] = brief[p] /\ brief[p].id >= 1  BY <1>3 DEF Ledger, BriefOK
  <2>2. brief'[q] # NoBrief  BY <2>1 DEF NoBrief
  <2>3. brief'[q] = brief[q]  BY <1>3, <2>2
  <2> QED  BY <2>1, <2>3 DEF Ledger
<1>8. \A j \in Jobs : job'[j] # NoJob => Ticket(job[j])'
  <2>1. \A j \in Jobs : job'[j] # NoJob => job'[j] = job[j]  BY <1>1
  <2> QED  BY <1>4, <2>1, RowsKept
<1>9. ASSUME NEW w \in Workers, worker[w].pc # "idle"
      PROVE \/ job'[worker[w].job] = job[worker[w].job]
            \/ job'[worker[w].job] = NoJob /\ (worker[w].pc = "terminal" \/ Gone(Held(w).brief)')
  <2>0. WorkerOK(w) /\ worker[w].job \in Jobs  BY <1>9 DEF Ledger, WorkerOK
  <2>1. CASE Row(w) = NoJob  BY <1>1, <2>0, <2>1 DEF Row
  <2>2. CASE Row(w) # NoJob /\ worker[w].pc # "terminal"
    <3>1. Row(w) = Held(w) /\ Ticket(Held(w))  BY <2>0, <2>2 DEF WorkerOK
    <3>2. CASE Held(w).pair[1] \notin gone  BY <1>1, <2>0, <3>1, <3>2 DEF Row
    <3>3. CASE Held(w).pair[1] \in gone
      <4>1. job'[worker[w].job] = NoJob  BY <1>1, <2>0, <3>1, <3>3 DEF Row
      <4>2. ASSUME NEW p \in Pairs, brief'[p].id = Held(w).brief PROVE FALSE
        <5>1. Held(w).brief >= 1  BY <3>1 DEF Ticket
        <5>2. brief'[p] # NoBrief  BY <4>2, <5>1 DEF NoBrief
        <5>3. brief[p].id = Held(w).brief /\ p[1] \notin gone  BY <1>3, <4>2, <5>2
        <5>4. p = Held(w).pair  BY <3>1, <5>3 DEF Ticket
        <5> QED  BY <3>3, <5>3, <5>4
      <4>3. Gone(Held(w).brief)'  BY <4>2 DEF Gone, Held
      <4> QED  BY <4>1, <4>3
    <3> QED  BY <3>2, <3>3
  <2>3. CASE worker[w].pc = "terminal"
    BY <1>1, <2>0, <2>3
  <2> QED  BY <2>1, <2>2, <2>3
<1>10. ASSUME NEW p \in Pairs, brief'[p].status = "pending" PROVE Owed(p)'
  <2>0. brief'[p] # NoBrief  BY <1>10 DEF NoBrief
  <2>1. brief'[p] = brief[p] /\ p[1] \notin gone  BY <1>3, <2>0
  <2>2. Owed(p)  BY <1>10, <2>1 DEF Ledger
  <2>3. ASSUME NEW j \in Jobs, Active(j), job[j].brief = brief[p].id, job[j].gen = brief[p].gen
        PROVE Owed(p)'
    <3>1. job[j] # NoJob  BY <2>3 DEF Active, NoJob
    <3>2. p = job[j].pair  BY <2>3, <3>1 DEF Ledger, Ticket
    <3>3. job'[j] = job[j]  BY <1>1, <2>1, <3>2
    <3> QED  BY <2>1, <2>3, <3>3 DEF Owed, Active
  <2> QED  BY <2>1, <2>2, <2>3 DEF Owed, Held
<1> QED  BY <1>4, <1>5, <1>6, <1>7, <1>8, <1>9, <1>10, LedgerUnmoved

\* A job put into a free row: the active rows and the rows of busy workers are
\* what they were.
LEMMA EnqueuedRows ==
    ASSUME Shape, NEW p \in Pairs, NEW id \in Nat, NEW gen \in Nat, MayEnqueue(id, gen),
           EnqueuePreGenerateJob(p, id, gen)
    PROVE \E f \in Jobs :
             /\ job'[f].status = "pending" /\ job'[f].pair = p /\ job'[f].row = event[p[1]].row
             /\ job'[f].brief = id /\ job'[f].gen = gen
             /\ \A j \in Jobs : j # f => job'[j] = job[j]
             /\ ~Active(f)
             /\ \A w \in Workers : worker[w].job # f
<1>0. Types  BY DEF Shape
<1>1. PICK f \in FreeJobs :
         job' = [job EXCEPT ![f] = [status |-> "pending", pair |-> p, row |-> event[p[1]].row,
                                    brief |-> id, gen |-> gen, attempts |-> 0]]
  BY <1>0, Enqueued
<1>2. f \in Jobs /\ ~Active(f) /\ \A w \in Workers : worker[w].job # f
  BY DEF FreeJobs, Active, NoJob
<1>3. job \in [Jobs -> JobRec]  BY <1>0 DEF Types
<1>4. job'[f] = [status |-> "pending", pair |-> p, row |-> event[p[1]].row,
                 brief |-> id, gen |-> gen, attempts |-> 0]
      /\ \A j \in Jobs : j # f => job'[j] = job[j]
  BY <1>1, <1>2, <1>3
<1> QED  BY <1>2, <1>4

\* A new generation keeps the ledger: the pair is owed the job it just got, or
\* is failed at once.
LEMMA LedgerNew ==
    ASSUME Shape, Shape', Ledger, NEW p \in Pairs, NEW hash \in Hashes,
           NewGeneration(p, hash, IF brief[p] = NoBrief THEN bounds.ids + 1 ELSE brief[p].id),
           UNCHANGED <<event, worker, dropped>>, event[p[1]] # NoRow
    PROVE Ledger'
<1>a. PICK id : id = IF brief[p] = NoBrief THEN bounds.ids + 1 ELSE brief[p].id  OBVIOUS
<1>b. PICK gen : gen = brief[p].gen + 1  OBVIOUS
<1>c. brief[p].gen \in Nat /\ brief[p].id \in Nat /\ bounds.ids \in Nat  BY Numbers
<1>d. id \in Nat /\ gen \in Nat  BY <1>a, <1>b, <1>c
<1>e. Types /\ NewGeneration(p, hash, id)  BY <1>a DEF Shape
<1>1. /\ \A q \in Pairs : q # p => brief'[q] = brief[q]
      /\ brief'[p].id = id /\ brief'[p].gen = gen
      /\ brief'[p].status = (IF hash = NoHash THEN "failed" ELSE "pending")
  <2> DEFINE b == [id |-> id, gen |-> gen, hash |-> hash, content |-> NoHash,
                   status |-> IF hash = NoHash THEN "failed" ELSE "pending"]
  <2>1. brief' = [brief EXCEPT ![p] = b]  BY <1>b, <1>e DEF NewGeneration
  <2>2. brief \in [Pairs -> BriefRec]  BY <1>e DEF Types
  <2>3. brief'[p] = b /\ \A q \in Pairs : q # p => brief'[q] = brief[q]
    <3> HIDE DEF b
    <3> QED  BY <2>1, <2>2
  <2> QED  BY <2>3
<1>2. /\ bounds'.ids = IF brief[p] = NoBrief THEN bounds.ids + 1 ELSE bounds.ids
      /\ bounds'.ids \in Nat
  <2>1. bounds'.ids = IF brief[p] = NoBrief THEN bounds.ids + 1 ELSE bounds.ids
    BY <1>d, <1>e, NewGenerationTypes
  <2> QED  BY <1>c, <2>1
<1>3. brief'[p] # NoBrief  BY <1>1 DEF NoBrief
<1>4. id >= 1 /\ id <= bounds'.ids
  <2>1. BriefOK(p)  BY DEF Ledger
  <2> QED  BY <1>2, <1>a, <1>c, <2>1 DEF BriefOK
<1>5. Evolves
  <2>1. bounds'.ids >= bounds.ids  BY <1>2, <1>c
  <2>2. ASSUME NEW q \in Pairs, q # p
        PROVE \/ brief'[q] = NoBrief
              \/ /\ brief[q] # NoBrief /\ brief'[q].id = brief[q].id /\ brief'[q].gen >= brief[q].gen
                 /\ event'[q[1]].row = event[q[1]].row
    <3>1. brief'[q] = brief[q]  BY <1>1, <2>2
    <3>2. brief[q].gen >= brief[q].gen  BY Numbers
    <3> QED  BY <3>1, <3>2
  <2>3. \/ /\ brief[p] # NoBrief /\ brief'[p].id = brief[p].id /\ brief'[p].gen >= brief[p].gen
           /\ event'[p[1]].row = event[p[1]].row
        \/ brief'[p].id > bounds.ids
    BY <1>1, <1>a, <1>b, <1>c
  <2> QED  BY <2>1, <2>2, <2>3 DEF Evolves
<1>6. StillSettled
  <2>1. brief'[p].gen # brief[p].gen  BY <1>1, <1>b, <1>c
  <2> QED  BY <1>1, <2>1 DEF StillSettled
<1>7. \A q \in Pairs : BriefOK(q)'
  <2>1. BriefOK(p)'  BY <1>1, <1>4 DEF BriefOK
  <2>2. ASSUME NEW q \in Pairs, q # p PROVE BriefOK(q)'
    <3>1. BriefOK(q) /\ brief'[q] = brief[q] /\ brief[q].id \in Nat  BY <1>1, <2>2, Numbers DEF Ledger
    <3> QED  BY <1>2, <1>c, <3>1 DEF BriefOK
  <2> QED  BY <2>1, <2>2
<1>8. \A q \in Pairs : q # p => brief'[q].id # id
  <2> SUFFICES ASSUME NEW q \in Pairs, q # p, brief'[q].id = id PROVE FALSE  OBVIOUS
  <2>1. brief[q].id = id /\ brief[q] # NoBrief  BY <1>1, <1>4 DEF NoBrief
  <2>2. brief[q].id <= bounds.ids /\ brief[q].id \in Nat  BY <2>1, Numbers DEF Ledger, BriefOK
  <2>3. CASE brief[p] = NoBrief  BY <1>a, <1>c, <2>1, <2>2, <2>3
  <2>4. CASE brief[p] # NoBrief  BY <1>a, <2>1, <2>4 DEF Ledger
  <2> QED  BY <2>3, <2>4
<1>9. OneEach'
  <2> SUFFICES ASSUME NEW q \in Pairs, NEW r \in Pairs, brief'[q] # NoBrief, brief'[q].id = brief'[r].id
               PROVE q = r
    BY DEF OneEach
  <2>1. CASE q = p \/ r = p  BY <1>1, <1>8, <2>1
  <2>2. CASE q # p /\ r # p  BY <1>1, <2>2 DEF Ledger
  <2> QED  BY <2>1, <2>2
<1>10. CASE hash = NoHash /\ UNCHANGED job
  <2>1. \A j \in Jobs : job'[j] # NoJob => Ticket(job[j])'  BY <1>10, <1>5, RowsKept
  <2>2. ASSUME NEW q \in Pairs, brief'[q].status = "pending" PROVE Owed(q)'
    <3>1. q # p  BY <1>1, <1>10, <2>2
    <3>2. brief'[q] = brief[q] /\ Owed(q)  BY <1>1, <2>2, <3>1 DEF Ledger
    <3> QED  BY <1>10, <3>2 DEF Owed, Active, Held
  <2> QED  BY <1>10, <1>5, <1>6, <1>7, <1>9, <2>1, <2>2, LedgerUnmoved
<1>11. CASE MayEnqueue(id, gen) /\ EnqueuePreGenerateJob(p, id, gen)
  <2>1. PICK f \in Jobs :
             /\ job'[f].status = "pending" /\ job'[f].pair = p /\ job'[f].row = event[p[1]].row
             /\ job'[f].brief = id /\ job'[f].gen = gen
             /\ \A j \in Jobs : j # f => job'[j] = job[j]
             /\ ~Active(f)
             /\ \A w \in Workers : worker[w].job # f
    BY <1>11, <1>d, EnqueuedRows
  <2>2. Ticket(job[f])'
    <3>1. ASSUME NEW q \in Pairs, brief'[q].id = id
          PROVE q = p /\ gen <= brief'[q].gen /\ event'[q[1]].row = event[p[1]].row
      BY <1>1, <1>8, <1>d, <3>1
    <3> QED  BY <1>4, <2>1, <3>1 DEF Ticket
  <2>3. \A j \in Jobs : job'[j] # NoJob => Ticket(job[j])'  BY <1>5, <2>1, <2>2, RowsKept
  <2>4. ASSUME NEW w \in Workers, worker[w].pc # "idle" PROVE job'[worker[w].job] = job[worker[w].job]
    BY <2>1, <2>4, BusyRow
  <2>5. ASSUME NEW q \in Pairs, brief'[q].status = "pending" PROVE Owed(q)'
    <3>1. CASE q = p  BY <1>1, <2>1, <3>1 DEF Owed, Active
    <3>2. CASE q # p
      <4>1. brief'[q] = brief[q] /\ Owed(q)  BY <1>1, <2>5, <3>2 DEF Ledger
      <4>2. \A j \in Jobs : Active(j) => job'[j] = job[j]  BY <2>1
      <4> QED  BY <4>1, <4>2 DEF Owed, Active, Held
    <3> QED  BY <3>1, <3>2
  <2> QED  BY <1>5, <1>6, <1>7, <1>9, <2>3, <2>4, <2>5, LedgerUnmoved
<1> QED  BY <1>10, <1>11, <1>b, <1>e DEF NewGeneration

\* CancelJob: the generation is recorded as dropped.
LEMMA LedgerCancel ==
    ASSUME Shape, Shape', Ledger, NEW c \in Jobs, CancelJob(c), bounds'.ids = bounds.ids
    PROVE Ledger'
<1>1. /\ job[c].status = "pending" /\ job' = [job EXCEPT ![c] = NoJob]
      /\ dropped' = dropped \cup {<<job[c].brief, job[c].gen>>}
      /\ UNCHANGED <<event, brief, worker>>
  BY DEF CancelJob, calVars
<1>2. job'[c] = NoJob /\ \A j \in Jobs : j # c => job'[j] = job[j]  BY <1>1 DEF Shape, Types
<1>3. Evolves
  <2>1. bounds'.ids >= bounds.ids /\ \A p \in Pairs : brief[p].gen >= brief[p].gen  BY Numbers
  <2> QED  BY <1>1, <2>1 DEF Evolves
<1>4. StillSettled  BY <1>1 DEF StillSettled
<1>5. \A p \in Pairs : BriefOK(p)'  BY <1>1 DEF Ledger, BriefOK
<1>6. OneEach'  BY <1>1 DEF Ledger, OneEach
<1>7. \A j \in Jobs : job'[j] # NoJob => Ticket(job[j])'  BY <1>2, <1>3, RowsKept
<1>8. \A w \in Workers : worker[w].pc # "idle" => job'[worker[w].job] = job[worker[w].job]
  BY <1>1, <1>2, BusyRow
<1>9. ASSUME NEW p \in Pairs, brief'[p].status = "pending" PROVE Owed(p)'
  <2>1. Owed(p) /\ brief'[p] = brief[p]  BY <1>1, <1>9 DEF Ledger
  <2>2. ASSUME NEW j \in Jobs, Active(j), job[j].brief = brief[p].id, job[j].gen = brief[p].gen
        PROVE Owed(p)'
    <3>1. CASE j = c  BY <1>1, <2>1, <2>2, <3>1 DEF Owed
    <3>2. CASE j # c
      <4>1. job'[j] = job[j]  BY <1>2, <3>2
      <4> QED  BY <2>1, <2>2, <4>1 DEF Owed, Active
    <3> QED  BY <3>1, <3>2
  <2> QED  BY <1>1, <2>1, <2>2 DEF Owed, Held
<1> QED  BY <1>1, <1>3, <1>4, <1>5, <1>6, <1>7, <1>8, <1>9, LedgerUnmoved

\* RetryPreBriefJob: no worker is about to complete the generation that is
\* pending again, for it would hold an active row of it.
LEMMA LedgerRetry ==
    ASSUME Shape, Shape', Ledger, NEW c \in Jobs, job[c].status = "failed", RetryPreBriefJob(c),
           bounds'.ids = bounds.ids
    PROVE Ledger'
<1>a. PICK k \in JobRec : k = job[c]  BY Numbers
<1>b. PICK p : p = k.pair  OBVIOUS
<1>c. k # NoJob  BY <1>a DEF NoJob
<1>d. Ticket(k) /\ p \in Pairs  BY <1>a, <1>b, <1>c DEF Ledger, Ticket
<1>e. k.brief \in Nat /\ k.gen \in Nat /\ bounds.ids \in Nat  BY Numbers
<1>1. /\ brief[p].id = k.brief /\ brief[p].gen = k.gen
      /\ MayEnqueue(k.brief, k.gen) /\ EnqueuePreGenerateJob(p, k.brief, k.gen)
      /\ brief' = [brief EXCEPT ![p].status = "pending"]
      /\ UNCHANGED <<event, worker, dropped>>
  BY <1>a, <1>b DEF RetryPreBriefJob, calVars
<1>2. /\ \A q \in Pairs : q # p => brief'[q] = brief[q]
      /\ brief'[p].id = brief[p].id /\ brief'[p].gen = brief[p].gen /\ brief'[p].status = "pending"
  <2>1. brief \in [Pairs -> BriefRec]  BY DEF Shape, Types
  <2> QED  BY <1>1, <1>d, <2>1 DEF BriefRec
<1>3. brief[p] # NoBrief /\ brief'[p] # NoBrief
  BY <1>1, <1>2, <1>d DEF Ticket, NoBrief
<1>4. Evolves
  <2>1. bounds'.ids >= bounds.ids /\ \A q \in Pairs : brief[q].gen >= brief[q].gen  BY Numbers
  <2> QED  BY <1>1, <1>2, <1>3, <2>1 DEF Evolves
<1>5. \A q \in Pairs : BriefOK(q)'
  <2>1. \A q \in Pairs : BriefOK(q) /\ brief'[q].id = brief[q].id /\ (brief'[q] # NoBrief => brief[q] # NoBrief)
    BY <1>2, <1>3 DEF Ledger
  <2> QED  BY <1>1, <2>1 DEF BriefOK
<1>6. OneEach'  BY <1>2, <1>3 DEF Ledger, OneEach
<1>7. PICK f \in Jobs :
             /\ job'[f].status = "pending" /\ job'[f].pair = p /\ job'[f].row = event[p[1]].row
             /\ job'[f].brief = k.brief /\ job'[f].gen = k.gen
             /\ \A j \in Jobs : j # f => job'[j] = job[j]
             /\ ~Active(f)
             /\ \A w \in Workers : worker[w].job # f
  BY <1>1, <1>d, <1>e, EnqueuedRows
<1>8. Ticket(job[f])'
  <2>1. Ticket(k)'  BY <1>4, <1>d, TicketLater
  <2>2. event[p[1]].row = k.row  BY <1>1, <1>d DEF Ticket
  <2> QED  BY <1>7, <1>b, <2>1, <2>2 DEF Ticket
<1>9. \A j \in Jobs : job'[j] # NoJob => Ticket(job[j])'  BY <1>4, <1>7, <1>8, RowsKept
<1>10. ASSUME NEW w \in Workers, worker[w].pc # "idle" PROVE WorkerOK(w)'
  <2>1. WorkerOK(w) /\ worker[w].job \in Jobs  BY <1>10 DEF Ledger, WorkerOK
  <2>2. job'[worker[w].job] = job[worker[w].job]  BY <1>7, <2>1
  <2>3. ASSUME worker[w].pc = "complete", IsCurrent(Held(w)) PROVE brief'[Held(w).pair].status # "pending"
    <3>1. Ticket(Held(w)) /\ brief[Held(w).pair].id = Held(w).brief /\ brief[Held(w).pair].gen = Held(w).gen
      BY <2>1, <2>3 DEF WorkerOK, IsCurrent
    <3>2. Held(w).pair \in Pairs  BY <3>1 DEF Ticket
    <3>3. CASE Held(w).pair # p
      <4>1. brief[Held(w).pair].status # "pending"  BY <2>1, <2>3 DEF WorkerOK, Current
      <4> QED  BY <1>2, <3>2, <3>3, <4>1
    <3>4. CASE Held(w).pair = p
      <4>1. Held(w).brief = k.brief /\ Held(w).gen = k.gen  BY <1>1, <3>1, <3>4
      <4>2. ~Gone(Held(w).brief)  BY <3>1, <3>2 DEF Gone
      <4>3. Row(w) = Held(w) /\ Held(w).status = "running"  BY <2>1, <2>3, <4>2 DEF WorkerOK
      <4>4. Active(worker[w].job) /\ job[worker[w].job].brief = k.brief /\ job[worker[w].job].gen = k.gen
        BY <4>1, <4>3 DEF Active, Row
      <4> QED  BY <1>1, <2>1, <4>4 DEF MayEnqueue
    <3> QED  BY <3>3, <3>4
  <2>4. worker'[w] = worker[w]  BY <1>1
  <2> QED  BY <1>4, <2>1, <2>2, <2>3, <2>4, WorkerKept
<1>11. ASSUME NEW q \in Pairs, brief'[q].status = "pending" PROVE Owed(q)'
  <2>1. CASE q = p  BY <1>1, <1>2, <1>7, <2>1 DEF Owed, Active
  <2>2. CASE q # p
    <3>1. brief'[q] = brief[q] /\ Owed(q)  BY <1>11, <1>2, <2>2 DEF Ledger
    <3>2. \A j \in Jobs : Active(j) => job'[j] = job[j]  BY <1>7
    <3> QED  BY <1>1, <3>1, <3>2 DEF Owed, Active, Held
  <2> QED  BY <2>1, <2>2
<1> QED  BY <1>1, <1>5, <1>6, <1>9, <1>10, <1>11 DEF Ledger, OneEach

\* A step of one worker.
LEMMA LedgerMoved ==
    ASSUME Shape, Shape', Ledger, Evolves, StillSettled, NEW w \in Workers,
           \A u \in Workers : u # w => worker'[u] = worker[u],
           \A p \in Pairs : BriefOK(p)', OneEach',
           \A j \in Jobs : job'[j] # NoJob => Ticket(job[j])',
           \A j \in Jobs : j # worker[w].job => job'[j] = job[j],
           worker[w].pc # "idle",
           worker'[w].pc # "idle" => worker'[w].job = worker[w].job /\ WorkerOK(w)',
           \A p \in Pairs : brief'[p].status = "pending" => Owed(p)'
    PROVE Ledger'
<1>1. ASSUME NEW u \in Workers, u # w, worker'[u].pc # "idle" PROVE WorkerOK(u)'
  <2>1. worker'[u] = worker[u]  BY <1>1
  <2>2. WorkerOK(u) /\ worker[u].job \in Jobs  BY <1>1, <2>1 DEF Ledger, WorkerOK
  <2>3. worker[u].job # worker[w].job  BY <1>1, <2>1 DEF Ledger
  <2>4. job'[worker[u].job] = job[worker[u].job]  BY <2>2, <2>3
  <2> QED  BY <2>1, <2>2, <2>4, WorkerKept
<1>2. \A u \in Workers : worker'[u].pc # "idle" => WorkerOK(u)'  BY <1>1
<1>3. \A u, v \in Workers : worker'[u].pc # "idle" /\ worker'[v].pc # "idle" /\ u # v
                               => worker'[u].job # worker'[v].job
  BY DEF Ledger
<1> QED  BY <1>2, <1>3 DEF Ledger, OneEach

\* Briefs, events and ids as they were.
LEMMA TablesStand ==
    ASSUME Shape, Ledger, UNCHANGED <<brief, event>>, bounds'.ids = bounds.ids
    PROVE Evolves /\ StillSettled /\ (\A p \in Pairs : BriefOK(p)') /\ OneEach'
<1>1. Evolves
  <2>1. bounds'.ids >= bounds.ids /\ \A p \in Pairs : brief[p].gen >= brief[p].gen  BY Numbers
  <2> QED  BY <2>1 DEF Evolves
<1>2. StillSettled  BY DEF StillSettled
<1>3. \A p \in Pairs : BriefOK(p)'  BY DEF Ledger, BriefOK
<1>4. OneEach'  BY DEF Ledger, OneEach
<1> QED  BY <1>1, <1>2, <1>3, <1>4

\* What a worker's move leaves alone.
Moves(w, pc) ==
    /\ \A u \in Workers : u # w => worker'[u] = worker[u]
    /\ worker'[w].pc = pc /\ worker'[w].job = worker[w].job /\ worker'[w].held = worker[w].held

\* Go only changes where the worker is.
LEMMA GoMoves ==
    ASSUME Shape, NEW w \in Workers, NEW pc, Go(w, pc)
    PROVE Moves(w, pc) /\ worker'[w].event = worker[w].event /\ worker'[w].content = worker[w].content
<1>1. worker \in [Workers -> WorkRec]  BY DEF Shape, Types
<1> QED  BY <1>1 DEF Go, Moves, WorkRec

\* Loading the event, writing the content and failing only change that.
LEMMA EditMoves ==
    ASSUME Shape, NEW w \in Workers, NEW pc \in Pcs
    PROVE /\ \A ev \in RowRec : worker' = [worker EXCEPT ![w].pc = pc, ![w].event = ev]
                => Moves(w, pc) /\ worker'[w].event = ev
          /\ \A c \in Hashes : worker' = [worker EXCEPT ![w].pc = pc, ![w].content = c]
                => Moves(w, pc) /\ worker'[w].content = c
          /\ \A b \in BOOLEAN : worker' = [worker EXCEPT ![w].pc = pc, ![w].retryable = b]
                => Moves(w, pc)
<1>1. worker \in [Workers -> WorkRec] /\ worker[w] \in WorkRec  BY DEF Shape, Types
<1>2. ASSUME NEW ev \in RowRec, worker' = [worker EXCEPT ![w].pc = pc, ![w].event = ev]
      PROVE Moves(w, pc) /\ worker'[w].event = ev
  <2>1. worker' = [worker EXCEPT ![w] = [worker[w] EXCEPT !.pc = pc, !.event = ev]]
    BY <1>1, <1>2, EditEvent
  <2>2. worker'[w] = [worker[w] EXCEPT !.pc = pc, !.event = ev]
        /\ \A u \in Workers : u # w => worker'[u] = worker[u]
    BY <1>1, <2>1
  <2> QED  BY <1>1, <2>2 DEF Moves, WorkRec
<1>3. ASSUME NEW c \in Hashes, worker' = [worker EXCEPT ![w].pc = pc, ![w].content = c]
      PROVE Moves(w, pc) /\ worker'[w].content = c
  <2>1. worker' = [worker EXCEPT ![w] = [worker[w] EXCEPT !.pc = pc, !.content = c]]
    BY <1>1, <1>3, EditContent
  <2>2. worker'[w] = [worker[w] EXCEPT !.pc = pc, !.content = c]
        /\ \A u \in Workers : u # w => worker'[u] = worker[u]
    BY <1>1, <2>1
  <2> QED  BY <1>1, <2>2 DEF Moves, WorkRec
<1>4. ASSUME NEW b \in BOOLEAN, worker' = [worker EXCEPT ![w].pc = pc, ![w].retryable = b]
      PROVE Moves(w, pc)
  <2>1. worker' = [worker EXCEPT ![w] = [worker[w] EXCEPT !.pc = pc, !.retryable = b]]
    BY <1>1, <1>4, EditRetryable
  <2>2. worker'[w] = [worker[w] EXCEPT !.pc = pc, !.retryable = b]
        /\ \A u \in Workers : u # w => worker'[u] = worker[u]
    BY <1>1, <2>1
  <2> QED  BY <1>1, <2>2 DEF Moves, WorkRec
<1> QED  BY <1>2, <1>3, <1>4

\* The terminal worker that owes a brief its verdict, if no terminal worker moves.
LEMMA OwedStays ==
    ASSUME NEW w \in Workers, worker[w].pc # "terminal",
           \A u \in Workers : u # w => worker'[u] = worker[u],
           NEW p \in Pairs, Owed(p), brief'[p].id = brief[p].id, brief'[p].gen = brief[p].gen,
           dropped \subseteq dropped',
           \A j \in Jobs : Active(j) /\ job[j].brief = brief[p].id /\ job[j].gen = brief[p].gen => Owed(p)'
    PROVE Owed(p)'
<1>1. ASSUME NEW u \in Workers, worker[u].pc = "terminal", Held(u).brief = brief[p].id,
             Held(u).gen = brief[p].gen
      PROVE Owed(p)'
  <2>1. worker'[u] = worker[u]  BY <1>1
  <2> QED  BY <1>1, <2>1 DEF Owed, Held
<1> QED  BY <1>1 DEF Owed

\* A worker that moves on over tables that stand.
LEMMA LedgerMoves ==
    ASSUME Shape, Shape', Ledger, NEW w \in Workers, worker[w].pc \notin {"idle", "terminal"},
           NEW pc, pc \notin {"idle", "terminal"}, Moves(w, pc), pc = "complete" => ~Current(w),
           UNCHANGED <<brief, job, event, dropped>>, bounds'.ids = bounds.ids
    PROVE Ledger'
<1>1. Evolves /\ StillSettled /\ (\A p \in Pairs : BriefOK(p)') /\ OneEach'  BY TablesStand
<1>2. \A j \in Jobs : job'[j] # NoJob => Ticket(job[j])'  BY <1>1, RowsKept
<1>3. PICK k \in JobRec : k = Held(w)  BY Numbers
<1>4. Held(w)' = k /\ Row(w)' = Row(w)  BY <1>3 DEF Held, Row, Moves
<1>5. WorkerOK(w) /\ Ticket(k)  BY <1>3 DEF Ledger, WorkerOK
<1>6. Ticket(k)' /\ (Gone(k.brief) => Gone(k.brief)') /\ (IsCurrent(k)' => IsCurrent(k))
  BY <1>1, <1>5, TicketLater
<1>7. WorkerOK(w)'
  <2>1. worker'[w].job \in Jobs  BY <1>5 DEF WorkerOK, Moves
  <2>2. Ticket(Held(w))'
    <3>1. Ticket(Held(w))' <=> Ticket(k)'  BY <1>4 DEF Ticket
    <3> QED  BY <1>6, <3>1
  <2>3. \/ Row(w)' = Held(w)' /\ Held(w)'.status = "running"
        \/ Row(w)' = NoJob /\ Gone(Held(w).brief)'
    <3>1. Gone(Held(w).brief)' <=> Gone(k.brief)'  BY <1>4 DEF Gone
    <3> QED  BY <1>3, <1>4, <1>5, <1>6, <3>1 DEF WorkerOK
  <2>4. worker'[w].pc = "complete" => ~Current(w)'
    BY <1>3, <1>4, <1>6 DEF Current, IsCurrent, Moves
  <2> QED  BY <2>1, <2>2, <2>3, <2>4 DEF WorkerOK, Moves
<1>8. ASSUME NEW p \in Pairs, brief'[p].status = "pending" PROVE Owed(p)'
  <2>1. Owed(p)  BY <1>8 DEF Ledger
  <2>2. ASSUME NEW j \in Jobs, Active(j), job[j].brief = brief[p].id, job[j].gen = brief[p].gen
        PROVE Owed(p)'
    BY <2>2 DEF Owed, Active
  <2> QED  BY <2>1, <2>2, OwedStays DEF Moves
<1> QED  BY <1>1, <1>2, <1>7, <1>8, LedgerMoved DEF Moves

\* ClaimJob: nobody else has the row.
LEMMA LedgerClaim ==
    ASSUME Shape, Shape', Ledger, NEW w \in Workers, NEW c \in Jobs, ClaimJob(w, c)
    PROVE Ledger'
<1>1. /\ worker[w].pc = "idle" /\ job[c].status = "pending"
      /\ UNCHANGED <<brief, event, dropped, bounds>>
  BY DEF ClaimJob, Stay, calVars
<1>2. /\ \A j \in Jobs : j # c => job'[j] = job[j]
      /\ job'[c].status = "running" /\ job'[c].pair = job[c].pair /\ job'[c].brief = job[c].brief
      /\ job'[c].gen = job[c].gen /\ job'[c].row = job[c].row
  <2>1. job \in [Jobs -> JobRec]  BY DEF Shape, Types
  <2>2. job' = [job EXCEPT ![c].status = "running", ![c].attempts = @ + 1]  BY DEF ClaimJob
  <2> QED  BY <2>1, <2>2 DEF JobRec
<1>3. /\ \A u \in Workers : u # w => worker'[u] = worker[u]
      /\ worker'[w].pc = "event" /\ worker'[w].job = c /\ worker'[w].held = job'[c]
  <2>1. worker \in [Workers -> WorkRec]  BY DEF Shape, Types
  <2>2. PICK k : k = job'[c]  OBVIOUS
  <2>3. worker' = [worker EXCEPT ![w] = [Idle EXCEPT !.pc = "event", !.job = c, !.held = k]]
    BY <2>2 DEF ClaimJob
  <2>4. worker'[w] = [Idle EXCEPT !.pc = "event", !.job = c, !.held = k]  BY <2>1, <2>3
  <2>5. worker'[w].pc = "event" /\ worker'[w].job = c /\ worker'[w].held = k  BY <2>4 DEF Idle
  <2> QED  BY <2>1, <2>2, <2>3, <2>5
<1>4. Evolves /\ StillSettled /\ (\A p \in Pairs : BriefOK(p)') /\ OneEach'  BY <1>1, TablesStand
<1>5. \A j \in Jobs : job'[j] # NoJob => Ticket(job[j])'
  <2>1. job[c] # NoJob  BY <1>1 DEF NoJob
  <2> QED  BY <1>2, <1>4, <2>1, RowsKept
<1>6. WorkerOK(w)'
  <2>1. Row(w)' = job'[c] /\ Held(w)' = job'[c]  BY <1>3 DEF Row, Held
  <2>2. job'[c] # NoJob  BY <1>2 DEF NoJob
  <2>3. Ticket(Held(w))'
    <3>1. Ticket(job[c])'  BY <1>5, <2>2
    <3> QED  BY <2>1, <3>1 DEF Ticket
  <2> QED  BY <1>2, <1>3, <2>1, <2>3 DEF WorkerOK
<1>7. \A u \in Workers : u # w /\ worker[u].pc # "idle" => worker[u].job # c
  BY <1>1, BusyRow
<1>8. ASSUME NEW u \in Workers, u # w, worker'[u].pc # "idle" PROVE WorkerOK(u)'
  <2>1. worker'[u] = worker[u]  BY <1>3, <1>8
  <2>2. WorkerOK(u) /\ worker[u].job \in Jobs  BY <1>8, <2>1 DEF Ledger, WorkerOK
  <2>3. job'[worker[u].job] = job[worker[u].job]  BY <1>2, <1>7, <1>8, <2>1, <2>2
  <2> QED  BY <1>4, <2>1, <2>2, <2>3, WorkerKept
<1>9. \A u, v \in Workers : worker'[u].pc # "idle" /\ worker'[v].pc # "idle" /\ u # v
                               => worker'[u].job # worker'[v].job
  BY <1>3, <1>7 DEF Ledger
<1>10. ASSUME NEW p \in Pairs, brief'[p].status = "pending" PROVE Owed(p)'
  <2>1. Owed(p) /\ brief'[p] = brief[p]  BY <1>1, <1>10 DEF Ledger
  <2>2. ASSUME NEW j \in Jobs, Active(j), job[j].brief = brief[p].id, job[j].gen = brief[p].gen
        PROVE Owed(p)'
    <3>1. CASE j = c  BY <1>2, <2>1, <2>2, <3>1 DEF Owed, Active
    <3>2. CASE j # c
      <4>1. job'[j] = job[j]  BY <1>2, <3>2
      <4> QED  BY <2>1, <2>2, <4>1 DEF Owed, Active
    <3> QED  BY <3>1, <3>2
  <2>3. worker[w].pc # "terminal" /\ dropped \subseteq dropped'  BY <1>1
  <2> QED  BY <1>3, <2>1, <2>2, <2>3, OwedStays
<1>11. \A u \in Workers : worker'[u].pc # "idle" => WorkerOK(u)'  BY <1>6, <1>8
<1> QED  BY <1>4, <1>5, <1>9, <1>10, <1>11 DEF Ledger, OneEach

\* A verdict on the current generation of a pair.
LEMMA Verdict ==
    ASSUME Shape, Ledger, NEW p \in Pairs, brief[p] # NoBrief,
           \A q \in Pairs : q # p => brief'[q] = brief[q],
           brief'[p].id = brief[p].id, brief'[p].gen = brief[p].gen, brief'[p].status # "pending",
           event' = event, bounds'.ids = bounds.ids
    PROVE Evolves /\ StillSettled /\ (\A q \in Pairs : BriefOK(q)') /\ OneEach'
<1>0. brief[p].id >= 1  BY DEF Ledger, BriefOK
<1>1. brief'[p] # NoBrief  BY <1>0 DEF NoBrief
<1>2. Evolves
  <2>1. bounds'.ids >= bounds.ids /\ \A q \in Pairs : brief[q].gen >= brief[q].gen  BY Numbers
  <2> QED  BY <2>1 DEF Evolves
<1>3. StillSettled  BY DEF StillSettled
<1>4. \A q \in Pairs : BriefOK(q)'  BY DEF Ledger, BriefOK
<1>5. OneEach'
  <2> SUFFICES ASSUME NEW q \in Pairs, NEW r \in Pairs, brief'[q] # NoBrief, brief'[q].id = brief'[r].id
               PROVE q = r
    BY DEF OneEach
  <2>1. brief[q] # NoBrief /\ brief[q].id = brief[r].id  OBVIOUS
  <2> QED  BY <2>1 DEF Ledger
<1> QED  BY <1>2, <1>3, <1>4, <1>5

\* PublishEventBrief: the worker completes what it has settled.
LEMMA LedgerPublish ==
    ASSUME Shape, Shape', Ledger, NEW w \in Workers, PublishEventBrief(w)
    PROVE Ledger'
<1>1. /\ worker[w].pc = "generate" /\ Go(w, "complete") /\ UNCHANGED <<event, job, dropped, bounds>>
  BY DEF PublishEventBrief, Stay, calVars
<1>2. Moves(w, "complete")  BY <1>1, GoMoves
<1>3. CASE ~Current(w)
  <2>1. UNCHANGED brief  BY <1>3 DEF PublishEventBrief
  <2> QED  BY <1>1, <1>2, <1>3, <2>1, LedgerMoves
<1>4. CASE Current(w)
  <2>1. PICK k \in JobRec : k = Held(w)  BY Numbers
  <2>2. WorkerOK(w) /\ Ticket(k)  BY <1>1, <2>1 DEF Ledger, WorkerOK
  <2>3. k.pair \in Pairs /\ k.brief >= 1  BY <2>2 DEF Ticket
  <2>4. brief[k.pair].id = k.brief /\ brief[k.pair] # NoBrief
    BY <1>4, <2>1, <2>3 DEF Current, IsCurrent, NoBrief
  <2>5. /\ \A q \in Pairs : q # k.pair => brief'[q] = brief[q]
        /\ brief'[k.pair].id = brief[k.pair].id /\ brief'[k.pair].gen = brief[k.pair].gen
        /\ brief'[k.pair].status = "ready"
    <3>1. brief \in [Pairs -> BriefRec]  BY DEF Shape, Types
    <3>2. brief' = [brief EXCEPT ![k.pair].status = "ready", ![k.pair].content = worker[w].content]
      BY <1>4, <2>1 DEF PublishEventBrief
    <3> QED  BY <2>3, <3>1, <3>2 DEF BriefRec
  <2>6. Evolves /\ StillSettled /\ (\A p \in Pairs : BriefOK(p)') /\ OneEach'
    BY <1>1, <2>3, <2>4, <2>5, Verdict
  <2>7. \A j \in Jobs : job'[j] # NoJob => Ticket(job[j])'  BY <1>1, <2>6, RowsKept
  <2>8. Held(w)' = k /\ Row(w)' = Row(w)  BY <1>1, <1>2, <2>1 DEF Held, Row, Moves
  <2>9. Ticket(k)' /\ (Gone(k.brief) => Gone(k.brief)')  BY <2>2, <2>6, TicketLater
  <2>10. WorkerOK(w)'
    <3>1. worker'[w].job \in Jobs  BY <1>2, <2>2 DEF WorkerOK, Moves
    <3>2. Ticket(Held(w))'
      <4>1. Ticket(Held(w))' <=> Ticket(k)'  BY <2>8 DEF Ticket
      <4> QED  BY <2>9, <4>1
    <3>3. \/ Row(w)' = Held(w)' /\ Held(w)'.status = "running"
          \/ Row(w)' = NoJob /\ Gone(Held(w).brief)'
      <4>1. Gone(Held(w).brief)' <=> Gone(k.brief)'  BY <2>8 DEF Gone
      <4> QED  BY <1>1, <2>1, <2>2, <2>8, <2>9, <4>1 DEF WorkerOK
    <3>4. brief'[Held(w)'.pair].status # "pending"  BY <2>5, <2>8
    <3> QED  BY <1>2, <3>1, <3>2, <3>3, <3>4 DEF WorkerOK, Moves
  <2>11. ASSUME NEW p \in Pairs, brief'[p].status = "pending" PROVE Owed(p)'
    <3>1. p # k.pair  BY <2>11, <2>5
    <3>2. brief'[p] = brief[p] /\ Owed(p)  BY <2>11, <2>5, <3>1 DEF Ledger
    <3>3. ASSUME NEW j \in Jobs, Active(j), job[j].brief = brief[p].id, job[j].gen = brief[p].gen
          PROVE Owed(p)'
      BY <1>1, <3>2, <3>3 DEF Owed, Active
    <3> QED  BY <1>1, <1>2, <3>2, <3>3, OwedStays DEF Moves
  <2> QED  BY <1>1, <1>2, <2>6, <2>7, <2>10, <2>11, LedgerMoved DEF Moves
<1> QED  BY <1>3, <1>4

\* CleanupIneligibleEventBriefIfCurrent: the brief goes, or is not the worker's.
LEMMA LedgerCleanup ==
    ASSUME Shape, Shape', Ledger, NEW w \in Workers, CleanupIneligibleEventBriefIfCurrent(w)
    PROVE Ledger'
<1>1. /\ worker[w].pc = "cleanup" /\ Go(w, "complete") /\ UNCHANGED <<event, dropped, bounds>>
  BY DEF CleanupIneligibleEventBriefIfCurrent, Stay, calVars
<1>2. Moves(w, "complete")  BY <1>1, GoMoves
<1>3. CASE ~Current(w)
  <2>1. UNCHANGED <<brief, job>>  BY <1>3 DEF CleanupIneligibleEventBriefIfCurrent
  <2> QED  BY <1>1, <1>2, <1>3, <2>1, LedgerMoves
<1>4. CASE Current(w)
  <2>1. PICK k \in JobRec : k = Held(w)  BY Numbers
  <2>2. WorkerOK(w) /\ Ticket(k)  BY <1>1, <2>1 DEF Ledger, WorkerOK
  <2>3. k.pair \in Pairs /\ k.brief >= 1  BY <2>2 DEF Ticket
  <2>4. DeleteBriefs({k.pair}) /\ {k.pair} \in SUBSET Pairs
    BY <1>4, <2>1, <2>3 DEF CleanupIneligibleEventBriefIfCurrent
  <2>5. /\ Evolves /\ StillSettled
        /\ \A p \in Pairs : BriefOK(p)'
        /\ OneEach'
        /\ \A j \in Jobs : job'[j] # NoJob => Ticket(job[j])'
        /\ \A u \in Workers : worker[u].pc # "idle" => job'[worker[u].job] = job[worker[u].job]
    BY <1>1, <2>4, DeleteParts
  <2>6. /\ \A p \in Pairs : brief'[p] = NoBrief \/ brief'[p] = brief[p]
        /\ brief'[k.pair] = NoBrief
        /\ \A p \in Pairs, j \in Jobs :
              brief'[p].status = "pending" /\ job[j].brief = brief[p].id => job'[j] = job[j]
    BY <1>1, <2>4, DeleteParts
  <2>8. Held(w)' = k /\ Row(w)' = Row(w)  BY <1>1, <1>2, <2>1, <2>5 DEF Held, Row, Moves
  <2>9. Ticket(k)' /\ (Gone(k.brief) => Gone(k.brief)')  BY <2>2, <2>5, TicketLater
  <2>10. WorkerOK(w)'
    <3>1. worker'[w].job \in Jobs  BY <1>2, <2>2 DEF WorkerOK, Moves
    <3>2. Ticket(Held(w))'
      <4>1. Ticket(Held(w))' <=> Ticket(k)'  BY <2>8 DEF Ticket
      <4> QED  BY <2>9, <4>1
    <3>3. \/ Row(w)' = Held(w)' /\ Held(w)'.status = "running"
          \/ Row(w)' = NoJob /\ Gone(Held(w).brief)'
      <4>1. Gone(Held(w).brief)' <=> Gone(k.brief)'  BY <2>8 DEF Gone
      <4> QED  BY <1>1, <2>1, <2>2, <2>8, <2>9, <4>1 DEF WorkerOK
    <3>4. brief'[Held(w)'.pair].status # "pending"  BY <2>6, <2>8 DEF NoBrief
    <3> QED  BY <1>2, <3>1, <3>2, <3>3, <3>4 DEF WorkerOK, Moves
  <2>11. ASSUME NEW p \in Pairs, brief'[p].status = "pending" PROVE Owed(p)'
    <3>1. brief'[p] = brief[p]  BY <2>11, <2>6 DEF NoBrief
    <3>2. Owed(p)  BY <2>11, <3>1 DEF Ledger
    <3>3. ASSUME NEW j \in Jobs, Active(j), job[j].brief = brief[p].id, job[j].gen = brief[p].gen
          PROVE Owed(p)'
      <4>1. job'[j] = job[j]  BY <2>11, <2>6, <3>3
      <4> QED  BY <3>1, <3>3, <4>1 DEF Owed, Active
    <3> QED  BY <1>1, <1>2, <3>1, <3>2, <3>3, OwedStays DEF Moves
  <2>12. ASSUME NEW u \in Workers, u # w, worker'[u].pc # "idle" PROVE WorkerOK(u)'
    <3>1. worker'[u] = worker[u]  BY <1>2, <2>12 DEF Moves
    <3>2. WorkerOK(u)  BY <2>12, <3>1 DEF Ledger
    <3> QED  BY <2>5, <2>12, <3>1, <3>2, WorkerKept
  <2>13. \A u, v \in Workers : worker'[u].pc # "idle" /\ worker'[v].pc # "idle" /\ u # v
                                 => worker'[u].job # worker'[v].job
    BY <1>1, <1>2 DEF Ledger, Moves
  <2>14. \A u \in Workers : worker'[u].pc # "idle" => WorkerOK(u)'  BY <2>10, <2>12
  <2> QED  BY <2>5, <2>11, <2>13, <2>14 DEF Ledger, OneEach
<1> QED  BY <1>3, <1>4

\* CompleteJob: what the row spoke of is settled.
LEMMA LedgerComplete ==
    ASSUME Shape, Shape', Ledger, NEW w \in Workers, CompleteJob(w)
    PROVE Ledger'
<1>1. /\ worker[w].pc = "complete" /\ job' = [job EXCEPT ![worker[w].job] = NoJob]
      /\ worker' = [worker EXCEPT ![w] = Idle]
      /\ UNCHANGED <<event, brief, dropped, bounds>>
  BY DEF CompleteJob, Stay, calVars
<1>2. WorkerOK(w) /\ worker[w].job \in Jobs /\ Ticket(Held(w))  BY <1>1 DEF Ledger, WorkerOK
<1>3. job'[worker[w].job] = NoJob /\ \A j \in Jobs : j # worker[w].job => job'[j] = job[j]
  BY <1>1, <1>2 DEF Shape, Types
<1>4. worker'[w] = Idle /\ \A u \in Workers : u # w => worker'[u] = worker[u]
  BY <1>1 DEF Shape, Types
<1>5. Evolves /\ StillSettled /\ (\A p \in Pairs : BriefOK(p)') /\ OneEach'  BY <1>1, TablesStand
<1>6. \A j \in Jobs : job'[j] # NoJob => Ticket(job[j])'  BY <1>3, <1>5, RowsKept
<1>7. ASSUME NEW p \in Pairs, brief'[p].status = "pending" PROVE Owed(p)'
  <2>1. Owed(p) /\ brief'[p] = brief[p]  BY <1>1, <1>7 DEF Ledger
  <2>2. ASSUME NEW j \in Jobs, Active(j), job[j].brief = brief[p].id, job[j].gen = brief[p].gen
        PROVE Owed(p)'
    <3>1. CASE j = worker[w].job
      <4>1. Row(w) # NoJob  BY <2>2, <3>1 DEF Row, Active, NoJob
      <4>2. Held(w).brief = brief[p].id /\ Held(w).gen = brief[p].gen
        BY <1>1, <1>2, <2>2, <3>1, <4>1 DEF WorkerOK, Row
      <4>3. p = Held(w).pair  BY <1>2, <4>2 DEF Ticket
      <4>4. Current(w)  BY <4>2, <4>3 DEF Current, IsCurrent
      <4> QED  BY <1>1, <1>2, <1>7, <4>3, <4>4 DEF WorkerOK
    <3>2. CASE j # worker[w].job
      <4>1. job'[j] = job[j]  BY <1>3, <3>2
      <4> QED  BY <2>1, <2>2, <4>1 DEF Owed, Active
    <3> QED  BY <3>1, <3>2
  <2>3. worker[w].pc # "terminal" /\ dropped \subseteq dropped'  BY <1>1
  <2> QED  BY <1>4, <2>1, <2>2, <2>3, OwedStays
<1>8. worker'[w].pc = "idle" /\ worker[w].pc # "idle"  BY <1>1, <1>4 DEF Idle
<1> QED  BY <1>3, <1>4, <1>5, <1>6, <1>7, <1>8, LedgerMoved

\* The row of a worker changes its status and nothing else.
LEMMA StatusEdit ==
    ASSUME Shape, NEW c \in Jobs, NEW st, job' = [job EXCEPT ![c].status = st]
    PROVE /\ \A j \in Jobs : j # c => job'[j] = job[j]
          /\ job'[c].status = st /\ job'[c].pair = job[c].pair /\ job'[c].brief = job[c].brief
          /\ job'[c].gen = job[c].gen /\ job'[c].row = job[c].row
<1>1. job \in [Jobs -> JobRec]  BY DEF Shape, Types
<1> QED  BY <1>1 DEF JobRec

\* A worker leaves its row to be claimed again, or finds that it is gone.
LEMMA LedgerYield ==
    ASSUME Shape, Shape', Ledger, NEW w \in Workers, worker[w].pc \notin {"idle", "terminal"},
           worker' = [worker EXCEPT ![w] = Idle],
           \/ job' = job
           \/ Row(w).status = "running" /\ job' = [job EXCEPT ![worker[w].job].status = "pending"],
           UNCHANGED <<event, brief>>, dropped \subseteq dropped', bounds'.ids = bounds.ids
    PROVE Ledger'
<1>1. WorkerOK(w) /\ worker[w].job \in Jobs  BY DEF Ledger, WorkerOK
<1>2. worker'[w] = Idle /\ \A u \in Workers : u # w => worker'[u] = worker[u]
  BY DEF Shape, Types
<1>3. Evolves /\ StillSettled /\ (\A p \in Pairs : BriefOK(p)') /\ OneEach'  BY TablesStand
<1>4. \A j \in Jobs : /\ j # worker[w].job => job'[j] = job[j]
                      /\ job'[j] # job[j] => job[j].status = "running" /\ job'[j].status = "pending"
                      /\ job'[j].pair = job[j].pair /\ job'[j].brief = job[j].brief
                      /\ job'[j].gen = job[j].gen /\ job'[j].row = job[j].row
  <2>1. CASE job' = job  BY <2>1
  <2>2. CASE Row(w).status = "running" /\ job' = [job EXCEPT ![worker[w].job].status = "pending"]
    <3>1. /\ \A j \in Jobs : j # worker[w].job => job'[j] = job[j]
          /\ job'[worker[w].job].status = "pending"
          /\ job'[worker[w].job].pair = job[worker[w].job].pair
          /\ job'[worker[w].job].brief = job[worker[w].job].brief
          /\ job'[worker[w].job].gen = job[worker[w].job].gen
          /\ job'[worker[w].job].row = job[worker[w].job].row
      BY <1>1, <2>2, StatusEdit
    <3> QED  BY <1>1, <2>2, <3>1 DEF Row
  <2> QED  BY <2>1, <2>2
<1>5. \A j \in Jobs : job'[j] # NoJob => Ticket(job[j])'
  <2>1. \A j \in Jobs : job'[j] # NoJob => job[j] # NoJob  BY <1>4 DEF NoJob
  <2> QED  BY <1>3, <1>4, <2>1, RowsKept
<1>6. ASSUME NEW p \in Pairs, brief'[p].status = "pending" PROVE Owed(p)'
  <2>1. Owed(p)  BY <1>6 DEF Ledger
  <2>2. ASSUME NEW j \in Jobs, Active(j), job[j].brief = brief[p].id, job[j].gen = brief[p].gen
        PROVE Owed(p)'
    <3>1. Active(j)'  BY <1>4, <2>2 DEF Active
    <3>2. job'[j].brief = brief'[p].id /\ job'[j].gen = brief'[p].gen  BY <1>4, <2>2
    <3> QED  BY <3>1, <3>2 DEF Owed
  <2> QED  BY <1>2, <2>1, <2>2, OwedStays
<1>7. worker'[w].pc = "idle"  BY <1>2 DEF Idle
<1> QED  BY <1>2, <1>3, <1>4, <1>5, <1>6, <1>7, LedgerMoved

\* FailJob: the last failure leaves the worker owing the brief its verdict.
LEMMA LedgerFail ==
    ASSUME Shape, Shape', Ledger, NEW w \in Workers, FailJob(w)
    PROVE Ledger'
<1>1. worker[w].pc = "fail" /\ UNCHANGED <<event, brief, dropped, bounds>>
  BY DEF FailJob, Stay, calVars
<1>2. PICK k \in JobRec : k = Held(w)  BY Numbers
<1>3. WorkerOK(w) /\ worker[w].job \in Jobs /\ Ticket(k)  BY <1>1, <1>2 DEF Ledger, WorkerOK
<1>4. CASE worker' = [worker EXCEPT ![w] = Idle] /\ UNCHANGED job
  BY <1>1, <1>4, LedgerYield
<1>5. CASE /\ Row(w) # NoJob /\ worker' = [worker EXCEPT ![w] = Idle]
           /\ job' = [job EXCEPT ![worker[w].job].status = "pending"]
  <2>1. Row(w).status = "running"  BY <1>1, <1>3, <1>5 DEF WorkerOK
  <2> QED  BY <1>1, <1>5, <2>1, LedgerYield
<1>6. CASE /\ Row(w) # NoJob /\ Go(w, "terminal")
           /\ job' = [job EXCEPT ![worker[w].job].status = "failed"]
  <2>0. Row(w) = k /\ k.status = "running"  BY <1>1, <1>2, <1>3, <1>6 DEF WorkerOK
  <2>1. /\ \A j \in Jobs : j # worker[w].job => job'[j] = job[j]
        /\ job'[worker[w].job].status = "failed"
        /\ job'[worker[w].job].pair = job[worker[w].job].pair
        /\ job'[worker[w].job].brief = job[worker[w].job].brief
        /\ job'[worker[w].job].gen = job[worker[w].job].gen
        /\ job'[worker[w].job].row = job[worker[w].job].row
    BY <1>3, <1>6, StatusEdit
  <2>2. Moves(w, "terminal")  BY <1>6, GoMoves
  <2>3. Evolves /\ StillSettled /\ (\A p \in Pairs : BriefOK(p)') /\ OneEach'  BY <1>1, TablesStand
  <2>4. \A j \in Jobs : job'[j] # NoJob => Ticket(job[j])'
    BY <1>6, <2>1, <2>3, RowsKept DEF Row
  <2>5. Held(w)' = k  BY <1>2, <2>2 DEF Held, Moves
  <2>6. WorkerOK(w)'
    <3>1. Ticket(k)'  BY <1>3, <2>3, TicketLater
    <3>2. Ticket(Held(w))'  BY <2>5, <3>1 DEF Ticket
    <3>3. worker'[w].job = worker[w].job /\ worker'[w].pc = "terminal"  BY <2>2 DEF Moves
    <3> QED  BY <1>3, <2>1, <3>2, <3>3 DEF WorkerOK, Active
  <2>7. ASSUME NEW p \in Pairs, brief'[p].status = "pending" PROVE Owed(p)'
    <3>1. Owed(p) /\ brief'[p] = brief[p]  BY <1>1, <2>7 DEF Ledger
    <3>2. ASSUME NEW j \in Jobs, Active(j), job[j].brief = brief[p].id, job[j].gen = brief[p].gen
          PROVE Owed(p)'
      <4>1. CASE j = worker[w].job
        <5>1. k.brief = brief[p].id /\ k.gen = brief[p].gen  BY <2>0, <3>2, <4>1 DEF Row
        <5> QED  BY <2>2, <2>5, <3>1, <5>1 DEF Owed, Moves
      <4>2. CASE j # worker[w].job
        <5>1. job'[j] = job[j]  BY <2>1, <4>2
        <5> QED  BY <3>1, <3>2, <5>1 DEF Owed, Active
      <4> QED  BY <4>1, <4>2
    <3>3. worker[w].pc # "terminal" /\ dropped \subseteq dropped'  BY <1>1
    <3> QED  BY <2>2, <3>1, <3>2, <3>3, OwedStays DEF Moves
  <2>8. worker[w].pc # "idle"  BY <1>1
  <2> QED  BY <2>1, <2>2, <2>3, <2>4, <2>6, <2>7, <2>8, LedgerMoved DEF Moves
<1> QED  BY <1>4, <1>5, <1>6 DEF FailJob

\* A terminal worker that leaves, when the brief it owed a verdict has it or is
\* recorded as dropped.
LEMMA LedgerLeave ==
    ASSUME Shape, Shape', Ledger, NEW w \in Workers, worker[w].pc = "terminal",
           worker' = [worker EXCEPT ![w] = Idle], job' = job, dropped \subseteq dropped',
           Evolves /\ StillSettled /\ (\A p \in Pairs : BriefOK(p)') /\ OneEach',
           \A p \in Pairs : brief'[p].status = "pending" =>
              /\ brief[p].status = "pending" /\ brief'[p].id = brief[p].id /\ brief'[p].gen = brief[p].gen
              /\ \/ Held(w).brief # brief[p].id \/ Held(w).gen # brief[p].gen
                 \/ <<Held(w).brief, Held(w).gen>> \in dropped'
    PROVE Ledger'
<1>1. worker'[w] = Idle /\ \A u \in Workers : u # w => worker'[u] = worker[u]
  BY DEF Shape, Types
<1>2. \A j \in Jobs : job'[j] # NoJob => Ticket(job[j])'  BY RowsKept
<1>3. ASSUME NEW p \in Pairs, brief'[p].status = "pending" PROVE Owed(p)'
  <2>1. Owed(p) /\ brief'[p].id = brief[p].id /\ brief'[p].gen = brief[p].gen  BY <1>3 DEF Ledger
  <2>2. ASSUME NEW u \in Workers, worker[u].pc = "terminal", Held(u).brief = brief[p].id,
               Held(u).gen = brief[p].gen
        PROVE Owed(p)'
    <3>1. CASE u = w
      <4>1. <<brief[p].id, brief[p].gen>> \in dropped'  BY <1>3, <2>2, <3>1
      <4> QED  BY <2>1, <4>1 DEF Owed
    <3>2. CASE u # w
      <4>1. worker'[u] = worker[u]  BY <1>1, <3>2
      <4> QED  BY <2>1, <2>2, <4>1 DEF Owed, Held
    <3> QED  BY <3>1, <3>2
  <2>3. ASSUME NEW j \in Jobs, Active(j), job[j].brief = brief[p].id, job[j].gen = brief[p].gen
        PROVE Owed(p)'
    BY <2>1, <2>3 DEF Owed, Active
  <2> QED  BY <2>1, <2>2, <2>3 DEF Owed
<1>4. worker'[w].pc = "idle" /\ worker[w].pc # "idle"  BY <1>1 DEF Idle
<1> QED  BY <1>1, <1>2, <1>3, <1>4, LedgerMoved

\* handlePreGenerateTerminalFailure gives that verdict.
LEMMA LedgerTerminal ==
    ASSUME Shape, Shape', Ledger, NEW w \in Workers, HandlePreGenerateTerminalFailure(w)
    PROVE Ledger'
<1>1. /\ worker[w].pc = "terminal" /\ worker' = [worker EXCEPT ![w] = Idle]
      /\ UNCHANGED <<event, job, dropped, bounds>>
  BY DEF HandlePreGenerateTerminalFailure, Stay, calVars
<1>2. PICK k \in JobRec : k = Held(w)  BY Numbers
<1>3. Ticket(k)  BY <1>1, <1>2 DEF Ledger, WorkerOK
<1>4. k.pair \in Pairs /\ k.brief >= 1  BY <1>3 DEF Ticket
<1>5. ASSUME NEW p \in Pairs, k.brief = brief[p].id, k.gen = brief[p].gen PROVE p = k.pair /\ Current(w)
  <2>1. p = k.pair  BY <1>3, <1>5 DEF Ticket
  <2> QED  BY <1>2, <1>5, <2>1 DEF Current, IsCurrent
<1>6. CASE ~Current(w)
  <2>1. UNCHANGED brief  BY <1>6 DEF HandlePreGenerateTerminalFailure
  <2>2. Evolves /\ StillSettled /\ (\A p \in Pairs : BriefOK(p)') /\ OneEach'  BY <1>1, <2>1, TablesStand
  <2> QED  BY <1>1, <1>2, <1>5, <1>6, <2>1, <2>2, LedgerLeave
<1>7. CASE Current(w)
  <2>1. brief[k.pair].id = k.brief /\ brief[k.pair] # NoBrief
    BY <1>2, <1>4, <1>7 DEF Current, IsCurrent, NoBrief
  <2>2. /\ \A q \in Pairs : q # k.pair => brief'[q] = brief[q]
        /\ brief'[k.pair].id = brief[k.pair].id /\ brief'[k.pair].gen = brief[k.pair].gen
        /\ brief'[k.pair].status = "failed"
    <3>1. brief \in [Pairs -> BriefRec]  BY DEF Shape, Types
    <3>2. brief' = [brief EXCEPT ![k.pair].status = "failed"]
      BY <1>2, <1>7 DEF HandlePreGenerateTerminalFailure
    <3> QED  BY <1>4, <3>1, <3>2 DEF BriefRec
  <2>3. Evolves /\ StillSettled /\ (\A p \in Pairs : BriefOK(p)') /\ OneEach'
    BY <1>1, <1>4, <2>1, <2>2, Verdict
  <2>4. \A p \in Pairs : brief'[p].status = "pending" =>
              /\ brief[p].status = "pending" /\ brief'[p].id = brief[p].id /\ brief'[p].gen = brief[p].gen
              /\ \/ Held(w).brief # brief[p].id \/ Held(w).gen # brief[p].gen
                 \/ <<Held(w).brief, Held(w).gen>> \in dropped'
    BY <1>2, <1>5, <2>2
  <2> QED  BY <1>1, <2>3, <2>4, LedgerLeave
<1> QED  BY <1>6, <1>7

\* A crash leaves a running row pending and records a verdict that is lost.
LEMMA LedgerCrash ==
    ASSUME Shape, Shape', Ledger, NEW w \in Workers, Crash(w)
    PROVE Ledger'
<1>1. /\ worker[w].pc # "idle" /\ worker' = [worker EXCEPT ![w] = Idle]
      /\ UNCHANGED <<event, brief>> /\ dropped \subseteq dropped' /\ bounds'.ids = bounds.ids
  <2>1. bounds \in [changes: Nat, crashes: Nat, admin: Nat, ids: Nat]  BY DEF Shape, Types, TableTypes
  <2> QED  BY <2>1 DEF Crash, Stay, calVars
<1>2. WorkerOK(w) /\ worker[w].job \in Jobs  BY <1>1 DEF Ledger, WorkerOK
<1>3. CASE worker[w].pc # "terminal"
  <2>1. \/ job' = job
        \/ Row(w).status = "running" /\ job' = [job EXCEPT ![worker[w].job].status = "pending"]
    BY DEF Crash
  <2> QED  BY <1>1, <1>3, <2>1, LedgerYield
<1>4. CASE worker[w].pc = "terminal"
  <2>1. job' = job
    <3>1. Row(w).status # "running"  BY <1>2, <1>4 DEF WorkerOK, Row, Active
    <3> QED  BY <3>1 DEF Crash
  <2>2. <<Held(w).brief, Held(w).gen>> \in dropped'  BY <1>4 DEF Crash
  <2>3. Evolves /\ StillSettled /\ (\A p \in Pairs : BriefOK(p)') /\ OneEach'  BY <1>1, TablesStand
  <2> QED  BY <1>1, <1>4, <2>1, <2>2, <2>3, LedgerLeave
<1> QED  BY <1>3, <1>4

\* The calendar's steps: the ledger is kept.
LEMMA LedgerCalendar ==
    ASSUME Shape, Shape', Ledger,
           CalendarStep \/ \E s \in Syncers : StartCalendarScheduler(s) \/ SyncStep(s) \/ FetchFault(s)
    PROVE Ledger'
<1>1. ASSUME Calm,
             \/ Tick \/ ClearNoteEvent \/ SetSelectedCalendars
             \/ \E e \in Events : UpstreamEdit(e) \/ SetNoteEvent(e)
             \/ \E s \in Syncers : CreateSource(s) \/ KickCalendarSync(s) \/ SyncAllSourcesOnce(s)
                                   \/ FetchEvents(s) \/ FetchFails(s)
      PROVE Ledger'
  <2>1. CalTypes  BY DEF Shape, Types
  <2>2. UNCHANGED <<event, rows>>  BY <1>1, <2>1, CalmStep
  <2> QED  BY <1>1, <2>2, LedgerQuiet DEF Calm, briefVars
<1>2. CASE HandleDeleteCalendarSource
  <2>1. Drop(Events) /\ CascadeEvents /\ UNCHANGED <<rows, worker, dropped, bounds>>
    BY <1>2 DEF HandleDeleteCalendarSource, DeleteSource
  <2>2. \A e \in Events : event'[e] = NoRow \/ event'[e] = event[e]  BY <2>1, DropShape
  <2> QED  BY <2>1, <2>2, LedgerCascade
<1>3. ASSUME NEW s \in Syncers, PruneEvents(s), CascadeEvents,
             UNCHANGED <<template, agent, pass, worker, dropped, overlap, bounds>>
      PROVE Ledger'
  <2>1. PICK S : Drop(S)  BY <1>3 DEF PruneEvents
  <2>2. UNCHANGED rows  BY <1>3 DEF PruneEvents
  <2>3. \A e \in Events : event'[e] = NoRow \/ event'[e] = event[e]  BY <2>1, <2>2, DropShape
  <2> QED  BY <1>3, <2>3, LedgerCascade
<1>4. ASSUME NEW s \in Syncers, UpsertEvents(s),
             UNCHANGED <<template, agent, brief, job, pass, worker, dropped, bounds>>
      PROVE Ledger'
  <2>1. \A e \in Events : event[e] # NoRow => event'[e] # NoRow /\ event'[e].row = event[e].row
    BY <1>4, UpsertShape
  <2> QED  BY <1>4, <2>1, LedgerQuiet
<1>5. CASE CalendarStep
  BY <1>1, <1>2, <1>5 DEF CalendarStep, HandleSetNoteEvent, HandleClearNoteEvent,
       HandleSelectCalendarSource, HandleCreateCalendarSource, HandleRefreshCalendar
<1>6. ASSUME NEW s \in Syncers, StartCalendarScheduler(s) \/ SyncStep(s) \/ FetchFault(s) PROVE Ledger'
  <2>1. CASE StartCalendarScheduler(s)  BY <1>1, <2>1 DEF StartCalendarScheduler
  <2>2. CASE FetchFault(s)  BY <1>1, <2>2 DEF FetchFault
  <2>3. CASE SyncStep(s)  BY <1>1, <1>3, <1>4, <2>3 DEF SyncStep
  <2> QED  BY <1>6, <2>1, <2>2, <2>3
<1> QED  BY <1>5, <1>6

\* A pair that is reconciled is one of a stored event.
LEMMA ReferableIsStored ==
    ASSUME Shape, NEW s \in Syncers, pass[s].phase = "pairs", NEW p \in pass[s].todo,
           event[p[1]].row = Batched(s, p[1]).row
    PROVE event[p[1]] # NoRow
<1>1. PICK b \in pass[s].batch : b[1] = p[1] /\ Batched(s, p[1]) = b[2]  BY HashKnown
<1>2. b[2].row >= 1  BY DEF Shape, PassOK, PassRight
<1> QED  BY <1>1, <1>2 DEF NoRow

\* The steps of a reconciliation: the ledger is kept.
LEMMA LedgerReconcile ==
    ASSUME Shape, Shape', Ledger, NEW s \in Syncers, ReconcileStep(s) \/ DefaultPluginFails(s) \/ ReconcileFault(s) PROVE Ledger'
<1>0. \A e \in Events : event[e] # NoRow => event[e] # NoRow /\ event[e].row = event[e].row  OBVIOUS
<1>1. CASE \/ ReconcilePreBriefs(s) \/ UpcomingEventsForSourceBatch(s) \/ NextPage(s) \/ FinishSync(s)
           \/ ResolveDefaultAgentIdentity(s) \/ DefaultPluginFails(s) \/ ReconcileFault(s)
  <2>1. UNCHANGED <<event, brief, job, worker, dropped, bounds>>
    BY <1>1 DEF ReconcilePreBriefs, ResolveDefaultAgentIdentity, DefaultPluginFails,
         UpcomingEventsForSourceBatch, NextPage, FinishSync, ReconcileFault,
         UpdateSourceStatus, SyncFails, calVars
  <2> QED  BY <2>1, LedgerQuiet
<1>2. CASE DeleteEventBriefsOutsideWindow(s)
  <2>1. PICK S \in SUBSET Pairs : DeleteBriefs(S)  BY <1>2 DEF DeleteEventBriefsOutsideWindow
  <2>2. UNCHANGED <<event, worker, dropped, bounds>>  BY <1>2 DEF DeleteEventBriefsOutsideWindow, calVars
  <2> QED  BY <2>1, <2>2, LedgerDelete
<1>3. CASE DeleteIneligibleEventBriefs(s)
  <2>1. PICK S \in SUBSET Pairs : DeleteBriefs(S)  BY <1>3 DEF DeleteIneligibleEventBriefs
  <2>2. UNCHANGED <<event, worker, dropped, bounds>>  BY <1>3 DEF DeleteIneligibleEventBriefs, calVars
  <2> QED  BY <2>1, <2>2, LedgerDelete
<1>4. CASE ReconcileEventBriefPair(s)
  <2>1. PICK p \in pass[s].todo : PairFails(s) \/ PairIsSame(s, p) \/ PairIsNew(s, p)
    BY <1>4, PairCases
  <2>2. pass[s].phase = "pairs" /\ UNCHANGED <<worker, dropped>>  BY <1>4, PairCases
  <2>3. CASE PairFails(s) \/ PairIsSame(s, p)
    <3>1. UNCHANGED <<event, brief, job, bounds>>
      BY <2>3 DEF PairFails, PairIsSame, SyncFails, calVars
    <3> QED  BY <2>2, <3>1, LedgerQuiet
  <2>4. CASE PairIsNew(s, p)
    <3>1. p \in Pairs /\ ComputePreBriefHash(s, p) \in Hashes  BY <2>2, HashKnown
    <3>2. event[p[1]] # NoRow  BY <2>2, <2>4, ReferableIsStored DEF PairIsNew
    <3>3. /\ NewGeneration(p, ComputePreBriefHash(s, p),
                           IF brief[p] = NoBrief THEN bounds.ids + 1 ELSE brief[p].id)
          /\ UNCHANGED event
      BY <2>4 DEF PairIsNew, calVars
    <3> QED  BY <2>2, <3>1, <3>2, <3>3, LedgerNew
  <2> QED  BY <2>1, <2>3, <2>4
<1> QED  BY <1>1, <1>2, <1>3, <1>4 DEF ReconcileStep

\* Templates and the default agent: the ledger is kept.
LEMMA LedgerTemplates ==
    ASSUME Shape, Shape', Ledger,
           \/ ChangeAgent
           \/ \E t \in Templates : DeleteTemplate(t) \/ \E state \in {"on", "off"} : UpdateTemplate(t, state)
    PROVE Ledger'
<1>0. Change => bounds'.ids = bounds.ids
  <2>1. bounds \in [changes: Nat, crashes: Nat, admin: Nat, ids: Nat]  BY DEF Shape, Types, TableTypes
  <2> QED  BY <2>1 DEF Change
<1>1. CASE ChangeAgent
  <2>1. UNCHANGED <<event, brief, job, worker, dropped>> /\ Change  BY <1>1 DEF ChangeAgent, calVars
  <2> QED  BY <1>0, <2>1, LedgerQuiet
<1>2. ASSUME NEW t \in Templates, DeleteTemplate(t) PROVE Ledger'
  <2>1. DeleteBriefs(Events \X {t}) /\ Change /\ UNCHANGED <<event, worker, dropped>>
    BY <1>2 DEF DeleteTemplate, calVars
  <2>2. Events \X {t} \in SUBSET Pairs  BY DEF Pairs
  <2> QED  BY <1>0, <2>1, <2>2, LedgerDelete
<1>3. ASSUME NEW t \in Templates, NEW state \in {"on", "off"}, UpdateTemplate(t, state) PROVE Ledger'
  <2>1. Change /\ UNCHANGED <<event, worker, dropped>>  BY <1>3 DEF UpdateTemplate, calVars
  <2>2. Events \X {t} \in SUBSET Pairs  BY DEF Pairs
  <2>3. CASE DeleteBriefs(Events \X {t})  BY <1>0, <2>1, <2>2, <2>3, LedgerDelete
  <2>4. CASE UNCHANGED <<brief, job>>  BY <1>0, <2>1, <2>4, LedgerQuiet
  <2> QED  BY <1>3, <2>3, <2>4 DEF UpdateTemplate
<1> QED  BY <1>1, <1>2, <1>3

\* The administrator: the ledger is kept.
LEMMA LedgerAdmin ==
    ASSUME Shape, Shape', Ledger, NEW j \in Jobs, HandleCancelJob(j) \/ HandleRetryJob(j) PROVE Ledger'
<1>0. Admin => bounds'.ids = bounds.ids
  <2>1. bounds \in [changes: Nat, crashes: Nat, admin: Nat, ids: Nat]  BY DEF Shape, Types, TableTypes
  <2> QED  BY <2>1 DEF Admin
<1>1. CASE HandleCancelJob(j)  BY <1>0, <1>1, LedgerCancel DEF HandleCancelJob
<1>2. CASE HandleRetryJob(j)  BY <1>0, <1>2, LedgerRetry DEF HandleRetryJob
<1> QED  BY <1>1, <1>2

\* Loading the event and checking the pair: a worker that goes on to complete
\* its job has found that the brief is not its own.
LEMMA LedgerChecks ==
    ASSUME Shape, Shape', Ledger, NEW w \in Workers, LoadEvent(w) \/ RunPreGenerate(w) \/ GenerateFails(w)
    PROVE Ledger'
<1>0. /\ worker[w].pc \notin {"idle", "terminal"} /\ UNCHANGED <<event, brief, job, dropped, bounds>>
  BY DEF LoadEvent, RunPreGenerate, GenerateFails, Stay, calVars
<1>1. WorkerOK(w) /\ Ticket(Held(w)) /\ Held(w).pair \in Pairs  BY <1>0 DEF Ledger, WorkerOK, Ticket
<1>2. Held(w).pair[1] \in Events /\ Held(w).pair[2] \in Templates  BY <1>1, Numbers
<1>p. {"pair", "generate", "fail"} \subseteq Pcs  BY DEF Pcs
<1>3. CASE LoadEvent(w)
  <2>1. event[Held(w).pair[1]] \in RowRec  BY <1>2 DEF Shape, Types, CalTypes
  <2>2. CASE worker' = [worker EXCEPT ![w].pc = "pair", ![w].event = event[Held(w).pair[1]]]
    <3>1. Moves(w, "pair")  BY <1>p, <2>1, <2>2, EditMoves
    <3> QED  BY <1>0, <3>1, LedgerMoves
  <2>3. CASE event[Held(w).pair[1]].row # Held(w).row /\ Go(w, "complete")
    <3>1. Moves(w, "complete")  BY <2>3, GoMoves
    <3>2. ~Current(w)  BY <1>1, <2>3 DEF Current, IsCurrent, Ticket
    <3> QED  BY <1>0, <3>1, <3>2, LedgerMoves
  <2> QED  BY <1>3, <2>2, <2>3 DEF LoadEvent
<1>4. CASE RunPreGenerate(w)
  <2> DEFINE c == <<worker[w].event.version, template[Held(w).pair[2]].version, agent.version>>
  <2>1. c \in Hashes
    <3>1. worker[w].event.version \in Nat  BY DEF Shape, Types, WorkRec, RowRec
    <3>2. template[Held(w).pair[2]].version \in Nat /\ agent.version \in Nat
      BY <1>2 DEF Shape, Types, TableTypes
    <3> QED  BY <3>1, <3>2 DEF Hashes
  <2>2. \/ ~Current(w) /\ Go(w, "complete")
        \/ Go(w, "cleanup") \/ Go(w, "fail")
        \/ worker' = [worker EXCEPT ![w].pc = "generate", ![w].content = c]
    BY <1>4 DEF RunPreGenerate, Current, IsCurrent
  <2> HIDE DEF c
  <2>3. CASE ~Current(w) /\ Go(w, "complete")
    <3>1. Moves(w, "complete")  BY <2>3, GoMoves
    <3> QED  BY <1>0, <2>3, <3>1, LedgerMoves
  <2>4. CASE Go(w, "cleanup")
    <3>1. Moves(w, "cleanup")  BY <2>4, GoMoves
    <3> QED  BY <1>0, <3>1, LedgerMoves
  <2>5. CASE Go(w, "fail")
    <3>1. Moves(w, "fail")  BY <2>5, GoMoves
    <3> QED  BY <1>0, <3>1, LedgerMoves
  <2>6. CASE worker' = [worker EXCEPT ![w].pc = "generate", ![w].content = c]
    <3>1. Moves(w, "generate")  BY <1>p, <2>1, <2>6, EditMoves
    <3> QED  BY <1>0, <3>1, LedgerMoves
  <2> QED  BY <2>2, <2>3, <2>4, <2>5, <2>6
<1>5. CASE GenerateFails(w)
  <2>1. PICK b \in BOOLEAN : worker' = [worker EXCEPT ![w].pc = "fail", ![w].retryable = b]
    BY <1>5 DEF GenerateFails
  <2>2. Moves(w, "fail")  BY <1>p, <2>1, EditMoves
  <2> QED  BY <1>0, <2>2, LedgerMoves
<1> QED  BY <1>3, <1>4, <1>5

\* The workers: the ledger is kept.
LEMMA LedgerWorker ==
    ASSUME Shape, Shape', Ledger, NEW w \in Workers, WorkerStep(w) \/ Crash(w) PROVE Ledger'
BY LedgerClaim, LedgerChecks, LedgerCleanup, LedgerPublish, LedgerComplete, LedgerFail, LedgerTerminal,
   LedgerCrash DEF WorkerStep

\* Init: nothing is owed.
LEMMA LedgerInit == Init => Ledger
BY DEF Init, Ledger, BriefOK, NoBrief, Idle

\* Every step keeps the first two layers.
LEMMA LedgerNext ==
    ASSUME Shape, Ledger, [Next]_vars PROVE Shape' /\ Ledger'
<1>1. CASE UNCHANGED vars
  <2>1. UNCHANGED <<event, rows, briefVars>> /\ CalTypes'
    BY <1>1 DEF vars, calVars, Shape, Types, CalTypes
  <2>2. Shape'  BY <2>1, ShapeCalm
  <2> QED  BY <2>1, <2>2, LedgerQuiet DEF briefVars
<1>2. CASE CalendarStep \/ \E s \in Syncers : StartCalendarScheduler(s) \/ SyncStep(s) \/ FetchFault(s)
  BY <1>2, ShapeCalendar, LedgerCalendar
<1>3. ASSUME NEW s \in Syncers, ReconcileStep(s) \/ DefaultPluginFails(s) \/ ReconcileFault(s) PROVE Shape' /\ Ledger'
  BY <1>3, ShapeReconcile, LedgerReconcile
<1>4. CASE \/ ChangeAgent
           \/ \E t \in Templates : DeleteTemplate(t) \/ \E state \in {"on", "off"} : UpdateTemplate(t, state)
  BY <1>4, ShapeTemplates, LedgerTemplates
<1>5. ASSUME NEW j \in Jobs, HandleCancelJob(j) \/ HandleRetryJob(j) PROVE Shape' /\ Ledger'
  <2>1. HandleRetryJob(j) => job[j].pair \in Pairs
    <3> SUFFICES ASSUME HandleRetryJob(j) PROVE job[j].pair \in Pairs  OBVIOUS
    <3>1. job[j] # NoJob  BY DEF HandleRetryJob, NoJob
    <3> QED  BY <3>1 DEF Ledger, Ticket
  <2>2. Shape'  BY <1>5, <2>1, ShapeAdmin
  <2> QED  BY <1>5, <2>2, LedgerAdmin
<1>6. ASSUME NEW w \in Workers, WorkerStep(w) \/ Crash(w) PROVE Shape' /\ Ledger'
  <2>1. worker[w].pc # "idle" => worker[w].job \in Jobs /\ Held(w).pair \in Pairs
    BY DEF Ledger, WorkerOK, Ticket
  <2>2. Shape'  BY <1>6, <2>1, ShapeWorker
  <2> QED  BY <1>6, <2>2, LedgerWorker
<1> QED  BY <1>1, <1>2, <1>3, <1>4, <1>5, <1>6 DEF Next

\* A pending brief is owed a verdict, by an active job of its generation or by
\* the worker that has just failed one, unless an administrator cancelled the
\* job or the worker died between failing the job and failing the brief: for
\* any number of passes, jobs and workers, and whatever is edited, pruned,
\* retried and cleaned up meanwhile.
THEOREM PendingBriefsAreOwed == Spec => []PendingIsOwed
<1>1. Init => Shape /\ Ledger  BY ShapeInit, LedgerInit
<1>2. Shape /\ Ledger /\ [Next]_vars => Shape' /\ Ledger'  BY LedgerNext
<1>3. Shape /\ Ledger => PendingIsOwed
  <2> SUFFICES ASSUME Shape, Ledger PROVE PendingIsOwed  OBVIOUS
  <2>1. CalTypeOK  BY DEF Shape, Types, CalTypes, CalTypeOK, SyncRec, EventOK
  <2>2. TypeOK
    <3>1. \A p \in Pairs : brief[p].status \in {"none", "pending", "ready", "failed"}
      BY DEF Shape, Types, BriefRec
    <3>2. \A j \in Jobs : job[j].status \in {"absent", "pending", "running", "failed"}
      BY DEF Shape, Types, JobRec
    <3>3. \A w \in Workers : worker[w].job \in Jobs \cup {0}  BY DEF Shape, Types, WorkRec
    <3>4. (\A t \in Templates : template[t].state \in {"on", "off", "gone"}) /\ agent.there \in BOOLEAN
      BY DEF Shape, Types, TableTypes
    <3> QED  BY <2>1, <3>1, <3>2, <3>3, <3>4 DEF TypeOK
  <2> QED  BY <2>2 DEF PendingIsOwed, Ledger, Owed
<1> QED  BY <1>1, <1>2, <1>3, PTL DEF Spec

-----------------------------------------------------------------------------
(* Fresh.                                                                  *)

\* Versions only rise, unless overlapping passes store an older event, which
\* overlap records; a row that comes new has a number not used before.
Rises ==
    /\ \A t \in Templates : template'[t].version >= template[t].version
    /\ agent'.version >= agent.version
    /\ overlap => overlap'
    /\ \A e \in Events :
          \/ event'[e] = NoRow
          \/ event[e] = NoRow /\ event'[e].row > rows[e]
          \/ /\ event[e] # NoRow /\ event'[e].row = event[e].row
             /\ ~overlap' => event'[e].version >= event[e].version

\* A brief that goes, or keeps its generation and what was written in it.
Kept(p) ==
    \/ brief'[p] = NoBrief
    \/ /\ brief[p] # NoBrief
       /\ brief'[p].id = brief[p].id /\ brief'[p].gen = brief[p].gen
       /\ brief'[p].hash = brief[p].hash /\ brief'[p].content = brief[p].content
       /\ brief'[p].status = "ready" => brief[p].status = "ready"

\* A generation has one hash.
Steady(p) ==
    \/ brief'[p].id = brief[p].id /\ brief'[p].gen = brief[p].gen /\ brief'[p].hash = brief[p].hash
    \/ brief'[p].id = brief[p].id /\ brief'[p].gen > brief[p].gen
    \/ brief'[p].id > bounds.ids

\* The versions are numbers.
LEMMA VersionNumbers ==
    ASSUME Shape
    PROVE /\ \A p \in Pairs : brief[p].hash \in Hashes /\ brief[p].content \in Hashes
          /\ \A t \in Templates : template[t].version \in Nat
          /\ agent.version \in Nat /\ overlap \in BOOLEAN
          /\ \A e \in Events : event[e].version \in Nat /\ event[e].row \in Nat /\ rows[e] \in Nat
          /\ \A s \in Syncers : pass[s] \in PassRec
          /\ \A w \in Workers : worker[w].event.version \in Nat /\ worker[w].content \in Hashes
          /\ \A h \in Hashes : h[1] \in Nat /\ h[2] \in Nat /\ h[3] \in Nat
<1>1. \A p \in Pairs : brief[p].hash \in Hashes /\ brief[p].content \in Hashes  BY DEF Shape, Types, BriefRec
<1>2. (\A t \in Templates : template[t].version \in Nat) /\ agent.version \in Nat /\ overlap \in BOOLEAN
  BY DEF Shape, Types, TableTypes
<1>3. \A e \in Events : event[e].version \in Nat /\ event[e].row \in Nat /\ rows[e] \in Nat
  BY DEF Shape, Types, CalTypes, RowRec
<1>4. \A s \in Syncers : pass[s] \in PassRec  BY DEF Shape, Types
<1>5. \A w \in Workers : worker[w].event.version \in Nat /\ worker[w].content \in Hashes
  BY DEF Shape, Types, WorkRec, RowRec
<1>6. \A h \in Hashes : h[1] \in Nat /\ h[2] \in Nat /\ h[3] \in Nat  BY DEF Hashes
<1> QED  BY <1>1, <1>2, <1>3, <1>4, <1>5, <1>6

\* A hash stays one of versions that were there.
LEMMA HashKept ==
    ASSUME Shape, Shape', Ledger, Ledger', Rises, NEW p \in Pairs, HashOK(p), Kept(p)
    PROVE HashOK(p)'
<1> SUFFICES ASSUME brief'[p] # NoBrief
             PROVE /\ brief'[p].hash[2] <= template'[p[2]].version
                   /\ brief'[p].hash[3] <= agent'.version
                   /\ ~overlap' => brief'[p].hash[1] <= event'[p[1]].version
                   /\ brief'[p].status = "ready" /\ ~overlap' => AtLeast(brief'[p].content, brief'[p].hash)
  BY DEF HashOK, AtLeast
<1>1. PICK h \in Hashes : h = brief[p].hash  BY VersionNumbers
<1>2. h[1] \in Nat /\ h[2] \in Nat /\ h[3] \in Nat  BY VersionNumbers
<1>3. p[1] \in Events /\ p[2] \in Templates  BY Numbers
<1>4. brief[p] # NoBrief /\ brief'[p].hash = h /\ brief'[p].content = brief[p].content
      /\ (brief'[p].status = "ready" => brief[p].status = "ready")
  BY <1>1 DEF Kept
<1>5. h[2] <= template[p[2]].version /\ h[3] <= agent.version /\ (~overlap => h[1] <= event[p[1]].version)
  BY <1>1, <1>4 DEF HashOK
<1>6. /\ template[p[2]].version \in Nat /\ template'[p[2]].version \in Nat
      /\ agent.version \in Nat /\ agent'.version \in Nat
      /\ event[p[1]].version \in Nat /\ event'[p[1]].version \in Nat
  BY <1>3 DEF Shape, Types, TableTypes, CalTypes, RowRec
<1>7. h[2] <= template'[p[2]].version /\ h[3] <= agent'.version  BY <1>2, <1>3, <1>5, <1>6 DEF Rises
<1>8. ASSUME ~overlap' PROVE h[1] <= event'[p[1]].version
  <2>1. event[p[1]] # NoRow  BY <1>4 DEF Ledger, BriefOK
  <2>2. event'[p[1]] # NoRow  BY DEF Ledger, BriefOK
  <2>3. event'[p[1]].version >= event[p[1]].version /\ ~overlap  BY <1>3, <1>8, <2>1, <2>2 DEF Rises
  <2> QED  BY <1>2, <1>5, <1>6, <2>3
<1>9. brief'[p].status = "ready" /\ ~overlap' => AtLeast(brief[p].content, h)
  BY <1>1, <1>4 DEF HashOK, Rises
<1> QED  BY <1>4, <1>7, <1>8, <1>9

\* What a pass has read stays no newer than what is there.
LEMMA PassFreshKept ==
    ASSUME Shape, Shape', Rises, NEW s \in Syncers, PassFresh(s), pass'[s] = pass[s]
    PROVE PassFresh(s)'
<1>1. pass[s] \in PassRec /\ PassRight(pass[s])  BY DEF Shape, Types, PassOK
<1>2. ASSUME NEW x \in pass[s].tmpl PROVE x[2] <= template'[x[1]].version
  <2>1. x[1] \in Templates /\ x[2] \in Nat  BY <1>1 DEF PassRec
  <2>2. template[x[1]].version \in Nat /\ template'[x[1]].version \in Nat
    BY <2>1 DEF Shape, Types, TableTypes
  <2>3. x[2] <= template[x[1]].version  BY DEF PassFresh
  <2> QED  BY <2>1, <2>2, <2>3 DEF Rises
<1>3. pass[s].agent <= agent'.version
  <2>1. pass[s].agent \in Nat /\ agent.version \in Nat /\ agent'.version \in Nat
    BY <1>1 DEF PassRec, Shape, Types, TableTypes
  <2> QED  BY <2>1 DEF PassFresh, Rises
<1>4. ASSUME NEW b \in pass[s].batch, event'[b[1]].row = b[2].row, ~overlap'
      PROVE b[2].version <= event'[b[1]].version
  <2>1. b[1] \in Events /\ b[2].row \in Nat /\ b[2].version \in Nat  BY <1>1 DEF PassRec, RowRec
  <2>2. /\ event[b[1]].version \in Nat /\ event'[b[1]].version \in Nat /\ rows[b[1]] \in Nat
        /\ event'[b[1]].row \in Nat
    BY <2>1 DEF Shape, Types, CalTypes, RowRec
  <2>3. b[2].row >= 1 /\ b[2].row <= rows[b[1]]  BY <1>1 DEF PassRight
  <2>4. event'[b[1]] # NoRow  BY <1>4, <2>3 DEF NoRow
  <2>5. ~(event'[b[1]].row > rows[b[1]])  BY <1>4, <2>1, <2>2, <2>3
  <2>6. /\ event'[b[1]].row = event[b[1]].row /\ event'[b[1]].version >= event[b[1]].version
        /\ ~overlap
    BY <1>4, <2>1, <2>4, <2>5 DEF Rises
  <2>7. b[2].version <= event[b[1]].version  BY <1>4, <2>6 DEF PassFresh
  <2> QED  BY <2>1, <2>2, <2>6, <2>7
<1> QED  BY <1>2, <1>3, <1>4 DEF PassFresh

\* What a worker has read stays no older than the hash of its generation.
LEMMA WorkerFreshKept ==
    ASSUME Shape, Shape', Ledger, Rises, \A p \in Pairs : Kept(p) \/ Steady(p),
           NEW w \in Workers, WorkerFresh(w), worker'[w] = worker[w]
    PROVE WorkerFresh(w)'
<1> SUFFICES ASSUME worker[w].pc # "idle", Current(w)', ~overlap'
             PROVE Current(w) /\ ~overlap /\ brief'[Held(w).pair].hash = brief[Held(w).pair].hash
  <2>1. Held(w)' = Held(w)  BY DEF Held
  <2> QED  BY <2>1 DEF WorkerFresh, AtLeast
<1>1. PICK k \in JobRec : k = Held(w)  BY Numbers
<1>2. Ticket(k)  BY <1>1 DEF Ledger, WorkerOK
<1>3. k.pair \in Pairs /\ k.brief >= 1 /\ k.brief <= bounds.ids  BY <1>2 DEF Ticket
<1>4. brief'[k.pair].id = k.brief /\ brief'[k.pair].gen = k.gen
  BY <1>1 DEF Current, IsCurrent, Held
<1>5. k.brief \in Nat /\ k.gen \in Nat /\ bounds.ids \in Nat /\ brief[k.pair].gen \in Nat
  BY <1>3, Numbers
<1>6. brief'[k.pair] # NoBrief  BY <1>3, <1>4 DEF NoBrief
<1>7. ~(brief'[k.pair].id > bounds.ids)  BY <1>3, <1>4, <1>5
<1>8. brief'[k.pair].id = brief[k.pair].id  BY <1>3, <1>6, <1>7 DEF Kept, Steady
<1>9. k.gen <= brief[k.pair].gen  BY <1>2, <1>3, <1>4, <1>8 DEF Ticket
<1>10. ~(brief'[k.pair].gen > brief[k.pair].gen)  BY <1>4, <1>5, <1>9
<1>11. brief'[k.pair].gen = brief[k.pair].gen /\ brief'[k.pair].hash = brief[k.pair].hash
  BY <1>3, <1>6, <1>7, <1>10 DEF Kept, Steady
<1> QED  BY <1>1, <1>4, <1>8, <1>11 DEF Current, IsCurrent, Rises

\* So a step only has to answer for what it writes.
LEMMA FreshStep ==
    ASSUME Shape, Shape', Ledger, Ledger', Fresh, Rises,
           \A p \in Pairs : Kept(p) \/ (Steady(p) /\ HashOK(p)'),
           \A s \in Syncers : pass'[s] = pass[s] \/ PassFresh(s)',
           \A w \in Workers : worker'[w] = worker[w] \/ WorkerFresh(w)'
    PROVE Fresh'
<1>1. \A p \in Pairs : HashOK(p)'  BY HashKept DEF Fresh
<1>2. \A s \in Syncers : PassFresh(s)'  BY PassFreshKept DEF Fresh
<1>3. \A w \in Workers : WorkerFresh(w)'  BY WorkerFreshKept DEF Fresh
<1> QED  BY <1>1, <1>2, <1>3 DEF Fresh

\* Briefs that go or stay are kept.
LEMMA KeptAll ==
    ASSUME \A p \in Pairs : brief'[p] = NoBrief \/ brief'[p] = brief[p]
    PROVE \A p \in Pairs : Kept(p)
BY DEF Kept

\* Nothing the calendar stores is touched, and templates and agent only rise.
LEMMA RisesQuiet ==
    ASSUME Shape, overlap' = overlap,
           \A e \in Events : event'[e] = NoRow \/ event'[e] = event[e],
           \A t \in Templates : template'[t].version >= template[t].version,
           agent'.version >= agent.version
    PROVE Rises
<1>1. \A e \in Events : event[e].version >= event[e].version  BY VersionNumbers
<1> QED  BY <1>1 DEF Rises

\* Templates and agent as they were.
LEMMA RisesStill ==
    ASSUME Shape, UNCHANGED <<overlap, template, agent>>,
           \A e \in Events : event'[e] = NoRow \/ event'[e] = event[e]
    PROVE Rises
<1>1. (\A t \in Templates : template[t].version >= template[t].version) /\ agent.version >= agent.version
  BY VersionNumbers
<1> QED  BY <1>1, RisesQuiet

\* The calendar's steps keep the briefs fresh.
LEMMA FreshCalendar ==
    ASSUME Shape, Shape', Ledger, Ledger', Fresh,
           CalendarStep \/ \E s \in Syncers : StartCalendarScheduler(s) \/ SyncStep(s) \/ FetchFault(s)
    PROVE Fresh'
<1>1. ASSUME Calm,
             \/ Tick \/ ClearNoteEvent \/ SetSelectedCalendars
             \/ \E e \in Events : UpstreamEdit(e) \/ SetNoteEvent(e)
             \/ \E s \in Syncers : CreateSource(s) \/ KickCalendarSync(s) \/ SyncAllSourcesOnce(s)
                                   \/ FetchEvents(s) \/ FetchFails(s)
      PROVE Fresh'
  <2>1. CalTypes  BY DEF Shape, Types
  <2>2. UNCHANGED <<event, rows>>  BY <1>1, <2>1, CalmStep
  <2>3. UNCHANGED <<template, agent, brief, pass, worker, overlap>>  BY <1>1 DEF Calm, briefVars
  <2>4. Rises  BY <2>2, <2>3, RisesStill
  <2>5. \A p \in Pairs : Kept(p)  BY <2>3, KeptAll
  <2> QED  BY <2>3, <2>4, <2>5, FreshStep
<1>2. ASSUME NEW S, Drop(S), CascadeEvents, UNCHANGED <<rows, template, agent, pass, worker, overlap>>
      PROVE Fresh'
  <2>1. \A e \in Events : event'[e] = NoRow \/ event'[e] = event[e]  BY <1>2, DropShape
  <2>2. Rises  BY <1>2, <2>1, RisesStill
  <2>3. \A p \in Pairs : Kept(p)  BY <1>2, KeptAll DEF CascadeEvents
  <2> QED  BY <1>2, <2>2, <2>3, FreshStep
<1>3. CASE HandleDeleteCalendarSource
  BY <1>2, <1>3 DEF HandleDeleteCalendarSource, DeleteSource
<1>4. ASSUME NEW s \in Syncers, PruneEvents(s), CascadeEvents,
             UNCHANGED <<template, agent, pass, worker, dropped, overlap, bounds>>
      PROVE Fresh'
  BY <1>2, <1>4 DEF PruneEvents
<1>5. ASSUME NEW s \in Syncers, UpsertEvents(s),
             overlap' = (overlap \/ \E e \in Events : Stored(e) /\ event'[e].version < event[e].version),
             UNCHANGED <<template, agent, brief, job, pass, worker, dropped, bounds>>
      PROVE Fresh'
  <2>1. /\ \A e \in Events : event[e] # NoRow => event'[e] # NoRow /\ event'[e].row = event[e].row
        /\ \A e \in Events : event[e] = NoRow => event'[e] = NoRow \/ event'[e].row > rows[e]
    BY <1>5, UpsertShape
  <2>2. \A e \in Events : event[e].version \in Nat /\ event'[e].version \in Nat
    BY DEF Shape, Types, CalTypes, RowRec
  <2>3. \A e \in Events : event[e] # NoRow /\ ~overlap' => event'[e].version >= event[e].version
    <3> SUFFICES ASSUME NEW e \in Events, event[e] # NoRow, ~overlap'
                 PROVE event'[e].version >= event[e].version
      OBVIOUS
    <3>1. ~(\E d \in Events : Stored(d) /\ event'[d].version < event[d].version)  BY <1>5
    <3>2. ~(event'[e].version < event[e].version)  BY <3>1 DEF Stored
    <3> QED  BY <2>2, <3>2
  <2>4. (\A t \in Templates : template[t].version >= template[t].version) /\ agent.version >= agent.version
    BY VersionNumbers
  <2>5. overlap => overlap'  BY <1>5
  <2>6. Rises  BY <1>5, <2>1, <2>3, <2>4, <2>5 DEF Rises
  <2>7. \A p \in Pairs : Kept(p)  BY <1>5, KeptAll
  <2> QED  BY <1>5, <2>6, <2>7, FreshStep
<1>6. CASE CalendarStep
  BY <1>1, <1>3, <1>6 DEF CalendarStep, HandleSetNoteEvent, HandleClearNoteEvent,
       HandleSelectCalendarSource, HandleCreateCalendarSource, HandleRefreshCalendar
<1>7. ASSUME NEW s \in Syncers, StartCalendarScheduler(s) \/ SyncStep(s) \/ FetchFault(s) PROVE Fresh'
  <2>1. CASE StartCalendarScheduler(s)  BY <1>1, <2>1 DEF StartCalendarScheduler
  <2>2. CASE FetchFault(s)  BY <1>1, <2>2 DEF FetchFault
  <2>3. CASE SyncStep(s)  BY <1>1, <1>4, <1>5, <2>3 DEF SyncStep
  <2> QED  BY <1>7, <2>1, <2>2, <2>3
<1> QED  BY <1>6, <1>7

\* One pass moves on with what it has read: the others are as they were.
LEMMA FreshPass ==
    ASSUME Shape, Shape', Ledger, Ledger', Fresh, NEW s \in Syncers, NEW r,
           pass' = [pass EXCEPT ![s] = r],
           UNCHANGED <<event, template, agent, overlap, worker>>,
           \A x \in r.tmpl : x[2] <= template[x[1]].version,
           r.agent <= agent.version,
           \A b \in r.batch : event[b[1]].row = b[2].row /\ ~overlap => b[2].version <= event[b[1]].version,
           \A p \in Pairs : Kept(p) \/ (Steady(p) /\ HashOK(p)')
    PROVE Fresh'
<1>1. pass'[s] = r /\ \A u \in Syncers : u # s => pass'[u] = pass[u]  BY DEF Shape, Types
<1>2. PassFresh(s)'  BY <1>1 DEF PassFresh
<1>3. Rises  BY RisesStill
<1> QED  BY <1>1, <1>2, <1>3, FreshStep

\* The steps of a reconciliation keep the briefs fresh: a new hash is computed
\* from versions that were there.
LEMMA FreshReconcile ==
    ASSUME Shape, Shape', Ledger, Ledger', Fresh, NEW s \in Syncers, ReconcileStep(s) \/ DefaultPluginFails(s) \/ ReconcileFault(s)
    PROVE Fresh'
<1>0. pass[s] \in PassRec /\ PassFresh(s)  BY DEF Shape, Types, Fresh
<1>a. agent.version \in Nat /\ (\A t \in Templates : template[t].version \in Nat)
      /\ (\A e \in Events : event[e].version \in Nat)
  BY VersionNumbers
<1>b. (\A x \in NoPass.tmpl : x[2] <= template[x[1]].version) /\ NoPass.agent <= agent.version
      /\ \A b \in NoPass.batch : event[b[1]].row = b[2].row /\ ~overlap => b[2].version <= event[b[1]].version
  BY <1>a DEF NoPass
<1>c. UNCHANGED brief => \A p \in Pairs : Kept(p)  BY KeptAll
<1>d. ASSUME NEW S, DeleteBriefs(S) PROVE \A p \in Pairs : Kept(p)
  BY <1>d, KeptAll DEF DeleteBriefs
<1>e. ASSUME NEW r, r.tmpl = pass[s].tmpl, r.agent = pass[s].agent, r.batch = pass[s].batch
      PROVE /\ \A x \in r.tmpl : x[2] <= template[x[1]].version
            /\ r.agent <= agent.version
            /\ \A b \in r.batch : event[b[1]].row = b[2].row /\ ~overlap => b[2].version <= event[b[1]].version
  BY <1>0, <1>e DEF PassFresh
<1>1. CASE ReconcilePreBriefs(s)
  <2> DEFINE r == [NoPass EXCEPT !.phase = "agent", !.now = clock,
                     !.eligible = {t \in Templates : template[t].state = "on"},
                     !.tmpl = {<<t, template[t].version>> : t \in Templates}]
  <2>1. r.tmpl = {<<t, template[t].version>> : t \in Templates} /\ r.agent = 0 /\ r.batch = {}
    BY DEF NoPass
  <2>2. pass' = [pass EXCEPT ![s] = r]  BY <1>1 DEF ReconcilePreBriefs, Step
  <2> HIDE DEF r
  <2>3. UNCHANGED <<event, template, agent, overlap, worker, brief>>  BY <1>1 DEF ReconcilePreBriefs, calVars
  <2>4. \A x \in r.tmpl : x[2] <= template[x[1]].version  BY <1>a, <2>1
  <2>5. r.agent <= agent.version  BY <1>a, <2>1
  <2> QED  BY <1>c, <2>1, <2>2, <2>3, <2>4, <2>5, FreshPass
<1>8. CASE ResolveDefaultAgentIdentity(s) \/ DefaultPluginFails(s)
  <2>1. PICK a \in {0, agent.version} : pass' = [pass EXCEPT ![s] = [pass[s] EXCEPT !.phase = "window", !.agent = a]]
    BY <1>8 DEF ResolveDefaultAgentIdentity, DefaultPluginFails, Step
  <2> DEFINE r == [pass[s] EXCEPT !.phase = "window", !.agent = a]
  <2>2. r.tmpl = pass[s].tmpl /\ r.batch = pass[s].batch /\ r.agent = a
    BY <1>0 DEF PassRec
  <2>3. pass' = [pass EXCEPT ![s] = r]  BY <2>1
  <2> HIDE DEF r
  <2>4. UNCHANGED <<event, template, agent, overlap, worker, brief>>
    BY <1>8 DEF ResolveDefaultAgentIdentity, DefaultPluginFails, calVars
  <2>5. r.agent <= agent.version  BY <1>a, <2>1, <2>2
  <2>6. /\ \A x \in r.tmpl : x[2] <= template[x[1]].version
        /\ \A b \in r.batch : event[b[1]].row = b[2].row /\ ~overlap => b[2].version <= event[b[1]].version
    BY <1>0, <2>2 DEF PassFresh
  <2> QED  BY <1>c, <2>3, <2>4, <2>5, <2>6, FreshPass
<1>2. CASE DeleteEventBriefsOutsideWindow(s)
  <2> DEFINE r == [pass[s] EXCEPT !.phase = "page"]
  <2>1. r.tmpl = pass[s].tmpl /\ r.agent = pass[s].agent /\ r.batch = pass[s].batch  BY <1>0 DEF PassRec
  <2>2. pass' = [pass EXCEPT ![s] = r]  BY <1>2 DEF DeleteEventBriefsOutsideWindow, Step
  <2> HIDE DEF r
  <2>3. UNCHANGED <<event, template, agent, overlap, worker>>  BY <1>2 DEF DeleteEventBriefsOutsideWindow, calVars
  <2>4. \A p \in Pairs : Kept(p)  BY <1>2, <1>d DEF DeleteEventBriefsOutsideWindow
  <2> QED  BY <1>e, <2>1, <2>2, <2>3, <2>4, FreshPass
<1>3. CASE UpcomingEventsForSourceBatch(s)
  <2>1. PICK page \in SUBSET Events :
          pass' = [pass EXCEPT ![s] =
                     IF page = {} THEN [pass[s] EXCEPT !.phase = "done"]
                     ELSE [pass[s] EXCEPT !.phase = "clean", !.after = Max(page),
                             !.batch = {<<e, event[e]>> : e \in page},
                             !.todo = page \X pass[s].eligible]]
    <3> DEFINE found == {e \in Events : /\ Stored(e) /\ Upcoming(event[e].start, pass[s].now)
                                        /\ e > pass[s].after}
               page == {e \in found : Cardinality({d \in found : d < e}) < BatchSize}
    <3> WITNESS page \in SUBSET Events
    <3> QED  BY <1>3 DEF UpcomingEventsForSourceBatch, Step
  <2>2. UNCHANGED <<event, template, agent, overlap, worker, brief>>
    BY <1>3 DEF UpcomingEventsForSourceBatch, calVars
  <2>3. CASE page = {}
    <3> DEFINE r == [pass[s] EXCEPT !.phase = "done"]
    <3>1. r.tmpl = pass[s].tmpl /\ r.agent = pass[s].agent /\ r.batch = pass[s].batch  BY <1>0 DEF PassRec
    <3>2. pass' = [pass EXCEPT ![s] = r]  BY <2>1, <2>3
    <3> HIDE DEF r
    <3> QED  BY <1>c, <1>e, <2>2, <3>1, <3>2, FreshPass
  <2>4. CASE page # {}
    <3> DEFINE m == Max(page)
               bt == {<<e, event[e]>> : e \in page}
               td == page \X pass[s].eligible
               r == [pass[s] EXCEPT !.phase = "clean", !.after = m, !.batch = bt, !.todo = td]
    <3>1. pass' = [pass EXCEPT ![s] = r]  BY <2>1, <2>4
    <3>2. \A b \in bt : event[b[1]].row = b[2].row /\ ~overlap => b[2].version <= event[b[1]].version
      BY <1>a
    <3> HIDE DEF m, bt, td
    <3>3. r.tmpl = pass[s].tmpl /\ r.agent = pass[s].agent /\ r.batch = bt  BY <1>0 DEF PassRec
    <3> HIDE DEF r
    <3>4. (\A x \in r.tmpl : x[2] <= template[x[1]].version) /\ r.agent <= agent.version
      BY <1>0, <3>3 DEF PassFresh
    <3> QED  BY <1>c, <2>2, <3>1, <3>2, <3>3, <3>4, FreshPass
  <2> QED  BY <2>3, <2>4
<1>4. CASE DeleteIneligibleEventBriefs(s)
  <2> DEFINE r == [pass[s] EXCEPT !.phase = "pairs"]
  <2>1. r.tmpl = pass[s].tmpl /\ r.agent = pass[s].agent /\ r.batch = pass[s].batch  BY <1>0 DEF PassRec
  <2>2. pass' = [pass EXCEPT ![s] = r]  BY <1>4 DEF DeleteIneligibleEventBriefs, Step
  <2> HIDE DEF r
  <2>3. UNCHANGED <<event, template, agent, overlap, worker>>  BY <1>4 DEF DeleteIneligibleEventBriefs, calVars
  <2>4. \A p \in Pairs : Kept(p)  BY <1>4, <1>d DEF DeleteIneligibleEventBriefs
  <2> QED  BY <1>e, <2>1, <2>2, <2>3, <2>4, FreshPass
<1>5. CASE ReconcileEventBriefPair(s)
  <2>1. PICK p \in pass[s].todo : PairFails(s) \/ PairIsSame(s, p) \/ PairIsNew(s, p)
    BY <1>5, PairCases
  <2>2. pass[s].phase = "pairs" /\ UNCHANGED <<template, agent, worker, dropped, overlap>>
    BY <1>5, PairCases
  <2> DEFINE r == [pass[s] EXCEPT !.todo = @ \ {p}]
  <2>3. r.tmpl = pass[s].tmpl /\ r.agent = pass[s].agent /\ r.batch = pass[s].batch  BY <1>0 DEF PassRec
  <2>4. [pass EXCEPT ![s].todo = @ \ {p}] = [pass EXCEPT ![s] = r]  BY DEF Shape, Types
  <2> HIDE DEF r
  <2>5. CASE PairFails(s)
    <3>1. UNCHANGED <<event, brief>> /\ pass' = [pass EXCEPT ![s] = NoPass]
      BY <2>5 DEF PairFails, SyncFails
    <3> QED  BY <1>b, <1>c, <2>2, <3>1, FreshPass
  <2>6. CASE PairIsSame(s, p)
    <3>1. UNCHANGED <<event, brief>> /\ pass' = [pass EXCEPT ![s] = r]
      BY <2>4, <2>6 DEF PairIsSame, calVars
    <3> QED  BY <1>c, <1>e, <2>2, <2>3, <3>1, FreshPass
  <2>7. CASE PairIsNew(s, p)
    <3>1. UNCHANGED event /\ pass' = [pass EXCEPT ![s] = r] /\ event[p[1]].row = Batched(s, p[1]).row
      BY <2>4, <2>7 DEF PairIsNew, calVars
    <3>2. PICK h \in Hashes : h = ComputePreBriefHash(s, p)  BY <2>2, HashKnown
    <3>3. PICK id : id = IF brief[p] = NoBrief THEN bounds.ids + 1 ELSE brief[p].id  OBVIOUS
    <3>4. p \in Pairs /\ p[1] \in Events /\ p[2] \in Templates  BY <2>2, HashKnown, Numbers
    <3>5. /\ \A q \in Pairs : q # p => brief'[q] = brief[q]
          /\ brief'[p].id = id /\ brief'[p].gen = brief[p].gen + 1 /\ brief'[p].hash = h
          /\ brief'[p].status # "ready"
      <4> DEFINE b == [id |-> id, gen |-> brief[p].gen + 1, hash |-> h, content |-> NoHash,
                       status |-> IF h = NoHash THEN "failed" ELSE "pending"]
      <4>1. brief' = [brief EXCEPT ![p] = b]  BY <2>7, <3>2, <3>3 DEF PairIsNew, NewGeneration
      <4>2. brief \in [Pairs -> BriefRec]  BY DEF Shape, Types
      <4>3. brief'[p] = b /\ \A q \in Pairs : q # p => brief'[q] = brief[q]
        <5> HIDE DEF b
        <5> QED  BY <3>4, <4>1, <4>2
      <4> QED  BY <4>3
    <3>6. Steady(p)
      <4>1. brief[p].gen \in Nat /\ bounds.ids \in Nat  BY <3>4, Numbers
      <4> QED  BY <3>3, <3>5, <4>1 DEF Steady
    <3>7. h[2] <= template[p[2]].version /\ h[3] <= agent.version
          /\ (~overlap => h[1] <= event[p[1]].version)
      <4>1. CASE h = NoHash  BY <1>a, <3>4, <4>1 DEF NoHash
      <4>2. CASE h # NoHash
        <5>1. /\ h[1] = Batched(s, p[1]).version /\ <<p[2], h[2]>> \in pass[s].tmpl
              /\ h[3] = pass[s].agent
          BY <2>2, <3>2, <4>2, HashKnown
        <5>2. PICK b \in pass[s].batch : b[1] = p[1] /\ Batched(s, p[1]) = b[2]  BY <2>2, HashKnown
        <5>3. ~overlap => b[2].version <= event[b[1]].version  BY <1>0, <3>1, <5>2 DEF PassFresh
        <5>4. h[2] <= template[p[2]].version  BY <1>0, <5>1 DEF PassFresh
        <5> QED  BY <1>0, <5>1, <5>2, <5>3, <5>4 DEF PassFresh
      <4> QED  BY <4>1, <4>2
    <3>8. HashOK(p)'  BY <2>2, <3>1, <3>5, <3>7 DEF HashOK
    <3>9. \A q \in Pairs : Kept(q) \/ (Steady(q) /\ HashOK(q)')
      <4>1. \A q \in Pairs : q # p => Kept(q)  BY <3>5 DEF Kept
      <4> QED  BY <3>6, <3>8, <4>1
    <3> QED  BY <1>e, <2>2, <2>3, <3>1, <3>9, FreshPass
  <2> QED  BY <2>1, <2>5, <2>6, <2>7
<1>6. CASE NextPage(s)
  <2> DEFINE r == [pass[s] EXCEPT !.phase = IF Cardinality(pass[s].batch) < BatchSize THEN "done" ELSE "page"]
  <2>1. r.tmpl = pass[s].tmpl /\ r.agent = pass[s].agent /\ r.batch = pass[s].batch  BY <1>0 DEF PassRec
  <2>2. pass' = [pass EXCEPT ![s] = r]  BY <1>6 DEF NextPage, Step
  <2> HIDE DEF r
  <2>3. UNCHANGED <<event, template, agent, overlap, worker, brief>>  BY <1>6 DEF NextPage, calVars
  <2> QED  BY <1>c, <1>e, <2>1, <2>2, <2>3, FreshPass
<1>7. CASE FinishSync(s) \/ ReconcileFault(s)
  <2>1. UNCHANGED <<event, template, agent, overlap, worker, brief>> /\ pass' = [pass EXCEPT ![s] = NoPass]
    BY <1>7 DEF FinishSync, ReconcileFault, Step, UpdateSourceStatus, SyncFails
  <2> QED  BY <1>b, <1>c, <2>1, FreshPass
<1> QED  BY <1>1, <1>2, <1>3, <1>4, <1>5, <1>6, <1>7, <1>8 DEF ReconcileStep

\* Templates and the default agent: their versions rise, briefs go or stay.
LEMMA FreshTemplates ==
    ASSUME Shape, Shape', Ledger, Ledger', Fresh,
           \/ ChangeAgent
           \/ \E t \in Templates : DeleteTemplate(t) \/ \E state \in {"on", "off"} : UpdateTemplate(t, state)
    PROVE Fresh'
<1>0. agent.version \in Nat /\ (\A t \in Templates : template[t].version \in Nat)
      /\ template \in [Templates -> [state: {"on", "off", "gone"}, version: Nat]]
  BY VersionNumbers DEF Shape, Types, TableTypes
<1>a. ASSUME NEW S, DeleteBriefs(S) \/ UNCHANGED brief PROVE \A p \in Pairs : Kept(p)
  BY <1>a, KeptAll DEF DeleteBriefs
<1>1. CASE ChangeAgent
  <2>1. UNCHANGED <<event, overlap, template, brief, pass, worker>>  BY <1>1 DEF ChangeAgent, calVars
  <2>2. agent'.version >= agent.version  BY <1>0, <1>1 DEF ChangeAgent
  <2>3. \A t \in Templates : template'[t].version >= template[t].version  BY <1>0, <2>1
  <2>4. Rises  BY <2>1, <2>2, <2>3, RisesQuiet
  <2> QED  BY <1>a, <2>1, <2>4, FreshStep
<1>2. ASSUME NEW t \in Templates, DeleteTemplate(t) PROVE Fresh'
  <2>1. UNCHANGED <<event, overlap, agent, pass, worker>> /\ DeleteBriefs(Events \X {t})
    BY <1>2 DEF DeleteTemplate, calVars
  <2>2. \A u \in Templates : template'[u].version >= template[u].version
    <3>1. template' = [template EXCEPT ![t].state = "gone"]  BY <1>2 DEF DeleteTemplate
    <3>2. \A u \in Templates : template'[u].version = template[u].version  BY <1>0, <3>1
    <3> QED  BY <1>0, <3>2
  <2>3. agent'.version >= agent.version  BY <1>0, <2>1
  <2>4. Rises  BY <2>1, <2>2, <2>3, RisesQuiet
  <2> QED  BY <1>a, <2>1, <2>4, FreshStep
<1>3. ASSUME NEW t \in Templates, NEW state \in {"on", "off"}, UpdateTemplate(t, state) PROVE Fresh'
  <2>1. UNCHANGED <<event, overlap, agent, pass, worker>>  BY <1>3 DEF UpdateTemplate, calVars
  <2>2. DeleteBriefs(Events \X {t}) \/ UNCHANGED brief  BY <1>3 DEF UpdateTemplate
  <2>3. \A u \in Templates : template'[u].version >= template[u].version
    <3>1. template' = [template EXCEPT ![t] = [state |-> state, version |-> template[t].version + 1]]
      BY <1>3 DEF UpdateTemplate
    <3>2. template'[t].version = template[t].version + 1
          /\ \A u \in Templates : u # t => template'[u].version = template[u].version
      BY <1>0, <3>1
    <3> QED  BY <1>0, <3>2
  <2>4. agent'.version >= agent.version  BY <1>0, <2>1
  <2>5. Rises  BY <2>1, <2>3, <2>4, RisesQuiet
  <2> QED  BY <1>a, <2>1, <2>2, <2>5, FreshStep
<1> QED  BY <1>1, <1>2, <1>3

\* A verdict other than ready, or a retry, keeps what the brief says.
LEMMA KeptVerdict ==
    ASSUME Shape, NEW p \in Pairs, brief[p] # NoBrief, NEW st, st # "ready",
           brief' = [brief EXCEPT ![p].status = st]
    PROVE \A q \in Pairs : Kept(q)
<1>1. brief \in [Pairs -> BriefRec]  BY DEF Shape, Types
<1>2. /\ brief'[p].id = brief[p].id /\ brief'[p].gen = brief[p].gen /\ brief'[p].hash = brief[p].hash
      /\ brief'[p].content = brief[p].content /\ brief'[p].status = st
      /\ \A q \in Pairs : q # p => brief'[q] = brief[q]
  BY <1>1 DEF BriefRec
<1> QED  BY <1>2 DEF Kept

\* The administrator writes no content and no hash.
LEMMA FreshAdmin ==
    ASSUME Shape, Shape', Ledger, Ledger', Fresh, NEW j \in Jobs, HandleCancelJob(j) \/ HandleRetryJob(j)
    PROVE Fresh'
<1>1. UNCHANGED <<event, overlap, template, agent, pass, worker>>
  BY DEF HandleCancelJob, HandleRetryJob, CancelJob, RetryPreBriefJob, calVars
<1>2. Rises  BY <1>1, RisesStill
<1>3. \A p \in Pairs : Kept(p)
  <2>1. CASE HandleCancelJob(j)  BY <2>1, KeptAll DEF HandleCancelJob, CancelJob
  <2>2. CASE HandleRetryJob(j)
    <3>1. PICK k \in JobRec : k = job[j]  BY Numbers
    <3>2. k # NoJob  BY <2>2, <3>1 DEF HandleRetryJob, NoJob
    <3>3. k.pair \in Pairs /\ k.brief >= 1  BY <3>1, <3>2 DEF Ledger, Ticket
    <3>4. brief[k.pair].id = k.brief /\ brief' = [brief EXCEPT ![k.pair].status = "pending"]
      BY <2>2, <3>1 DEF HandleRetryJob, RetryPreBriefJob
    <3>5. brief[k.pair] # NoBrief  BY <3>3, <3>4 DEF NoBrief
    <3> QED  BY <3>3, <3>4, <3>5, KeptVerdict
  <2> QED  BY <2>1, <2>2
<1> QED  BY <1>1, <1>2, <1>3, FreshStep

\* A step of one worker answers for what that worker holds and writes.
LEMMA FreshMoved ==
    ASSUME Shape, Shape', Ledger, Ledger', Fresh, NEW w \in Workers, Stay,
           \A u \in Workers : u # w => worker'[u] = worker[u],
           worker'[w].pc \notin {"pair", "generate"} \/ WorkerFresh(w)',
           \A p \in Pairs : Kept(p) \/ (Steady(p) /\ HashOK(p)')
    PROVE Fresh'
<1>1. UNCHANGED <<event, overlap, template, agent, pass>>  BY DEF Stay, calVars
<1>2. Rises  BY <1>1, RisesStill
<1>3. WorkerFresh(w)'  BY DEF WorkerFresh
<1> QED  BY <1>1, <1>2, <1>3, FreshStep

\* Loading the event and checking the pair: what the worker reads is no older
\* than the hash of the generation it works for, as long as that is current.
LEMMA FreshChecks ==
    ASSUME Shape, Shape', Ledger, Ledger', Fresh, NEW w \in Workers,
           LoadEvent(w) \/ RunPreGenerate(w) \/ GenerateFails(w)
    PROVE Fresh'
<1>0. worker[w].pc # "idle" /\ UNCHANGED brief /\ Stay
  BY DEF LoadEvent, RunPreGenerate, GenerateFails
<1>a. \A p \in Pairs : Kept(p)  BY <1>0, KeptAll
<1>b. UNCHANGED <<event, overlap, template, agent>>  BY <1>0 DEF Stay, calVars
<1>c. PICK k \in JobRec : k = Held(w)  BY Numbers
<1>d. Ticket(k) /\ k.pair \in Pairs /\ k.brief >= 1  BY <1>0, <1>c DEF Ledger, WorkerOK, Ticket
<1>e. k.pair[1] \in Events /\ k.pair[2] \in Templates  BY <1>d, Numbers
<1>f. ASSUME IsCurrent(k)
      PROVE /\ brief[k.pair].hash[2] <= template[k.pair[2]].version
            /\ brief[k.pair].hash[3] <= agent.version
            /\ ~overlap => brief[k.pair].hash[1] <= event[k.pair[1]].version
  <2>1. brief[k.pair] # NoBrief  BY <1>d, <1>f DEF IsCurrent, NoBrief
  <2> QED  BY <1>d, <2>1 DEF Fresh, HashOK
<1>g. PICK h \in Hashes : h = brief[k.pair].hash  BY <1>d, VersionNumbers
<1>h. h[1] \in Nat /\ h[2] \in Nat /\ h[3] \in Nat  BY VersionNumbers
<1>i. /\ event[k.pair[1]].version \in Nat /\ template[k.pair[2]].version \in Nat /\ agent.version \in Nat
      /\ worker[w].event.version \in Nat
  BY <1>e, VersionNumbers
<1>j. ASSUME NEW pc, Moves(w, pc) PROVE Held(w)' = k /\ (Current(w)' <=> IsCurrent(k))
  <2>1. Held(w)' = k  BY <1>c, <1>j DEF Held, Moves
  <2> QED  BY <1>0, <2>1 DEF Current, IsCurrent
<1>k. ASSUME NEW pc, pc \notin {"pair", "generate"}, Go(w, pc) PROVE Fresh'
  <2>1. Moves(w, pc)  BY <1>k, GoMoves
  <2> QED  BY <1>0, <1>a, <1>k, <2>1, FreshMoved DEF Moves
<1>p. "pair" \in Pcs /\ "generate" \in Pcs /\ "fail" \in Pcs  BY DEF Pcs
<1>3. CASE LoadEvent(w)
  <2>1. event[k.pair[1]] \in RowRec  BY <1>e DEF Shape, Types, CalTypes
  <2>2. CASE worker' = [worker EXCEPT ![w].pc = "pair", ![w].event = event[k.pair[1]]]
    <3>1. Moves(w, "pair") /\ worker'[w].event = event[k.pair[1]]  BY <1>p, <2>1, <2>2, EditMoves
    <3>2. ASSUME IsCurrent(k), ~overlap PROVE event[k.pair[1]].version >= h[1]
      BY <1>f, <1>g, <1>h, <1>i, <3>2
    <3>3. WorkerFresh(w)'
      <4>1. worker'[w].pc = "pair"  BY <3>1 DEF Moves
      <4>2. Current(w)' /\ ~overlap' => worker'[w].event.version >= brief'[Held(w)'.pair].hash[1]
        BY <1>0, <1>b, <1>g, <1>j, <3>1, <3>2
      <4> QED  BY <4>1, <4>2 DEF WorkerFresh
    <3> QED  BY <1>0, <1>a, <3>1, <3>3, FreshMoved DEF Moves
  <2>3. CASE Go(w, "complete")  BY <1>k, <2>3
  <2> QED  BY <1>3, <1>c, <2>2, <2>3 DEF LoadEvent
<1>4. CASE RunPreGenerate(w)
  <2>1. PICK c : c = <<worker[w].event.version, template[k.pair[2]].version, agent.version>>  OBVIOUS
  <2>2. c \in Hashes  BY <1>i, <2>1 DEF Hashes
  <2>3. \/ Go(w, "complete") \/ Go(w, "cleanup") \/ Go(w, "fail")
        \/ IsCurrent(k) /\ worker' = [worker EXCEPT ![w].pc = "generate", ![w].content = c]
    BY <1>4, <1>c, <2>1 DEF RunPreGenerate, Current
  <2>4. CASE IsCurrent(k) /\ worker' = [worker EXCEPT ![w].pc = "generate", ![w].content = c]
    <3>1. Moves(w, "generate") /\ worker'[w].content = c  BY <1>p, <2>2, <2>4, EditMoves
    <3>2. ASSUME ~overlap PROVE AtLeast(c, h)
      <4>1. worker[w].pc = "pair" /\ Current(w)  BY <1>4, <1>c, <2>4 DEF RunPreGenerate, Current
      <4>2. worker[w].event.version >= h[1]  BY <1>c, <1>g, <3>2, <4>1 DEF Fresh, WorkerFresh
      <4>3. h[2] <= template[k.pair[2]].version /\ h[3] <= agent.version  BY <1>f, <1>g, <2>4
      <4> QED  BY <1>h, <1>i, <2>1, <4>2, <4>3 DEF AtLeast
    <3>3. WorkerFresh(w)'
      <4>1. worker'[w].pc = "generate"  BY <3>1 DEF Moves
      <4>2. Current(w)' /\ ~overlap' => AtLeast(worker'[w].content, brief'[Held(w)'.pair].hash)
        BY <1>0, <1>b, <1>g, <1>j, <3>1, <3>2
      <4> QED  BY <4>1, <4>2 DEF WorkerFresh, AtLeast
    <3> QED  BY <1>0, <1>a, <3>1, <3>3, FreshMoved DEF Moves
  <2> QED  BY <1>k, <2>3, <2>4
<1>5. CASE GenerateFails(w)
  <2>1. PICK b \in BOOLEAN : worker' = [worker EXCEPT ![w].pc = "fail", ![w].retryable = b]
    BY <1>5 DEF GenerateFails
  <2>2. Moves(w, "fail")  BY <1>p, <2>1, EditMoves
  <2> QED  BY <1>0, <1>a, <2>2, FreshMoved DEF Moves
<1> QED  BY <1>3, <1>4, <1>5

\* PublishEventBrief writes what the worker made for the current generation.
LEMMA FreshPublish ==
    ASSUME Shape, Shape', Ledger, Ledger', Fresh, NEW w \in Workers, PublishEventBrief(w)
    PROVE Fresh'
<1>1. worker[w].pc = "generate" /\ Go(w, "complete") /\ Stay  BY DEF PublishEventBrief
<1>2. Moves(w, "complete")  BY <1>1, GoMoves
<1>3. UNCHANGED <<event, overlap, template, agent>>  BY <1>1 DEF Stay, calVars
<1>4. CASE ~Current(w)
  <2>1. \A p \in Pairs : Kept(p)  BY <1>4, KeptAll DEF PublishEventBrief
  <2> QED  BY <1>1, <1>2, <2>1, FreshMoved DEF Moves
<1>5. CASE Current(w)
  <2>1. PICK k \in JobRec : k = Held(w)  BY Numbers
  <2>2. k.pair \in Pairs /\ k.brief >= 1  BY <1>1, <2>1 DEF Ledger, WorkerOK, Ticket
  <2>3. brief[k.pair] # NoBrief  BY <1>5, <2>1, <2>2 DEF Current, IsCurrent, NoBrief
  <2>4. /\ \A q \in Pairs : q # k.pair => brief'[q] = brief[q]
        /\ brief'[k.pair].id = brief[k.pair].id /\ brief'[k.pair].gen = brief[k.pair].gen
        /\ brief'[k.pair].hash = brief[k.pair].hash /\ brief'[k.pair].content = worker[w].content
    <3>1. brief \in [Pairs -> BriefRec]  BY DEF Shape, Types
    <3>2. brief' = [brief EXCEPT ![k.pair].status = "ready", ![k.pair].content = worker[w].content]
      BY <1>5, <2>1 DEF PublishEventBrief
    <3> QED  BY <2>2, <3>1, <3>2 DEF BriefRec
  <2>5. ~overlap => AtLeast(worker[w].content, brief[k.pair].hash)
    BY <1>1, <1>5, <2>1 DEF Fresh, WorkerFresh
  <2>6. HashOK(k.pair)  BY <2>2 DEF Fresh
  <2>7. HashOK(k.pair)'  BY <1>3, <2>3, <2>4, <2>5, <2>6 DEF HashOK, AtLeast
  <2>8. \A q \in Pairs : Kept(q) \/ (Steady(q) /\ HashOK(q)')
    <3>1. Steady(k.pair)  BY <2>4 DEF Steady
    <3>2. \A q \in Pairs : q # k.pair => Kept(q)  BY <2>4 DEF Kept
    <3> QED  BY <2>7, <3>1, <3>2
  <2> QED  BY <1>1, <1>2, <2>8, FreshMoved DEF Moves
<1> QED  BY <1>4, <1>5

\* The workers keep the briefs fresh.
LEMMA FreshWorker ==
    ASSUME Shape, Shape', Ledger, Ledger', Fresh, NEW w \in Workers, WorkerStep(w) \/ Crash(w)
    PROVE Fresh'
<1>0. worker \in [Workers -> WorkRec]  BY DEF Shape, Types
<1>a. UNCHANGED brief => \A p \in Pairs : Kept(p)  BY KeptAll
<1>b. ASSUME NEW r, r.pc \notin {"pair", "generate"}, worker' = [worker EXCEPT ![w] = r], Stay,
             \A p \in Pairs : Kept(p)
      PROVE Fresh'
  <2>1. worker'[w] = r /\ \A u \in Workers : u # w => worker'[u] = worker[u]  BY <1>0, <1>b
  <2> QED  BY <1>b, <2>1, FreshMoved
<1>c. ASSUME NEW pc, pc \notin {"pair", "generate"}, Go(w, pc), Stay, \A p \in Pairs : Kept(p)
      PROVE Fresh'
  <2>1. Moves(w, pc)  BY <1>c, GoMoves
  <2> QED  BY <1>c, <2>1, FreshMoved DEF Moves
<1>d. Idle.pc \notin {"pair", "generate"}  BY DEF Idle
<1>1. ASSUME NEW j \in Jobs, ClaimJob(w, j) PROVE Fresh'
  <2> DEFINE r == [Idle EXCEPT !.pc = "event", !.job = j, !.held = job'[j]]
  <2>1. worker' = [worker EXCEPT ![w] = r] /\ UNCHANGED brief /\ Stay  BY <1>1 DEF ClaimJob
  <2>2. r.pc = "event"  BY DEF Idle
  <2> HIDE DEF r
  <2> QED  BY <1>a, <1>b, <2>1, <2>2
<1>2. CASE CleanupIneligibleEventBriefIfCurrent(w)
  <2>1. Go(w, "complete") /\ Stay  BY <1>2 DEF CleanupIneligibleEventBriefIfCurrent
  <2>2. \A p \in Pairs : brief'[p] = NoBrief \/ brief'[p] = brief[p]
    BY <1>2 DEF CleanupIneligibleEventBriefIfCurrent, DeleteBriefs
  <2>3. \A p \in Pairs : Kept(p)  BY <2>2, KeptAll
  <2> QED  BY <1>c, <2>1, <2>3
<1>3. CASE CompleteJob(w)  BY <1>3, <1>a, <1>b, <1>d DEF CompleteJob
<1>4. CASE FailJob(w)
  <2>1. UNCHANGED brief /\ Stay  BY <1>4 DEF FailJob
  <2>2. worker' = [worker EXCEPT ![w] = Idle] \/ Go(w, "terminal")  BY <1>4 DEF FailJob
  <2> QED  BY <1>a, <1>b, <1>c, <1>d, <2>1, <2>2
<1>5. CASE HandlePreGenerateTerminalFailure(w)
  <2>1. worker[w].pc = "terminal" /\ worker' = [worker EXCEPT ![w] = Idle] /\ Stay
    BY <1>5 DEF HandlePreGenerateTerminalFailure
  <2>2. \A p \in Pairs : Kept(p)
    <3>1. CASE ~Current(w)  BY <1>5, <1>a, <3>1 DEF HandlePreGenerateTerminalFailure
    <3>2. CASE Current(w)
      <4>1. PICK k \in JobRec : k = Held(w)  BY Numbers
      <4>2. k.pair \in Pairs /\ k.brief >= 1  BY <2>1, <4>1 DEF Ledger, WorkerOK, Ticket
      <4>3. brief[k.pair] # NoBrief  BY <3>2, <4>1, <4>2 DEF Current, IsCurrent, NoBrief
      <4>4. brief' = [brief EXCEPT ![k.pair].status = "failed"]
        BY <1>5, <3>2, <4>1 DEF HandlePreGenerateTerminalFailure
      <4> QED  BY <4>2, <4>3, <4>4, KeptVerdict
    <3> QED  BY <3>1, <3>2
  <2> QED  BY <1>b, <1>d, <2>1, <2>2
<1>6. CASE Crash(w)  BY <1>6, <1>a, <1>b, <1>d DEF Crash
<1> QED  BY <1>1, <1>2, <1>3, <1>4, <1>5, <1>6, FreshChecks, FreshPublish DEF WorkerStep

\* Init: no brief, no pass and no worker.
LEMMA FreshInit == Init => Fresh
<1> SUFFICES ASSUME Init PROVE Fresh  OBVIOUS
<1>1. \A p \in Pairs : HashOK(p)  BY DEF Init, HashOK
<1>2. \A s \in Syncers : PassFresh(s)  BY DEF Init, PassFresh, NoPass
<1>3. \A w \in Workers : WorkerFresh(w)  BY DEF Init, WorkerFresh, Idle
<1> QED  BY <1>1, <1>2, <1>3 DEF Fresh

\* Every step keeps the three layers.
LEMMA InvNext ==
    ASSUME Inv, [Next]_vars PROVE Inv'
<1>0. Shape /\ Ledger /\ Fresh  BY DEF Inv
<1>1. Shape' /\ Ledger'  BY <1>0, LedgerNext
<1>2. Fresh'
  <2>1. CASE UNCHANGED vars
    <3>1. UNCHANGED <<event, overlap, template, agent, brief, pass, worker>>
      BY <2>1 DEF vars, calVars, briefVars
    <3>2. Rises  BY <1>0, <3>1, RisesStill
    <3>3. \A p \in Pairs : Kept(p)  BY <3>1, KeptAll
    <3> QED  BY <1>0, <1>1, <3>1, <3>2, <3>3, FreshStep
  <2>2. CASE CalendarStep \/ \E s \in Syncers : StartCalendarScheduler(s) \/ SyncStep(s) \/ FetchFault(s)
    BY <1>0, <1>1, <2>2, FreshCalendar
  <2>3. ASSUME NEW s \in Syncers, ReconcileStep(s) \/ DefaultPluginFails(s) \/ ReconcileFault(s) PROVE Fresh'
    BY <1>0, <1>1, <2>3, FreshReconcile
  <2>4. CASE \/ ChangeAgent
             \/ \E t \in Templates : DeleteTemplate(t) \/ \E state \in {"on", "off"} : UpdateTemplate(t, state)
    BY <1>0, <1>1, <2>4, FreshTemplates
  <2>5. ASSUME NEW j \in Jobs, HandleCancelJob(j) \/ HandleRetryJob(j) PROVE Fresh'
    BY <1>0, <1>1, <2>5, FreshAdmin
  <2>6. ASSUME NEW w \in Workers, WorkerStep(w) \/ Crash(w) PROVE Fresh'
    BY <1>0, <1>1, <2>6, FreshWorker
  <2> QED  BY <2>1, <2>2, <2>3, <2>4, <2>5, <2>6 DEF Next
<1> QED  BY <1>1, <1>2 DEF Inv

\* What is said of the calendar's rows, the passes, the briefs, their jobs and
\* the workers holds in every state of the system: the inductive invariant of
\* ReconcileEventBriefPair, the cascades and runPreGenerate together.
THEOREM InvAlways == Spec => []Inv
<1>1. Init => Inv  BY ShapeInit, LedgerInit, FreshInit DEF Inv
<1>2. Inv /\ [Next]_vars => Inv'  BY InvNext
<1> QED  BY <1>1, <1>2, PTL DEF Spec

\* A brief that handleListCalendarEvents shows as ready was written from an
\* event, a template and an agent none of which is older than the ones its hash
\* was computed from (PublishEventBrief compares the generation, not the hash),
\* unless overlapping passes stored an older event over a newer one; and no
\* brief outlives its event: for any number of events, templates, passes, jobs
\* and workers.
THEOREM ReadyBriefsAreFresh == Spec => []ReadyIsFresh
<1>1. Inv => ReadyIsFresh
  <2> SUFFICES ASSUME Inv PROVE ReadyIsFresh  OBVIOUS
  <2>0. Shape /\ Ledger /\ Fresh  BY DEF Inv
  <2>1. \A p \in HandleListCalendarEvents : p \in Pairs /\ brief[p] # NoBrief
    BY DEF HandleListCalendarEvents, EventBriefsForEvents, ListEvents, Pairs
  <2>2. ASSUME NEW p \in HandleListCalendarEvents, brief[p].status = "ready", ~overlap, NEW i \in 1..3
        PROVE brief[p].content[i] >= brief[p].hash[i]
    <3>1. AtLeast(brief[p].content, brief[p].hash)  BY <2>0, <2>1, <2>2 DEF Fresh, HashOK
    <3>2. i = 1 \/ i = 2 \/ i = 3  OBVIOUS
    <3> QED  BY <3>1, <3>2 DEF AtLeast
  <2>3. ASSUME NEW p \in Pairs, brief[p] # NoBrief PROVE p \in HandleListCalendarEvents
    <3>1. event[p[1]] # NoRow  BY <2>0, <2>3 DEF Ledger, BriefOK
    <3>2. p[1] \in ListEvents  BY <2>0, <3>1, Numbers DEF ListEvents, Stored
    <3>3. p \in ListEvents \X Templates  BY <3>2 DEF Pairs
    <3> QED  BY <2>3, <3>3 DEF HandleListCalendarEvents, EventBriefsForEvents
  <2> QED  BY <2>2, <2>3 DEF ReadyIsFresh
<1> QED  BY <1>1, InvAlways, PTL
============================================================================
