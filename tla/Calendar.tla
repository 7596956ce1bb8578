------------------------------ MODULE Calendar ------------------------------
(***************************************************************************)
(* A calendar source and the copy of its events (internal/worker/          *)
(* calendarsync.go, internal/store/calendar.go, internal/calendar and      *)
(* internal/api/calendar.go).  A synchronisation fetches, upserts, prunes, *)
(* reconciles the pre-meeting briefs (module EventBriefs) and records its  *)
(* status, each on its own connection; the scheduler's passes and the ones *)
(* a request starts may overlap.                                           *)
(*                                                                         *)
(* Time is a small clock.  What an event says is its version, which the    *)
(* upstream calendar raises with every edit.                               *)
(***************************************************************************)
EXTENDS Integers, FiniteSets

CONSTANTS
    Events,      \* external ids of the upstream calendar
    Shared,      \* those of them that are not in the primary calendar
    Syncers,     \* passes that may overlap; the first is the scheduler's
    Scheduler,
    Lookback, Lookahead,   \* the window SyncSource fetches
    MaxClock,    \* bound: ticks
    MaxEdits,    \* bound: upstream edits of an event
    MaxKicks,    \* bound: passes started by requests
    MaxFaults,   \* bound: failed fetches and failed reconciliations
    MaxSettings  \* bound: changes of the source and of a note's event

VARIABLES
    clock,
    upstream,  \* the calendar at the provider
    source,    \* the calendar_sources row
    event,     \* calendar_events, by external id
    rows,      \* how many rows an external id has had
    link,      \* a note's event_id
    sync,      \* what each pass knows
    used       \* faults, kicks and settings so far

calVars == <<clock, upstream, source, event, rows, link, sync, used>>

Kinds == {"ics", "caldav", "google", "microsoft"}
Times == 0..MaxClock + Lookahead + 1
Versions == 1..MaxEdits + 1
NoRow == [row |-> 0, version |-> 0, start |-> 0]
NoLink == [event |-> 0, row |-> 0]
NoSync == [phase |-> "idle", selected |-> FALSE, got |-> {}]
Fetched == [event: Events, version: Versions, start: Times]

CalTypeOK ==
    /\ clock \in 0..MaxClock
    /\ \A e \in Events : /\ upstream[e].there \in BOOLEAN
                         /\ upstream[e].version \in Versions
                         /\ upstream[e].start \in Times
    /\ source.kind \in Kinds /\ source.state \in {"none", "live", "deleted"}
    /\ source.selected \in BOOLEAN
    /\ source.status \in {"never", "ok", "error", "auth_error"}
    /\ \A e \in Events : event[e] = NoRow \/ event[e].row = rows[e]
    /\ \A s \in Syncers : /\ sync[s].phase \in {"idle", "fetching", "fetched", "upserted", "pruned"}
                          /\ sync[s].got \subseteq Fetched

CalInit ==
    /\ clock = 0
    /\ upstream \in [Events -> [there: BOOLEAN, version: {1}, start: {1, 2}]]
    /\ source \in [kind: Kinds, state: {"none", "live"}, selected: {FALSE}, status: {"never"}]
    /\ event = [e \in Events |-> NoRow]
    /\ rows = [e \in Events |-> 0]
    /\ link = NoLink
    /\ sync = [s \in Syncers |-> NoSync]
    /\ used = [faults |-> 0, kicks |-> 0, settings |-> 0]

Stored(e) == event[e] # NoRow

-----------------------------------------------------------------------------
(* The world around the server.                                            *)

Tick ==
    /\ clock < MaxClock
    /\ clock' = clock + 1
    /\ UNCHANGED <<upstream, source, event, rows, link, sync, used>>

\* Somebody edits, moves, removes or restores an event at the provider.
UpstreamEdit(e) ==
    /\ upstream[e].version <= MaxEdits
    /\ \E there \in BOOLEAN, start \in Times :
          upstream' = [upstream EXCEPT ![e] = [there |-> there, start |-> start,
                                               version |-> @.version + 1]]
    /\ UNCHANGED <<clock, source, event, rows, link, sync, used>>

-----------------------------------------------------------------------------
(* What the providers answer.                                              *)

Listing(S) == {[event |-> e, version |-> upstream[e].version, start |-> upstream[e].start] : e \in S}

Window == {e \in Events : upstream[e].there /\ upstream[e].start \in (clock - Lookback)..(clock + Lookahead)}

\* FetchICS: the whole feed, whenever its events are.
FetchICS == Listing({e \in Events : upstream[e].there})

\* FetchCalDAV: one calendar, the discovered one or the address itself.
FetchCalDAV == Listing(Window \ Shared)

\* selectedCalendarIDs: the primary calendar, and the shared one if selected.
SelectedCalendarIDs(selected) == {FALSE} \cup {selected}

\* FetchGoogle: the selected calendars, the primary one among them.
FetchGoogle(selected) == Listing({e \in Window : (e \in Shared) \in SelectedCalendarIDs(selected)})

\* FetchMicrosoft: the primary calendar, whatever is selected.
FetchMicrosoft == Listing(Window \ Shared)

Fetch(selected) ==
    CASE source.kind = "ics"       -> FetchICS
      [] source.kind = "caldav"    -> FetchCalDAV
      [] source.kind = "google"    -> FetchGoogle(selected)
      [] source.kind = "microsoft" -> FetchMicrosoft

-----------------------------------------------------------------------------
(* Requests.                                                               *)

Setting == used.settings < MaxSettings /\ used' = [used EXCEPT !.settings = @ + 1]

\* SetSelectedCalendars; the next pass fetches accordingly.
SetSelectedCalendars ==
    /\ source.state = "live" /\ source.kind \in {"google", "microsoft"}
    /\ source' = [source EXCEPT !.selected = ~@]
    /\ Setting
    /\ UNCHANGED <<clock, upstream, event, rows, link, sync>>

\* The rows of S go, and what refers to them: a note's event_id is set to NULL.
Drop(S) ==
    /\ event' = [e \in Events |-> IF e \in S THEN NoRow ELSE event[e]]
    /\ link' = IF link.event \in S THEN NoLink ELSE link

\* DeleteSource: its events cascade.
DeleteSource ==
    /\ source.state = "live"
    /\ source' = [source EXCEPT !.state = "deleted"]
    /\ Drop(Events)
    /\ Setting
    /\ UNCHANGED <<clock, upstream, rows, sync>>

\* SetNoteEvent: the event must be stored.
SetNoteEvent(e) ==
    /\ Stored(e)
    /\ link' = [event |-> e, row |-> event[e].row]
    /\ Setting
    /\ UNCHANGED <<clock, upstream, source, event, rows, sync>>

ClearNoteEvent ==
    /\ link # NoLink
    /\ link' = NoLink
    /\ Setting
    /\ UNCHANGED <<clock, upstream, source, event, rows, sync>>

-----------------------------------------------------------------------------
(* SyncSource.                                                             *)

Move(s, phase) == sync' = [sync EXCEPT ![s].phase = phase]
End(s) == sync' = [sync EXCEPT ![s] = NoSync]

\* The source is read, and with it the selected calendars.
SyncSource(s) ==
    /\ sync[s].phase = "idle" /\ source.state = "live"
    /\ sync' = [sync EXCEPT ![s] = [NoSync EXCEPT !.phase = "fetching", !.selected = source.selected]]
    /\ UNCHANGED <<clock, upstream, source, event, rows, link>>

SyncAllSourcesOnce(s) == s = Scheduler /\ SyncSource(s) /\ UNCHANGED used

\* A pass in the background of a request.
Kick == used.kicks < MaxKicks /\ used' = [used EXCEPT !.kicks = @ + 1]
KickCalendarSync(s) == s # Scheduler /\ Kick /\ SyncSource(s)

\* CreateSource, and a first pass over it.
CreateSource(s) ==
    /\ source.state = "none" /\ s # Scheduler /\ sync[s].phase = "idle"
    /\ source' = [source EXCEPT !.state = "live"]
    /\ sync' = [sync EXCEPT ![s] = [NoSync EXCEPT !.phase = "fetching"]]
    /\ Kick
    /\ UNCHANGED <<clock, upstream, event, rows, link>>

FetchEvents(s) ==
    /\ sync[s].phase = "fetching"
    /\ sync' = [sync EXCEPT ![s].phase = "fetched", ![s].got = Fetch(sync[s].selected)]
    /\ UNCHANGED <<clock, upstream, source, event, rows, link, used>>

\* A failed fetch ends the pass before anything is stored; isAuthError tells
\* which status the source shows.
FetchFails(s) ==
    /\ sync[s].phase = "fetching" /\ used.faults < MaxFaults
    /\ used' = [used EXCEPT !.faults = @ + 1]
    /\ \E status \in {"error", "auth_error"} :
          source' = IF source.state = "live" THEN [source EXCEPT !.status = status] ELSE source
    /\ End(s)
    /\ UNCHANGED <<clock, upstream, event, rows, link>>

\* UpsertEvents: one transaction, refused once the source is deleted.
UpsertEvents(s) ==
    LET got == sync[s].got
        Of(e) == CHOOSE g \in got : g.event = e
        here == {g.event : g \in got}
    IN /\ sync[s].phase = "fetched"
       /\ \/ /\ source.state = "live"
             /\ rows' = [e \in Events |-> IF e \in here /\ ~Stored(e) THEN rows[e] + 1 ELSE rows[e]]
             /\ event' = [e \in Events |->
                   IF e \in here THEN [row |-> rows'[e], version |-> Of(e).version, start |-> Of(e).start]
                   ELSE event[e]]
             /\ Move(s, "upserted")
          \/ source.state = "deleted" /\ End(s) /\ UNCHANGED <<rows, event>>
       /\ UNCHANGED <<clock, upstream, source, link, used>>

\* PruneEvents: whatever this pass did not fetch.
PruneEvents(s) ==
    /\ sync[s].phase = "upserted"
    /\ Drop({e \in Events : Stored(e)} \ {g.event : g \in sync[s].got})
    /\ Move(s, "pruned")
    /\ UNCHANGED <<clock, upstream, source, rows, used>>

\* The briefs could not be reconciled: the pass ends as an error.
SyncFails(s) ==
    /\ source' = IF source.state = "live" THEN [source EXCEPT !.status = "error"] ELSE source
    /\ End(s)
    /\ UNCHANGED <<clock, upstream, event, rows, link>>

\* UpdateSourceStatus, at the end of a pass.
UpdateSourceStatus(s) ==
    /\ sync[s].phase = "pruned"
    /\ source' = IF source.state = "live" THEN [source EXCEPT !.status = "ok"] ELSE source
    /\ End(s)
    /\ UNCHANGED <<clock, upstream, event, rows, link, used>>
=============================================================================
