----------------------------- MODULE MobileNotes -----------------------------
(***************************************************************************)
(* The paged note list of the phone (internal/store/mobile_notes.go,       *)
(* internal/api/mobile_notes.go).  The server keeps nothing between two    *)
(* pages: the client hands back the position of the last row it got, as    *)
(* that row was ordered when the page was read, while notes are created,   *)
(* pinned, trashed, restored and purged under it.                          *)
(***************************************************************************)
EXTENDS Integers, FiniteSets, Sequences, SequencesExt

CONSTANTS
    Notes,      \* ids; their order is the order of n.id, drawn at random
    MaxLimit,   \* mobileNotesMaxLimit
    MaxTime,    \* bound: instants at which notes are created
    MaxChanges  \* bound: creations and changes of notes

VARIABLES
    note,     \* the notes table, of one owner
    clock,    \* now(); two notes may be created at one instant
    reader,   \* the client scrolling through the list
    steady,   \* notes listed when the reader began and not touched since
    changes   \* creations and changes so far

vars == <<note, clock, reader, steady, changes>>

mobileCursorVersion == 1
NoCursor == [v |-> 0]

NoteRow == [state: {"unused", "live", "trashed", "purged"}, pinned: BOOLEAN, created: 0..MaxTime]
Cursor == [v: {mobileCursorVersion}, p: BOOLEAN, c: 1..MaxTime, i: Notes]

TypeOK ==
    /\ note \in [Notes -> NoteRow]
    /\ clock \in 1..MaxTime
    /\ reader.stage \in {"idle", "paging", "done"}
    /\ reader.cursor \in Cursor \cup {NoCursor}
    /\ reader.seen \in Seq(Notes)
    /\ steady \in SUBSET Notes
    /\ changes \in 0..MaxChanges

Init ==
    /\ note = [n \in Notes |-> [state |-> "unused", pinned |-> FALSE, created |-> 0]]
    /\ clock = 1
    /\ reader = [stage |-> "idle", limit |-> 1, cursor |-> NoCursor, seen |-> <<>>]
    /\ steady = {}
    /\ changes = 0

Live == {n \in Notes : note[n].state = "live"}

(***************************************************************************)
(* The list.                                                               *)
(***************************************************************************)
\* Mutation: notes created at the same instant are not told apart.
ListedBeforeByTime(a, b) == (a.p /\ ~b.p) \/ (a.p = b.p /\ a.c > b.c)

\* ORDER BY pinned DESC, created_at DESC, id DESC: a is listed before b.
ListedBefore(a, b) ==
    \/ a.p /\ ~b.p
    \/ a.p = b.p /\ a.c > b.c
    \/ a.p = b.p /\ a.c = b.c /\ a.i > b.i

\* The ordering tuple of a note, versioned: what the opaque cursor carries.
EncodeMobileCursor(n) ==
    [v |-> mobileCursorVersion, p |-> note[n].pinned, c |-> note[n].created, i |-> n]

\* decodeMobileCursor: another version, or a missing field, is refused.
Decodes(raw) == raw = NoCursor \/ (raw.v = mobileCursorVersion /\ raw.c # 0)

\* The live notes strictly after the cursor, in order; all of them when there is none.
RowsAfter(cursor) ==
    LET after == {n \in Live : cursor = NoCursor \/ ListedBefore(cursor, EncodeMobileCursor(n))}
    IN  SetToSortSeq(after, LAMBDA a, b : ListedBefore(EncodeMobileCursor(a), EncodeMobileCursor(b)))

\* ListMobileNotes: limit + 1 rows are read, and the last one only tells that there are more.
ListMobileNotes(limit, cursor) ==
    LET rows == RowsAfter(cursor)
        hasMore == Len(rows) > limit
    IN  [items |-> IF hasMore THEN SubSeq(rows, 1, limit) ELSE rows, more |-> hasMore]

(***************************************************************************)
(* The reader.                                                             *)
(***************************************************************************)
\* The first page of a scroll: no cursor, a limit within the bounds of parseMobileLimit.
BeginReading(limit) ==
    /\ reader.stage # "paging"
    /\ limit \in 1..MaxLimit
    /\ reader' = [stage |-> "paging", limit |-> limit, cursor |-> NoCursor, seen |-> <<>>]
    /\ steady' = Live
    /\ UNCHANGED <<note, clock, changes>>

\* handleListMobileNotes: one page, and a next_cursor only when there is more.
ReadPage ==
    /\ reader.stage = "paging"
    /\ Decodes(reader.cursor)
    /\ LET page == ListMobileNotes(reader.limit, reader.cursor)
           next == page.more /\ page.items # <<>>
       IN  reader' = [reader EXCEPT !.seen = @ \o page.items,
                                    !.cursor = IF next THEN EncodeMobileCursor(Last(page.items))
                                                       ELSE NoCursor,
                                    !.stage = IF next THEN "paging" ELSE "done"]
    /\ UNCHANGED <<note, clock, steady, changes>>

(***************************************************************************)
(* Everyone else.                                                          *)
(***************************************************************************)
Change(n, row) ==
    /\ changes < MaxChanges
    /\ note' = [note EXCEPT ![n] = row]
    /\ steady' = steady \ {n}
    /\ changes' = changes + 1
    /\ UNCHANGED <<clock, reader>>

CreateNote(n) ==
    /\ note[n].state = "unused"
    /\ Change(n, [state |-> "live", pinned |-> FALSE, created |-> clock])

\* SetNotePinned has no filter on deleted_at: a trashed note is pinned too.
SetNotePinned(n, pinned) ==
    /\ note[n].state \in {"live", "trashed"}
    /\ Change(n, [note[n] EXCEPT !.pinned = pinned])

HandlePinNote(n) == SetNotePinned(n, TRUE)
HandleUnpinNote(n) == SetNotePinned(n, FALSE)

DeleteNote(n) ==
    /\ note[n].state = "live"
    /\ Change(n, [note[n] EXCEPT !.state = "trashed"])

RestoreNote(n) ==
    /\ note[n].state = "trashed"
    /\ Change(n, [note[n] EXCEPT !.state = "live"])

PurgeNote(n) ==
    /\ note[n].state = "trashed"
    /\ Change(n, [note[n] EXCEPT !.state = "purged"])

Tick ==
    /\ clock < MaxTime
    /\ clock' = clock + 1
    /\ UNCHANGED <<note, reader, steady, changes>>

Next ==
    \/ \E limit \in 1..MaxLimit : BeginReading(limit)
    \/ ReadPage
    \/ \E n \in Notes : \/ CreateNote(n) \/ DeleteNote(n) \/ RestoreNote(n) \/ PurgeNote(n)
                        \/ HandlePinNote(n) \/ HandleUnpinNote(n)
    \/ Tick

Spec == Init /\ [][Next]_vars

(***************************************************************************)
(* Properties.                                                             *)
(***************************************************************************)
\* However the list changes between two pages, a note that nobody touched while the
\* client scrolled is on exactly one of its pages: on no page twice, and not left out
\* when the last page has been read (ListMobileNotes' strict seek predicate, and the
\* cursor taken from the last row that was returned).
PagesCoverTheList ==
    /\ TypeOK
    /\ \A n \in steady :
           LET times == Cardinality({i \in DOMAIN reader.seen : reader.seen[i] = n})
           IN  times <= 1 /\ (reader.stage = "done" => times = 1)
==============================================================================
