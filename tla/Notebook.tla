------------------------------ MODULE Notebook -------------------------------
(***************************************************************************)
(* What one owner does with notes besides recording them: titles, bodies   *)
(* and the links their mentions make, tags, copies and the trash           *)
(* (internal/store/notes.go, tags.go, notelinks.go and their handlers in   *)
(* internal/api).                                                          *)
(*                                                                         *)
(* Saving a body and copying a note are requests of many statements, on    *)
(* their own and under no transaction, that anything may run between: a    *)
(* title is changed, a note is trashed or purged, a tag is renamed, a      *)
(* statement fails.  Putting a tag on a note and taking it off are each a  *)
(* READ COMMITTED transaction of several statements, every one of which    *)
(* sees what was committed before it.  Every other operation is one        *)
(* statement, or has no effect before the commit it ends with.  Tag and    *)
(* note names are compared as lower() leaves them.                         *)
(***************************************************************************)
EXTENDS Integers, FiniteSets, Sequences, SequencesExt

CONSTANTS
    Notes,       \* note ids
    Titles,      \* titles, folded to lower case
    TagIds,
    TagNames,    \* tag names, trimmed and folded
    Folders,     \* the owner's folders
    Handlers,    \* requests of several statements that may be open at once
    MaxRequests, \* bound: requests of any kind
    MaxFaults    \* bound: statements that fail

VARIABLES
    note,      \* notes and note_bodies: state, title and the titles the body mentions
    tag,       \* tags: the name of an id, NoName when there is no such row
    tagged,    \* note_tags
    linked,    \* note_links
    filed,     \* note_folders
    folders,   \* folders that are not in the trash
    request,   \* per handler, the body it is linking or the copy it is making
    tagging,   \* per handler, the transaction on a tag it has open
    requests, faults

vars == <<note, tag, tagged, linked, filed, folders, request, tagging, requests, faults>>

NoName == "-"
CopyTitle == "copy of"   \* "Copy of " before a title, which no note has otherwise
Idle == [op |-> "idle"]

NoteRow == [state: {"unused", "live", "trashed", "purged"},
            title: Titles \cup {CopyTitle}, mentions: SUBSET Titles]

\* A transaction on a tag: the statement it has done last, the tag it found or made, and, once a
\* removal has looked for other notes, what it saw and what the others have done to the rows of
\* the tag since.
TagWork == [at: {"none", "inserted", "selected", "attached", "found", "detached", "checked"},
            note: Notes \cup {0}, name: TagNames \cup {NoName}, tag: TagIds \cup {0},
            made: BOOLEAN, orphan: BOOLEAN, late: SUBSET Notes, left: BOOLEAN]
NoWork == [at |-> "none", note |-> 0, name |-> NoName, tag |-> 0,
           made |-> FALSE, orphan |-> FALSE, late |-> {}, left |-> FALSE]

TypeOK ==
    /\ note \in [Notes -> NoteRow]
    /\ tag \in [TagIds -> TagNames \cup {NoName}]
    /\ tagged \subseteq Notes \X TagIds
    /\ linked \subseteq Notes \X Notes
    /\ filed \subseteq Notes \X Folders
    /\ folders \subseteq Folders
    /\ \A h \in Handlers : request[h].op \in {"idle", "body", "copy"}
    /\ tagging \in [Handlers -> TagWork]
    /\ requests \in 0..MaxRequests
    /\ faults \in 0..MaxFaults

Init ==
    /\ \E titles \in [Notes -> Titles], last \in Notes :
          /\ \A n \in Notes : n <= last
          /\ note = [n \in Notes |-> [state |-> IF n = last THEN "unused" ELSE "live",
                                       title |-> titles[n], mentions |-> {}]]
          /\ titles[last] = CHOOSE t \in Titles : TRUE
    /\ \E t \in TagIds, name \in TagNames, S \in SUBSET {n \in Notes : note[n].state = "live"} :
          /\ tag = [u \in TagIds |-> IF u = t /\ S # {} THEN name ELSE NoName]
          /\ tagged = S \X {t}
    /\ linked = {}
    /\ filed = {n \in Notes : note[n].state = "live"} \X Folders
    /\ folders = Folders
    /\ request = [h \in Handlers |-> Idle]
    /\ tagging = [h \in Handlers |-> NoWork]
    /\ requests = 0
    /\ faults = 0

Live == {n \in Notes : note[n].state = "live"}
Kept == {n \in Notes : note[n].state \in {"live", "trashed"}}

OneMore == requests < MaxRequests /\ requests' = requests + 1
Free(h) == request[h].op = "idle" /\ tagging[h].at = "none"

(***************************************************************************)
(* Reads.                                                                  *)
(***************************************************************************)
TagNamed(name) == {t \in TagIds : tag[t] = name}

\* NoteTags, tagsForNotes: the names of the tags of a note.
NoteTags(n) == {tag[t] : t \in {u \in TagIds : <<n, u>> \in tagged}}

\* FindNoteByTitleCI: the one live note of that title, or none.
FindNoteByTitleCI(title) ==
    LET found == {n \in Live : note[n].title = title}
    IN  IF Cardinality(found) = 1 THEN found ELSE {}

\* OutgoingLinks, Backlinks: what a live note links to and what links to it, the notes in
\* the trash among them.
OutgoingLinks(n) == {m \in Notes : n \in Live /\ <<n, m>> \in linked}
Backlinks(n) == {m \in Notes : n \in Live /\ <<m, n>> \in linked}

(***************************************************************************)
(* Tags.                                                                   *)
(***************************************************************************)
\* The rows that a transaction keeps from being deleted, or deletes: the tag and the note of a
\* row that is inserted (the foreign keys lock them), and a row that is removed.
Holds(h) == tagging[h].at \in {"attached", "detached", "checked"}

\* What the removals that have looked for other notes are to know of rows that come and go.
Tell(newTagged) ==
    LET rows(w, S) == {n \in Notes : <<n, w.tag>> \in S}
        told(w) == [w EXCEPT !.late = @ \cup rows(w, newTagged \ tagged),
                             !.left = @ \/ rows(w, tagged \ newTagged) # {}]
    IN  [i \in Handlers |-> IF tagging[i].at = "checked" THEN told(tagging[i]) ELSE tagging[i]]

\* h's transaction commits.
Commit(h, newTagged) ==
    /\ tagged' = newTagged
    /\ tagging' = [Tell(newTagged) EXCEPT ![h] = NoWork]

(* AddNoteTag, and the handler that asks for a live note before it. *)

\* The note is there, and the tag is inserted unless the name has one: an insert of the same
\* name that is not committed is waited for.  An id is new to every transaction.
InsertTag(h, n, name) ==
    /\ n \in Kept
    /\ \A i \in Handlers : ~(tagging[i].made /\ tagging[i].name = name)
    /\ \/ /\ TagNamed(name) # {}
          /\ tagging' = [tagging EXCEPT ![h] = [NoWork EXCEPT !.at = "inserted", !.note = n, !.name = name]]
       \/ /\ TagNamed(name) = {}
          /\ \E t \in {u \in TagIds : tag[u] = NoName /\ \A i \in Handlers : tagging[i].tag # u} :
                tagging' = [tagging EXCEPT ![h] = [NoWork EXCEPT !.at = "inserted", !.note = n,
                                                                 !.name = name, !.tag = t, !.made = TRUE]]

HandleAddNoteTag(h, n, name) ==
    /\ OneMore
    /\ Free(h)
    /\ n \in Live
    /\ InsertTag(h, n, name)
    /\ UNCHANGED <<note, tag, tagged, linked, filed, folders, request, faults>>

\* The tag of that name is read again: the transaction's own, or one that is committed.
SelectTag(h) ==
    /\ tagging[h].at = "inserted"
    /\ \E t \in IF tagging[h].made THEN {tagging[h].tag} ELSE TagNamed(tagging[h].name) :
          tagging' = [tagging EXCEPT ![h].at = "selected", ![h].tag = t]
    /\ UNCHANGED <<note, tag, tagged, linked, filed, folders, request, requests, faults>>

Row(h) == <<tagging[h].note, tagging[h].tag>>

\* Nobody else inserts or removes that very row.
RowIsFree(h) == \A i \in Handlers \ {h} : Holds(i) => Row(i) # Row(h)

\* What the foreign keys of the row ask for.
CanAttach(h) ==
    /\ tagging[h].note \in Kept
    /\ tagging[h].made \/ tag[tagging[h].tag] # NoName

AttachTag(h) ==
    /\ tagging[h].at = "selected"
    /\ RowIsFree(h)
    /\ Row(h) \notin tagged /\ CanAttach(h)
    /\ tagging' = [tagging EXCEPT ![h].at = "attached"]
    /\ UNCHANGED <<note, tag, tagged, linked, filed, folders, request, requests, faults>>

\* The name is done with, if the transaction was a copy's.
NameDone(h) ==
    request' = IF request[h].op = "copy" THEN [request EXCEPT ![h].tags = @ \ {tagging[h].name}] ELSE request

\* The row is there already, and nothing is inserted or locked.
KeepTag(h) ==
    /\ tagging[h].at = "selected"
    /\ RowIsFree(h)
    /\ Row(h) \in tagged
    /\ Commit(h, tagged)
    /\ NameDone(h)
    /\ UNCHANGED <<note, tag, linked, filed, folders, requests, faults>>

CommitTag(h) ==
    /\ tagging[h].at = "attached"
    /\ tag' = [tag EXCEPT ![tagging[h].tag] = IF tagging[h].made THEN tagging[h].name ELSE @]
    /\ Commit(h, tagged \cup {Row(h)})
    /\ NameDone(h)
    /\ UNCHANGED <<note, linked, filed, folders, requests, faults>>

(* RemoveNoteTag, and its handler. *)

HandleRemoveNoteTag(h, n, name) ==
    /\ OneMore
    /\ Free(h)
    /\ n \in Live
    /\ \E t \in TagNamed(name) :
          tagging' = [tagging EXCEPT ![h] = [NoWork EXCEPT !.at = "found", !.note = n, !.name = name, !.tag = t]]
    /\ UNCHANGED <<note, tag, tagged, linked, filed, folders, request, faults>>

\* The row is deleted; another removal of it is waited for.
DetachTag(h) ==
    /\ tagging[h].at = "found"
    /\ RowIsFree(h)
    /\ Row(h) \in tagged
    /\ tagging' = [tagging EXCEPT ![h].at = "detached"]
    /\ UNCHANGED <<note, tag, tagged, linked, filed, folders, request, requests, faults>>

\* Mutation: a note in the trash does not count, as it does not in ListTags.
LookForLiveNotes(h) ==
    /\ tagging[h].at = "detached"
    /\ tagging' = [tagging EXCEPT
            ![h].at = "checked",
            ![h].orphan = \A n \in Live \ {tagging[h].note} : <<n, tagging[h].tag>> \notin tagged]
    /\ UNCHANGED <<note, tag, tagged, linked, filed, folders, request, requests, faults>>

\* The statement that deletes the tag sees whether another note has it: rows that are not
\* committed are not seen, and rows whose removal is not committed are.
LookForNotes(h) ==
    /\ tagging[h].at = "detached"
    /\ tagging' = [tagging EXCEPT
            ![h].at = "checked",
            ![h].orphan = \A n \in Notes \ {tagging[h].note} : <<n, tagging[h].tag>> \notin tagged]
    /\ UNCHANGED <<note, tag, tagged, linked, filed, folders, request, requests, faults>>

\* The tag that nobody was seen to have is deleted when nobody holds it or a row of it, without
\* another look, and its rows with it; then the transaction commits.
CommitRemoval(h) ==
    LET t == tagging[h].tag
    IN  /\ tagging[h].at = "checked"
        /\ \/ /\ tagging[h].orphan
              /\ \A i \in Handlers \ {h} : Holds(i) => tagging[i].tag # t
              /\ tag' = [tag EXCEPT ![t] = NoName]
              /\ Commit(h, {p \in tagged : p[2] # t})
           \/ /\ ~tagging[h].orphan
              /\ UNCHANGED tag
              /\ Commit(h, tagged \ {Row(h)})
        /\ UNCHANGED <<note, linked, filed, folders, request, requests, faults>>

\* No row: the tag was renamed or deleted since, the note or the tag is gone, the note has no
\* such tag; or two removals that would delete the tag wait for each other, and one is aborted.
TagRefused(h) ==
    \/ tagging[h].at = "inserted" /\ ~tagging[h].made /\ TagNamed(tagging[h].name) = {}
    \/ tagging[h].at = "selected" /\ Row(h) \notin tagged /\ ~CanAttach(h)
    \/ tagging[h].at = "found" /\ Row(h) \notin tagged
    \/ /\ tagging[h].at = "checked" /\ tagging[h].orphan
       /\ \E i \in Handlers \ {h} : /\ tagging[i].at = "checked" /\ tagging[i].orphan
                                    /\ tagging[i].tag = tagging[h].tag

\* A statement is refused or fails, the transaction is rolled back, and a copy ends with it.
FailTag(h) ==
    /\ tagging[h].at # "none"
    /\ \/ faults < MaxFaults /\ faults' = faults + 1
       \/ TagRefused(h) /\ UNCHANGED faults
    /\ tagging' = [tagging EXCEPT ![h] = NoWork]
    /\ request' = [request EXCEPT ![h] = IF @.op = "copy" THEN Idle ELSE @]
    /\ UNCHANGED <<note, tag, tagged, linked, filed, folders, requests>>

\* RenameTag: a name another tag has is refused by the unique index, which waits for an insert.
RenameTag(t, name) ==
    /\ tag[t] # NoName
    /\ TagNamed(name) \subseteq {t}
    /\ \A i \in Handlers : ~(tagging[i].made /\ tagging[i].name = name)
    /\ tag' = [tag EXCEPT ![t] = name]

\* DeleteTag: the rows, then the tag; it waits for whoever holds one of them.
DeleteTag(t) ==
    /\ tag[t] # NoName
    /\ \A i \in Handlers : Holds(i) => tagging[i].tag # t
    /\ tag' = [tag EXCEPT ![t] = NoName]
    /\ tagged' = {p \in tagged : p[2] # t}
    /\ tagging' = Tell(tagged')

HandleRenameTag(t, name) ==
    /\ OneMore
    /\ RenameTag(t, name)
    /\ UNCHANGED <<note, tagged, linked, filed, folders, request, tagging, faults>>

HandleDeleteTag(t) ==
    /\ OneMore
    /\ DeleteTag(t)
    /\ UNCHANGED <<note, linked, filed, folders, request, faults>>

(***************************************************************************)
(* Links.                                                                  *)
(***************************************************************************)
\* AddLink: both notes live, and not the same one; a link that is there stays.
AddLink(from, to) ==
    /\ from # to /\ {from, to} \subseteq Live
    /\ linked' = linked \cup {<<from, to>>}

\* RemoveLink: likewise, so that a link with a note in the trash cannot be removed.
RemoveLink(from, to) ==
    /\ {from, to} \subseteq Live
    /\ <<from, to>> \in linked
    /\ linked' = linked \ {<<from, to>>}

HandleAddNoteLink(from, to) ==
    /\ OneMore
    /\ AddLink(from, to)
    /\ UNCHANGED <<note, tag, tagged, filed, folders, request, tagging, faults>>

HandleRemoveNoteLink(from, to) ==
    /\ OneMore
    /\ RemoveLink(from, to)
    /\ request' = [h \in Handlers |->
                      IF request[h].op = "body" /\ request[h].note = from
                      THEN [request[h] EXCEPT !.sure = @ \ {note[to].title}] ELSE request[h]]
    /\ UNCHANGED <<note, tag, tagged, filed, folders, tagging, faults>>

(***************************************************************************)
(* Notes.  A mention is sure while its title names the one note it named   *)
(* when the body was saved: what a writer may count on being linked.       *)
(***************************************************************************)
Resolved(newNote, title) ==
    {n \in Notes : newNote[n].state = "live" /\ newNote[n].title = title}

StillSure(r, newNote) ==
    IF r.op = "body"
    THEN [r EXCEPT !.sure = {t \in @ : newNote[r.note].state = "live"
                                       /\ Resolved(newNote, t) = Resolved(note, t)}]
    ELSE r

SetNotes(newNote) ==
    /\ note' = newNote
    /\ request' = [h \in Handlers |-> StillSure(request[h], newNote)]

\* UpdateNoteTitle has no filter on deleted_at.
UpdateNoteTitle(n, title) ==
    /\ n \in Kept
    /\ SetNotes([note EXCEPT ![n].title = title])

HandleUpdateNoteTitle(n, title) ==
    /\ OneMore
    /\ UpdateNoteTitle(n, title)
    /\ UNCHANGED <<tag, tagged, linked, filed, folders, tagging, faults>>

DeleteNote(n) ==
    /\ OneMore
    /\ n \in Live
    /\ SetNotes([note EXCEPT ![n].state = "trashed"])
    /\ UNCHANGED <<tag, tagged, linked, filed, folders, tagging, faults>>

RestoreNote(n) ==
    /\ OneMore
    /\ note[n].state = "trashed"
    /\ SetNotes([note EXCEPT ![n].state = "live"])
    /\ UNCHANGED <<tag, tagged, linked, filed, folders, tagging, faults>>

\* The row and everything that refers to it: the foreign keys cascade, and wait for whoever
\* holds the note or a tag of it.
PurgeNote(n) ==
    /\ OneMore
    /\ note[n].state = "trashed"
    /\ \A h \in Handlers : Holds(h) => tagging[h].note # n
    /\ SetNotes([note EXCEPT ![n].state = "purged"])
    /\ tagged' = {p \in tagged : p[1] # n}
    /\ tagging' = Tell(tagged')
    /\ linked' = {p \in linked : n \notin {p[1], p[2]}}
    /\ filed' = {p \in filed : p[1] # n}
    /\ UNCHANGED <<tag, folders, faults>>

\* A folder is trashed, and its notes stay filed in it (internal/store/folders.go).
TrashFolder(f) ==
    /\ OneMore
    /\ f \in folders
    /\ folders' = folders \ {f}
    /\ UNCHANGED <<note, tag, tagged, linked, filed, request, tagging, faults>>

(***************************************************************************)
(* Saving a body: handleUpdateNoteBody.                                    *)
(***************************************************************************)
\* UpdateNoteBody writes the body, of a trashed note too.
UpdateNoteBody(n, titles) ==
    /\ n \in Kept
    /\ note' = [note EXCEPT ![n].mentions = titles]

\* The body is stored, and ParseMentions lists the titles it mentions.
SaveBody(h, n, titles) ==
    /\ OneMore
    /\ Free(h)
    /\ UpdateNoteBody(n, titles)
    /\ request' = [request EXCEPT ![h] =
            [op |-> "body", note |-> n, todo |-> titles, target |-> {},
             sure |-> {t \in titles : n \in Live /\ FindNoteByTitleCI(t) # {}
                                      /\ FindNoteByTitleCI(t) # {n}}]]
    /\ UNCHANGED <<tag, tagged, linked, filed, folders, tagging, faults>>

\* One mention: found or passed over; the note itself is not linked to itself.
FindMention(h, title) ==
    /\ request[h].op = "body" /\ request[h].target = {} /\ title \in request[h].todo
    /\ request' = [request EXCEPT
            ![h].todo = @ \ {title},
            ![h].target = FindNoteByTitleCI(title) \ {request[h].note}]
    /\ UNCHANGED <<note, tag, tagged, linked, filed, folders, tagging, requests, faults>>

\* AddLink once more, whose refusals are passed over like a duplicate.
LinkTarget(h) ==
    \E to \in request[h].target :
        IF {request[h].note, to} \subseteq Live THEN AddLink(request[h].note, to) ELSE UNCHANGED linked

\* Mutation: the first mention that is linked ends the list.
LinkFirstMention(h) ==
    /\ request[h].op = "body" /\ request[h].target # {}
    /\ LinkTarget(h)
    /\ request' = [request EXCEPT ![h].target = {}, ![h].todo = {}]
    /\ UNCHANGED <<note, tag, tagged, filed, folders, tagging, requests, faults>>

LinkMention(h) ==
    /\ request[h].op = "body" /\ request[h].target # {}
    /\ LinkTarget(h)
    /\ request' = [request EXCEPT ![h].target = {}]
    /\ UNCHANGED <<note, tag, tagged, filed, folders, tagging, requests, faults>>

\* A lookup or a link that fails is passed over too, and the body is saved all the same.
FailMention(h) ==
    /\ faults < MaxFaults
    /\ request[h].op = "body" /\ request[h].target # {}
    /\ faults' = faults + 1
    /\ request' = [request EXCEPT ![h].target = {}, ![h].sure = @ \ {note[n].title : n \in request[h].target}]
    /\ UNCHANGED <<note, tag, tagged, linked, filed, folders, tagging, requests>>

AnswerBody(h) ==
    /\ request[h].op = "body" /\ request[h].todo = {} /\ request[h].target = {}
    /\ request' = [request EXCEPT ![h] = Idle]
    /\ UNCHANGED <<note, tag, tagged, linked, filed, folders, tagging, requests, faults>>

(***************************************************************************)
(* Copying a note: DuplicateNote.                                          *)
(***************************************************************************)
\* What is copied is read first: the live note, its body, its tags, and which of its
\* folders are live.
ReadOriginal(h, n) ==
    /\ OneMore
    /\ Free(h)
    /\ n \in Live
    /\ request' = [request EXCEPT ![h] =
            [op |-> "copy", note |-> 0, mentions |-> note[n].mentions, tags |-> NoteTags(n),
             folders |-> {f \in folders : <<n, f>> \in filed}]]
    /\ UNCHANGED <<note, tag, tagged, linked, filed, folders, tagging, faults>>

\* CreateNote and UpdateNoteBody; the mentions of a copy are not linked.
CreateCopy(h, n) ==
    /\ request[h].op = "copy" /\ request[h].note = 0
    /\ note[n].state = "unused"
    /\ note' = [note EXCEPT ![n] = [state |-> "live", title |-> CopyTitle,
                                     mentions |-> request[h].mentions]]
    /\ request' = [request EXCEPT ![h].note = n]
    /\ UNCHANGED <<tag, tagged, linked, filed, folders, tagging, requests, faults>>

\* AddNoteTag by name: a tag that was renamed meanwhile is created again.
CopyTag(h, name) ==
    /\ request[h].op = "copy" /\ name \in request[h].tags
    /\ tagging[h].at = "none"
    /\ InsertTag(h, request[h].note, name)
    /\ UNCHANGED <<note, tag, tagged, linked, filed, folders, request, requests, faults>>

\* AddNoteFolder, after the tags, asks again whether the note and the folder are live.
CopyFolder(h, f) ==
    /\ request[h].op = "copy" /\ request[h].note \in Live /\ request[h].tags = {}
    /\ f \in request[h].folders \cap folders
    /\ filed' = filed \cup {<<request[h].note, f>>}
    /\ request' = [request EXCEPT ![h].folders = @ \ {f}]
    /\ UNCHANGED <<note, tag, tagged, linked, folders, tagging, requests, faults>>

AnswerCopy(h) ==
    /\ request[h].op = "copy" /\ request[h].note # 0
    /\ request[h].tags = {} /\ request[h].folders = {}
    /\ request' = [request EXCEPT ![h] = Idle]
    /\ UNCHANGED <<note, tag, tagged, linked, filed, folders, tagging, requests, faults>>

\* What the next statement needs has gone: the note is purged, or trashed, or the folder is.
CopyRefused(r) ==
    /\ r.note # 0
    /\ \/ r.tags # {} /\ r.note \notin Kept
       \/ r.tags = {} /\ r.folders # {} /\ (r.note \notin Live \/ ~(r.folders \subseteq folders))

\* The caller is told of a failure, and what was copied before it stays.
FailCopy(h) ==
    /\ request[h].op = "copy" /\ tagging[h].at = "none"
    /\ \/ faults < MaxFaults /\ faults' = faults + 1
       \/ CopyRefused(request[h]) /\ UNCHANGED faults
    /\ request' = [request EXCEPT ![h] = Idle]
    /\ UNCHANGED <<note, tag, tagged, linked, filed, folders, tagging, requests>>

Next ==
    \/ \E t \in TagIds : HandleDeleteTag(t) \/ \E name \in TagNames : HandleRenameTag(t, name)
    \/ \E from, to \in Notes : HandleAddNoteLink(from, to) \/ HandleRemoveNoteLink(from, to)
    \/ \E n \in Notes : \/ DeleteNote(n) \/ RestoreNote(n) \/ PurgeNote(n)
                        \/ \E title \in Titles : HandleUpdateNoteTitle(n, title)
    \/ \E f \in Folders : TrashFolder(f)
    \/ \E h \in Handlers :
          \/ \E n \in Notes, name \in TagNames : HandleAddNoteTag(h, n, name) \/ HandleRemoveNoteTag(h, n, name)
          \/ SelectTag(h) \/ AttachTag(h) \/ KeepTag(h) \/ CommitTag(h)
          \/ DetachTag(h) \/ LookForNotes(h) \/ CommitRemoval(h) \/ FailTag(h)
    \/ \E h \in Handlers :
          \/ \E n \in Notes : \/ \E titles \in SUBSET Titles : SaveBody(h, n, titles)
                              \/ ReadOriginal(h, n) \/ CreateCopy(h, n)
          \/ \E title \in Titles : FindMention(h, title)
          \/ LinkMention(h) \/ FailMention(h) \/ AnswerBody(h)
          \/ \E name \in TagNames : CopyTag(h, name)
          \/ \E f \in Folders : CopyFolder(h, f)
          \/ AnswerCopy(h) \/ FailCopy(h)

Spec == Init /\ [][Next]_vars

(***************************************************************************)
(* Properties.                                                             *)
(***************************************************************************)
\* Taking a tag off one note takes it off no other that had it when the removal looked for
\* others: what goes with the tag was put on a note between that look and the commit.  And a
\* tag that no note has is left behind only when one that was seen to have it let go of it in
\* the same time (RemoveNoteTag: "deletes the tag if it is left orphaned").
TagsGoWithTheirLastNote ==
    /\ []TypeOK
    /\ [][\A h \in Handlers :
             (tagging[h].at = "checked" /\ tagging'[h].at = "none") =>
                LET w == tagging[h]
                IN  /\ \A p \in tagged \ tagged' : p = Row(h) \/ (p[2] = w.tag /\ p[1] \in w.late)
                    /\ (tag'[w.tag] # NoName /\ \A n \in Notes : <<n, w.tag>> \notin tagged') => w.left]_vars

\* A body is answered only when every mention in it that named one other live note from
\* the save to the answer has its link, though titles change and notes come and go
\* between the statements that make the links (handleUpdateNoteBody).
MentionsAreLinked ==
    [][\A h \in Handlers :
          (request[h].op = "body" /\ request'[h] = Idle) =>
             \A t \in request[h].sure :
                 \A n \in FindNoteByTitleCI(t) : /\ n \in OutgoingLinks(request[h].note)
                                                 /\ request[h].note \in Backlinks(n)]_vars
==============================================================================
