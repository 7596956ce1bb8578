----------------------------- MODULE MCNotebook -----------------------------
(* The organisation of notes: folders (Library), tags, links and copies      *)
(* (Notebook), the mobile list (MobileNotes), people (People) and            *)
(* conversations about notes (Conversations).  They write different tables;  *)
(* a behaviour is of one of the five.                                        *)
EXTENDS Conversations, FiniteSets, TLC

CONSTANTS
    Users, Folders, Papers, FolderOwner, NoteOwner, Shares, Handlers, MaxDepth, MaxRequests,
    Pages, Titles, TagIds, TagNames, Shelves, MaxEdits,
    MaxLimit, MaxTime, MaxTouches,
    Emails, Domain, CalendarName, Names, Normal, Labels, NoteEvent, Tasks, NoDomain, MaxAsks

\* Ids are not NULL, what stands for no name or for a copy's is none, the bounds are
\* natural numbers, and the calendar names an attendee or leaves the name empty.
ASSUME NotebookAssumption ==
    /\ 0 \notin Folders /\ 0 \notin Pages /\ IsFiniteSet(Pages)
    /\ "-" \notin TagNames /\ "copy of" \notin Titles /\ "" \notin Emails
    /\ MaxEdits \in Nat /\ MaxFaults \in Nat /\ MaxAsks \in Nat
    /\ CalendarName \in [Emails -> Names \cup {""}]

VARIABLES
    part,
    folder, paper, filed, share, request, raced, requests,
    page, tag, tagged, linked, placed, folders, edit, tagging, edits, faults,
    row, clock, reader, steady, changes,
    person, company, alias, noteLive, task, asks, failures

Cabinet == INSTANCE Library WITH Notes <- Papers, note <- paper

Book == INSTANCE Notebook WITH
    Notes <- Pages, Folders <- Shelves, MaxRequests <- MaxEdits,
    note <- page, filed <- placed, request <- edit, requests <- edits

Mobile == INSTANCE MobileNotes WITH Notes <- Pages, MaxChanges <- MaxTouches, note <- row

Folk == INSTANCE People WITH
    MaxRequests <- MaxAsks, requests <- asks, faults <- failures

cabinetVars == <<folder, paper, filed, share, request, raced, requests>>
bookVars == <<page, tag, tagged, linked, placed, folders, edit, tagging, edits, faults>>
mobileVars == <<row, clock, reader, steady, changes>>
folkVars == <<person, company, alias, noteLive, task, asks, failures>>
mcvars == <<vars, cabinetVars, bookVars, mobileVars, folkVars, part>>

\* The folders are one user's, the notes of two.
FirstOwnsFolders == [f \in Folders |-> 1]
EachOwnsOne == [n \in Papers |-> n]

Workplace == [e \in Emails |-> IF e = "ann" THEN "co1" ELSE "co2"]
Invitation == [e \in Emails |-> IF e = "ann" THEN "Ann" ELSE "Bob"]
Nickname == [n \in Names |-> IF n \in {"Bob", "Robert"} THEN "robert" ELSE "ann"]

\* Requests and tasks under way are alike, and so are the speakers.
Alike == Permutations(Handlers) \cup Permutations(Tasks) \cup Permutations(Labels)

MCInit ==
    /\ Init /\ Cabinet!Init /\ Book!Init /\ Mobile!Init /\ Folk!Init
    /\ part \in {"library", "bodies", "tags", "mobile", "folk", "talk"}
    /\ part # "bodies" => \A n \in Pages : page[n].title = CHOOSE t \in Titles : TRUE
    /\ part # "tags" => tagged = {}
    /\ \A t \in TagIds : tag[t] # Book!NoName =>
          t = (CHOOSE u \in TagIds : TRUE) /\ tag[t] = (CHOOSE name \in TagNames : TRUE)
    /\ part # "folk" => \A l \in Labels : alias[l].name = Folk!NoName
    /\ agent = NoAgent => part = "talk"

\* At most two conversations, the second untitled and about no note in particular; of the
\* sends under way one at most creates its own, and two analyses meet in one
\* conversation; one disturbance.
Talkative ==
    /\ conv[2].state # "unborn" =>
          conv[1].state # "unborn" /\ ~conv[1].titled /\ conv[2].note = NoNote
    /\ conv[1].note # 2
    /\ send[2].turn > 0 => send[1].turn > 0 \/ bounds.sends > 1
    /\ \E s \in Sends : ~send[s].new
    /\ \A s \in Sends : send[s].new => send[s].untitled
    /\ (\A s \in Sends : send[s].kind = "cross") => send[1].conv = send[2].conv
    /\ bounds.changes = 0 \/ bounds.faults = 0

\* Ann may be renamed to Bob's namesake.
Familiar ==
    \A e \in Emails : /\ person[e].name \in {CalendarName[e], "Robert", Folk!NoName}
                      /\ person[e].name = "Robert" => e = "ann"
                      /\ person[e].name = Folk!NoName => ~person[e].live

\* Bodies and links, and tags: they share the notes, and a behaviour is of one of the two.
Untagged == \A h \in Handlers : tagging[h] = Book!NoWork
Unlinked ==
    /\ linked = {}
    /\ \A n \in Pages : /\ page[n].mentions = {}
                        /\ page[n].title \in {CHOOSE t \in Titles : TRUE, Book!CopyTitle}

MCNext ==
    /\ UNCHANGED part
    /\ \/ part = "library" /\ Cabinet!Next /\ UNCHANGED <<vars, bookVars, mobileVars, folkVars>>
       \/ part = "bodies" /\ Book!Next /\ Untagged' /\ UNCHANGED <<vars, cabinetVars, mobileVars, folkVars>>
       \/ part = "tags" /\ Book!Next /\ Unlinked' /\ UNCHANGED <<vars, cabinetVars, mobileVars, folkVars>>
       \/ part = "mobile" /\ Mobile!Next /\ UNCHANGED <<vars, cabinetVars, bookVars, folkVars>>
       \/ part = "folk" /\ Folk!Next /\ Familiar' /\ UNCHANGED <<vars, cabinetVars, bookVars, mobileVars>>
       \/ /\ part = "talk" /\ Next /\ Talkative'
          /\ UNCHANGED <<cabinetVars, bookVars, mobileVars, folkVars>>

MCSpec == MCInit /\ [][MCNext]_mcvars

\* Of Library: unless a write was made on a check that no longer held, the folders are
\* a forest.
Forest == Cabinet!Forest

\* Of Notebook: a tag goes with the last note that has it, as seen at one moment.
TagsGoWithTheirLastNote == Book!TagsGoWithTheirLastNote

\* Of Notebook: an answered body has the links its mentions call for.
MentionsAreLinked == Book!MentionsAreLinked

\* Of MobileNotes: an untouched note is on exactly one page.  (And the positions that
\* order the lists of Library stay positions.)
PagesCoverTheList == Mobile!PagesCoverTheList /\ Cabinet!TypeOK

\* Of People: a merge moves every speaker to a person who is there.
MergeKeepsSpeakers == Folk!MergeKeepsSpeakers
=============================================================================
