------------------------------- MODULE People --------------------------------
(***************************************************************************)
(* The people and companies derived from calendar attendees, and the       *)
(* speakers of a note linked to them (internal/people, store/people.go,    *)
(* store/speaker_aliases.go and their handlers in internal/api).           *)
(*                                                                         *)
(* A refresh and a relink run statement by statement beside the requests   *)
(* of the user, and keep in memory what they read first.  A merge is one   *)
(* transaction of several statements at READ COMMITTED: what it changes is *)
(* seen by others when it commits, the rows it changed are locked until    *)
(* then, and a row it refers to cannot be deleted.  A statement that meets  *)
(* such a row waits; merges that wait for each other are a deadlock, and   *)
(* the database ends one of them.                                          *)
(***************************************************************************)
EXTENDS Integers, FiniteSets

CONSTANTS
    Emails,       \* addresses of attendees, normalised: a person has one, for ever
    Domain,       \* the company domain of an address, NoDomain for a mail provider
    CalendarName, \* the name the calendar gives an address
    Names,        \* display and alias names
    Normal,       \* NormalizeName: titles, commas, diacritics and nicknames folded
    Labels,       \* speaker labels of the one note
    NoteEvent,    \* the addresses the note's calendar event invites
    Tasks,        \* requests and background runs that may be under way at once
    NoDomain,
    MaxRequests,  \* bound: requests of any kind
    MaxFaults     \* bound: statements of a refresh that fail

VARIABLES
    person,   \* people: whether the row exists, which one it is, its name and company
    company,  \* companies: whether the row exists, and which one it is
    alias,    \* note_speaker_aliases of the note
    noteLive, \* the note is not in the trash
    task, requests, faults

vars == <<person, company, alias, noteLive, task, requests, faults>>

Domains == {Domain[e] : e \in Emails} \ {NoDomain}
None == <<>>
NoName == ""
Idle == [op |-> "idle"]

\* Ids: a row that is deleted and made again is another row.
PersonId(e) == <<e, person[e].inc>>
CompanyId(d) == <<d, company[d].inc>>
ExistsIn(rows, p) == p # None /\ rows[p[1]].live /\ rows[p[1]].inc = p[2]
PersonExists(p) == ExistsIn(person, p)
CompanyExists(c) == c = None \/ (company[c[1]].live /\ CompanyId(c[1]) = c)
AllPeople == {PersonId(e) : e \in {f \in Emails : person[f].live}}

TypeOK ==
    /\ \A e \in Emails : /\ person[e].live \in BOOLEAN /\ person[e].inc \in Nat
                         /\ person[e].name \in Names \cup {NoName}
                         /\ CompanyExists(person[e].company)
    /\ \A d \in Domains : company[d].live \in BOOLEAN
    /\ \A l \in Labels : /\ alias[l].name \in Names \cup {NoName}
                         /\ alias[l].person # None => PersonExists(alias[l].person)
    /\ noteLive \in BOOLEAN
    /\ requests \in 0..MaxRequests /\ faults \in 0..MaxFaults

\* The calendar was synchronised once, and the note has speakers, some of them linked.
Init ==
    /\ company = [d \in Domains |-> [live |-> TRUE, inc |-> 1]]
    /\ person = [e \in Emails |->
                    [live |-> TRUE, inc |-> 1, name |-> CalendarName[e],
                     company |-> IF Domain[e] = NoDomain THEN None ELSE <<Domain[e], 1>>]]
    /\ alias \in [Labels -> {[name |-> NoName, person |-> None]} \cup
                             [name: {CalendarName[e] : e \in Emails},
                              person: {<<e, 1>> : e \in Emails} \cup {None}]]
    /\ \A l \in Labels : alias[l].person # None => alias[l].name = CalendarName[alias[l].person[1]]
    /\ noteLive = TRUE
    /\ task = [t \in Tasks |-> Idle]
    /\ requests = 0
    /\ faults = 0

Begin(t, record) ==
    /\ requests < MaxRequests
    /\ requests' = requests + 1
    /\ task[t] = Idle
    /\ task' = [task EXCEPT ![t] = record]

OneMore == requests < MaxRequests /\ requests' = requests + 1
Finish(t) == task' = [task EXCEPT ![t] = Idle]

(***************************************************************************)
(* Row locks of the open merges.                                           *)
(***************************************************************************)
Merges == {t \in Tasks : task[t].op = "merge" /\ task[t].stage \in {"moved", "deleted"}}
Deleting(p) == \E t \in Merges : task[t].stage = "deleted" /\ task[t].from = p
Referred(p, but) == \E t \in Merges \ but : task[t].into = p /\ task[t].moved # {}
AliasLocked(l) == \E t \in Merges : l \in task[t].moved

CompanyMerges == {t \in Tasks : task[t].op = "mergeCompanies" /\ task[t].stage = "moved"}
PersonLocked(e) == Deleting(PersonId(e)) \/ \E t \in CompanyMerges : e \in task[t].moved
CompanyReferred(c, but) == \E t \in CompanyMerges \ but : task[t].into = c /\ task[t].moved # {}

(***************************************************************************)
(* Rows.                                                                   *)
(***************************************************************************)
\* UpsertCompany of a domain without a name: the row that is there, or a new one.
UpsertCompany(d) ==
    company' = IF company[d].live THEN company
               ELSE [company EXCEPT ![d] = [live |-> TRUE, inc |-> @.inc + 1]]

\* UpsertPerson: a name or a company that is given replaces the one that was there.
UpsertPerson(e, name, c) ==
    LET old == person[e]
        kept(given, was, nothing) == IF given # nothing \/ ~old.live THEN given ELSE was
    IN  person' = [person EXCEPT ![e] =
            [live |-> TRUE, inc |-> IF old.live THEN old.inc ELSE old.inc + 1,
             name |-> kept(name, old.name, NoName), company |-> kept(c, old.company, None)]]

\* DELETE FROM people: ON DELETE SET NULL clears the aliases that refer to the row.
WithoutPerson(p, aliases) ==
    [l \in Labels |-> IF aliases[l].person = p THEN [aliases[l] EXCEPT !.person = None] ELSE aliases[l]]

Gone(e) == [person EXCEPT ![e] = [live |-> FALSE, inc |-> @.inc, name |-> NoName, company |-> None]]

DeletePerson(e) ==
    /\ person[e].live /\ ~PersonLocked(e) /\ ~Referred(PersonId(e), {})
    /\ person' = Gone(e)
    /\ alias' = WithoutPerson(PersonId(e), alias)

HandleDeletePerson(e) ==
    /\ OneMore
    /\ DeletePerson(e)
    /\ UNCHANGED <<company, noteLive, task, faults>>

(***************************************************************************)
(* Reads.                                                                  *)
(***************************************************************************)
\* PeopleForNoteEvent: the people whose address the event of the note invites.
PeopleForNoteEvent == {p \in AllPeople : p[1] \in NoteEvent}

\* PeopleForNoteSpeakers: the people its aliases are linked to.
PeopleForNoteSpeakers(aliases) == {aliases[l].person : l \in Labels} \ {None}

\* NotesForPerson: the note is one of a person who is invited to its event or speaks in it.
InNotesForPerson(p, aliases) ==
    noteLive /\ (p[1] \in NoteEvent \/ p \in PeopleForNoteSpeakers(aliases))

\* MatchPersonByName: one person of that normal name, or nobody.
MatchPersonByName(name, people) ==
    LET same == {p \in people : person[p[1]].name # NoName /\ Normal[person[p[1]].name] = Normal[name]}
    IN  IF Cardinality(same) = 1 THEN same ELSE {}

(***************************************************************************)
(* Deriving people from the calendar: DerivePeople.                        *)
(***************************************************************************)
\* handleRefreshPeople, or the end of a calendar sync: the attendees are read and deduplicated.
StartRefresh(t) ==
    /\ Begin(t, [op |-> "derive", todo |-> Emails, at |-> NoName, company |-> None])
    /\ UNCHANGED <<person, company, alias, noteLive, faults>>

\* The company of the next attendee; one that cannot be written is left out.
DeriveCompany(t, e) ==
    /\ task[t].op = "derive" /\ task[t].at = NoName /\ e \in task[t].todo
    /\ \/ /\ Domain[e] # NoDomain
          /\ UpsertCompany(Domain[e])
          /\ task' = [task EXCEPT ![t].at = e,
                                  ![t].company = <<Domain[e], company'[Domain[e]].inc>>]
          /\ UNCHANGED faults
       \/ /\ Domain[e] = NoDomain \/ faults < MaxFaults
          /\ faults' = IF Domain[e] = NoDomain THEN faults ELSE faults + 1
          /\ task' = [task EXCEPT ![t].at = e, ![t].company = None]
          /\ UNCHANGED company
    /\ UNCHANGED <<person, alias, noteLive, requests>>

\* The person; a company merged away meanwhile fails the statement, and the rest goes on.
DerivePerson(t) ==
    /\ task[t].op = "derive" /\ task[t].at # NoName
    /\ ~PersonLocked(task[t].at)
    /\ IF CompanyExists(task[t].company)
       THEN UpsertPerson(task[t].at, CalendarName[task[t].at], task[t].company)
       ELSE UNCHANGED person
    /\ task' = [task EXCEPT ![t].todo = @ \ {task[t].at}, ![t].at = NoName, ![t].company = None]
    /\ UNCHANGED <<company, alias, noteLive, requests, faults>>

EndRefresh(t) ==
    /\ task[t].op = "derive" /\ task[t].todo = {}
    /\ Finish(t)
    /\ UNCHANGED <<person, company, alias, noteLive, requests, faults>>

(***************************************************************************)
(* Speakers.                                                               *)
(***************************************************************************)
Relink == [op |-> "relink", stage |-> "aliases", aliases |-> {}, people |-> {}]

\* UpsertSpeakerAlias: of a live note; the person of an alias that was there stays.
UpsertSpeakerAlias(l, name) ==
    /\ noteLive /\ ~AliasLocked(l)
    /\ alias' = [alias EXCEPT ![l].name = name]

\* The alias is written, and the note relinked before the answer.
HandleUpsertSpeakerAlias(t, l, name) ==
    /\ Begin(t, Relink)
    /\ UpsertSpeakerAlias(l, name)
    /\ UNCHANGED <<person, company, noteLive, faults>>

\* handleRelinkNoteSpeakers: the same, in the background.
RelinkNoteSpeakers(t) ==
    /\ noteLive
    /\ Begin(t, Relink)
    /\ UNCHANGED <<person, company, alias, noteLive, faults>>

\* LinkNoteSpeakers reads the aliases that have a name and no person,
ListSpeakerAliases(t) ==
    /\ task[t].op = "relink" /\ task[t].stage = "aliases"
    /\ task' = [task EXCEPT ![t].stage = "people",
            ![t].aliases = {<<l, alias[l].name>> :
                l \in {k \in Labels : alias[k].name # NoName /\ alias[k].person = None}}]
    /\ UNCHANGED <<person, company, alias, noteLive, requests, faults>>

\* then the people of the note's event, or all when there are none; nobody when the note
\* has gone, and then no alias matches.  Whom an alias matches is settled by this list.
ListCandidates(t) ==
    /\ task[t].op = "relink" /\ task[t].stage = "people"
    /\ LET people == IF ~noteLive THEN {}
                     ELSE IF PeopleForNoteEvent # {} THEN PeopleForNoteEvent ELSE AllPeople
       IN  task' = [task EXCEPT ![t].stage = "link",
               ![t].people = UNION {{<<a[1], p>> : p \in MatchPersonByName(a[2], people)} :
                                       a \in task[t].aliases}]
    /\ UNCHANGED <<person, company, alias, noteLive, requests, faults>>

\* and links them one by one, to a person that may have gone (the statement fails), of an
\* alias that may have been renamed, linked or deleted since.
LinkSpeaker(t, l) ==
    /\ task[t].op = "relink" /\ task[t].stage = "link" /\ ~AliasLocked(l)
    /\ \E p \in {q[2] : q \in {r \in task[t].people : r[1] = l}} :
          /\ ~Deleting(p)
          /\ alias' = IF alias[l].name # NoName /\ PersonExists(p)
                      THEN [alias EXCEPT ![l].person = p] ELSE alias
          /\ task' = [task EXCEPT ![t].people = @ \ {<<l, p>>}]
    /\ UNCHANGED <<person, company, noteLive, requests, faults>>

EndRelink(t) ==
    /\ task[t].op = "relink" /\ task[t].stage = "link" /\ task[t].people = {}
    /\ Finish(t)
    /\ UNCHANGED <<person, company, alias, noteLive, requests, faults>>

DeleteSpeakerAlias(l) ==
    /\ alias[l].name # NoName /\ ~AliasLocked(l)
    /\ alias' = [alias EXCEPT ![l] = [name |-> NoName, person |-> None]]

HandleDeleteSpeakerAlias(l) ==
    /\ OneMore
    /\ DeleteSpeakerAlias(l)
    /\ UNCHANGED <<person, company, noteLive, task, faults>>

\* handleSetSpeakerAliasPerson: the person must be there when asked, and when written.
ChoosePerson(t, l, p) ==
    /\ PersonExists(p)
    /\ Begin(t, [op |-> "assign", label |-> l, person |-> p])
    /\ UNCHANGED <<person, company, alias, noteLive, faults>>

SetSpeakerAliasPerson(t) ==
    /\ task[t].op = "assign" /\ ~AliasLocked(task[t].label) /\ ~Deleting(task[t].person)
    /\ alias' = IF alias[task[t].label].name # NoName /\ PersonExists(task[t].person)
                THEN [alias EXCEPT ![task[t].label].person = task[t].person] ELSE alias
    /\ Finish(t)
    /\ UNCHANGED <<person, company, noteLive, requests, faults>>

ClearSpeakerAliasPerson(l) ==
    /\ OneMore
    /\ alias[l].name # NoName /\ ~AliasLocked(l)
    /\ alias' = [alias EXCEPT ![l].person = None]
    /\ UNCHANGED <<person, company, noteLive, task, faults>>

(***************************************************************************)
(* Editing and merging.                                                    *)
(***************************************************************************)
\* handleUpdatePerson without a company: one statement, which writes the name (the one
\* there was, when none is given) and clears the company or leaves it.
HandleUpdatePerson(e, name, clear) ==
    /\ OneMore
    /\ person[e].live /\ ~PersonLocked(e)
    /\ person' = [person EXCEPT ![e].name = name, ![e].company = IF clear THEN None ELSE @]
    /\ UNCHANGED <<company, alias, noteLive, task, faults>>

\* handleUpdatePerson with a company, which is looked up first,
ChooseCompany(t, e, d) ==
    /\ person[e].live /\ company[d].live
    /\ Begin(t, [op |-> "edit", person |-> PersonId(e), company |-> CompanyId(d)])
    /\ UNCHANGED <<person, company, alias, noteLive, faults>>

\* and written with a name, given or not, if person and company are still there.
UpdatePerson(t, name) ==
    /\ task[t].op = "edit"
    /\ PersonExists(task[t].person) => ~PersonLocked(task[t].person[1])
    /\ person' = IF PersonExists(task[t].person) /\ CompanyExists(task[t].company)
                 THEN [person EXCEPT ![task[t].person[1]].name = name,
                                     ![task[t].person[1]].company = task[t].company]
                 ELSE person
    /\ Finish(t)
    /\ UNCHANGED <<company, alias, noteLive, requests, faults>>

\* ListPeopleByCompany, and the people a merge of companies moves.
PeopleOf(c) == {e \in Emails : person[e].live /\ person[e].company = c}

\* MergeCompanies looks both companies up,
ChooseCompanies(t, from, into) ==
    /\ from # into /\ company[from].live /\ company[into].live
    /\ Begin(t, [op |-> "mergeCompanies", stage |-> "checked", from |-> CompanyId(from),
                 into |-> CompanyId(into), moved |-> {}])
    /\ UNCHANGED <<person, company, alias, noteLive, faults>>

\* moves the people of the one to the other, which must still be there,
MovePeople(t) ==
    /\ task[t].op = "mergeCompanies" /\ task[t].stage = "checked"
    /\ LET moved == PeopleOf(task[t].from)
       IN  /\ \A e \in moved : ~PersonLocked(e)
           /\ task' = IF moved = {} \/ CompanyExists(task[t].into)
                      THEN [task EXCEPT ![t].stage = "moved", ![t].moved = moved]
                      ELSE [task EXCEPT ![t] = Idle]
    /\ UNCHANGED <<person, company, alias, noteLive, requests, faults>>

\* and deletes the one and commits, unless it has gone: whoever came to it since the move
\* is left without a company (ON DELETE SET NULL).
MergeCompanies(t) ==
    /\ t \in CompanyMerges
    /\ ~CompanyReferred(task[t].from, {t})
    /\ \A e \in PeopleOf(task[t].from) \ task[t].moved : ~PersonLocked(e)
    /\ IF CompanyExists(task[t].from)
       THEN /\ company' = [company EXCEPT ![task[t].from[1]].live = FALSE]
            /\ person' = [e \in Emails |->
                   IF e \notin PeopleOf(task[t].from) THEN person[e]
                   ELSE [person[e] EXCEPT !.company =
                            IF e \in task[t].moved THEN task[t].into ELSE None]]
       ELSE UNCHANGED <<company, person>>
    /\ Finish(t)
    /\ UNCHANGED <<alias, noteLive, requests, faults>>

\* The companies a merge keeps from others while it deletes.
Held(t) == {task[t].from} \cup {c \in {task[t].into} : task[t].moved # {}}

\* Two merges of companies into each other, or of one company while somebody is moved out
\* of it whom the other would leave without: one of them is ended.
AbortCompanies(t) ==
    /\ t \in CompanyMerges
    /\ \E u \in CompanyMerges : /\ task[t].from \in Held(u) /\ task[u].from \in Held(t)
                                /\ task[t].moved # task[u].moved
    /\ Finish(t)
    /\ UNCHANGED <<person, company, alias, noteLive, requests, faults>>

\* MergePeople looks both people up,
ChoosePeople(t, from, into) ==
    /\ from # into /\ PersonExists(from) /\ PersonExists(into)
    /\ Begin(t, [op |-> "merge", stage |-> "checked", from |-> from, into |-> into, moved |-> {},
                 spoke |-> {}])
    /\ UNCHANGED <<person, company, alias, noteLive, faults>>

\* Mutation: the speakers are left to the foreign key.
ForgetSpeakers(t) ==
    /\ task[t].op = "merge" /\ task[t].stage = "checked"
    /\ task' = [task EXCEPT ![t].stage = "moved",
                            ![t].spoke = {l \in Labels : alias[l].person = task[t].from}]
    /\ UNCHANGED <<person, company, alias, noteLive, requests, faults>>

\* gives the speakers of the one to the other, who must still be there,
MoveSpeakers(t) ==
    /\ task[t].op = "merge" /\ task[t].stage = "checked"
    /\ LET moved == {l \in Labels : alias[l].person = task[t].from}
       IN  /\ \A l \in moved : ~AliasLocked(l)
           /\ moved # {} => ~Deleting(task[t].into)
           /\ task' = IF moved = {} \/ PersonExists(task[t].into)
                      THEN [task EXCEPT ![t].stage = "moved", ![t].moved = moved, ![t].spoke = moved]
                      ELSE [task EXCEPT ![t] = Idle]
    /\ UNCHANGED <<person, company, alias, noteLive, requests, faults>>

\* deletes the one, when no other transaction holds the row,
DeleteMerged(t) ==
    /\ task[t].op = "merge" /\ task[t].stage = "moved"
    /\ ~Referred(task[t].from, {t})
    /\ PersonExists(task[t].from) => ~PersonLocked(task[t].from[1])
    /\ task' = IF PersonExists(task[t].from) THEN [task EXCEPT ![t].stage = "deleted"]
                                             ELSE [task EXCEPT ![t] = Idle]
    /\ UNCHANGED <<person, company, alias, noteLive, requests, faults>>

\* Two merges that each hold what the other must delete: the database ends one of them.
AbortDeadlocked(t) ==
    /\ t \in Merges
    /\ \E u \in Merges \ {t} : /\ task[u].stage = "moved" /\ task[t].stage = "moved"
                               /\ task[u].into = task[t].from /\ task[t].into = task[u].from
                               /\ task[u].moved # {} /\ task[t].moved # {}
    /\ Finish(t)
    /\ UNCHANGED <<person, company, alias, noteLive, requests, faults>>

\* and commits if it can still read the other.
CommitMerge(t) ==
    /\ task[t].op = "merge" /\ task[t].stage = "deleted"
    /\ IF PersonExists(task[t].into)
       THEN /\ person' = Gone(task[t].from[1])
            /\ alias' = WithoutPerson(task[t].from,
                   [l \in Labels |-> IF l \in task[t].moved
                        THEN [alias[l] EXCEPT !.person = task[t].into] ELSE alias[l]])
       ELSE UNCHANGED <<person, alias>>
    /\ Finish(t)
    /\ UNCHANGED <<company, noteLive, requests, faults>>

TrashOrRestoreNote ==
    /\ OneMore
    /\ noteLive' = ~noteLive
    /\ UNCHANGED <<person, company, alias, task, faults>>

TaskStep(t) ==
    \/ StartRefresh(t) \/ DerivePerson(t) \/ EndRefresh(t)
    \/ \E e \in Emails : DeriveCompany(t, e) \/ \E d \in Domains : ChooseCompany(t, e, d)
    \/ RelinkNoteSpeakers(t) \/ ListSpeakerAliases(t) \/ ListCandidates(t) \/ EndRelink(t)
    \/ \E l \in Labels : \/ LinkSpeaker(t, l)
                         \/ \E name \in Names : HandleUpsertSpeakerAlias(t, l, name)
                         \/ \E p \in AllPeople : ChoosePerson(t, l, p)
    \/ SetSpeakerAliasPerson(t)
    \/ \E name \in Names \cup {NoName} : UpdatePerson(t, name)
    \/ \E from, into \in Domains : ChooseCompanies(t, from, into)
    \/ MovePeople(t) \/ MergeCompanies(t) \/ AbortCompanies(t)
    \/ \E from, into \in AllPeople : ChoosePeople(t, from, into)
    \/ MoveSpeakers(t) \/ DeleteMerged(t) \/ AbortDeadlocked(t) \/ CommitMerge(t)

Next ==
    \/ \E t \in Tasks : TaskStep(t)
    \/ \E e \in Emails :
          \/ HandleDeletePerson(e)
          \/ \E name \in Names \cup {NoName}, clear \in BOOLEAN : HandleUpdatePerson(e, name, clear)
    \/ \E l \in Labels : HandleDeleteSpeakerAlias(l) \/ ClearSpeakerAliasPerson(l)
    \/ TrashOrRestoreNote

Spec == Init /\ [][Next]_vars

(***************************************************************************)
(* Properties.                                                             *)
(***************************************************************************)
\* A merge never costs a note its speaker: an alias that was linked to the person merged
\* away when the merge came to its speakers is linked to the survivor once it commits, who
\* is there, even when the survivor is being deleted or merged away by another request
\* (MergePeople: the update, the foreign keys and the final read work together).
MergeKeepsSpeakers ==
    /\ []TypeOK
    /\ [][\A t \in Tasks :
             (task[t].op = "merge" /\ task[t].stage = "deleted" /\ task'[t] = Idle
                /\ ~ExistsIn(person', task[t].from))
             => \A l \in task[t].spoke :
                   alias[l].person = task[t].from =>
                       /\ alias'[l].person = task[t].into
                       /\ noteLive => InNotesForPerson(task[t].into, alias')
                       /\ ExistsIn(person', task[t].into)]_vars
==============================================================================
