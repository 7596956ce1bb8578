------------------------------ MODULE Library -------------------------------
(***************************************************************************)
(* Folders, filing and sharing (internal/store/folders.go, shares.go and   *)
(* the readable reads of notes.go, with their handlers in internal/api).   *)
(* Folders nest, are trashed and restored as subtrees and purged by a      *)
(* cascade; a shared folder opens the notes filed in it to every user, a   *)
(* share link opens one note to whoever has it.                            *)
(*                                                                         *)
(* Creating, moving, filing and unfiling check first and write later, on   *)
(* other connections and under no lock: two steps.  Everything else is one *)
(* statement, or statements that check again what they need: one step.     *)
(* Names are left out: a duplicate is an answer that changes nothing.      *)
(***************************************************************************)
EXTENDS Integers, FiniteSets, Sequences, SequencesExt

CONSTANTS
    Users,
    Folders,      \* folder ids, ordered as their names are; never used twice
    Notes,        \* note ids
    FolderOwner,  \* who creates the folder with an id
    NoteOwner,
    Shares,       \* ids of share links
    Handlers,     \* concurrent requests that check first and write later
    MaxDepth,     \* maxFolderDepth
    MaxRequests   \* bound: requests of any kind

VARIABLES
    folder,    \* the folders table
    note,      \* live, trashed or purged
    filed,     \* note_folders: the position of a note in a folder, or NotFiled
    share,     \* note_shares
    request,   \* per handler, the mutation it has checked and not written yet
    raced,     \* some write was made on a check that no longer held
    requests   \* requests so far

vars == <<folder, note, filed, share, request, raced, requests>>

Root == 0        \* parent_id IS NULL
NotFiled == -1
Positions == 0..MaxRequests

FolderRow == [state: {"unused", "live", "trashed", "purged"},
              parent: Folders \cup {Root}, shared: BOOLEAN, pos: Positions]

NoRequest == [op |-> "none", user |-> 0, folder |-> 0, parent |-> Root, note |-> 0]

TypeOK ==
    /\ folder \in [Folders -> FolderRow]
    /\ note \in [Notes -> {"live", "trashed", "purged"}]
    /\ filed \in [Notes \X Folders -> Positions \cup {NotFiled}]
    /\ share \in [Shares -> [note: Notes \cup {0}, revoked: BOOLEAN]]
    /\ \A h \in Handlers : request[h].op \in {"none", "create", "update", "file", "unfile"}
    /\ raced \in BOOLEAN
    /\ requests \in 0..MaxRequests

Init ==
    /\ folder = [f \in Folders |->
                    [state |-> "unused", parent |-> Root, shared |-> FALSE, pos |-> 0]]
    /\ note = [n \in Notes |-> "live"]
    /\ filed = [p \in Notes \X Folders |-> NotFiled]
    /\ share = [s \in Shares |-> [note |-> 0, revoked |-> FALSE]]
    /\ request = [h \in Handlers |-> NoRequest]
    /\ raced = FALSE
    /\ requests = 0

Request == requests < MaxRequests /\ requests' = requests + 1

-----------------------------------------------------------------------------
(* The tree.                                                               *)

Live(f) == f \in Folders /\ folder[f].state = "live"
Stored == {f \in Folders : folder[f].state \in {"live", "trashed"}}

\* What is reached from f within S, f included: the recursive queries add the
\* children of what they have until there are no more, and so return the least
\* set that has f and the children of what it has.
Below(f, S) ==
    LET closed == {C \in SUBSET S : /\ {f} \cap S \subseteq C
                                   /\ \A g \in S : folder[g].parent \in C => g \in C}
    IN {g \in S : \A C \in closed : g \in C}

\* folderDescendants: the subtree, itself included, in the trash or not.
FolderDescendants(f) == Below(f, Stored)

\* The depth of a folder, its trashed ancestors included.
Depth(f) == Cardinality({g \in Stored : f \in FolderDescendants(g)})

\* subtreeHeight: along live folders only.
SubtreeHeight(f) ==
    LET live == Below(f, {g \in Folders : Live(g)})
        heights == {Cardinality({h \in live : g \in Below(h, live)}) - 1 : g \in live}
    IN IF live = {} THEN 0 ELSE CHOOSE h \in heights : \A i \in heights : i <= h

\* authorizeLiveFolderOwnerMutation; 403 and 404 are both answers that change
\* nothing.
AuthorizeLiveFolderOwnerMutation(u, f) == Live(f) /\ FolderOwner[f] = u

\* Mutation: the subtree of the moved folder is not looked at.
ValidateParentNoCycle(u, f, p) ==
    \/ p = Root
    \/ /\ p # f /\ Live(p) /\ FolderOwner[p] = u
       /\ Depth(p) + 1 <= MaxDepth

\* validateParent for folder f, which has no row yet when it is being created.
ValidateParent(u, f, p) ==
    \/ p = Root
    \/ /\ p # f
       /\ Live(p) /\ FolderOwner[p] = u
       /\ f \in Stored => p \notin FolderDescendants(f)
       /\ Depth(p) + (IF f \in Stored THEN SubtreeHeight(f) ELSE 0) + 1 <= MaxDepth

\* COALESCE(max(position)+1, 0) over a set of positions.
NextPosition(taken) ==
    IF taken = {} THEN 0 ELSE 1 + CHOOSE m \in taken : \A i \in taken : i <= m

SiblingPositions(u, p, f) ==
    {folder[g].pos : g \in {x \in Folders \ {f} :
        Live(x) /\ FolderOwner[x] = u /\ folder[x].parent = p}}

\* The REFERENCES of parent_id and folder_id: the row must still be there.
Referable(f) == f = Root \/ f \in Stored

-----------------------------------------------------------------------------
(* Who may see what.                                                       *)

\* canReadNoteSQL.
CanReadNote(u, n) ==
    /\ note[n] = "live"
    /\ \/ NoteOwner[n] = u
       \/ \E f \in Folders : filed[n, f] # NotFiled /\ Live(f) /\ folder[f].shared

FolderVisible(u, f) == Live(f) /\ (FolderOwner[f] = u \/ folder[f].shared)

\* ListReadableNotes of one folder.
ListReadableNotes(u, f) ==
    {n \in Notes : FolderVisible(u, f) /\ filed[n, f] # NotFiled /\ note[n] = "live"}

-----------------------------------------------------------------------------
(* Requests that check first and write later.                              *)

\* What each of them checks, at its beginning and never again.
Checked(r) ==
    CASE r.op = "create" -> ValidateParent(r.user, r.folder, r.parent)
      [] r.op = "update" -> /\ AuthorizeLiveFolderOwnerMutation(r.user, r.folder)
                            /\ ValidateParent(r.user, r.folder, r.parent)
      [] r.op = "file"   -> /\ CanReadNote(r.user, r.note) /\ NoteOwner[r.note] = r.user
                            /\ FolderVisible(r.user, r.folder)
      [] r.op = "unfile" -> /\ CanReadNote(r.user, r.note) /\ FolderVisible(r.user, r.folder)
                            /\ NoteOwner[r.note] = r.user \/ FolderOwner[r.folder] = r.user

Begin(h, r) ==
    /\ request[h].op = "none"
    /\ Checked(r)
    /\ request' = [request EXCEPT ![h] = r]
    /\ Request
    /\ UNCHANGED <<folder, note, filed, share, raced>>

HandleCreateFolder(h, f, p) ==
    /\ folder[f].state = "unused" /\ \A i \in Handlers : request[i].folder # f
    /\ Begin(h, [op |-> "create", user |-> FolderOwner[f], folder |-> f,
                 parent |-> p, note |-> 0])

HandleUpdateFolder(h, u, f, p) ==
    Begin(h, [op |-> "update", user |-> u, folder |-> f, parent |-> p, note |-> 0])

HandleAddNoteFolder(h, u, n, f) ==
    Begin(h, [op |-> "file", user |-> u, folder |-> f, parent |-> Root, note |-> n])

HandleRemoveNoteFolder(h, u, n, f) ==
    Begin(h, [op |-> "unfile", user |-> u, folder |-> f, parent |-> Root, note |-> n])

\* The end of a request, and whether its check would still hold.
Finish(h) ==
    /\ request' = [request EXCEPT ![h] = NoRequest]
    /\ raced' = (raced \/ ~Checked(request[h]))
    /\ UNCHANGED <<note, share, requests>>

\* CreateFolder's INSERT, at the end of its siblings.
CreateFolder(h) ==
    LET r == request[h]
    IN /\ r.op = "create"
       /\ folder' = IF Referable(r.parent)
                    THEN [folder EXCEPT ![r.folder] =
                            [state |-> "live", parent |-> r.parent, shared |-> FALSE,
                             pos |-> NextPosition(SiblingPositions(r.user, r.parent, r.folder))]]
                    ELSE folder
       /\ Finish(h)
       /\ UNCHANGED filed

\* UpdateFolder's UPDATE, which checks owner and deleted_at again; a folder
\* that changes its parent goes to the end of its new siblings.
UpdateFolder(h) ==
    LET r == request[h]
    IN /\ r.op = "update"
       /\ folder' = IF Live(r.folder) /\ Referable(r.parent)
                       /\ folder[r.folder].parent # r.parent
                    THEN [folder EXCEPT ![r.folder].parent = r.parent,
                            ![r.folder].pos =
                               NextPosition(SiblingPositions(r.user, r.parent, r.folder))]
                    ELSE folder
       /\ Finish(h)
       /\ UNCHANGED filed

\* AddNoteFolder's INSERT ... ON CONFLICT DO NOTHING.
AddNoteFolder(h) ==
    LET r == request[h]
    IN /\ r.op = "file"
       /\ filed' = IF /\ filed[r.note, r.folder] = NotFiled
                      /\ r.folder \in Stored /\ note[r.note] # "purged"
                   THEN [filed EXCEPT ![<<r.note, r.folder>>] =
                           NextPosition({filed[n, r.folder] : n \in Notes} \ {NotFiled})]
                   ELSE filed
       /\ Finish(h)
       /\ UNCHANGED folder

RemoveNoteFolder(h) ==
    LET r == request[h]
    IN /\ r.op = "unfile"
       /\ filed' = [filed EXCEPT ![<<r.note, r.folder>>] = NotFiled]
       /\ Finish(h)
       /\ UNCHANGED folder

-----------------------------------------------------------------------------
(* Requests of one step.                                                   *)

SetFolderVisibility(u, f, shared) ==
    /\ AuthorizeLiveFolderOwnerMutation(u, f)
    /\ folder' = [folder EXCEPT ![f].shared = shared]
    /\ UNCHANGED <<note, filed, share>>

\* order without x, with x after a, or first when a is Root.
MoveAfter(order, x, a) ==
    LET rest == SelectSeq(order, LAMBDA y : y # x)
        i == IF a = Root THEN 0 ELSE CHOOSE j \in 1..Len(rest) : rest[j] = a
    IN SubSeq(rest, 1, i) \o <<x>> \o SubSeq(rest, i + 1, Len(rest))

IndexIn(order, x) == CHOOSE i \in 1..Len(order) : order[i] = x

\* ReorderFolder: the siblings' positions are written anew.
ReorderFolder(u, f, a) ==
    LET siblings == {g \in Folders : Live(g) /\ FolderOwner[g] = u
                                       /\ folder[g].parent = folder[f].parent}
        listed == SetToSortSeq(siblings, LAMBDA x, y :
                     folder[x].pos < folder[y].pos \/ (folder[x].pos = folder[y].pos /\ x < y))
        order == MoveAfter(listed, f, a)
    IN /\ AuthorizeLiveFolderOwnerMutation(u, f)
       /\ a = Root \/ a \in siblings \ {f}
       /\ folder' = [g \in Folders |->
             IF g \in siblings THEN [folder[g] EXCEPT !.pos = IndexIn(order, g) - 1]
             ELSE folder[g]]
       /\ UNCHANGED <<note, filed, share>>

\* ReorderNoteInFolder: the folder's owner alone decides.
ReorderNoteInFolder(u, f, n, a) ==
    LET siblings == {m \in Notes : filed[m, f] # NotFiled /\ note[m] = "live"}
        listed == SetToSortSeq(siblings, LAMBDA x, y :
                     filed[x, f] < filed[y, f] \/ (filed[x, f] = filed[y, f] /\ x > y))
        order == MoveAfter(listed, n, a)
    IN /\ AuthorizeLiveFolderOwnerMutation(u, f)
       /\ n \in siblings
       /\ a = Root \/ a \in siblings \ {n}
       /\ filed' = [p \in Notes \X Folders |->
             IF p[2] = f /\ p[1] \in siblings THEN IndexIn(order, p[1]) - 1 ELSE filed[p]]
       /\ UNCHANGED <<folder, note, share>>

\* DeleteFolder trashes the whole subtree.
DeleteFolder(u, f) ==
    /\ AuthorizeLiveFolderOwnerMutation(u, f)
    /\ folder' = [g \in Folders |-> IF g \in FolderDescendants(f)
                                    THEN [folder[g] EXCEPT !.state = "trashed"] ELSE folder[g]]
    /\ UNCHANGED <<note, filed, share>>

\* RestoreFolder: the trashed subtree comes back, at the top level when its
\* parent is not live.
RestoreFolder(u, f) ==
    LET sub == Below(f, {g \in Folders : folder[g].state = "trashed"})
    IN /\ FolderOwner[f] = u /\ folder[f].state = "trashed"
       /\ folder' = [g \in Folders |->
             IF g \notin sub THEN folder[g]
             ELSE [folder[g] EXCEPT !.state = "live",
                     !.parent = IF g = f /\ ~Live(@) THEN Root ELSE @]]
       /\ UNCHANGED <<note, filed, share>>

\* A DELETE of folders cascades to the folders below and to what they hold.
Purge(S) ==
    LET gone == UNION {FolderDescendants(f) : f \in S}
    IN /\ folder' = [g \in Folders |-> IF g \in gone
                        THEN [folder[g] EXCEPT !.state = "purged", !.parent = Root]
                        ELSE folder[g]]
       /\ filed' = [p \in Notes \X Folders |-> IF p[2] \in gone THEN NotFiled ELSE filed[p]]
       /\ UNCHANGED <<note, share>>

PurgeFolder(u, f) ==
    /\ FolderOwner[f] = u /\ folder[f].state = "trashed"
    /\ Purge({f})

\* runTrashPurgeOnce: whatever has been in the trash for long enough.
PurgeExpiredFolders(S) ==
    /\ S # {} /\ \A f \in S : folder[f].state = "trashed"
    /\ Purge(S)
    /\ UNCHANGED <<request, raced, requests>>

-----------------------------------------------------------------------------
(* Notes and share links.                                                  *)

MoveNote(n, from, to) ==
    /\ note[n] = from
    /\ note' = [note EXCEPT ![n] = to]
    /\ UNCHANGED <<folder>>

DeleteNote(n) == MoveNote(n, "live", "trashed") /\ UNCHANGED <<filed, share>>

RestoreNote(n) == MoveNote(n, "trashed", "live") /\ UNCHANGED <<filed, share>>

\* PurgeNote: what refers to the note goes with it.
PurgeNote(n) ==
    /\ MoveNote(n, "trashed", "purged")
    /\ filed' = [p \in Notes \X Folders |-> IF p[1] = n THEN NotFiled ELSE filed[p]]
    /\ share' = [s \in Shares |-> IF share[s].note = n
                                  THEN [note |-> 0, revoked |-> TRUE] ELSE share[s]]

\* CreateShare, for a live note of the requester.
CreateShare(n, s) ==
    /\ share[s] = [note |-> 0, revoked |-> FALSE]
    /\ note[n] = "live"
    /\ share' = [share EXCEPT ![s].note = n]
    /\ UNCHANGED <<folder, note, filed>>

\* RevokeShareByToken: not while the note is in the trash.
RevokeShareByToken(s) ==
    /\ share[s].note # 0 /\ note[share[s].note] = "live" /\ ~share[s].revoked
    /\ share' = [share EXCEPT ![s].revoked = TRUE]
    /\ UNCHANGED <<folder, note, filed>>

-----------------------------------------------------------------------------
(* The handlers of these requests: what a refused request answers changes   *)
(* nothing.                                                                *)

Answered == Request /\ UNCHANGED <<request, raced>>

HandleSetFolderVisibility(u, f, shared) == SetFolderVisibility(u, f, shared) /\ Answered
HandleReorderFolder(u, f, a) == ReorderFolder(u, f, a) /\ Answered
HandleReorderNoteInFolder(u, f, n, a) == ReorderNoteInFolder(u, f, n, a) /\ Answered
HandleDeleteFolder(u, f) == DeleteFolder(u, f) /\ Answered
HandleRestoreFolder(u, f) == RestoreFolder(u, f) /\ Answered
HandlePurgeFolder(u, f) == PurgeFolder(u, f) /\ Answered
HandleDeleteNote(n) == DeleteNote(n) /\ Answered
HandleRestoreNote(n) == RestoreNote(n) /\ Answered
HandleCreateShare(n, s) == CreateShare(n, s) /\ Answered
HandleRevokeShare(s) == RevokeShareByToken(s) /\ Answered

\* handlePurgeNote, or the purger's next round.
HandlePurgeNote(n) == PurgeNote(n) /\ Answered

-----------------------------------------------------------------------------

Next ==
    \/ \E h \in Handlers :
          \/ \E f \in Folders, p \in Folders \cup {Root} :
                \/ HandleCreateFolder(h, f, p)
                \/ \E u \in Users : HandleUpdateFolder(h, u, f, p)
          \/ \E u \in Users, n \in Notes, f \in Folders :
                HandleAddNoteFolder(h, u, n, f) \/ HandleRemoveNoteFolder(h, u, n, f)
          \/ CreateFolder(h) \/ UpdateFolder(h) \/ AddNoteFolder(h) \/ RemoveNoteFolder(h)
    \/ \E u \in Users, f \in Folders :
          \/ \E shared \in BOOLEAN : HandleSetFolderVisibility(u, f, shared)
          \/ \E a \in Folders \cup {Root} : HandleReorderFolder(u, f, a)
          \/ \E n \in Notes, a \in Notes \cup {Root} : HandleReorderNoteInFolder(u, f, n, a)
          \/ HandleDeleteFolder(u, f) \/ HandleRestoreFolder(u, f) \/ HandlePurgeFolder(u, f)
    \/ \E S \in SUBSET Folders : PurgeExpiredFolders(S)
    \/ \E n \in Notes :
          \/ HandleDeleteNote(n) \/ HandleRestoreNote(n) \/ HandlePurgeNote(n)
          \/ \E s \in Shares : HandleCreateShare(n, s)
    \/ \E s \in Shares : HandleRevokeShare(s)

Spec == Init /\ [][Next]_vars

-----------------------------------------------------------------------------
(* Properties.                                                             *)

\* The folders form a forest: no folder is its own ancestor, and a live folder
\* is at the top or in a live folder, so that every recursive query over them
\* ends and the trash holds whole subtrees.  (Unless a write was made on a
\* check that no longer held: two folders moved into each other at once.)
Forest ==
    raced \/ /\ \A f \in Stored : \A g \in FolderDescendants(f) \ {f} :
                    f \notin FolderDescendants(g)
             /\ \A f \in Folders : Live(f) /\ folder[f].parent # Root =>
                    Live(folder[f].parent)

\* ListReadableNotes: "a private folder can, by the filing invariants, only
\* ever contain the requester's own notes".
PrivateFoldersHoldOwnNotes ==
    \A f \in Folders : Live(f) /\ ~folder[f].shared =>
        \A n \in ListReadableNotes(FolderOwner[f], f) : NoteOwner[n] = FolderOwner[f]
=============================================================================
