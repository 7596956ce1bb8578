----------------------------- MODULE Recordings -----------------------------
(***************************************************************************)
(* Recordings between the client, the object store and the notes: signed   *)
(* uploads, the import of a file, the trash and its purge, and what the    *)
(* transcription does to the audio (api/upload.go, api/import_audio.go,    *)
(* storage/local.go, store/notes.go, worker/trashpurge.go).  A handler is  *)
(* several statements and file operations that others run in between of;   *)
(* the server may stop between any two of them.                            *)
(*                                                                         *)
(* The client is the desktop's (src/main/uploadMachine.ts): it asks for a  *)
(* link for every recording, reports an object once its PUT was answered   *)
(* with success, and does not PUT to a link whose object it has reported.  *)
(* The server would take any object that is not empty, and another PUT     *)
(* until the link expires.                                                 *)
(*                                                                         *)
(* Left out: links that have expired, and everything about the transcript  *)
(* but its generation (module Transcribe).                                 *)
(***************************************************************************)
EXTENDS Integers, FiniteSets

CONSTANTS
    Notes,       \* positive numbers
    Clips,       \* recordings, told apart by their hash
    Clients,     \* requests a client has under way at once
    Retention,   \* AudioRetention: the values the server may be configured with
    MaxUploads,  \* bound: objects per note
    MaxFaults,   \* bound: failed uploads and statements
    MaxCrashes   \* bound: stops of the server

\* A note has some number of objects at most.
ASSUME UploadsAssumption == MaxUploads \in Nat

VARIABLES
    note,      \* the rows of notes
    disk,      \* the object store
    req,       \* the requests under way, and what the client remembers of them
    jobs,      \* transcription jobs
    purger,    \* keys RunTrashPurger has yet to delete
    uploads,   \* objects named so far
    discarded, \* keys whose audio the retention policy has deleted
    stranded,  \* history: notes whose recording is left without a job
    used       \* faults and crashes so far

vars == <<note, disk, req, jobs, purger, uploads, discarded, stranded, used>>

Keys == Notes \X (1..MaxUploads)
NoKey == <<>>
Absent == "absent"
Partial == "partial"

Draft == [row |-> "live", old |-> FALSE, status |-> "draft", key |-> NoKey,
          ret |-> "none", hash |-> "none", gen |-> 0]
Unborn == [Draft EXCEPT !.row = "none"]
Idle == [op |-> "idle", pc |-> "idle", n |-> 0, key |-> NoKey, clip |-> "none", gen |-> 0]

Init ==
    /\ note = [n \in Notes |-> Unborn]
    /\ disk = [k \in Keys |-> Absent]
    /\ req = [c \in Clients |-> Idle]
    /\ jobs = {} /\ purger = {} /\ discarded = {} /\ stranded = {}
    /\ uploads = [n \in Notes |-> 0]
    /\ used = [faults |-> 0, crashes |-> 0]

Row(n) == note[n].row \in {"live", "trash"}
Live(n) == note[n].row = "live"
Doing(c, op, pc) == req[c].op = op /\ req[c].pc = pc
Go(c, pc) == req' = [req EXCEPT ![c].pc = pc]
Done(c) == req' = [req EXCEPT ![c] = Idle]
Fault == used.faults < MaxFaults /\ used' = [used EXCEPT !.faults = @ + 1]
FreshKey(n) == <<n, uploads[n] + 1>>

TypeOK ==
    /\ \A n \in Notes : /\ note[n].row \in {"none", "live", "trash", "gone"}
                        /\ note[n].status \in {"draft", "recording", "uploaded", "ready", "failed"}
                        /\ note[n].key \in Keys \cup {NoKey}
    /\ \A k \in Keys : disk[k] \in Clips \cup {Absent, Partial}
    /\ purger \subseteq Keys /\ discarded \subseteq Keys

-----------------------------------------------------------------------------
(* Notes and the recording of one.                                         *)

CreateNote(n) == note[n].row = "none" /\ note' = [note EXCEPT ![n] = Draft]

HandleCreateNote(n) ==
    /\ CreateNote(n)
    /\ UNCHANGED <<disk, req, jobs, purger, uploads, discarded, stranded, used>>

\* A draft only: a repeated start changes nothing.
StartNoteCapture(n) ==
    /\ Live(n) /\ note[n].status = "draft"
    /\ note' = [note EXCEPT ![n].status = "recording"]

HandleStartNoteCapture(n) ==
    /\ StartNoteCapture(n)
    /\ UNCHANGED <<disk, req, jobs, purger, uploads, discarded, stranded, used>>

\* A link for a new object of a note that is not in the trash.
HandleAudioUploadURL(c, n) ==
    /\ req[c] = Idle /\ Live(n) /\ uploads[n] < MaxUploads
    /\ \E clip \in Clips :
          req' = [req EXCEPT ![c] = [op |-> "upload", pc |-> "grant", n |-> n, key |-> FreshKey(n),
                                     clip |-> clip, gen |-> 0]]
    /\ uploads' = [uploads EXCEPT ![n] = @ + 1]
    /\ UNCHANGED <<note, disk, jobs, purger, discarded, stranded, used>>

-----------------------------------------------------------------------------
(* The object store: UploadHandler.                                        *)

\* A PUT creates or truncates the object before it has read anything.
PutBegins(c) ==
    /\ req[c].pc = "grant"
    /\ disk' = [disk EXCEPT ![req[c].key] = Partial]
    /\ Go(c, "put")
    /\ UNCHANGED <<note, jobs, purger, uploads, discarded, stranded, used>>

PutEnds(c) ==
    /\ req[c].pc = "put"
    /\ disk' = [disk EXCEPT ![req[c].key] = req[c].clip]
    /\ Go(c, "stored")
    /\ UNCHANGED <<note, jobs, purger, uploads, discarded, stranded, used>>

\* An upload that is too large, or whose content type cannot be stored, is
\* removed again; one that breaks off stays as far as it came.  The client may
\* try the link again, an import is over.
PutFails(c) ==
    /\ req[c].pc = "put" /\ Fault
    /\ \E left \in {Absent, Partial} : disk' = [disk EXCEPT ![req[c].key] = left]
    /\ IF req[c].op = "upload" THEN Go(c, "grant") \/ Done(c) ELSE Done(c)
    /\ UNCHANGED <<note, jobs, purger, uploads, discarded, stranded>>

\* Delete: a missing object is no error.
Delete(k) == [disk EXCEPT ![k] = Absent]

-----------------------------------------------------------------------------
(* The end of an upload.                                                   *)

\* Verify: any object that is there and not empty will do.
HandleAudioUploaded(c) ==
    /\ Doing(c, "upload", "stored")
    /\ IF disk[req[c].key] = Absent THEN Done(c) ELSE Go(c, "verified")
    /\ UNCHANGED <<note, disk, jobs, purger, uploads, discarded, stranded, used>>

\* SetNoteAudio: a note in the trash too.
SetNoteAudio(n, k) ==
    /\ note' = [note EXCEPT ![n].key = k, ![n].status = "uploaded"]
    /\ stranded' = stranded \ {n}

AttachAudio(c) ==
    LET n == req[c].n
    IN /\ Doing(c, "upload", "verified") \/ Doing(c, "import", "stored")
       /\ \/ Row(n) /\ SetNoteAudio(n, req[c].key) /\ Go(c, IF req[c].op = "upload" THEN "attached" ELSE "hash")
          \/ ~Row(n) /\ Done(c) /\ UNCHANGED <<note, stranded>>
       /\ UNCHANGED <<disk, jobs, purger, uploads, discarded, used>>

\* The generation there is now (an import takes it to be the first).
CurrentTranscriptGeneration(c) ==
    /\ Doing(c, "upload", "attached")
    /\ req' = [req EXCEPT ![c].pc = "counted", ![c].gen = note[req[c].n].gen]
    /\ UNCHANGED <<note, disk, jobs, purger, uploads, discarded, stranded, used>>

\* Mutation: the request answers once the audio is attached.
NoTranscribeJob(c) ==
    /\ req[c].pc = "counted" /\ Done(c)
    /\ UNCHANGED <<note, disk, jobs, purger, uploads, discarded, stranded, used>>

\* EnqueueNoteJob.  The note may be gone; the client that hears of no success
\* reports its object once more.
EnqueueTranscribe(c) ==
    LET n == req[c].n
    IN /\ req[c].pc = "counted"
       /\ \/ /\ Row(n)
             /\ jobs' = jobs \cup {[n |-> n, key |-> req[c].key, claimed |-> FALSE, published |-> FALSE,
                                    gen |-> req[c].gen]}
             /\ \/ Done(c) /\ UNCHANGED used
                \/ req[c].op = "upload" /\ Fault /\ Go(c, "stored")
          \/ ~Row(n) /\ Done(c) /\ UNCHANGED <<jobs, used>>
       /\ UNCHANGED <<note, disk, purger, uploads, discarded, stranded>>

\* The audio is attached, and the job is not yet in the queue.
Attached(r) == r.pc \in {"hash", "attached", "counted"}

\* SetNoteAudio or a statement after it fails, and the request with it.  The client may
\* report its object once more; as long as it does not, a note whose audio is
\* attached is left without a job.
StatementFails(c) ==
    /\ Doing(c, "upload", "verified") \/ Doing(c, "import", "stored") \/ Attached(req[c])
    /\ Fault
    /\ Done(c) \/ (req[c].op = "upload" /\ Go(c, "stored"))
    /\ stranded' = IF Attached(req[c]) THEN stranded \cup {req[c].n} ELSE stranded
    /\ UNCHANGED <<note, disk, jobs, purger, uploads, discarded>>

-----------------------------------------------------------------------------
(* handleImportNote.                                                       *)

FindNotesByAudioHash(clip) == {n \in Notes : Live(n) /\ note[n].hash = clip}

\* The whole file has been read and hashed: a known one is refused.
HandleImportNote(c, clip) ==
    /\ req[c] = Idle /\ FindNotesByAudioHash(clip) = {}
    /\ req' = [req EXCEPT ![c] = [Idle EXCEPT !.op = "import", !.pc = "create", !.clip = clip]]
    /\ UNCHANGED <<note, disk, jobs, purger, uploads, discarded, stranded, used>>

ImportCreates(c, n) ==
    /\ Doing(c, "import", "create") /\ uploads[n] < MaxUploads
    /\ CreateNote(n)
    /\ req' = [req EXCEPT ![c].pc = "grant", ![c].n = n, ![c].key = FreshKey(n)]
    /\ uploads' = [uploads EXCEPT ![n] = @ + 1]
    /\ UNCHANGED <<disk, jobs, purger, discarded, stranded, used>>

SetNoteHashesForOwner(c) ==
    LET n == req[c].n
    IN /\ Doing(c, "import", "hash")
       /\ \/ Row(n) /\ note' = [note EXCEPT ![n].hash = req[c].clip] /\ Go(c, "counted")
          \/ ~Row(n) /\ Done(c) /\ UNCHANGED note
       /\ UNCHANGED <<disk, jobs, purger, uploads, discarded, stranded, used>>

-----------------------------------------------------------------------------
(* The trash.                                                              *)

DeleteNote(n) ==
    /\ Live(n)
    /\ note' = [note EXCEPT ![n].row = "trash", ![n].old = FALSE]
    /\ UNCHANGED <<disk, req, jobs, purger, uploads, discarded, stranded, used>>

RestoreNote(n) ==
    /\ note[n].row = "trash"
    /\ note' = [note EXCEPT ![n].row = "live"]
    /\ UNCHANGED <<disk, req, jobs, purger, uploads, discarded, stranded, used>>

\* The retention period of the trash goes by.
GrowOld(n) ==
    /\ note[n].row = "trash" /\ ~note[n].old
    /\ note' = [note EXCEPT ![n].old = TRUE]
    /\ UNCHANGED <<disk, req, jobs, purger, uploads, discarded, stranded, used>>

\* The rows go with all that refers to them.
DropRows(S) ==
    /\ note' = [n \in Notes |-> IF n \in S THEN [note[n] EXCEPT !.row = "gone"] ELSE note[n]]
    /\ jobs' = {j \in jobs : j.n \notin S}

AudioOf(S) == {note[n].key : n \in S} \ {NoKey}

\* PurgeNote, then the object in the same request.
HandlePurgeNote(c, n) ==
    /\ req[c] = Idle /\ note[n].row = "trash"
    /\ DropRows({n})
    /\ req' = [req EXCEPT ![c] = IF note[n].key = NoKey THEN Idle
                                 ELSE [Idle EXCEPT !.op = "purge", !.pc = "blob", !.key = note[n].key]]
    /\ UNCHANGED <<disk, purger, uploads, discarded, stranded, used>>

PurgeBlob(c) ==
    /\ Doing(c, "purge", "blob")
    /\ \/ disk' = Delete(req[c].key) /\ UNCHANGED used
       \/ Fault /\ UNCHANGED disk
    /\ Done(c)
    /\ UNCHANGED <<note, jobs, purger, uploads, discarded, stranded>>

Expired == {n \in Notes : note[n].row = "trash" /\ note[n].old}

\* Mutation: the keys are looked up first, and the rows left for later.
PurgeExpiredKeysFirst ==
    /\ Expired # {} /\ purger = {}
    /\ purger' = AudioOf(Expired)
    /\ UNCHANGED <<note, jobs, disk, req, uploads, discarded, stranded, used>>

\* PurgeExpired: one statement for all of them.
PurgeExpired ==
    /\ Expired # {} /\ purger = {}
    /\ DropRows(Expired)
    /\ purger' = AudioOf(Expired)
    /\ UNCHANGED <<disk, req, uploads, discarded, stranded, used>>

\* runTrashPurgeOnce, one object after the other; a failure is logged.
RunTrashPurge ==
    \E k \in purger :
        /\ purger' = purger \ {k}
        /\ \/ disk' = Delete(k) /\ UNCHANGED used
           \/ Fault /\ UNCHANGED disk
        /\ UNCHANGED <<note, req, jobs, uploads, discarded, stranded>>

-----------------------------------------------------------------------------
(* The transcription's part.                                               *)

\* Process: the job of a note in the trash is completed without being done,
\* and nobody queues it again when the note is restored.  A failing look at the
\* note counts as "not in the trash".
Process(j) ==
    /\ j \in jobs /\ ~j.claimed
    /\ \/ /\ note[j.n].row = "trash"
          /\ jobs' = jobs \ {j} /\ stranded' = stranded \cup {j.n} /\ UNCHANGED used
       \/ /\ jobs' = (jobs \ {j}) \cup {[j EXCEPT !.claimed = TRUE]} /\ UNCHANGED stranded
          /\ \/ note[j.n].row # "trash" /\ UNCHANGED used
             \/ note[j.n].row = "trash" /\ Fault
    /\ UNCHANGED <<note, disk, req, purger, uploads, discarded>>

\* The transcript moved on, and the job is dropped; its audio cannot be read,
\* and the note fails; or a transcript is published.
Transcribe(j) ==
    /\ j \in jobs /\ j.claimed /\ ~j.published
    /\ \/ /\ note[j.n].gen # j.gen
          /\ jobs' = jobs \ {j} /\ UNCHANGED note
       \/ /\ note[j.n].gen = j.gen /\ disk[j.key] \notin Clips
          /\ jobs' = jobs \ {j} /\ note' = [note EXCEPT ![j.n].status = "failed"]
       \/ /\ note[j.n].gen = j.gen /\ disk[j.key] \in Clips
          /\ note' = [note EXCEPT ![j.n].gen = @ + 1, ![j.n].status = "ready"]
          /\ jobs' = (jobs \ {j}) \cup {[j EXCEPT !.published = TRUE, !.gen = @ + 1]}
    /\ UNCHANGED <<disk, req, purger, uploads, discarded, stranded, used>>

\* hashNoteAudio and SetNoteHashes of what the job has read, if its transcript
\* is still the note's.
HashOf(j) == IF disk[j.key] \in Clips THEN disk[j.key] ELSE note[j.n].hash

\* SetRetentionStateIfCurrent.
RetentionKept(j) ==
    /\ note' = [note EXCEPT ![j.n].hash = HashOf(j), ![j.n].ret = "kept"]
    /\ UNCHANGED <<disk, discarded>>

\* SetRetentionStateDiscardedIfCurrent: the object goes while the row is
\* locked; the transaction may fail after that.
RetentionDiscarded(j) ==
    /\ disk' = Delete(j.key) /\ discarded' = discarded \cup {j.key}
    /\ \/ note' = [note EXCEPT ![j.n].hash = HashOf(j), ![j.n].ret = "discarded"] /\ UNCHANGED used
       \/ note' = [note EXCEPT ![j.n].hash = HashOf(j)] /\ Fault

ApplyAudioRetention(j) ==
    /\ j \in jobs /\ j.claimed /\ j.published
    /\ jobs' = jobs \ {j}
    /\ \/ note[j.n].gen # j.gen /\ UNCHANGED <<note, disk, discarded, used>>
       \/ note[j.n].gen = j.gen /\ "keep" \in Retention /\ RetentionKept(j) /\ UNCHANGED used
       \/ note[j.n].gen = j.gen /\ "discard" \in Retention /\ RetentionDiscarded(j)
    /\ UNCHANGED <<req, purger, uploads, stranded>>

-----------------------------------------------------------------------------

\* The server stops.  What a client has been told it still knows.
Remembered(r) ==
    CASE r.op = "upload" /\ r.pc = "put" -> [r EXCEPT !.pc = "grant"]
      [] r.op = "upload" /\ r.pc \in {"verified", "attached", "counted"} -> [r EXCEPT !.pc = "stored"]
      [] r.op = "upload" /\ r.pc \in {"grant", "stored"} -> r
      [] OTHER -> Idle

\* A job in hand is claimed again, by the process that starts next.
Crash ==
    /\ used.crashes < MaxCrashes
    /\ used' = [used EXCEPT !.crashes = @ + 1]
    /\ req' = [c \in Clients |-> Remembered(req[c])]
    /\ stranded' = stranded \cup {req[c].n : c \in {d \in Clients : Attached(req[d])}}
    /\ purger' = {}
    /\ jobs' = {[j EXCEPT !.claimed = FALSE] : j \in jobs}
    /\ UNCHANGED <<note, disk, uploads, discarded>>

RequestStep(c) ==
    \/ PutBegins(c) \/ PutEnds(c) \/ PutFails(c) \/ HandleAudioUploaded(c) \/ AttachAudio(c)
    \/ CurrentTranscriptGeneration(c) \/ EnqueueTranscribe(c) \/ StatementFails(c)
    \/ SetNoteHashesForOwner(c) \/ PurgeBlob(c)
    \/ \E n \in Notes : ImportCreates(c, n)

WorkerStep == \E j \in jobs : Process(j) \/ Transcribe(j) \/ ApplyAudioRetention(j)

Next ==
    \/ \E n \in Notes : \/ HandleCreateNote(n) \/ HandleStartNoteCapture(n)
                        \/ DeleteNote(n) \/ RestoreNote(n) \/ GrowOld(n)
    \/ \E c \in Clients : \/ RequestStep(c)
                          \/ \E n \in Notes : HandleAudioUploadURL(c, n) \/ HandlePurgeNote(c, n)
                          \/ \E clip \in Clips : HandleImportNote(c, clip)
    \/ PurgeExpired \/ RunTrashPurge \/ WorkerStep \/ Crash

\* A request goes on, the purger and the workers too.
Fairness ==
    /\ \A c \in Clients : WF_vars(RequestStep(c))
    /\ WF_vars(RunTrashPurge) /\ WF_vars(WorkerStep)

Spec == Init /\ [][Next]_vars /\ Fairness

-----------------------------------------------------------------------------
(* Properties.                                                             *)

\* The audio of a note, in the trash or not, is on disk and whole: it goes with
\* the row, never before it, or by the retention policy once the note has a
\* transcript made from it.  It is the client's part that what it reports was
\* stored whole, and that it writes there no more.  "The audio blob and children
\* are kept until permanent delete or auto-purge" (DeleteNote).
AudioIsKept ==
    /\ TypeOK
    /\ \A n \in Notes : Row(n) /\ note[n].key # NoKey =>
          \/ disk[note[n].key] \in Clips
          \/ note[n].key \in discarded /\ note[n].gen > 0
    /\ \A n \in Notes : note[n].ret = "discarded" => \E k \in discarded : k[1] = n

\* handleImportNote: "Generation is provably 0: CreateNote created this note
\* moments ago in this function, and nothing since then can attach a transcript".
ImportIsFirst ==
    \A c \in Clients :
        req[c].op = "import" /\ req[c].pc \in {"hash", "counted"} => note[req[c].n].gen = 0

\* As long as an import has its note for itself, an uploaded note does not stay
\* so, whatever fails and however the server stops, but for three causes: a
\* statement failed, or the server stopped, after SetNoteAudio and before
\* EnqueueNoteJob, or Process skipped the job of a note in the trash, which may
\* be restored.  And as long as nothing fails or stops, the audio of a purged
\* note disappears.
RecordingsSettle ==
    /\ []ImportIsFirst =>
          \A n \in Notes :
              (note[n].status = "uploaded") ~>
                  (note[n].status # "uploaded" \/ note[n].row = "gone" \/ n \in stranded)
    /\ [](used.faults + used.crashes = 0) =>
          \A n \in Notes :
              (note[n].row = "gone") ~> (note[n].key = NoKey \/ disk[note[n].key] = Absent)
=============================================================================
