-------------------------- MODULE StreamingPlugin ---------------------------
(***************************************************************************)
(* A streaming transcription plugin: the websocket handler with its slots  *)
(* (internal/pluginkit/stream_server.go), the engine that loads its model  *)
(* for the first client (cmd/whisper-cpp-streaming/internal/live), and the *)
(* session that cuts the audio into utterances and transcribes them one at *)
(* a time (internal/pluginkit/streaming.go).                               *)
(*                                                                         *)
(* Audio is counted in samples, numbered from the start of the session;    *)
(* whether a frame of them is speech is the detector's choice.  Feed holds *)
(* the session's mutex throughout, so that a chunk is one step; the        *)
(* transcription runs beside it and needs the mutex to hand over.          *)
(***************************************************************************)
EXTENDS Integers, Sequences, FiniteSets, SequencesExt

CONSTANTS
    Clients,            \* the websocket connections
    MaxSessions,        \* MaxStreamingSessions
    VADFrame,           \* the durations of StreamingConfig, in samples
    MaxWindow,
    PartialInterval,
    SilenceDuration,
    SilenceHysteresis,
    MaxPendingCommits,  \* maxPendingCommits
    Chunks,             \* lengths of the audio messages a client sends
    MaxSamples,         \* bound: samples all clients send
    MaxLoadFailures     \* bound: loads of the model that fail

VARIABLES
    socket,   \* per client: not yet open, open, left by the client, closed by the server
    handler,  \* per client: the step ServeHTTP is at
    slots,    \* h.slots: sessions under way
    model,    \* the engine's modelState
    loading,  \* Engine.loading: a goroutine prepares the model
    failures, \* loads that failed so far
    session,  \* per client: its StreamingSession
    told,     \* per client: the segments written to it, in order
    stopping  \* serverCtx is done

vars == <<socket, handler, slots, model, loading, failures, session, told, stopping>>

Steps == {"idle", "start", "session", "load", "read", "wait", "flush", "closing",
          "release", "over"}

\* A stretch of audio given to the transcriber; samples is empty for none.
None == [final |-> FALSE, samples |-> {}, start |-> 0, end |-> 0, emitted |-> FALSE]

\* NewStreamingSession.  voiced, dropped and failed keep account of the samples
\* that were speech, of the queued commits given up, and of the finals whose
\* transcription failed or was blank.
NewSession ==
    [pending |-> 0, total |-> 0, window |-> {}, start |-> 0, last |-> 0, since |-> 0,
     low |-> 0, active |-> FALSE, flight |-> None, commits |-> << >>, events |-> << >>,
     voiced |-> {}, dropped |-> {}, failed |-> {}]

Init ==
    /\ socket = [c \in Clients |-> "new"]
    /\ handler = [c \in Clients |-> "idle"]
    /\ slots = 0
    /\ model = "unloaded"
    /\ loading = FALSE
    /\ failures = 0
    /\ session = [c \in Clients |-> NewSession]
    /\ told = [c \in Clients |-> << >>]
    /\ stopping = FALSE

-----------------------------------------------------------------------------
(* The session: what a frame of audio does to it, under its mutex.         *)

Snapshot(s, final) ==
    [final |-> final, samples |-> s.window, start |-> s.start, end |-> s.last,
     emitted |-> FALSE]

\* A mutation of QueueCommit: a final that comes while another is transcribed is
\* skipped, as a partial is.
QueueCommitForgets(s) == s

\* A full queue gives up its oldest commit.
QueueCommit(s) ==
    LET full == Len(s.commits) >= MaxPendingCommits
        kept == IF full THEN Tail(s.commits) ELSE s.commits
    IN  [s EXCEPT !.commits = Append(kept, Snapshot(s, TRUE)),
                  !.dropped = IF full THEN @ \cup s.commits[1].samples ELSE @]

\* One transcription at a time: a final waits its turn, a partial is skipped.
StartTranscription(s, final) ==
    CASE s.window = {}          -> s
      [] s.flight = None        -> [s EXCEPT !.flight = Snapshot(s, final)]
      [] OTHER                  -> IF final THEN QueueCommit(s) ELSE s

ResetUtterance(s) ==
    [s EXCEPT !.window = {}, !.active = FALSE, !.low = 0, !.since = 0, !.start = 0, !.last = 0]

BeginNextWindow(s) ==
    [s EXCEPT !.window = {}, !.since = 0, !.start = s.total, !.last = s.total]

\* A window that outgrew its bound is committed and the utterance goes on.
BoundWindow(s) ==
    IF Cardinality(s.window) <= MaxWindow THEN s
    ELSE BeginNextWindow(StartTranscription(s, TRUE))

AppendSpeech(s, frame) ==
    LET t == BoundWindow([s EXCEPT !.since = @ + Cardinality(frame), !.last = s.total,
                                   !.window = @ \cup frame])
    IN  IF t.since >= PartialInterval
        THEN StartTranscription([t EXCEPT !.since = 0], FALSE)
        ELSE t

\* classifyLocked, for a frame of n samples: low energy is tolerated for a while,
\* then left out, and then ends the utterance.
Classify(s, n, speech) ==
    LET frame == s.total .. (s.total + n - 1)
        t == [s EXCEPT !.total = @ + n]
        low == s.low + n
    IN  CASE speech ->
                AppendSpeech([t EXCEPT !.active = TRUE, !.low = 0, !.voiced = @ \cup frame,
                                       !.start = IF s.active THEN @ ELSE s.total], frame)
          [] ~speech /\ ~s.active -> t
          [] ~speech /\ s.active /\ low <= SilenceHysteresis ->
                AppendSpeech([t EXCEPT !.low = low], frame)
          [] OTHER ->
                IF low - SilenceHysteresis >= SilenceDuration
                THEN ResetUtterance(StartTranscription([t EXCEPT !.low = low], TRUE))
                ELSE [t EXCEPT !.low = low]

ClassifyFrame(s, speech) == Classify(s, VADFrame, speech)

\* The results Feed can have on a chunk of n samples: whole frames are
\* classified, the remainder waits.
Feed(s, n) ==
    LET frames == (s.pending + n) \div VADFrame
        rest == (s.pending + n) % VADFrame
    IN  {[FoldLeft(ClassifyFrame, s, v) EXCEPT !.pending = rest] :
            v \in [1..frames -> BOOLEAN]}

\* The results Finish can have before it waits.
Finish(s) ==
    LET classified == IF s.pending = 0 THEN {s}
                      ELSE {Classify([s EXCEPT !.pending = 0], s.pending, v) : v \in BOOLEAN}
    IN  {IF t.active /\ t.window # {} THEN ResetUtterance(StartTranscription(t, TRUE)) ELSE t :
            t \in classified}

-----------------------------------------------------------------------------
(* The transcription goroutine.                                            *)

\* What transcribe makes of the audio, for emit to keep.  Blank text is not an
\* event, and that of an error, which shows no audio, is left out.
Outcomes == {"text", "blank or error"}

\* The event is kept before the mutex is taken.
Transcribed(c) ==
    LET s == session[c] IN
    /\ s.flight # None /\ ~s.flight.emitted
    /\ \E outcome \in Outcomes :
          session' = [session EXCEPT ![c] =
              [s EXCEPT !.flight.emitted = TRUE,
                        !.events = IF outcome = "text" THEN Append(@, s.flight) ELSE @,
                        !.failed = IF outcome # "text" /\ s.flight.final
                                   THEN @ \cup s.flight.samples ELSE @]]
    /\ UNCHANGED <<socket, handler, slots, model, loading, failures, told, stopping>>

\* The next commit follows, after the event of this one.
HandOver(c) ==
    LET s == session[c] IN
    /\ s.flight.emitted
    /\ session' = [session EXCEPT ![c] =
          IF s.commits = << >> THEN [s EXCEPT !.flight = None]
          ELSE [s EXCEPT !.flight = Head(s.commits), !.commits = Tail(s.commits)]]
    /\ UNCHANGED <<socket, handler, slots, model, loading, failures, told, stopping>>

-----------------------------------------------------------------------------
(* The handler.                                                            *)

Goto(c, step) == handler' = [handler EXCEPT ![c] = step]

Connect(c) ==
    /\ handler[c] = "idle" /\ ~stopping
    /\ socket' = [socket EXCEPT ![c] = "open"]
    /\ Goto(c, "start")
    /\ UNCHANGED <<slots, model, loading, failures, session, told, stopping>>

\* The first message: an error, an invalid request, no free slot, or a session
\* to start.
ReadStart(c) ==
    /\ handler[c] = "start"
    /\ \/ Goto(c, "over") /\ UNCHANGED slots
       \/ /\ socket[c] = "open" /\ slots < MaxSessions
          /\ slots' = slots + 1
          /\ Goto(c, "session")
    /\ UNCHANGED <<socket, model, loading, failures, session, told, stopping>>

\* parseSessionConfig or newVAD finds something wrong.
RefuseConfig(c) == Goto(c, "release")

\* The model's status decides.  When "ready" cannot be written, the session is
\* closed again.
StartStream(c) ==
    /\ handler[c] = "session"
    /\ CASE model = "ready" -> \/ RefuseConfig(c)
                               \/ Goto(c, IF socket[c] = "open" THEN "read" ELSE "flush")
         [] model = "error" -> Goto(c, "release")
         [] OTHER           -> Goto(c, "load")
    /\ UNCHANGED <<socket, slots, model, loading, failures, session, told, stopping>>

\* startLoading, and the pause before StartStream is asked again.
StartLoading(c) ==
    /\ handler[c] = "load"
    /\ loading' = TRUE
    /\ Goto(c, IF socket[c] = "closed" THEN "release" ELSE "session")
    /\ UNCHANGED <<socket, slots, model, failures, session, told, stopping>>

\* ensureModel begins a load, unless the model is there.
BeginLoad ==
    /\ loading /\ model \in {"unloaded", "error"}
    /\ model' = "loading"
    /\ UNCHANGED <<socket, handler, slots, loading, failures, session, told, stopping>>

EndLoad ==
    /\ loading /\ model \in {"loading", "ready"}
    /\ \/ model' = "ready" /\ UNCHANGED failures
       \/ /\ model = "loading" /\ failures < MaxLoadFailures
          /\ model' = "error"
          /\ failures' = failures + 1
    /\ loading' = FALSE
    /\ UNCHANGED <<socket, handler, slots, session, told, stopping>>

\* WriteAudio: the chunk is fed.
Sent == LET total(c) == session[c].total + session[c].pending
        IN  FoldLeft(LAMBDA n, c : n + total(c), 0, SetToSeq(Clients))

ReadAudio(c) ==
    /\ handler[c] = "read" /\ socket[c] = "open"
    /\ \E n \in Chunks :
          /\ Sent + n <= MaxSamples
          /\ \E s \in Feed(session[c], n) : session' = [session EXCEPT ![c] = s]
    /\ Goto(c, "wait")
    /\ UNCHANGED <<socket, slots, model, loading, failures, told, stopping>>

\* Stop, a bad message, or no socket to read from.
ReadEnd(c) ==
    /\ handler[c] = "read"
    /\ Goto(c, "flush")
    /\ UNCHANGED <<socket, slots, model, loading, failures, session, told, stopping>>

\* The events collected are written, and lost with the socket.
WriteEvents(c) ==
    /\ told' = [told EXCEPT ![c] =
          IF socket[c] = "open" THEN @ \o session[c].events ELSE @]
    /\ session' = [session EXCEPT ![c].events = << >>]

\* WriteAudio returns when nothing is being transcribed.
EndWait(c) ==
    /\ handler[c] = "wait" /\ session[c].flight = None
    /\ WriteEvents(c)
    /\ Goto(c, IF session[c].events = << >> \/ socket[c] = "open" THEN "read" ELSE "flush")
    /\ UNCHANGED <<socket, slots, model, loading, failures, stopping>>

\* session.Close: Finish, its wait, and the closing events.
Flush(c) ==
    /\ handler[c] = "flush"
    /\ \E s \in Finish(session[c]) : session' = [session EXCEPT ![c] = s]
    /\ Goto(c, "closing")
    /\ UNCHANGED <<socket, slots, model, loading, failures, told, stopping>>

EndFlush(c) ==
    /\ handler[c] = "closing" /\ session[c].flight = None
    /\ WriteEvents(c)
    /\ Goto(c, "release")
    /\ UNCHANGED <<socket, slots, model, loading, failures, stopping>>

\* A mutation of Release: only a session that heard something gives its slot back.
ReleaseOnlyServed(c) ==
    /\ handler[c] = "release"
    /\ slots' = IF session[c].total > 0 THEN slots - 1 ELSE slots
    /\ Goto(c, "over")
    /\ UNCHANGED <<socket, model, loading, failures, session, told, stopping>>

Release(c) ==
    /\ handler[c] = "release"
    /\ slots' = slots - 1
    /\ Goto(c, "over")
    /\ UNCHANGED <<socket, model, loading, failures, session, told, stopping>>

-----------------------------------------------------------------------------
(* What happens to it.                                                     *)

\* The client goes; only a read or a write finds out.
Leave(c) ==
    /\ socket[c] = "open"
    /\ socket' = [socket EXCEPT ![c] = "left"]
    /\ UNCHANGED <<handler, slots, model, loading, failures, session, told, stopping>>

Shutdown ==
    /\ ~stopping
    /\ stopping' = TRUE
    /\ UNCHANGED <<socket, handler, slots, model, loading, failures, session, told>>

\* The watcher of a handler cancels its context and closes its socket.
WatchShutdown(c) ==
    /\ stopping
    /\ handler[c] \notin {"idle", "over"} /\ socket[c] # "closed"
    /\ socket' = [socket EXCEPT ![c] = "closed"]
    /\ UNCHANGED <<handler, slots, model, loading, failures, session, told, stopping>>

-----------------------------------------------------------------------------

\* The steps of a handler that wait for nothing but its own transcriptions.
HandlerStep(c) ==
    \/ StartStream(c) \/ StartLoading(c) \/ EndWait(c) \/ Flush(c) \/ EndFlush(c)
    \/ Release(c)
    \/ socket[c] # "open" /\ (ReadStart(c) \/ ReadEnd(c))

LoaderStep == BeginLoad \/ EndLoad

Next ==
    \/ \E c \in Clients :
          \/ Transcribed(c) \/ HandOver(c)
          \/ Connect(c) \/ ReadStart(c) \/ StartStream(c) \/ StartLoading(c)
          \/ ReadAudio(c) \/ ReadEnd(c) \/ EndWait(c) \/ Flush(c) \/ EndFlush(c)
          \/ Release(c) \/ Leave(c) \/ WatchShutdown(c)
    \/ BeginLoad \/ EndLoad \/ Shutdown

\* Each of these is a goroutine, or several of which none can go on for ever by
\* itself: one is assumed to run when it can.
Fairness ==
    /\ WF_vars(LoaderStep)
    /\ WF_vars(\E c \in Clients : HandlerStep(c))
    /\ WF_vars(\E c \in Clients : Transcribed(c) \/ HandOver(c) \/ WatchShutdown(c))

Spec == Init /\ [][Next]_vars /\ Fairness

-----------------------------------------------------------------------------
(* Properties.                                                             *)

Finals(segments) == SelectSeq(segments, LAMBDA x : x.final)

\* The audio of a session that is, or is to become, a final segment, in order.
Timeline(c) ==
    LET s == session[c]
        pieces == Finals(told[c] \o s.events)
                     \o (IF s.flight.final /\ ~s.flight.emitted THEN <<s.flight>> ELSE << >>)
                     \o s.commits
    IN  [i \in DOMAIN pieces |-> pieces[i].samples] \o <<s.window>>

\* The segments a client is shown are in order and overlap nothing final before
\* them, and the handler that ended without losing its client accounts for every
\* sample that was speech: it is in exactly one final segment, in a commit that
\* the bounded queue gave up, or in a transcription that failed or was blank.
SpeechIsCovered ==
    \A c \in Clients :
        LET s == session[c]
            line == Timeline(c)
            covered == UNION Range(line)
            shown == told[c] \o s.events
        IN  /\ Len(s.commits) <= MaxPendingCommits
            /\ \A i, j \in DOMAIN line : i < j =>
                  \A x \in line[i], y \in line[j] : x < y
            /\ \A i, j \in DOMAIN shown : i < j =>
                  /\ shown[i].start <= shown[j].start
                  /\ shown[i].final => shown[i].end <= shown[j].start
            /\ socket[c] = "open" =>
                  /\ s.voiced \subseteq covered \cup s.dropped \cup s.failed
                  /\ covered \cap (s.dropped \cup s.failed) = {}
                  /\ handler[c] = "over" =>
                        /\ s.pending = 0
                        /\ s.voiced \subseteq UNION {x.samples : x \in Range(Finals(told[c]))}
                                              \cup s.dropped \cup s.failed

\* The slots taken are the sessions under way; a client that leaves, even while
\* the model loads, or a server that stops gives its slot back, and a client that
\* stays comes to be served or is sent away.
SlotsComeBack ==
    /\ [](slots = Cardinality({c \in Clients :
             handler[c] \notin {"idle", "start", "over"}}))
    /\ \A c \in Clients :
          handler[c] = "session" \/ socket[c] \in {"left", "closed"} ~>
             handler[c] = "over" \/ (handler[c] = "read" /\ socket[c] = "open")
=============================================================================
