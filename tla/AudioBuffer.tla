---------------------------- MODULE AudioBuffer -----------------------------
(***************************************************************************)
(* The audio half of a live stream (handleNoteStream in                    *)
(* internal/api/stream.go): the goroutine that reads frames from the       *)
(* client's socket into a bounded channel, evicting the oldest frame when  *)
(* it is full, the goroutine that passes them on to the streaming plugin,  *)
(* and the accounting of evicted frames as transcript gaps                 *)
(* (AppendTranscriptGap in internal/store/transcripts.go).                 *)
(*                                                                         *)
(* Each non-blocking select is a step of its own: the other goroutine can  *)
(* run between any two.  Positions are counted in frames of equal length.  *)
(***************************************************************************)
EXTENDS Integers, Sequences

CONSTANTS
    MaxFrames,  \* bound: frames the client sends
    Capacity    \* streamingAudioBuffer

ASSUME ConstantsAssumption == MaxFrames \in Nat /\ Capacity \in Nat \ {0}

VARIABLES
    received,  \* frames read from the socket so far; frame n is the n-th
    reader,    \* the reader goroutine: its step and the frame it evicted
    audioCh,   \* the channel between the two goroutines
    closed,    \* the channel is closed
    run,       \* streamDropTracker.run
    gaps,      \* transcript_gaps rows of this stream
    recorded,  \* sum of their dropped_samples
    writer,    \* the writer goroutine: its step and the frame it holds
    sent,      \* frames the plugin has been sent
    torn       \* closeAll has run: plugin session and client socket are closed

vars == <<received, reader, audioCh, closed, run, gaps, recorded, writer, sent, torn>>

Frames == Nat \ {0}

\* A stretch of dropped audio.  NoRun, with nothing in it, is the nil run.
Run == [start: Nat, dropped: Nat]
NoRun == [start |-> 0, dropped |-> 0]

\* evicted 0, held 0: no frame.
ReaderSteps == {"read", "offer", "evict", "push", "observe", "abort", "flush", "over"}
WriterSteps == {"receive", "write", "over"}

TypeOK ==
    /\ received \in Nat
    /\ reader \in [pc: ReaderSteps, evicted: Nat]
    /\ audioCh \in Seq(Frames)
    /\ closed \in BOOLEAN
    /\ run \in Run
    /\ gaps \in SUBSET Run
    /\ recorded \in Nat
    /\ writer \in [pc: WriterSteps, held: Nat]
    /\ sent \in Seq(Frames)
    /\ torn \in BOOLEAN

Init ==
    /\ received = 0
    /\ reader = [pc |-> "read", evicted |-> 0]
    /\ audioCh = << >>
    /\ closed = FALSE
    /\ run = NoRun
    /\ gaps = {}
    /\ recorded = 0
    /\ writer = [pc |-> "receive", held |-> 0]
    /\ sent = << >>
    /\ torn = FALSE

-----------------------------------------------------------------------------
(* Client -> audio buffer.                                                 *)

\* conn.ReadMessage returns an audio frame.
ReadFrame ==
    /\ reader.pc = "read" /\ ~torn
    /\ received < MaxFrames
    /\ received' = received + 1
    /\ reader' = [reader EXCEPT !.pc = "offer"]
    /\ UNCHANGED <<audioCh, closed, run, gaps, recorded, writer, sent, torn>>

\* A close frame ends the loop; any other error also tears the stream down.
ReadEnds ==
    /\ reader.pc = "read"
    /\ \/ reader' = [reader EXCEPT !.pc = "flush"]
       \/ reader' = [reader EXCEPT !.pc = "abort"]
    /\ UNCHANGED <<received, audioCh, closed, run, gaps, recorded, writer, sent, torn>>

\* enqueueAudioFrame, first select: there is room.
Offer ==
    /\ reader.pc = "offer"
    /\ IF Len(audioCh) < Capacity
       THEN /\ audioCh' = Append(audioCh, received)
            /\ reader' = [pc |-> "observe", evicted |-> 0]
       ELSE /\ reader' = [reader EXCEPT !.pc = "evict"]
            /\ UNCHANGED audioCh
    /\ UNCHANGED <<received, closed, run, gaps, recorded, writer, sent, torn>>

\* Mutation: the evicted frame is not handed to the tracker.
EvictUncounted ==
    /\ reader.pc = "evict"
    /\ reader' = [pc |-> "push", evicted |-> 0]
    /\ audioCh' = IF audioCh # << >> THEN Tail(audioCh) ELSE audioCh
    /\ UNCHANGED <<received, closed, run, gaps, recorded, writer, sent, torn>>

\* Second select: the oldest frame, if the writer has left one.
Evict ==
    /\ reader.pc = "evict"
    /\ IF audioCh # << >>
       THEN /\ reader' = [pc |-> "push", evicted |-> Head(audioCh)]
            /\ audioCh' = Tail(audioCh)
       ELSE /\ reader' = [pc |-> "push", evicted |-> 0]
            /\ UNCHANGED audioCh
    /\ UNCHANGED <<received, closed, run, gaps, recorded, writer, sent, torn>>

\* Third select: the send blocks until there is room.
Push ==
    /\ reader.pc = "push"
    /\ Len(audioCh) < Capacity
    /\ audioCh' = Append(audioCh, received)
    /\ reader' = [reader EXCEPT !.pc = "observe"]
    /\ UNCHANGED <<received, closed, run, gaps, recorded, writer, sent, torn>>

\* resolveStreamDropRun: AppendTranscriptGap, refused once another transcript
\* has superseded the stream's, or failing.  observe has reset the run.
RecordGap(next, failed) ==
    \/ /\ run # NoRun
       /\ gaps' = gaps \cup {run}
       /\ recorded' = recorded + run.dropped
       /\ run' = NoRun
       /\ UNCHANGED torn
       /\ reader' = [pc |-> next, evicted |-> 0]
    \/ /\ run # NoRun
       /\ run' = NoRun
       /\ UNCHANGED <<gaps, recorded>>
       /\ torn' = TRUE
       /\ reader' = [pc |-> failed, evicted |-> 0]
    \/ /\ run = NoRun
       /\ UNCHANGED <<run, gaps, recorded, torn>>
       /\ reader' = [pc |-> next, evicted |-> 0]

\* streamDropTracker.observe: a dropped frame extends the run, a frame that
\* went in without a drop closes it.
Observe ==
    /\ reader.pc = "observe"
    /\ \/ /\ reader.evicted # 0
          /\ run' = [start |-> IF run = NoRun THEN reader.evicted ELSE run.start,
                     dropped |-> run.dropped + 1]
          /\ reader' = [pc |-> "read", evicted |-> 0]
          /\ UNCHANGED <<gaps, recorded, torn>>
       \/ reader.evicted = 0 /\ RecordGap("read", "flush")
    /\ UNCHANGED <<received, audioCh, closed, writer, sent>>

\* flushDropRun, whose failure is ignored, then closeAll.
GiveUp ==
    /\ \/ /\ run # NoRun
          /\ gaps' = gaps \cup {run} /\ recorded' = recorded + run.dropped
       \/ UNCHANGED <<gaps, recorded>>
    /\ run' = NoRun
    /\ torn' = TRUE
    /\ reader' = [pc |-> "flush", evicted |-> 0]
    /\ UNCHANGED <<received, audioCh, closed, writer, sent>>

\* The socket broke.
Abort == reader.pc = "abort" /\ GiveUp

\* Third select, when the request's context is done: the frame on offer and the
\* one evicted for it are given up with the stream.
PushCancelled == reader.pc = "push" /\ GiveUp

\* Mutation: the deferred flush is missing.
FlushNothing ==
    /\ reader.pc = "flush"
    /\ closed' = TRUE
    /\ reader' = [pc |-> "over", evicted |-> 0]
    /\ UNCHANGED <<received, audioCh, run, gaps, recorded, writer, sent, torn>>

\* The deferred calls: flushDropRun, then closeAudio.
Flush ==
    /\ reader.pc = "flush"
    /\ RecordGap("over", "over")
    /\ closed' = TRUE
    /\ UNCHANGED <<received, audioCh, writer, sent>>

-----------------------------------------------------------------------------
(* Audio buffer -> plugin.                                                 *)

Receive ==
    /\ writer.pc = "receive" /\ audioCh # << >>
    /\ writer' = [pc |-> "write", held |-> Head(audioCh)]
    /\ audioCh' = Tail(audioCh)
    /\ UNCHANGED <<received, reader, closed, run, gaps, recorded, sent, torn>>

WriteAudio ==
    /\ writer.pc = "write" /\ ~torn
    /\ sent' = Append(sent, writer.held)
    /\ writer' = [pc |-> "receive", held |-> 0]
    /\ UNCHANGED <<received, reader, audioCh, closed, run, gaps, recorded, torn>>

\* The plugin's socket fails, or closeAll has closed it.
WriteAudioFails ==
    /\ writer.pc = "write"
    /\ torn' = TRUE
    /\ writer' = [writer EXCEPT !.pc = "over"]
    /\ UNCHANGED <<received, reader, audioCh, closed, run, gaps, recorded, sent>>

\* The channel is closed and drained; sess.Stop, and closeAll if it fails.
Stop ==
    /\ writer.pc = "receive" /\ closed /\ audioCh = << >>
    /\ torn' \in {torn, TRUE}
    /\ writer' = [pc |-> "over", held |-> 0]
    /\ UNCHANGED <<received, reader, audioCh, closed, run, gaps, recorded, sent>>

\* closeAll, called by the goroutine that relays the plugin's events or by the
\* one that writes to the client.
CloseAll ==
    /\ ~torn
    /\ torn' = TRUE
    /\ UNCHANGED <<received, reader, audioCh, closed, run, gaps, recorded, writer, sent>>

-----------------------------------------------------------------------------
ReaderStep ==
    \/ Offer
    \/ Evict
    \/ Push
    \/ PushCancelled
    \/ Observe
    \/ Abort
    \/ Flush

WriterStep ==
    \/ Receive
    \/ WriteAudio
    \/ WriteAudioFails
    \/ Stop

Next ==
    \/ ReadFrame
    \/ ReadEnds
    \/ ReaderStep
    \/ WriterStep
    \/ CloseAll

Spec == Init /\ [][Next]_vars

-----------------------------------------------------------------------------
(* Properties.                                                             *)

\* Frames in a goroutine's hands: received by the writer, evicted but not yet
\* counted, read but not yet sent on the channel.
InWriter == IF writer.held # 0 THEN 1 ELSE 0
Uncounted == IF reader.pc \in {"push", "observe"} /\ reader.evicted # 0 THEN 1 ELSE 0
Offered == IF reader.pc \in {"offer", "evict", "push"} THEN 1 ELSE 0

\* Nothing is lost silently: until the stream is torn down, every frame the
\* client sent has gone to the plugin, is on its way, or is counted as dropped.
Accounted ==
    ~torn => received = Len(sent) + Len(audioCh) + recorded + run.dropped
                            + InWriter + Uncounted + Offered

\* A stream that ends in good order has sent or recorded every frame.
NothingLostSilently ==
    ~torn /\ reader.pc = "over" /\ writer.pc = "over" => received = Len(sent) + recorded

\* Back pressure never stalls the client's socket: the third select always
\* finds room, for nobody else sends on the channel.
NeverBlocks == reader.pc = "push" => Len(audioCh) < Capacity

-----------------------------------------------------------------------------
(* Expected by comments in the code, and not so: README.md, "Known         *)
(* departures".                                                           *)

\* A gap is "an interval of audio that never reached a transcriber".
GapsNeverHeard ==
    \A g \in gaps, i \in DOMAIN sent : sent[i] \notin g.start .. g.start + g.dropped - 1
=============================================================================
