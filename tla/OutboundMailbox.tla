-------------------------- MODULE OutboundMailbox ---------------------------
(***************************************************************************)
(* The client half of a live stream (internal/api/stream_outbound.go and   *)
(* its callers in stream.go): the goroutine that receives the plugin's     *)
(* segments, persists the finals and passes everything on; the mailbox in  *)
(* which a newer partial replaces an older one and finals queue up; and    *)
(* the goroutine that writes the mailbox to the client's socket, woken     *)
(* through three channels of capacity one.                                 *)
(*                                                                         *)
(* A section under the mailbox's lock is one step, and so is a select.     *)
(***************************************************************************)
EXTENDS Integers, Sequences

CONSTANTS
    Segments,   \* start times (T0) of the segments the plugin reports
    Gap,        \* stands in for the segment in a gap notice
    MaxEvents,  \* bound: no segment is received once so many messages were made
    MaxGaps     \* bound: gap notices

VARIABLES
    offered,    \* messages put to the mailbox so far; numbers them
    gaps,       \* gap notices among them
    relay,      \* the goroutine at sess.Recv: its step and its message
    finalized,  \* streamingSegmentRelayState.finalizedByT0
    segments,   \* finals in transcript_segments, oldest first
    partial,    \* mailbox: the pending partial
    finals,     \* mailbox: the pending finals
    closed,     \* mailbox: close has been called
    wake,       \* wake channels that hold a signal
    closers,    \* how far the two callers of close have got
    writer,     \* runWriter: its step, its message, and whether its timer runs
    written     \* messages on the client's socket

vars == <<offered, gaps, relay, finalized, segments, partial, finals, closed,
          wake, closers, writer, written>>

Message == [id: Nat, seg: Segments \cup {Gap}, final: BOOLEAN]
NoMessage == [id |-> 0, seg |-> Gap, final |-> FALSE]

RelaySteps == {"recv", "persist", "enqueue", "over"}
WriterSteps == {"priority", "closedAndEmpty", "hasPartial", "await",
                "takePartial", "idle", "recheck", "write", "over"}

\* close is called once by the relay when the plugin ends the session, and once
\* by closeAll, which goes on to close session and socket.
CloserSteps == {"open", "closing", "closed"}

TypeOK ==
    /\ offered \in Nat /\ gaps \in Nat
    /\ relay \in [pc: RelaySteps, msg: Message]
    /\ finalized \in SUBSET Segments
    /\ segments \in Seq(Segments)
    /\ partial \in Message
    /\ finals \in Seq(Message)
    /\ closed \in BOOLEAN
    /\ wake \in SUBSET {"partial", "final", "close"}
    /\ closers \in [{"relay", "closeAll"} -> CloserSteps]
    /\ writer \in [pc: WriterSteps, msg: Message, timer: BOOLEAN]
    /\ written \in Seq(Message)
    /\ partial.final = FALSE
    /\ \A i \in DOMAIN finals : finals[i].final

Init ==
    /\ offered = 0 /\ gaps = 0
    /\ relay = [pc |-> "recv", msg |-> NoMessage]
    /\ finalized = {}
    /\ segments = << >>
    /\ partial = NoMessage
    /\ finals = << >>
    /\ closed = FALSE
    /\ wake = {}
    /\ closers = [c \in {"relay", "closeAll"} |-> "open"]
    /\ writer = [pc |-> "priority", msg |-> NoMessage, timer |-> FALSE]
    /\ written = << >>

SocketOpen == closers["closeAll"] # "closed" /\ writer.pc # "over"

-----------------------------------------------------------------------------
(* The mailbox.                                                            *)

\* A final displaces the pending partial; a partial displaces an older one,
\* and is itself dropped behind a pending final.
Enqueue(m) ==
    IF m.final
    THEN /\ finals' = Append(finals, m)
         /\ partial' = NoMessage
         /\ wake' = wake \cup {"final"}
    ELSE /\ partial' = IF finals = << >> THEN m ELSE partial
         /\ wake' = IF finals = << >> THEN wake \cup {"partial"} ELSE wake
         /\ UNCHANGED finals

ClosedAndEmpty == closed /\ finals = << >> /\ partial = NoMessage

\* Mutation: the wake-up is sent before the flag is set.
CloseSignalFirst(c) ==
    \/ /\ closers[c] = "open"
       /\ closers' = [closers EXCEPT ![c] = "closing"]
       /\ wake' = wake \cup {"close"}
       /\ UNCHANGED closed
    \/ /\ closers[c] = "closing"
       /\ closers' = [closers EXCEPT ![c] = "closed"]
       /\ closed' = TRUE
       /\ UNCHANGED wake

\* close: the flag under the lock, then, without it, the wake-up.
Close(c) ==
    \/ /\ closers[c] = "open"
       /\ closers' = [closers EXCEPT ![c] = "closing"]
       /\ closed' = TRUE
       /\ UNCHANGED wake
    \/ /\ closers[c] = "closing"
       /\ closers' = [closers EXCEPT ![c] = "closed"]
       /\ wake' = wake \cup {"close"}
       /\ UNCHANGED closed

\* Who calls closeAll is inside closeAllOnce or finds it done.
BeginCloseAll ==
    IF closers["closeAll"] = "open"
    THEN Close("closeAll")
    ELSE UNCHANGED <<closers, closed, wake>>

-----------------------------------------------------------------------------
(* Plugin -> client and persistence.                                       *)

\* Once a segment is final, whatever else comes for it is passed over.
ShouldRelay(seg, final) ==
    /\ seg \notin finalized
    /\ finalized' = IF final THEN finalized \cup {seg} ELSE finalized

Recv(seg, final) ==
    /\ relay.pc = "recv" /\ SocketOpen
    /\ offered < MaxEvents
    /\ ShouldRelay(seg, final)
    /\ relay' = [pc |-> IF final THEN "persist" ELSE "enqueue",
                 msg |-> [id |-> 0, seg |-> seg, final |-> final]]
    /\ UNCHANGED <<offered, gaps, segments, partial, finals, closed, wake, closers, writer, written>>

\* Mutation: the final goes to the client whether or not it was stored.
AppendStreamSegmentUnchecked ==
    /\ relay.pc = "persist"
    /\ segments' \in {segments, Append(segments, relay.msg.seg)}
    /\ relay' = [relay EXCEPT !.pc = "enqueue"]
    /\ UNCHANGED <<closers, closed, wake>>
    /\ UNCHANGED <<offered, gaps, finalized, partial, finals, writer, written>>

\* AppendStreamSegment and SetNotePartialTranscript.  The first is refused once
\* another transcript supersedes the stream's; either may fail.
AppendStreamSegment ==
    /\ relay.pc = "persist"
    /\ \/ /\ segments' = Append(segments, relay.msg.seg)
          /\ relay' = [relay EXCEPT !.pc = "enqueue"]
          /\ UNCHANGED <<closers, closed, wake>>
       \/ /\ segments' \in {segments, Append(segments, relay.msg.seg)}
          /\ relay' = [relay EXCEPT !.pc = "over"]
          /\ BeginCloseAll
    /\ UNCHANGED <<offered, gaps, finalized, partial, finals, writer, written>>

RelayEnqueue ==
    /\ relay.pc = "enqueue"
    /\ Enqueue([relay.msg EXCEPT !.id = offered + 1])
    /\ relay' = [pc |-> "recv", msg |-> NoMessage]
    /\ offered' = offered + 1
    /\ UNCHANGED <<gaps, finalized, segments, closed, closers, writer, written>>

\* The plugin ends the session in good order, or not.
RecvEnds ==
    /\ relay.pc = "recv"
    /\ relay' = [relay EXCEPT !.pc = "over"]
    /\ Close("relay") \/ BeginCloseAll
    /\ UNCHANGED <<offered, gaps, finalized, segments, partial, finals, writer, written>>

-----------------------------------------------------------------------------
(* The goroutines of the audio half.                                       *)

\* resolveStreamDropRun, by the reader: a gap notice is sent as a final.
EnqueueGap ==
    /\ gaps < MaxGaps
    /\ offered' = offered + 1
    /\ gaps' = gaps + 1
    /\ Enqueue([id |-> offered + 1, seg |-> Gap, final |-> TRUE])
    /\ UNCHANGED <<relay, finalized, segments, closed, closers, writer, written>>

\* One of them gives the stream up.
CloseAll ==
    /\ closers["closeAll"] = "open"
    /\ Close("closeAll")
    /\ UNCHANGED <<offered, gaps, relay, finalized, segments, partial, finals, writer, written>>

\* The rest of a close that has begun.
FinishClose(c) ==
    /\ closers[c] = "closing"
    /\ Close(c)
    /\ UNCHANGED <<offered, gaps, relay, finalized, segments, partial, finals, writer, written>>

-----------------------------------------------------------------------------
(* Mailbox -> client: runWriter.                                           *)

Goto(pc) == writer' = [writer EXCEPT !.pc = pc]
GotoStopTimer(pc) == writer' = [writer EXCEPT !.pc = pc, !.timer = FALSE]

NextPriority ==
    /\ writer.pc = "priority"
    /\ IF finals # << >>
       THEN /\ writer' = [pc |-> "write", msg |-> Head(finals), timer |-> FALSE]
            /\ finals' = Tail(finals)
       ELSE Goto("closedAndEmpty") /\ UNCHANGED finals
    /\ UNCHANGED <<partial, wake>>

CheckClosedAndEmpty ==
    /\ writer.pc = "closedAndEmpty"
    /\ IF ClosedAndEmpty THEN GotoStopTimer("over") ELSE Goto("hasPartial")
    /\ UNCHANGED <<partial, finals, wake>>

HasPendingPartial ==
    /\ writer.pc = "hasPartial"
    /\ IF partial # NoMessage
       THEN writer' = [writer EXCEPT !.pc = "await", !.timer = TRUE]
       ELSE GotoStopTimer("idle")
    /\ UNCHANGED <<partial, finals, wake>>

\* The select with the debounce timer.
Await ==
    /\ writer.pc = "await"
    /\ \/ \E w \in wake \cap {"final", "close"} :
            wake' = wake \ {w} /\ GotoStopTimer("priority")
       \/ "partial" \in wake /\ wake' = wake \ {"partial"} /\ Goto("priority")
       \/ writer.timer /\ Goto("takePartial") /\ UNCHANGED wake
    /\ UNCHANGED <<partial, finals>>

\* The timer has fired: the partial is written unless a final overtook it.
NextWritablePartial ==
    /\ writer.pc = "takePartial"
    /\ IF finals = << >> /\ partial # NoMessage
       THEN /\ writer' = [pc |-> "write", msg |-> partial, timer |-> FALSE]
            /\ partial' = NoMessage
       ELSE GotoStopTimer("priority") /\ UNCHANGED partial
    /\ UNCHANGED <<finals, wake>>

\* The select with nothing pending.
Idle ==
    /\ writer.pc = "idle"
    /\ \/ \E w \in wake \cap {"final", "partial"} :
            wake' = wake \ {w} /\ Goto("priority")
       \/ "close" \in wake /\ wake' = wake \ {"close"} /\ Goto("recheck")
    /\ UNCHANGED <<partial, finals>>

Recheck ==
    /\ writer.pc = "recheck"
    /\ Goto(IF ClosedAndEmpty THEN "over" ELSE "priority")
    /\ UNCHANGED <<partial, finals, wake>>

\* The mailbox steps of the loop: nothing but the mailbox and the loop's own
\* state changes.
WriterLoop ==
    /\ \/ NextPriority
       \/ CheckClosedAndEmpty
       \/ HasPendingPartial
       \/ Await
       \/ NextWritablePartial
       \/ Idle
       \/ Recheck
    /\ UNCHANGED <<offered, gaps, relay, finalized, segments, closed, closers, written>>

Write ==
    /\ writer.pc = "write" /\ SocketOpen
    /\ written' = Append(written, writer.msg)
    /\ writer' = [writer EXCEPT !.pc = "priority", !.msg = NoMessage]
    /\ UNCHANGED <<offered, gaps, relay, finalized, segments, partial, finals, closed,
                   wake, closers>>

\* The client is gone, or closeAll has closed the socket.
WriteFails ==
    /\ writer.pc = "write"
    /\ writer' = [writer EXCEPT !.pc = "over"]
    /\ BeginCloseAll
    /\ UNCHANGED <<offered, gaps, relay, finalized, segments, partial, finals, written>>

-----------------------------------------------------------------------------
RelayStep == AppendStreamSegment \/ RelayEnqueue

WriterStep == WriterLoop \/ Write \/ WriteFails

Next ==
    \/ \E seg \in Segments, final \in BOOLEAN : Recv(seg, final)
    \/ RelayStep
    \/ RecvEnds
    \/ EnqueueGap
    \/ CloseAll
    \/ \E c \in {"relay", "closeAll"} : FinishClose(c)
    \/ WriterStep

Spec == Init /\ [][Next]_vars

\* Goroutines that can run do run.  Nothing obliges the plugin to send, the
\* client to stay or anybody to close.
Fairness ==
    /\ WF_vars(RelayStep)
    /\ \A c \in {"relay", "closeAll"} : WF_vars(FinishClose(c))
    /\ WF_vars(WriterStep)

FairSpec == Spec /\ Fairness

-----------------------------------------------------------------------------
(* Properties.                                                             *)

ShownFinals ==
    LET final(m) == m.final /\ m.seg # Gap
    IN  SelectSeq(written, final)

\* The finals the client has seen are a prefix of those stored: none is shown
\* that is not stored, none is skipped, none overtakes another; and messages
\* come in the order they were made, so that no stale partial follows a final,
\* and none is shown for a segment once its final was.
ShownFinalsAreStored ==
    /\ TypeOK
    /\ Len(ShownFinals) <= Len(segments)
    /\ \A i \in DOMAIN ShownFinals : ShownFinals[i].seg = segments[i]
    /\ \A i, j \in DOMAIN written :
          i < j => /\ written[i].id < written[j].id
                   /\ written[i].final /\ written[i].seg # Gap => written[j].seg # written[i].seg

\* A writer that sleeps on an empty mailbox has been woken for every final that
\* came since, though one signal stands for any number of them.
NoLostWakeUp == writer.pc = "idle" /\ finals # << >> => wake # {}

\* No final waits for a writer that sleeps, and a closed mailbox lets its writer
\* go, whatever wake-ups it has slept through; handleNoteStream waits for it.
WriterEnds == []NoLostWakeUp /\ (closed ~> writer.pc = "over")
=============================================================================
