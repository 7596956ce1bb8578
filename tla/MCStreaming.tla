----------------------------- MODULE MCStreaming ----------------------------
(* The live stream: its audio half (AudioBuffer), its client half           *)
(* (OutboundMailbox), and the live prompts and their viewers (MCLive).  The *)
(* halves share no state that these properties are about; a behaviour is of *)
(* one of the three.                                                        *)
EXTENDS AudioBuffer

CONSTANTS
    Segments, Gap, MaxEvents, MaxGaps,
    Templates, MaxLive, Jobs, Workers, MaxJobAttempts, MaxRev, MaxStreams, MaxEdits,
    MaxFaults, MaxCrashes, MaxCancels, MaxTrash, Connections, MaxSubscribers, MaxLapses

VARIABLES
    part,
    offered, notices, relay, finalized, segments, partial, finals, ended, wake, closers,
    sender, written,
    template, stream, trashed, row, job, worker, notified, bounds, conn, versions, shown,
    lapses, profile

Mailbox == INSTANCE OutboundMailbox WITH gaps <- notices, closed <- ended, writer <- sender
Live == INSTANCE MCLive WITH sent <- versions

\* The bounds are numbers, no job has the id that stands for none, and there are enough
\* ids: rows that need a job find one each that no other row and no worker refers to.
ASSUME StreamingAssumption ==
    /\ \A max \in {MaxRev, MaxStreams, MaxEdits, MaxFaults, MaxCrashes, MaxCancels, MaxTrash} :
          max \in Nat
    /\ 0 \notin Jobs
    /\ \A need \in SUBSET Live!Rows : \A held \in [Workers -> Jobs \cup {0}] :
          \A active \in [Live!Rows \ need -> Jobs \cup {0}] :
             \E f \in [need -> Jobs] :
                /\ \A q, r \in need : f[q] = f[r] => q = r
                /\ \A r \in need : /\ \A w \in Workers : held[w] # f[r]
                                   /\ \A o \in Live!Rows \ need : active[o] # f[r]

mailVars == <<offered, notices, relay, finalized, segments, partial, finals, ended, wake,
              closers, sender, written>>
liveVars == <<template, stream, trashed, row, job, worker, notified, bounds, conn, versions,
              shown, lapses, profile>>
mcvars == <<vars, mailVars, liveVars, part>>

MCInit ==
    /\ Init /\ Mailbox!Init /\ Live!MCInit
    /\ part \in {"audio", "mailbox", "live"}
    /\ part # "live" => profile = "watch"

MCNext ==
    /\ UNCHANGED part
    /\ \/ part = "audio" /\ Next /\ UNCHANGED <<mailVars, liveVars>>
       \/ part = "mailbox" /\ Mailbox!Next /\ UNCHANGED <<vars, liveVars>>
       \/ part = "live" /\ Live!MCNext /\ UNCHANGED <<vars, mailVars>>

\* The fairness of OutboundMailbox, whose writer has a step to take at once.
MailFairness ==
    /\ WF_mailVars(part = "mailbox" /\ Mailbox!RelayStep)
    /\ \A c \in {"relay", "closeAll"} : WF_mailVars(part = "mailbox" /\ Mailbox!FinishClose(c))
    /\ WF_mailVars(part = "mailbox" /\ Mailbox!WriterStep)

MCSpec ==
    MCInit /\ [][MCNext]_mcvars
        /\ MailFairness /\ Live!Fairness /\ Live!ViewFairness

\* Of OutboundMailbox: shown finals are stored ones, in order.
ShownFinalsAreStored == Mailbox!ShownFinalsAreStored

\* Of OutboundMailbox: no wake-up is lost, and a closed mailbox lets its writer go.
WriterEnds == []Mailbox!NoLostWakeUp /\ (part = "mailbox" /\ ended ~> sender.pc = "over")

\* Of LiveOutputs: no late answer is shown for an earlier stream or template, and a row
\* never has two jobs under way.
VisibleIsCurrent == Live!VisibleIsCurrent

\* Of LiveOutputs: demand is met and leftovers are swept.
DemandIsServed == Live!DemandIsServed

\* Of LiveViewers: viewers come to show what is there.
ViewerConverges == Live!ViewerConverges
=============================================================================
