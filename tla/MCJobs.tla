------------------------------- MODULE MCJobs -------------------------------
(* The queues of the system: two jobs for two notes and two workers, two   *)
(* webhook deliveries between two processes, one of which dies or loses a  *)
(* write (or one delivery, and both), and the utterances that wait for a   *)
(* streaming plugin.  The queues do not meet; a behaviour is of one of     *)
(* them, and of the plugin's either a long session of one client           *)
(* ("session") or short ones ("clients").                                  *)
EXTENDS JobQueue, TLC

CONSTANTS
    j1, j2, n1, n2,
    Deliveries, Processes, MaxAttempts, BatchLimit, MaxStops, MaxLost, MaxRetries,
    Clients, MaxSessions, VADFrame, MaxWindow, PartialInterval, SilenceDuration,
    SilenceHysteresis, MaxPendingCommits, Chunks, MaxSamples, MaxLoadFailures

\* The bounds on what may go wrong with a delivery are natural numbers.
ASSUME BoundsAssumption == MaxStops \in Nat /\ MaxLost \in Nat /\ MaxRetries \in Nat

MCJobSet == {j1, j2}
MCNotes == {n1, n2}
MCNoteOf == j1 :> n1 @@ j2 :> n2

VARIABLES
    part, delivery, sender, stops, lost, retries,
    socket, handler, slots, model, loading, failures, session, told, stopping

Webhooks == INSTANCE WebhookDelivery WITH worker <- sender
Plugin == INSTANCE StreamingPlugin

hookVars == <<delivery, sender, stops, lost, retries>>
plugVars == <<socket, handler, slots, model, loading, failures, session, told, stopping>>
mcvars == <<vars, hookVars, plugVars, part>>

MCInit ==
    /\ Init /\ Webhooks!Init /\ Plugin!Init
    /\ part \in {"jobs", "webhooks", "session", "clients"}

\* One disturbance of two deliveries; or a stop and a lost write, for the first alone.
HookBound ==
    \/ stops' + lost' + retries' <= 1
    \/ retries' = 0 /\ \A d \in Deliveries : delivery'[d].status # "absent" => d = 1

\* A long session has its server to itself, and is not cut; a short one is of one
\* small chunk.
PluginBound ==
    \/ /\ part = "session" /\ ~stopping' /\ failures' = 0
       /\ \A c \in Clients : socket'[c] # "left"
       /\ Cardinality({c \in Clients : handler'[c] # "idle"}) <= 1
    \/ part = "clients" /\ Plugin!Sent' <= 3

MCNext ==
    /\ UNCHANGED part
    /\ \/ part = "jobs" /\ Next /\ UNCHANGED <<hookVars, plugVars>>
       \/ /\ part = "webhooks"
          /\ Webhooks!Next /\ HookBound
          /\ UNCHANGED <<vars, plugVars>>
       \/ /\ part \in {"session", "clients"}
          /\ Plugin!Next /\ PluginBound
          /\ UNCHANGED <<vars, hookVars>>

\* The fairness of StreamingPlugin.
PluginFairness ==
    /\ WF_plugVars(part \in {"session", "clients"} /\ Plugin!LoaderStep)
    /\ WF_plugVars(part \in {"session", "clients"} /\ \E c \in Clients : Plugin!HandlerStep(c))
    /\ WF_plugVars(/\ part \in {"session", "clients"}
                   /\ \E c \in Clients :
                         Plugin!Transcribed(c) \/ Plugin!HandOver(c) \/ Plugin!WatchShutdown(c))

MCSpec ==
    MCInit /\ [][MCNext]_mcvars /\ Fairness /\ Webhooks!Fairness /\ PluginFairness

\* One worker at most has a delivery in hand: OneDispatcher of WebhookDelivery.
OneDispatcher == Webhooks!OneDispatcher

\* Every delivery settles: DeliverySettles of WebhookDelivery.
DeliverySettles == Webhooks!DeliverySettles

\* Of StreamingPlugin: every sample of speech is in one final, in order.
SpeechIsCovered == Plugin!SpeechIsCovered

\* Of StreamingPlugin: slots come back and sessions start or end.
SlotsComeBack == Plugin!SlotsComeBack
=============================================================================
