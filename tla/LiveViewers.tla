---------------------------- MODULE LiveViewers -----------------------------
(***************************************************************************)
(* The viewers of a note's live prompts (internal/api/live_prompts.go,     *)
(* internal/store/live_notifications.go and live_subscriptions.go), on top *)
(* of the rows of LiveOutputs: admission by expiring leases, a one-item    *)
(* mailbox per connection woken by LISTEN/NOTIFY, and rereads that send    *)
(* what changed since the connection's last one.                           *)
(*                                                                         *)
(* A connection id is used once.  The API processes share the database     *)
(* only; which of them serves a connection does not matter here.           *)
(***************************************************************************)
EXTENDS LiveOutputs

CONSTANTS
    Connections,     \* connection ids
    MaxSubscribers,  \* MaxLiveNoteSubscribers
    MaxLapses        \* bound: leases that run out, and processes that die

VARIABLES
    conn,   \* per connection: the pc of its handler (new, admitted, registered,
            \* serving, closed), its lease (none, held, expired), its mailbox
    sent,   \* the handler's map of event versions, 0 for none
    shown,  \* the cards the client displays
    lapses  \* leases that ran out and handlers that died so far

viewVars == <<conn, sent, shown, lapses>>

\* A card: what toLiveSnapshotItem copies of a row.
Card(o) == [status |-> o.status, rendered |-> o.rendered, desired |-> o.desired]
NoCard == Card(NoRow)

Nothing == [r \in Rows |-> 0]
Blank == [r \in Rows |-> NoCard]

\* listVisibleLiveTemplateOutputsTx; LiveNoteSnapshot reads it in one snapshot.
ListVisible == {r \in Rows : row[r].visible}

ViewInit ==
    /\ conn = [c \in Connections |-> [pc |-> "new", lease |-> "none", mailbox |-> FALSE]]
    /\ sent = [c \in Connections |-> Nothing]
    /\ shown = [c \in Connections |-> Blank]
    /\ lapses = 0

\* The handler returns: its deferred unregister and release.
Returned(c) == [conn EXCEPT ![c] = [pc |-> "closed", lease |-> "none", mailbox |-> FALSE]]

\* AcquireLiveNoteSubscription, under the lock of the note's capacity row:
\* expired leases are deleted, then the rest are counted.
AcquireLiveNoteSubscription(c, admitted, refused) ==
    LET kept == {d \in Connections : conn[d].lease = "held"}
    IN conn' = [d \in Connections |->
          IF d = c THEN IF Cardinality(kept) < MaxSubscribers THEN admitted ELSE refused
          ELSE IF conn[d].lease = "expired" THEN [conn[d] EXCEPT !.lease = "none"]
          ELSE conn[d]]

\* The start of handleLiveNotePrompts: 404 for a note in the trash, 429 at
\* capacity.
HandleLiveNotePrompts(c) ==
    /\ conn[c].pc = "new" /\ ~trashed
    /\ AcquireLiveNoteSubscription(c,
          [pc |-> "admitted", lease |-> "held", mailbox |-> FALSE],
          [pc |-> "closed", lease |-> "none", mailbox |-> FALSE])
    /\ UNCHANGED <<sent, shown, lapses>>

\* hub.register: from here on a wake reaches the mailbox.
Register(c) ==
    /\ conn[c].pc = "admitted"
    /\ conn' = [conn EXCEPT ![c].pc = "registered"]
    /\ UNCHANGED <<sent, shown, lapses>>

\* The handler's first read, sent as the snapshot event.
Snapshot(c) ==
    /\ conn[c].pc = "registered"
    /\ IF trashed
       THEN conn' = Returned(c) /\ UNCHANGED <<sent, shown>>
       ELSE /\ conn' = [conn EXCEPT ![c].pc = "serving"]
            /\ sent' = [sent EXCEPT ![c] =
                  [r \in Rows |-> IF r \in ListVisible THEN row[r].version ELSE 0]]
            /\ shown' = [shown EXCEPT ![c] =
                  [r \in Rows |-> IF r \in ListVisible THEN Card(row[r]) ELSE NoCard]]
    /\ UNCHANGED lapses

\* hub.wake for a notification the LISTEN connection received; a mailbox that
\* holds a wake already is left alone.
Wake ==
    /\ notified
    /\ notified' = FALSE
    /\ conn' = [c \in Connections |->
          IF conn[c].pc \in {"registered", "serving"}
          THEN [conn[c] EXCEPT !.mailbox = TRUE] ELSE conn[c]]
    /\ UNCHANGED <<template, stream, trashed, row, job, worker, bounds, sent, shown, lapses>>

\* A notification sent while listenOnce has no connection reaches nobody.
LoseNotification ==
    /\ notified
    /\ notified' = FALSE
    /\ UNCHANGED <<template, stream, trashed, row, job, worker, bounds, viewVars>>

\* reread: endAll and out for a note in the trash, else an ended event for
\* every card that has gone and an update for every row of another version.
Reread(c) ==
    IF trashed
    THEN /\ conn' = Returned(c)
         /\ shown' = [shown EXCEPT ![c] = Blank]
         /\ sent' = [sent EXCEPT ![c] = Nothing]
    ELSE /\ conn' = [conn EXCEPT ![c].mailbox = FALSE]
         /\ shown' = [shown EXCEPT ![c] = [r \in Rows |->
               IF r \notin ListVisible THEN NoCard
               ELSE IF sent[c][r] # row[r].version THEN Card(row[r]) ELSE shown[c][r]]]
         /\ sent' = [sent EXCEPT ![c] =
               [r \in Rows |-> IF r \in ListVisible THEN row[r].version ELSE 0]]

WakeReread(c) ==
    /\ conn[c].pc = "serving" /\ conn[c].mailbox
    /\ Reread(c)
    /\ UNCHANGED lapses

\* Mutation: the heartbeat only writes its event.
HeartbeatOnly(c) == conn[c].pc = "serving" /\ UNCHANGED <<conn, sent, shown, lapses>>

Heartbeat(c) ==
    /\ conn[c].pc = "serving"
    /\ Reread(c)
    /\ UNCHANGED lapses

\* The renewal tick.  RenewLiveNoteSubscription updates the lease row whether
\* it has expired or not; without a row the handler returns.
RenewLiveNoteSubscription(c) ==
    /\ conn[c].pc = "serving"
    /\ conn' = IF conn[c].lease = "none" THEN Returned(c)
               ELSE [conn EXCEPT ![c].lease = "held"]
    /\ UNCHANGED <<sent, shown, lapses>>

\* The client goes away and ReleaseLiveNoteSubscription follows.
Disconnect(c) ==
    /\ conn[c].pc \in {"admitted", "registered", "serving"}
    /\ conn' = Returned(c)
    /\ UNCHANGED <<sent, shown, lapses>>

\* liveSubscriberLeaseTTL passes without a renewal: the handler's process is
\* gone, or its renewals did not come through.
LeaseExpires(c) ==
    /\ conn[c].lease = "held" /\ lapses < MaxLapses
    /\ conn' = [conn EXCEPT ![c].lease = "expired"]
    /\ lapses' = lapses + 1
    /\ UNCHANGED <<sent, shown>>

\* The process dies: its leases stay.
HandlerDies(c) ==
    /\ conn[c].pc \in {"admitted", "registered", "serving"} /\ lapses < MaxLapses
    /\ conn' = [conn EXCEPT ![c].pc = "closed", ![c].mailbox = FALSE]
    /\ lapses' = lapses + 1
    /\ UNCHANGED <<sent, shown>>

-----------------------------------------------------------------------------

HandlerStep(c) == Register(c) \/ Snapshot(c) \/ WakeReread(c)

ViewNext ==
    \/ Next /\ UNCHANGED viewVars
    \/ Wake \/ LoseNotification
    \/ /\ \E c \in Connections :
             \/ HandleLiveNotePrompts(c) \/ HandlerStep(c) \/ Heartbeat(c)
             \/ RenewLiveNoteSubscription(c) \/ Disconnect(c)
             \/ LeaseExpires(c) \/ HandlerDies(c)
       /\ UNCHANGED vars

ViewSpec == Init /\ ViewInit /\ [][ViewNext]_<<vars, viewVars>>

\* The handler's select loop serves its mailbox and its two tickers; nothing
\* is assumed of the notifications.
ViewFairness ==
    \A c \in Connections :
        /\ WF_<<vars, viewVars>>(HandlerStep(c) /\ UNCHANGED vars)
        /\ WF_<<vars, viewVars>>(Heartbeat(c) /\ UNCHANGED vars)
        /\ WF_<<vars, viewVars>>(RenewLiveNoteSubscription(c) /\ UNCHANGED vars)

-----------------------------------------------------------------------------
(* Properties.                                                             *)

\* Once the note is left alone its viewers hold a lease and show its visible
\* rows as they are, and nobody watches a note in the trash, however many
\* notifications were lost and leases given away: the heartbeat's reread and
\* the renewal repair it.  (A row that is removed and inserted again restarts
\* its event version, and a viewer that saw neither may take it for the old
\* one: after template edits, or a trash and a restore, this need not hold.)
ViewerConverges ==
    []<>(\A c \in Connections : conn[c].pc = "serving" =>
            /\ ~trashed /\ conn[c].lease # "none"
            /\ \A r \in Rows :
                  shown[c][r] = IF row[r].visible THEN Card(row[r]) ELSE NoCard)
=============================================================================
