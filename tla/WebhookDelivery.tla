-------------------------- MODULE WebhookDelivery ---------------------------
(***************************************************************************)
(* Delivery of note.completed webhooks: the webhook_deliveries table       *)
(* (internal/store/webhooks.go) and the DeliveryWorker of every server     *)
(* process (internal/webhook/deliver.go).                                  *)
(*                                                                         *)
(* A worker lists due rows once per poll and then dispatches that list row *)
(* by row, so the attempts it decides by are those of the listing, however *)
(* long ago that was.  Of time only what is compared is kept: whether a    *)
(* row's next_attempt_at has passed.                                       *)
(***************************************************************************)
EXTENDS Integers, FiniteSets

CONSTANTS
    Deliveries,   \* ids of the rows; they are created in ascending order
    Processes,    \* server processes, each with one DeliveryWorker
    MaxAttempts,  \* the rows' max_attempts
    BatchLimit,   \* rows listed by one poll
    MaxStops,     \* bound: process deaths
    MaxLost,      \* bound: writes that settle or requeue a row and fail
    MaxRetries    \* bound: manual retries

VARIABLES
    delivery,  \* the webhook_deliveries table
    worker,    \* the DeliveryWorker of each process
    stops,     \* process deaths so far
    lost,      \* failed writes of the workers so far
    retries    \* manual retries so far

vars == <<delivery, worker, stops, lost, retries>>

Statuses == {"absent", "pending", "in_flight", "delivered", "failed"}

\* due: next_attempt_at is null or has passed.
Row == [status: Statuses, attempts: Nat, due: BOOLEAN]

\* A row as it was when the worker listed it.
Listed == [id: Deliveries, attempts: Nat]

\* claim: before ClaimDelivery of the batch's next row.  post: between the
\* claim and the response.  sent, fail, give-up: which write settles it.
Worker == [pc: {"down", "idle", "claim", "post", "sent", "fail", "give-up"},
           batch: SUBSET Listed]

Busy == {"post", "sent", "fail", "give-up"}

TypeOK ==
    /\ delivery \in [Deliveries -> Row]
    /\ worker \in [Processes -> Worker]
    /\ \A p \in Processes : worker[p].pc \in Busy => worker[p].batch # {}
    /\ stops \in 0..MaxStops /\ lost \in 0..MaxLost
    /\ retries \in 0..MaxRetries

Polling == [pc |-> "idle", batch |-> {}]

Init ==
    /\ delivery = [d \in Deliveries |-> [status |-> "absent", attempts |-> 0, due |-> TRUE]]
    /\ worker = [p \in Processes |-> Polling]
    /\ stops = 0 /\ lost = 0 /\ retries = 0

-----------------------------------------------------------------------------
(* FinalizeNote and the admin view.                                        *)

CreateDelivery(d) ==
    /\ delivery[d].status = "absent"
    /\ \A e \in Deliveries : e < d => delivery[e].status # "absent"
    /\ delivery' = [delivery EXCEPT ![d].status = "pending"]
    /\ UNCHANGED <<worker, stops, lost, retries>>

\* One transaction under the row's lock; only a failed row changes.
RetryDelivery(d) ==
    /\ retries < MaxRetries
    /\ delivery[d].status = "failed"
    /\ delivery' = [delivery EXCEPT ![d] = [status |-> "pending", attempts |-> 0, due |-> TRUE]]
    /\ retries' = retries + 1
    /\ UNCHANGED <<worker, stops, lost>>

\* now() passes next_attempt_at.
BackoffElapses(d) ==
    /\ delivery[d].status = "pending" /\ ~delivery[d].due
    /\ delivery' = [delivery EXCEPT ![d].due = TRUE]
    /\ UNCHANGED <<worker, stops, lost, retries>>

-----------------------------------------------------------------------------
(* DeliveryWorker.                                                         *)

Due == {d \in Deliveries : delivery[d].status = "pending" /\ delivery[d].due}

\* The row locks of FOR UPDATE SKIP LOCKED end with the statement.
ListPendingDeliveries(p) ==
    LET first == {d \in Due : Cardinality({e \in Due : e < d}) < BatchLimit}
    IN  /\ worker[p].pc = "idle"
        /\ Due # {}
        /\ worker' = [worker EXCEPT ![p] = [@ EXCEPT !.pc = "claim",
                         !.batch = {[id |-> d, attempts |-> delivery[d].attempts] : d \in first}]]
        /\ UNCHANGED <<delivery, stops, lost, retries>>

\* The batch is dispatched in the order it was listed; a row leaves it once
\* it is settled or passed over.
Current(p) == CHOOSE d \in worker[p].batch : \A e \in worker[p].batch : d.id <= e.id

NextRow(p) == [pc |-> "claim", batch |-> worker[p].batch \ {Current(p)}]

\* Mutation: the row is checked but not marked.
ClaimDeliveryUnmarked(p) ==
    LET d == Current(p).id
        won == delivery[d].status = "pending"
    IN  /\ worker[p].pc = "claim" /\ worker[p].batch # {}
        /\ worker' = [worker EXCEPT ![p] = IF won THEN [@ EXCEPT !.pc = "post"] ELSE NextRow(p)]
        /\ UNCHANGED <<delivery, stops, lost, retries>>

\* A row that is no longer pending is passed over; one that is pending but no
\* longer due is claimed all the same.
ClaimDelivery(p) ==
    LET d == Current(p).id
        won == delivery[d].status = "pending"
    IN  /\ worker[p].pc = "claim" /\ worker[p].batch # {}
        /\ delivery' = [delivery EXCEPT ![d].status = IF won THEN "in_flight" ELSE @]
        /\ worker' = [worker EXCEPT ![p] = IF won THEN [@ EXCEPT !.pc = "post"] ELSE NextRow(p)]
        /\ UNCHANGED <<stops, lost, retries>>

BatchDone(p) ==
    /\ worker[p].pc = "claim" /\ worker[p].batch = {}
    /\ worker' = [worker EXCEPT ![p] = Polling]
    /\ UNCHANGED <<delivery, stops, lost, retries>>

LastAttempt(p) == Current(p).attempts + 1 >= MaxAttempts

\* Load the webhook, validate its URL, POST, read the status: a 2xx, a failure
\* worth a retry (fail gives up on the last attempt), or a URL refused for good.
Dispatch(p) ==
    /\ worker[p].pc = "post"
    /\ \E outcome \in {"sent", IF LastAttempt(p) THEN "give-up" ELSE "fail", "give-up"} :
          worker' = [worker EXCEPT ![p].pc = outcome]
    /\ UNCHANGED <<delivery, stops, lost, retries>>

MarkDelivered(p) ==
    /\ worker[p].pc = "sent"
    /\ delivery' = [delivery EXCEPT ![Current(p).id].status = "delivered"]
    /\ worker' = [worker EXCEPT ![p] = NextRow(p)]
    /\ UNCHANGED <<stops, lost, retries>>

\* Both forms of MarkFailed update by id and count the attempt in the row.
MarkFailed(p) ==
    LET d == Current(p).id
        requeue == worker[p].pc = "fail"
    IN  /\ worker[p].pc \in {"fail", "give-up"}
        /\ delivery' = [delivery EXCEPT ![d] =
                            [status |-> IF requeue THEN "pending" ELSE "failed",
                             attempts |-> @.attempts + 1, due |-> ~requeue]]
        /\ worker' = [worker EXCEPT ![p] = NextRow(p)]
        /\ UNCHANGED <<stops, lost, retries>>

\* MarkDelivered or MarkFailed returns an error, which is logged: the row stays
\* in_flight and the worker goes on.
SettleFails(p) ==
    /\ worker[p].pc \in {"sent", "fail", "give-up"} /\ lost < MaxLost
    /\ lost' = lost + 1
    /\ worker' = [worker EXCEPT ![p] = NextRow(p)]
    /\ UNCHANGED <<delivery, stops, retries>>

-----------------------------------------------------------------------------
(* Process lifetimes.                                                      *)

\* The process ends: killed, or its context is cancelled mid-request.
Stop(p) ==
    /\ worker[p].pc # "down" /\ stops < MaxStops
    /\ stops' = stops + 1
    /\ worker' = [worker EXCEPT ![p] = [Polling EXCEPT !.pc = "down"]]
    /\ UNCHANGED <<delivery, lost, retries>>

\* Mutation: Run goes straight to the poll loop.
RunWithoutReset(p) ==
    /\ worker[p].pc = "down"
    /\ worker' = [worker EXCEPT ![p] = Polling]
    /\ UNCHANGED <<delivery, stops, lost, retries>>

\* Run: ResetInflightDeliveries requeues every in_flight row, whoever holds it.
Run(p) ==
    /\ worker[p].pc = "down"
    /\ delivery' = [d \in Deliveries |-> [delivery[d] EXCEPT
                        !.status = IF @ = "in_flight" THEN "pending" ELSE @]]
    /\ worker' = [worker EXCEPT ![p] = Polling]
    /\ UNCHANGED <<stops, lost, retries>>

\* Run whose reset fails, which is only logged: what was in flight stays so, until some
\* process is started again.
ResetFails(p) ==
    /\ worker[p].pc = "down" /\ lost < MaxLost
    /\ lost' = lost + 1
    /\ worker' = [worker EXCEPT ![p] = Polling]
    /\ UNCHANGED <<delivery, stops, retries>>

-----------------------------------------------------------------------------
WorkerStep(p) ==
    \/ ListPendingDeliveries(p)
    \/ ClaimDelivery(p)
    \/ BatchDone(p)
    \/ Dispatch(p)
    \/ MarkDelivered(p)
    \/ MarkFailed(p)

Next ==
    \/ \E d \in Deliveries : CreateDelivery(d)
    \/ \E d \in Deliveries : RetryDelivery(d)
    \/ \E d \in Deliveries : BackoffElapses(d)
    \/ \E p \in Processes : WorkerStep(p)
    \/ \E p \in Processes : SettleFails(p)
    \/ \E p \in Processes : Stop(p)
    \/ \E p \in Processes : Run(p)
    \/ \E p \in Processes : ResetFails(p)

Spec == Init /\ [][Next]_vars

\* The poll loop runs until shutdown, a stopped server is started again, and
\* time passes.
Fairness ==
    /\ \A p \in Processes : WF_vars(WorkerStep(p)) /\ WF_vars(Run(p))
    /\ \A d \in Deliveries : WF_vars(BackoffElapses(d))

FairSpec == Spec /\ Fairness

-----------------------------------------------------------------------------
(* Properties.                                                             *)

Holds(p, d) ==
    worker[p].pc \in Busy /\ Current(p).id = d

\* ClaimDelivery marks a row in_flight "so only one worker processes it",
\* although every worker may have it in a batch it listed earlier.  (Until a
\* process is started: Run requeues the rows that others hold.)
OneDispatcher ==
    /\ TypeOK
    /\ stops = 0 => \A p, q \in Processes, d \in Deliveries :
                        Holds(p, d) /\ Holds(q, d) => p = q

\* Every delivery is in the end delivered or failed for good, across restarts
\* that interrupt it in flight and whoever else delivers, as long as no write
\* that settles one, or requeues them at a start, is lost.
DeliverySettles ==
    \A d \in Deliveries :
        delivery[d].status = "pending" /\ lost = 0
            ~> delivery[d].status \in {"delivered", "failed"} \/ lost > 0
=============================================================================
