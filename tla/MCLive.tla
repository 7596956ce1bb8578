------------------------------- MODULE MCLive -------------------------------
(* Instances of LiveViewers.  A behaviour keeps the profile it starts with, *)
(* which says how much of each disturbance it may meet.                     *)
EXTENDS LiveViewers

VARIABLE profile

Limit(watch, edits, streams, faults, crashes, cancels, trash, lapse) ==
    [watch |-> watch, edits |-> edits, streams |-> streams, faults |-> faults,
     crashes |-> crashes, cancels |-> cancels, trash |-> trash, lapses |-> lapse]

Profiles ==
    [edit    |-> Limit(FALSE, 1, 1, 0, 0, 0, 0, 0),
     replace |-> Limit(FALSE, 0, 2, 1, 0, 0, 0, 0),
     disturb |-> Limit(FALSE, 0, 1, 1, 1, 1, 1, 0),
     watch   |-> Limit(TRUE, 0, 1, 0, 0, 0, 0, 1),
     remove  |-> Limit(TRUE, 0, 1, 0, 0, 0, 1, 0)]

Within ==
    LET l == Profiles[profile]
    IN /\ stream.last <= l.streams
       /\ bounds.edits <= l.edits /\ bounds.faults <= l.faults
       /\ bounds.crashes <= l.crashes /\ bounds.cancels <= l.cancels
       /\ bounds.trash <= l.trash /\ lapses <= l.lapses

MCInit ==
    /\ Init /\ ViewInit
    /\ profile \in DOMAIN Profiles
    /\ profile # "edit" => template = [t \in Templates |-> IF t = 1 THEN "during" ELSE "absent"]

MCNext ==
    /\ ViewNext
    /\ UNCHANGED profile
    /\ Within'
    /\ Profiles[profile].watch \/ UNCHANGED <<conn, sent, shown>>
    /\ profile \in {"replace", "watch", "remove"} => stream'.rev <= 1

MCSpec == MCInit /\ [][MCNext]_<<vars, viewVars, profile>> /\ Fairness /\ ViewFairness
=============================================================================
