--------------------------- MODULE MCEventBriefs ----------------------------
(* Instances of EventBriefs.  A behaviour keeps the profile it starts with, *)
(* which says how much of each disturbance it may meet.                     *)
EXTENDS EventBriefs

VARIABLE profile

Limit(clk, edits, kicks, faults, settings, changes, crashes, admin) ==
    [clock |-> clk, edits |-> edits, kicks |-> kicks, faults |-> faults, settings |-> settings,
     changes |-> changes, crashes |-> crashes, admin |-> admin]

Profiles ==
    [edit     |-> Limit(0, 1, 0, 0, 0, 1, 0, 0),
     overlap  |-> Limit(0, 1, 1, 0, 0, 0, 0, 0),
     change   |-> Limit(0, 0, 0, 0, 0, 2, 0, 0),
     disturb  |-> Limit(0, 0, 0, 1, 0, 0, 1, 1),
     time     |-> Limit(2, 0, 0, 0, 1, 0, 0, 0),
     settings |-> Limit(0, 0, 1, 0, 1, 0, 0, 0)]

Within ==
    LET l == Profiles[profile]
    IN /\ clock <= l.clock /\ \A e \in Events : upstream[e].version <= l.edits + 1
       /\ used.kicks <= l.kicks /\ used.faults <= l.faults /\ used.settings <= l.settings
       /\ bounds.changes <= l.changes /\ bounds.crashes <= l.crashes /\ bounds.admin <= l.admin

\* The second event, of another calendar, is there where the selection matters.
MCInit ==
    /\ Init
    /\ profile \in DOMAIN Profiles
    /\ source.state = "none" <=> profile = "settings"
    /\ profile # "change" => \A t \in Templates : template[t].state = "on"
    /\ profile \in {"edit", "overlap", "change", "disturb"} => source.kind = "caldav"
    /\ profile = "settings" => source.kind \in {"google", "microsoft"}
    /\ profile = "time" => source.kind \in {"ics", "google"}
    /\ \A e \in Events : upstream[e].there <=> e \notin Shared \/ profile = "settings"
    /\ \A e \in Events : upstream[e].start = 1 \/ (profile \in {"edit", "time"} /\ e \notin Shared)

\* An edit may move an event past the briefs' horizon and past what is fetched; under
\* overlapping passes it may remove it instead.
Starts == IF profile = "edit" THEN {1, Horizon + 1, Lookahead + 1} ELSE {1}

\* Overlapping passes wait for a worker rather than fill the queue.
MCNext ==
    /\ Next
    /\ UNCHANGED profile
    /\ Within'
    /\ \A e \in Shared : upstream'[e] = upstream[e]
    /\ \A e \in Events : upstream'[e].start \in Starts \/ UNCHANGED upstream
    /\ profile = "overlap" => FreeJobs' # {}
    /\ profile \in {"edit", "overlap", "settings"} => \A w \in Workers : worker'[w].pc # "fail"

MCSpec == MCInit /\ [][MCNext]_<<vars, profile>> /\ Fairness
=============================================================================
