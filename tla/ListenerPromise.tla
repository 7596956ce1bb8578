-------------------------- MODULE ListenerPromise --------------------------
(***************************************************************************)
(* What the private listener for iOS clients promises, without locks,      *)
(* watchers or files: at most one address is served; it is given up only   *)
(* on request, with the pipe or the process, or after it really went       *)
(* missing, and then says so until the next request; a refused request     *)
(* leaves nothing half open; an address that stays away is not served for  *)
(* ever.  The promises are the comments of iosaccess.ListenerControl and   *)
(* ListenerController.Status.                                              *)
(***************************************************************************)
CONSTANT Pairs  \* eligible (interface, address) pairs

VARIABLES
    network,   \* the pairs the host has now
    open,      \* the pair being served, as a set of at most one
    unusable,  \* the last listener was closed because its address went away
    answer,    \* to the last request: "none" while it is being served
    missed,    \* the open pair has been missing, or could not be seen, since it was opened
    session    \* changes when the pipe or the process ends

vars == <<network, open, unusable, answer, missed, session>>

Init ==
    /\ network \in SUBSET Pairs
    /\ open = {} /\ unusable = FALSE /\ answer = "none" /\ missed = FALSE

Closing == open' = {} /\ missed' = FALSE

Move ==
    /\ network' \in SUBSET Pairs
    /\ missed' = (missed \/ ~(open \subseteq network'))
    /\ UNCHANGED <<open, unusable, answer, session>>

Doubt == open # {} /\ missed' = TRUE /\ UNCHANGED <<network, open, unusable, answer, session>>

Ask == answer' = "none" /\ UNCHANGED <<network, open, unusable, missed, session>>

Refuse == answer' = "error" /\ UNCHANGED <<network, open, unusable, missed, session>>

Close ==  \* only to serve a request, which may then succeed or not
    answer = "none" /\ Closing /\ answer' \in {"none", "error"} /\ UNCHANGED <<network, unusable, session>>

Open ==
    /\ answer = "none" /\ open = {}
    /\ \E p \in Pairs : open' = {p} /\ missed' = (p \notin network)
    /\ unusable' = FALSE /\ answer' = "ok"
    /\ UNCHANGED <<network, session>>

Stop ==  \* the request is to stop
    answer = "none" /\ Closing /\ unusable' = FALSE /\ answer' = "ok" /\ UNCHANGED <<network, session>>

Leave ==
    session' # session /\ Closing /\ unusable' = FALSE /\ answer' = "none" /\ UNCHANGED network

Vanish == missed /\ Closing /\ unusable' = TRUE /\ UNCHANGED <<network, answer, session>>

Next == Move \/ Doubt \/ Ask \/ Refuse \/ Close \/ Open \/ Stop \/ Leave \/ Vanish

NotServedForEver ==
    \A p \in Pairs : (p \in open /\ p \notin network) ~> (p \notin open \/ p \in network)

Spec == Init /\ [][Next]_vars /\ NotServedForEver
=============================================================================
