----------------------------- MODULE MCEmbedded -----------------------------
(* Embedded with at most MaxTotal disturbances of any kinds in a behaviour. *)
EXTENDS Embedded

CONSTANT MaxTotal

Total(u) == u.kills + u.crashes + u.strangers + u.faults
MCNext == Next /\ Total(used') <= MaxTotal
MCSpec == Init /\ [][MCNext]_vars /\ Fairness
=============================================================================
