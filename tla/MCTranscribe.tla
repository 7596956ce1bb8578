---------------------------- MODULE MCTranscribe ----------------------------
(* Transcribe where jobs, a live stream, reviews and faults meet two at a   *)
(* time: two jobs and a stream, two jobs and a review, a fault and one job  *)
(* with a stream or a review (two faults on an embedded server that keeps   *)
(* the audio, without a review).                                            *)
EXTENDS Transcribe, TLC, FiniteSets

Single == Cardinality({j \in Jobs : job[j].status # "absent"}) <= 1
Streamed == stream.started > 0
Reviewed == review.started > 0

MCNext ==
    /\ Next
    /\ ~Single' => config.discard /\ faults' = 0
    /\ Streamed' /\ Reviewed' => Single' /\ faults' = 0
    /\ faults' > 0 /\ Reviewed' => config.discard
    /\ faults' > 1 => ~config.discard /\ config.embedded
MCSpec == Init /\ [][MCNext]_vars

Symmetry == Permutations(Workers) \cup Permutations(Jobs) \cup Permutations(Keys)
=============================================================================
