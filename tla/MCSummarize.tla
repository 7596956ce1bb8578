---------------------------- MODULE MCSummarize -----------------------------
(* Summarize with two kinds of trouble kept apart.  "requests": the note is *)
(* ready and two requests of any kind run.  "disturbed": the transcribe job *)
(* has yet to fan out, one single-template request runs, and the note is    *)
(* trashed, or a process, a request or an administrator interferes, once.   *)
EXTENDS Summarize

CONSTANTS h1, h2, j1, j2, j3

MCHandlers == {h1, h2}
MCJobs == {j1, j2, j3}

VARIABLE scenario

mcvars == <<vars, scenario>>

\* Interchangeable ids are used in order.
InOrder ==
    /\ handler[h2].pc # "new" => handler[h1].pc # "new"
    /\ ~Fresh(j2) => ~Fresh(j1)
    /\ ~Fresh(j3) => ~Fresh(j2)

Requests == Fresh(j3) /\ Undisturbed

Disturbed ==
    /\ handler[h1].kind \in {"none", "template"} /\ handler[h2].pc = "new"
    /\ bounds.faults + bounds.admin + bounds.trash <= 1

MCInit == Init /\ scenario = IF fanout THEN "disturbed" ELSE "requests"

MCNext ==
    /\ Next /\ InOrder' /\ UNCHANGED scenario
    /\ IF scenario = "requests" THEN Requests' ELSE Disturbed'

MCSpec ==
    /\ MCInit /\ [][MCNext]_mcvars
    /\ \A w \in Workers : WF_vars(WorkerStep(w))
    /\ \A h \in Handlers : WF_vars(HandlerStep(h))
=============================================================================
