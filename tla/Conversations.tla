--------------------------- MODULE Conversations ----------------------------
(* Conversations about notes: ordinary turns (api/chat.go) and analyses      *)
(* across meetings (api/cross_analysis.go), the store calls they make and    *)
(* the guard that keeps the turns of one conversation apart.                 *)
(*                                                                           *)
(* A send is a handler of the one API process; its steps are its store and   *)
(* plugin calls, and any of them may fail.  A snapshot is read by several    *)
(* statements (LoadCrossAnalysisSnapshot), while transcripts are replaced,   *)
(* notes go through the trash and the administrator changes the agent.       *)
EXTENDS Naturals, Sequences

CONSTANTS
    Notes,          \* the notes an analysis is asked about
    Conversations,
    Sends,          \* handlers that may be under way at once
    Agents,         \* configurations of a default agent plugin
    Admitting,      \* those with a usable admission config
    NoAgent, NoNote, NoConversation,
    MaxSends, MaxChanges, MaxFaults

ASSUME ConstantsAssumption ==
    /\ Admitting \subseteq Agents /\ NoAgent \notin Agents
    /\ NoConversation \notin Conversations
    /\ MaxChanges \in Nat

VARIABLES
    note,       \* state, whether ready and complete, generation of the transcript
    agent,      \* the enabled default agent plugin
    conv,       \* conversation rows with their messages, in the order of insertion
    send,       \* the handlers
    guard,      \* chatSendGuard: conversations with a send in flight
    bounds      \* what has been used up

vars == <<note, agent, conv, send, guard, bounds>>

\* A cited row: its generation, and whether its segments were still there to be read.
SnapRow == [gen : 0..(MaxChanges + 1), held : BOOLEAN]

\* turn and at identify the request and the transaction (whose start is created_at);
\* known is the history behind an answer, agent what wrote it, held the notes whose
\* segments an analysis has as its sources.
Message == [role : {"user", "assistant"}, kind : {"chat", "cross"}, turn : Nat, at : Nat,
            known : Nat, agent : Agents, held : SUBSET Notes]

Idle == [pc |-> "idle", kind |-> "chat", new |-> FALSE, conv |-> NoConversation, holds |-> FALSE,
         untitled |-> FALSE, turn |-> 0, known |-> 0, agent |-> NoAgent,
         snap |-> [n \in Notes |-> [gen |-> 0, held |-> FALSE]]]

Init ==
    /\ note = [n \in Notes |-> [state |-> "live", ready |-> TRUE, gen |-> 1]]
    /\ agent \in Admitting \cup {NoAgent}
    /\ conv = [c \in Conversations |-> [state |-> "unborn", note |-> NoNote, titled |-> FALSE,
                                        messages |-> <<>>]]
    /\ send = [s \in Sends |-> Idle]
    /\ guard = {}
    /\ bounds = [sends |-> 0, changes |-> 0, faults |-> 0]

Live(c) == c \in Conversations /\ conv[c].state = "live"
Messages(c) == conv[c].messages

-----------------------------------------------------------------------------
(* Steps of a handler.  Leave is a return: the deferred release included.    *)

Leave(s) ==
    /\ send' = [send EXCEPT ![s] = Idle]
    /\ guard' = IF send[s].holds THEN guard \ {send[s].conv} ELSE guard

Goto(s, pc) == send' = [send EXCEPT ![s].pc = pc] /\ UNCHANGED guard

\* Every send in turn gets a number.
Admitted(s) ==
    /\ send[s].pc = "idle" /\ bounds.sends < MaxSends
    /\ bounds' = [bounds EXCEPT !.sends = @ + 1]

HandleSendMessage(s, c, kind) ==
    /\ Admitted(s) /\ Live(c)
    /\ send' = [send EXCEPT ![s] = [Idle EXCEPT !.pc = "guard", !.kind = kind, !.conv = c,
                                    !.untitled = ~conv[c].titled, !.turn = bounds'.sends]]
    /\ UNCHANGED <<note, agent, conv, guard>>

CreateConversation(c, n, titled) ==
    /\ conv[c].state = "unborn"
    /\ n # NoNote => note[n].state = "live"
    /\ conv' = [conv EXCEPT ![c] = [state |-> "live", note |-> n, titled |-> titled,
                                    messages |-> <<>>]]

HandleCreateConversation(c, n, titled) ==
    CreateConversation(c, n, titled) /\ UNCHANGED <<note, agent, send, guard, bounds>>

HandleCreateAndSend(s, c, n, titled) ==
    /\ Admitted(s)
    /\ CreateConversation(c, n, titled)
    /\ send' = [send EXCEPT ![s] = [Idle EXCEPT !.pc = "guard", !.conv = c, !.untitled = ~titled,
                                    !.turn = bounds'.sends]]
    /\ UNCHANGED <<note, agent, guard>>

\* The preflight comes first: there is no conversation yet.
HandleCreateAndSendCrossAnalysis(s, titled) ==
    /\ Admitted(s)
    /\ send' = [send EXCEPT ![s] = [Idle EXCEPT !.pc = "notes", !.kind = "cross", !.new = TRUE,
                                    !.untitled = ~titled, !.turn = bounds'.sends]]
    /\ UNCHANGED <<note, agent, conv, guard>>

\* Mutation: whether the key was there already is not looked at.
TryAcquireAlways(s) ==
    LET next == IF send[s].kind = "chat" THEN "history"
                ELSE IF send[s].new THEN "verify" ELSE "notes" IN
    /\ send[s].pc = "guard"
    /\ guard' = guard \cup {send[s].conv}
    /\ send' = [send EXCEPT ![s].pc = next, ![s].holds = TRUE]
    /\ UNCHANGED <<note, agent, conv, bounds>>

\* chatSendGuard.tryAcquire: a conversation with a send in flight refuses another (409).
TryAcquire(s) ==
    LET c == send[s].conv
        next == IF send[s].kind = "chat" THEN "history"
                ELSE IF send[s].new THEN "verify" ELSE "notes" IN
    /\ send[s].pc = "guard"
    /\ IF c \in guard THEN Leave(s)
       ELSE /\ guard' = guard \cup {c}
            /\ send' = [send EXCEPT ![s].pc = next, ![s].holds = TRUE]
    /\ UNCHANGED <<note, agent, conv, bounds>>

-----------------------------------------------------------------------------
(* sendChatMessage                                                           *)

\* chatSources and ListMessages: what the prompt is made of.
ReadHistory(s) ==
    /\ send[s].pc = "history"
    /\ IF Live(send[s].conv)
       THEN /\ send' = [send EXCEPT ![s].pc = "agent",
                                    ![s].known = Len(Messages(send[s].conv))]
            /\ UNCHANGED guard
       ELSE Leave(s)
    /\ UNCHANGED <<note, agent, conv, bounds>>

ResolveAgent(s) ==
    /\ send[s].pc = "agent"
    /\ IF agent = NoAgent THEN Leave(s)
       ELSE send' = [send EXCEPT ![s].pc = "generate", ![s].agent = agent] /\ UNCHANGED guard
    /\ UNCHANGED <<note, agent, conv, bounds>>

\* The plugin answers, or fails; the sections of an analysis are validated.
Generate(s) ==
    /\ send[s].pc = "generate"
    /\ Goto(s, IF send[s].kind = "chat" THEN "user" ELSE "list") \/ Leave(s)
    /\ UNCHANGED <<note, agent, conv, bounds>>

NewMessage(s, role, at) ==
    [role |-> role, kind |-> send[s].kind, turn |-> send[s].turn, at |-> at,
     known |-> send[s].known, agent |-> send[s].agent,
     held |-> {n \in Notes : role = "assistant" /\ send[s].snap[n].held}]

\* created_at of the next transaction.
Now(c) ==
    LET m == Messages(c) IN IF m = <<>> THEN 1 ELSE m[Len(m)].at + 1

\* One message, in a transaction of its own; the row of its conversation must be there.
AppendMessage(s, role) ==
    LET c == send[s].conv IN
    /\ Live(c)
    /\ conv' = [conv EXCEPT ![c].messages = Append(@, NewMessage(s, role, Now(c)))]

AppendUserMessage(s) ==
    /\ send[s].pc = "user"
    /\ \/ AppendMessage(s, "user") /\ Goto(s, "assistant")
       \/ ~Live(send[s].conv) /\ Leave(s) /\ UNCHANGED conv
    /\ UNCHANGED <<note, agent, bounds>>

\* The first exchange of a conversation without a title goes on to give it one.
Answered(s) ==
    IF send[s].known = 0 /\ send[s].untitled THEN Goto(s, "title") ELSE Leave(s)

AppendAssistantMessage(s) ==
    /\ send[s].pc = "assistant"
    /\ \/ AppendMessage(s, "assistant") /\ Answered(s)
       \/ ~Live(send[s].conv) /\ Leave(s) /\ UNCHANGED conv
    /\ UNCHANGED <<note, agent, bounds>>

\* One more call of the plugin, which may fail, and SetConversationTitleIfEmpty.
GenerateConversationTitle(s) ==
    LET c == send[s].conv IN
    /\ send[s].pc = "title"
    /\ \/ UNCHANGED conv
       \/ Live(c) /\ conv' = [conv EXCEPT ![c].titled = TRUE]
    /\ Leave(s)
    /\ UNCHANGED <<note, agent, bounds>>

-----------------------------------------------------------------------------
(* preflightCrossDocuments, for a template of phase cross and distinct notes *)
(* within the limit: LoadCrossAnalysisSnapshot in three statements, then the *)
(* default agent and admission.                                              *)

\* The note rows: all there, ready and not partial; a scoped conversation is refused.
ReadNotes(s) ==
    LET scoped == ~send[s].new /\ conv[send[s].conv].note # NoNote IN
    /\ send[s].pc = "notes"
    /\ IF ~scoped /\ \A n \in Notes : note[n].state = "live" /\ note[n].ready
       THEN Goto(s, "transcripts") ELSE Leave(s)
    /\ UNCHANGED <<note, agent, conv, bounds>>

\* The transcript rows, by note: a purged note has none.
ReadTranscripts(s) ==
    /\ send[s].pc = "transcripts"
    /\ IF \A n \in Notes : note[n].state # "purged"
       THEN /\ send' = [send EXCEPT ![s].pc = "segments",
                  ![s].snap = [n \in Notes |-> [gen |-> note[n].gen, held |-> FALSE]]]
            /\ UNCHANGED guard
       ELSE Leave(s)
    /\ UNCHANGED <<note, agent, conv, bounds>>

\* The transcript a snapshot saw is still the note's.
Stands(s, n) == note[n].state # "purged" /\ note[n].gen = send[s].snap[n].gen

\* The segments, by transcript: those of a replaced transcript are gone, without an error.
ReadSegments(s) ==
    /\ send[s].pc = "segments"
    /\ send' = [send EXCEPT ![s].pc = "admit",
          ![s].snap = [n \in Notes |-> [gen |-> send[s].snap[n].gen, held |-> Stands(s, n)]]]
    /\ UNCHANGED <<note, agent, conv, guard, bounds>>

\* ParseAdmissionConfig fails closed: a plugin that does not declare its context, its
\* reserves and its tokenizer admits nothing.
ParseAdmissionConfig(a) == a \in Admitting

\* DefaultPlugin, ParseAdmissionConfig and execution.Admit: the documents may be too much for any
\* agent.  With no agent at all, a request that creates its conversation creates it all
\* the same, and answers the error then.
Admit(s) ==
    /\ send[s].pc = "admit"
    /\ \/ /\ ParseAdmissionConfig(agent) \/ (agent = NoAgent /\ send[s].new)
          /\ send' = [send EXCEPT ![s].agent = agent,
                                  ![s].pc = IF send[s].new THEN "create" ELSE "verify"]
          /\ UNCHANGED guard
       \/ (agent = NoAgent => ~send[s].new) /\ Leave(s)
    /\ UNCHANGED <<note, agent, conv, bounds>>

CreateForCrossAnalysis(s, c) ==
    /\ send[s].pc = "create"
    /\ CreateConversation(c, NoNote, ~send[s].untitled)
    /\ IF send[s].agent = NoAgent THEN Leave(s)
       ELSE send' = [send EXCEPT ![s].pc = "guard", ![s].conv = c] /\ UNCHANGED guard
    /\ UNCHANGED <<note, agent, bounds>>

-----------------------------------------------------------------------------
(* invokeCrossAnalysis                                                       *)

\* Mutation: the snapshot is taken for one.
VerifyNothing(s) == TRUE

VerifyCrossAnalysisGenerations(s) == \A n \in Notes : Stands(s, n)

Verify(s) ==
    /\ send[s].pc = "verify"
    /\ IF VerifyCrossAnalysisGenerations(s) THEN Goto(s, "recheck") ELSE Leave(s)
    /\ UNCHANGED <<note, agent, conv, bounds>>

\* The agent must be the one admitted, its configuration included.
RecheckAgent(s) ==
    /\ send[s].pc = "recheck"
    /\ IF ParseAdmissionConfig(agent) /\ agent = send[s].agent
       THEN Goto(s, "generate") ELSE Leave(s)
    /\ UNCHANGED <<note, agent, conv, bounds>>

ListMessages(s) ==
    /\ send[s].pc = "list"
    /\ IF Live(send[s].conv)
       THEN /\ send' = [send EXCEPT ![s].pc = "turn",
                                    ![s].known = Len(Messages(send[s].conv))]
            /\ UNCHANGED guard
       ELSE Leave(s)
    /\ UNCHANGED <<note, agent, conv, bounds>>

\* Both messages and every source in one transaction.  A source refers to its note.
AppendCrossAnalysisTurn(s) ==
    LET c == send[s].conv
        kept == Live(c) /\ \A n \in Notes : send[s].snap[n].held => note[n].state # "purged" IN
    /\ send[s].pc = "turn"
    /\ \/ /\ kept
          /\ conv' = [conv EXCEPT ![c].messages =
                        @ \o <<NewMessage(s, "user", Now(c)), NewMessage(s, "assistant", Now(c))>>]
          /\ Answered(s)
       \/ ~kept /\ Leave(s) /\ UNCHANGED conv
    /\ UNCHANGED <<note, agent, bounds>>

-----------------------------------------------------------------------------
(* What else happens                                                         *)

\* A call of a handler fails, or its client goes away.
Fail(s) ==
    /\ send[s].pc # "idle" /\ bounds.faults < MaxFaults
    /\ bounds' = [bounds EXCEPT !.faults = @ + 1]
    /\ Leave(s)
    /\ UNCHANGED <<note, agent, conv>>

\* The server stops and starts again: its handlers and the guard are gone.
Restart ==
    /\ bounds.faults < MaxFaults /\ \E s \in Sends : send[s].pc # "idle"
    /\ bounds' = [bounds EXCEPT !.faults = @ + 1]
    /\ send' = [s \in Sends |-> Idle]
    /\ guard' = {}
    /\ UNCHANGED <<note, agent, conv>>

Change ==
    /\ bounds.changes < MaxChanges
    /\ bounds' = [bounds EXCEPT !.changes = @ + 1]
    /\ UNCHANGED <<send, guard>>

\* A conversation goes with its messages and their sources.
DeleteConversation(c) ==
    /\ Change /\ Live(c)
    /\ conv' = [conv EXCEPT ![c].state = "deleted", ![c].messages = <<>>]
    /\ UNCHANGED <<note, agent>>

\* SaveTranscript and CreateStreamTranscript delete the row and insert its successor; the
\* note may or may not be ready with it.
ReplaceTranscript(n, ready) ==
    /\ Change /\ note[n].state # "purged"
    /\ note' = [note EXCEPT ![n].gen = @ + 1, ![n].ready = ready]
    /\ UNCHANGED <<agent, conv>>

TrashNote(n) ==
    /\ Change /\ note[n].state = "live"
    /\ note' = [note EXCEPT ![n].state = "trashed"]
    /\ UNCHANGED <<agent, conv>>

RestoreNote(n) ==
    /\ note[n].state = "trashed"
    /\ note' = [note EXCEPT ![n].state = "live"]
    /\ UNCHANGED <<agent, conv, send, guard, bounds>>

\* The note's transcript and its conversations go, sources that cite it stay.
PurgeNote(n) ==
    /\ note[n].state = "trashed"
    /\ note' = [note EXCEPT ![n].state = "purged"]
    /\ conv' = [c \in Conversations |->
                  IF conv[c].note = n THEN [conv[c] EXCEPT !.state = "deleted", !.messages = <<>>]
                  ELSE conv[c]]
    /\ UNCHANGED <<agent, send, guard, bounds>>

SetDefaultAgent(a) ==
    /\ Change /\ a # agent
    /\ agent' = a
    /\ UNCHANGED <<note, conv>>

ChatStep(s) ==
    \/ TryAcquire(s) \/ ReadHistory(s) \/ ResolveAgent(s) \/ Generate(s)
    \/ AppendUserMessage(s) \/ AppendAssistantMessage(s) \/ GenerateConversationTitle(s)

CrossStep(s) ==
    \/ ReadNotes(s) \/ ReadTranscripts(s) \/ ReadSegments(s) \/ Admit(s)
    \/ \E c \in Conversations : CreateForCrossAnalysis(s, c)
    \/ Verify(s) \/ RecheckAgent(s) \/ ListMessages(s) \/ AppendCrossAnalysisTurn(s)

Arrive(s) ==
    \/ \E c \in Conversations, kind \in {"chat", "cross"} : HandleSendMessage(s, c, kind)
    \/ \E c \in Conversations, n \in Notes \cup {NoNote}, titled \in BOOLEAN :
          HandleCreateAndSend(s, c, n, titled)
    \/ \E titled \in BOOLEAN : HandleCreateAndSendCrossAnalysis(s, titled)

Next ==
    \/ \E s \in Sends : Arrive(s) \/ ChatStep(s) \/ CrossStep(s) \/ Fail(s)
    \/ \E c \in Conversations, n \in Notes \cup {NoNote}, titled \in BOOLEAN :
          HandleCreateConversation(c, n, titled)
    \/ \E c \in Conversations : DeleteConversation(c)
    \/ \E n \in Notes, ready \in BOOLEAN : ReplaceTranscript(n, ready)
    \/ \E n \in Notes : TrashNote(n) \/ RestoreNote(n) \/ PurgeNote(n)
    \/ \E a \in Agents \cup {NoAgent} : SetDefaultAgent(a)
    \/ Restart

Spec == Init /\ [][Next]_vars

-----------------------------------------------------------------------------
TypeOK ==
    /\ note \in [Notes -> [state : {"live", "trashed", "purged"}, ready : BOOLEAN,
                           gen : 1..(MaxChanges + 1)]]
    /\ agent \in Agents \cup {NoAgent}
    /\ \A c \in Conversations :
          /\ conv[c].state \in {"unborn", "live", "deleted"}
          /\ conv[c].note \in Notes \cup {NoNote} /\ conv[c].titled \in BOOLEAN
          /\ conv[c].messages \in Seq(Message)
    /\ \A s \in Sends :
          /\ send[s].conv \in Conversations \cup {NoConversation}
          /\ send[s].agent \in Agents \cup {NoAgent}
          /\ send[s].snap \in [Notes -> SnapRow]
    /\ guard \subseteq Conversations

\* The guard of a conversation is held by one send that is under way, so none is locked out.
GuardIsHeld ==
    /\ guard = {send[s].conv : s \in {s \in Sends : send[s].holds}}
    /\ \A s, t \in Sends : send[s].holds /\ send[t].holds /\ send[s].conv = send[t].conv => s = t

\* An answer directly follows its own question, and in chat it was written in the
\* knowledge of everything said before that question: no other turn came in between the
\* read of the history (chat.go:158) and the two appends, which are separate transactions.
\* A turn that failed half way may have left its question without an answer.
AnsweredInContext ==
    /\ TypeOK /\ GuardIsHeld
    /\ \A c \in Conversations : \A i \in DOMAIN Messages(c) :
          LET m == Messages(c)[i] IN
          m.role = "assistant" =>
             /\ i > 1
             /\ Messages(c)[i - 1].role = "user" /\ Messages(c)[i - 1].turn = m.turn
             /\ m.known = i - 2

\* The analysis a conversation keeps is of all the meetings it was asked about, none of
\* them silently missing because its transcript was replaced between two reads of the
\* snapshot, and was written by an agent whose configuration was admitted
\* (cross_analysis.go:202 and 216).
AnalysedAsAdmitted ==
    \A c \in Conversations : \A i \in DOMAIN Messages(c) :
       LET m == Messages(c)[i] IN
       m.role = "assistant" /\ m.kind = "cross" => m.held = Notes /\ m.agent \in Admitting

\* "ListMessages returns a conversation's messages in chronological order"
\* (store/conversations.go:133): created_at, by which they are sorted, decides the order of
\* any two.
ListedInOrder ==
    \A c \in Conversations : \A i, j \in DOMAIN Messages(c) :
       i < j => Messages(c)[i].at < Messages(c)[j].at
=============================================================================
