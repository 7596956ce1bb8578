-------------------------- MODULE Notebook_proofs ---------------------------
(***************************************************************************)
(* Proofs about the specifications that MCNotebook holds: Conversations,   *)
(* for any notes, conversations, sends and agents and any number of faults *)
(* and changes; Library (Cabinet!), for any folders, users and requests;   *)
(* Notebook (Book!), for any notes, tags and titles; and People (Folk!),   *)
(* for any attendees, speakers and tasks.                                  *)
(*                                                                         *)
(* Whoever has the guard of a conversation is the only one to append to it *)
(* (Guards), so that what it has read of the history is still the whole of *)
(* it (Knows), unless the conversation was deleted, which nothing undoes.  *)
(* The statements of a snapshot may each see another state; but a          *)
(* transcript once replaced never comes back, so that a note whose         *)
(* segments were not there any more can be told by its generation (Seen).  *)
(*                                                                         *)
(* Folders stay a forest because a folder is only moved to one that is not *)
(* below it, as long as what was checked still holds (FolderInv).  A body  *)
(* is answered with its links because a mention that is sure is at every   *)
(* moment to be looked up, being linked, or linked (BookInv).  A merge of  *)
(* people finds its two rows because nobody else can delete the one it has *)
(* deleted, and it asks for the other last (FolkInv).                      *)
(***************************************************************************)
EXTENDS MCNotebook, FiniteSetTheorems, TLAPS

NoteRow == [state : {"live", "trashed", "purged"}, ready : BOOLEAN, gen : 1..(MaxChanges + 1)]

ConvRow == [state : {"unborn", "live", "deleted"}, note : Notes \cup {NoNote}, titled : BOOLEAN,
            messages : Seq(Message)]

\* The statements of a handler: of a chat, of a preflight and of an analysis.
Chat == {"history", "agent", "user", "assistant"}
Preflight == {"notes", "transcripts", "segments", "admit"}
Analysis == {"verify", "recheck", "list", "turn"}
Pcs == Chat \cup Preflight \cup Analysis \cup {"idle", "guard", "create", "generate", "title"}

SendState == [pc : Pcs, kind : {"chat", "cross"}, new : BOOLEAN,
              conv : Conversations \cup {NoConversation}, holds : BOOLEAN, untitled : BOOLEAN,
              turn : Nat, known : Nat, agent : Agents \cup {NoAgent}, snap : [Notes -> SnapRow]]

Types ==
    /\ note \in [Notes -> NoteRow]
    /\ agent \in Agents \cup {NoAgent}
    /\ conv \in [Conversations -> ConvRow]
    /\ send \in [Sends -> SendState]
    /\ guard \subseteq Conversations
    /\ bounds \in [sends : Nat, changes : Nat, faults : Nat] /\ bounds.changes <= MaxChanges
    /\ \A n \in Notes : note[n].gen <= bounds.changes + 1

\* Handler s has no conversation yet.
Homeless(s) == send[s].pc = "idle" \/ (send[s].new /\ send[s].pc \in Preflight \cup {"create"})

\* Which handlers have the guard of their conversation.
HoldsOK(s) ==
    /\ send[s].holds <=> send[s].pc # "guard" /\ ~Homeless(s)
    /\ ~Homeless(s) => send[s].conv \in Conversations /\ conv[send[s].conv].state # "unborn"
    /\ send[s].pc = "create" => send[s].new
    /\ send[s].pc \in Chat => send[s].kind = "chat"
    /\ send[s].pc \in Preflight \cup Analysis \cup {"create"} => send[s].kind = "cross"
    /\ send[s].new => send[s].kind = "cross"

\* A handler past its read of the history knows all of it.
Reading(s) ==
    send[s].pc \in {"agent", "user", "turn"} \/ (send[s].pc = "generate" /\ send[s].kind = "chat")
Knows(s) ==
    Live(send[s].conv) =>
       /\ Reading(s) => send[s].known = Len(Messages(send[s].conv))
       /\ send[s].pc = "assistant" =>
             /\ Len(Messages(send[s].conv)) = send[s].known + 1
             /\ Messages(send[s].conv)[send[s].known + 1].role = "user"
             /\ Messages(send[s].conv)[send[s].known + 1].turn = send[s].turn

\* A handler past RecheckAgent has an agent that was admitted, and one past
\* ResolveAgent has an agent.
Admits(s) ==
    /\ send[s].pc \in {"generate", "user", "assistant", "list", "turn"} => send[s].agent \in Agents
    /\ /\ send[s].pc \in {"generate", "list", "turn"} /\ send[s].kind = "cross"
       => send[s].agent \in Admitting

\* A note without its segments is not what it was, and one past Verify has them.
Seen(s) ==
    /\ \A n \in Notes : send[s].snap[n].gen <= note[n].gen
    /\ send[s].pc # "segments" => \A n \in Notes : send[s].snap[n].held \/ ~Stands(s, n)
    /\ \/ send[s].pc \in {"recheck", "list", "turn"}
       \/ send[s].pc = "generate" /\ send[s].kind = "cross"
       => \A n \in Notes : send[s].snap[n].held

SendOK(s) == HoldsOK(s) /\ Knows(s) /\ Admits(s) /\ Seen(s)

\* One handler has the guard of a conversation, and only when it is taken.
Guards ==
    /\ \A s \in Sends : send[s].holds => send[s].conv \in guard
    /\ \A c \in guard : \E s \in Sends : send[s].holds /\ send[s].conv = c
    /\ \A s, t \in Sends : send[s].holds /\ send[t].holds /\ send[s].conv = send[t].conv => s = t

\* What the properties say of the messages m of one conversation.
Kept(m) ==
    \A i \in 1..Len(m) : m[i].role = "assistant" =>
        /\ i > 1 /\ m[i - 1].role = "user" /\ m[i - 1].turn = m[i].turn
        /\ m[i].known = i - 2
        /\ m[i].kind = "cross" => m[i].held = Notes /\ m[i].agent \in Admitting

\* The inductive invariant.
Inv ==
    /\ Types
    /\ \A s \in Sends : SendOK(s)
    /\ Guards
    /\ \A c \in Conversations : Kept(Messages(c))

-----------------------------------------------------------------------------
(* What a step makes of a handler, of the conversations and of the notes.  *)

\* Handler s after a step that changes no other one.
SendAfter(s, r) ==
    /\ send' \in [Sends -> SendState]
    /\ \A t \in Sends : t # s => send'[t] = send[t]
    /\ send'[s] = r

\* A conversation is not unborn, and what is not deleted of it stays.
Keeps(d) ==
    conv[d].state # "unborn" =>
       /\ conv'[d].state # "unborn"
       /\ conv'[d].state = "live" =>
             conv[d].state = "live" /\ conv'[d].messages = conv[d].messages

\* A transcript once replaced, and a note once purged, does not come back.
NotesMove ==
    \A n \in Notes : /\ note'[n].gen >= note[n].gen
                     /\ note[n].state = "purged" => note'[n].state = "purged"

\* The types of everything but the handlers.
RowTypes ==
    /\ note \in [Notes -> NoteRow]
    /\ agent \in Agents \cup {NoAgent}
    /\ conv \in [Conversations -> ConvRow]
    /\ guard \subseteq Conversations
    /\ bounds \in [sends : Nat, changes : Nat, faults : Nat] /\ bounds.changes <= MaxChanges
    /\ \A n \in Notes : note[n].gen <= bounds.changes + 1

\* Types has them.
LEMMA TypesAre == Types <=> RowTypes /\ send \in [Sends -> SendState]
BY DEF Types, RowTypes

\* A handler that begins.
LEMMA IdleIs ==
    /\ Idle \in SendState /\ Idle.pc = "idle" /\ ~Idle.holds /\ Idle.kind = "chat"
    /\ ~Idle.new /\ Idle.conv = NoConversation
    /\ \A n \in Notes : Idle.snap[n].gen = 0
<1> DEFINE z == [n \in Notes |-> [gen |-> 0, held |-> FALSE]]
<1>1. 0 \in 0..(MaxChanges + 1)
  BY ConstantsAssumption
<1>2. z \in [Notes -> SnapRow] /\ \A n \in Notes : z[n].gen = 0
  BY <1>1 DEF SnapRow
<1>3. Idle = [pc |-> "idle", kind |-> "chat", new |-> FALSE, conv |-> NoConversation,
              holds |-> FALSE, untitled |-> FALSE, turn |-> 0, known |-> 0, agent |-> NoAgent,
              snap |-> z]
  BY DEF Idle
<1>4. "idle" \in Pcs
  BY DEF Pcs
<1> HIDE DEF z
<1> QED
  BY <1>2, <1>3, <1>4 DEF SendState

\* An idle handler relies on nothing.
LEMMA IdleOK ==
    ASSUME RowTypes', NEW t \in Sends, send'[t] = Idle
    PROVE  SendOK(t)'
<1>1. /\ send'[t].pc = "idle" /\ ~send'[t].holds /\ send'[t].kind = "chat" /\ ~send'[t].new
      /\ \A n \in Notes : send'[t].snap[n].gen = 0
  BY IdleIs
<1>2. HoldsOK(t)' /\ Knows(t)' /\ Admits(t)'
  BY <1>1 DEF HoldsOK, Homeless, Knows, Reading, Admits, Chat, Preflight, Analysis
<1>3. \A n \in Notes : note'[n].gen \in 1..(MaxChanges + 1)
  BY DEF RowTypes, NoteRow
<1>4. Seen(t)'
  BY <1>1, <1>3, ConstantsAssumption DEF Seen, Stands
<1> QED
  BY <1>2, <1>4 DEF SendOK

\* Handler t is not in the step.
LEMMA SendStays ==
    ASSUME Types, NEW t \in Sends, SendOK(t), RowTypes', send'[t] = send[t], NotesMove,
           ~Homeless(t) => /\ conv'[send[t].conv].state # "unborn"
                           /\ send[t].holds => Keeps(send[t].conv)
    PROVE  SendOK(t)'
<1>1. HoldsOK(t)'
  BY DEF SendOK, HoldsOK, Homeless
<1>2. Knows(t)'
  <2>1. CASE send[t].holds
    <3>1. /\ send[t].conv \in Conversations /\ conv[send[t].conv].state # "unborn"
          /\ Keeps(send[t].conv)
      BY <2>1 DEF SendOK, HoldsOK
    <3> QED
      BY <3>1 DEF SendOK, Knows, Reading, Live, Messages, Keeps
  <2>2. CASE ~send[t].holds
    <3>1. send[t].pc \in Preflight \cup {"idle", "guard", "create"}
      BY <2>2 DEF SendOK, HoldsOK, Homeless
    <3> QED
      BY <3>1 DEF Knows, Reading, Preflight
  <2> QED
    BY <2>1, <2>2
<1>3. Admits(t)'
  BY DEF SendOK, Admits
<1>4. Seen(t)'
  <2>1. \A n \in Notes : /\ send[t].snap[n].gen \in Nat
                         /\ note[n].gen \in Nat /\ note'[n].gen \in Nat
                         /\ note'[n].gen >= note[n].gen
                         /\ note[n].state = "purged" => note'[n].state = "purged"
    BY ConstantsAssumption DEF Types, RowTypes, NoteRow, SendState, SnapRow, NotesMove
  <2>2. \A n \in Notes : send[t].snap[n].gen <= note[n].gen
    BY DEF SendOK, Seen
  <2>3. \A n \in Notes : ~Stands(t, n) => ~Stands(t, n)'
    BY <2>1, <2>2 DEF Stands
  <2>4. \A n \in Notes : send'[t].snap[n].gen <= note'[n].gen
    BY <2>1, <2>2
  <2> QED
    BY <2>3, <2>4 DEF SendOK, Seen
<1> QED
  BY <1>1, <1>2, <1>3, <1>4 DEF SendOK

\* Handler s takes a step, and appends to its own conversation at most.
LEMMA SendKeeps ==
    ASSUME Inv, NEW s \in Sends, NEW r, SendAfter(s, r), RowTypes', NotesMove,
           \A d \in Conversations :
              Keeps(d) \/ (send[s].holds /\ send[s].conv = d /\ conv'[d].state # "unborn"),
           SendOK(s)', Guards', \A c \in Conversations : Kept(conv'[c].messages)
    PROVE  Inv'
<1>1. ASSUME NEW t \in Sends
      PROVE  SendOK(t)'
  <2>1. CASE t = s
    BY <2>1
  <2>2. CASE t # s
    <3>1. send'[t] = send[t] /\ SendOK(t) /\ Types
      BY <2>2 DEF SendAfter, Inv
    <3>2. send[t].holds => ~(send[s].holds /\ send[s].conv = send[t].conv)
      BY <2>2 DEF Inv, Guards
    <3>3. ~Homeless(t) => send[t].conv \in Conversations /\ conv[send[t].conv].state # "unborn"
      BY <3>1 DEF SendOK, HoldsOK
    <3>4. ~Homeless(t) => /\ conv'[send[t].conv].state # "unborn"
                          /\ send[t].holds => Keeps(send[t].conv)
      BY <3>2, <3>3 DEF Keeps
    <3> QED
      BY <3>1, <3>4, SendStays
  <2> QED
    BY <2>1, <2>2
<1>2. Types'
  BY TypesAre DEF SendAfter, Types, RowTypes
<1>3. \A c \in Conversations : Kept(Messages(c))'
  BY DEF Messages, Kept
<1> QED
  BY <1>1, <1>2, <1>3 DEF Inv

\* No handler takes a step.
LEMMA OutsideKeeps ==
    ASSUME Inv, UNCHANGED <<send, guard>>, RowTypes', NotesMove,
           \A d \in Conversations : Keeps(d), \A c \in Conversations : Kept(conv'[c].messages)
    PROVE  Inv'
<1>1. ASSUME NEW t \in Sends
      PROVE  SendOK(t)'
  <2>1. send'[t] = send[t] /\ SendOK(t) /\ Types
    BY DEF Inv
  <2>2. ~Homeless(t) => send[t].conv \in Conversations /\ conv[send[t].conv].state # "unborn"
    BY <2>1 DEF SendOK, HoldsOK
  <2>3. ~Homeless(t) => /\ conv'[send[t].conv].state # "unborn"
                        /\ send[t].holds => Keeps(send[t].conv)
    BY <2>2 DEF Keeps
  <2> QED
    BY <2>1, <2>3, SendStays
<1>2. Types'
  BY DEF Inv, Types, RowTypes
<1>3. \A c \in Conversations : Kept(Messages(c))'
  BY DEF Messages, Kept
<1>4. Guards'
  BY DEF Inv, Guards
<1> QED
  BY <1>1, <1>2, <1>3, <1>4 DEF Inv

-----------------------------------------------------------------------------
(* The guard.                                                              *)

\* Nobody takes or releases it.
LEMMA GuardStays ==
    ASSUME Inv, NEW s \in Sends, NEW r, SendAfter(s, r), UNCHANGED guard,
           r.holds = send[s].holds, send[s].holds => r.conv = send[s].conv
    PROVE  Guards'
BY DEF Inv, Guards, SendAfter

\* A return releases the guard of the handler's own conversation.
LEMMA GuardReleased ==
    ASSUME Inv, NEW s \in Sends, SendAfter(s, Idle),
           guard' = IF send[s].holds THEN guard \ {send[s].conv} ELSE guard
    PROVE  Guards'
<1>1. ~send'[s].holds /\ \A t \in Sends : t # s => send'[t] = send[t]
  BY IdleIs DEF SendAfter
<1>2. CASE send[s].holds
  BY <1>1, <1>2 DEF Inv, Guards
<1>3. CASE ~send[s].holds
  BY <1>1, <1>3 DEF Inv, Guards
<1> QED
  BY <1>2, <1>3

\* tryAcquire takes it when it is free.
LEMMA GuardTaken ==
    ASSUME Inv, NEW s \in Sends, NEW r, SendAfter(s, r), ~send[s].holds, r.holds,
           r.conv \notin guard, guard' = guard \cup {r.conv}
    PROVE  Guards'
<1>1. send'[s].holds /\ send'[s].conv = r.conv
  BY DEF SendAfter
<1>2. \A t \in Sends : t # s => send'[t] = send[t]
  BY DEF SendAfter
<1>3. \A t \in Sends : t # s /\ send[t].holds => send[t].conv # r.conv
  BY DEF Inv, Guards
<1>4. \A t \in Sends : send'[t].holds => send'[t].conv \in guard'
  BY <1>1, <1>2 DEF Inv, Guards
<1>5. \A c \in guard' : \E t \in Sends : send'[t].holds /\ send'[t].conv = c
  <2> TAKE c \in guard'
  <2>1. CASE c = r.conv
    BY <1>1, <2>1
  <2>2. CASE c # r.conv
    <3>1. PICK t \in Sends : send[t].holds /\ send[t].conv = c
      BY <2>2 DEF Inv, Guards
    <3> QED
      BY <1>2, <3>1
  <2> QED
    BY <2>1, <2>2
<1>6. \A t, u \in Sends :
         send'[t].holds /\ send'[u].holds /\ send'[t].conv = send'[u].conv => t = u
  BY <1>1, <1>2, <1>3 DEF Inv, Guards
<1> QED
  BY <1>4, <1>5, <1>6 DEF Guards

-----------------------------------------------------------------------------
(* Steps that leave the conversations alone.                               *)

\* The rows of the tables stay.
LEMMA RowsStay ==
    ASSUME Inv, UNCHANGED <<note, agent, conv>>, guard' \subseteq Conversations,
           bounds' \in [sends : Nat, changes : Nat, faults : Nat], bounds'.changes = bounds.changes
    PROVE  /\ RowTypes' /\ NotesMove
           /\ \A d \in Conversations : Keeps(d) /\ Kept(conv'[d].messages)
<1>1. RowTypes'
  BY DEF Inv, Types, RowTypes
<1>2. NotesMove
  <2>1. \A n \in Notes : note[n].gen \in Nat
    BY ConstantsAssumption DEF Inv, Types, NoteRow
  <2> QED
    BY <2>1 DEF NotesMove
<1>3. \A d \in Conversations : Keeps(d) /\ Kept(conv'[d].messages)
  BY DEF Inv, Keeps, Messages
<1> QED
  BY <1>1, <1>2, <1>3

\* A request is one more, or a fault.
LEMMA BoundsMove ==
    ASSUME Types,
           \/ UNCHANGED bounds
           \/ bounds' = [bounds EXCEPT !.sends = @ + 1]
           \/ bounds' = [bounds EXCEPT !.faults = @ + 1]
    PROVE  /\ bounds' \in [sends : Nat, changes : Nat, faults : Nat]
           /\ bounds'.changes = bounds.changes
BY DEF Types

\* The guard has conversations only.
LEMMA GuardTypes ==
    ASSUME Types, NEW s \in Sends, Leave(s) \/ UNCHANGED guard
    PROVE  guard' \subseteq Conversations
BY DEF Types, Leave

\* Leave.
LEMMA LeaveIs ==
    ASSUME Inv, NEW s \in Sends, Leave(s)
    PROVE  SendAfter(s, Idle) /\ Guards' /\ guard' \subseteq Conversations
<1>1. SendAfter(s, Idle)
  BY IdleIs DEF Leave, SendAfter, Inv, Types
<1>2. guard' \subseteq Conversations
  BY GuardTypes DEF Inv
<1>3. Guards'
  BY <1>1, GuardReleased DEF Leave
<1> QED
  BY <1>1, <1>2, <1>3

\* A return, with nothing written.
LEMMA LeaveKeeps ==
    ASSUME Inv, NEW s \in Sends, Leave(s), UNCHANGED <<note, agent, conv>>,
           \/ UNCHANGED bounds
           \/ bounds' = [bounds EXCEPT !.faults = @ + 1]
    PROVE  Inv'
<1>1. SendAfter(s, Idle) /\ Guards' /\ guard' \subseteq Conversations
  BY LeaveIs
<1>2. /\ bounds' \in [sends : Nat, changes : Nat, faults : Nat]
      /\ bounds'.changes = bounds.changes
  BY BoundsMove DEF Inv
<1>3. /\ RowTypes' /\ NotesMove
      /\ \A d \in Conversations : Keeps(d) /\ Kept(conv'[d].messages)
  BY <1>1, <1>2, RowsStay
<1>4. SendOK(s)'
  BY <1>1, <1>3, IdleOK DEF SendAfter
<1> QED
  BY <1>1, <1>3, <1>4, SendKeeps

\* Handler s becomes r, which is right, and has the guard it had.
LEMMA MoveKeeps ==
    ASSUME Inv, NEW s \in Sends, NEW r \in SendState, send' = [send EXCEPT ![s] = r],
           UNCHANGED <<note, agent, conv, guard>>,
           UNCHANGED bounds \/ bounds' = [bounds EXCEPT !.sends = @ + 1],
           r.holds = send[s].holds, send[s].holds => r.conv = send[s].conv,
           SendOK(s)'
    PROVE  Inv'
<1>1. SendAfter(s, r)
  BY DEF SendAfter, Inv, Types
<1>2. /\ bounds' \in [sends : Nat, changes : Nat, faults : Nat]
      /\ bounds'.changes = bounds.changes
  BY BoundsMove DEF Inv
<1>3. guard' \subseteq Conversations
  BY DEF Inv, Types
<1>4. /\ RowTypes' /\ NotesMove
      /\ \A d \in Conversations : Keeps(d) /\ Kept(conv'[d].messages)
  BY <1>2, <1>3, RowsStay
<1>5. Guards'
  BY <1>1, GuardStays
<1> QED
  BY <1>1, <1>4, <1>5, SendKeeps

\* Goto.
LEMMA GotoIs ==
    ASSUME Inv, NEW s \in Sends, NEW pc \in Pcs
    PROVE  LET r == [send[s] EXCEPT !.pc = pc]
           IN  /\ r \in SendState /\ r.pc = pc /\ r.kind = send[s].kind /\ r.new = send[s].new
               /\ r.conv = send[s].conv /\ r.holds = send[s].holds /\ r.turn = send[s].turn
               /\ r.known = send[s].known /\ r.agent = send[s].agent /\ r.snap = send[s].snap
BY DEF Inv, Types, SendState

\* Everything a handler relies on but its statement is as it was.
LEMMA GotoKeeps ==
    ASSUME Inv, NEW s \in Sends, NEW pc \in Pcs, Goto(s, pc),
           UNCHANGED <<note, agent, conv, bounds>>,
           send[s].pc \notin {"idle", "guard", "segments"}, pc \notin {"idle", "guard", "create"},
           send[s].new => (send[s].pc \in Preflight <=> pc \in Preflight),
           send[s].pc # "create",
           pc \in Chat => send[s].kind = "chat",
           pc \in Preflight \cup Analysis => send[s].kind = "cross",
           pc \in {"agent", "turn", "assistant"} => FALSE,
           pc = "user" => send[s].pc = "generate",
           pc = "generate" => send[s].kind = "cross" /\ send[s].agent \in Admitting,
           pc = "list" => send[s].pc = "generate",
           pc \in {"recheck", "generate", "list"} => \A n \in Notes : send[s].snap[n].held
    PROVE  Inv'
<1> DEFINE r == [send[s] EXCEPT !.pc = pc]
<1>1. /\ r \in SendState /\ r.pc = pc /\ r.kind = send[s].kind /\ r.new = send[s].new
      /\ r.conv = send[s].conv /\ r.holds = send[s].holds /\ r.turn = send[s].turn
      /\ r.known = send[s].known /\ r.agent = send[s].agent /\ r.snap = send[s].snap
  BY GotoIs
<1>2. send' = [send EXCEPT ![s] = r] /\ UNCHANGED guard /\ send \in [Sends -> SendState]
  BY DEF Goto, Inv, Types
<1> HIDE DEF r
<1>3. send'[s] = r
  BY <1>2
<1>4. SendOK(s)
  BY DEF Inv
<1>5. HoldsOK(s)'
  BY <1>1, <1>3, <1>4 DEF SendOK, HoldsOK, Homeless, Chat, Preflight, Analysis
<1>6. Knows(s)'
  <2>1. Knows(s) /\ (pc = "user" => send[s].kind = "chat")
    BY <1>4 DEF SendOK, Chat
  <2>2. Reading(s)' => Reading(s)
    BY <1>1, <1>3, <2>1 DEF Reading
  <2>3. send'[s].pc # "assistant"
    BY <1>1, <1>3
  <2> QED
    BY <1>1, <1>3, <2>1, <2>2, <2>3 DEF Knows, Live, Messages
<1>7. Admits(s)'
  BY <1>1, <1>3, <1>4, ConstantsAssumption DEF SendOK, Admits
<1>8. Seen(s)'
  BY <1>1, <1>3, <1>4 DEF SendOK, Seen, Stands
<1>9. SendOK(s)'
  BY <1>5, <1>6, <1>7, <1>8 DEF SendOK
<1> QED
  BY <1>1, <1>2, <1>9, MoveKeeps

\* Generate.
LEMMA GenerateKeeps ==
    ASSUME Inv, NEW s \in Sends, Generate(s)
    PROVE  Inv'
<1>1. send[s].pc = "generate" /\ UNCHANGED <<note, agent, conv, bounds>>
  BY DEF Generate
<1>2. CASE Leave(s)
  BY <1>1, <1>2, LeaveKeeps
<1>3. CASE Goto(s, IF send[s].kind = "chat" THEN "user" ELSE "list")
  <2>1. /\ SendOK(s) /\ send[s].kind \in {"chat", "cross"}
        /\ "user" \in Pcs /\ "list" \in Pcs
    BY DEF Inv, Types, SendState, Pcs, Chat, Analysis
  <2>2. /\ ~send[s].new \/ send[s].kind = "cross"
        /\ send[s].kind = "cross" => \A n \in Notes : send[s].snap[n].held
    BY <1>1, <2>1 DEF SendOK, HoldsOK, Seen
  <2>3. CASE send[s].kind = "chat"
    BY <1>1, <1>3, <2>1, <2>2, <2>3, GotoKeeps DEF Preflight, Analysis, Chat
  <2>4. CASE send[s].kind = "cross"
    BY <1>1, <1>3, <2>1, <2>2, <2>4, GotoKeeps DEF Preflight, Analysis, Chat
  <2> QED
    BY <2>1, <2>3, <2>4
<1> QED
  BY <1>2, <1>3 DEF Generate

\* ReadNotes.
LEMMA ReadNotesKeeps ==
    ASSUME Inv, NEW s \in Sends, ReadNotes(s)
    PROVE  Inv'
<1>1. send[s].pc = "notes" /\ UNCHANGED <<note, agent, conv, bounds>>
  BY DEF ReadNotes
<1>2. CASE Leave(s)
  BY <1>1, <1>2, LeaveKeeps
<1>3. CASE Goto(s, "transcripts")
  <2>1. send[s].kind = "cross" /\ "transcripts" \in Pcs
    BY <1>1 DEF Inv, SendOK, HoldsOK, Preflight, Pcs
  <2> QED
    BY <1>1, <1>3, <2>1, GotoKeeps DEF Preflight, Analysis, Chat
<1> QED
  BY <1>2, <1>3 DEF ReadNotes

\* Verify: no note has lost its segments.
LEMMA VerifyKeeps ==
    ASSUME Inv, NEW s \in Sends, Verify(s)
    PROVE  Inv'
<1>1. send[s].pc = "verify" /\ UNCHANGED <<note, agent, conv, bounds>>
  BY DEF Verify
<1>2. CASE Leave(s)
  BY <1>1, <1>2, LeaveKeeps
<1>3. CASE Goto(s, "recheck") /\ VerifyCrossAnalysisGenerations(s)
  <2>1. send[s].kind = "cross" /\ "recheck" \in Pcs
    BY <1>1 DEF Inv, SendOK, HoldsOK, Analysis, Pcs
  <2>2. \A n \in Notes : send[s].snap[n].held
    BY <1>1, <1>3 DEF Inv, SendOK, Seen, VerifyCrossAnalysisGenerations
  <2> QED
    BY <1>1, <1>3, <2>1, <2>2, GotoKeeps DEF Preflight, Analysis, Chat
<1> QED
  BY <1>2, <1>3 DEF Verify

\* RecheckAgent: the agent is the one that was admitted.
LEMMA RecheckAgentKeeps ==
    ASSUME Inv, NEW s \in Sends, RecheckAgent(s)
    PROVE  Inv'
<1>1. send[s].pc = "recheck" /\ UNCHANGED <<note, agent, conv, bounds>>
  BY DEF RecheckAgent
<1>2. CASE Leave(s)
  BY <1>1, <1>2, LeaveKeeps
<1>3. CASE Goto(s, "generate") /\ ParseAdmissionConfig(agent) /\ agent = send[s].agent
  <2>1. send[s].kind = "cross" /\ "generate" \in Pcs
    BY <1>1 DEF Inv, SendOK, HoldsOK, Analysis, Pcs
  <2>2. \A n \in Notes : send[s].snap[n].held
    BY <1>1 DEF Inv, SendOK, Seen
  <2>3. send[s].agent \in Admitting
    BY <1>3 DEF ParseAdmissionConfig
  <2> QED
    BY <1>1, <1>3, <2>1, <2>2, <2>3, GotoKeeps DEF Preflight, Analysis, Chat
<1> QED
  BY <1>2, <1>3 DEF RecheckAgent

\* Fail.
LEMMA FailKeeps ==
    ASSUME Inv, NEW s \in Sends, Fail(s)
    PROVE  Inv'
BY LeaveKeeps DEF Fail

\* TryAcquire: the guard is taken when it is free.
LEMMA TryAcquireKeeps ==
    ASSUME Inv, NEW s \in Sends, TryAcquire(s)
    PROVE  Inv'
<1> DEFINE next == IF send[s].kind = "chat" THEN "history"
                   ELSE IF send[s].new THEN "verify" ELSE "notes"
           r == [send[s] EXCEPT !.pc = next, !.holds = TRUE]
<1>1. send[s].pc = "guard" /\ UNCHANGED <<note, agent, conv, bounds>> /\ SendOK(s)
  BY DEF TryAcquire, Inv
<1>2. CASE Leave(s)
  BY <1>1, <1>2, LeaveKeeps
<1>3. CASE /\ send[s].conv \notin guard /\ guard' = guard \cup {send[s].conv}
           /\ send' = [send EXCEPT ![s].pc = next, ![s].holds = TRUE]
  <2>1. send \in [Sends -> SendState] /\ send[s] \in SendState /\ guard \subseteq Conversations
    BY DEF Inv, Types
  <2>2. /\ next \in Pcs /\ next \in {"history", "verify", "notes"}
        /\ next = "history" <=> send[s].kind = "chat"
        /\ next = "verify" => send[s].new
        /\ next = "notes" => ~send[s].new
    BY DEF Pcs, Chat, Preflight, Analysis
  <2> HIDE DEF next
  <2>3. /\ r \in SendState /\ r.pc = next /\ r.holds /\ r.kind = send[s].kind
        /\ r.new = send[s].new /\ r.conv = send[s].conv /\ r.snap = send[s].snap
    BY <2>1, <2>2 DEF SendState
  <2>4. send' = [send EXCEPT ![s] = r]
    BY <1>3, <2>1
  <2> HIDE DEF r
  <2>5. SendAfter(s, r)
    BY <2>1, <2>3, <2>4 DEF SendAfter
  <2>6. /\ ~send[s].holds /\ send[s].conv \in Conversations
        /\ conv[send[s].conv].state # "unborn" /\ Seen(s) /\ (send[s].new => send[s].kind = "cross")
        /\ send[s].kind \in {"chat", "cross"}
    BY <1>1, <2>1 DEF SendOK, HoldsOK, Homeless, Preflight, SendState
  <2>7. Guards'
    BY <1>3, <2>3, <2>5, <2>6, GuardTaken
  <2>8. guard' \subseteq Conversations
    BY <1>3, <2>1, <2>6
  <2>9. /\ bounds' \in [sends : Nat, changes : Nat, faults : Nat]
        /\ bounds'.changes = bounds.changes
    BY <1>1, BoundsMove DEF Inv
  <2>10. /\ RowTypes' /\ NotesMove
         /\ \A d \in Conversations : Keeps(d) /\ Kept(conv'[d].messages)
    BY <1>1, <2>8, <2>9, RowsStay
  <2>11. send'[s] = r
    BY <2>5 DEF SendAfter
  <2>12. HoldsOK(s)'
    BY <1>1, <2>2, <2>3, <2>6, <2>11 DEF HoldsOK, Homeless, Chat, Preflight, Analysis
  <2>13. Knows(s)' /\ Admits(s)'
    BY <2>2, <2>3, <2>11 DEF Knows, Reading, Admits
  <2>14. Seen(s)'
    BY <1>1, <2>2, <2>3, <2>6, <2>11 DEF Seen, Stands
  <2>15. SendOK(s)'
    BY <2>12, <2>13, <2>14 DEF SendOK
  <2> QED
    BY <2>5, <2>7, <2>10, <2>15, SendKeeps
<1> QED
  BY <1>2, <1>3 DEF TryAcquire

\* The length of what a conversation has.
LEMMA LengthIsNat ==
    ASSUME Types, NEW c \in Conversations
    PROVE  Messages(c) \in Seq(Message) /\ Len(Messages(c)) \in Nat
BY DEF Types, ConvRow, Messages

\* ReadHistory and ListMessages: the handler has the guard, and knows the whole history.
LEMMA KnownKeeps ==
    ASSUME Inv, NEW s \in Sends, UNCHANGED <<note, agent, conv, bounds, guard>>,
           Live(send[s].conv), NEW pc \in {"agent", "turn"},
           pc = "agent" => send[s].pc = "history", pc = "turn" => send[s].pc = "list",
           send' = [send EXCEPT ![s].pc = pc, ![s].known = Len(Messages(send[s].conv))]
    PROVE  Inv'
<1> DEFINE k == Len(Messages(send[s].conv))
           r == [send[s] EXCEPT !.pc = pc, !.known = k]
<1>1. SendOK(s) /\ send \in [Sends -> SendState] /\ send[s] \in SendState
  BY DEF Inv, Types
<1>2. k \in Nat
  BY LengthIsNat DEF Inv, Live
<1>3. pc \in Pcs
  BY DEF Pcs, Chat, Analysis
<1>4. send'[s].known = k /\ send' = [send EXCEPT ![s] = r]
  BY <1>1 DEF SendState
<1>5. Messages(send[s].conv)' = Messages(send[s].conv)
  BY <1>1 DEF Messages, SendState
<1> HIDE DEF k
<1>6. /\ r \in SendState /\ r.pc = pc /\ r.kind = send[s].kind /\ r.new = send[s].new
      /\ r.conv = send[s].conv /\ r.holds = send[s].holds /\ r.turn = send[s].turn
      /\ r.known = k /\ r.agent = send[s].agent /\ r.snap = send[s].snap
  BY <1>1, <1>2, <1>3 DEF SendState
<1> HIDE DEF r
<1>7. send'[s] = r
  BY <1>1, <1>4
<1>8. HoldsOK(s)'
  BY <1>1, <1>6, <1>7 DEF SendOK, HoldsOK, Homeless, Chat, Preflight, Analysis
<1>9. Knows(s)'
  BY <1>6, <1>7 DEF Knows, Messages, k
<1>10. Admits(s)'
  BY <1>1, <1>6, <1>7 DEF SendOK, Admits, HoldsOK, Analysis
<1>11. Seen(s)'
  BY <1>1, <1>6, <1>7 DEF SendOK, Seen, Stands
<1>12. SendOK(s)'
  BY <1>8, <1>9, <1>10, <1>11 DEF SendOK
<1> QED
  BY <1>4, <1>6, <1>12, MoveKeeps

\* ReadHistory.
LEMMA ReadHistoryKeeps ==
    ASSUME Inv, NEW s \in Sends, ReadHistory(s)
    PROVE  Inv'
BY LeaveKeeps, KnownKeeps DEF ReadHistory

\* ListMessages.
LEMMA ListMessagesKeeps ==
    ASSUME Inv, NEW s \in Sends, ListMessages(s)
    PROVE  Inv'
BY LeaveKeeps, KnownKeeps DEF ListMessages

\* ResolveAgent.
LEMMA ResolveAgentKeeps ==
    ASSUME Inv, NEW s \in Sends, ResolveAgent(s)
    PROVE  Inv'
<1> DEFINE r == [send[s] EXCEPT !.pc = "generate", !.agent = agent]
<1>1. send[s].pc = "agent" /\ UNCHANGED <<note, agent, conv, bounds>> /\ SendOK(s)
  BY DEF ResolveAgent, Inv
<1>2. CASE Leave(s)
  BY <1>1, <1>2, LeaveKeeps
<1>3. CASE /\ agent # NoAgent /\ UNCHANGED guard
           /\ send' = [send EXCEPT ![s].pc = "generate", ![s].agent = agent]
  <2>1. /\ send \in [Sends -> SendState] /\ send[s] \in SendState
        /\ agent \in Agents \cup {NoAgent} /\ agent \in Agents
    BY <1>3 DEF Inv, Types
  <2>2. "generate" \in Pcs
    BY DEF Pcs
  <2>3. send' = [send EXCEPT ![s] = r]
    BY <1>3, <2>1
  <2>4. /\ r \in SendState /\ r.pc = "generate" /\ r.kind = send[s].kind /\ r.new = send[s].new
        /\ r.conv = send[s].conv /\ r.holds = send[s].holds /\ r.turn = send[s].turn
        /\ r.known = send[s].known /\ r.agent = agent /\ r.snap = send[s].snap
    BY <2>1, <2>2 DEF SendState
  <2> HIDE DEF r
  <2>5. send'[s] = r /\ send[s].kind = "chat"
    BY <1>1, <2>1, <2>3 DEF SendOK, HoldsOK, Chat
  <2>6. HoldsOK(s)'
    BY <1>1, <2>4, <2>5 DEF SendOK, HoldsOK, Homeless, Chat, Preflight, Analysis
  <2>7. Knows(s)'
    <3>1. Reading(s) /\ Knows(s)
      BY <1>1 DEF SendOK, Reading
    <3> QED
      BY <1>1, <2>4, <2>5, <3>1 DEF Knows, Live, Messages
  <2>8. Admits(s)'
    BY <2>1, <2>4, <2>5 DEF Admits
  <2>9. Seen(s)'
    BY <1>1, <2>4, <2>5 DEF SendOK, Seen, Stands
  <2>10. SendOK(s)'
    BY <2>6, <2>7, <2>8, <2>9 DEF SendOK
  <2> QED
    BY <1>1, <1>3, <2>3, <2>4, <2>10, MoveKeeps
<1> QED
  BY <1>2, <1>3 DEF ResolveAgent

\* A note without its segments is not what the snapshot of a handler r saw.
SnapRight(r) ==
    \A n \in Notes :
       /\ r.snap[n].gen <= note[n].gen
       /\ \/ r.pc = "segments" \/ r.snap[n].held
          \/ note[n].state = "purged" \/ note[n].gen # r.snap[n].gen

\* A statement of a preflight leaves what it has read in the handler.
LEMMA PreflightKeeps ==
    ASSUME Inv, NEW s \in Sends, UNCHANGED <<note, agent, conv, bounds, guard>>,
           NEW r \in SendState, send' = [send EXCEPT ![s] = r],
           send[s].pc \in Preflight,
           \/ r.pc \in Preflight
           \/ (r.pc = "create" /\ send[s].new)
           \/ (r.pc = "verify" /\ ~send[s].new),
           r.kind = send[s].kind, r.new = send[s].new, r.conv = send[s].conv,
           r.holds = send[s].holds, SnapRight(r)
    PROVE  Inv'
<1>1. SendOK(s) /\ send \in [Sends -> SendState]
  BY DEF Inv, Types
<1>2. send'[s] = r
  BY <1>1
<1>3. HoldsOK(s)'
  BY <1>1, <1>2 DEF SendOK, HoldsOK, Homeless, Chat, Preflight, Analysis
<1>4. Knows(s)' /\ Admits(s)'
  BY <1>2 DEF Knows, Reading, Admits, Preflight
<1>5. Seen(s)'
  BY <1>2 DEF SnapRight, Seen, Stands, Preflight
<1>6. SendOK(s)'
  BY <1>3, <1>4, <1>5 DEF SendOK
<1> QED
  BY <1>6, MoveKeeps

\* ReadTranscripts.
LEMMA ReadTranscriptsKeeps ==
    ASSUME Inv, NEW s \in Sends, ReadTranscripts(s)
    PROVE  Inv'
<1> DEFINE z == [n \in Notes |-> [gen |-> note[n].gen, held |-> FALSE]]
           r == [send[s] EXCEPT !.pc = "segments", !.snap = z]
<1>1. send[s].pc = "transcripts" /\ UNCHANGED <<note, agent, conv, bounds>> /\ SendOK(s)
  BY DEF ReadTranscripts, Inv
<1>2. CASE Leave(s)
  BY <1>1, <1>2, LeaveKeeps
<1>3. CASE send' = [send EXCEPT ![s].pc = "segments", ![s].snap = z] /\ UNCHANGED guard
  <2>1. /\ send \in [Sends -> SendState] /\ send[s] \in SendState
        /\ \A n \in Notes : note[n].gen \in 1..(MaxChanges + 1)
    BY DEF Inv, Types, NoteRow
  <2>2. "segments" \in Pcs /\ "segments" \in Preflight /\ "transcripts" \in Preflight
    BY DEF Pcs, Preflight
  <2>3. z \in [Notes -> SnapRow] /\ \A n \in Notes : z[n].gen <= note[n].gen
    BY <2>1, ConstantsAssumption DEF SnapRow
  <2> HIDE DEF z
  <2>4. send' = [send EXCEPT ![s] = r]
    BY <1>3, <2>1
  <2>5. /\ r \in SendState /\ r.pc = "segments" /\ r.kind = send[s].kind /\ r.new = send[s].new
        /\ r.conv = send[s].conv /\ r.holds = send[s].holds /\ r.snap = z
    BY <2>1, <2>2, <2>3 DEF SendState
  <2> HIDE DEF r
  <2>6. SnapRight(r)
    BY <2>3, <2>5 DEF SnapRight
  <2>7. send[s].pc \in Preflight /\ r.pc \in Preflight
    BY <1>1, <2>2, <2>5
  <2> QED
    BY <1>1, <1>3, <2>4, <2>5, <2>6, <2>7, PreflightKeeps
<1> QED
  BY <1>2, <1>3 DEF ReadTranscripts

\* ReadSegments: a note without its segments is not what it was.
LEMMA ReadSegmentsKeeps ==
    ASSUME Inv, NEW s \in Sends, ReadSegments(s)
    PROVE  Inv'
<1> DEFINE z == [n \in Notes |-> [gen |-> send[s].snap[n].gen, held |-> Stands(s, n)]]
           r == [send[s] EXCEPT !.pc = "admit", !.snap = z]
<1>1. /\ send[s].pc = "segments" /\ UNCHANGED <<note, agent, conv, bounds, guard>> /\ SendOK(s)
      /\ send' = [send EXCEPT ![s].pc = "admit", ![s].snap = z]
  BY DEF ReadSegments, Inv
<1>2. /\ send \in [Sends -> SendState] /\ send[s] \in SendState
      /\ send[s].snap \in [Notes -> SnapRow]
  BY DEF Inv, Types, SendState
<1>3. "admit" \in Pcs /\ "segments" \in Preflight /\ "admit" \in Preflight
  BY DEF Pcs, Preflight
<1>4. /\ z \in [Notes -> SnapRow]
      /\ \A n \in Notes : /\ z[n].gen = send[s].snap[n].gen
                          /\ z[n].held <=> Stands(s, n)
  BY <1>2 DEF SnapRow, Stands
<1>5. \A n \in Notes : z[n].gen <= note[n].gen
  BY <1>1, <1>4 DEF SendOK, Seen
<1>6. \A n \in Notes : z[n].held \/ note[n].state = "purged" \/ note[n].gen # z[n].gen
  BY <1>4 DEF Stands
<1> HIDE DEF z
<1>7. send' = [send EXCEPT ![s] = r]
  BY <1>1, <1>2
<1>8. /\ r \in SendState /\ r.pc = "admit" /\ r.kind = send[s].kind /\ r.new = send[s].new
      /\ r.conv = send[s].conv /\ r.holds = send[s].holds /\ r.snap = z
  BY <1>2, <1>3, <1>4 DEF SendState
<1> HIDE DEF r
<1>9. SnapRight(r)
  BY <1>5, <1>6, <1>8 DEF SnapRight
<1>10. /\ send[s].pc \in Preflight /\ r.pc \in Preflight
       /\ UNCHANGED <<note, agent, conv, bounds, guard>>
  BY <1>1, <1>3, <1>8
<1> QED
  BY <1>7, <1>8, <1>9, <1>10, PreflightKeeps

\* Admit.
LEMMA AdmitKeeps ==
    ASSUME Inv, NEW s \in Sends, Admit(s)
    PROVE  Inv'
<1> DEFINE next == IF send[s].new THEN "create" ELSE "verify"
           r == [send[s] EXCEPT !.agent = agent, !.pc = next]
<1>1. send[s].pc = "admit" /\ UNCHANGED <<note, agent, conv, bounds>> /\ SendOK(s)
  BY DEF Admit, Inv
<1>2. CASE Leave(s)
  BY <1>1, <1>2, LeaveKeeps
<1>3. CASE send' = [send EXCEPT ![s].agent = agent, ![s].pc = next] /\ UNCHANGED guard
  <2>1. /\ send \in [Sends -> SendState] /\ send[s] \in SendState
        /\ agent \in Agents \cup {NoAgent} /\ send[s].new \in BOOLEAN
    BY DEF Inv, Types, SendState
  <2>2. /\ next \in Pcs /\ "admit" \in Preflight
        /\ (next = "create" /\ send[s].new) \/ (next = "verify" /\ ~send[s].new)
    BY <2>1 DEF Pcs, Preflight, Analysis
  <2>3. \A n \in Notes :
           /\ send[s].snap[n].gen <= note[n].gen
           /\ send[s].snap[n].held \/ note[n].state = "purged" \/ note[n].gen # send[s].snap[n].gen
    BY <1>1 DEF SendOK, Seen, Stands
  <2> HIDE DEF next
  <2>4. send' = [send EXCEPT ![s] = r]
    BY <1>3, <2>1
  <2>5. /\ r \in SendState /\ r.pc = next /\ r.kind = send[s].kind /\ r.new = send[s].new
        /\ r.conv = send[s].conv /\ r.holds = send[s].holds /\ r.snap = send[s].snap
    BY <2>1, <2>2 DEF SendState
  <2> HIDE DEF r
  <2>6. SnapRight(r)
    BY <2>3, <2>5 DEF SnapRight
  <2>7. /\ send[s].pc \in Preflight /\ UNCHANGED <<note, agent, conv, bounds, guard>>
        /\ (r.pc = "create" /\ send[s].new) \/ (r.pc = "verify" /\ ~send[s].new)
    BY <1>1, <1>3, <2>2, <2>5
  <2> QED
    BY <2>4, <2>5, <2>6, <2>7, PreflightKeeps
<1> QED
  BY <1>2, <1>3 DEF Admit

-----------------------------------------------------------------------------
(* Steps that change the conversations.                                    *)

\* The rows of the other tables stay.
LEMMA OtherRows ==
    ASSUME Inv, UNCHANGED <<note, agent>>, guard' \subseteq Conversations,
           conv' \in [Conversations -> ConvRow],
           \/ UNCHANGED bounds
           \/ bounds' = [bounds EXCEPT !.sends = @ + 1]
           \/ bounds' = [bounds EXCEPT !.faults = @ + 1]
    PROVE  RowTypes' /\ NotesMove
<1>1. /\ bounds' \in [sends : Nat, changes : Nat, faults : Nat]
      /\ bounds'.changes = bounds.changes
  BY BoundsMove DEF Inv
<1>2. RowTypes'
  BY <1>1 DEF Inv, Types, RowTypes
<1>3. \A n \in Notes : note[n].gen \in Nat
  BY ConstantsAssumption DEF Inv, Types, NoteRow
<1> QED
  BY <1>2, <1>3 DEF NotesMove

\* CreateConversation: nobody had it.
LEMMA CreateConversationIs ==
    ASSUME Inv, NEW c \in Conversations, NEW n \in Notes \cup {NoNote},
           NEW titled \in BOOLEAN, CreateConversation(c, n, titled)
    PROVE  /\ conv' \in [Conversations -> ConvRow]
           /\ conv[c].state = "unborn" /\ conv'[c].state = "live"
           /\ \A d \in Conversations : Keeps(d) /\ Kept(conv'[d].messages)
<1> DEFINE r == [state |-> "live", note |-> n, titled |-> titled, messages |-> <<>>]
<1>1. conv[c].state = "unborn" /\ conv' = [conv EXCEPT ![c] = r]
  BY DEF CreateConversation
<1>2. conv \in [Conversations -> ConvRow]
  BY DEF Inv, Types
<1>3. r \in ConvRow /\ r.state = "live" /\ r.messages = <<>>
  BY DEF ConvRow
<1> HIDE DEF r
<1>4. conv' \in [Conversations -> ConvRow] /\ conv'[c] = r
  BY <1>1, <1>2, <1>3
<1>5. ASSUME NEW d \in Conversations
      PROVE  Keeps(d) /\ Kept(conv'[d].messages)
  <2>1. CASE d = c
    BY <1>1, <1>3, <1>4, <2>1 DEF Keeps, Kept
  <2>2. CASE d # c
    <3>1. conv'[d] = conv[d] /\ Kept(conv[d].messages)
      BY <1>1, <1>2, <2>2 DEF Inv, Messages
    <3> QED
      BY <3>1 DEF Keeps
  <2> QED
    BY <2>1, <2>2
<1> QED
  BY <1>1, <1>3, <1>4, <1>5

\* HandleCreateConversation.
LEMMA HandleCreateConversationKeeps ==
    ASSUME Inv, NEW c \in Conversations, NEW n \in Notes \cup {NoNote},
           NEW titled \in BOOLEAN, HandleCreateConversation(c, n, titled)
    PROVE  Inv'
<1>1. CreateConversation(c, n, titled) /\ UNCHANGED <<note, agent, send, guard, bounds>>
  BY DEF HandleCreateConversation
<1>2. /\ conv' \in [Conversations -> ConvRow]
      /\ \A d \in Conversations : Keeps(d) /\ Kept(conv'[d].messages)
  BY <1>1, CreateConversationIs
<1>3. guard' \subseteq Conversations
  BY <1>1 DEF Inv, Types
<1>4. RowTypes' /\ NotesMove
  BY <1>1, <1>2, <1>3, OtherRows
<1> QED
  BY <1>1, <1>2, <1>4, OutsideKeeps

\* A handler that has just been given its request.
Arrives(r) ==
    /\ r \in SendState /\ ~r.holds /\ \A n \in Notes : r.snap[n].gen = 0
    /\ \/ (r.pc = "guard" /\ r.conv \in Conversations /\ ~r.new)
       \/ (r.pc = "notes" /\ r.new /\ r.kind = "cross")

\* It relies on its conversation only.
LEMMA ArrivesOK ==
    ASSUME RowTypes', NEW s \in Sends, NEW r, Arrives(r), send'[s] = r,
           r.pc = "guard" => conv'[r.conv].state # "unborn"
    PROVE  SendOK(s)'
<1>1. HoldsOK(s)' /\ Knows(s)' /\ Admits(s)'
  BY DEF Arrives, HoldsOK, Homeless, Knows, Reading, Admits, Chat, Preflight, Analysis
<1>2. \A n \in Notes : note'[n].gen \in 1..(MaxChanges + 1)
  BY DEF RowTypes, NoteRow
<1>3. Seen(s)'
  BY <1>2, ConstantsAssumption DEF Seen, Stands, Arrives
<1> QED
  BY <1>1, <1>3 DEF SendOK

\* An idle handler has no guard.
LEMMA IdleHoldsNothing ==
    ASSUME Inv, NEW s \in Sends, send[s].pc = "idle"
    PROVE  send[s].holds = FALSE
BY DEF Inv, Types, SendState, SendOK, HoldsOK, Homeless

\* A request for a conversation that is there already, or is not needed yet.
LEMMA ArrivesKeeps ==
    ASSUME Inv, NEW s \in Sends, NEW r, Arrives(r), send[s].pc = "idle",
           send' = [send EXCEPT ![s] = r], r.pc = "guard" => conv[r.conv].state # "unborn",
           UNCHANGED <<note, agent, conv, guard>>, bounds' = [bounds EXCEPT !.sends = @ + 1]
    PROVE  Inv'
<1>1. r \in SendState /\ r.holds = FALSE /\ send[s].holds = FALSE
  BY IdleHoldsNothing DEF Arrives, SendState
<1>2. guard' \subseteq Conversations /\ conv' \in [Conversations -> ConvRow]
  BY DEF Inv, Types
<1>3. RowTypes'
  BY <1>2, OtherRows
<1>4. send'[s] = r
  BY DEF Inv, Types
<1>5. SendOK(s)'
  BY <1>3, <1>4, ArrivesOK
<1> QED
  BY <1>1, <1>5, MoveKeeps

\* The number of a request.
LEMMA TurnIsNat ==
    ASSUME Inv, bounds' = [bounds EXCEPT !.sends = @ + 1]
    PROVE  bounds'.sends \in Nat
BY DEF Inv, Types

\* The handler of each request.
LEMMA RequestArrives ==
    ASSUME NEW c \in Conversations, NEW kind \in {"chat", "cross"},
           NEW untitled \in BOOLEAN, NEW turn \in Nat
    PROVE  /\ Arrives([Idle EXCEPT !.pc = "guard", !.kind = kind, !.conv = c,
                                   !.untitled = untitled, !.turn = turn])
           /\ Arrives([Idle EXCEPT !.pc = "guard", !.conv = c, !.untitled = untitled,
                                   !.turn = turn])
<1>1. "guard" \in Pcs
  BY DEF Pcs
<1> QED
  BY <1>1, IdleIs DEF Arrives, SendState

\* And of one whose conversation is to be created.
LEMMA PreflightArrives ==
    ASSUME NEW untitled \in BOOLEAN, NEW turn \in Nat
    PROVE  Arrives([Idle EXCEPT !.pc = "notes", !.kind = "cross", !.new = TRUE,
                                !.untitled = untitled, !.turn = turn])
<1>1. "notes" \in Pcs
  BY DEF Pcs, Preflight
<1> QED
  BY <1>1, IdleIs DEF Arrives, SendState

\* HandleSendMessage.
LEMMA HandleSendMessageKeeps ==
    ASSUME Inv, NEW s \in Sends, NEW c \in Conversations,
           NEW kind \in {"chat", "cross"}, HandleSendMessage(s, c, kind)
    PROVE  Inv'
<1> DEFINE u == ~conv[c].titled
           r == [Idle EXCEPT !.pc = "guard", !.kind = kind, !.conv = c,
                             !.untitled = u, !.turn = bounds'.sends]
<1>1. /\ send[s].pc = "idle" /\ bounds' = [bounds EXCEPT !.sends = @ + 1]
      /\ conv[c].state = "live" /\ send' = [send EXCEPT ![s] = r]
      /\ UNCHANGED <<note, agent, conv, guard>>
  BY DEF HandleSendMessage, Admitted, Live
<1>2. bounds'.sends \in Nat /\ u \in BOOLEAN
  BY <1>1, TurnIsNat DEF Inv, Types, ConvRow
<1> HIDE DEF u
<1>3. Arrives(r) /\ r.conv = c
  BY <1>2, RequestArrives DEF Idle
<1> HIDE DEF r
<1> QED
  BY <1>1, <1>3, ArrivesKeeps

\* HandleCreateAndSendCrossAnalysis.
LEMMA HandleCreateAndSendCrossAnalysisKeeps ==
    ASSUME Inv, NEW s \in Sends, NEW titled \in BOOLEAN,
           HandleCreateAndSendCrossAnalysis(s, titled)
    PROVE  Inv'
<1> DEFINE r == [Idle EXCEPT !.pc = "notes", !.kind = "cross", !.new = TRUE,
                             !.untitled = ~titled, !.turn = bounds'.sends]
<1>1. /\ send[s].pc = "idle" /\ bounds' = [bounds EXCEPT !.sends = @ + 1]
      /\ send' = [send EXCEPT ![s] = r]
      /\ UNCHANGED <<note, agent, conv, guard>>
  BY DEF HandleCreateAndSendCrossAnalysis, Admitted
<1>2. bounds'.sends \in Nat
  BY <1>1, TurnIsNat
<1>3. Arrives(r) /\ r.pc = "notes"
  <2>1. (~titled) \in BOOLEAN
    OBVIOUS
  <2> QED
    BY <1>2, <2>1, PreflightArrives DEF Idle
<1> HIDE DEF r
<1> QED
  BY <1>1, <1>3, ArrivesKeeps

\* HandleCreateAndSend.
LEMMA HandleCreateAndSendKeeps ==
    ASSUME Inv, NEW s \in Sends, NEW c \in Conversations,
           NEW n \in Notes \cup {NoNote}, NEW titled \in BOOLEAN,
           HandleCreateAndSend(s, c, n, titled)
    PROVE  Inv'
<1> DEFINE r == [Idle EXCEPT !.pc = "guard", !.conv = c, !.untitled = ~titled,
                             !.turn = bounds'.sends]
<1>1. /\ send[s].pc = "idle" /\ bounds' = [bounds EXCEPT !.sends = @ + 1]
      /\ CreateConversation(c, n, titled) /\ send' = [send EXCEPT ![s] = r]
      /\ UNCHANGED <<note, agent, guard>>
  BY DEF HandleCreateAndSend, Admitted
<1>2. bounds'.sends \in Nat /\ (~titled) \in BOOLEAN
  BY <1>1, TurnIsNat
<1>3. Arrives(r) /\ r.conv = c
  BY <1>2, RequestArrives DEF Idle
<1> HIDE DEF r
<1>4. /\ conv' \in [Conversations -> ConvRow] /\ conv'[c].state = "live"
      /\ \A d \in Conversations : Keeps(d) /\ Kept(conv'[d].messages)
  BY <1>1, CreateConversationIs
<1>5. guard' \subseteq Conversations
  BY <1>1 DEF Inv, Types
<1>6. RowTypes' /\ NotesMove
  BY <1>1, <1>4, <1>5, OtherRows
<1>7. SendAfter(s, r)
  BY <1>1, <1>3 DEF SendAfter, Inv, Types, Arrives
<1>8. SendOK(s)'
  BY <1>3, <1>4, <1>6, <1>7, ArrivesOK DEF SendAfter
<1>9. Guards'
  <2>1. r.holds = FALSE /\ send[s].holds = FALSE
    BY <1>1, <1>3, IdleHoldsNothing DEF Arrives, SendState
  <2> QED
    BY <1>1, <1>7, <2>1, GuardStays
<1> QED
  BY <1>4, <1>6, <1>7, <1>8, <1>9, SendKeeps

\* CreateForCrossAnalysis: the conversation comes after the preflight.
LEMMA CreateForCrossAnalysisKeeps ==
    ASSUME Inv, NEW s \in Sends, NEW c \in Conversations, CreateForCrossAnalysis(s, c)
    PROVE  Inv'
<1> DEFINE r == [send[s] EXCEPT !.pc = "guard", !.conv = c]
<1>1. /\ send[s].pc = "create" /\ UNCHANGED <<note, agent, bounds>> /\ SendOK(s)
      /\ CreateConversation(c, NoNote, ~send[s].untitled)
  BY DEF CreateForCrossAnalysis, Inv
<1>2. send \in [Sends -> SendState] /\ send[s] \in SendState /\ guard \subseteq Conversations
  BY DEF Inv, Types
<1>3. (~send[s].untitled) \in BOOLEAN
  OBVIOUS
<1>4. /\ conv' \in [Conversations -> ConvRow] /\ conv'[c].state = "live"
      /\ \A d \in Conversations : Keeps(d) /\ Kept(conv'[d].messages)
  BY <1>1, <1>3, CreateConversationIs
<1>5. CASE Leave(s)
  <2>1. SendAfter(s, Idle) /\ Guards' /\ guard' \subseteq Conversations
    BY <1>5, LeaveIs
  <2>2. RowTypes' /\ NotesMove
    BY <1>1, <1>4, <2>1, OtherRows
  <2>3. SendOK(s)'
    BY <2>1, <2>2, IdleOK DEF SendAfter
  <2> QED
    BY <1>4, <2>1, <2>2, <2>3, SendKeeps
<1>6. CASE send' = [send EXCEPT ![s].pc = "guard", ![s].conv = c] /\ UNCHANGED guard
  <2>1. "guard" \in Pcs
    BY DEF Pcs
  <2>2. send' = [send EXCEPT ![s] = r]
    BY <1>2, <1>6
  <2>3. /\ r \in SendState /\ r.pc = "guard" /\ r.kind = send[s].kind /\ r.new = send[s].new
        /\ r.conv = c /\ r.holds = send[s].holds /\ r.snap = send[s].snap
    BY <1>2, <2>1 DEF SendState
  <2> HIDE DEF r
  <2>4. SendAfter(s, r)
    BY <1>2, <2>2, <2>3 DEF SendAfter
  <2>5. /\ ~send[s].holds /\ send[s].kind = "cross"
        /\ Seen(s)
    BY <1>1 DEF SendOK, HoldsOK, Homeless
  <2>6. Guards'
    BY <1>6, <2>3, <2>4, <2>5, GuardStays
  <2>7. RowTypes' /\ NotesMove
    BY <1>1, <1>2, <1>4, <1>6, OtherRows
  <2>8. send'[s] = r
    BY <2>4 DEF SendAfter
  <2>9. HoldsOK(s)'
    BY <1>4, <2>3, <2>5, <2>8 DEF HoldsOK, Homeless, Chat, Preflight, Analysis
  <2>10. Knows(s)' /\ Admits(s)'
    BY <2>3, <2>8 DEF Knows, Reading, Admits
  <2>11. Seen(s)'
    BY <1>1, <2>3, <2>5, <2>8 DEF Seen, Stands
  <2>12. SendOK(s)'
    BY <2>9, <2>10, <2>11 DEF SendOK
  <2> QED
    BY <1>4, <2>4, <2>6, <2>7, <2>12, SendKeeps
<1> QED
  BY <1>1, <1>5, <1>6 DEF CreateForCrossAnalysis

-----------------------------------------------------------------------------
(* Messages.                                                               *)

\* What may follow the messages m.
Follows(m, x) ==
    x.role = "assistant" =>
       /\ Len(m) > 0 /\ m[Len(m)].role = "user" /\ m[Len(m)].turn = x.turn
       /\ x.known = Len(m) - 1
       /\ x.kind = "cross" => x.held = Notes /\ x.agent \in Admitting

\* One more message.
LEMMA AppendKeeps ==
    ASSUME NEW m \in Seq(Message), NEW x \in Message, Kept(m), Follows(m, x)
    PROVE  /\ Append(m, x) \in Seq(Message) /\ Kept(Append(m, x))
           /\ Len(Append(m, x)) = Len(m) + 1 /\ Append(m, x)[Len(m) + 1] = x
<1> DEFINE a == Append(m, x)
<1>1. /\ a \in Seq(Message) /\ Len(a) = Len(m) + 1 /\ a[Len(m) + 1] = x /\ Len(m) \in Nat
      /\ \A i \in 1..Len(m) : a[i] = m[i]
  OBVIOUS
<1> HIDE DEF a
<1>2. ASSUME NEW i \in 1..Len(a), a[i].role = "assistant"
      PROVE  /\ i > 1 /\ a[i - 1].role = "user" /\ a[i - 1].turn = a[i].turn
             /\ a[i].known = i - 2
             /\ a[i].kind = "cross" => a[i].held = Notes /\ a[i].agent \in Admitting
  <2>1. CASE i \in 1..Len(m)
    <3>1. /\ a[i] = m[i] /\ i > 1 /\ m[i - 1].role = "user" /\ m[i - 1].turn = m[i].turn
          /\ m[i].known = i - 2
          /\ m[i].kind = "cross" => m[i].held = Notes /\ m[i].agent \in Admitting
      BY <1>1, <1>2, <2>1 DEF Kept
    <3>2. a[i - 1] = m[i - 1]
      BY <1>1, <2>1, <3>1
    <3> QED
      BY <3>1, <3>2
  <2>2. CASE i = Len(m) + 1
    <3>1. /\ a[i] = x /\ Len(m) > 0 /\ i - 1 = Len(m) /\ i - 2 = Len(m) - 1
      BY <1>1, <1>2, <2>2 DEF Follows
    <3>2. a[i - 1] = m[i - 1]
      BY <1>1, <3>1
    <3> QED
      BY <1>1, <1>2, <3>1, <3>2 DEF Follows
  <2> QED
    BY <1>1, <2>1, <2>2
<1>3. Kept(a)
  BY <1>2 DEF Kept
<1> QED
  BY <1>1, <1>3 DEF a

\* NewMessage is one.
LEMMA NewMessageIs ==
    ASSUME Inv, NEW s \in Sends, send[s].agent \in Agents, NEW role \in {"user", "assistant"},
           NEW at \in Nat
    PROVE  LET x == NewMessage(s, role, at)
           IN  /\ x \in Message /\ x.role = role /\ x.kind = send[s].kind
               /\ x.turn = send[s].turn /\ x.known = send[s].known /\ x.agent = send[s].agent
               /\ (role = "assistant" /\ \A n \in Notes : send[s].snap[n].held) => x.held = Notes
<1>1. send[s] \in SendState
  BY DEF Inv, Types
<1> DEFINE h == {n \in Notes : role = "assistant" /\ send[s].snap[n].held}
<1>2. /\ h \in SUBSET Notes
      /\ (role = "assistant" /\ \A n \in Notes : send[s].snap[n].held) => h = Notes
  OBVIOUS
<1>3. NewMessage(s, role, at) =
         [role |-> role, kind |-> send[s].kind, turn |-> send[s].turn, at |-> at,
          known |-> send[s].known, agent |-> send[s].agent, held |-> h]
  BY DEF NewMessage
<1> HIDE DEF h
<1> QED
  BY <1>1, <1>2, <1>3 DEF Message, SendState

\* Now is a time.
LEMMA NowIsNat ==
    ASSUME Types, NEW c \in Conversations
    PROVE  Now(c) \in Nat
<1>1. Messages(c) \in Seq(Message)
  BY LengthIsNat
<1>2. CASE Messages(c) = <<>>
  BY <1>2 DEF Now
<1>3. CASE Messages(c) # <<>>
  <2>1. Messages(c)[Len(Messages(c))] \in Message
    BY <1>1, <1>3
  <2> QED
    BY <1>3, <2>1 DEF Now, Message
<1> QED
  BY <1>2, <1>3

\* The rows after a conversation has got messages.
LEMMA MessagesAppended ==
    ASSUME Inv, NEW c \in Conversations, Live(c), NEW m \in Seq(Message), Kept(m),
           conv' = [conv EXCEPT ![c].messages = m], UNCHANGED <<note, agent, bounds>>,
           guard' \subseteq Conversations
    PROVE  /\ RowTypes' /\ NotesMove /\ conv'[c].state = "live" /\ conv'[c].messages = m
           /\ \A d \in Conversations : Kept(conv'[d].messages) /\ (d # c => Keeps(d))
<1>1. conv \in [Conversations -> ConvRow] /\ conv[c] \in ConvRow
  BY DEF Inv, Types
<1> DEFINE r == [conv[c] EXCEPT !.messages = m]
<1>2. r \in ConvRow /\ r.state = "live" /\ r.messages = m
  BY <1>1 DEF ConvRow, Live
<1>3. conv' = [conv EXCEPT ![c] = r]
  BY <1>1
<1> HIDE DEF r
<1>4. conv' \in [Conversations -> ConvRow] /\ conv'[c] = r
  BY <1>1, <1>2, <1>3
<1>5. \A d \in Conversations : d # c => conv'[d] = conv[d]
  BY <1>1, <1>3
<1>6. RowTypes' /\ NotesMove
  BY <1>4, OtherRows
<1>7. \A d \in Conversations : Kept(conv'[d].messages) /\ (d # c => Keeps(d))
  BY <1>2, <1>4, <1>5 DEF Inv, Messages, Keeps
<1> QED
  BY <1>2, <1>4, <1>6, <1>7

\* A handler in these statements has the guard of its conversation.
LEMMA Holds ==
    ASSUME Inv, NEW s \in Sends, send[s].pc \in {"user", "assistant", "turn", "title"}
    PROVE  send[s].holds /\ send[s].conv \in Conversations
<1>1. send[s].pc \notin Preflight \cup {"idle", "guard", "create"}
  BY DEF Preflight
<1> QED
  BY <1>1 DEF Inv, SendOK, HoldsOK, Homeless

\* What else the statement of a handler asks for when its conversation gets messages.
LEMMA StatementOK ==
    ASSUME Inv, NEW s \in Sends, NEW pc \in {"assistant", "title"},
           send' = [send EXCEPT ![s].pc = pc],
           send[s].pc \in {"user", "assistant", "turn"}, pc = "assistant" => send[s].pc = "user",
           UNCHANGED note, conv'[send[s].conv].state = "live",
           pc = "assistant" =>
              LET m == conv'[send[s].conv].messages
              IN  /\ Len(m) = send[s].known + 1
                  /\ m[send[s].known + 1].role = "user"
                  /\ m[send[s].known + 1].turn = send[s].turn
    PROVE  LET r == [send[s] EXCEPT !.pc = pc]
           IN  /\ SendAfter(s, r) /\ SendOK(s)' /\ r.holds = send[s].holds
               /\ r.conv = send[s].conv
<1> DEFINE r == [send[s] EXCEPT !.pc = pc]
<1>1. pc \in Pcs /\ send[s].conv \in Conversations
  BY Holds DEF Pcs, Chat
<1>2. /\ r \in SendState /\ r.pc = pc /\ r.kind = send[s].kind /\ r.new = send[s].new
      /\ r.conv = send[s].conv /\ r.holds = send[s].holds /\ r.turn = send[s].turn
      /\ r.known = send[s].known /\ r.agent = send[s].agent /\ r.snap = send[s].snap
  BY <1>1, GotoIs
<1>3. send' = [send EXCEPT ![s] = r] /\ send \in [Sends -> SendState]
  BY DEF Inv, Types
<1> HIDE DEF r
<1>4. SendAfter(s, r) /\ send'[s] = r
  BY <1>2, <1>3 DEF SendAfter
<1>5. SendOK(s)
  BY DEF Inv
<1>6. HoldsOK(s)'
  BY <1>1, <1>2, <1>4, <1>5 DEF SendOK, HoldsOK, Homeless, Chat, Preflight, Analysis
<1>7. Knows(s)'
  BY <1>2, <1>4 DEF Knows, Reading, Messages
<1>8. Admits(s)'
  BY <1>2, <1>4, <1>5 DEF SendOK, Admits
<1>9. Seen(s)'
  BY <1>2, <1>4, <1>5 DEF SendOK, Seen, Stands
<1>10. SendOK(s)'
  BY <1>6, <1>7, <1>8, <1>9 DEF SendOK
<1> QED
  BY <1>2, <1>4, <1>10 DEF r

\* AppendUserMessage: the question is the last message.
LEMMA AppendUserMessageKeeps ==
    ASSUME Inv, NEW s \in Sends, AppendUserMessage(s)
    PROVE  Inv'
<1>1. send[s].pc = "user" /\ UNCHANGED <<note, agent, bounds>> /\ SendOK(s)
  BY DEF AppendUserMessage, Inv
<1>2. CASE Leave(s) /\ UNCHANGED conv
  BY <1>1, <1>2, LeaveKeeps
<1>3. CASE AppendMessage(s, "user") /\ Goto(s, "assistant")
  <2> DEFINE c == send[s].conv
             x == NewMessage(s, "user", Now(c))
             m == Append(Messages(c), x)
             r == [send[s] EXCEPT !.pc = "assistant"]
  <2>1. Live(c) /\ conv' = [conv EXCEPT ![c].messages = m] /\ c \in Conversations
    BY <1>3 DEF AppendMessage, Live, Messages
  <2>2. send' = [send EXCEPT ![s].pc = "assistant"] /\ guard' = guard
    BY <1>3 DEF Goto
  <2>3. Now(c) \in Nat /\ send[s].agent \in Agents
    BY <1>1, <2>1, NowIsNat DEF Inv, SendOK, Admits
  <2>4. x \in Message /\ x.role = "user" /\ x.turn = send[s].turn
    BY <2>3, NewMessageIs
  <2>5. Messages(c) \in Seq(Message) /\ Kept(Messages(c))
    BY <2>1, LengthIsNat DEF Inv
  <2>6. Follows(Messages(c), x)
    BY <2>4 DEF Follows
  <2> HIDE DEF x
  <2>7. /\ m \in Seq(Message) /\ Kept(m) /\ Len(m) = Len(Messages(c)) + 1
        /\ m[Len(Messages(c)) + 1] = x
    BY <2>4, <2>5, <2>6, AppendKeeps
  <2> HIDE DEF m
  <2>8. send[s].known = Len(Messages(c))
    BY <1>1, <2>1 DEF SendOK, Knows, Reading
  <2>9. guard' \subseteq Conversations
    BY <2>2 DEF Inv, Types
  <2>10. /\ RowTypes' /\ NotesMove /\ conv'[c].state = "live" /\ conv'[c].messages = m
         /\ \A d \in Conversations : Kept(conv'[d].messages) /\ (d # c => Keeps(d))
    BY <1>1, <2>1, <2>7, <2>9, MessagesAppended
  <2>11. /\ SendAfter(s, r) /\ SendOK(s)' /\ r.holds = send[s].holds
         /\ r.conv = send[s].conv
    BY <1>1, <2>2, <2>4, <2>7, <2>8, <2>10, StatementOK
  <2> HIDE DEF r
  <2>12. Guards'
    BY <2>2, <2>11, GuardStays
  <2>13. send[s].holds
    BY <1>1, Holds
  <2>14. \A d \in Conversations :
            Keeps(d) \/ (send[s].holds /\ send[s].conv = d /\ conv'[d].state # "unborn")
    BY <2>10, <2>13
  <2> QED
    BY <2>10, <2>11, <2>12, <2>14, SendKeeps
<1> QED
  BY <1>2, <1>3 DEF AppendUserMessage

\* Answered: the handler is at its end, or goes on to the title.
LEMMA AnsweredKeeps ==
    ASSUME Inv, NEW s \in Sends, send[s].pc \in {"assistant", "turn"}, Answered(s),
           Live(send[s].conv), NEW m \in Seq(Message), Kept(m),
           conv' = [conv EXCEPT ![send[s].conv].messages = m], UNCHANGED <<note, agent, bounds>>
    PROVE  Inv'
<1> DEFINE c == send[s].conv
           r == [send[s] EXCEPT !.pc = "title"]
<1>1. c \in Conversations /\ send[s].holds
  BY Holds
<1>2. guard' \subseteq Conversations
  <2>1. Leave(s) \/ UNCHANGED guard
    BY DEF Answered, Goto
  <2> QED
    BY <2>1, GuardTypes DEF Inv
<1>3. /\ RowTypes' /\ NotesMove /\ conv'[c].state = "live"
      /\ \A d \in Conversations : Kept(conv'[d].messages) /\ (d # c => Keeps(d))
  BY <1>1, <1>2, MessagesAppended
<1>4. \A d \in Conversations :
         Keeps(d) \/ (send[s].holds /\ send[s].conv = d /\ conv'[d].state # "unborn")
  BY <1>1, <1>3
<1>5. CASE Leave(s)
  <2>1. SendAfter(s, Idle) /\ Guards'
    BY <1>5, LeaveIs
  <2>2. SendOK(s)'
    BY <1>3, <2>1, IdleOK DEF SendAfter
  <2> QED
    BY <1>3, <1>4, <2>1, <2>2, SendKeeps
<1>6. CASE Goto(s, "title")
  <2>1. send' = [send EXCEPT ![s].pc = "title"] /\ guard' = guard
    BY <1>6 DEF Goto
  <2>2. /\ SendAfter(s, r) /\ SendOK(s)' /\ r.holds = send[s].holds
        /\ r.conv = send[s].conv
    BY <1>3, <2>1, StatementOK
  <2> HIDE DEF r
  <2>3. Guards'
    BY <2>1, <2>2, GuardStays
  <2> QED
    BY <1>3, <1>4, <2>2, <2>3, SendKeeps
<1> QED
  BY <1>5, <1>6 DEF Answered

\* AppendAssistantMessage: the answer follows its question.
LEMMA AppendAssistantMessageKeeps ==
    ASSUME Inv, NEW s \in Sends, AppendAssistantMessage(s)
    PROVE  Inv'
<1>1. send[s].pc = "assistant" /\ UNCHANGED <<note, agent, bounds>> /\ SendOK(s)
  BY DEF AppendAssistantMessage, Inv
<1>2. CASE Leave(s) /\ UNCHANGED conv
  BY <1>1, <1>2, LeaveKeeps
<1>3. CASE AppendMessage(s, "assistant") /\ Answered(s)
  <2> DEFINE c == send[s].conv
             x == NewMessage(s, "assistant", Now(c))
             m == Append(Messages(c), x)
  <2>1. Live(c) /\ conv' = [conv EXCEPT ![c].messages = m] /\ c \in Conversations
    BY <1>3 DEF AppendMessage, Live, Messages
  <2>2. /\ Now(c) \in Nat /\ send[s].agent \in Agents /\ send[s].kind = "chat"
        /\ send[s].known \in Nat
    BY <1>1, <2>1, NowIsNat DEF Inv, Types, SendState, SendOK, HoldsOK, Chat, Admits
  <2>3. /\ x \in Message /\ x.kind = "chat" /\ x.turn = send[s].turn /\ x.known = send[s].known
    BY <2>2, NewMessageIs
  <2>4. Messages(c) \in Seq(Message) /\ Kept(Messages(c)) /\ Len(Messages(c)) \in Nat
    BY <2>1, LengthIsNat DEF Inv
  <2>5. /\ Len(Messages(c)) = send[s].known + 1
        /\ Messages(c)[send[s].known + 1].role = "user"
        /\ Messages(c)[send[s].known + 1].turn = send[s].turn
    BY <1>1, <2>1 DEF SendOK, Knows
  <2> HIDE DEF x
  <2>6. Follows(Messages(c), x)
    BY <2>2, <2>3, <2>4, <2>5 DEF Follows
  <2>7. m \in Seq(Message) /\ Kept(m)
    BY <2>3, <2>4, <2>6, AppendKeeps
  <2> HIDE DEF m
  <2> QED
    BY <1>1, <1>3, <2>1, <2>7, AnsweredKeeps
<1> QED
  BY <1>2, <1>3 DEF AppendAssistantMessage

\* AppendCrossAnalysisTurn: question and answer, with every note and an agent admitted.
LEMMA AppendCrossAnalysisTurnKeeps ==
    ASSUME Inv, NEW s \in Sends, AppendCrossAnalysisTurn(s)
    PROVE  Inv'
<1> DEFINE c == send[s].conv
           x == NewMessage(s, "user", Now(c))
           y == NewMessage(s, "assistant", Now(c))
           m == Messages(c) \o <<x, y>>
<1>1. send[s].pc = "turn" /\ UNCHANGED <<note, agent, bounds>> /\ SendOK(s)
  BY DEF AppendCrossAnalysisTurn, Inv
<1>2. CASE Leave(s) /\ UNCHANGED conv
  BY <1>1, <1>2, LeaveKeeps
<1>3. CASE Live(c) /\ conv' = [conv EXCEPT ![c].messages = m] /\ Answered(s)
  <2>1. c \in Conversations
    BY <1>1, Holds
  <2>2. /\ Now(c) \in Nat /\ send[s].kind = "cross" /\ send[s].known \in Nat
        /\ send[s].agent \in Agents /\ send[s].agent \in Admitting
        /\ \A n \in Notes : send[s].snap[n].held
    <3>1. Now(c) \in Nat /\ send[s].known \in Nat
      BY <2>1, NowIsNat DEF Inv, Types, SendState
    <3>2. send[s].kind = "cross"
      BY <1>1 DEF SendOK, HoldsOK, Analysis
    <3> QED
      BY <1>1, <3>1, <3>2 DEF SendOK, Admits, Seen
  <2>3. x \in Message /\ x.role = "user" /\ x.turn = send[s].turn
    BY <2>2, NewMessageIs
  <2>4. /\ y \in Message /\ y.turn = send[s].turn /\ y.known = send[s].known
        /\ y.agent = send[s].agent /\ y.held = Notes
    BY <2>2, NewMessageIs
  <2>5. Messages(c) \in Seq(Message) /\ Kept(Messages(c)) /\ Len(Messages(c)) \in Nat
    BY <2>1, LengthIsNat DEF Inv
  <2>6. send[s].known = Len(Messages(c))
    BY <1>1, <1>3 DEF SendOK, Knows, Reading
  <2> DEFINE a == Append(Messages(c), x)
  <2> HIDE DEF x, y
  <2>7. Follows(Messages(c), x)
    BY <2>3 DEF Follows
  <2>8. /\ a \in Seq(Message) /\ Kept(a) /\ Len(a) = Len(Messages(c)) + 1
        /\ a[Len(Messages(c)) + 1] = x
    BY <2>3, <2>5, <2>7, AppendKeeps
  <2>9. m = Append(a, y)
    BY <2>3, <2>4, <2>5
  <2> HIDE DEF m, a
  <2>10. Follows(a, y)
    BY <2>2, <2>3, <2>4, <2>5, <2>6, <2>8 DEF Follows
  <2>11. m \in Seq(Message) /\ Kept(m)
    BY <2>4, <2>8, <2>9, <2>10, AppendKeeps
  <2> QED
    BY <1>1, <1>3, <2>11, AnsweredKeeps
<1> QED
  BY <1>1, <1>2, <1>3 DEF AppendCrossAnalysisTurn, Messages

\* GenerateConversationTitle.
LEMMA GenerateConversationTitleKeeps ==
    ASSUME Inv, NEW s \in Sends, GenerateConversationTitle(s)
    PROVE  Inv'
<1> DEFINE c == send[s].conv
           r == [conv[c] EXCEPT !.titled = TRUE]
<1>1. send[s].pc = "title" /\ UNCHANGED <<note, agent, bounds>> /\ Leave(s)
  BY DEF GenerateConversationTitle
<1>2. CASE UNCHANGED conv
  BY <1>1, <1>2, LeaveKeeps
<1>3. CASE conv' = [conv EXCEPT ![c].titled = TRUE]
  <2>1. c \in Conversations /\ conv \in [Conversations -> ConvRow] /\ conv[c] \in ConvRow
    BY <1>1, Holds DEF Inv, Types
  <2>2. r \in ConvRow /\ r.state = conv[c].state /\ r.messages = conv[c].messages
    BY <2>1 DEF ConvRow
  <2>3. conv' = [conv EXCEPT ![c] = r]
    BY <1>3, <2>1
  <2> HIDE DEF r
  <2>4. conv' \in [Conversations -> ConvRow]
    BY <2>1, <2>2, <2>3
  <2>5. \A d \in Conversations :
           conv'[d].state = conv[d].state /\ conv'[d].messages = conv[d].messages
    BY <2>1, <2>2, <2>3
  <2>6. \A d \in Conversations : Keeps(d) /\ Kept(conv'[d].messages)
    BY <2>5 DEF Keeps, Inv, Messages
  <2>7. SendAfter(s, Idle) /\ Guards' /\ guard' \subseteq Conversations
    BY <1>1, LeaveIs
  <2>8. RowTypes' /\ NotesMove
    BY <1>1, <2>4, <2>7, OtherRows
  <2>9. SendOK(s)'
    BY <2>7, <2>8, IdleOK DEF SendAfter
  <2> QED
    BY <2>6, <2>7, <2>8, <2>9, SendKeeps
<1> QED
  BY <1>2, <1>3 DEF GenerateConversationTitle

-----------------------------------------------------------------------------
(* What else happens.                                                      *)

\* Change counts.
LEMMA ChangeIs ==
    ASSUME Inv, Change
    PROVE  /\ UNCHANGED <<send, guard>> /\ guard' \subseteq Conversations
           /\ bounds' \in [sends : Nat, changes : Nat, faults : Nat]
           /\ bounds'.changes <= MaxChanges /\ bounds'.changes = bounds.changes + 1
           /\ bounds.changes \in Nat
BY ConstantsAssumption DEF Change, Inv, Types

\* Notes are not touched, and there has been one more change.
LEMMA NotesStay ==
    ASSUME Inv, Change, UNCHANGED note, agent' \in Agents \cup {NoAgent},
           conv' \in [Conversations -> ConvRow]
    PROVE  RowTypes' /\ NotesMove
<1>1. /\ guard' \subseteq Conversations
      /\ bounds' \in [sends : Nat, changes : Nat, faults : Nat]
      /\ bounds'.changes <= MaxChanges /\ bounds'.changes = bounds.changes + 1
      /\ bounds.changes \in Nat
  BY ChangeIs
<1>2. note \in [Notes -> NoteRow] /\ \A n \in Notes : note[n].gen <= bounds.changes + 1
  BY DEF Inv, Types
<1>3. \A n \in Notes : note[n].gen \in Nat
  BY <1>2, ConstantsAssumption DEF NoteRow
<1> QED
  BY <1>1, <1>2, <1>3 DEF RowTypes, NotesMove

\* The row of a conversation that was deleted.
LEMMA DeletedRow ==
    ASSUME NEW old \in ConvRow
    PROVE  LET r == [old EXCEPT !.state = "deleted", !.messages = <<>>]
           IN  r \in ConvRow /\ r.state = "deleted" /\ r.messages = <<>>
<1> DEFINE e == <<>>
<1>1. e \in Seq(Message)
  OBVIOUS
<1> HIDE DEF e
<1>2. LET r == [old EXCEPT !.state = "deleted", !.messages = e]
      IN  r \in ConvRow /\ r.state = "deleted" /\ r.messages = e
  BY <1>1 DEF ConvRow
<1> QED
  BY <1>2 DEF e

\* DeleteConversation.
LEMMA DeleteConversationKeeps ==
    ASSUME Inv, NEW c \in Conversations, DeleteConversation(c)
    PROVE  Inv'
<1> DEFINE r == [conv[c] EXCEPT !.state = "deleted", !.messages = <<>>]
<1>1. Change /\ conv[c].state = "live" /\ UNCHANGED <<note, agent>>
  BY DEF DeleteConversation, Live
<1>2. /\ conv \in [Conversations -> ConvRow] /\ conv[c] \in ConvRow
      /\ agent' \in Agents \cup {NoAgent}
  BY <1>1 DEF Inv, Types
<1>3. conv' = [conv EXCEPT ![c] = r]
  BY <1>2 DEF DeleteConversation
<1>4. r \in ConvRow /\ r.state = "deleted" /\ r.messages = <<>>
  BY <1>2, DeletedRow
<1> HIDE DEF r
<1>5. /\ conv' \in [Conversations -> ConvRow] /\ conv'[c] = r
      /\ \A d \in Conversations : d # c => conv'[d] = conv[d]
  BY <1>2, <1>3, <1>4
<1>6. RowTypes' /\ NotesMove
  BY <1>1, <1>2, <1>5, NotesStay
<1>7. Kept(r.messages)
  BY <1>4 DEF Kept
<1>8. \A d \in Conversations : Keeps(d) /\ Kept(conv'[d].messages)
  BY <1>4, <1>5, <1>7 DEF Keeps, Inv, Messages
<1>9. UNCHANGED <<send, guard>>
  BY <1>1, ChangeIs
<1> QED
  BY <1>6, <1>8, <1>9, OutsideKeeps

\* A note becomes r; conversations stay.
LEMMA NoteKeeps ==
    ASSUME Inv, NEW n \in Notes, NEW r \in NoteRow, note' = [note EXCEPT ![n] = r],
           UNCHANGED <<agent, conv, send, guard>>,
           bounds' \in [sends : Nat, changes : Nat, faults : Nat],
           bounds'.changes <= MaxChanges, bounds'.changes >= bounds.changes,
           r.gen >= note[n].gen, r.gen <= bounds'.changes + 1,
           note[n].state = "purged" => r.state = "purged"
    PROVE  Inv'
<1>1. /\ note \in [Notes -> NoteRow] /\ bounds.changes \in Nat
      /\ \A i \in Notes : note[i].gen <= bounds.changes + 1
  BY DEF Inv, Types
<1>2. \A i \in Notes : note[i].gen \in Nat
  BY <1>1, ConstantsAssumption DEF NoteRow
<1>3. /\ note' \in [Notes -> NoteRow] /\ note'[n] = r
      /\ \A i \in Notes : i # n => note'[i] = note[i]
  BY <1>1
<1>4. NotesMove
  BY <1>2, <1>3 DEF NotesMove
<1>5. \A i \in Notes : note'[i].gen <= bounds'.changes + 1
  <2> TAKE i \in Notes
  <2>1. bounds'.changes \in Nat /\ note[i].gen <= bounds.changes + 1
    BY <1>1
  <2>2. CASE i = n
    BY <1>3, <2>2
  <2>3. CASE i # n
    BY <1>1, <1>2, <1>3, <2>1, <2>3
  <2> QED
    BY <2>2, <2>3
<1>6. RowTypes'
  BY <1>3, <1>5 DEF RowTypes, Inv, Types
<1>7. \A d \in Conversations : Keeps(d) /\ Kept(conv'[d].messages)
  BY DEF Inv, Keeps, Messages
<1> QED
  BY <1>4, <1>6, <1>7, OutsideKeeps

\* The type of a note.
LEMMA NoteIs ==
    ASSUME Inv, NEW n \in Notes
    PROVE  /\ note \in [Notes -> NoteRow] /\ note[n] \in NoteRow /\ note[n].gen \in Nat
           /\ note[n].gen >= 1 /\ note[n].gen <= bounds.changes + 1
           /\ bounds \in [sends : Nat, changes : Nat, faults : Nat]
           /\ bounds.changes \in Nat /\ bounds.changes <= MaxChanges
BY ConstantsAssumption DEF Inv, Types, NoteRow

\* ReplaceTranscript: one more generation, and one more change.
LEMMA ReplaceTranscriptKeeps ==
    ASSUME Inv, NEW n \in Notes, NEW ready \in BOOLEAN, ReplaceTranscript(n, ready)
    PROVE  Inv'
<1> DEFINE g == note[n].gen + 1
           r == [note[n] EXCEPT !.gen = g, !.ready = ready]
<1>1. Change /\ note[n].state # "purged" /\ UNCHANGED <<agent, conv>>
  BY DEF ReplaceTranscript
<1>2. /\ note \in [Notes -> NoteRow] /\ note[n] \in NoteRow /\ note[n].gen \in Nat
      /\ note[n].gen >= 1 /\ note[n].gen <= bounds.changes + 1
  BY NoteIs
<1>3. /\ UNCHANGED <<send, guard>>
      /\ bounds' \in [sends : Nat, changes : Nat, faults : Nat]
      /\ bounds'.changes <= MaxChanges /\ bounds'.changes = bounds.changes + 1
      /\ bounds.changes \in Nat
  BY <1>1, ChangeIs
<1>4. g \in 1..(MaxChanges + 1) /\ g >= note[n].gen /\ g <= bounds'.changes + 1
  BY <1>2, <1>3, ConstantsAssumption
<1>5. note' = [note EXCEPT ![n] = r]
  BY <1>2 DEF ReplaceTranscript
<1> HIDE DEF g
<1>6. r \in NoteRow /\ r.gen = g
  BY <1>2, <1>4 DEF NoteRow
<1> HIDE DEF r
<1>7. bounds'.changes >= bounds.changes
  BY <1>3
<1> QED
  BY <1>1, <1>3, <1>4, <1>5, <1>6, <1>7, NoteKeeps

\* TrashNote.
LEMMA TrashNoteKeeps ==
    ASSUME Inv, NEW n \in Notes, TrashNote(n)
    PROVE  Inv'
<1> DEFINE r == [note[n] EXCEPT !.state = "trashed"]
<1>1. Change /\ note[n].state = "live" /\ UNCHANGED <<agent, conv>>
  BY DEF TrashNote
<1>2. /\ note \in [Notes -> NoteRow] /\ note[n] \in NoteRow /\ note[n].gen \in Nat
      /\ note[n].gen <= bounds.changes + 1
  BY NoteIs
<1>3. /\ UNCHANGED <<send, guard>>
      /\ bounds' \in [sends : Nat, changes : Nat, faults : Nat]
      /\ bounds'.changes <= MaxChanges /\ bounds'.changes = bounds.changes + 1
      /\ bounds.changes \in Nat
  BY <1>1, ChangeIs
<1>4. note' = [note EXCEPT ![n] = r]
  BY <1>2 DEF TrashNote
<1>5. r \in NoteRow /\ r.gen = note[n].gen
  BY <1>2 DEF NoteRow
<1> HIDE DEF r
<1>6. /\ bounds'.changes >= bounds.changes /\ r.gen >= note[n].gen
      /\ r.gen <= bounds'.changes + 1
  BY <1>2, <1>3, <1>5
<1> QED
  BY <1>1, <1>3, <1>4, <1>5, <1>6, NoteKeeps

\* RestoreNote.
LEMMA RestoreNoteKeeps ==
    ASSUME Inv, NEW n \in Notes, RestoreNote(n)
    PROVE  Inv'
<1> DEFINE r == [note[n] EXCEPT !.state = "live"]
<1>1. note[n].state = "trashed" /\ UNCHANGED <<agent, conv, send, guard, bounds>>
  BY DEF RestoreNote
<1>2. /\ note \in [Notes -> NoteRow] /\ note[n] \in NoteRow /\ note[n].gen \in Nat
      /\ note[n].gen <= bounds.changes + 1
      /\ bounds \in [sends : Nat, changes : Nat, faults : Nat]
      /\ bounds.changes \in Nat /\ bounds.changes <= MaxChanges
  BY NoteIs
<1>3. note' = [note EXCEPT ![n] = r]
  BY <1>2 DEF RestoreNote
<1>4. r \in NoteRow /\ r.gen = note[n].gen
  BY <1>2 DEF NoteRow
<1> HIDE DEF r
<1>5. /\ bounds'.changes >= bounds.changes /\ r.gen >= note[n].gen
      /\ r.gen <= bounds'.changes + 1 /\ bounds'.changes <= MaxChanges
      /\ bounds' \in [sends : Nat, changes : Nat, faults : Nat]
  BY <1>1, <1>2, <1>4
<1> QED
  BY <1>1, <1>3, <1>4, <1>5, NoteKeeps

\* PurgeNote: the conversations of the note go with it.
LEMMA PurgeNoteKeeps ==
    ASSUME Inv, NEW n \in Notes, PurgeNote(n)
    PROVE  Inv'
<1> DEFINE r == [note[n] EXCEPT !.state = "purged"]
<1>1. note[n].state = "trashed" /\ UNCHANGED <<agent, send, guard, bounds>>
  BY DEF PurgeNote
<1>2. /\ note \in [Notes -> NoteRow] /\ note[n] \in NoteRow
      /\ bounds \in [sends : Nat, changes : Nat, faults : Nat] /\ bounds.changes <= MaxChanges
      /\ conv \in [Conversations -> ConvRow]
      /\ \A i \in Notes : note[i].gen <= bounds.changes + 1
  BY DEF Inv, Types
<1>3. note' = [note EXCEPT ![n] = r]
  BY <1>2 DEF PurgeNote
<1>4. r \in NoteRow /\ r.gen = note[n].gen /\ r.state = "purged"
  BY <1>2 DEF NoteRow
<1> HIDE DEF r
<1>5. /\ note' \in [Notes -> NoteRow]
      /\ \A i \in Notes : /\ note'[i].gen = note[i].gen
                          /\ note[i].state = "purged" => note'[i].state = "purged"
  BY <1>2, <1>3, <1>4
<1>6. \A i \in Notes : note[i].gen \in Nat
  BY NoteIs
<1>7. NotesMove
  BY <1>5, <1>6 DEF NotesMove
<1>8. ASSUME NEW d \in Conversations
      PROVE  /\ conv'[d] \in ConvRow
             /\ \/ conv'[d] = conv[d]
                \/ (conv'[d].state = "deleted" /\ conv'[d].messages = <<>>)
  <2>1. conv[d] \in ConvRow
    BY <1>2
  <2>3. CASE conv[d].note = n
    <3>1. conv'[d] = [conv[d] EXCEPT !.state = "deleted", !.messages = <<>>]
      BY <2>3 DEF PurgeNote
    <3> QED
      BY <2>1, <3>1, DeletedRow
  <2>2. CASE conv[d].note # n
    <3>1. conv'[d] = conv[d]
      BY <2>2 DEF PurgeNote
    <3> QED
      BY <2>1, <3>1
  <2> QED
    BY <2>2, <2>3
<1>9. conv' \in [Conversations -> ConvRow]
  <2>1. conv' = [d \in Conversations |-> conv'[d]]
    BY DEF PurgeNote
  <2> QED
    BY <1>8, <2>1
<1>10. RowTypes'
  BY <1>1, <1>2, <1>5, <1>9 DEF RowTypes, Inv, Types
<1>11. Kept(<<>>)
  BY DEF Kept
<1>12. \A d \in Conversations : Keeps(d) /\ Kept(conv'[d].messages)
  BY <1>8, <1>11 DEF Keeps, Inv, Messages
<1> QED
  BY <1>1, <1>7, <1>10, <1>12, OutsideKeeps

\* SetDefaultAgent: a handler has the agent it has taken.
LEMMA SetDefaultAgentKeeps ==
    ASSUME Inv, NEW a \in Agents \cup {NoAgent}, SetDefaultAgent(a)
    PROVE  Inv'
<1>1. Change /\ agent' = a /\ UNCHANGED <<note, conv>>
  BY DEF SetDefaultAgent
<1>2. conv' \in [Conversations -> ConvRow]
  BY <1>1 DEF Inv, Types
<1>3. RowTypes' /\ NotesMove
  BY <1>1, <1>2, NotesStay
<1>4. \A d \in Conversations : Keeps(d) /\ Kept(conv'[d].messages)
  BY <1>1 DEF Inv, Keeps, Messages
<1>5. UNCHANGED <<send, guard>>
  BY <1>1, ChangeIs
<1> QED
  BY <1>3, <1>4, <1>5, OutsideKeeps

\* Restart: what was kept is in the tables.
LEMMA RestartKeeps ==
    ASSUME Inv, Restart
    PROVE  Inv'
<1>1. /\ bounds' = [bounds EXCEPT !.faults = @ + 1] /\ send' = [s \in Sends |-> Idle]
      /\ guard' = {} /\ UNCHANGED <<note, agent, conv>>
  BY DEF Restart
<1>2. /\ bounds' \in [sends : Nat, changes : Nat, faults : Nat]
      /\ bounds'.changes = bounds.changes
  BY <1>1, BoundsMove DEF Inv
<1>3. RowTypes' /\ \A d \in Conversations : Kept(conv'[d].messages)
  BY <1>1, <1>2, RowsStay
<1>4. \A s \in Sends : send'[s] = Idle
  BY <1>1
<1>5. \A s \in Sends : SendOK(s)'
  BY <1>3, <1>4, IdleOK
<1>6. send' \in [Sends -> SendState]
  BY <1>1, IdleIs
<1>7. Types'
  BY <1>3, <1>6 DEF Types, RowTypes
<1>8. Guards'
  BY <1>1, <1>4, IdleIs DEF Guards
<1>9. \A c \in Conversations : Kept(Messages(c))'
  BY <1>3 DEF Messages, Kept
<1> QED
  BY <1>5, <1>7, <1>8, <1>9 DEF Inv

-----------------------------------------------------------------------------
(* The theorems.                                                           *)

\* The first state.
LEMMA InitInv == ASSUME Init PROVE Inv
<1>1. note \in [Notes -> NoteRow] /\ \A n \in Notes : note[n].gen = 1
  <2>1. 1 \in 1..(MaxChanges + 1)
    BY ConstantsAssumption
  <2> QED
    BY <2>1 DEF Init, NoteRow
<1>2. agent \in Agents \cup {NoAgent}
  BY ConstantsAssumption DEF Init
<1>3. conv \in [Conversations -> ConvRow] /\ \A c \in Conversations : conv[c].messages = <<>>
  <2> DEFINE e == <<>>
             r == [state |-> "unborn", note |-> NoNote, titled |-> FALSE, messages |-> e]
  <2>1. e \in Seq(Message)
    OBVIOUS
  <2>2. conv = [c \in Conversations |-> r]
    BY DEF Init
  <2> HIDE DEF e
  <2>3. r \in ConvRow /\ r.messages = e
    BY <2>1 DEF ConvRow
  <2> HIDE DEF r
  <2> QED
    BY <2>2, <2>3 DEF e
<1>4. send \in [Sends -> SendState] /\ \A s \in Sends : send[s] = Idle
  BY IdleIs DEF Init
<1>5. /\ guard = {} /\ bounds \in [sends : Nat, changes : Nat, faults : Nat]
      /\ bounds.changes = 0
  BY DEF Init
<1>6. Types
  BY <1>1, <1>2, <1>3, <1>4, <1>5, ConstantsAssumption DEF Types
<1>7. ASSUME NEW s \in Sends
      PROVE  SendOK(s)
  <2>1. /\ send[s].pc = "idle" /\ ~send[s].holds /\ send[s].kind = "chat" /\ ~send[s].new
        /\ \A n \in Notes : send[s].snap[n].gen = 0
    BY <1>4, IdleIs
  <2>2. HoldsOK(s) /\ Knows(s) /\ Admits(s)
    BY <2>1 DEF HoldsOK, Homeless, Knows, Reading, Admits, Chat, Preflight, Analysis
  <2>3. Seen(s)
    BY <1>1, <2>1 DEF Seen, Stands
  <2> QED
    BY <2>2, <2>3 DEF SendOK
<1>8. Guards
  BY <1>4, <1>5, IdleIs DEF Guards
<1>9. \A c \in Conversations : Kept(Messages(c))
  BY <1>3 DEF Kept, Messages
<1> QED
  BY <1>6, <1>7, <1>8, <1>9 DEF Inv

\* Nothing happens.
LEMMA StutterInv == ASSUME Inv, UNCHANGED vars PROVE Inv'
<1>1. Types' /\ Guards'
  BY DEF Inv, vars, Types, Guards
<1>2. \A c \in Conversations : Kept(Messages(c))'
  BY DEF Inv, vars, Messages, Kept
<1>3. \A s \in Sends : SendOK(s)'
  BY DEF Inv, vars, SendOK, HoldsOK, Homeless, Knows, Reading, Live, Messages, Admits, Seen, Stands
<1> QED
  BY <1>1, <1>2, <1>3 DEF Inv

\* A step of a handler.
LEMMA HandlerInv ==
    ASSUME Inv, NEW s \in Sends, Arrive(s) \/ ChatStep(s) \/ CrossStep(s) \/ Fail(s)
    PROVE  Inv'
<1>1. CASE Arrive(s)
  BY <1>1, HandleSendMessageKeeps, HandleCreateAndSendKeeps,
     HandleCreateAndSendCrossAnalysisKeeps DEF Arrive
<1>2. CASE ChatStep(s)
  BY <1>2, TryAcquireKeeps, ReadHistoryKeeps, ResolveAgentKeeps, GenerateKeeps,
     AppendUserMessageKeeps, AppendAssistantMessageKeeps, GenerateConversationTitleKeeps
     DEF ChatStep
<1>3. CASE CrossStep(s)
  BY <1>3, ReadNotesKeeps, ReadTranscriptsKeeps, ReadSegmentsKeeps, AdmitKeeps,
     CreateForCrossAnalysisKeeps, VerifyKeeps, RecheckAgentKeeps, ListMessagesKeeps,
     AppendCrossAnalysisTurnKeeps DEF CrossStep
<1>4. CASE Fail(s)
  BY <1>4, FailKeeps
<1> QED
  BY <1>1, <1>2, <1>3, <1>4

\* Every step keeps the invariant.
LEMMA StepInv == ASSUME Inv, [Next]_vars PROVE Inv'
<1>1. CASE \E s \in Sends : Arrive(s) \/ ChatStep(s) \/ CrossStep(s) \/ Fail(s)
  BY <1>1, HandlerInv
<1>2. CASE \E c \in Conversations, n \in Notes \cup {NoNote}, titled \in BOOLEAN :
              HandleCreateConversation(c, n, titled)
  BY <1>2, HandleCreateConversationKeeps
<1>3. CASE \E c \in Conversations : DeleteConversation(c)
  BY <1>3, DeleteConversationKeeps
<1>4. CASE \E n \in Notes, ready \in BOOLEAN : ReplaceTranscript(n, ready)
  BY <1>4, ReplaceTranscriptKeeps
<1>5. CASE \E n \in Notes : TrashNote(n) \/ RestoreNote(n) \/ PurgeNote(n)
  BY <1>5, TrashNoteKeeps, RestoreNoteKeeps, PurgeNoteKeeps
<1>6. CASE \E a \in Agents \cup {NoAgent} : SetDefaultAgent(a)
  BY <1>6, SetDefaultAgentKeeps
<1>7. CASE Restart
  BY <1>7, RestartKeeps
<1>8. CASE UNCHANGED vars
  BY <1>8, StutterInv
<1> QED
  BY <1>1, <1>2, <1>3, <1>4, <1>5, <1>6, <1>7, <1>8 DEF Next

\* The invariant holds in every state, for any number of sends, of faults and of changes.
THEOREM InvAlways == Spec => []Inv
<1>1. Init => Inv
  BY InitInv
<1>2. Inv /\ [Next]_vars => Inv'
  BY StepInv
<1> QED
  BY <1>1, <1>2, PTL DEF Spec

\* The messages Kept speaks of are those of a conversation.
LEMMA MessagesOf ==
    ASSUME Inv, NEW c \in Conversations
    PROVE  DOMAIN Messages(c) = 1..Len(Messages(c)) /\ Kept(Messages(c))
BY LengthIsNat DEF Inv

\* An answer directly follows its own question, and was written in the knowledge of
\* everything said before it: no turn of another handler of the conversation comes in
\* between the read of the history and the appends (sendChatMessage, invokeCrossAnalysis).
\* The guard is held by a handler that is under way, and by one only (chatSendGuard).
THEOREM TurnsAreWhole == Spec => []AnsweredInContext
<1>1. ASSUME Inv
      PROVE  AnsweredInContext
  <2>1. TypeOK
    BY <1>1 DEF Inv, Types, TypeOK, NoteRow, ConvRow, SendState
  <2>2. GuardIsHeld
    <3>1. guard = {send[s].conv : s \in {t \in Sends : send[t].holds}}
      BY <1>1 DEF Inv, Guards
    <3>2. \A s, t \in Sends :
             send[s].holds /\ send[t].holds /\ send[s].conv = send[t].conv => s = t
      BY <1>1 DEF Inv, Guards
    <3> QED
      BY <3>1, <3>2 DEF GuardIsHeld
  <2>3. \A c \in Conversations : \A i \in DOMAIN Messages(c) :
           LET m == Messages(c)[i] IN
           m.role = "assistant" =>
              /\ i > 1
              /\ Messages(c)[i - 1].role = "user" /\ Messages(c)[i - 1].turn = m.turn
              /\ m.known = i - 2
    BY <1>1, MessagesOf DEF Kept
  <2> QED
    BY <2>1, <2>2, <2>3 DEF AnsweredInContext
<1> QED
  BY <1>1, InvAlways, PTL

\* The analysis a conversation keeps has all the meetings it was asked about for its
\* sources, and was written by an agent whose configuration was admitted: what was replaced,
\* trashed, purged or reconfigured since the preflight is found out before the plugin is
\* called (VerifyCrossAnalysisGenerations, and the second look at the agent).
THEOREM AnalysesAreWhole == Spec => []AnalysedAsAdmitted
<1>1. ASSUME Inv
      PROVE  AnalysedAsAdmitted
  BY <1>1, MessagesOf DEF Kept, AnalysedAsAdmitted
<1> QED
  BY <1>1, InvAlways, PTL

-----------------------------------------------------------------------------
(* Folders (module Library).                                               *)

\* What is reached from f within S when p gives the parents.
Reach(p, f, S) ==
    {g \in S : \A C \in SUBSET S :
        {f} \cap S \subseteq C /\ (\A h \in S : p[h] \in C => h \in C) => g \in C}

\* The parents in the table.
Parents == [f \in Folders |-> folder[f].parent]

Desc(f) == Reach(Parents, f, Cabinet!Stored)

\* No two folders of S are below each other.
NoCycle(p, S) ==
    \A f \in S : \A g \in Reach(p, f, S) : f \in Reach(p, g, S) => g = f

\* The foreign key of parent_id, and ids that have no row yet.
FoldersFit ==
    /\ DOMAIN folder = Folders
    /\ \A f \in Folders :
          /\ DOMAIN folder[f] = {"state", "parent", "shared", "pos"}
          /\ folder[f].state \in {"unused", "live", "trashed", "purged"}
          /\ folder[f].parent \in Folders \cup {0}
          /\ folder[f].parent # 0 => f \in Cabinet!Stored /\ folder[f].parent \in Cabinet!Stored

\* What has been checked and is yet to be written.
DraftsFit ==
    /\ DOMAIN request = Handlers
    /\ \A h \in Handlers : request[h].op \in {"create", "update"} =>
          /\ request[h].folder \in Folders
          /\ request[h].parent \in Folders \cup {0}
    /\ \A h \in Handlers : request[h].op = "create" =>
          /\ folder[request[h].folder].state = "unused"
          /\ \A i \in Handlers : request[i].op = "create" /\ request[i].folder = request[h].folder
                                     => i = h

Tree ==
    /\ NoCycle(Parents, Cabinet!Stored)
    /\ \A f \in Folders : Cabinet!Live(f) /\ folder[f].parent # 0 => Cabinet!Live(folder[f].parent)

FolderInv == FoldersFit /\ DraftsFit /\ (~raced => Tree)

-----------------------------------------------------------------------------

\* What is reached is within S, has f, and has the children of what it has.
LEMMA ReachFacts ==
    ASSUME NEW p, NEW S, NEW f
    PROVE  /\ Reach(p, f, S) \subseteq S
           /\ f \in S => f \in Reach(p, f, S)
           /\ \A h \in S : p[h] \in Reach(p, f, S) => h \in Reach(p, f, S)
  BY DEF Reach

\* Whatever has f and the children of what it has, has all that is reached.
LEMMA ReachLeast ==
    ASSUME NEW p, NEW S, NEW f, NEW C \in SUBSET S,
           f \in S => f \in C, \A h \in S : p[h] \in C => h \in C
    PROVE  Reach(p, f, S) \subseteq C
  BY DEF Reach

\* The subtree of a descendant is within the subtree.
LEMMA ReachTrans ==
    ASSUME NEW p, NEW S, NEW f, NEW g \in Reach(p, f, S)
    PROVE  Reach(p, g, S) \subseteq Reach(p, f, S)
<1> DEFINE R == Reach(p, f, S)
<1>1. R \in SUBSET S  BY ReachFacts
<1>2. \A h \in S : p[h] \in R => h \in R  BY ReachFacts
<1> QED  BY <1>1, <1>2, ReachLeast

\* A descendant other than the top has its parent in the subtree.
LEMMA ReachParent ==
    ASSUME NEW p, NEW S, NEW f, NEW g \in Reach(p, f, S), g # f
    PROVE  p[g] \in Reach(p, f, S)
<1> SUFFICES ASSUME p[g] \notin Reach(p, f, S) PROVE FALSE  OBVIOUS
<1> DEFINE R == Reach(p, f, S)
           C == R \ {g}
<1>0. R \subseteq S /\ (f \in S => f \in R) /\ \A h \in S : p[h] \in R => h \in R  BY ReachFacts
<1>1. C \in SUBSET S  BY <1>0
<1>2. f \in S => f \in C  BY <1>0
<1>3. \A h \in S : p[h] \in C => h \in C  BY <1>0
<1>4. R \subseteq C
  <2> HIDE DEF C
  <2> QED  BY <1>1, <1>2, <1>3, ReachLeast
<1> QED  BY <1>4

\* Taking folders away, or out of their parents, closes no cycle.
LEMMA FewerFolders ==
    ASSUME NEW p, NEW q, NEW S, NEW T \in SUBSET S, NoCycle(p, S),
           \A h \in T : q[h] = p[h] \/ q[h] \notin S
    PROVE  NoCycle(q, T)
<1>1. ASSUME NEW f \in T PROVE Reach(q, f, T) \subseteq Reach(p, f, S)
  <2> DEFINE C == Reach(p, f, S) \cap T
  <2>1. C \in SUBSET T /\ f \in C  BY ReachFacts
  <2>2. \A h \in T : q[h] \in C => h \in C
    <3> SUFFICES ASSUME NEW h \in T, q[h] \in C PROVE h \in C  OBVIOUS
    <3>1. q[h] \in S  BY ReachFacts
    <3>2. p[h] \in Reach(p, f, S)  BY <3>1
    <3> QED  BY <3>2, ReachFacts
  <2>3. Reach(q, f, T) \subseteq C  BY <2>1, <2>2, ReachLeast
  <2> QED  BY <2>3
<1> SUFFICES ASSUME NEW f \in T, NEW g \in Reach(q, f, T), f \in Reach(q, g, T) PROVE g = f
  BY DEF NoCycle
<1>2. g \in T  BY ReachFacts
<1>3. g \in Reach(p, f, S) /\ f \in Reach(p, g, S)  BY <1>1, <1>2
<1> QED  BY <1>3 DEF NoCycle

\* A new folder that is nobody's parent closes no cycle.
LEMMA NewFolder ==
    ASSUME NEW p, NEW q, NEW S, NEW f, f \notin S, NoCycle(p, S),
           \A h \in S : p[h] # f /\ q[h] = p[h], q[f] # f
    PROVE  NoCycle(q, S \cup {f})
<1> DEFINE T == S \cup {f}
<1>1. Reach(q, f, T) \subseteq {f}
  <2> DEFINE C == {f}
  <2>1. C \in SUBSET T /\ f \in C  OBVIOUS
  <2>2. \A h \in T : q[h] \in C => h \in C  OBVIOUS
  <2> QED  BY <2>1, <2>2, ReachLeast
<1>2. ASSUME NEW g \in S PROVE Reach(q, g, T) \subseteq Reach(p, g, S) \cup {f}
  <2> DEFINE C == Reach(p, g, S) \cup {f}
  <2>1. Reach(p, g, S) \subseteq S /\ g \in Reach(p, g, S)  BY ReachFacts
  <2>2. C \in SUBSET T /\ g \in C  BY <2>1
  <2>3. \A h \in T : q[h] \in C => h \in C
    <3> SUFFICES ASSUME NEW h \in S, q[h] \in C PROVE h \in C  OBVIOUS
    <3>1. p[h] \in Reach(p, g, S)  OBVIOUS
    <3> QED  BY <3>1, ReachFacts
  <2>4. Reach(q, g, T) \subseteq C
    <3> HIDE DEF C, T
    <3> QED  BY <2>2, <2>3, ReachLeast
  <2> QED  BY <2>4
<1> SUFFICES ASSUME NEW a \in T, NEW b \in Reach(q, a, T), a \in Reach(q, b, T), a # b PROVE FALSE
  BY DEF NoCycle
<1>3. b \in T  BY ReachFacts
<1>4. a # f /\ b # f  BY <1>1
<1>5. b \in Reach(p, a, S) /\ a \in Reach(p, b, S)  BY <1>2, <1>3, <1>4
<1> QED  BY <1>4, <1>5 DEF NoCycle

\* Moving a folder to a place outside its own subtree closes no cycle.
LEMMA MovedFolder ==
    ASSUME NEW p, NEW q, NEW S, NEW f \in S, NEW t, t \notin Reach(p, f, S), NoCycle(p, S),
           \A h \in S \ {f} : q[h] = p[h], q[f] = t
    PROVE  NoCycle(q, S)
<1>1. ASSUME NEW x \in S, t \notin Reach(p, x, S) PROVE Reach(q, x, S) \subseteq Reach(p, x, S)
  <2> DEFINE C == Reach(p, x, S)
  <2>1. C \in SUBSET S /\ x \in C  BY ReachFacts
  <2>2. \A h \in S : q[h] \in C => h \in C
    <3> SUFFICES ASSUME NEW h \in S, q[h] \in C PROVE h \in C  OBVIOUS
    <3>1. p[h] \in C  BY <1>1
    <3> QED  BY <3>1, ReachFacts
  <2> QED  BY <2>1, <2>2, ReachLeast
<1>2. ASSUME NEW x \in S PROVE Reach(q, x, S) \subseteq Reach(p, x, S) \cup Reach(p, f, S)
  <2> DEFINE C == Reach(p, x, S) \cup Reach(p, f, S)
  <2>1. C \in SUBSET S /\ x \in C /\ f \in C  BY ReachFacts
  <2>2. \A h \in S : q[h] \in C => h \in C
    <3> SUFFICES ASSUME NEW h \in S, q[h] \in C, h # f PROVE h \in C  BY <2>1
    <3>1. p[h] \in C  OBVIOUS
    <3> QED  BY <3>1, ReachFacts
  <2>3. Reach(q, x, S) \subseteq C
    <3> HIDE DEF C
    <3> QED  BY <2>1, <2>2, ReachLeast
  <2> QED  BY <2>3
<1>3. ASSUME NEW a \in S, NEW b \in S, a # b, t \in Reach(p, a, S),
             b \in Reach(q, a, S), a \in Reach(q, b, S)
      PROVE  FALSE
  <2>1. a \notin Reach(p, f, S)  BY <1>3, ReachTrans
  <2>2. a \in Reach(p, b, S)  BY <1>2, <1>3, <2>1
  <2>3. t \in Reach(p, b, S)  BY <1>3, <2>2, ReachTrans
  <2>4. b \notin Reach(p, f, S)  BY <2>3, ReachTrans
  <2>5. b \in Reach(p, a, S)  BY <1>2, <1>3, <2>4
  <2> QED  BY <1>3, <2>2, <2>5 DEF NoCycle
<1> SUFFICES ASSUME NEW a \in S, NEW b \in Reach(q, a, S), a \in Reach(q, b, S), a # b PROVE FALSE
  BY DEF NoCycle
<1>4. b \in S  BY ReachFacts
<1>5. t \notin Reach(p, a, S) /\ t \notin Reach(p, b, S)  BY <1>3, <1>4
<1>6. b \in Reach(p, a, S) /\ a \in Reach(p, b, S)  BY <1>1, <1>4, <1>5
<1> QED  BY <1>6 DEF NoCycle

\* Below is this reach (the recursive queries of folders.go).
LEMMA BelowIsReach ==
    ASSUME NEW f, NEW T \in SUBSET Folders PROVE Cabinet!Below(f, T) = Reach(Parents, f, T)
<1>1. \A g \in T : Parents[g] = folder[g].parent  BY DEF Parents
<1> QED  BY <1>1 DEF Cabinet!Below, Reach

\* folderDescendants in the terms of the parents.
LEMMA DescendantsAreReach ==
    ASSUME NEW f PROVE Cabinet!FolderDescendants(f) = Reach(Parents, f, Cabinet!Stored)
  BY BelowIsReach DEF Cabinet!FolderDescendants, Cabinet!Stored

-----------------------------------------------------------------------------

\* A step that moves no folder and neither trashes, restores nor purges one.
LEMMA SameShape ==
    ASSUME FoldersFit, DOMAIN folder' = Folders,
           \A f \in Folders : /\ DOMAIN folder'[f] = DOMAIN folder[f]
                              /\ folder'[f].state = folder[f].state
                              /\ folder'[f].parent = folder[f].parent
    PROVE  FoldersFit' /\ (Tree => Tree')
<1>1. Cabinet!Stored' = Cabinet!Stored  BY DEF Cabinet!Stored
<1>2. Parents' = Parents  BY DEF Parents
<1>3. FoldersFit'  BY <1>1 DEF FoldersFit
<1>4. ASSUME Tree PROVE Tree'
  <2>1. NoCycle(Parents, Cabinet!Stored)'  BY <1>1, <1>2, <1>4 DEF Tree
  <2>2. \A f \in Folders : (Cabinet!Live(f))' <=> Cabinet!Live(f)  BY DEF Cabinet!Live
  <2>3. ASSUME NEW f \in Folders, (Cabinet!Live(f))', folder'[f].parent # 0
        PROVE  (Cabinet!Live(folder[f].parent))'
    <3>1. Cabinet!Live(folder[f].parent)  BY <1>4, <2>2, <2>3 DEF Tree
    <3>2. folder[f].parent \in Folders  BY <3>1 DEF Cabinet!Live
    <3> QED  BY <2>2, <3>1, <3>2 DEF Cabinet!Live
  <2> QED  BY <2>1, <2>3 DEF Tree
<1> QED  BY <1>3, <1>4

\* The requests under way when one of them ends, or none does.
LEMMA DraftsGoOn ==
    ASSUME DraftsFit, DOMAIN request' = Handlers,
           \A i \in Handlers : request'[i] = request[i] \/ request'[i].op = "none",
           \A i \in Handlers : request'[i].op = "create" =>
               folder'[request[i].folder].state = folder[request[i].folder].state
    PROVE  DraftsFit'
<1>1. \A i \in Handlers : request'[i].op # "none" => request'[i] = request[i]  OBVIOUS
<1> QED  BY <1>1 DEF DraftsFit

\* A step that leaves the ids of new folders alone.
LEMMA DraftsStay ==
    ASSUME FoldersFit, DraftsFit, request' = request,
           \A f \in Folders : folder[f].state = "unused" => folder'[f].state = "unused"
    PROVE  DraftsFit'
<1>1. \A i \in Handlers : request'[i].op = "create" =>
          folder'[request[i].folder].state = folder[request[i].folder].state
  BY DEF DraftsFit
<1> QED  BY <1>1, DraftsGoOn DEF DraftsFit

\* The end of a request that left the folders alone or changed one that had a row.
LEMMA DraftsFinish ==
    ASSUME FoldersFit, DraftsFit, NEW h \in Handlers, Cabinet!Finish(h),
           \A i \in Handlers \ {h} : request[i].op = "create" =>
               folder'[request[i].folder].state = folder[request[i].folder].state
    PROVE  DraftsFit'
<1>1. request' = [request EXCEPT ![h] = Cabinet!NoRequest]  BY DEF Cabinet!Finish
<1>2. Cabinet!NoRequest.op = "none"  BY DEF Cabinet!NoRequest
<1>3. DOMAIN request' = Handlers /\ request'[h].op = "none"  BY <1>1, <1>2 DEF DraftsFit
<1>4. \A i \in Handlers \ {h} : request'[i] = request[i]  BY <1>1 DEF DraftsFit
<1> QED  BY <1>3, <1>4, DraftsGoOn

\* A write made on a check that no longer held is remembered.
LEMMA FinishTells ==
    ASSUME NEW h \in Handlers, Cabinet!Finish(h), ~raced'
    PROVE  ~raced /\ Cabinet!Checked(request[h])
  BY DEF Cabinet!Finish

-----------------------------------------------------------------------------
(* Requests that check first and write later.                              *)

\* A request that is checked, and writes nothing yet.
LEMMA BeginFolders ==
    ASSUME FolderInv, NEW h \in Handlers, NEW r, Cabinet!Begin(h, r),
           r.op \in {"create", "update"} => r.folder \in Folders /\ r.parent \in Folders \cup {0},
           r.op = "create" => /\ folder[r.folder].state = "unused"
                              /\ \A i \in Handlers : request[i].folder # r.folder
    PROVE  FolderInv'
<1>1. /\ UNCHANGED <<folder, raced>> /\ request' = [request EXCEPT ![h] = r]
  BY DEF Cabinet!Begin
<1>2. FoldersFit' /\ (Tree => Tree')  BY <1>1, SameShape DEF FolderInv, FoldersFit
<1>3. DraftsFit'
  <2>1. DOMAIN request' = Handlers /\ request'[h] = r /\ \A i \in Handlers \ {h} : request'[i] = request[i]
    BY <1>1 DEF FolderInv, DraftsFit
  <2> QED  BY <1>1, <2>1 DEF FolderInv, DraftsFit
<1> QED  BY <1>1, <1>2, <1>3 DEF FolderInv

\* A folder is about to be created.
LEMMA HandleCreateFolderFolders ==
    ASSUME FolderInv, NEW h \in Handlers, NEW f \in Folders, NEW p \in Folders \cup {0},
           Cabinet!HandleCreateFolder(h, f, p)
    PROVE  FolderInv'
<1> DEFINE r == [op |-> "create", user |-> FolderOwner[f], folder |-> f, parent |-> p, note |-> 0]
<1>1. /\ folder[f].state = "unused" /\ \A i \in Handlers : request[i].folder # f
      /\ Cabinet!Begin(h, r)
  BY DEF Cabinet!HandleCreateFolder
<1>2. r.folder = f /\ r.parent = p  OBVIOUS
<1> HIDE DEF r
<1> QED  BY <1>1, <1>2, BeginFolders

\* A folder is about to be moved.
LEMMA HandleUpdateFolderFolders ==
    ASSUME FolderInv, NEW h \in Handlers, NEW f \in Folders, NEW p \in Folders \cup {0},
           NEW u, Cabinet!HandleUpdateFolder(h, u, f, p)
    PROVE  FolderInv'
<1> DEFINE r == [op |-> "update", user |-> u, folder |-> f, parent |-> p, note |-> 0]
<1>1. Cabinet!Begin(h, r)  BY DEF Cabinet!HandleUpdateFolder
<1>2. r.folder = f /\ r.parent = p /\ r.op = "update"  OBVIOUS
<1> HIDE DEF r
<1> QED  BY <1>1, <1>2, BeginFolders

\* A note is about to be filed or unfiled.
LEMMA HandleFilingFolders ==
    ASSUME FolderInv, NEW h \in Handlers, NEW f, NEW n, NEW u,
           Cabinet!HandleAddNoteFolder(h, u, n, f) \/ Cabinet!HandleRemoveNoteFolder(h, u, n, f)
    PROVE  FolderInv'
<1>1. PICK r : Cabinet!Begin(h, r) /\ r.op \in {"file", "unfile"}
  BY DEF Cabinet!HandleAddNoteFolder, Cabinet!HandleRemoveNoteFolder
<1> QED  BY <1>1, BeginFolders

\* Filing touches no folder.
LEMMA FilingFolders ==
    ASSUME FolderInv, NEW h \in Handlers, Cabinet!AddNoteFolder(h) \/ Cabinet!RemoveNoteFolder(h)
    PROVE  FolderInv'
<1>1. UNCHANGED folder /\ Cabinet!Finish(h)  BY DEF Cabinet!AddNoteFolder, Cabinet!RemoveNoteFolder
<1>2. FoldersFit' /\ (Tree => Tree')  BY <1>1, SameShape DEF FolderInv, FoldersFit
<1>3. DraftsFit'  BY <1>1, DraftsFinish DEF FolderInv
<1>4. ~raced' => ~raced  BY <1>1, FinishTells
<1> QED  BY <1>2, <1>3, <1>4 DEF FolderInv

\* A folder f that is given the parent p, at the top or stored.
LEMMA Attach ==
    ASSUME FoldersFit, NEW f \in Folders, NEW p \in Folders \cup {0}, NEW entry,
           p # 0 => p \in Cabinet!Stored,
           folder' = [folder EXCEPT ![f] = entry], DOMAIN entry = {"state", "parent", "shared", "pos"},
           entry.state = "live", entry.parent = p
    PROVE  /\ FoldersFit'
           /\ Cabinet!Stored' = Cabinet!Stored \cup {f}
           /\ \A g \in Folders \ {f} : Parents'[g] = Parents[g]
           /\ Parents'[f] = p
<1>0. f # 0  BY NotebookAssumption
<1>1. DOMAIN folder' = Folders /\ folder'[f] = entry /\ \A g \in Folders \ {f} : folder'[g] = folder[g]
  BY DEF FoldersFit
<1>2. Cabinet!Stored' = Cabinet!Stored \cup {f}  BY <1>1 DEF Cabinet!Stored
<1>3. FoldersFit'  BY <1>1, <1>2 DEF FoldersFit
<1>4. Parents' = [g \in Folders |-> folder'[g].parent]  BY DEF Parents
<1> QED  BY <1>1, <1>2, <1>3, <1>4 DEF Parents

\* It is in the tree as what it hangs on is, unless it is above it.
LEMMA AttachLive ==
    ASSUME FoldersFit, Tree, NEW f \in Folders, NEW p \in Folders \cup {0}, NEW entry,
           p # 0 => Cabinet!Live(p), folder[f].state \in {"unused", "live"},
           folder' = [folder EXCEPT ![f] = entry],
           entry.state = "live", entry.parent = p
    PROVE  \A g \in Folders : (Cabinet!Live(g))' /\ folder'[g].parent # 0
                                  => (Cabinet!Live(folder[g].parent))'
<1>1. DOMAIN folder' = Folders /\ folder'[f] = entry /\ \A g \in Folders \ {f} : folder'[g] = folder[g]
  BY DEF FoldersFit
<1> QED  BY <1>1 DEF Cabinet!Live, Tree

\* A folder that was unused is nobody's parent.
LEMMA UnusedIsLeaf ==
    ASSUME FoldersFit, NEW f \in Folders, folder[f].state = "unused"
    PROVE  f \notin Cabinet!Stored /\ \A g \in Cabinet!Stored : Parents[g] # f
<1>1. f \notin Cabinet!Stored /\ f # 0 /\ Cabinet!Stored \subseteq Folders
  BY NotebookAssumption DEF Cabinet!Stored
<1>2. \A g \in Cabinet!Stored : Parents[g] = folder[g].parent  BY <1>1 DEF Parents
<1> QED  BY <1>1, <1>2 DEF FoldersFit

\* A new folder has nothing below it.
LEMMA CreateFolderFolders ==
    ASSUME FolderInv, NEW h \in Handlers, Cabinet!CreateFolder(h)
    PROVE  FolderInv'
<1>1. PICK r : r = request[h]  OBVIOUS
<1>2. r.op = "create" /\ Cabinet!Finish(h)  BY <1>1 DEF Cabinet!CreateFolder
<1>3. /\ r.folder \in Folders /\ r.parent \in Folders \cup {0} /\ folder[r.folder].state = "unused"
      /\ \A i \in Handlers \ {h} : request[i].op = "create" => request[i].folder # r.folder
  BY <1>1, <1>2 DEF FolderInv, DraftsFit
<1>4. CASE ~Cabinet!Referable(r.parent)
  <2>1. folder' = folder  BY <1>1, <1>4 DEF Cabinet!CreateFolder
  <2>2. FoldersFit' /\ (Tree => Tree')  BY <2>1, SameShape DEF FolderInv, FoldersFit
  <2>3. DraftsFit'  BY <1>2, <2>1, DraftsFinish DEF FolderInv
  <2> QED  BY <1>2, <2>2, <2>3, FinishTells DEF FolderInv
<1>5. CASE Cabinet!Referable(r.parent)
  <2>0. PICK pos : pos = Cabinet!NextPosition(Cabinet!SiblingPositions(r.user, r.parent, r.folder))
    OBVIOUS
  <2> DEFINE entry == [state |-> "live", parent |-> r.parent, shared |-> FALSE, pos |-> pos]
  <2>1. /\ folder' = [folder EXCEPT ![r.folder] = entry]
        /\ DOMAIN entry = {"state", "parent", "shared", "pos"}
        /\ entry.state = "live" /\ entry.parent = r.parent
    BY <1>1, <1>5, <2>0 DEF Cabinet!CreateFolder
  <2> HIDE DEF entry
  <2>2. r.parent # 0 => r.parent \in Cabinet!Stored  BY <1>5 DEF Cabinet!Referable, Cabinet!Root
  <2>3. /\ FoldersFit' /\ Cabinet!Stored' = Cabinet!Stored \cup {r.folder}
        /\ \A g \in Folders \ {r.folder} : Parents'[g] = Parents[g]
        /\ Parents'[r.folder] = r.parent
    <3>1. PICK f \in Folders, p \in Folders \cup {0} : f = r.folder /\ p = r.parent  BY <1>3
    <3>2. /\ folder' = [folder EXCEPT ![f] = entry] /\ entry.parent = p
          /\ p # 0 => p \in Cabinet!Stored
      BY <2>1, <2>2, <3>1
    <3>3. FoldersFit  BY DEF FolderInv
    <3>4. /\ FoldersFit' /\ Cabinet!Stored' = Cabinet!Stored \cup {f}
          /\ \A g \in Folders \ {f} : Parents'[g] = Parents[g]
          /\ Parents'[f] = p
      BY <2>1, <3>2, <3>3, Attach
    <3> QED  BY <3>1, <3>4
  <2>4. \A i \in Handlers \ {h} : request[i].op = "create" =>
            folder'[request[i].folder].state = folder[request[i].folder].state
    BY <1>3, <2>1 DEF FolderInv, FoldersFit, DraftsFit
  <2>5. DraftsFit'  BY <1>2, <2>4, DraftsFinish DEF FolderInv
  <2>6. ASSUME ~raced' PROVE Tree'
    <3>1. ~raced /\ Cabinet!Checked(r)  BY <1>1, <1>2, <2>6, FinishTells
    <3>2. Tree  BY <3>1 DEF FolderInv
    <3>3. Cabinet!ValidateParent(r.user, r.folder, r.parent)  BY <1>2, <3>1 DEF Cabinet!Checked
    <3>4. r.parent # 0 => Cabinet!Live(r.parent) /\ r.parent # r.folder
      BY <3>3 DEF Cabinet!ValidateParent, Cabinet!Root
    <3>5. \A g \in Folders : (Cabinet!Live(g))' /\ folder'[g].parent # 0
                                  => (Cabinet!Live(folder[g].parent))'
      BY <1>3, <2>1, <3>2, <3>4, AttachLive DEF FolderInv
    <3>6. r.folder \notin Cabinet!Stored /\ \A g \in Cabinet!Stored : Parents[g] # r.folder
      BY <1>3, UnusedIsLeaf DEF FolderInv
    <3>7. Cabinet!Stored \subseteq Folders  BY DEF Cabinet!Stored
    <3>8. r.parent # r.folder  BY <1>3, <3>4, NotebookAssumption
    <3>9. NoCycle(Parents', Cabinet!Stored \cup {r.folder})
      BY <2>3, <3>2, <3>6, <3>7, <3>8, NewFolder DEF Tree
    <3> QED  BY <2>3, <3>5, <3>9 DEF Tree
  <2> QED  BY <2>3, <2>5, <2>6 DEF FolderInv
<1> QED  BY <1>4, <1>5

\* A folder moves to one that was not below it.
LEMMA UpdateFolderFolders ==
    ASSUME FolderInv, NEW h \in Handlers, Cabinet!UpdateFolder(h)
    PROVE  FolderInv'
<1>1. PICK r : r = request[h]  OBVIOUS
<1>2. r.op = "update" /\ Cabinet!Finish(h)  BY <1>1 DEF Cabinet!UpdateFolder
<1>3. r.folder \in Folders /\ r.parent \in Folders \cup {0}  BY <1>1, <1>2 DEF FolderInv, DraftsFit
<1> DEFINE Writes == /\ Cabinet!Live(r.folder) /\ Cabinet!Referable(r.parent)
                     /\ folder[r.folder].parent # r.parent
<1>4. CASE ~Writes
  <2>1. folder' = folder  BY <1>1, <1>4 DEF Cabinet!UpdateFolder
  <2>2. FoldersFit' /\ (Tree => Tree')  BY <2>1, SameShape DEF FolderInv, FoldersFit
  <2>3. DraftsFit'  BY <1>2, <2>1, DraftsFinish DEF FolderInv
  <2> QED  BY <1>2, <2>2, <2>3, FinishTells DEF FolderInv
<1>5. CASE Writes
  <2>0. folder[r.folder].state = "live" /\ r.folder \in Cabinet!Stored
    BY <1>5 DEF Cabinet!Live, Cabinet!Stored
  <2>1. PICK pos : folder' = [folder EXCEPT ![r.folder].parent = r.parent, ![r.folder].pos = pos]
    BY <1>1, <1>5 DEF Cabinet!UpdateFolder
  <2> DEFINE entry == [folder[r.folder] EXCEPT !.parent = r.parent, !.pos = pos]
  <2>2. /\ folder' = [folder EXCEPT ![r.folder] = entry]
        /\ DOMAIN entry = {"state", "parent", "shared", "pos"}
        /\ entry.state = "live" /\ entry.parent = r.parent
    BY <1>3, <2>0, <2>1 DEF FolderInv, FoldersFit
  <2> HIDE DEF entry
  <2>3. r.parent # 0 => r.parent \in Cabinet!Stored  BY <1>5 DEF Cabinet!Referable, Cabinet!Root
  <2>4. /\ FoldersFit' /\ Cabinet!Stored' = Cabinet!Stored \cup {r.folder}
        /\ \A g \in Folders \ {r.folder} : Parents'[g] = Parents[g]
        /\ Parents'[r.folder] = r.parent
    <3>1. PICK f \in Folders, p \in Folders \cup {0} : f = r.folder /\ p = r.parent  BY <1>3
    <3>2. /\ folder' = [folder EXCEPT ![f] = entry] /\ entry.parent = p
          /\ p # 0 => p \in Cabinet!Stored
      BY <2>2, <2>3, <3>1
    <3>3. FoldersFit  BY DEF FolderInv
    <3>4. /\ FoldersFit' /\ Cabinet!Stored' = Cabinet!Stored \cup {f}
          /\ \A g \in Folders \ {f} : Parents'[g] = Parents[g]
          /\ Parents'[f] = p
      BY <2>2, <3>2, <3>3, Attach
    <3> QED  BY <3>1, <3>4
  <2>5. \A i \in Handlers \ {h} : request[i].op = "create" =>
            folder'[request[i].folder].state = folder[request[i].folder].state
    BY <1>3, <2>0, <2>2 DEF FolderInv, FoldersFit, DraftsFit
  <2>6. DraftsFit'  BY <1>2, <2>5, DraftsFinish DEF FolderInv
  <2>7. ASSUME ~raced' PROVE Tree'
    <3>1. ~raced /\ Cabinet!Checked(r)  BY <1>1, <1>2, <2>7, FinishTells
    <3>2. Tree  BY <3>1 DEF FolderInv
    <3>3. Cabinet!ValidateParent(r.user, r.folder, r.parent)  BY <1>2, <3>1 DEF Cabinet!Checked
    <3>4. r.parent # 0 => Cabinet!Live(r.parent) /\ r.parent \notin Cabinet!FolderDescendants(r.folder)
      BY <2>0, <3>3 DEF Cabinet!ValidateParent, Cabinet!Root
    <3>5. \A g \in Folders : (Cabinet!Live(g))' /\ folder'[g].parent # 0
                                  => (Cabinet!Live(folder[g].parent))'
      BY <1>3, <2>0, <2>2, <3>2, <3>4, AttachLive DEF FolderInv
    <3>6. Cabinet!Stored \subseteq Folders  BY DEF Cabinet!Stored
    <3>7. r.parent \notin Reach(Parents, r.folder, Cabinet!Stored)
      <4>1. 0 \notin Reach(Parents, r.folder, Cabinet!Stored)
        BY <3>6, ReachFacts, NotebookAssumption
      <4> QED  BY <3>4, <4>1, DescendantsAreReach
    <3>8. NoCycle(Parents', Cabinet!Stored)
      BY <2>0, <2>4, <3>2, <3>6, <3>7, MovedFolder DEF Tree
    <3>9. Cabinet!Stored' = Cabinet!Stored  BY <2>0, <2>4
    <3> QED  BY <3>5, <3>8, <3>9 DEF Tree
  <2> QED  BY <2>4, <2>6, <2>7 DEF FolderInv
<1> QED  BY <1>4, <1>5

-----------------------------------------------------------------------------
(* Requests of one step.                                                   *)

\* Sharing moves no folder.
LEMMA SetFolderVisibilityFolders ==
    ASSUME FolderInv, NEW u, NEW f \in Folders, NEW shared, Cabinet!HandleSetFolderVisibility(u, f, shared)
    PROVE  FolderInv'
<1>1. folder' = [folder EXCEPT ![f].shared = shared] /\ UNCHANGED <<request, raced>>
  BY DEF Cabinet!HandleSetFolderVisibility, Cabinet!SetFolderVisibility, Cabinet!Answered
<1>2. DOMAIN folder' = Folders
  BY <1>1 DEF FolderInv, FoldersFit
<1>3. \A g \in Folders : /\ DOMAIN folder'[g] = DOMAIN folder[g]
                         /\ folder'[g].state = folder[g].state
                         /\ folder'[g].parent = folder[g].parent
  BY <1>1 DEF FolderInv, FoldersFit
<1>4. FoldersFit' /\ (Tree => Tree')  BY <1>2, <1>3, SameShape DEF FolderInv
<1>5. DraftsFit'  BY <1>1, <1>3, DraftsStay DEF FolderInv
<1> QED  BY <1>1, <1>4, <1>5 DEF FolderInv

\* Nor does a new order.
LEMMA ReorderFolderFolders ==
    ASSUME FolderInv, NEW u, NEW f \in Folders, NEW a, Cabinet!HandleReorderFolder(u, f, a)
    PROVE  FolderInv'
<1>1. PICK siblings, at :
         folder' = [g \in Folders |-> IF g \in siblings THEN [folder[g] EXCEPT !.pos = at[g]]
                                      ELSE folder[g]]
  <2> DEFINE siblings == {g \in Folders : Cabinet!Live(g) /\ FolderOwner[g] = u
                                            /\ folder[g].parent = folder[f].parent}
             listed == Cabinet!SetToSortSeq(siblings, LAMBDA x, y :
                          folder[x].pos < folder[y].pos \/ (folder[x].pos = folder[y].pos /\ x < y))
             order == Cabinet!MoveAfter(listed, f, a)
             at == [g \in Folders |-> Cabinet!IndexIn(order, g) - 1]
  <2>1. folder' = [g \in Folders |->
             IF g \in siblings THEN [folder[g] EXCEPT !.pos = Cabinet!IndexIn(order, g) - 1]
             ELSE folder[g]]
    BY Zenon DEF Cabinet!HandleReorderFolder, Cabinet!ReorderFolder
  <2> HIDE DEF siblings, order
  <2>2. \A g \in Folders : at[g] = Cabinet!IndexIn(order, g) - 1  OBVIOUS
  <2> HIDE DEF at
  <2>3. folder' = [g \in Folders |-> IF g \in siblings THEN [folder[g] EXCEPT !.pos = at[g]]
                                      ELSE folder[g]]
    BY <2>1, <2>2, Zenon
  <2> QED  BY <2>3
<1>2. UNCHANGED <<request, raced>>  BY DEF Cabinet!HandleReorderFolder, Cabinet!Answered
<1>3. DOMAIN folder' = Folders  BY <1>1
<1>4. \A g \in Folders : /\ DOMAIN folder'[g] = DOMAIN folder[g]
                         /\ folder'[g].state = folder[g].state
                         /\ folder'[g].parent = folder[g].parent
  BY <1>1 DEF FolderInv, FoldersFit
<1>5. FoldersFit' /\ (Tree => Tree')  BY <1>3, <1>4, SameShape DEF FolderInv
<1>6. DraftsFit'  BY <1>2, <1>4, DraftsStay DEF FolderInv
<1> QED  BY <1>2, <1>5, <1>6 DEF FolderInv

\* The requests that do not touch the folders.
LEMMA OtherFolders ==
    ASSUME FolderInv, UNCHANGED <<folder, request, raced>> PROVE FolderInv'
<1>1. FoldersFit' /\ (Tree => Tree')  BY SameShape DEF FolderInv, FoldersFit
<1>2. DraftsFit'  BY DraftsStay DEF FolderInv
<1> QED  BY <1>1, <1>2 DEF FolderInv

\* A whole subtree goes to the trash.
LEMMA DeleteFolderFolders ==
    ASSUME FolderInv, NEW u, NEW f \in Folders, Cabinet!HandleDeleteFolder(u, f)
    PROVE  FolderInv'
<1> DEFINE D == Reach(Parents, f, Cabinet!Stored)
<1>1. /\ folder' = [g \in Folders |-> IF g \in D THEN [folder[g] EXCEPT !.state = "trashed"]
                                      ELSE folder[g]]
      /\ UNCHANGED <<request, raced>>
  BY DescendantsAreReach
  DEF Cabinet!HandleDeleteFolder, Cabinet!DeleteFolder, Cabinet!Answered
<1>2. /\ D \subseteq Cabinet!Stored /\ Cabinet!Stored \subseteq Folders
      /\ \A h \in Cabinet!Stored : Parents[h] \in D => h \in D
  BY ReachFacts DEF Cabinet!Stored
<1> HIDE DEF D
<1>3. DOMAIN folder' = Folders  BY <1>1
<1>4. \A g \in Folders : /\ DOMAIN folder'[g] = DOMAIN folder[g]
                         /\ folder'[g].state = IF g \in D THEN "trashed" ELSE folder[g].state
                         /\ folder'[g].parent = folder[g].parent
  BY <1>1 DEF FolderInv, FoldersFit
<1>5. Cabinet!Stored' = Cabinet!Stored  BY <1>2, <1>4 DEF Cabinet!Stored
<1>6. Parents' = Parents  BY <1>4 DEF Parents
<1>7. FoldersFit'  BY <1>3, <1>4, <1>5 DEF FolderInv, FoldersFit
<1>8. DraftsFit'
  <2>1. \A g \in Folders : folder[g].state = "unused" => folder'[g].state = "unused"
    BY <1>2, <1>4 DEF Cabinet!Stored
  <2> QED  BY <1>1, <2>1, DraftsStay DEF FolderInv
<1>9. ASSUME Tree PROVE Tree'
  <2>1. NoCycle(Parents, Cabinet!Stored)'  BY <1>5, <1>6, <1>9 DEF Tree
  <2>2. ASSUME NEW g \in Folders, (Cabinet!Live(g))', folder'[g].parent # 0
        PROVE  (Cabinet!Live(folder[g].parent))'
    <3>1. g \notin D /\ Cabinet!Live(g) /\ folder[g].parent # 0  BY <1>4, <2>2 DEF Cabinet!Live
    <3>2. Cabinet!Live(folder[g].parent)  BY <1>9, <3>1 DEF Tree
    <3>3. g \in Cabinet!Stored /\ folder[g].parent = Parents[g]
      BY <3>1 DEF Cabinet!Live, Cabinet!Stored, Parents
    <3>4. folder[g].parent \notin D  BY <1>2, <3>1, <3>3
    <3> QED  BY <1>4, <3>2, <3>4 DEF Cabinet!Live
  <2> QED  BY <2>1, <2>2 DEF Tree
<1> QED  BY <1>1, <1>7, <1>8, <1>9 DEF FolderInv

\* A trashed subtree comes back under a live folder or at the top.
LEMMA RestoreFolderFolders ==
    ASSUME FolderInv, NEW u, NEW f \in Folders, Cabinet!HandleRestoreFolder(u, f)
    PROVE  FolderInv'
<1> DEFINE trashed == {g \in Folders : folder[g].state = "trashed"}
           D == Reach(Parents, f, trashed)
           up == IF Cabinet!Live(folder[f].parent) THEN folder[f].parent ELSE 0
<1>1. /\ folder' = [g \in Folders |->
             IF g \notin D THEN folder[g]
             ELSE [folder[g] EXCEPT !.state = "live",
                     !.parent = IF g = f /\ ~Cabinet!Live(@) THEN 0 ELSE @]]
      /\ UNCHANGED <<request, raced>> /\ folder[f].state = "trashed"
  BY BelowIsReach
  DEF Cabinet!HandleRestoreFolder, Cabinet!RestoreFolder, Cabinet!Answered, Cabinet!Root
<1>2. D \subseteq trashed /\ f \in D /\ \A h \in trashed : Parents[h] \in D => h \in D
  BY <1>1, ReachFacts
<1>3. \A h \in D \ {f} : Parents[h] \in D  BY ReachParent
<1>4. \A g \in Folders : Parents[g] = folder[g].parent  BY DEF Parents
<1> HIDE DEF D
<1>5. DOMAIN folder' = Folders  BY <1>1
<1>6. \A g \in Folders : /\ DOMAIN folder'[g] = DOMAIN folder[g]
                         /\ folder'[g].state = IF g \in D THEN "live" ELSE folder[g].state
                         /\ folder'[g].parent = IF g = f THEN up ELSE folder[g].parent
  <2> SUFFICES ASSUME NEW g \in Folders
               PROVE  /\ DOMAIN folder'[g] = DOMAIN folder[g]
                      /\ folder'[g].state = IF g \in D THEN "live" ELSE folder[g].state
                      /\ folder'[g].parent = IF g = f THEN up ELSE folder[g].parent
    OBVIOUS
  <2>1. CASE g \notin D  BY <1>1, <1>2, <2>1
  <2>2. CASE g \in D
    <3>1. PICK x : x = IF g = f /\ ~Cabinet!Live(folder[g].parent) THEN 0 ELSE folder[g].parent
      OBVIOUS
    <3>2. folder'[g] = [folder[g] EXCEPT !.state = "live", !.parent = x]  BY <1>1, <2>2, <3>1, Zenon
    <3>3. DOMAIN folder'[g] = DOMAIN folder[g] /\ folder'[g].state = "live" /\ folder'[g].parent = x
      BY <3>2 DEF FolderInv, FoldersFit
    <3> QED  BY <2>2, <3>1, <3>3
  <2> QED  BY <2>1, <2>2
<1>7. Cabinet!Stored' = Cabinet!Stored  BY <1>2, <1>6 DEF Cabinet!Stored
<1>8. FoldersFit'
  <2>1. up \in Folders \cup {0} /\ (up # 0 => up \in Cabinet!Stored)
    BY DEF Cabinet!Live, Cabinet!Stored
  <2> QED  BY <1>5, <1>6, <1>7, <2>1 DEF FolderInv, FoldersFit
<1>9. DraftsFit'
  <2>1. \A g \in Folders : folder[g].state = "unused" => folder'[g].state = "unused"
    BY <1>2, <1>6
  <2> QED  BY <1>1, <2>1, DraftsStay DEF FolderInv
<1>10. ASSUME Tree PROVE Tree'
  <2>1. \A h \in Cabinet!Stored : Parents'[h] = Parents[h] \/ Parents'[h] \notin Cabinet!Stored
    <3>1. 0 \notin Cabinet!Stored /\ Cabinet!Stored \subseteq Folders
      BY NotebookAssumption DEF Cabinet!Stored
    <3>2. \A g \in Folders : Parents'[g] = folder'[g].parent  BY DEF Parents
    <3> QED  BY <1>4, <1>6, <3>1, <3>2
  <2>2. NoCycle(Parents', Cabinet!Stored)  BY <1>10, <2>1, FewerFolders DEF Tree
  <2>3. ASSUME NEW g \in Folders, (Cabinet!Live(g))', folder'[g].parent # 0
        PROVE  (Cabinet!Live(folder[g].parent))'
    <3>1. CASE g = f
      <4>1. Cabinet!Live(folder[f].parent) /\ folder'[g].parent = folder[f].parent
        BY <1>6, <2>3, <3>1
      <4> QED  BY <1>6, <4>1 DEF Cabinet!Live
    <3>2. CASE g # f /\ g \in D
      <4>1. folder'[g].parent = folder[g].parent /\ folder[g].parent \in D
        BY <1>3, <1>4, <1>6, <3>2
      <4> QED  BY <1>2, <1>6, <4>1 DEF Cabinet!Live
    <3>3. CASE g \notin D
      <4>1. folder'[g].parent = folder[g].parent /\ Cabinet!Live(g)
        BY <1>2, <1>6, <2>3, <3>3 DEF Cabinet!Live
      <4>2. Cabinet!Live(folder[g].parent)  BY <1>10, <2>3, <4>1 DEF Tree
      <4> QED  BY <1>6, <4>1, <4>2 DEF Cabinet!Live
    <3> QED  BY <3>1, <3>2, <3>3
  <2> QED  BY <1>7, <2>2, <2>3 DEF Tree
<1> QED  BY <1>1, <1>8, <1>9, <1>10 DEF FolderInv

\* The cascade of a DELETE, for one folder or for what has expired.
LEMMA PurgeFolders ==
    ASSUME FolderInv, NEW S \in SUBSET Folders, Cabinet!Purge(S), UNCHANGED <<request, raced>>
    PROVE  FolderInv'
<1> DEFINE D == UNION {Reach(Parents, f, Cabinet!Stored) : f \in S}
<1>1. folder' = [g \in Folders |-> IF g \in D
                    THEN [folder[g] EXCEPT !.state = "purged", !.parent = 0] ELSE folder[g]]
  BY DescendantsAreReach DEF Cabinet!Purge, Cabinet!Root
<1>2. /\ D \subseteq Cabinet!Stored /\ Cabinet!Stored \subseteq Folders
      /\ \A h \in Cabinet!Stored : Parents[h] \in D => h \in D
  <2>1. Cabinet!Stored \subseteq Folders  BY DEF Cabinet!Stored
  <2>2. D \subseteq Cabinet!Stored  BY ReachFacts
  <2>3. \A h \in Cabinet!Stored : Parents[h] \in D => h \in D
    <3> SUFFICES ASSUME NEW h \in Cabinet!Stored, NEW f \in S,
                        Parents[h] \in Reach(Parents, f, Cabinet!Stored)
                 PROVE  h \in D
      OBVIOUS
    <3> QED  BY ReachFacts
  <2> QED  BY <2>1, <2>2, <2>3
<1> HIDE DEF D
<1>3. DOMAIN folder' = Folders  BY <1>1
<1>4. \A g \in Folders : /\ DOMAIN folder'[g] = DOMAIN folder[g]
                         /\ folder'[g].state = IF g \in D THEN "purged" ELSE folder[g].state
                         /\ folder'[g].parent = IF g \in D THEN 0 ELSE folder[g].parent
  BY <1>1 DEF FolderInv, FoldersFit
<1>5. Cabinet!Stored' = Cabinet!Stored \ D  BY <1>2, <1>4 DEF Cabinet!Stored
<1>6. \A g \in Folders : Parents[g] = folder[g].parent /\ Parents'[g] = folder'[g].parent
  BY DEF Parents
<1>7. FoldersFit'
  <2>1. ASSUME NEW g \in Folders, folder'[g].parent # 0 PROVE folder'[g].parent \in Cabinet!Stored'
    <3>1. g \notin D /\ folder'[g].parent = folder[g].parent /\ folder[g].parent \in Cabinet!Stored
      BY <1>4, <2>1 DEF FolderInv, FoldersFit
    <3>2. g \in Cabinet!Stored  BY <2>1, <3>1 DEF FolderInv, FoldersFit
    <3> QED  BY <1>2, <1>5, <1>6, <3>1, <3>2
  <2>2. \A g \in Folders : folder'[g].parent # 0 => g \in Cabinet!Stored'
    BY <1>4, <1>5 DEF FolderInv, FoldersFit
  <2> QED  BY <1>3, <1>4, <2>1, <2>2 DEF FolderInv, FoldersFit
<1>8. DraftsFit'
  <2>1. \A g \in Folders : folder[g].state = "unused" => folder'[g].state = "unused"
    BY <1>2, <1>4 DEF Cabinet!Stored
  <2> QED  BY <2>1, DraftsStay DEF FolderInv
<1>9. ASSUME Tree PROVE Tree'
  <2>1. \A h \in Cabinet!Stored \ D : Parents'[h] = Parents[h]  BY <1>2, <1>4, <1>6
  <2>2. NoCycle(Parents', Cabinet!Stored \ D)  BY <1>9, <2>1, FewerFolders DEF Tree
  <2>3. ASSUME NEW g \in Folders, (Cabinet!Live(g))', folder'[g].parent # 0
        PROVE  (Cabinet!Live(folder[g].parent))'
    <3>1. g \notin D /\ Cabinet!Live(g) /\ folder'[g].parent = folder[g].parent
      BY <1>4, <2>3 DEF Cabinet!Live
    <3>2. Cabinet!Live(folder[g].parent)  BY <1>9, <2>3, <3>1 DEF Tree
    <3>3. g \in Cabinet!Stored  BY <3>1 DEF Cabinet!Live, Cabinet!Stored
    <3>4. folder[g].parent \notin D  BY <1>2, <1>6, <3>1, <3>3
    <3> QED  BY <1>4, <3>1, <3>2, <3>4 DEF Cabinet!Live
  <2> QED  BY <1>5, <2>2, <2>3 DEF Tree
<1> QED  BY <1>7, <1>8, <1>9 DEF FolderInv

-----------------------------------------------------------------------------

\* At first there are no folders.
LEMMA FoldersInit == ASSUME Cabinet!Init PROVE FolderInv
<1>1. /\ folder = [f \in Folders |->
                     [state |-> "unused", parent |-> 0, shared |-> FALSE, pos |-> 0]]
      /\ request = [h \in Handlers |-> Cabinet!NoRequest] /\ Cabinet!NoRequest.op = "none"
  BY DEF Cabinet!Init, Cabinet!Root, Cabinet!NoRequest
<1>2. Cabinet!Stored = {}  BY <1>1 DEF Cabinet!Stored
<1>3. NoCycle(Parents, {})  BY DEF NoCycle
<1>4. FoldersFit  BY <1>1 DEF FoldersFit
<1>5. DraftsFit  BY <1>1 DEF DraftsFit
<1>6. \A f \in Folders : ~Cabinet!Live(f)  BY <1>1 DEF Cabinet!Live
<1> QED  BY <1>2, <1>3, <1>4, <1>5, <1>6 DEF FolderInv, Tree

\* Every step keeps the folders in order.
LEMMA FoldersStep == ASSUME FolderInv, Cabinet!Next PROVE FolderInv'
<1>1. CASE \E h \in Handlers : \E f \in Folders, p \in Folders \cup {Cabinet!Root} :
               \/ Cabinet!HandleCreateFolder(h, f, p)
               \/ \E u \in Users : Cabinet!HandleUpdateFolder(h, u, f, p)
  BY <1>1, HandleCreateFolderFolders, HandleUpdateFolderFolders DEF Cabinet!Root
<1>2. CASE \E h \in Handlers :
               \/ \E u \in Users, n \in Papers, f \in Folders :
                     \/ Cabinet!HandleAddNoteFolder(h, u, n, f)
                     \/ Cabinet!HandleRemoveNoteFolder(h, u, n, f)
               \/ Cabinet!CreateFolder(h) \/ Cabinet!UpdateFolder(h)
               \/ Cabinet!AddNoteFolder(h) \/ Cabinet!RemoveNoteFolder(h)
  BY <1>2, HandleFilingFolders, CreateFolderFolders, UpdateFolderFolders, FilingFolders
<1>3. CASE \E u \in Users, f \in Folders :
               \/ \E shared \in BOOLEAN : Cabinet!HandleSetFolderVisibility(u, f, shared)
               \/ \E a \in Folders \cup {Cabinet!Root} : Cabinet!HandleReorderFolder(u, f, a)
  BY <1>3, SetFolderVisibilityFolders, ReorderFolderFolders
<1>4. CASE \E u \in Users, f \in Folders :
               \E n \in Papers, a \in Papers \cup {Cabinet!Root} :
                   Cabinet!HandleReorderNoteInFolder(u, f, n, a)
  <2>1. UNCHANGED <<folder, request, raced>>
    BY <1>4 DEF Cabinet!HandleReorderNoteInFolder, Cabinet!ReorderNoteInFolder, Cabinet!Answered
  <2> QED  BY <2>1, OtherFolders
<1>5. CASE \E u \in Users, f \in Folders :
               \/ Cabinet!HandleDeleteFolder(u, f) \/ Cabinet!HandleRestoreFolder(u, f)
               \/ Cabinet!HandlePurgeFolder(u, f)
  <2>1. PICK u \in Users, f \in Folders :
               \/ Cabinet!HandleDeleteFolder(u, f) \/ Cabinet!HandleRestoreFolder(u, f)
               \/ Cabinet!HandlePurgeFolder(u, f)
    BY <1>5
  <2>2. CASE Cabinet!HandlePurgeFolder(u, f)
    <3>1. PICK S \in SUBSET Folders : Cabinet!Purge(S)
      BY <2>2 DEF Cabinet!HandlePurgeFolder, Cabinet!PurgeFolder
    <3>2. UNCHANGED <<request, raced>>  BY <2>2 DEF Cabinet!HandlePurgeFolder, Cabinet!Answered
    <3> QED  BY <3>1, <3>2, PurgeFolders
  <2> QED  BY <2>1, <2>2, DeleteFolderFolders, RestoreFolderFolders
<1>6. CASE \E S \in SUBSET Folders : Cabinet!PurgeExpiredFolders(S)
  BY <1>6, PurgeFolders DEF Cabinet!PurgeExpiredFolders
<1>7. CASE \/ \E n \in Papers :
                 \/ Cabinet!HandleDeleteNote(n) \/ Cabinet!HandleRestoreNote(n)
                 \/ Cabinet!HandlePurgeNote(n)
                 \/ \E s \in Shares : Cabinet!HandleCreateShare(n, s)
           \/ \E s \in Shares : Cabinet!HandleRevokeShare(s)
  <2>1. UNCHANGED <<folder, request, raced>>
    BY <1>7 DEF Cabinet!HandleDeleteNote, Cabinet!HandleRestoreNote, Cabinet!HandlePurgeNote,
      Cabinet!HandleCreateShare, Cabinet!HandleRevokeShare, Cabinet!DeleteNote, Cabinet!RestoreNote,
      Cabinet!PurgeNote, Cabinet!MoveNote, Cabinet!CreateShare, Cabinet!RevokeShareByToken,
      Cabinet!Answered
  <2> QED  BY <2>1, OtherFolders
<1> QED  BY <1>1, <1>2, <1>3, <1>4, <1>5, <1>6, <1>7, Zenon DEF Cabinet!Next

\* And so does a step of something else.
LEMMA FoldersStutter == ASSUME FolderInv, UNCHANGED Cabinet!vars PROVE FolderInv'
  BY OtherFolders DEF Cabinet!vars

\* Folders in order are a forest.
LEMMA FolderInvIsForest == ASSUME FolderInv PROVE Cabinet!Forest
<1>1. CASE raced  BY <1>1 DEF Cabinet!Forest
<1>2. CASE ~raced
  <2>1. NoCycle(Parents, Cabinet!Stored)  BY <1>2 DEF FolderInv, Tree
  <2>2. ASSUME NEW f \in Cabinet!Stored, NEW g \in Cabinet!FolderDescendants(f) \ {f}
        PROVE  f \notin Cabinet!FolderDescendants(g)
    BY <2>1, <2>2, DescendantsAreReach DEF NoCycle
  <2>3. \A f \in Folders : Cabinet!Live(f) /\ folder[f].parent # 0 => Cabinet!Live(folder[f].parent)
    BY <1>2 DEF FolderInv, Tree
  <2> QED  BY <2>2, <2>3 DEF Cabinet!Forest, Cabinet!Root
<1> QED  BY <1>1, <1>2

\* Unless a folder was written on a check that no longer held (the check and the UPDATE of
\* two moves are in no transaction), no folder is ever its own ancestor and no live folder
\* hangs below the trash, for any folders, users, requests and depths.
THEOREM FoldersAreAForest == Cabinet!Spec => []Forest
<1>1. Cabinet!Init => FolderInv  BY FoldersInit
<1>2. FolderInv /\ [Cabinet!Next]_(Cabinet!vars) => FolderInv'  BY FoldersStep, FoldersStutter
<1>3. FolderInv => Forest  BY FolderInvIsForest DEF Forest
<1> QED  BY <1>1, <1>2, <1>3, PTL DEF Cabinet!Spec

-----------------------------------------------------------------------------
(* Tags and mentions (module Notebook).                                    *)

BodyRequest == [op : {"body"}, note : Pages, todo : SUBSET Titles, target : SUBSET Pages,
                sure : SUBSET Titles]
CopyRequest == [op : {"copy"}, note : Pages \cup {0}, mentions : SUBSET Titles,
                tags : SUBSET (TagNames \cup {"-"}), folders : SUBSET Shelves]
Requests == {Book!Idle} \cup BodyRequest \cup CopyRequest

\* A transaction on a tag knows its note and its tag.  The row it removes is there until it
\* commits.  Since a removal looked for other notes, whoever came to its tag came late, and
\* if nobody else is left, somebody left.
WorkFits(w) ==
    /\ w.at # "none" => w.note \in Pages
    /\ w.made \/ w.at \notin {"none", "inserted"} => w.tag \in TagIds
    /\ w.at \in {"detached", "checked"} => <<w.note, w.tag>> \in tagged
    /\ w.at = "checked" =>
          IF w.orphan THEN \A m \in Pages : <<m, w.tag>> \in tagged => m = w.note \/ m \in w.late
          ELSE w.left \/ \E m \in Pages \ {w.note} : <<m, w.tag>> \in tagged

InHand(w) == w.at \in {"attached", "detached", "checked"}

\* And no two insert or remove the same row.
Apart(v, w) == InHand(v) /\ InHand(w) => <<v.note, v.tag>> # <<w.note, w.tag>>

TagsFit ==
    /\ \A h \in Handlers : WorkFits(tagging[h])
    /\ \A h, i \in Handlers : h # i => Apart(tagging[h], tagging[i])

\* A mention that is sure names one note, which is not the note of the body, and its link
\* is yet to be looked up, being made or there.
MentionFits(r, t) ==
    /\ page[r.note].state = "live"
    /\ \E n \in Pages \ {r.note} :
          /\ Book!Resolved(page, t) = {n}
          /\ t \in r.todo \/ r.target = {n} \/ <<r.note, n>> \in linked

MentionsFit == \A h \in Handlers : edit[h].op = "body" => \A t \in edit[h].sure : MentionFits(edit[h], t)

BookInv ==
    /\ Book!TypeOK
    /\ edit \in [Handlers -> Requests]
    /\ TagsFit
    /\ MentionsFit

-----------------------------------------------------------------------------

\* Requests are told apart by what they do.
LEMMA RequestKinds ==
    ASSUME NEW r \in Requests
    PROVE  /\ r.op = "body" => r \in BodyRequest
           /\ r.op = "copy" => r \in CopyRequest
           /\ r.op = "idle" => r = Book!Idle
           /\ r.op \in {"idle", "body", "copy"}
  BY DEF Requests, BodyRequest, CopyRequest, Book!Idle

\* The one live note of a title.
LEMMA FindsTheOne ==
    ASSUME NEW t, NEW n, Book!Resolved(page, t) = {n}
    PROVE  Book!FindNoteByTitleCI(t) = {n}
<1>1. Book!Cardinality({n}) = Cardinality({n})  BY Zenon DEF Book!Cardinality, Cardinality
<1>2. Book!Cardinality({n}) = 1  BY <1>1, FS_Singleton, Zenon
<1>3. {m \in Book!Live : page[m].title = t} = {n}  BY DEF Book!Resolved, Book!Live
<1> QED  BY <1>2, <1>3, Zenon DEF Book!FindNoteByTitleCI

\* What FindNoteByTitleCI finds is the one live note of the title.
LEMMA FindsOneOrNone ==
    ASSUME NEW t, Book!FindNoteByTitleCI(t) # {}
    PROVE  \E n \in Pages : Book!Resolved(page, t) = {n} /\ Book!FindNoteByTitleCI(t) = {n}
<1> DEFINE found == {m \in Book!Live : page[m].title = t}
<1>1. found = Book!Resolved(page, t) /\ found \subseteq Pages  BY DEF Book!Resolved, Book!Live
<1>2. Book!FindNoteByTitleCI(t) = IF Book!Cardinality(found) = 1 THEN found ELSE {}
  BY Zenon DEF Book!FindNoteByTitleCI
<1> HIDE DEF found
<1>3. Book!Cardinality(found) = 1 /\ Book!FindNoteByTitleCI(t) = found  BY <1>2, Zenon
<1>4. Book!Cardinality(found) = Cardinality(found)  BY Zenon DEF Book!Cardinality, Cardinality
<1>5. IsFiniteSet(found)  BY <1>1, FS_Subset, NotebookAssumption, Zenon
<1>6. Cardinality(found) = 1  BY <1>3, <1>4, Zenon
<1>7. PICK n : found = {n}  BY <1>5, <1>6, FS_Singleton, Zenon
<1> QED  BY <1>1, <1>3, <1>7, Zenon

\* A request that another step leaves alone.
LEMMA MentionGoesOn ==
    ASSUME NEW r, NEW t, MentionFits(r, t),
           page'[r.note].state = "live", Book!Resolved(page', t) = Book!Resolved(page, t),
           \A n \in Pages : <<r.note, n>> \in linked /\ Book!Resolved(page, t) = {n}
                                => <<r.note, n>> \in linked'
    PROVE  MentionFits(r, t)'
<1>1. PICK n \in Pages \ {r.note} :
          /\ Book!Resolved(page, t) = {n}
          /\ t \in r.todo \/ r.target = {n} \/ <<r.note, n>> \in linked
  BY DEF MentionFits
<1>2. Book!Resolved(page, t)' = {n}  BY <1>1 DEF Book!Resolved
<1>3. t \in r.todo \/ r.target = {n} \/ <<r.note, n>> \in linked'  BY <1>1
<1> QED  BY <1>1, <1>2, <1>3 DEF MentionFits

\* One request goes on, and nothing is taken from the others.
LEMMA OneRequestMoves ==
    ASSUME BookInv, NEW h \in Handlers, NEW r \in Requests, edit' = [edit EXCEPT ![h] = r],
           \A n \in Pages : page[n].state = "live" => page'[n].state = "live",
           \A t \in Titles : Book!Resolved(page', t) = Book!Resolved(page, t),
           linked \subseteq linked',
           r.op = "body" => \A t \in r.sure : MentionFits(r, t)'
    PROVE  edit' \in [Handlers -> Requests] /\ MentionsFit'
<1>1. edit' \in [Handlers -> Requests] /\ edit'[h] = r /\ \A i \in Handlers \ {h} : edit'[i] = edit[i]
  BY DEF BookInv
<1>2. ASSUME NEW i \in Handlers, edit'[i].op = "body", NEW t \in edit'[i].sure
      PROVE  MentionFits(edit[i], t)'
  <2>1. CASE i = h  BY <1>1, <1>2, <2>1
  <2>2. CASE i # h
    <3>1. PICK q : q = edit[i]  OBVIOUS
    <3>2. q = edit'[i] /\ q.op = "body" /\ t \in q.sure  BY <1>1, <1>2, <2>2, <3>1
    <3>3. q \in BodyRequest  BY <3>1, <3>2, RequestKinds DEF BookInv
    <3>4. MentionFits(q, t)  BY <3>1, <3>2 DEF BookInv, MentionsFit
    <3>5. page'[q.note].state = "live" /\ t \in Titles
      BY <3>2, <3>3, <3>4 DEF MentionFits, BodyRequest
    <3>6. MentionFits(q, t)'  BY <3>4, <3>5, MentionGoesOn
    <3> QED  BY <3>2, <3>6
  <2> QED  BY <2>1, <2>2
<1> QED  BY <1>1, <1>2 DEF MentionsFit

\* A step that writes tags, folders or links beside the requests.
LEMMA RequestsStay ==
    ASSUME BookInv, UNCHANGED <<edit, page>>, linked \subseteq linked'
    PROVE  edit' \in [Handlers -> Requests] /\ MentionsFit'
<1>1. edit' \in [Handlers -> Requests]  BY DEF BookInv
<1>2. ASSUME NEW i \in Handlers, edit'[i].op = "body", NEW t \in edit'[i].sure
      PROVE  MentionFits(edit[i], t)'
  <2>1. PICK q : q = edit[i]  OBVIOUS
  <2>2. MentionFits(q, t)  BY <1>2, <2>1 DEF BookInv, MentionsFit
  <2>3. MentionFits(q, t)'  BY <2>2, MentionGoesOn DEF MentionFits
  <2> QED  BY <2>1, <2>3
<1> QED  BY <1>1, <1>2 DEF MentionsFit

\* The notes change, and what is no longer sure is dropped (SetNotes).
LEMMA NotesAreSet ==
    ASSUME BookInv, NEW new, Book!SetNotes(new),
           \A a, b \in Pages :
               page[a].state = "live" /\ page[b].state = "live" /\ <<a, b>> \in linked
                   => <<a, b>> \in linked'
    PROVE  edit' \in [Handlers -> Requests] /\ MentionsFit'
<1>1. page' = new /\ edit' = [h \in Handlers |-> Book!StillSure(edit[h], new)]
  BY DEF Book!SetNotes
<1>2. ASSUME NEW h \in Handlers
      PROVE  /\ edit'[h] \in Requests
             /\ edit'[h].op = "body" => \A t \in edit'[h].sure : MentionFits(edit[h], t)'
  <2>1. PICK r : r = edit[h]  OBVIOUS
  <2>2. r \in Requests /\ edit'[h] = Book!StillSure(r, new)  BY <1>1, <2>1 DEF BookInv
  <2>3. CASE r.op # "body"
    <3>1. edit'[h] = r  BY <2>2, <2>3 DEF Book!StillSure
    <3> QED  BY <2>2, <2>3, <3>1
  <2>4. CASE r.op = "body"
    <3>1. r \in BodyRequest  BY <2>2, <2>4, RequestKinds
    <3> DEFINE kept == {t \in r.sure : /\ new[r.note].state = "live"
                                       /\ Book!Resolved(new, t) = Book!Resolved(page, t)}
    <3>2. edit'[h] = [r EXCEPT !.sure = kept]  BY <2>2, <2>4 DEF Book!StillSure
    <3>3. kept \in SUBSET Titles  BY <3>1 DEF BodyRequest
    <3>4. PICK k : k = kept  OBVIOUS
    <3>5. PICK q : q = [r EXCEPT !.sure = k]  OBVIOUS
    <3>6. /\ q \in BodyRequest /\ q.sure = k /\ q.note = r.note /\ q.todo = r.todo
          /\ q.target = r.target
      BY <3>1, <3>3, <3>4, <3>5 DEF BodyRequest
    <3>7. ASSUME NEW t \in k PROVE MentionFits(q, t)'
      <4>1. MentionFits(r, t)  BY <2>1, <2>4, <3>4, <3>7 DEF BookInv, MentionsFit
      <4>2. MentionFits(q, t)  BY <3>6, <4>1 DEF MentionFits
      <4>3. page'[q.note].state = "live" /\ Book!Resolved(page', t) = Book!Resolved(page, t)
        BY <1>1, <3>4, <3>6, <3>7
      <4>4. ASSUME NEW n \in Pages, <<q.note, n>> \in linked, Book!Resolved(page, t) = {n}
            PROVE  <<q.note, n>> \in linked'
        <5>1. page[n].state = "live"  BY <4>4 DEF Book!Resolved
        <5>2. page[q.note].state = "live" /\ q.note \in Pages  BY <3>6, <4>2 DEF MentionFits, BodyRequest
        <5> QED  BY <4>4, <5>1, <5>2
      <4> QED  BY <4>2, <4>3, <4>4, MentionGoesOn
    <3> QED  BY <3>2, <3>4, <3>5, <3>6, <3>7 DEF Requests
  <2> QED  BY <2>3, <2>4
<1> QED  BY <1>1, <1>2 DEF MentionsFit

\* The types of the tables and of the counts.
LEMMA Assembled ==
    ASSUME page' \in [Pages -> Book!NoteRow], tag' \in [TagIds -> TagNames \cup {"-"}],
           tagged' \subseteq Pages \X TagIds, tagging' \in [Handlers -> Book!TagWork], linked' \subseteq Pages \X Pages,
           placed' \subseteq Pages \X Shelves, folders' \subseteq Shelves,
           edits' \in 0..MaxEdits, faults' \in 0..MaxFaults,
           edit' \in [Handlers -> Requests] /\ MentionsFit', TagsFit'
    PROVE  BookInv'
<1>1. \A h \in Handlers : edit'[h].op \in {"idle", "body", "copy"}  BY RequestKinds
<1> QED  BY <1>1 DEF BookInv, Book!TypeOK, Book!NoName

\* What a step finds in the tables.
LEMMA Found ==
    ASSUME BookInv
    PROVE  /\ page \in [Pages -> Book!NoteRow] /\ tag \in [TagIds -> TagNames \cup {"-"}]
           /\ tagged \subseteq Pages \X TagIds /\ tagging \in [Handlers -> Book!TagWork]
           /\ linked \subseteq Pages \X Pages
           /\ placed \subseteq Pages \X Shelves /\ folders \subseteq Shelves
           /\ edits \in 0..MaxEdits /\ faults \in 0..MaxFaults
           /\ edit \in [Handlers -> Requests] /\ TagsFit /\ MentionsFit
  BY DEF BookInv, Book!TypeOK, Book!NoName

\* A request is counted.
LEMMA OneMoreCounts == ASSUME BookInv, Book!OneMore PROVE edits' \in 0..MaxEdits
<1>1. edits \in 0..MaxEdits /\ MaxEdits \in Nat  BY Found, NotebookAssumption
<1>2. edits < MaxEdits /\ edits' = edits + 1  BY DEF Book!OneMore
<1> QED  BY <1>1, <1>2

\* A step that has to do with no tag.
LEMMA TagsStay == ASSUME TagsFit, UNCHANGED <<tagged, tagging>> PROVE TagsFit'
  BY DEF TagsFit, WorkFits, Apart, InHand

-----------------------------------------------------------------------------
(* Tags.                                                                   *)

LEMMA NoWorkFits ==
    Book!NoWork \in Book!TagWork /\ ~InHand(Book!NoWork) /\ WorkFits(Book!NoWork) /\ WorkFits(Book!NoWork)'
<1>1. Book!NoWork.at = "none" /\ Book!NoWork.made = FALSE  BY DEF Book!NoWork
<1>2. Book!NoWork \in Book!TagWork  BY DEF Book!NoWork, Book!TagWork, Book!NoName
<1> QED  BY <1>1, <1>2 DEF WorkFits, InHand

\* One transaction goes on, and no row is committed.
LEMMA OneWorkMoves ==
    ASSUME BookInv, NEW h \in Handlers, NEW w \in Book!TagWork, tagging' = [tagging EXCEPT ![h] = w],
           UNCHANGED tagged, WorkFits(w),
           InHand(w) => \A i \in Handlers \ {h} : Book!Holds(i) => Book!Row(i) # <<w.note, w.tag>>
    PROVE  tagging' \in [Handlers -> Book!TagWork] /\ TagsFit'
<1>1. tagging \in [Handlers -> Book!TagWork] /\ TagsFit  BY Found
<1>2. /\ tagging' \in [Handlers -> Book!TagWork] /\ tagging'[h] = w
      /\ \A i \in Handlers \ {h} : tagging'[i] = tagging[i]
  BY <1>1
<1>3. \A i \in Handlers : WorkFits(tagging[i])'
  BY <1>1, <1>2 DEF TagsFit, WorkFits
<1>4. \A i \in Handlers \ {h} : Apart(w, tagging[i]) /\ Apart(tagging[i], w)
  BY DEF Apart, InHand, Book!Holds, Book!Row
<1>5. \A i, j \in Handlers : i # j => Apart(tagging'[i], tagging'[j])
  BY <1>1, <1>2, <1>4 DEF TagsFit
<1> QED  BY <1>2, <1>3, <1>5 DEF TagsFit, Apart, InHand

\* What Tell writes down.
LEMMA ToldNothing ==
    ASSUME NEW new, NEW i \in Handlers, tagging[i].at # "checked"
    PROVE  Book!Tell(new)[i] = tagging[i]
  BY Zenon DEF Book!Tell

LEMMA Told ==
    ASSUME NEW new, NEW i \in Handlers, tagging[i].at = "checked"
    PROVE  Book!Tell(new)[i] = [tagging[i] EXCEPT
               !.late = tagging[i].late \cup {n \in Pages : <<n, tagging[i].tag>> \in new \ tagged},
               !.left = tagging[i].left \/ {n \in Pages : <<n, tagging[i].tag>> \in tagged \ new} # {}]
  BY Zenon DEF Book!Tell

LEMMA ToldFits ==
    ASSUME BookInv, NEW new, NEW i \in Handlers, tagged' = new,
           tagging[i].at \in {"detached", "checked"} => Book!Row(i) \in new
    PROVE  /\ Book!Tell(new)[i] \in Book!TagWork
           /\ Book!Tell(new)[i].at = tagging[i].at
           /\ Book!Tell(new)[i].note = tagging[i].note
           /\ Book!Tell(new)[i].tag = tagging[i].tag
           /\ \A v : v = Book!Tell(new)[i] => WorkFits(v)'
<1>1. PICK w : w = tagging[i]  OBVIOUS
<1>2. w \in Book!TagWork /\ WorkFits(w)  BY <1>1, Found DEF TagsFit
<1>3. w.at \in {"detached", "checked"} => <<w.note, w.tag>> \in new  BY <1>1 DEF Book!Row
<1>4. PICK v : v = Book!Tell(new)[i]  OBVIOUS
<1>5. CASE w.at # "checked"
  <2>1. v = w  BY <1>1, <1>4, <1>5, ToldNothing, Zenon
  <2>2. WorkFits(v)'  BY <1>2, <1>3, <1>5, <2>1 DEF WorkFits
  <2> QED  BY <1>1, <1>2, <1>4, <2>1, <2>2
<1>6. CASE w.at = "checked"
  <2>1. PICK gained : gained = {n \in Pages : <<n, w.tag>> \in new \ tagged}  OBVIOUS
  <2>2. PICK gone \in BOOLEAN : gone <=> {n \in Pages : <<n, w.tag>> \in tagged \ new} # {}  OBVIOUS
  <2>3. PICK late : late = w.late \cup gained  OBVIOUS
  <2>4. PICK left \in BOOLEAN : left <=> w.left \/ gone  OBVIOUS
  <2>5. v = [w EXCEPT !.late = late, !.left = left]
    <3>1. v = [w EXCEPT !.late = w.late \cup {n \in Pages : <<n, w.tag>> \in new \ tagged},
                        !.left = w.left \/ {n \in Pages : <<n, w.tag>> \in tagged \ new} # {}]
      <4>1. tagging[i].at = "checked"  BY <1>1, <1>6
      <4>2. Book!Tell(new)[i] = [tagging[i] EXCEPT
               !.late = tagging[i].late \cup {n \in Pages : <<n, tagging[i].tag>> \in new \ tagged},
               !.left = tagging[i].left \/ {n \in Pages : <<n, tagging[i].tag>> \in tagged \ new} # {}]
        BY ONLY <4>1, i \in Handlers, Told, Zenon
      <4> QED  BY ONLY <1>1, <1>4, <4>2, Zenon
    <3>2. w.left \in BOOLEAN  BY <1>2 DEF Book!TagWork
    <3>3. left = (w.left \/ {n \in Pages : <<n, w.tag>> \in tagged \ new} # {})
      BY <2>2, <2>4, <3>2
    <3> QED  BY <2>1, <2>3, <3>1, <3>3, Zenon
  <2>6. late \in SUBSET Pages  BY <1>2, <2>1, <2>3 DEF Book!TagWork
  <2>7. /\ v \in Book!TagWork /\ v.at = w.at /\ v.note = w.note /\ v.tag = w.tag
        /\ v.made = w.made /\ v.orphan = w.orphan /\ v.late = late /\ v.left = left
    BY <1>2, <2>4, <2>5, <2>6 DEF Book!TagWork
  <2>8. v.orphan => \A m \in Pages : <<m, v.tag>> \in new => m = v.note \/ m \in v.late
    BY <1>2, <1>6, <2>1, <2>3, <2>7 DEF WorkFits
  <2>9. ~v.orphan => v.left \/ \E m \in Pages \ {v.note} : <<m, v.tag>> \in new
    BY <1>2, <1>6, <2>2, <2>4, <2>7 DEF WorkFits
  <2>10. WorkFits(v)'  BY <1>2, <1>3, <1>6, <2>7, <2>8, <2>9 DEF WorkFits
  <2> QED  BY <1>1, <1>4, <2>7, <2>10
<1> QED  BY <1>5, <1>6

\* Rows are committed, and the transactions that are not over are told.
LEMMA TagsCommitted ==
    ASSUME BookInv, NEW new, tagged' = new, tagging' = [i \in Handlers |-> tagging'[i]],
           \A i \in Handlers :
               \/ tagging'[i] = Book!NoWork
               \/ /\ tagging'[i] = Book!Tell(new)[i]
                  /\ tagging[i].at \in {"detached", "checked"} => Book!Row(i) \in new
    PROVE  tagging' \in [Handlers -> Book!TagWork] /\ TagsFit'
<1>1. ASSUME NEW i \in Handlers
      PROVE  /\ tagging'[i] \in Book!TagWork /\ WorkFits(tagging[i])'
             /\ InHand(tagging'[i]) => /\ InHand(tagging[i]) /\ tagging'[i].note = tagging[i].note
                                       /\ tagging'[i].tag = tagging[i].tag
  <2>1. CASE tagging'[i] = Book!NoWork
    <3>1. PICK v : v = Book!NoWork  OBVIOUS
    <3>2. v \in Book!TagWork /\ WorkFits(v)' /\ ~InHand(v)  BY <3>1, NoWorkFits
    <3>3. tagging'[i] = v  BY <2>1, <3>1
    <3>4. WorkFits(tagging[i])'  BY <3>2, <3>3 DEF WorkFits
    <3> QED  BY <3>2, <3>3, <3>4
  <2>2. CASE /\ tagging'[i] = Book!Tell(new)[i]
             /\ tagging[i].at \in {"detached", "checked"} => Book!Row(i) \in new
    <3>1. PICK v : v = Book!Tell(new)[i]  OBVIOUS
    <3>2. /\ v \in Book!TagWork /\ WorkFits(v)' /\ v.at = tagging[i].at
          /\ v.note = tagging[i].note /\ v.tag = tagging[i].tag
      BY <2>2, <3>1, ToldFits
    <3>3. tagging'[i] = v  BY <2>2, <3>1
    <3>4. WorkFits(tagging[i])'  BY <3>2, <3>3 DEF WorkFits
    <3> QED  BY <3>2, <3>3, <3>4 DEF InHand
  <2> QED  BY <2>1, <2>2
<1>2. ASSUME NEW i \in Handlers, NEW j \in Handlers, i # j PROVE Apart(tagging[i], tagging[j])'
  <2>1. Apart(tagging[i], tagging[j])  BY <1>2, Found DEF TagsFit
  <2> QED  BY <1>1, <2>1 DEF Apart, InHand
<1>3. tagging' \in [Handlers -> Book!TagWork]  BY <1>1
<1> QED  BY <1>1, <1>2, <1>3 DEF TagsFit

LEMMA TagsAreTold ==
    ASSUME BookInv, NEW new, tagged' = new, tagging' = Book!Tell(new),
           \A i \in Handlers : tagging[i].at \in {"detached", "checked"} => Book!Row(i) \in new
    PROVE  tagging' \in [Handlers -> Book!TagWork] /\ TagsFit'
<1>1. tagging' = [i \in Handlers |-> tagging'[i]]  BY Zenon DEF Book!Tell
<1> QED  BY <1>1, TagsCommitted

LEMMA CommitIs ==
    ASSUME BookInv, NEW h \in Handlers, NEW new, Book!Commit(h, new),
           \A i \in Handlers \ {h} : tagging[i].at \in {"detached", "checked"} => Book!Row(i) \in new
    PROVE  /\ tagged' = new /\ tagging'[h] = Book!NoWork
           /\ tagging' \in [Handlers -> Book!TagWork] /\ TagsFit'
<1>1. PICK f : f = Book!Tell(new)  OBVIOUS
<1>2. f = [i \in Handlers |-> f[i]]  BY <1>1, Zenon DEF Book!Tell
<1>3. tagged' = new /\ tagging' = [f EXCEPT ![h] = Book!NoWork]  BY <1>1 DEF Book!Commit
<1>4. /\ tagging' = [i \in Handlers |-> tagging'[i]] /\ tagging'[h] = Book!NoWork
      /\ \A i \in Handlers \ {h} : tagging'[i] = f[i]
  BY <1>2, <1>3
<1> QED  BY <1>1, <1>3, <1>4, TagsCommitted

\* A transaction begins: its own request, or a copy's.
LEMMA BeginTagFits ==
    ASSUME BookInv, NEW h \in Handlers, NEW name \in TagNames,
           \/ \E n \in Pages : Book!HandleAddNoteTag(h, n, name) \/ Book!HandleRemoveNoteTag(h, n, name)
           \/ Book!CopyTag(h, name)
    PROVE  BookInv'
<1>1. /\ UNCHANGED <<page, tag, tagged, linked, placed, folders, edit, faults>>
      /\ Book!OneMore \/ UNCHANGED edits
  BY DEF Book!HandleAddNoteTag, Book!HandleRemoveNoteTag, Book!CopyTag
<1>2. PICK w \in Book!TagWork :
         /\ tagging' = [tagging EXCEPT ![h] = w]
         /\ w.at \in {"inserted", "found"} /\ w.note \in Pages
         /\ w.made \/ w.at = "found" => w.tag \in TagIds
  <2>1. ASSUME NEW n, Book!InsertTag(h, n, name)
        PROVE  \E w \in Book!TagWork :
                 /\ tagging' = [tagging EXCEPT ![h] = w]
                 /\ w.at = "inserted" /\ w.note \in Pages
                 /\ w.made => w.tag \in TagIds
    <3>1. n \in Pages  BY <2>1 DEF Book!InsertTag, Book!Kept
    <3>2. CASE tagging' = [tagging EXCEPT ![h] = [Book!NoWork EXCEPT !.at = "inserted", !.note = n,
                                                                    !.name = name]]
      <4>1. PICK w : w = [Book!NoWork EXCEPT !.at = "inserted", !.note = n, !.name = name]  OBVIOUS
      <4>2. w \in Book!TagWork /\ w.at = "inserted" /\ w.note = n /\ w.made = FALSE
        BY <3>1, <4>1 DEF Book!NoWork, Book!TagWork, Book!NoName
      <4>3. tagging' = [tagging EXCEPT ![h] = w]  BY <3>2, <4>1, Zenon
      <4> QED  BY <3>1, <4>2, <4>3
    <3>3. CASE \E t \in TagIds :
                 tagging' = [tagging EXCEPT ![h] = [Book!NoWork EXCEPT !.at = "inserted", !.note = n,
                                                    !.name = name, !.tag = t, !.made = TRUE]]
      <4>3. PICK t \in TagIds :
                 tagging' = [tagging EXCEPT ![h] = [Book!NoWork EXCEPT !.at = "inserted", !.note = n,
                                                    !.name = name, !.tag = t, !.made = TRUE]]
        BY <3>3
      <4>4. PICK w : w = [Book!NoWork EXCEPT !.at = "inserted", !.note = n, !.name = name, !.tag = t,
                                             !.made = TRUE]
        OBVIOUS
      <4>1. w = [Book!NoWork EXCEPT !.at = "inserted", !.note = n, !.name = name, !.tag = t, !.made = TRUE]
            /\ tagging' = [tagging EXCEPT ![h] = w]
        BY <4>3, <4>4, Zenon
      <4>2. w \in Book!TagWork /\ w.at = "inserted" /\ w.note = n /\ w.tag = t
        BY <3>1, <4>1 DEF Book!NoWork, Book!TagWork, Book!NoName
      <4> QED  BY <3>1, <4>1, <4>2
    <3> QED  BY <2>1, <3>2, <3>3, Zenon DEF Book!InsertTag
  <2>2. CASE \E n \in Pages : Book!HandleAddNoteTag(h, n, name)
    <3>1. PICK n : Book!InsertTag(h, n, name)  BY <2>2 DEF Book!HandleAddNoteTag
    <3> QED  BY <2>1, <3>1
  <2>3. CASE Book!CopyTag(h, name)
    <3>1. PICK n : Book!InsertTag(h, n, name)  BY <2>3, Zenon DEF Book!CopyTag
    <3> QED  BY <2>1, <3>1
  <2>4. CASE \E n \in Pages : Book!HandleRemoveNoteTag(h, n, name)
    <3>1. PICK n \in Pages, t \in TagIds :
            tagging' = [tagging EXCEPT ![h] = [Book!NoWork EXCEPT !.at = "found", !.note = n,
                                                                  !.name = name, !.tag = t]]
      BY <2>4 DEF Book!HandleRemoveNoteTag, Book!TagNamed
    <3>2. PICK w : w = [Book!NoWork EXCEPT !.at = "found", !.note = n, !.name = name, !.tag = t]  OBVIOUS
    <3>3. w \in Book!TagWork /\ w.at = "found" /\ w.note = n /\ w.tag = t
      BY <3>2 DEF Book!NoWork, Book!TagWork, Book!NoName
    <3>4. tagging' = [tagging EXCEPT ![h] = w]  BY <3>1, <3>2, Zenon
    <3> QED  BY <3>3, <3>4
  <2> QED  BY <2>2, <2>3, <2>4
<1>5. WorkFits(w) /\ ~InHand(w)  BY <1>2 DEF WorkFits, InHand
<1>6. tagging' \in [Handlers -> Book!TagWork] /\ TagsFit'  BY <1>1, <1>2, <1>5, OneWorkMoves
<1>7. edit' \in [Handlers -> Requests] /\ MentionsFit'  BY <1>1, RequestsStay
<1>8. edits' \in 0..MaxEdits  BY <1>1, OneMoreCounts, Found
<1> QED  BY <1>1, <1>6, <1>7, <1>8, Found, Assembled

\* The statements between the first and the commit.
LEMMA TagStatementFits ==
    ASSUME BookInv, NEW h \in Handlers,
           Book!SelectTag(h) \/ Book!AttachTag(h) \/ Book!DetachTag(h) \/ Book!LookForNotes(h)
    PROVE  BookInv'
<1>1. UNCHANGED <<page, tag, tagged, linked, placed, folders, edit, edits, faults>>
  BY DEF Book!SelectTag, Book!AttachTag, Book!DetachTag, Book!LookForNotes
<1>2. PICK v : v = tagging[h]  OBVIOUS
<1>3. v \in Book!TagWork /\ WorkFits(v) /\ tagging \in [Handlers -> Book!TagWork]
  BY <1>2, Found DEF TagsFit
<1>4. \E w \in Book!TagWork :
         /\ tagging' = [tagging EXCEPT ![h] = w] /\ WorkFits(w)
         /\ InHand(w) => \A i \in Handlers \ {h} : Book!Holds(i) => Book!Row(i) # <<w.note, w.tag>>
  <2>1. CASE Book!SelectTag(h)
    <3>1. PICK t \in IF v.made THEN {v.tag} ELSE Book!TagNamed(v.name) :
             tagging' = [tagging EXCEPT ![h].at = "selected", ![h].tag = t]
      BY <1>2, <2>1 DEF Book!SelectTag
    <3>2. v.at = "inserted"  BY <1>2, <2>1 DEF Book!SelectTag
    <3>3. t \in TagIds  BY <1>3, <3>1 DEF WorkFits, Book!TagNamed
    <3>4. PICK w : w = [v EXCEPT !.at = "selected", !.tag = t]  OBVIOUS
    <3>5. w \in Book!TagWork /\ w.at = "selected" /\ w.tag = t /\ w.note = v.note
      BY <1>3, <3>3, <3>4 DEF Book!TagWork
    <3>6. tagging' = [tagging EXCEPT ![h] = w]  BY <1>2, <1>3, <3>1, <3>4
    <3>7. WorkFits(w) /\ ~InHand(w)  BY <1>3, <3>2, <3>3, <3>5 DEF WorkFits, InHand
    <3> QED  BY <3>5, <3>6, <3>7
  <2>2. CASE Book!AttachTag(h)
    <3>1. /\ v.at = "selected" /\ tagging' = [tagging EXCEPT ![h].at = "attached"]
          /\ \A i \in Handlers \ {h} : Book!Holds(i) => Book!Row(i) # <<v.note, v.tag>>
      BY <1>2, <2>2 DEF Book!AttachTag, Book!RowIsFree, Book!Row
    <3>2. PICK w : w = [v EXCEPT !.at = "attached"]  OBVIOUS
    <3>3. w \in Book!TagWork /\ w.at = "attached" /\ w.tag = v.tag /\ w.note = v.note
      BY <1>3, <3>2 DEF Book!TagWork
    <3>4. tagging' = [tagging EXCEPT ![h] = w]  BY <1>2, <1>3, <3>1, <3>2
    <3>5. WorkFits(w)  BY <1>3, <3>1, <3>3 DEF WorkFits
    <3> QED  BY <3>1, <3>3, <3>4, <3>5
  <2>3. CASE Book!DetachTag(h)
    <3>1. /\ v.at = "found" /\ tagging' = [tagging EXCEPT ![h].at = "detached"]
          /\ \A i \in Handlers \ {h} : Book!Holds(i) => Book!Row(i) # <<v.note, v.tag>>
          /\ <<v.note, v.tag>> \in tagged
      BY <1>2, <2>3 DEF Book!DetachTag, Book!RowIsFree, Book!Row
    <3>2. PICK w : w = [v EXCEPT !.at = "detached"]  OBVIOUS
    <3>3. w \in Book!TagWork /\ w.at = "detached" /\ w.tag = v.tag /\ w.note = v.note
      BY <1>3, <3>2 DEF Book!TagWork
    <3>4. tagging' = [tagging EXCEPT ![h] = w]  BY <1>2, <1>3, <3>1, <3>2
    <3>5. WorkFits(w)  BY <1>3, <3>1, <3>3 DEF WorkFits
    <3> QED  BY <3>1, <3>3, <3>4, <3>5
  <2>4. CASE Book!LookForNotes(h)
    <3>1. PICK o \in BOOLEAN : o <=> \A n \in Pages \ {v.note} : <<n, v.tag>> \notin tagged  OBVIOUS
    <3>2. v.at = "detached" /\ tagging' = [tagging EXCEPT ![h].at = "checked", ![h].orphan = o]
      <4>1. /\ v.at = "detached"
            /\ tagging' = [tagging EXCEPT ![h].at = "checked",
                              ![h].orphan = \A n \in Pages \ {v.note} : <<n, v.tag>> \notin tagged]
        BY <1>2, <2>4 DEF Book!LookForNotes
      <4>2. o = (\A n \in Pages \ {v.note} : <<n, v.tag>> \notin tagged)  BY <3>1
      <4> QED  BY <4>1, <4>2, Zenon
    <3>3. PICK w : w = [v EXCEPT !.at = "checked", !.orphan = o]  OBVIOUS
    <3>4. w \in Book!TagWork /\ w.at = "checked" /\ w.orphan = o /\ w.tag = v.tag /\ w.note = v.note
      BY <1>3, <3>3 DEF Book!TagWork
    <3>5. tagging' = [tagging EXCEPT ![h] = w]  BY <1>2, <1>3, <3>2, <3>3
    <3>6. WorkFits(w)  BY <1>3, <3>1, <3>2, <3>4 DEF WorkFits
    <3>7. \A i \in Handlers \ {h} : Book!Holds(i) => Book!Row(i) # <<w.note, w.tag>>
      BY <1>2, <3>2, <3>4, Found DEF TagsFit, Apart, InHand, Book!Holds, Book!Row
    <3> QED  BY <3>4, <3>5, <3>6, <3>7
  <2> QED  BY <2>1, <2>2, <2>3, <2>4
<1>5. tagging' \in [Handlers -> Book!TagWork] /\ TagsFit'  BY <1>1, <1>4, OneWorkMoves
<1>6. edit' \in [Handlers -> Requests] /\ MentionsFit'  BY <1>1, RequestsStay
<1> QED  BY <1>1, <1>5, <1>6, Found, Assembled

\* A request that was a copy's goes on or ends, and no other changes.
LEMMA CopyMoves ==
    ASSUME BookInv, NEW h \in Handlers, UNCHANGED <<page, linked>>,
           \/ Book!NameDone(h)
           \/ edit' = [edit EXCEPT ![h] = IF edit[h].op = "copy" THEN Book!Idle ELSE edit[h]]
    PROVE  /\ edit' \in [Handlers -> Requests] /\ MentionsFit'
           /\ \A i \in Handlers : edit[i].op = "body" => edit'[i] = edit[i]
<1>1. PICK r : r = edit[h]  OBVIOUS
<1>2. r \in Requests /\ edit \in [Handlers -> Requests]  BY <1>1, Found
<1>3. PICK q : /\ edit' = [edit EXCEPT ![h] = q]
               /\ \/ q = r
                  \/ r.op = "copy" /\ q = Book!Idle
                  \/ r.op = "copy" /\ q = [r EXCEPT !.tags = r.tags \ {tagging[h].name}]
  <2>1. CASE Book!NameDone(h)
    <3>1. CASE r.op = "copy"
      <4>1. PICK names : names = r.tags \ {tagging[h].name}  OBVIOUS
      <4>2. edit' = [edit EXCEPT ![h].tags = names]  BY <1>1, <2>1, <3>1, <4>1, Zenon DEF Book!NameDone
      <4>3. PICK q : q = [r EXCEPT !.tags = names]  OBVIOUS
      <4>4. edit' = [edit EXCEPT ![h] = q]  BY <1>1, <1>2, <4>2, <4>3
      <4> QED  BY <3>1, <4>1, <4>3, <4>4, Zenon
    <3>2. CASE r.op # "copy"
      <4>1. edit' = edit  BY <1>1, <2>1, <3>2, Zenon DEF Book!NameDone
      <4>2. edit' = [edit EXCEPT ![h] = r]  BY <1>1, <1>2, <4>1
      <4> QED  BY <4>2
    <3> QED  BY <3>1, <3>2
  <2>2. CASE edit' = [edit EXCEPT ![h] = IF edit[h].op = "copy" THEN Book!Idle ELSE edit[h]]
    BY <1>1, <2>2
  <2> QED  BY <2>1, <2>2
<1>4. q \in Requests /\ (r.op = "body" => q = r) /\ (q.op = "body" => q = r)
  <2>1. CASE q = r  BY <1>2, <2>1
  <2>2. CASE r.op = "copy" /\ q = Book!Idle  BY <2>2 DEF Requests, Book!Idle
  <2>3. CASE r.op = "copy" /\ q = [r EXCEPT !.tags = r.tags \ {tagging[h].name}]
    <3>1. r \in CopyRequest  BY <1>2, <2>3, RequestKinds
    <3>2. q \in CopyRequest /\ q.op = "copy"  BY <2>3, <3>1 DEF CopyRequest
    <3> QED  BY <2>3, <3>2 DEF Requests
  <2> QED  BY <1>3, <2>1, <2>2, <2>3
<1>5. ASSUME q.op = "body", NEW t \in q.sure PROVE MentionFits(q, t)'
  <2>1. MentionFits(q, t)  BY <1>1, <1>4, <1>5, Found DEF MentionsFit
  <2> QED  BY <2>1 DEF MentionFits, Book!Resolved
<1>6. \A t \in Titles : Book!Resolved(page', t) = Book!Resolved(page, t)  BY Zenon
<1>7. edit' \in [Handlers -> Requests] /\ MentionsFit'
  BY <1>3, <1>4, <1>5, <1>6, OneRequestMoves
<1>8. \A i \in Handlers : edit[i].op = "body" => edit'[i] = edit[i]  BY <1>1, <1>2, <1>3, <1>4
<1> QED  BY <1>7, <1>8

\* The row is there, or is committed, perhaps with its tag.
LEMMA CommitTagFits ==
    ASSUME BookInv, NEW h \in Handlers, Book!KeepTag(h) \/ Book!CommitTag(h)
    PROVE  BookInv'
<1>1. UNCHANGED <<page, linked, placed, folders, edits, faults>> /\ Book!NameDone(h)
  BY DEF Book!KeepTag, Book!CommitTag
<1>2. PICK new : /\ Book!Commit(h, new) /\ tagged \subseteq new
                 /\ new = tagged \/ (tagging[h].at = "attached" /\ new = tagged \cup {Book!Row(h)})
  BY DEF Book!KeepTag, Book!CommitTag
<1>3. PICK v : v = tagging[h]  OBVIOUS
<1>4. v \in Book!TagWork /\ WorkFits(v) /\ tagged \subseteq Pages \X TagIds
  BY <1>3, Found DEF TagsFit
<1>5. new \subseteq Pages \X TagIds
  <2>1. v.at = "attached" => v.note \in Pages /\ v.tag \in TagIds  BY <1>4 DEF WorkFits
  <2> QED  BY <1>2, <1>3, <1>4, <2>1 DEF Book!Row
<1>6. \A i \in Handlers \ {h} : tagging[i].at \in {"detached", "checked"} => Book!Row(i) \in new
  BY <1>2, Found DEF TagsFit, WorkFits, Book!Row
<1>7. tagged' = new /\ tagging' \in [Handlers -> Book!TagWork] /\ TagsFit'  BY <1>2, <1>6, CommitIs
<1>8. tag' \in [TagIds -> TagNames \cup {"-"}]
  <2>1. tag \in [TagIds -> TagNames \cup {"-"}]  BY Found
  <2>2. v.name \in TagNames \cup {"-"}  BY <1>4 DEF Book!TagWork, Book!NoName
  <2>3. CASE Book!KeepTag(h)  BY <2>1, <2>3 DEF Book!KeepTag
  <2>4. CASE Book!CommitTag(h)
    <3>1. tag' = [tag EXCEPT ![v.tag] = IF v.made THEN v.name ELSE @]  BY <1>3, <2>4 DEF Book!CommitTag
    <3> QED  BY <2>1, <2>2, <3>1
  <2> QED  BY <2>3, <2>4
<1>9. edit' \in [Handlers -> Requests] /\ MentionsFit'  BY <1>1, CopyMoves
<1> QED  BY <1>1, <1>5, <1>7, <1>8, <1>9, Found, Assembled

\* The row goes, and the tag with all its rows if nobody was seen to have it.
LEMMA CommitRemovalFits ==
    ASSUME BookInv, NEW h \in Handlers, Book!CommitRemoval(h)
    PROVE  BookInv'
<1>1. PICK v : v = tagging[h]  OBVIOUS
<1>2. /\ UNCHANGED <<page, linked, placed, folders, edit, edits, faults>> /\ v.at = "checked"
      /\ \/ /\ v.orphan
            /\ \A i \in Handlers \ {h} : Book!Holds(i) => tagging[i].tag # v.tag
            /\ tag' = [tag EXCEPT ![v.tag] = "-"] /\ Book!Commit(h, {p \in tagged : p[2] # v.tag})
         \/ ~v.orphan /\ UNCHANGED tag /\ Book!Commit(h, tagged \ {<<v.note, v.tag>>})
  BY <1>1 DEF Book!CommitRemoval, Book!NoName, Book!Row
<1>3. PICK new : /\ Book!Commit(h, new) /\ new \subseteq tagged
                 /\ \A i \in Handlers \ {h} :
                       tagging[i].at \in {"detached", "checked"} => Book!Row(i) \in new
  <2>1. \A i \in Handlers \ {h} : tagging[i].at \in {"detached", "checked"} => Book!Row(i) \in tagged
    BY Found DEF TagsFit, WorkFits, Book!Row
  <2>2. CASE v.orphan /\ (\A i \in Handlers \ {h} : Book!Holds(i) => tagging[i].tag # v.tag)
             /\ Book!Commit(h, {p \in tagged : p[2] # v.tag})
    <3>1. PICK new : new = {p \in tagged : p[2] # v.tag}  OBVIOUS
    <3>2. \A i \in Handlers \ {h} : tagging[i].at \in {"detached", "checked"} => Book!Row(i) \in new
      BY <2>1, <2>2, <3>1 DEF Book!Holds, Book!Row
    <3> QED  BY <2>2, <3>1, <3>2
  <2>3. CASE Book!Commit(h, tagged \ {<<v.note, v.tag>>})
    <3>1. PICK new : new = tagged \ {<<v.note, v.tag>>}  OBVIOUS
    <3>2. ASSUME NEW i \in Handlers \ {h}, tagging[i].at \in {"detached", "checked"}
          PROVE  Book!Row(i) # <<v.note, v.tag>>
      BY <1>1, <1>2, <3>2, Found DEF TagsFit, Apart, InHand, Book!Row
    <3> QED  BY <2>1, <2>3, <3>1, <3>2
  <2> QED  BY <1>2, <2>2, <2>3
<1>4. tagged' = new /\ tagging' \in [Handlers -> Book!TagWork] /\ TagsFit'  BY <1>3, CommitIs
<1>5. tagged' \subseteq Pages \X TagIds /\ tag' \in [TagIds -> TagNames \cup {"-"}]
  BY <1>2, <1>3, <1>4, Found
<1>6. edit' \in [Handlers -> Requests] /\ MentionsFit'  BY <1>2, RequestsStay
<1> QED  BY <1>2, <1>4, <1>5, <1>6, Found, Assembled

\* A transaction is rolled back.
LEMMA FailTagFits ==
    ASSUME BookInv, NEW h \in Handlers, Book!FailTag(h)
    PROVE  BookInv'
<1>1. /\ UNCHANGED <<page, tag, tagged, linked, placed, folders, edits>>
      /\ tagging' = [tagging EXCEPT ![h] = Book!NoWork]
      /\ edit' = [edit EXCEPT ![h] = IF edit[h].op = "copy" THEN Book!Idle ELSE edit[h]]
      /\ faults' = faults \/ (faults < MaxFaults /\ faults' = faults + 1)
  BY DEF Book!FailTag
<1>2. faults' \in 0..MaxFaults
  <2>1. faults \in 0..MaxFaults /\ MaxFaults \in Nat  BY Found, NotebookAssumption
  <2> QED  BY <1>1, <2>1
<1>3. PICK w : w = Book!NoWork  OBVIOUS
<1>4. w \in Book!TagWork /\ WorkFits(w) /\ ~InHand(w)  BY <1>3, NoWorkFits
<1>5. tagging' \in [Handlers -> Book!TagWork] /\ TagsFit'  BY <1>1, <1>3, <1>4, OneWorkMoves
<1>6. edit' \in [Handlers -> Requests] /\ MentionsFit'  BY <1>1, CopyMoves
<1> QED  BY <1>1, <1>2, <1>5, <1>6, Found, Assembled

\* RenameTag: one statement.
LEMMA RenameTagFits ==
    ASSUME BookInv, NEW t \in TagIds, NEW name \in TagNames, Book!HandleRenameTag(t, name)
    PROVE  BookInv'
<1>1. /\ Book!OneMore /\ UNCHANGED <<page, tagged, linked, placed, folders, edit, tagging, faults>>
      /\ tag' = [tag EXCEPT ![t] = name]
  BY DEF Book!HandleRenameTag, Book!RenameTag
<1>2. tag' \in [TagIds -> TagNames \cup {"-"}]  BY <1>1, Found
<1>3. edit' \in [Handlers -> Requests] /\ MentionsFit'  BY <1>1, RequestsStay
<1>4. edits' \in 0..MaxEdits /\ TagsFit'  BY <1>1, OneMoreCounts, Found, TagsStay
<1> QED  BY <1>1, <1>2, <1>3, <1>4, Found, Assembled

\* DeleteTag: with its rows, when nobody holds one.
LEMMA DeleteTagFits ==
    ASSUME BookInv, NEW t \in TagIds, Book!HandleDeleteTag(t)
    PROVE  BookInv'
<1>1. PICK new : new = {p \in tagged : p[2] # t}  OBVIOUS
<1>2. /\ Book!OneMore /\ UNCHANGED <<page, linked, placed, folders, edit, faults>>
      /\ tag' = [tag EXCEPT ![t] = "-"] /\ tagged' = new /\ tagging' = Book!Tell(new)
      /\ \A i \in Handlers : Book!Holds(i) => tagging[i].tag # t
  BY <1>1 DEF Book!HandleDeleteTag, Book!DeleteTag, Book!NoName
<1>3. ASSUME NEW i \in Handlers, tagging[i].at \in {"detached", "checked"} PROVE Book!Row(i) \in new
  <2>1. tagging[i].tag # t  BY <1>2, <1>3 DEF Book!Holds
  <2>2. Book!Row(i) \in tagged  BY <1>3, Found DEF TagsFit, WorkFits, Book!Row
  <2> QED  BY <1>1, <2>1, <2>2 DEF Book!Row
<1>4. tagging' \in [Handlers -> Book!TagWork] /\ TagsFit'  BY <1>2, <1>3, TagsAreTold
<1>5. tagged' \subseteq Pages \X TagIds /\ tag' \in [TagIds -> TagNames \cup {"-"}]
  BY <1>1, <1>2, Found
<1>6. edit' \in [Handlers -> Requests] /\ MentionsFit'  BY <1>2, RequestsStay
<1>7. edits' \in 0..MaxEdits  BY <1>2, OneMoreCounts
<1> QED  BY <1>2, <1>4, <1>5, <1>6, <1>7, Found, Assembled

-----------------------------------------------------------------------------
(* Links, titles and the trash.                                            *)

\* A link more.
LEMMA AddNoteLinkFits ==
    ASSUME BookInv, NEW from \in Pages, NEW to \in Pages, Book!HandleAddNoteLink(from, to)
    PROVE  BookInv'
<1>1. /\ Book!OneMore /\ UNCHANGED <<page, tag, tagged, placed, folders, edit, tagging, faults>>
      /\ linked' = linked \cup {<<from, to>>}
  BY DEF Book!HandleAddNoteLink, Book!AddLink
<1>2. edit' \in [Handlers -> Requests] /\ MentionsFit'  BY <1>1, RequestsStay
<1>3. edits' \in 0..MaxEdits  BY <1>1, OneMoreCounts
<1>4. linked' \subseteq Pages \X Pages /\ TagsFit'  BY <1>1, Found, TagsStay
<1> QED  BY <1>1, <1>2, <1>3, <1>4, Found, Assembled

\* A link that is removed is no longer counted on.
LEMMA RemoveNoteLinkFits ==
    ASSUME BookInv, NEW from \in Pages, NEW to \in Pages, Book!HandleRemoveNoteLink(from, to)
    PROVE  BookInv'
<1>1. /\ Book!OneMore /\ UNCHANGED <<page, tag, tagged, placed, folders, tagging, faults>>
      /\ linked' = linked \ {<<from, to>>}
      /\ edit' = [h \in Handlers |->
                     IF edit[h].op = "body" /\ edit[h].note = from
                     THEN [edit[h] EXCEPT !.sure = @ \ {page[to].title}] ELSE edit[h]]
  BY DEF Book!HandleRemoveNoteLink, Book!RemoveLink
<1>2. ASSUME NEW h \in Handlers
      PROVE  /\ edit'[h] \in Requests
             /\ edit'[h].op = "body" => \A t \in edit'[h].sure : MentionFits(edit[h], t)'
  <2>1. PICK r : r = edit[h]  OBVIOUS
  <2>2. r \in Requests  BY <2>1, Found
  <2>3. CASE ~(r.op = "body" /\ r.note = from)
    <3>1. edit'[h] = r  BY <1>1, <2>1, <2>3
    <3>2. ASSUME r.op = "body", NEW t \in r.sure PROVE MentionFits(r, t)'
      <4>1. MentionFits(r, t)  BY <2>1, <3>2 DEF BookInv, MentionsFit
      <4>2. \A n \in Pages : <<r.note, n>> \in linked => <<r.note, n>> \in linked'
        BY <1>1, <2>3, <3>2
      <4> QED  BY <1>1, <4>1, <4>2, MentionGoesOn DEF MentionFits
    <3> QED  BY <2>2, <3>1, <3>2
  <2>4. CASE r.op = "body" /\ r.note = from
    <3>1. r \in BodyRequest  BY <2>2, <2>4, RequestKinds
    <3>2. PICK k : k = r.sure \ {page[to].title}  OBVIOUS
    <3>3. PICK q : q = [r EXCEPT !.sure = k]  OBVIOUS
    <3>4. edit'[h] = q  BY <1>1, <2>1, <2>4, <3>2, <3>3, Zenon
    <3>5. k \in SUBSET Titles  BY <3>1, <3>2 DEF BodyRequest
    <3>6. /\ q \in BodyRequest /\ q.sure = k /\ q.note = r.note /\ q.todo = r.todo
          /\ q.target = r.target
      BY <3>1, <3>3, <3>5 DEF BodyRequest
    <3>7. ASSUME NEW t \in k PROVE MentionFits(q, t)'
      <4>1. MentionFits(r, t) /\ t # page[to].title  BY <2>1, <2>4, <3>2, <3>7 DEF BookInv, MentionsFit
      <4>2. MentionFits(q, t)  BY <3>6, <4>1 DEF MentionFits
      <4>3. ASSUME NEW n \in Pages, <<q.note, n>> \in linked, Book!Resolved(page, t) = {n}
            PROVE  <<q.note, n>> \in linked'
        <5>1. page[n].title = t  BY <4>3 DEF Book!Resolved
        <5> QED  BY <1>1, <4>1, <4>3, <5>1
      <4> QED  BY <1>1, <4>2, <4>3, MentionGoesOn DEF MentionFits
    <3> QED  BY <3>4, <3>6, <3>7 DEF Requests
  <2> QED  BY <2>3, <2>4
<1>3. edit' \in [Handlers -> Requests] /\ MentionsFit'  BY <1>1, <1>2 DEF MentionsFit
<1>4. edits' \in 0..MaxEdits  BY <1>1, OneMoreCounts
<1>5. linked' \subseteq Pages \X Pages /\ TagsFit'  BY <1>1, Found, TagsStay
<1> QED  BY <1>1, <1>3, <1>4, <1>5, Found, Assembled

\* A note's row with another title, state or body.
LEMMA NoteRows ==
    ASSUME BookInv, NEW n \in Pages
    PROVE  /\ \A title \in Titles : [page EXCEPT ![n].title = title] \in [Pages -> Book!NoteRow]
           /\ \A s \in {"live", "trashed", "purged"} :
                 [page EXCEPT ![n].state = s] \in [Pages -> Book!NoteRow]
           /\ \A m \in SUBSET Titles : [page EXCEPT ![n].mentions = m] \in [Pages -> Book!NoteRow]
<1>1. page \in [Pages -> Book!NoteRow]  BY Found
<1> QED  BY <1>1 DEF Book!NoteRow

\* A title changes: what it named may no longer be sure.
LEMMA UpdateNoteTitleFits ==
    ASSUME BookInv, NEW n \in Pages, NEW title \in Titles, Book!HandleUpdateNoteTitle(n, title)
    PROVE  BookInv'
<1>1. /\ Book!OneMore /\ UNCHANGED <<tag, tagged, linked, placed, folders, tagging, faults>>
      /\ Book!SetNotes([page EXCEPT ![n].title = title])
  BY DEF Book!HandleUpdateNoteTitle, Book!UpdateNoteTitle
<1>2. edit' \in [Handlers -> Requests] /\ MentionsFit'
  <2>1. PICK new : Book!SetNotes(new)  BY <1>1
  <2> QED  BY <1>1, <2>1, NotesAreSet
<1>3. page' \in [Pages -> Book!NoteRow]  BY <1>1, NoteRows DEF Book!SetNotes
<1>4. edits' \in 0..MaxEdits /\ TagsFit'  BY <1>1, OneMoreCounts, Found, TagsStay
<1> QED  BY <1>1, <1>2, <1>3, <1>4, Found, Assembled

\* A note goes to the trash or comes back.
LEMMA TrashFits ==
    ASSUME BookInv, NEW n \in Pages, Book!DeleteNote(n) \/ Book!RestoreNote(n)
    PROVE  BookInv'
<1>1. PICK s \in {"live", "trashed", "purged"} :
         /\ Book!OneMore /\ UNCHANGED <<tag, tagged, linked, placed, folders, tagging, faults>>
         /\ Book!SetNotes([page EXCEPT ![n].state = s])
  BY DEF Book!DeleteNote, Book!RestoreNote
<1>2. edit' \in [Handlers -> Requests] /\ MentionsFit'
  <2>1. PICK new : Book!SetNotes(new)  BY <1>1
  <2> QED  BY <1>1, <2>1, NotesAreSet
<1>3. page' \in [Pages -> Book!NoteRow]  BY <1>1, NoteRows DEF Book!SetNotes
<1>4. edits' \in 0..MaxEdits /\ TagsFit'  BY <1>1, OneMoreCounts, Found, TagsStay
<1> QED  BY <1>1, <1>2, <1>3, <1>4, Found, Assembled

\* What refers to a purged note goes with it: no live note is concerned.
LEMMA PurgeNoteFits ==
    ASSUME BookInv, NEW n \in Pages, Book!PurgeNote(n)
    PROVE  BookInv'
<1>1. /\ Book!OneMore /\ UNCHANGED <<tag, folders, faults>> /\ page[n].state = "trashed"
      /\ Book!SetNotes([page EXCEPT ![n].state = "purged"])
      /\ tagged' = {p \in tagged : p[1] # n} /\ tagging' = Book!Tell(tagged')
      /\ \A h \in Handlers : Book!Holds(h) => tagging[h].note # n
      /\ linked' = {p \in linked : n \notin {p[1], p[2]}}
      /\ placed' = {p \in placed : p[1] # n}
  BY DEF Book!PurgeNote
<1>2. \A a, b \in Pages :
          page[a].state = "live" /\ page[b].state = "live" /\ <<a, b>> \in linked
              => <<a, b>> \in linked'
  BY <1>1
<1>3. edit' \in [Handlers -> Requests] /\ MentionsFit'  BY <1>1, <1>2, NotesAreSet
<1>4. page' \in [Pages -> Book!NoteRow]  BY <1>1, NoteRows DEF Book!SetNotes
<1>5. edits' \in 0..MaxEdits  BY <1>1, OneMoreCounts
<1>6. tagging' \in [Handlers -> Book!TagWork] /\ TagsFit'
  <2>1. PICK new : new = {p \in tagged : p[1] # n}  OBVIOUS
  <2>2. tagged' = new /\ tagging' = Book!Tell(new) /\ new \subseteq Pages \X TagIds  BY <1>1, <2>1, Found
  <2>3. ASSUME NEW i \in Handlers, tagging[i].at \in {"detached", "checked"} PROVE Book!Row(i) \in new
    <3>1. tagging[i].note # n  BY <1>1, <2>3 DEF Book!Holds
    <3>2. Book!Row(i) \in tagged  BY <2>3, Found DEF TagsFit, WorkFits, Book!Row
    <3> QED  BY <2>1, <3>1, <3>2 DEF Book!Row
  <2> QED  BY <2>2, <2>3, TagsAreTold
<1>7. /\ tagged' \subseteq Pages \X TagIds /\ linked' \subseteq Pages \X Pages
      /\ placed' \subseteq Pages \X Shelves
  BY <1>1, Found
<1> QED  BY <1>1, <1>3, <1>4, <1>5, <1>6, <1>7, Found, Assembled

\* A folder goes to the trash.
LEMMA TrashFolderFits ==
    ASSUME BookInv, NEW f \in Shelves, Book!TrashFolder(f)
    PROVE  BookInv'
<1>1. /\ Book!OneMore /\ folders' = folders \ {f}
      /\ UNCHANGED <<page, tag, tagged, linked, placed, edit, tagging, faults>>
  BY DEF Book!TrashFolder
<1>2. edit' \in [Handlers -> Requests] /\ MentionsFit'  BY <1>1, RequestsStay
<1>3. edits' \in 0..MaxEdits /\ TagsFit'  BY <1>1, OneMoreCounts, Found, TagsStay
<1> QED  BY <1>1, <1>2, <1>3, Found, Assembled

-----------------------------------------------------------------------------
(* Saving a body.                                                          *)

\* What the save of a body changes in the notes is nothing that a title resolves by.
LEMMA SameResolution ==
    ASSUME BookInv, NEW n \in Pages, NEW m, page' = [page EXCEPT ![n].mentions = m], NEW t
    PROVE  /\ Book!Resolved(page', t) = Book!Resolved(page, t)
           /\ \A a \in Pages : page'[a].state = page[a].state
<1>1. page \in [Pages -> Book!NoteRow]  BY Found
<1>2. \A a \in Pages : page'[a].state = page[a].state /\ page'[a].title = page[a].title
  BY <1>1 DEF Book!NoteRow
<1> QED  BY <1>2 DEF Book!Resolved

\* The mentions of a new body are all to be looked up.
LEMMA SaveBodyFits ==
    ASSUME BookInv, NEW h \in Handlers, NEW n \in Pages, NEW titles \in SUBSET Titles,
           Book!SaveBody(h, n, titles)
    PROVE  BookInv'
<1>0. PICK sure : sure = {t \in titles : /\ n \in Book!Live
                                         /\ Book!FindNoteByTitleCI(t) # {}
                                         /\ Book!FindNoteByTitleCI(t) # {n}}
  OBVIOUS
<1>1. PICK r :
      /\ Book!OneMore /\ UNCHANGED <<tag, tagged, linked, placed, folders, tagging, faults>>
      /\ page' = [page EXCEPT ![n].mentions = titles]
      /\ edit' = [edit EXCEPT ![h] = r]
      /\ r = [op |-> "body", note |-> n, todo |-> titles, target |-> {}, sure |-> sure]
  BY <1>0, Zenon DEF Book!SaveBody, Book!UpdateNoteBody
<1>2. sure \subseteq Titles  BY <1>0
<1>3. ASSUME NEW t \in sure PROVE MentionFits(r, t)'
  <2>1. PICK m \in Pages : Book!Resolved(page, t) = {m} /\ Book!FindNoteByTitleCI(t) = {m}
    BY <1>0, FindsOneOrNone
  <2>2. m # n  BY <1>0, <2>1
  <2>3. page[n].state = "live" /\ t \in titles  BY <1>0 DEF Book!Live
  <2>4. Book!Resolved(page', t) = {m} /\ page'[n].state = "live"  BY <1>1, <2>1, <2>3, SameResolution
  <2>5. Book!Resolved(page, t)' = {m}  BY <2>4 DEF Book!Resolved
  <2>6. r.note = n /\ t \in r.todo  BY <1>1, <2>3
  <2> QED  BY <2>2, <2>4, <2>5, <2>6 DEF MentionFits
<1>4. r \in Requests /\ r.sure = sure  BY <1>1, <1>2 DEF Requests, BodyRequest
<1>5. edit' \in [Handlers -> Requests] /\ MentionsFit'
  <2>1. \A t \in Titles : Book!Resolved(page', t) = Book!Resolved(page, t)  BY <1>1, SameResolution
  <2>2. \A a \in Pages : page[a].state = "live" => page'[a].state = "live"  BY <1>1, SameResolution
  <2> QED  BY <1>1, <1>3, <1>4, <2>1, <2>2, OneRequestMoves
<1>6. page' \in [Pages -> Book!NoteRow]  BY <1>1, NoteRows
<1>7. edits' \in 0..MaxEdits /\ TagsFit'  BY <1>1, OneMoreCounts, Found, TagsStay
<1> QED  BY <1>1, <1>5, <1>6, <1>7, Found, Assembled

\* A request that goes on and writes nothing, or adds a link.
LEMMA RequestGoesOn ==
    ASSUME BookInv, NEW h \in Handlers, NEW r \in Requests, edit' = [edit EXCEPT ![h] = r],
           UNCHANGED <<page, tag, tagged, placed, folders, tagging, edits>>, faults' \in 0..MaxFaults,
           linked \subseteq linked', linked' \subseteq Pages \X Pages,
           r.op = "body" => \A t \in r.sure : MentionFits(r, t)'
    PROVE  BookInv'
<1>1. edit' \in [Handlers -> Requests] /\ MentionsFit'
  <2>1. \A t \in Titles : Book!Resolved(page', t) = Book!Resolved(page, t)  BY Zenon
  <2>2. \A a \in Pages : page[a].state = "live" => page'[a].state = "live"  OBVIOUS
  <2> QED  BY <2>1, <2>2, OneRequestMoves
<1> QED  BY <1>1, Found, TagsStay, Assembled

\* A mention that is looked up becomes the target, if it is sure.
LEMMA FindMentionFits ==
    ASSUME BookInv, NEW h \in Handlers, NEW title \in Titles, Book!FindMention(h, title)
    PROVE  BookInv'
<1>1. PICK r : r = edit[h]  OBVIOUS
<1>2. PICK found : found = Book!FindNoteByTitleCI(title) \ {r.note}  OBVIOUS
<1>3. PICK todo : todo = r.todo \ {title}  OBVIOUS
<1>4. /\ r.op = "body" /\ r.target = {}
      /\ edit' = [edit EXCEPT ![h].todo = todo, ![h].target = found]
      /\ UNCHANGED <<page, tag, tagged, linked, placed, folders, tagging, edits, faults>>
  BY <1>1, <1>2, <1>3, Zenon DEF Book!FindMention
<1>5. r \in BodyRequest  BY <1>1, <1>4, Found, RequestKinds
<1>6. found \in SUBSET Pages
  <2>1. Book!FindNoteByTitleCI(title) \subseteq Pages  BY FindsOneOrNone
  <2> QED  BY <1>2, <2>1
<1>7. PICK q : q = [r EXCEPT !.todo = todo, !.target = found]  OBVIOUS
<1>8. /\ q \in BodyRequest /\ q.note = r.note /\ q.sure = r.sure /\ q.todo = todo
      /\ q.target = found /\ q.op = "body"
  BY <1>3, <1>5, <1>6, <1>7 DEF BodyRequest
<1>9. edit' = [edit EXCEPT ![h] = q]  BY <1>1, <1>4, <1>7, Found
<1>10. ASSUME NEW t \in q.sure PROVE MentionFits(q, t)'
  <2>1. MentionFits(r, t)  BY <1>1, <1>4, <1>8, Found DEF MentionsFit
  <2>2. PICK n \in Pages \ {r.note} :
            /\ Book!Resolved(page, t) = {n}
            /\ t \in r.todo \/ r.target = {n} \/ <<r.note, n>> \in linked
    BY <2>1 DEF MentionFits
  <2>3. t \in q.todo \/ q.target = {n} \/ <<q.note, n>> \in linked
    <3>1. CASE t = title
      <4>1. Book!FindNoteByTitleCI(title) = {n}  BY <2>2, <3>1, FindsTheOne
      <4> QED  BY <1>2, <1>8, <2>2, <4>1
    <3>2. CASE t # title  BY <1>3, <1>4, <1>8, <2>2, <3>2
    <3> QED  BY <3>1, <3>2
  <2>4. MentionFits(q, t)  BY <1>8, <2>1, <2>2, <2>3 DEF MentionFits
  <2> QED  BY <1>4, <2>4, MentionGoesOn DEF MentionFits
<1>11. q \in Requests  BY <1>8 DEF Requests
<1> QED  BY <1>4, <1>9, <1>10, <1>11, RequestGoesOn, Found

\* The target is linked, if it is sure.
LEMMA LinkMentionFits ==
    ASSUME BookInv, NEW h \in Handlers, Book!LinkMention(h)
    PROVE  BookInv'
<1>1. PICK r : r = edit[h]  OBVIOUS
<1>2. /\ r.op = "body" /\ r.target # {} /\ edit' = [edit EXCEPT ![h].target = {}]
      /\ UNCHANGED <<page, tag, tagged, placed, folders, tagging, edits, faults>>
  BY <1>1 DEF Book!LinkMention
<1>3. r \in BodyRequest  BY <1>1, <1>2, Found, RequestKinds
<1>4. PICK to \in r.target :
          \/ {r.note, to} \subseteq Book!Live /\ linked' = linked \cup {<<r.note, to>>}
          \/ ~({r.note, to} \subseteq Book!Live) /\ UNCHANGED linked
  BY <1>1 DEF Book!LinkMention, Book!LinkTarget, Book!AddLink
<1>5. r.note \in Pages /\ to \in Pages  BY <1>3, <1>4 DEF BodyRequest
<1>6. PICK q : q = [r EXCEPT !.target = {}]  OBVIOUS
<1>7. /\ q \in BodyRequest /\ q.note = r.note /\ q.sure = r.sure /\ q.todo = r.todo
      /\ q.target = {} /\ q.op = "body"
  BY <1>3, <1>6 DEF BodyRequest
<1>8. edit' = [edit EXCEPT ![h] = q]  BY <1>1, <1>2, <1>6, Found
<1>9. ASSUME NEW t \in q.sure PROVE MentionFits(q, t)'
  <2>1. MentionFits(r, t)  BY <1>1, <1>2, <1>7, <1>9, Found DEF MentionsFit
  <2>2. PICK n \in Pages \ {r.note} :
            /\ Book!Resolved(page, t) = {n}
            /\ t \in r.todo \/ r.target = {n} \/ <<r.note, n>> \in linked
    BY <2>1 DEF MentionFits
  <2>3. t \in q.todo \/ <<q.note, n>> \in linked'
    <3>1. CASE r.target = {n}
      <4>1. to = n /\ n \in Book!Live  BY <1>4, <2>2, <3>1 DEF Book!Resolved, Book!Live
      <4>2. r.note \in Book!Live  BY <1>5, <2>1 DEF MentionFits, Book!Live
      <4> QED  BY <1>4, <1>7, <4>1, <4>2
    <3>2. CASE r.target # {n}  BY <1>4, <1>7, <2>2, <3>2
    <3> QED  BY <3>1, <3>2
  <2>4. Book!Resolved(page, t)' = {n} /\ page'[q.note].state = "live"
    BY <1>2, <1>7, <2>1, <2>2 DEF Book!Resolved, MentionFits
  <2> QED  BY <1>7, <2>2, <2>3, <2>4 DEF MentionFits
<1>10. q \in Requests  BY <1>7 DEF Requests
<1>11. linked \subseteq linked' /\ linked' \subseteq Pages \X Pages  BY <1>4, <1>5, Found
<1> QED  BY <1>2, <1>8, <1>9, <1>10, <1>11, RequestGoesOn, Found

\* A mention that failed is no longer sure.
LEMMA FailMentionFits ==
    ASSUME BookInv, NEW h \in Handlers, Book!FailMention(h)
    PROVE  BookInv'
<1>1. PICK r : r = edit[h]  OBVIOUS
<1>2. PICK k : k = r.sure \ {page[n].title : n \in r.target}  OBVIOUS
<1>3. /\ r.op = "body" /\ faults < MaxFaults /\ faults' = faults + 1
      /\ edit' = [edit EXCEPT ![h].target = {}, ![h].sure = k]
      /\ UNCHANGED <<page, tag, tagged, linked, placed, folders, tagging, edits>>
  BY <1>1, <1>2, Zenon DEF Book!FailMention
<1>4. r \in BodyRequest  BY <1>1, <1>3, Found, RequestKinds
<1>5. PICK q : q = [r EXCEPT !.target = {}, !.sure = k]  OBVIOUS
<1>6. /\ q \in BodyRequest /\ q.note = r.note /\ q.sure = k /\ q.todo = r.todo
      /\ q.target = {} /\ q.op = "body"
  BY <1>2, <1>4, <1>5 DEF BodyRequest
<1>7. edit' = [edit EXCEPT ![h] = q]  BY <1>1, <1>3, <1>5, Found
<1>8. ASSUME NEW t \in q.sure PROVE MentionFits(q, t)'
  <2>1. t \in r.sure /\ MentionFits(r, t)  BY <1>1, <1>2, <1>3, <1>6, <1>8, Found DEF MentionsFit
  <2>2. PICK n \in Pages \ {r.note} :
            /\ Book!Resolved(page, t) = {n}
            /\ t \in r.todo \/ r.target = {n} \/ <<r.note, n>> \in linked
    BY <2>1 DEF MentionFits
  <2>3. page[n].title = t  BY <2>2 DEF Book!Resolved
  <2>4. r.target # {n}  BY <1>2, <1>6, <1>8, <2>3
  <2>5. MentionFits(q, t)  BY <1>6, <2>1, <2>2, <2>4 DEF MentionFits
  <2> QED  BY <1>3, <2>5, MentionGoesOn DEF MentionFits
<1>9. q \in Requests  BY <1>6 DEF Requests
<1>10. faults' \in 0..MaxFaults
  <2>1. faults \in 0..MaxFaults /\ MaxFaults \in Nat  BY Found, NotebookAssumption
  <2> QED  BY <1>3, <2>1
<1> QED  BY <1>3, <1>7, <1>8, <1>9, <1>10, RequestGoesOn, Found

\* A request that ends.
LEMMA RequestEnds ==
    ASSUME BookInv, NEW h \in Handlers, edit' = [edit EXCEPT ![h] = Book!Idle],
           UNCHANGED <<page, tag, tagged, linked, placed, folders, tagging, edits>>, faults' \in 0..MaxFaults
    PROVE  BookInv'
<1>1. PICK r : r = Book!Idle  OBVIOUS
<1>2. r \in Requests /\ r.op # "body"  BY <1>1 DEF Requests, Book!Idle
<1>3. edit' = [edit EXCEPT ![h] = r]  BY <1>1
<1>4. linked \subseteq linked' /\ linked' \subseteq Pages \X Pages  BY Found
<1> QED  BY <1>2, <1>3, <1>4, RequestGoesOn

\* A request ends.
LEMMA AnswerFits ==
    ASSUME BookInv, NEW h \in Handlers, Book!AnswerBody(h) \/ Book!AnswerCopy(h) \/ Book!FailCopy(h)
    PROVE  BookInv'
<1>1. /\ edit' = [edit EXCEPT ![h] = Book!Idle]
      /\ UNCHANGED <<page, tag, tagged, linked, placed, folders, tagging, edits>>
      /\ faults' = faults \/ (faults < MaxFaults /\ faults' = faults + 1)
  BY DEF Book!AnswerBody, Book!AnswerCopy, Book!FailCopy
<1>2. faults \in 0..MaxFaults /\ MaxFaults \in Nat  BY Found, NotebookAssumption
<1>3. faults' \in 0..MaxFaults  BY <1>1, <1>2
<1> QED  BY <1>1, <1>3, RequestEnds

-----------------------------------------------------------------------------
(* Copying a note.                                                         *)

\* A copy begins.
LEMMA ReadOriginalFits ==
    ASSUME BookInv, NEW h \in Handlers, NEW n \in Pages, Book!ReadOriginal(h, n)
    PROVE  BookInv'
<1>1. PICK m : m = page[n].mentions  OBVIOUS
<1>2. PICK names : names = Book!NoteTags(n)  OBVIOUS
<1>3. PICK where : where = {f \in folders : <<n, f>> \in placed}  OBVIOUS
<1>4. PICK r :
      /\ Book!OneMore /\ UNCHANGED <<page, tag, tagged, linked, placed, folders, tagging, faults>>
      /\ edit' = [edit EXCEPT ![h] = r]
      /\ r = [op |-> "copy", note |-> 0, mentions |-> m, tags |-> names, folders |-> where]
  BY <1>1, <1>2, <1>3, Zenon DEF Book!ReadOriginal
<1>5. m \subseteq Titles
  <2>1. page[n] \in Book!NoteRow  BY Found
  <2> QED  BY <1>1, <2>1 DEF Book!NoteRow
<1>6. names \subseteq TagNames \cup {"-"}  BY <1>2, Found DEF Book!NoteTags
<1>7. where \subseteq Shelves  BY <1>3, Found
<1>8. r \in CopyRequest /\ r.op = "copy"  BY <1>4, <1>5, <1>6, <1>7 DEF CopyRequest
<1>9. r \in Requests  BY <1>8 DEF Requests
<1>10. edit' \in [Handlers -> Requests] /\ MentionsFit'
  <2>1. \A t \in Titles : Book!Resolved(page', t) = Book!Resolved(page, t)  BY <1>4, Zenon
  <2>2. \A a \in Pages : page[a].state = "live" => page'[a].state = "live"  BY <1>4
  <2>3. linked \subseteq linked'  BY <1>4
  <2> QED  BY <1>4, <1>8, <1>9, <2>1, <2>2, <2>3, OneRequestMoves
<1>11. edits' \in 0..MaxEdits /\ TagsFit'  BY <1>4, OneMoreCounts, Found, TagsStay
<1> QED  BY <1>4, <1>10, <1>11, Found, Assembled

\* The copy has a title that no mention names.
LEMMA CreateCopyFits ==
    ASSUME BookInv, NEW h \in Handlers, NEW n \in Pages, Book!CreateCopy(h, n)
    PROVE  BookInv'
<1>1. PICK r : r = edit[h]  OBVIOUS
<1>2. /\ r.op = "copy" /\ page[n].state = "unused"
      /\ page' = [page EXCEPT ![n] = [state |-> "live", title |-> "copy of", mentions |-> r.mentions]]
      /\ edit' = [edit EXCEPT ![h].note = n]
      /\ UNCHANGED <<tag, tagged, linked, placed, folders, tagging, edits, faults>>
  BY <1>1 DEF Book!CreateCopy, Book!CopyTitle
<1>3. r \in CopyRequest  BY <1>1, <1>2, Found, RequestKinds
<1>4. PICK q : q = [r EXCEPT !.note = n]  OBVIOUS
<1>5. q \in CopyRequest /\ q.op = "copy"  BY <1>3, <1>4 DEF CopyRequest
<1>6. edit' = [edit EXCEPT ![h] = q]  BY <1>1, <1>2, <1>4, Found
<1>7. page' \in [Pages -> Book!NoteRow]
  <2>1. r.mentions \subseteq Titles  BY <1>3 DEF CopyRequest
  <2>2. page \in [Pages -> Book!NoteRow]  BY Found
  <2> QED  BY <1>2, <2>1, <2>2 DEF Book!NoteRow, Book!CopyTitle
<1>8. /\ \A a \in Pages \ {n} : page'[a] = page[a]
      /\ page'[n].state = "live" /\ page'[n].title = "copy of"
  BY <1>2, Found
<1>9. \A t \in Titles : Book!Resolved(page', t) = Book!Resolved(page, t)
  <2>1. "copy of" \notin Titles  BY NotebookAssumption, Zenon
  <2> QED  BY <1>2, <1>8, <2>1 DEF Book!Resolved
<1>10. edit' \in [Handlers -> Requests] /\ MentionsFit'
  <2>1. q \in Requests  BY <1>5 DEF Requests
  <2>2. \A a \in Pages : page[a].state = "live" => page'[a].state = "live"  BY <1>8
  <2>3. linked \subseteq linked'  BY <1>2
  <2> QED  BY <1>5, <1>6, <1>9, <2>1, <2>2, <2>3, OneRequestMoves
<1> QED  BY <1>2, <1>7, <1>10, Found, TagsStay, Assembled

\* A folder is copied.
LEMMA CopyFolderFits ==
    ASSUME BookInv, NEW h \in Handlers, NEW f \in Shelves, Book!CopyFolder(h, f)
    PROVE  BookInv'
<1>1. PICK r : r = edit[h]  OBVIOUS
<1>2. PICK rest : rest = r.folders \ {f}  OBVIOUS
<1>3. /\ r.op = "copy" /\ r.note \in Book!Live
      /\ edit' = [edit EXCEPT ![h].folders = rest]
      /\ placed' = placed \cup {<<r.note, f>>}
      /\ UNCHANGED <<page, tag, tagged, linked, folders, tagging, edits, faults>>
  BY <1>1, <1>2, Zenon DEF Book!CopyFolder
<1>4. r \in CopyRequest  BY <1>1, <1>3, Found, RequestKinds
<1>5. placed' \subseteq Pages \X Shelves  BY <1>3, Found DEF Book!Live
<1>6. PICK q : q = [r EXCEPT !.folders = rest]  OBVIOUS
<1>7. q \in CopyRequest /\ q.op = "copy"  BY <1>2, <1>4, <1>6 DEF CopyRequest
<1>8. edit' = [edit EXCEPT ![h] = q]  BY <1>1, <1>3, <1>6, Found
<1>9. edit' \in [Handlers -> Requests] /\ MentionsFit'
  <2>1. q \in Requests  BY <1>7 DEF Requests
  <2>2. \A a \in Pages : page[a].state = "live" => page'[a].state = "live"  BY <1>3
  <2>3. \A t \in Titles : Book!Resolved(page', t) = Book!Resolved(page, t)  BY <1>3, Zenon
  <2>4. linked \subseteq linked'  BY <1>3
  <2> QED  BY <1>7, <1>8, <2>1, <2>2, <2>3, <2>4, OneRequestMoves
<1> QED  BY <1>3, <1>5, <1>9, Found, TagsStay, Assembled

-----------------------------------------------------------------------------

\* At first nothing is tagged, linked or asked.
LEMMA BookInit == ASSUME Book!Init PROVE BookInv
<1>1. PICK titles \in [Pages -> Titles], last \in Pages :
          page = [n \in Pages |-> [state |-> IF n = last THEN "unused" ELSE "live",
                                   title |-> titles[n], mentions |-> {}]]
  BY DEF Book!Init
<1>2. page \in [Pages -> Book!NoteRow]  BY <1>1 DEF Book!NoteRow
<1>3. /\ tagging = [h \in Handlers |-> Book!NoWork] /\ linked = {}
      /\ placed = {n \in Pages : page[n].state = "live"} \X Shelves /\ folders = Shelves
      /\ edit = [h \in Handlers |-> Book!Idle] /\ edits = 0 /\ faults = 0
  BY DEF Book!Init, Book!NoName
<1>4. edit \in [Handlers -> Requests] /\ \A h \in Handlers : edit[h].op = "idle"
  BY <1>3 DEF Requests, Book!Idle
<1>5. placed \subseteq Pages \X Shelves  BY <1>3
<1>6. edits \in 0..MaxEdits /\ faults \in 0..MaxFaults
  <2>1. MaxEdits \in Nat /\ MaxFaults \in Nat  BY NotebookAssumption, Zenon
  <2>2. edits = 0 /\ faults = 0  BY <1>3, Zenon
  <2> QED  BY ONLY <2>1, <2>2
<1>10. tag \in [TagIds -> TagNames \cup {"-"}] /\ tagged \subseteq Pages \X TagIds
  BY <1>1 DEF Book!Init, Book!NoName
<1>7. Book!TypeOK
  <2>1. tagging \in [Handlers -> Book!TagWork]  BY <1>3, NoWorkFits
  <2> QED  BY <1>2, <1>3, <1>4, <1>5, <1>6, <1>10, <2>1 DEF Book!TypeOK, Book!NoName
<1>8. TagsFit
  <2>1. \A h \in Handlers : tagging[h] = Book!NoWork  BY <1>3
  <2> QED  BY <2>1, NoWorkFits DEF TagsFit, Apart
<1>9. MentionsFit  BY <1>4 DEF MentionsFit
<1> QED  BY <1>4, <1>7, <1>8, <1>9 DEF BookInv

\* Every step keeps tags and mentions in order.
LEMMA BookStep == ASSUME BookInv, Book!Next PROVE BookInv'
<1>1. CASE \E t \in TagIds : \/ Book!HandleDeleteTag(t)
                             \/ \E name \in TagNames : Book!HandleRenameTag(t, name)
  BY <1>1, DeleteTagFits, RenameTagFits
<1>6. CASE \E h \in Handlers :
             \/ \E n \in Pages, name \in TagNames :
                   Book!HandleAddNoteTag(h, n, name) \/ Book!HandleRemoveNoteTag(h, n, name)
             \/ Book!SelectTag(h) \/ Book!AttachTag(h) \/ Book!KeepTag(h) \/ Book!CommitTag(h)
             \/ Book!DetachTag(h) \/ Book!LookForNotes(h) \/ Book!CommitRemoval(h) \/ Book!FailTag(h)
  BY <1>6, BeginTagFits, TagStatementFits, CommitTagFits, CommitRemovalFits, FailTagFits
<1>2. CASE \E from, to \in Pages : Book!HandleAddNoteLink(from, to) \/ Book!HandleRemoveNoteLink(from, to)
  BY <1>2, AddNoteLinkFits, RemoveNoteLinkFits
<1>3. CASE \E n \in Pages : \/ Book!DeleteNote(n) \/ Book!RestoreNote(n) \/ Book!PurgeNote(n)
                            \/ \E title \in Titles : Book!HandleUpdateNoteTitle(n, title)
  BY <1>3, TrashFits, PurgeNoteFits, UpdateNoteTitleFits
<1>4. CASE \E f \in Shelves : Book!TrashFolder(f)  BY <1>4, TrashFolderFits
<1>5. CASE \E h \in Handlers :
             \/ \E n \in Pages : \/ \E titles \in SUBSET Titles : Book!SaveBody(h, n, titles)
                                 \/ Book!ReadOriginal(h, n) \/ Book!CreateCopy(h, n)
             \/ \E title \in Titles : Book!FindMention(h, title)
             \/ Book!LinkMention(h) \/ Book!FailMention(h) \/ Book!AnswerBody(h)
             \/ \E name \in TagNames : Book!CopyTag(h, name)
             \/ \E f \in Shelves : Book!CopyFolder(h, f)
             \/ Book!AnswerCopy(h) \/ Book!FailCopy(h)
  BY <1>5, SaveBodyFits, ReadOriginalFits, CreateCopyFits, FindMentionFits, LinkMentionFits,
     FailMentionFits, AnswerFits, BeginTagFits, CopyFolderFits
<1> QED  BY <1>1, <1>2, <1>3, <1>4, <1>5, <1>6, Zenon DEF Book!Next

\* And so does a step of something else.
LEMMA BookStutter == ASSUME BookInv, UNCHANGED Book!vars PROVE BookInv'
<1>1. UNCHANGED <<page, tag, tagged, linked, placed, folders, edit, tagging, edits, faults>>
  BY DEF Book!vars
<1>2. edit' \in [Handlers -> Requests] /\ MentionsFit'
  <2>1. linked \subseteq linked'  BY <1>1
  <2> QED  BY <1>1, <2>1, RequestsStay
<1> QED  BY <1>1, <1>2, Found, TagsStay, Assembled

-----------------------------------------------------------------------------

\* What a removal does when it ends: Ended is the action of TagsGoWithTheirLastNote.
Ended(h) ==
    (tagging[h].at = "checked" /\ tagging'[h].at = "none") =>
       /\ \A p \in tagged \ tagged' :
             p = Book!Row(h) \/ (p[2] = tagging[h].tag /\ p[1] \in tagging[h].late)
       /\ (tag'[tagging[h].tag] # "-" /\ \A n \in Pages : <<n, tagging[h].tag>> \notin tagged')
             => tagging[h].left

\* A transaction that a step leaves open, or only tells of rows.
LEMMA StillOpen ==
    ASSUME BookInv, NEW h \in Handlers, tagging[h].at = "checked",
           \/ UNCHANGED tagging
           \/ \E i \in Handlers \ {h} : \E w : tagging' = [tagging EXCEPT ![i] = w]
           \/ \E new : tagging' = Book!Tell(new)
           \/ \E i \in Handlers \ {h} : \E new : Book!Commit(i, new)
    PROVE  tagging'[h].at = "checked"
<1>1. tagging \in [Handlers -> Book!TagWork]  BY Found
<1>2. \A new : Book!Tell(new)[h].at = "checked"
  <2> SUFFICES ASSUME NEW new PROVE Book!Tell(new)[h].at = "checked"  OBVIOUS
  <2>1. PICK w : w = tagging[h]  OBVIOUS
  <2>2. w \in Book!TagWork /\ w.at = "checked"  BY <1>1, <2>1
  <2>3. PICK late, left : Book!Tell(new)[h] = [w EXCEPT !.late = late, !.left = left]
    <3>1. PICK late, left : Book!Tell(new)[h] = [tagging[h] EXCEPT !.late = late, !.left = left]
      <4>1. Book!Tell(new)[h] = [tagging[h] EXCEPT
               !.late = tagging[h].late \cup {n \in Pages : <<n, tagging[h].tag>> \in new \ tagged},
               !.left = tagging[h].left \/ {n \in Pages : <<n, tagging[h].tag>> \in tagged \ new} # {}]
        BY Told, Zenon
      <4> QED  BY ONLY <4>1, Zenon
    <3> QED  BY <2>1, <3>1, Zenon
  <2> QED  BY <2>2, <2>3 DEF Book!TagWork
<1>3. CASE UNCHANGED tagging  BY <1>3
<1>4. CASE \E i \in Handlers \ {h} : \E w : tagging' = [tagging EXCEPT ![i] = w]  BY <1>1, <1>4
<1>5. CASE \E new : tagging' = Book!Tell(new)  BY <1>2, <1>5
<1>6. CASE \E i \in Handlers \ {h} : \E new : Book!Commit(i, new)
  <2>5. PICK i \in Handlers \ {h} : \E new : tagging' = [Book!Tell(new) EXCEPT ![i] = Book!NoWork]
    BY <1>6, Zenon DEF Book!Commit
  <2>1. PICK new : tagging' = [Book!Tell(new) EXCEPT ![i] = Book!NoWork]  BY <2>5, Zenon
  <2>2. PICK f : f = Book!Tell(new)  OBVIOUS
  <2>3. f = [j \in Handlers |-> f[j]]  BY <2>2, Zenon DEF Book!Tell
  <2>4. tagging'[h] = f[h]  BY <2>1, <2>2, <2>3
  <2> QED  BY <1>2, <2>2, <2>4
<1> QED  BY <1>3, <1>4, <1>5, <1>6

\* Only its own commit, or its own failure, ends a removal that has looked.
LEMMA RemovalEnds ==
    ASSUME BookInv, [Book!Next]_Book!vars, NEW h \in Handlers, tagging[h].at = "checked",
           tagging'[h].at = "none"
    PROVE  Book!CommitRemoval(h) \/ Book!FailTag(h)
<1>1. /\ ~UNCHANGED tagging /\ ~ \E new : tagging' = Book!Tell(new)
      /\ ~ \E i \in Handlers \ {h} : \E w : tagging' = [tagging EXCEPT ![i] = w]
      /\ ~ \E i \in Handlers \ {h} : \E new : Book!Commit(i, new)
  BY StillOpen
<1>2. Book!Next  BY <1>1 DEF Book!vars
<1>3. ~ \E t \in TagIds : \/ Book!HandleDeleteTag(t)
                          \/ \E name \in TagNames : Book!HandleRenameTag(t, name)
  BY <1>1, Zenon DEF Book!HandleDeleteTag, Book!DeleteTag, Book!HandleRenameTag
<1>4. ~ \E from, to \in Pages : Book!HandleAddNoteLink(from, to) \/ Book!HandleRemoveNoteLink(from, to)
  BY <1>1, Zenon DEF Book!HandleAddNoteLink, Book!HandleRemoveNoteLink
<1>5. ~ \E n \in Pages : \/ Book!DeleteNote(n) \/ Book!RestoreNote(n) \/ Book!PurgeNote(n)
                         \/ \E title \in Titles : Book!HandleUpdateNoteTitle(n, title)
  BY <1>1, Zenon DEF Book!DeleteNote, Book!RestoreNote, Book!PurgeNote, Book!HandleUpdateNoteTitle
<1>6. ~ \E f \in Shelves : Book!TrashFolder(f)  BY <1>1, Zenon DEF Book!TrashFolder
<1>7. ASSUME NEW i \in Handlers,
             \/ \E n \in Pages : \/ \E titles \in SUBSET Titles : Book!SaveBody(i, n, titles)
                                 \/ Book!ReadOriginal(i, n) \/ Book!CreateCopy(i, n)
             \/ \E title \in Titles : Book!FindMention(i, title)
             \/ Book!LinkMention(i) \/ Book!FailMention(i) \/ Book!AnswerBody(i)
             \/ \E name \in TagNames : Book!CopyTag(i, name)
             \/ \E f \in Shelves : Book!CopyFolder(i, f)
             \/ Book!AnswerCopy(i) \/ Book!FailCopy(i)
      PROVE  FALSE
  <2>1. PICK name : Book!CopyTag(i, name)
    BY <1>1, <1>7, Zenon DEF Book!SaveBody, Book!ReadOriginal, Book!CreateCopy, Book!FindMention,
       Book!LinkMention, Book!FailMention, Book!AnswerBody, Book!CopyFolder, Book!AnswerCopy, Book!FailCopy
  <2>2. i # h  BY <2>1 DEF Book!CopyTag
  <2>3. \E w : tagging' = [tagging EXCEPT ![i] = w]  BY <2>1, Zenon DEF Book!CopyTag, Book!InsertTag
  <2> QED  BY <1>1, <2>2, <2>3, Zenon
<1>8. ASSUME NEW i \in Handlers,
             \/ \E n \in Pages, name \in TagNames :
                   Book!HandleAddNoteTag(i, n, name) \/ Book!HandleRemoveNoteTag(i, n, name)
             \/ Book!SelectTag(i) \/ Book!AttachTag(i) \/ Book!KeepTag(i) \/ Book!CommitTag(i)
             \/ Book!DetachTag(i) \/ Book!LookForNotes(i) \/ Book!CommitRemoval(i) \/ Book!FailTag(i)
      PROVE  Book!CommitRemoval(h) \/ Book!FailTag(h)
  <2>1. CASE i = h
    <3>1. ~ \E n \in Pages, name \in TagNames :
              Book!HandleAddNoteTag(i, n, name) \/ Book!HandleRemoveNoteTag(i, n, name)
      BY <2>1 DEF Book!HandleAddNoteTag, Book!HandleRemoveNoteTag, Book!Free
    <3>2. ~Book!SelectTag(i) /\ ~Book!AttachTag(i) /\ ~Book!KeepTag(i) /\ ~Book!CommitTag(i)
          /\ ~Book!DetachTag(i) /\ ~Book!LookForNotes(i)
      BY <2>1 DEF Book!SelectTag, Book!AttachTag, Book!KeepTag, Book!CommitTag, Book!DetachTag,
         Book!LookForNotes
    <3> QED  BY <1>8, <2>1, <3>1, <3>2, Zenon
  <2>2. CASE i # h
    <3>1. (\E w : tagging' = [tagging EXCEPT ![i] = w]) \/ \E new : Book!Commit(i, new)
      <4>1. CASE \E n \in Pages, name \in TagNames :
                   Book!HandleAddNoteTag(i, n, name) \/ Book!HandleRemoveNoteTag(i, n, name)
        BY <4>1, Zenon DEF Book!HandleAddNoteTag, Book!HandleRemoveNoteTag, Book!InsertTag
      <4>2. CASE Book!KeepTag(i) \/ Book!CommitTag(i) \/ Book!CommitRemoval(i)
        BY <4>2, Zenon DEF Book!KeepTag, Book!CommitTag, Book!CommitRemoval
      <4>3. CASE Book!FailTag(i)  BY <4>3, Zenon DEF Book!FailTag
      <4>4. CASE Book!SelectTag(i) \/ Book!AttachTag(i) \/ Book!DetachTag(i) \/ Book!LookForNotes(i)
        <5>1. tagging \in [Handlers -> Book!TagWork]  BY Found
        <5>2. PICK v : v = tagging[i]  OBVIOUS
        <5>3. CASE Book!SelectTag(i)
          <6>1. PICK t : tagging' = [tagging EXCEPT ![i].at = "selected", ![i].tag = t]
            BY <5>3 DEF Book!SelectTag
          <6>2. tagging' = [tagging EXCEPT ![i] = [v EXCEPT !.at = "selected", !.tag = t]]
            BY <5>1, <5>2, <6>1
          <6> QED  BY <6>2
        <5>4. CASE Book!AttachTag(i) \/ Book!DetachTag(i)
          <6>1. PICK a : tagging' = [tagging EXCEPT ![i].at = a]
            BY <5>4 DEF Book!AttachTag, Book!DetachTag
          <6>2. tagging' = [tagging EXCEPT ![i] = [v EXCEPT !.at = a]]  BY <5>1, <5>2, <6>1
          <6> QED  BY <6>2
        <5>5. CASE Book!LookForNotes(i)
          <6>1. PICK o : tagging' = [tagging EXCEPT ![i].at = "checked", ![i].orphan = o]
            BY <5>5 DEF Book!LookForNotes
          <6>2. tagging' = [tagging EXCEPT ![i] = [v EXCEPT !.at = "checked", !.orphan = o]]
            BY <5>1, <5>2, <6>1
          <6> QED  BY <6>2
        <5> QED  BY <4>4, <5>3, <5>4, <5>5
      <4> QED  BY <1>8, <4>1, <4>2, <4>3, <4>4
    <3> QED  BY <1>1, <2>2, <3>1
  <2> QED  BY <2>1, <2>2
<1> QED  BY <1>2, <1>3, <1>4, <1>5, <1>6, <1>7, <1>8, Zenon DEF Book!Next

LEMMA RemovalIsRight ==
    ASSUME BookInv, [Book!Next]_Book!vars, NEW h \in Handlers
    PROVE  Ended(h)
<1> SUFFICES ASSUME tagging[h].at = "checked", tagging'[h].at = "none" PROVE Ended(h)  BY DEF Ended
<1>1. PICK v : v = tagging[h]  OBVIOUS
<1>2. WorkFits(v) /\ v.at = "checked"  BY <1>1, Found DEF TagsFit
<1>3. v \in Book!TagWork /\ v.tag \in TagIds /\ tagged \subseteq Pages \X TagIds
  BY <1>1, <1>2, Found DEF WorkFits
<1>4. CASE Book!FailTag(h)
  <2>1. UNCHANGED tagged  BY <1>4 DEF Book!FailTag
  <2>2. v.note \in Pages /\ <<v.note, v.tag>> \in tagged'  BY <1>2, <2>1 DEF WorkFits
  <2> QED  BY <1>1, <2>1, <2>2 DEF Ended
<1>5. CASE Book!CommitRemoval(h) /\ v.orphan
  <2>1. tag' = [tag EXCEPT ![v.tag] = "-"] /\ tagged' = {p \in tagged : p[2] # v.tag}
    BY <1>1, <1>5 DEF Book!CommitRemoval, Book!NoName, Book!Commit
  <2>2. tag'[v.tag] = "-"  BY <1>3, <2>1, Found
  <2>3. ASSUME NEW p \in tagged \ tagged'
        PROVE  p = <<v.note, v.tag>> \/ (p[2] = v.tag /\ p[1] \in v.late)
    <3>1. p[2] = v.tag /\ p[1] \in Pages /\ p = <<p[1], v.tag>>  BY <1>3, <2>1, <2>3
    <3> QED  BY <1>2, <1>5, <2>3, <3>1 DEF WorkFits
  <2> QED  BY <1>1, <2>2, <2>3 DEF Ended, Book!Row
<1>6. CASE Book!CommitRemoval(h) /\ ~v.orphan
  <2>1. tagged' = tagged \ {<<v.note, v.tag>>}
    BY <1>1, <1>6 DEF Book!CommitRemoval, Book!Row, Book!Commit
  <2>2. v.left \/ \E m \in Pages \ {v.note} : <<m, v.tag>> \in tagged'
    BY <1>2, <1>6, <2>1 DEF WorkFits
  <2>3. \A p \in tagged \ tagged' : p = <<v.note, v.tag>>  BY <2>1
  <2> QED  BY <1>1, <2>2, <2>3 DEF Ended, Book!Row
<1> QED  BY <1>4, <1>5, <1>6, RemovalEnds

\* Whatever runs between its statements, a removal takes a tag off no other note that had it
\* when it looked, and leaves no tag behind without a note unless one let go of it since.
THEOREM RemovalsTakeTheirOwn == Book!Spec => TagsGoWithTheirLastNote
<1> DEFINE Ends == \A h \in Handlers : Ended(h)
<1>1. Book!Init => BookInv  BY BookInit
<1>2. BookInv /\ [Book!Next]_Book!vars => BookInv'  BY BookStep, BookStutter
<1>3. BookInv /\ [Book!Next]_Book!vars => Ends  BY RemovalIsRight
<1>4. BookInv => Book!TypeOK  BY DEF BookInv
<1> HIDE DEF Ends
<1>5. Book!Spec => []Book!TypeOK /\ [][Ends]_Book!vars  BY <1>1, <1>2, <1>3, <1>4, PTL DEF Book!Spec
<1> QED  BY <1>5 DEF TagsGoWithTheirLastNote, Book!TagsGoWithTheirLastNote, Ends, Ended, Book!NoName

\* The statements on tags end no body.
LEMMA TagsLeaveBodies ==
    ASSUME BookInv, NEW i \in Handlers, NEW h \in Handlers, edit[h].op = "body",
           \/ \E n \in Pages, name \in TagNames :
                 Book!HandleAddNoteTag(i, n, name) \/ Book!HandleRemoveNoteTag(i, n, name)
           \/ Book!SelectTag(i) \/ Book!AttachTag(i) \/ Book!KeepTag(i) \/ Book!CommitTag(i)
           \/ Book!DetachTag(i) \/ Book!LookForNotes(i) \/ Book!CommitRemoval(i) \/ Book!FailTag(i)
    PROVE  edit'[h] # Book!Idle
<1>1. edit[h] # Book!Idle  BY DEF Book!Idle
<1>2. CASE UNCHANGED edit  BY <1>1, <1>2
<1>3. CASE Book!KeepTag(i) \/ Book!CommitTag(i) \/ Book!FailTag(i)
  <2>1. /\ UNCHANGED <<page, linked>>
        /\ \/ Book!NameDone(i)
           \/ edit' = [edit EXCEPT ![i] = IF edit[i].op = "copy" THEN Book!Idle ELSE edit[i]]
    BY <1>3 DEF Book!KeepTag, Book!CommitTag, Book!FailTag
  <2> QED  BY <1>1, <2>1, CopyMoves
<1> QED  BY <1>2, <1>3 DEF Book!HandleAddNoteTag, Book!HandleRemoveNoteTag, Book!SelectTag,
   Book!AttachTag, Book!DetachTag, Book!LookForNotes, Book!CommitRemoval

-----------------------------------------------------------------------------

\* A body whose request is left alone, or only goes on, is not answered.
LEMMA StillSaving ==
    ASSUME BookInv, NEW h \in Handlers, edit[h].op = "body",
           \/ UNCHANGED edit
           \/ \E i \in Handlers : \E r : /\ edit' = [edit EXCEPT ![i] = r]
                                         /\ i = h => r.op = "body"
           \/ \E new : Book!SetNotes(new)
           \/ \E from, to : Book!HandleRemoveNoteLink(from, to)
    PROVE  edit'[h] # Book!Idle
<1>0. edit \in [Handlers -> Requests]  BY DEF BookInv
<1>1. edit[h] \in BodyRequest  BY <1>0, RequestKinds
<1>2. CASE UNCHANGED edit  BY <1>2 DEF Book!Idle
<1>3. CASE \E i \in Handlers : \E r : /\ edit' = [edit EXCEPT ![i] = r]
                                      /\ i = h => r.op = "body"
  BY <1>0, <1>3 DEF Book!Idle
<1>4. CASE \E new : Book!SetNotes(new)
  <2>1. PICK new : edit' = [i \in Handlers |-> Book!StillSure(edit[i], new)]
    BY <1>4 DEF Book!SetNotes
  <2>2. edit'[h] = Book!StillSure(edit[h], new)  BY <2>1
  <2>3. PICK r : r = edit[h]  OBVIOUS
  <2>4. r \in BodyRequest /\ r.op = "body" /\ edit'[h] = Book!StillSure(r, new)  BY <1>1, <2>2, <2>3
  <2>5. PICK kept : edit'[h] = [r EXCEPT !.sure = kept]  BY <2>4 DEF Book!StillSure
  <2>6. edit'[h].op = "body"  BY <2>4, <2>5 DEF BodyRequest
  <2> QED  BY <2>6 DEF Book!Idle
<1>5. CASE \E from, to : Book!HandleRemoveNoteLink(from, to)
  <2>1. PICK from, to :
            edit' = [i \in Handlers |->
                      IF edit[i].op = "body" /\ edit[i].note = from
                      THEN [edit[i] EXCEPT !.sure = @ \ {page[to].title}] ELSE edit[i]]
    <3>1. PICK from, to : Book!HandleRemoveNoteLink(from, to)  BY <1>5, Zenon
    <3> QED  BY ONLY <3>1, Zenon DEF Book!HandleRemoveNoteLink
  <2>2. PICK r : r = edit[h]  OBVIOUS
  <2>3. r \in BodyRequest /\ r.op = "body"  BY <1>1, <2>2
  <2>4. edit'[h] = r \/ edit'[h] = [r EXCEPT !.sure = @ \ {page[to].title}]  BY <2>1, <2>2
  <2>5. edit'[h].op = "body"  BY <2>3, <2>4 DEF BodyRequest
  <2> QED  BY <2>5 DEF Book!Idle
<1> QED  BY <1>2, <1>3, <1>4, <1>5

\* The steps of the loop over the mentions keep the request a body's.
LEMMA LoopGoesOn ==
    ASSUME BookInv, NEW i \in Handlers,
           (\E title : Book!FindMention(i, title)) \/ Book!LinkMention(i) \/ Book!FailMention(i)
    PROVE  \E r : edit' = [edit EXCEPT ![i] = r] /\ r.op = "body"
<1>1. PICK q : q = edit[i]  OBVIOUS
<1>2. edit \in [Handlers -> Requests]  BY DEF BookInv
<1>3. q.op = "body" /\ q \in BodyRequest
  <2>1. q.op = "body"
    BY <1>1 DEF Book!FindMention, Book!LinkMention, Book!FailMention
  <2> QED  BY <1>1, <1>2, <2>1, RequestKinds
<1>4. CASE \E title : Book!FindMention(i, title)
  <2>1. PICK a, b : edit' = [edit EXCEPT ![i].todo = a, ![i].target = b]
    BY <1>4 DEF Book!FindMention
  <2>2. PICK r : r = [q EXCEPT !.todo = a, !.target = b]  OBVIOUS
  <2>3. edit' = [edit EXCEPT ![i] = r]  BY <1>1, <1>2, <2>1, <2>2
  <2>4. r.op = "body"  BY <1>3, <2>2 DEF BodyRequest
  <2> QED  BY <2>3, <2>4
<1>5. CASE Book!LinkMention(i)
  <2>1. edit' = [edit EXCEPT ![i].target = {}]  BY <1>5, Zenon DEF Book!LinkMention
  <2>2. PICK r : r = [q EXCEPT !.target = {}]  OBVIOUS
  <2>3. edit' = [edit EXCEPT ![i] = r]  BY <1>1, <1>2, <2>1, <2>2
  <2>4. r.op = "body"  BY <1>3, <2>2 DEF BodyRequest
  <2> QED  BY <2>3, <2>4
<1>6. CASE Book!FailMention(i)
  <2>1. PICK b : edit' = [edit EXCEPT ![i].target = {}, ![i].sure = b]
    BY <1>6 DEF Book!FailMention
  <2>2. PICK r : r = [q EXCEPT !.target = {}, !.sure = b]  OBVIOUS
  <2>3. edit' = [edit EXCEPT ![i] = r]  BY <1>1, <1>2, <2>1, <2>2
  <2>4. r.op = "body"  BY <1>3, <2>2 DEF BodyRequest
  <2> QED  BY <2>3, <2>4
<1> QED  BY <1>4, <1>5, <1>6

\* Only AnswerBody answers a body.
LEMMA BodyIsAnswered ==
    ASSUME BookInv, [Book!Next]_Book!vars, NEW h \in Handlers, edit[h].op = "body",
           edit'[h] = Book!Idle
    PROVE  Book!AnswerBody(h)
<1>1. ~UNCHANGED edit /\ ~(\E new : Book!SetNotes(new))
      /\ ~(\E from, to : Book!HandleRemoveNoteLink(from, to))
  BY StillSaving
<1>2. ASSUME NEW i \in Handlers, NEW r, edit' = [edit EXCEPT ![i] = r]
      PROVE  i = h /\ r.op # "body"
  BY <1>2, StillSaving
<1>3. Book!Next  BY <1>1 DEF Book!vars
<1>4. ~ \E i \in Handlers :
            \/ \E n \in Pages, name \in TagNames :
                   Book!HandleAddNoteTag(i, n, name) \/ Book!HandleRemoveNoteTag(i, n, name)
            \/ Book!SelectTag(i) \/ Book!AttachTag(i) \/ Book!KeepTag(i) \/ Book!CommitTag(i)
            \/ Book!DetachTag(i) \/ Book!LookForNotes(i) \/ Book!CommitRemoval(i) \/ Book!FailTag(i)
  BY TagsLeaveBodies
<1>5. ~ \E t \in TagIds : \/ Book!HandleDeleteTag(t)
                          \/ \E name \in TagNames : Book!HandleRenameTag(t, name)
  BY <1>1, Zenon DEF Book!HandleDeleteTag, Book!HandleRenameTag
<1>6. ~ \E from, to \in Pages : Book!HandleAddNoteLink(from, to) \/ Book!HandleRemoveNoteLink(from, to)
  BY <1>1, Zenon DEF Book!HandleAddNoteLink
<1>7. ~ \E n \in Pages : \/ Book!DeleteNote(n) \/ Book!RestoreNote(n) \/ Book!PurgeNote(n)
                         \/ \E title \in Titles : Book!HandleUpdateNoteTitle(n, title)
  BY <1>1, Zenon DEF Book!DeleteNote, Book!RestoreNote, Book!PurgeNote, Book!HandleUpdateNoteTitle,
     Book!UpdateNoteTitle
<1>8. ~ \E f \in Shelves : Book!TrashFolder(f)  BY <1>1, Zenon DEF Book!TrashFolder
<1>9. ASSUME NEW i \in Handlers,
             \/ \E n \in Pages : \/ \E titles \in SUBSET Titles : Book!SaveBody(i, n, titles)
                                 \/ Book!ReadOriginal(i, n) \/ Book!CreateCopy(i, n)
             \/ \E title \in Titles : Book!FindMention(i, title)
             \/ Book!LinkMention(i) \/ Book!FailMention(i) \/ Book!AnswerBody(i)
             \/ \E name \in TagNames : Book!CopyTag(i, name)
             \/ \E f \in Shelves : Book!CopyFolder(i, f)
             \/ Book!AnswerCopy(i) \/ Book!FailCopy(i)
      PROVE  Book!AnswerBody(h)
  <2>1. ~(\E title : Book!FindMention(i, title)) /\ ~Book!LinkMention(i) /\ ~Book!FailMention(i)
    BY <1>2, LoopGoesOn
  <2>2. edit \in [Handlers -> Requests]  BY DEF BookInv
  <2>3. CASE Book!AnswerBody(i)
    BY <1>2, <2>3 DEF Book!AnswerBody
  <2>4. CASE i = h
    <3>1. edit[i].op = "body"  BY <2>4
    <3>2. ~ \E n \in Pages : \/ \E titles \in SUBSET Titles : Book!SaveBody(i, n, titles)
                             \/ Book!ReadOriginal(i, n) \/ Book!CreateCopy(i, n)
      BY <3>1 DEF Book!SaveBody, Book!ReadOriginal, Book!CreateCopy, Book!Free
    <3>3. ~(\E name \in TagNames : Book!CopyTag(i, name)) /\ ~(\E f \in Shelves : Book!CopyFolder(i, f))
      BY <3>1 DEF Book!CopyTag, Book!CopyFolder
    <3>4. ~Book!AnswerCopy(i) /\ ~Book!FailCopy(i)  BY <3>1 DEF Book!AnswerCopy, Book!FailCopy
    <3> QED  BY <1>9, <2>1, <2>4, <3>2, <3>3, <3>4, Zenon
  <2>5. CASE i # h
    <3>1. edit'[h] = edit[h]
      BY <1>9, <2>1, <2>2, <2>5 DEF Book!SaveBody, Book!ReadOriginal, Book!CreateCopy, Book!CopyTag,
         Book!CopyFolder, Book!AnswerCopy, Book!FailCopy, Book!AnswerBody
    <3>2. edit'[h].op = "body"  BY <3>1
    <3> QED  BY <3>2 DEF Book!Idle
  <2> QED  BY <2>4, <2>5
<1> QED  BY <1>3, <1>4, <1>5, <1>6, <1>7, <1>8, <1>9, Zenon DEF Book!Next

\* A body is answered with every link that was sure to be made.
LEMMA AnsweredIsLinked ==
    ASSUME BookInv, NEW h \in Handlers, Book!AnswerBody(h), NEW t \in edit[h].sure,
           NEW n \in Book!FindNoteByTitleCI(t)
    PROVE  n \in Book!OutgoingLinks(edit[h].note) /\ edit[h].note \in Book!Backlinks(n)
<1>1. PICK r : r = edit[h]  OBVIOUS
<1>2. r.op = "body" /\ r.todo = {} /\ r.target = {} /\ t \in r.sure  BY <1>1 DEF Book!AnswerBody
<1>3. r \in BodyRequest  BY <1>1, <1>2, RequestKinds DEF BookInv
<1>4. MentionFits(r, t)  BY <1>1, <1>2 DEF BookInv, MentionsFit
<1>5. PICK m \in Pages : Book!Resolved(page, t) = {m} /\ <<r.note, m>> \in linked
  BY <1>2, <1>4 DEF MentionFits
<1>6. n = m  BY <1>5, FindsTheOne
<1>7. m \in Book!Live  BY <1>5 DEF Book!Resolved, Book!Live
<1>8. r.note \in Pages /\ r.note \in Book!Live  BY <1>3, <1>4 DEF MentionFits, BodyRequest, Book!Live
<1> QED  BY <1>1, <1>5, <1>6, <1>7, <1>8 DEF Book!OutgoingLinks, Book!Backlinks

\* Whatever happens between the statements that save a body, it is answered with a link for
\* every mention that named one other live note throughout.
THEOREM AnsweredBodiesAreLinked == Book!Spec => MentionsAreLinked
<1> DEFINE Linked ==
        \A h \in Handlers :
          (edit[h].op = "body" /\ edit'[h] = Book!Idle) =>
             \A t \in edit[h].sure :
                 \A n \in Book!FindNoteByTitleCI(t) : /\ n \in Book!OutgoingLinks(edit[h].note)
                                                      /\ edit[h].note \in Book!Backlinks(n)
<1>1. Book!Init => BookInv  BY BookInit
<1>2. BookInv /\ [Book!Next]_Book!vars => BookInv'  BY BookStep, BookStutter
<1>3. BookInv /\ [Book!Next]_Book!vars => Linked  BY BodyIsAnswered, AnsweredIsLinked
<1> HIDE DEF Linked
<1>4. Book!Spec => [][Linked]_Book!vars  BY <1>1, <1>2, <1>3, PTL DEF Book!Spec
<1> QED  BY <1>4 DEF MentionsAreLinked, Book!MentionsAreLinked, Linked

-----------------------------------------------------------------------------
(* People and their merges (module People).                                *)

PersonIds == Emails \X Nat
CompanyIds == Folk!Domains \X Nat
AnyName == Names \cup {""}

PersonRow == [live : BOOLEAN, inc : Nat, name : AnyName, company : CompanyIds \cup {<<>>}]
AliasRow == [name : AnyName, person : PersonIds \cup {<<>>}]

DeriveTask == [op : {"derive"}, todo : SUBSET Emails, at : Emails \cup {""},
               company : CompanyIds \cup {<<>>}]
RelinkTask == [op : {"relink"}, stage : {"aliases", "people", "link"},
               aliases : SUBSET (Labels \X AnyName), people : SUBSET (Labels \X PersonIds)]
AssignTask == [op : {"assign"}, label : Labels, person : PersonIds]
EditTask == [op : {"edit"}, person : PersonIds, company : CompanyIds]
CompaniesTask == [op : {"mergeCompanies"}, stage : {"checked", "moved"}, from : CompanyIds,
                  into : CompanyIds, moved : SUBSET Emails]
MergeTask == [op : {"merge"}, stage : {"checked", "moved", "deleted"}, from : PersonIds,
              into : PersonIds, moved : SUBSET Labels, spoke : SUBSET Labels]
TaskRecord == {Folk!Idle} \cup DeriveTask \cup RelinkTask \cup AssignTask \cup EditTask
                 \cup CompaniesTask \cup MergeTask

FolkTypes ==
    /\ person \in [Emails -> PersonRow]
    /\ company \in [Folk!Domains -> [live : BOOLEAN, inc : Nat]]
    /\ alias \in [Labels -> AliasRow]
    /\ noteLive \in BOOLEAN
    /\ asks \in 0..MaxAsks /\ failures \in 0..MaxFaults

\* The foreign keys: a person's company and an alias's person are there, and a person who
\* is not there has no company.
PersonFits(e) == Folk!CompanyExists(person[e].company) /\ (person[e].live \/ person[e].company = <<>>)
AliasFits(l) == alias[l].person = <<>> \/ Folk!PersonExists(alias[l].person)

\* What a merge has read or locked: two different companies or people, the people or speakers
\* it will move, the company they go to, and, once it has deleted it, a row that nobody else
\* can delete.
TaskFits(k) ==
    /\ k.op = "mergeCompanies" => /\ k.from[1] # k.into[1]
                                  /\ k.moved # {} => k.stage = "moved" /\ Folk!CompanyExists(k.into)
    /\ k.op = "merge" => /\ k.from # k.into
                         /\ k.stage \in {"moved", "deleted"} => k.spoke = k.moved
                         /\ k.stage = "deleted" => Folk!PersonExists(k.from)

Deletes(k) == k.op = "merge" /\ k.stage = "deleted"
Refers(k, c) == k.op = "mergeCompanies" /\ k.moved # {} /\ k.into = c

TasksApart == \A t, u \in Tasks : Deletes(task[t]) /\ Deletes(task[u]) /\ task[t].from = task[u].from => t = u

FolkInv ==
    /\ FolkTypes
    /\ \A e \in Emails : PersonFits(e)
    /\ \A l \in Labels : AliasFits(l)
    /\ task \in [Tasks -> TaskRecord]
    /\ \A t \in Tasks : TaskFits(task[t])
    /\ TasksApart

-----------------------------------------------------------------------------

\* An id is a pair, and stands for a row.
LEMMA IdsAreSomething ==
    ASSUME NEW p \in PersonIds \cup CompanyIds
    PROVE  p # <<>> /\ p = <<p[1], p[2]>> /\ p[2] \in Nat
  BY DEF PersonIds, CompanyIds

\* Tasks are told apart by what they do.
LEMMA TaskKinds ==
    ASSUME NEW k \in TaskRecord
    PROVE  /\ k.op = "idle" <=> k = Folk!Idle
           /\ k.op = "derive" => k \in DeriveTask
           /\ k.op = "relink" => k \in RelinkTask
           /\ k.op = "assign" => k \in AssignTask
           /\ k.op = "edit" => k \in EditTask
           /\ k.op = "mergeCompanies" => k \in CompaniesTask
           /\ k.op = "merge" => k \in MergeTask
<1>1. Folk!Idle.op = "idle"  BY DEF Folk!Idle
<1>2. \A d \in DeriveTask : d.op = "derive"  BY DEF DeriveTask
<1>3. \A d \in RelinkTask : d.op = "relink"  BY DEF RelinkTask
<1>4. \A d \in AssignTask : d.op = "assign"  BY DEF AssignTask
<1>5. \A d \in EditTask : d.op = "edit"  BY DEF EditTask
<1>6. \A d \in CompaniesTask : d.op = "mergeCompanies"  BY DEF CompaniesTask
<1>7. \A d \in MergeTask : d.op = "merge"  BY DEF MergeTask
<1> QED  BY <1>1, <1>2, <1>3, <1>4, <1>5, <1>6, <1>7 DEF TaskRecord

\* Companies that are not written stay.
LEMMA CompaniesStay ==
    ASSUME UNCHANGED company  PROVE \A c : Folk!CompanyExists(c)' <=> Folk!CompanyExists(c)
  BY DEF Folk!CompanyExists, Folk!CompanyId

\* One task goes on, and the rows that other merges are deleting stay.
LEMMA OneTaskMoves ==
    ASSUME FolkInv, NEW t \in Tasks, NEW k \in TaskRecord, task' = [task EXCEPT ![t] = k],
           TaskFits(k)',
           \A c \in CompanyIds : \A u \in Tasks \ {t} :
               Refers(task[u], c) /\ Folk!CompanyExists(c) => Folk!CompanyExists(c)',
           \A u \in Tasks \ {t} : Deletes(k) /\ Deletes(task[u]) => task[u].from # k.from,
           \A p \in PersonIds : \A u \in Tasks \ {t} :
               Deletes(task[u]) /\ task[u].from = p /\ Folk!ExistsIn(person, p) => Folk!ExistsIn(person', p)
    PROVE  /\ task' \in [Tasks -> TaskRecord]
           /\ \A u \in Tasks : TaskFits(task[u])'
           /\ TasksApart'
<1>1. /\ task \in [Tasks -> TaskRecord] /\ TasksApart /\ \A u \in Tasks : TaskFits(task[u])
  BY DEF FolkInv
<1>2. task' \in [Tasks -> TaskRecord] /\ task'[t] = k /\ \A u \in Tasks \ {t} : task'[u] = task[u]
  BY <1>1
<1>3. ASSUME NEW u \in Tasks  PROVE TaskFits(task[u])'
  <2>1. CASE u = t  BY <1>2, <2>1
  <2>2. CASE u # t
    <3>1. PICK q \in TaskRecord : q = task[u]  BY <1>1
    <3>2. q = task'[u] /\ TaskFits(q)  BY <1>1, <1>2, <2>2, <3>1
    <3>3. ASSUME q.op = "merge", q.stage = "deleted"  PROVE Folk!PersonExists(q.from)'
      <4>1. q.from \in PersonIds  BY <3>3, TaskKinds DEF MergeTask
      <4>2. Folk!ExistsIn(person, q.from)  BY <3>2, <3>3 DEF TaskFits, Folk!PersonExists
      <4>3. Folk!ExistsIn(person', q.from)  BY <2>2, <3>1, <3>3, <4>1, <4>2 DEF Deletes
      <4> QED  BY <4>3 DEF Folk!PersonExists, Folk!ExistsIn
    <3>4. ASSUME q.op = "mergeCompanies", q.moved # {}  PROVE Folk!CompanyExists(q.into)'
      <4>1. q.into \in CompanyIds  BY <3>4, TaskKinds DEF CompaniesTask
      <4>2. Folk!CompanyExists(q.into)  BY <3>2, <3>4 DEF TaskFits
      <4> QED  BY <2>2, <3>1, <3>4, <4>1, <4>2 DEF Refers
    <3>5. TaskFits(q)'  BY <3>2, <3>3, <3>4 DEF TaskFits
    <3> QED  BY <3>2, <3>5
  <2> QED  BY <2>1, <2>2
<1>4. TasksApart'  BY <1>1, <1>2 DEF TasksApart, Deletes
<1> QED  BY <1>2, <1>3, <1>4

\* One task goes on beside people who stay, without deleting anybody.
LEMMA OneTaskMovesOn ==
    ASSUME FolkInv, NEW t \in Tasks, NEW k \in TaskRecord, task' = [task EXCEPT ![t] = k],
           UNCHANGED person, \A c \in CompanyIds : Folk!CompanyExists(c) => Folk!CompanyExists(c)',
           TaskFits(k), ~Deletes(k)
    PROVE  /\ task' \in [Tasks -> TaskRecord]
           /\ \A u \in Tasks : TaskFits(task[u])'
           /\ TasksApart'
<1>1. TaskFits(k)'
  <2>1. Folk!PersonExists(k.from)' <=> Folk!PersonExists(k.from)
    BY DEF Folk!PersonExists, Folk!ExistsIn
  <2>2. k.op = "mergeCompanies" => k.into \in CompanyIds  BY TaskKinds DEF CompaniesTask
  <2> QED  BY <2>1, <2>2 DEF TaskFits
<1>2. \A p \in PersonIds : Folk!ExistsIn(person, p) => Folk!ExistsIn(person', p)  OBVIOUS
<1> QED  BY <1>1, <1>2, OneTaskMoves

\* No task goes on, and the rows that merges are deleting stay.
LEMMA TasksStay ==
    ASSUME FolkInv, UNCHANGED <<task, company>>,
           \A p \in PersonIds : \A u \in Tasks :
               Deletes(task[u]) /\ task[u].from = p /\ Folk!ExistsIn(person, p) => Folk!ExistsIn(person', p)
    PROVE  /\ task' \in [Tasks -> TaskRecord]
           /\ \A u \in Tasks : TaskFits(task[u])'
           /\ TasksApart'
<1>1. /\ task \in [Tasks -> TaskRecord] /\ TasksApart /\ \A u \in Tasks : TaskFits(task[u])
  BY DEF FolkInv
<1>2. CASE Tasks = {}  BY <1>1, <1>2 DEF TasksApart
<1>3. CASE Tasks # {}
  <2>1. ASSUME NEW u \in Tasks  PROVE TaskFits(task[u])'
    <3>1. PICK q \in TaskRecord : q = task[u]  BY <1>1
    <3>2. q = task'[u] /\ TaskFits(q)  BY <1>1, <3>1
    <3>3. ASSUME q.op = "merge", q.stage = "deleted"  PROVE Folk!PersonExists(q.from)'
      <4>1. q.from \in PersonIds  BY <3>3, TaskKinds DEF MergeTask
      <4>2. Folk!ExistsIn(person, q.from)  BY <3>2, <3>3 DEF TaskFits, Folk!PersonExists
      <4>3. Folk!ExistsIn(person', q.from)  BY <3>1, <3>3, <4>1, <4>2 DEF Deletes
      <4> QED  BY <4>3 DEF Folk!PersonExists, Folk!ExistsIn
    <3>4. Folk!CompanyExists(q.into)' <=> Folk!CompanyExists(q.into)  BY CompaniesStay
    <3>5. TaskFits(q)'  BY <3>2, <3>3, <3>4 DEF TaskFits
    <3> QED  BY <3>2, <3>5
  <2>2. TasksApart'  BY <1>1 DEF TasksApart, Deletes
  <2> QED  BY <1>1, <2>1, <2>2
<1> QED  BY <1>2, <1>3

\* Nothing a person or an alias refers to goes.
LEMMA PeopleStay ==
    ASSUME FolkInv, UNCHANGED <<person, company>>
    PROVE  \A e \in Emails : PersonFits(e)'
<1>1. \A e \in Emails : PersonFits(e)  BY DEF FolkInv
<1> QED  BY <1>1 DEF PersonFits, Folk!CompanyExists, Folk!CompanyId

\* No alias is written, and nobody goes.
LEMMA AliasesStay ==
    ASSUME FolkInv, UNCHANGED alias,
           \A p \in PersonIds : Folk!ExistsIn(person, p) => Folk!ExistsIn(person', p)
    PROVE  \A l \in Labels : AliasFits(l)'
<1> SUFFICES ASSUME NEW l \in Labels PROVE AliasFits(l)'  OBVIOUS
<1>1. AliasFits(l) /\ alias \in [Labels -> AliasRow]  BY DEF FolkInv, FolkTypes
<1>2. PICK p \in PersonIds \cup {<<>>} : p = alias[l].person  BY <1>1 DEF AliasRow
<1>3. p = alias'[l].person  BY <1>2
<1>4. p = <<>> \/ Folk!PersonExists(p)  BY <1>1, <1>2 DEF AliasFits
<1>5. p = <<>> \/ Folk!PersonExists(p)'  BY <1>4 DEF Folk!PersonExists
<1> QED  BY <1>3, <1>5 DEF AliasFits

\* One alias is renamed, cleared or linked to a person who is there.
LEMMA OneAliasMoves ==
    ASSUME FolkInv, NEW l \in Labels, NEW a \in AliasRow, alias' = [alias EXCEPT ![l] = a],
           UNCHANGED person, a.person = alias[l].person \/ a.person = <<>> \/ Folk!PersonExists(a.person)
    PROVE  alias' \in [Labels -> AliasRow] /\ \A k \in Labels : AliasFits(k)'
<1>1. alias \in [Labels -> AliasRow] /\ \A k \in Labels : AliasFits(k)  BY DEF FolkInv, FolkTypes
<1>2. \A p : Folk!PersonExists(p)' <=> Folk!PersonExists(p)  BY DEF Folk!PersonExists, Folk!ExistsIn
<1> QED  BY <1>1, <1>2 DEF AliasFits

-----------------------------------------------------------------------------

\* A task that ends.
LEMMA IdleFits == Folk!Idle \in TaskRecord /\ TaskFits(Folk!Idle) /\ ~Deletes(Folk!Idle)
  BY DEF TaskRecord, TaskFits, Deletes, Folk!Idle

\* A request is counted.
LEMMA OneAsked ==
    ASSUME FolkInv, asks < MaxAsks, asks' = asks + 1
    PROVE  asks' \in 0..MaxAsks
<1>1. MaxAsks \in Nat  BY NotebookAssumption, Zenon
<1>2. asks \in 0..MaxAsks  BY DEF FolkInv, FolkTypes
<1> QED  BY <1>1, <1>2

\* A step that writes no row.
LEMMA OnlyTaskMoves ==
    ASSUME FolkInv, NEW t \in Tasks, NEW k \in TaskRecord, task' = [task EXCEPT ![t] = k], TaskFits(k),
           UNCHANGED <<person, company, alias, noteLive, failures>>, asks' \in 0..MaxAsks,
           \A u \in Tasks \ {t} : Deletes(k) /\ Deletes(task[u]) => task[u].from # k.from
    PROVE  FolkInv'
<1>1. TaskFits(k)'
  <2>1. Folk!PersonExists(k.from)' <=> Folk!PersonExists(k.from)
    BY DEF Folk!PersonExists, Folk!ExistsIn
  <2> QED  BY <2>1, CompaniesStay DEF TaskFits
<1>2. \A p \in PersonIds : Folk!ExistsIn(person, p) => Folk!ExistsIn(person', p)  OBVIOUS
<1>3. /\ task' \in [Tasks -> TaskRecord] /\ TasksApart'
      /\ \A u \in Tasks : TaskFits(task[u])'
  BY <1>1, <1>2, CompaniesStay, OneTaskMoves
<1>4. FolkTypes'  BY DEF FolkInv, FolkTypes
<1>5. \A e \in Emails : PersonFits(e)'  BY PeopleStay
<1>6. \A l \in Labels : AliasFits(l)'  BY <1>2, AliasesStay
<1> QED  BY <1>3, <1>4, <1>5, <1>6, Zenon DEF FolkInv

\* A task begins.
LEMMA TaskBegins ==
    ASSUME FolkInv, NEW t \in Tasks, NEW k \in TaskRecord, Folk!Begin(t, k), TaskFits(k), ~Deletes(k),
           UNCHANGED <<person, company, alias, noteLive, failures>>
    PROVE  FolkInv'
<1>1. task' = [task EXCEPT ![t] = k] /\ asks' \in 0..MaxAsks  BY OneAsked DEF Folk!Begin
<1> QED  BY <1>1, OnlyTaskMoves

\* A task ends, and writes nothing.
LEMMA TaskEnds ==
    ASSUME FolkInv, NEW t \in Tasks, Folk!Finish(t),
           UNCHANGED <<person, company, alias, noteLive, asks, failures>>
    PROVE  FolkInv'
<1>1. task' = [task EXCEPT ![t] = Folk!Idle]  BY DEF Folk!Finish
<1>2. asks' \in 0..MaxAsks  BY DEF FolkInv, FolkTypes
<1>3. PICK k : k = Folk!Idle  OBVIOUS
<1> QED  BY <1>1, <1>2, <1>3, IdleFits, OnlyTaskMoves

-----------------------------------------------------------------------------

\* The ids of the people there are.
LEMMA PeopleHaveIds == ASSUME FolkInv PROVE Folk!AllPeople \subseteq PersonIds
<1>1. person \in [Emails -> PersonRow]  BY DEF FolkInv, FolkTypes
<1> QED  BY <1>1 DEF Folk!AllPeople, Folk!PersonId, PersonIds, PersonRow

\* The ids of the companies there are.
LEMMA CompaniesHaveIds ==
    ASSUME FolkInv, NEW d \in Folk!Domains
    PROVE  Folk!CompanyId(d) \in CompanyIds /\ Folk!CompanyId(d)[1] = d
<1>1. company \in [Folk!Domains -> [live : BOOLEAN, inc : Nat]]  BY DEF FolkInv, FolkTypes
<1> QED  BY <1>1 DEF Folk!CompanyId, CompanyIds

\* A match is one of the candidates.
LEMMA MatchesAreCandidates ==
    ASSUME NEW name, NEW S  PROVE Folk!MatchPersonByName(name, S) \subseteq S
  BY Zenon DEF Folk!MatchPersonByName

\* The ends of a refresh, of a relink and of a deadlock.
LEMMA RefreshFits ==
    ASSUME FolkInv, NEW t \in Tasks, Folk!StartRefresh(t) \/ Folk!EndRefresh(t) \/ Folk!EndRelink(t)
                                       \/ Folk!AbortDeadlocked(t)
    PROVE  FolkInv'
<1>1. CASE Folk!StartRefresh(t)
  <2>1. PICK k : k = [op |-> "derive", todo |-> Emails, at |-> "", company |-> <<>>]  OBVIOUS
  <2>2. Folk!Begin(t, k) /\ UNCHANGED <<person, company, alias, noteLive, failures>>
    BY <1>1, <2>1 DEF Folk!StartRefresh, Folk!NoName, Folk!None
  <2>3. k \in TaskRecord /\ TaskFits(k) /\ ~Deletes(k)
    BY <2>1 DEF TaskRecord, DeriveTask, TaskFits, Deletes
  <2> QED  BY <2>2, <2>3, TaskBegins
<1>2. CASE Folk!EndRefresh(t) \/ Folk!EndRelink(t) \/ Folk!AbortDeadlocked(t)
  <2>1. Folk!Finish(t) /\ UNCHANGED <<person, company, alias, noteLive, asks, failures>>
    BY <1>2 DEF Folk!EndRefresh, Folk!EndRelink, Folk!AbortDeadlocked
  <2> QED  BY <2>1, TaskEnds
<1> QED  BY <1>1, <1>2

\* A relink begins.
LEMMA RelinkRecord == Folk!Relink \in TaskRecord /\ TaskFits(Folk!Relink) /\ ~Deletes(Folk!Relink)
<1>1. Folk!Relink \in RelinkTask  BY DEF Folk!Relink, RelinkTask
<1> QED  BY <1>1 DEF Folk!Relink, TaskRecord, TaskFits, Deletes

\* A relink goes on.
LEMMA RelinkGoesOn ==
    ASSUME NEW k \in RelinkTask  PROVE k \in TaskRecord /\ TaskFits(k) /\ ~Deletes(k)
  BY DEF RelinkTask, TaskRecord, TaskFits, Deletes

\* A relink in the background.
LEMMA RelinkFits ==
    ASSUME FolkInv, NEW t \in Tasks, Folk!RelinkNoteSpeakers(t)  PROVE FolkInv'
<1>1. PICK k : k = Folk!Relink  OBVIOUS
<1>2. Folk!Begin(t, k) /\ UNCHANGED <<person, company, alias, noteLive, failures>>
  BY <1>1 DEF Folk!RelinkNoteSpeakers
<1> QED  BY <1>1, <1>2, RelinkRecord, TaskBegins

\* The aliases to link are read.
LEMMA ListSpeakerAliasesFits ==
    ASSUME FolkInv, NEW t \in Tasks, Folk!ListSpeakerAliases(t)  PROVE FolkInv'
<1>1. /\ task[t].op = "relink" /\ task \in [Tasks -> TaskRecord] /\ alias \in [Labels -> AliasRow]
      /\ asks \in 0..MaxAsks
  BY DEF Folk!ListSpeakerAliases, FolkInv, FolkTypes
<1>2. PICK q \in RelinkTask : q = task[t]  BY <1>1, TaskKinds
<1>3. PICK listed : listed = {<<l, alias[l].name>> :
          l \in {m \in Labels : alias[m].name # Folk!NoName /\ alias[m].person = Folk!None}}
  OBVIOUS
<1>4. listed \subseteq Labels \X AnyName  BY <1>1, <1>3 DEF AliasRow
<1>5. PICK k : k = [q EXCEPT !.stage = "people", !.aliases = listed]  OBVIOUS
<1>6. k \in RelinkTask  BY <1>4, <1>5 DEF RelinkTask
<1>7. /\ task' = [task EXCEPT ![t].stage = "people", ![t].aliases = listed]
      /\ UNCHANGED <<person, company, alias, noteLive, asks, failures>>
  BY <1>3, Zenon DEF Folk!ListSpeakerAliases
<1>8. task' = [task EXCEPT ![t] = k]  BY <1>1, <1>2, <1>5, <1>7
<1> QED  BY <1>1, <1>6, <1>7, <1>8, RelinkGoesOn, OnlyTaskMoves

\* The people to link them to are read.
LEMMA ListCandidatesFits ==
    ASSUME FolkInv, NEW t \in Tasks, Folk!ListCandidates(t)  PROVE FolkInv'
<1>1. /\ task[t].op = "relink" /\ task \in [Tasks -> TaskRecord] /\ asks \in 0..MaxAsks
  BY DEF Folk!ListCandidates, FolkInv, FolkTypes
<1>2. PICK q \in RelinkTask : q = task[t]  BY <1>1, TaskKinds
<1>3. PICK people : people = IF ~noteLive THEN {}
                             ELSE IF Folk!PeopleForNoteEvent # {} THEN Folk!PeopleForNoteEvent
                             ELSE Folk!AllPeople
  OBVIOUS
<1>4. people \subseteq PersonIds
  <2>1. Folk!PeopleForNoteEvent \subseteq Folk!AllPeople  BY Zenon DEF Folk!PeopleForNoteEvent
  <2> QED  BY <1>3, <2>1, PeopleHaveIds, Zenon
<1>5. PICK found : found = UNION {{<<a[1], p>> : p \in Folk!MatchPersonByName(a[2], people)} :
                                    a \in q.aliases}
  OBVIOUS
<1>6. found \subseteq Labels \X PersonIds
  <2> SUFFICES ASSUME NEW x \in found PROVE x \in Labels \X PersonIds  OBVIOUS
  <2>1. PICK a \in q.aliases : x \in {<<a[1], p>> : p \in Folk!MatchPersonByName(a[2], people)}
    BY <1>5, Zenon
  <2>2. PICK p \in Folk!MatchPersonByName(a[2], people) : x = <<a[1], p>>  BY <2>1, Zenon
  <2>3. p \in PersonIds  BY <1>4, MatchesAreCandidates, Zenon
  <2>4. a[1] \in Labels  BY DEF RelinkTask
  <2> QED  BY ONLY <2>2, <2>3, <2>4
<1>7. PICK k : k = [q EXCEPT !.stage = "link", !.people = found]  OBVIOUS
<1>8. k \in RelinkTask  BY <1>6, <1>7 DEF RelinkTask
<1>9. /\ task' = [task EXCEPT ![t].stage = "link", ![t].people = found]
      /\ UNCHANGED <<person, company, alias, noteLive, asks, failures>>
  BY <1>2, <1>3, <1>5 DEF Folk!ListCandidates
<1>10. task' = [task EXCEPT ![t] = k]  BY <1>1, <1>2, <1>7, <1>9
<1> QED  BY <1>1, <1>8, <1>9, <1>10, RelinkGoesOn, OnlyTaskMoves

\* What a request of two steps looks up.
LEMMA ChooseFits ==
    ASSUME FolkInv, NEW t \in Tasks,
           \/ \E l \in Labels, p \in Folk!AllPeople : Folk!ChoosePerson(t, l, p)
           \/ \E e \in Emails, d \in Folk!Domains : Folk!ChooseCompany(t, e, d)
           \/ \E from, into \in Folk!Domains : Folk!ChooseCompanies(t, from, into)
           \/ \E from, into \in Folk!AllPeople : Folk!ChoosePeople(t, from, into)
    PROVE  FolkInv'
<1>1. CASE \E l \in Labels, p \in Folk!AllPeople : Folk!ChoosePerson(t, l, p)
  <2>1. PICK l \in Labels, p \in Folk!AllPeople : Folk!ChoosePerson(t, l, p)  BY <1>1
  <2>2. PICK k : k = [op |-> "assign", label |-> l, person |-> p]  OBVIOUS
  <2>3. Folk!Begin(t, k) /\ UNCHANGED <<person, company, alias, noteLive, failures>>
    BY <2>1, <2>2, Zenon DEF Folk!ChoosePerson
  <2>4. k \in AssignTask  BY <2>2, PeopleHaveIds DEF AssignTask
  <2>5. k \in TaskRecord /\ TaskFits(k) /\ ~Deletes(k)
    BY <2>2, <2>4 DEF TaskRecord, TaskFits, Deletes
  <2> QED  BY <2>3, <2>5, TaskBegins
<1>2. CASE \E e \in Emails, d \in Folk!Domains : Folk!ChooseCompany(t, e, d)
  <2>1. PICK e \in Emails, d \in Folk!Domains : Folk!ChooseCompany(t, e, d)  BY <1>2
  <2>2. PICK k : k = [op |-> "edit", person |-> Folk!PersonId(e), company |-> Folk!CompanyId(d)]
    OBVIOUS
  <2>3. Folk!Begin(t, k) /\ UNCHANGED <<person, company, alias, noteLive, failures>>
    BY <2>1, <2>2, Zenon DEF Folk!ChooseCompany
  <2>4. Folk!PersonId(e) \in PersonIds
    BY DEF FolkInv, FolkTypes, Folk!PersonId, PersonIds, PersonRow
  <2>5. k \in EditTask  BY <2>2, <2>4, CompaniesHaveIds DEF EditTask
  <2>6. k \in TaskRecord /\ TaskFits(k) /\ ~Deletes(k)
    BY <2>2, <2>5 DEF TaskRecord, TaskFits, Deletes
  <2> QED  BY <2>3, <2>6, TaskBegins
<1>3. CASE \E from, into \in Folk!Domains : Folk!ChooseCompanies(t, from, into)
  <2>1. PICK from \in Folk!Domains, into \in Folk!Domains : Folk!ChooseCompanies(t, from, into)
    BY <1>3
  <2>2. PICK k : k = [op |-> "mergeCompanies", stage |-> "checked", from |-> Folk!CompanyId(from),
                      into |-> Folk!CompanyId(into), moved |-> {}]
    OBVIOUS
  <2>3. /\ Folk!Begin(t, k) /\ UNCHANGED <<person, company, alias, noteLive, failures>>
        /\ from # into
    BY <2>1, <2>2, Zenon DEF Folk!ChooseCompanies
  <2>4. k \in CompaniesTask /\ k.from[1] # k.into[1]
    BY <2>2, <2>3, CompaniesHaveIds DEF CompaniesTask
  <2>5. k \in TaskRecord /\ TaskFits(k) /\ ~Deletes(k)
    BY <2>2, <2>4 DEF TaskRecord, TaskFits, Deletes
  <2> QED  BY <2>3, <2>5, TaskBegins
<1>4. CASE \E from, into \in Folk!AllPeople : Folk!ChoosePeople(t, from, into)
  <2>1. PICK from \in Folk!AllPeople, into \in Folk!AllPeople : Folk!ChoosePeople(t, from, into)
    BY <1>4
  <2>2. PICK k : k = [op |-> "merge", stage |-> "checked", from |-> from, into |-> into,
                      moved |-> {}, spoke |-> {}]
    OBVIOUS
  <2>3. /\ Folk!Begin(t, k) /\ UNCHANGED <<person, company, alias, noteLive, failures>>
        /\ from # into
    BY <2>1, <2>2, Zenon DEF Folk!ChoosePeople
  <2>4. k \in MergeTask  BY <2>2, PeopleHaveIds DEF MergeTask
  <2>5. k \in TaskRecord /\ TaskFits(k) /\ ~Deletes(k)
    BY <2>2, <2>3, <2>4 DEF TaskRecord, TaskFits, Deletes
  <2> QED  BY <2>3, <2>5, TaskBegins
<1> QED  BY <1>1, <1>2, <1>3, <1>4

\* The first statement of a merge: the speakers that will move are the ones there are.
LEMMA MoveSpeakersFits ==
    ASSUME FolkInv, NEW t \in Tasks, Folk!MoveSpeakers(t)  PROVE FolkInv'
<1>1. /\ task[t].op = "merge" /\ task \in [Tasks -> TaskRecord] /\ asks \in 0..MaxAsks
      /\ TaskFits(task[t])
  BY DEF Folk!MoveSpeakers, FolkInv, FolkTypes
<1>2. PICK q \in MergeTask : q = task[t]  BY <1>1, TaskKinds
<1>3. PICK gone \in SUBSET Labels : gone = {l \in Labels : alias[l].person = q.from}  OBVIOUS
<1>4. /\ \/ task' = [task EXCEPT ![t].stage = "moved", ![t].moved = gone, ![t].spoke = gone]
         \/ task' = [task EXCEPT ![t] = Folk!Idle]
      /\ UNCHANGED <<person, company, alias, noteLive, asks, failures>>
  BY <1>2, <1>3 DEF Folk!MoveSpeakers
<1>5. CASE task' = [task EXCEPT ![t] = Folk!Idle]
  BY <1>4, <1>5, TaskEnds DEF Folk!Finish
<1>6. CASE task' = [task EXCEPT ![t].stage = "moved", ![t].moved = gone, ![t].spoke = gone]
  <2>1. PICK k : k = [q EXCEPT !.stage = "moved", !.moved = gone, !.spoke = gone]  OBVIOUS
  <2>2. k \in MergeTask /\ k.stage = "moved" /\ k.spoke = k.moved /\ k.from = q.from /\ k.into = q.into
        /\ k.op = "merge"
    BY <1>3, <2>1 DEF MergeTask
  <2>3. q.from # q.into  BY <1>1, <1>2 DEF TaskFits
  <2>4. k \in TaskRecord /\ TaskFits(k) /\ ~Deletes(k)
    BY <2>2, <2>3 DEF TaskRecord, TaskFits, Deletes
  <2>5. task' = [task EXCEPT ![t] = k]  BY <1>1, <1>2, <1>6, <2>1
  <2> QED  BY <1>1, <1>4, <2>4, <2>5, OnlyTaskMoves
<1> QED  BY <1>4, <1>5, <1>6

\* The second statement: nobody else is deleting the row.
LEMMA DeleteMergedFits ==
    ASSUME FolkInv, NEW t \in Tasks, Folk!DeleteMerged(t)  PROVE FolkInv'
<1>1. /\ task[t].op = "merge" /\ task[t].stage = "moved" /\ task \in [Tasks -> TaskRecord]
      /\ asks \in 0..MaxAsks /\ TaskFits(task[t])
  BY DEF Folk!DeleteMerged, FolkInv, FolkTypes
<1>2. PICK q \in MergeTask : q = task[t]  BY <1>1, TaskKinds
<1>3. /\ Folk!PersonExists(q.from) => ~Folk!Deleting(q.from)
      /\ task' = IF Folk!PersonExists(q.from) THEN [task EXCEPT ![t].stage = "deleted"]
                                              ELSE [task EXCEPT ![t] = Folk!Idle]
      /\ UNCHANGED <<person, company, alias, noteLive, asks, failures>>
  <2>1. Folk!PersonExists(q.from) => Folk!PersonId(q.from[1]) = q.from
    BY IdsAreSomething DEF Folk!PersonExists, Folk!ExistsIn, Folk!PersonId, MergeTask
  <2> QED  BY <1>2, <2>1 DEF Folk!DeleteMerged, Folk!PersonLocked
<1>4. CASE ~Folk!PersonExists(q.from)
  BY <1>3, <1>4, TaskEnds DEF Folk!Finish
<1>5. CASE Folk!PersonExists(q.from)
  <2>1. PICK k : k = [q EXCEPT !.stage = "deleted"]  OBVIOUS
  <2>2. k \in MergeTask /\ k.from = q.from /\ k.into = q.into /\ k.op = "merge"
        /\ k.spoke = q.spoke /\ k.moved = q.moved
    BY <2>1 DEF MergeTask
  <2>3. q.from # q.into /\ q.spoke = q.moved  BY <1>1, <1>2 DEF TaskFits
  <2>4. k \in TaskRecord /\ TaskFits(k)
    BY <1>5, <2>2, <2>3 DEF TaskRecord, TaskFits
  <2>5. task' = [task EXCEPT ![t] = k]  BY <1>1, <1>2, <1>3, <1>5, <2>1
  <2>6. \A u \in Tasks : Deletes(task[u]) => task[u].from # k.from
    BY <1>3, <1>5, <2>2 DEF Folk!Deleting, Folk!Merges, Deletes
  <2> QED  BY <1>1, <1>3, <2>4, <2>5, <2>6, OnlyTaskMoves
<1> QED  BY <1>4, <1>5

-----------------------------------------------------------------------------

\* A step that writes one alias, and moves one task or none.
LEMMA AliasStep ==
    ASSUME FolkInv, NEW l \in Labels, NEW a \in AliasRow, alias' = [alias EXCEPT ![l] = a],
           a.person = alias[l].person \/ a.person = <<>> \/ Folk!PersonExists(a.person),
           UNCHANGED <<person, company, noteLive, failures>>, asks' \in 0..MaxAsks,
           \/ UNCHANGED task
           \/ \E t \in Tasks, k \in TaskRecord :
                 task' = [task EXCEPT ![t] = k] /\ TaskFits(k) /\ ~Deletes(k)
    PROVE  FolkInv'
<1>1. alias' \in [Labels -> AliasRow] /\ \A m \in Labels : AliasFits(m)'  BY OneAliasMoves
<1>2. FolkTypes'  BY <1>1 DEF FolkInv, FolkTypes
<1>3. \A e \in Emails : PersonFits(e)'  BY PeopleStay
<1>4. /\ task' \in [Tasks -> TaskRecord] /\ TasksApart'
      /\ \A u \in Tasks : TaskFits(task[u])'
  <2>1. CASE UNCHANGED task  BY <2>1, TasksStay
  <2>2. CASE \E t \in Tasks, k \in TaskRecord :
                 task' = [task EXCEPT ![t] = k] /\ TaskFits(k) /\ ~Deletes(k)
    BY <2>2, CompaniesStay, OneTaskMovesOn
  <2> QED  BY <2>1, <2>2
<1> QED  BY <1>1, <1>2, <1>3, <1>4, Zenon DEF FolkInv

\* An alias is written, and a relink begins.
LEMMA UpsertSpeakerAliasFits ==
    ASSUME FolkInv, NEW t \in Tasks, NEW l \in Labels, NEW name \in Names,
           Folk!HandleUpsertSpeakerAlias(t, l, name)
    PROVE  FolkInv'
<1>1. /\ task' = [task EXCEPT ![t] = Folk!Relink] /\ asks' \in 0..MaxAsks
      /\ alias' = [alias EXCEPT ![l].name = name]
      /\ UNCHANGED <<person, company, noteLive, failures>>
  BY OneAsked DEF Folk!HandleUpsertSpeakerAlias, Folk!Begin, Folk!UpsertSpeakerAlias
<1>2. alias \in [Labels -> AliasRow]  BY DEF FolkInv, FolkTypes
<1>3. PICK a : a = [alias[l] EXCEPT !.name = name]  OBVIOUS
<1>4. a \in AliasRow /\ a.person = alias[l].person  BY <1>2, <1>3 DEF AliasRow, AnyName
<1>5. alias' = [alias EXCEPT ![l] = a]  BY <1>1, <1>2, <1>3
<1>6. \E u \in Tasks, k \in TaskRecord : task' = [task EXCEPT ![u] = k] /\ TaskFits(k) /\ ~Deletes(k)
  BY <1>1, RelinkRecord
<1> QED  BY <1>1, <1>4, <1>5, <1>6, AliasStep

\* A relink links an alias to a person who is still there.
LEMMA LinkSpeakerFits ==
    ASSUME FolkInv, NEW t \in Tasks, NEW l \in Labels, Folk!LinkSpeaker(t, l)  PROVE FolkInv'
<1>1. /\ task[t].op = "relink" /\ task \in [Tasks -> TaskRecord] /\ asks \in 0..MaxAsks
      /\ alias \in [Labels -> AliasRow]
  BY DEF Folk!LinkSpeaker, FolkInv, FolkTypes
<1>2. PICK q \in RelinkTask : q = task[t]  BY <1>1, TaskKinds
<1>3. PICK p \in {x[2] : x \in {r \in q.people : r[1] = l}} :
          /\ alias' = IF alias[l].name # Folk!NoName /\ Folk!PersonExists(p)
                      THEN [alias EXCEPT ![l].person = p] ELSE alias
          /\ task' = [task EXCEPT ![t].people = q.people \ {<<l, p>>}]
  BY <1>2 DEF Folk!LinkSpeaker
<1>4. UNCHANGED <<person, company, noteLive, asks, failures>>  BY DEF Folk!LinkSpeaker
<1>5. p \in PersonIds  BY <1>2, <1>3 DEF RelinkTask
<1>6. PICK k : k = [q EXCEPT !.people = q.people \ {<<l, p>>}]  OBVIOUS
<1>7. k \in RelinkTask  BY <1>6 DEF RelinkTask
<1>8. task' = [task EXCEPT ![t] = k]  BY <1>1, <1>2, <1>3, <1>6
<1>9. \E u \in Tasks, d \in TaskRecord : task' = [task EXCEPT ![u] = d] /\ TaskFits(d) /\ ~Deletes(d)
  BY <1>7, <1>8, RelinkGoesOn
<1>10. PICK a : a = IF Folk!PersonExists(p) /\ alias[l].name # Folk!NoName
                    THEN [alias[l] EXCEPT !.person = p] ELSE alias[l]
  OBVIOUS
<1>11. alias' = [alias EXCEPT ![l] = a]  BY <1>1, <1>3, <1>10
<1>12. a \in AliasRow /\ (a.person = alias[l].person \/ Folk!PersonExists(a.person))
  BY <1>1, <1>5, <1>10 DEF AliasRow
<1> QED  BY <1>1, <1>4, <1>9, <1>11, <1>12, AliasStep

\* A request links an alias to a person who is still there.
LEMMA SetSpeakerAliasPersonFits ==
    ASSUME FolkInv, NEW t \in Tasks, Folk!SetSpeakerAliasPerson(t)  PROVE FolkInv'
<1>1. /\ task[t].op = "assign" /\ task \in [Tasks -> TaskRecord] /\ asks \in 0..MaxAsks
      /\ alias \in [Labels -> AliasRow]
  BY DEF Folk!SetSpeakerAliasPerson, FolkInv, FolkTypes
<1>2. PICK q \in AssignTask : q = task[t]  BY <1>1, TaskKinds
<1>3. PICK l \in Labels, p \in PersonIds : l = q.label /\ p = q.person  BY DEF AssignTask
<1>4. /\ alias' = IF alias[l].name # Folk!NoName /\ Folk!PersonExists(p)
                  THEN [alias EXCEPT ![l].person = p] ELSE alias
      /\ task' = [task EXCEPT ![t] = Folk!Idle]
      /\ UNCHANGED <<person, company, noteLive, asks, failures>>
  BY <1>2, <1>3 DEF Folk!SetSpeakerAliasPerson, Folk!Finish
<1>5. PICK a : a = IF Folk!PersonExists(p) /\ alias[l].name # Folk!NoName
                   THEN [alias[l] EXCEPT !.person = p] ELSE alias[l]
  OBVIOUS
<1>6. alias' = [alias EXCEPT ![l] = a]  BY <1>1, <1>4, <1>5
<1>7. a \in AliasRow /\ (a.person = alias[l].person \/ Folk!PersonExists(a.person))
  BY <1>1, <1>5 DEF AliasRow
<1>8. \E u \in Tasks, d \in TaskRecord : task' = [task EXCEPT ![u] = d] /\ TaskFits(d) /\ ~Deletes(d)
  BY <1>4, IdleFits
<1> QED  BY <1>1, <1>4, <1>6, <1>7, <1>8, AliasStep

\* An alias is deleted or cleared.
LEMMA AliasRequestsFit ==
    ASSUME FolkInv, NEW l \in Labels,
           Folk!HandleDeleteSpeakerAlias(l) \/ Folk!ClearSpeakerAliasPerson(l)
    PROVE  FolkInv'
<1>1. asks' \in 0..MaxAsks /\ UNCHANGED <<person, company, noteLive, task, failures>>
  BY OneAsked DEF Folk!HandleDeleteSpeakerAlias, Folk!ClearSpeakerAliasPerson, Folk!OneMore
<1>2. alias \in [Labels -> AliasRow]  BY DEF FolkInv, FolkTypes
<1>3. \/ alias' = [alias EXCEPT ![l] = [name |-> "", person |-> <<>>]]
      \/ alias' = [alias EXCEPT ![l].person = <<>>]
  <2>1. CASE Folk!HandleDeleteSpeakerAlias(l)
    BY <2>1, Zenon DEF Folk!HandleDeleteSpeakerAlias, Folk!DeleteSpeakerAlias, Folk!NoName, Folk!None
  <2>2. CASE Folk!ClearSpeakerAliasPerson(l)
    BY <2>2, Zenon DEF Folk!ClearSpeakerAliasPerson, Folk!None
  <2> QED  BY <2>1, <2>2
<1>4. PICK a \in AliasRow : alias' = [alias EXCEPT ![l] = a] /\ a.person = <<>>
  <2>1. CASE alias' = [alias EXCEPT ![l] = [name |-> "", person |-> <<>>]]
    <3>1. PICK n \in AnyName : n = ""  BY DEF AnyName
    <3>2. PICK a : a = [name |-> n, person |-> <<>>]  OBVIOUS
    <3>3. a \in AliasRow /\ a.person = <<>>  BY <3>2 DEF AliasRow
    <3>4. alias' = [alias EXCEPT ![l] = a]  BY <2>1, <3>1, <3>2
    <3> QED  BY <3>3, <3>4
  <2>2. CASE alias' = [alias EXCEPT ![l].person = <<>>]
    <3>1. PICK a : a = [alias[l] EXCEPT !.person = <<>>]  OBVIOUS
    <3>2. a \in AliasRow /\ a.person = <<>>  BY <1>2, <3>1 DEF AliasRow
    <3>3. alias' = [alias EXCEPT ![l] = a]  BY <1>2, <2>2, <3>1
    <3> QED  BY <3>2, <3>3
  <2> QED  BY <1>3, <2>1, <2>2
<1> QED  BY <1>1, <1>4, AliasStep

\* The note goes to the trash or comes back.
LEMMA TrashOrRestoreNoteFits == ASSUME FolkInv, Folk!TrashOrRestoreNote PROVE FolkInv'
<1>1. asks' \in 0..MaxAsks /\ noteLive' \in BOOLEAN /\ UNCHANGED <<person, company, alias, task, failures>>
  BY OneAsked DEF Folk!TrashOrRestoreNote, Folk!OneMore
<1>2. FolkTypes'  BY <1>1 DEF FolkInv, FolkTypes
<1>3. \A e \in Emails : PersonFits(e)'  BY <1>1, PeopleStay
<1>4. \A l \in Labels : AliasFits(l)'  BY <1>1, AliasesStay
<1>5. /\ task' \in [Tasks -> TaskRecord] /\ TasksApart'
      /\ \A u \in Tasks : TaskFits(task[u])'
  BY <1>1, TasksStay
<1> QED  BY <1>2, <1>3, <1>4, <1>5, Zenon DEF FolkInv

-----------------------------------------------------------------------------

\* One person is written, with a company that is there or none.
LEMMA OnePersonMoves ==
    ASSUME FolkInv, NEW e \in Emails, NEW x \in PersonRow, person' = [person EXCEPT ![e] = x],
           UNCHANGED company, Folk!CompanyExists(x.company), x.live \/ x.company = <<>>
    PROVE  person' \in [Emails -> PersonRow] /\ \A d \in Emails : PersonFits(d)'
<1>1. person \in [Emails -> PersonRow] /\ \A d \in Emails : PersonFits(d)  BY DEF FolkInv, FolkTypes
<1>2. \A c : Folk!CompanyExists(c)' <=> Folk!CompanyExists(c)
  BY DEF Folk!CompanyExists, Folk!CompanyId
<1> QED  BY <1>1, <1>2 DEF PersonFits

\* A step that writes a person and keeps the row, and moves one task.
LEMMA PersonStep ==
    ASSUME FolkInv, NEW e \in Emails, NEW x \in PersonRow, person' = [person EXCEPT ![e] = x],
           UNCHANGED <<company, alias, noteLive, asks, failures>>,
           Folk!CompanyExists(x.company), x.live \/ x.company = <<>>,
           person[e].live => x.live /\ x.inc = person[e].inc,
           NEW t \in Tasks, NEW k \in TaskRecord, task' = [task EXCEPT ![t] = k], TaskFits(k), ~Deletes(k)
    PROVE  FolkInv'
<1>1. person' \in [Emails -> PersonRow] /\ \A d \in Emails : PersonFits(d)'  BY OnePersonMoves
<1>2. ASSUME NEW p \in PersonIds, Folk!ExistsIn(person, p)  PROVE Folk!ExistsIn(person', p)
  <2>1. person \in [Emails -> PersonRow]  BY DEF FolkInv, FolkTypes
  <2>2. p[1] \in Emails  BY DEF PersonIds
  <2> QED  BY <1>2, <2>1, <2>2 DEF Folk!ExistsIn
<1>3. TaskFits(k)'  BY CompaniesStay DEF TaskFits, Deletes
<1>4. /\ task' \in [Tasks -> TaskRecord] /\ TasksApart'
      /\ \A u \in Tasks : TaskFits(task[u])'
  BY <1>2, <1>3, CompaniesStay, OneTaskMoves
<1>5. FolkTypes'  BY <1>1 DEF FolkInv, FolkTypes
<1>6. \A l \in Labels : AliasFits(l)'  BY <1>2, AliasesStay
<1> QED  BY <1>1, <1>4, <1>5, <1>6, Zenon DEF FolkInv

\* A person of the calendar is written, with a company that is still there.
LEMMA DerivePersonFits ==
    ASSUME FolkInv, NEW t \in Tasks, Folk!DerivePerson(t)  PROVE FolkInv'
<1>1. /\ task[t].op = "derive" /\ task \in [Tasks -> TaskRecord] /\ person \in [Emails -> PersonRow]
  BY DEF Folk!DerivePerson, FolkInv, FolkTypes
<1>2. PICK q \in DeriveTask : q = task[t]  BY <1>1, TaskKinds
<1>3. q.at # ""  BY <1>2 DEF Folk!DerivePerson, Folk!NoName
<1>4. PICK e \in Emails : e = q.at  BY <1>3 DEF DeriveTask
<1>5. PICK c \in CompanyIds \cup {<<>>} : c = q.company  BY DEF DeriveTask
<1>6. /\ IF Folk!CompanyExists(c) THEN Folk!UpsertPerson(e, CalendarName[e], c) ELSE UNCHANGED person
      /\ task' = [task EXCEPT ![t].todo = q.todo \ {e}, ![t].at = "", ![t].company = <<>>]
      /\ UNCHANGED <<company, alias, noteLive, asks, failures>>
  BY <1>2, <1>4, <1>5 DEF Folk!DerivePerson, Folk!NoName, Folk!None
<1>7. PICK k : k = [q EXCEPT !.todo = q.todo \ {e}, !.at = "", !.company = <<>>]  OBVIOUS
<1>8. k \in DeriveTask /\ k.op = "derive"  BY <1>7 DEF DeriveTask
<1>9. k \in TaskRecord /\ TaskFits(k) /\ ~Deletes(k)  BY <1>8 DEF TaskRecord, TaskFits, Deletes
<1>10. task' = [task EXCEPT ![t] = k]  BY <1>1, <1>2, <1>6, <1>7
<1>11. PersonFits(e)  BY DEF FolkInv
<1>12. PICK x \in PersonRow :
          /\ person' = [person EXCEPT ![e] = x]
          /\ Folk!CompanyExists(x.company) /\ (x.live \/ x.company = <<>>)
          /\ person[e].live => x.live /\ x.inc = person[e].inc
  <2>1. CASE ~Folk!CompanyExists(c)
    <3>1. person' = [person EXCEPT ![e] = person[e]]  BY <1>1, <1>6, <2>1
    <3> QED  BY <1>1, <1>11, <3>1 DEF PersonFits
  <2>2. CASE Folk!CompanyExists(c)
    <3>1. PICK old \in PersonRow : old = person[e]  BY <1>1
    <3>2. PICK x : x = [live |-> TRUE, inc |-> IF old.live THEN old.inc ELSE old.inc + 1,
                        name |-> IF CalendarName[e] # "" \/ ~old.live THEN CalendarName[e] ELSE old.name,
                        company |-> IF c # <<>> \/ ~old.live THEN c ELSE old.company]
      OBVIOUS
    <3>3. person' = [person EXCEPT ![e] = x]
      BY <1>6, <2>2, <3>1, <3>2 DEF Folk!UpsertPerson, Folk!NoName, Folk!None
    <3>4. CalendarName[e] \in AnyName
      <4>1. CalendarName \in [Emails -> Names \cup {""}]  BY NotebookAssumption, Zenon
      <4> QED  BY ONLY <4>1, e \in Emails DEF AnyName
    <3>5. x \in PersonRow
      <4>1. PICK i \in Nat : i = IF old.live THEN old.inc ELSE old.inc + 1
        <5>1. old.inc \in Nat  BY DEF PersonRow
        <5> QED  BY ONLY <5>1
      <4>2. PICK n \in AnyName : n = IF CalendarName[e] # "" \/ ~old.live THEN CalendarName[e] ELSE old.name
        <5>1. old.name \in AnyName  BY DEF PersonRow
        <5> QED  BY <3>4, <5>1, Zenon
      <4>3. PICK w \in CompanyIds \cup {<<>>} : w = IF c # <<>> \/ ~old.live THEN c ELSE old.company
        <5>1. old.company \in CompanyIds \cup {<<>>}  BY DEF PersonRow
        <5> QED  BY <5>1, Zenon
      <4>4. x = [live |-> TRUE, inc |-> i, name |-> n, company |-> w]  BY <3>2, <4>1, <4>2, <4>3, Zenon
      <4> QED  BY ONLY <4>4, i \in Nat, n \in AnyName, w \in CompanyIds \cup {<<>>} DEF PersonRow
    <3>6. x.live /\ (person[e].live => x.inc = person[e].inc)  BY <3>1, <3>2
    <3>7. Folk!CompanyExists(x.company)
      <4>1. x.company = c \/ x.company = person[e].company  BY <3>1, <3>2
      <4> QED  BY <1>11, <2>2, <4>1 DEF PersonFits
    <3> QED  BY <3>3, <3>5, <3>6, <3>7
  <2> QED  BY <2>1, <2>2
<1> QED  BY <1>6, <1>9, <1>10, <1>12, PersonStep

\* A person is edited, with a company that is still there.
LEMMA UpdatePersonFits ==
    ASSUME FolkInv, NEW t \in Tasks, NEW name \in AnyName, Folk!UpdatePerson(t, name)
    PROVE  FolkInv'
<1>1. /\ task[t].op = "edit" /\ task \in [Tasks -> TaskRecord] /\ person \in [Emails -> PersonRow]
  BY DEF Folk!UpdatePerson, FolkInv, FolkTypes
<1>2. PICK q \in EditTask : q = task[t]  BY <1>1, TaskKinds
<1>3. PICK p \in PersonIds, c \in CompanyIds : p = q.person /\ c = q.company  BY DEF EditTask
<1>4. PICK e \in Emails : e = p[1]  BY DEF PersonIds
<1>5. /\ person' = IF Folk!PersonExists(p) /\ Folk!CompanyExists(c)
                   THEN [person EXCEPT ![e].name = name, ![e].company = c] ELSE person
      /\ task' = [task EXCEPT ![t] = Folk!Idle]
      /\ UNCHANGED <<company, alias, noteLive, asks, failures>>
  BY <1>2, <1>3, <1>4 DEF Folk!UpdatePerson, Folk!Finish
<1>6. PersonFits(e)  BY DEF FolkInv
<1>7. PICK x \in PersonRow :
          /\ person' = [person EXCEPT ![e] = x]
          /\ Folk!CompanyExists(x.company) /\ (x.live \/ x.company = <<>>)
          /\ person[e].live => x.live /\ x.inc = person[e].inc
  <2>1. CASE ~(Folk!PersonExists(p) /\ Folk!CompanyExists(c))
    <3>1. person' = [person EXCEPT ![e] = person[e]]  BY <1>1, <1>5, <2>1
    <3> QED  BY <1>1, <1>6, <3>1 DEF PersonFits
  <2>2. CASE Folk!PersonExists(p) /\ Folk!CompanyExists(c)
    <3>1. PICK old \in PersonRow : old = person[e]  BY <1>1
    <3>2. old.live  BY <1>4, <2>2, <3>1 DEF Folk!PersonExists, Folk!ExistsIn
    <3>3. PICK x : x = [old EXCEPT !.name = name, !.company = c]  OBVIOUS
    <3>4. x \in PersonRow /\ x.live = old.live /\ x.inc = old.inc /\ x.company = c
      BY <3>3 DEF PersonRow, AnyName
    <3>5. person' = [person EXCEPT ![e] = x]  BY <1>1, <1>5, <2>2, <3>1, <3>3
    <3> QED  BY <2>2, <3>1, <3>2, <3>4, <3>5
  <2> QED  BY <2>1, <2>2
<1>8. PICK k : k = Folk!Idle  OBVIOUS
<1> QED  BY <1>5, <1>7, <1>8, IdleFits, PersonStep

\* A person is edited without a company.
LEMMA HandleUpdatePersonFits ==
    ASSUME FolkInv, NEW e \in Emails, NEW name \in AnyName, NEW clear \in BOOLEAN,
           Folk!HandleUpdatePerson(e, name, clear)
    PROVE  FolkInv'
<1>1. /\ person \in [Emails -> PersonRow] /\ person[e].live /\ PersonFits(e)
      /\ person' = [person EXCEPT ![e].name = name, ![e].company = IF clear THEN <<>> ELSE @]
      /\ UNCHANGED <<company, alias, noteLive, task, failures>> /\ asks' \in 0..MaxAsks
  BY OneAsked DEF Folk!HandleUpdatePerson, Folk!OneMore, Folk!None, FolkInv, FolkTypes
<1>2. PICK old \in PersonRow : old = person[e]  BY <1>1
<1>3. PICK c \in CompanyIds \cup {<<>>} : c = IF clear THEN <<>> ELSE old.company  BY DEF PersonRow
<1>4. PICK x : x = [old EXCEPT !.name = name, !.company = c]  OBVIOUS
<1>5. x \in PersonRow /\ x.live = old.live /\ x.inc = old.inc /\ x.company = c
  BY <1>4 DEF PersonRow
<1>6. person' = [person EXCEPT ![e] = x]  BY <1>1, <1>2, <1>3, <1>4
<1>7. Folk!CompanyExists(c)
  <2>1. Folk!CompanyExists(<<>>)  BY DEF Folk!CompanyExists, Folk!None
  <2> QED  BY <1>1, <1>2, <1>3, <2>1 DEF PersonFits
<1>8. person' \in [Emails -> PersonRow] /\ \A d \in Emails : PersonFits(d)'
  BY <1>1, <1>2, <1>5, <1>6, <1>7, OnePersonMoves
<1>9. ASSUME NEW p \in PersonIds, Folk!ExistsIn(person, p)  PROVE Folk!ExistsIn(person', p)
  <2>1. p[1] \in Emails  BY DEF PersonIds
  <2> QED  BY <1>1, <1>2, <1>5, <1>6, <1>9, <2>1 DEF Folk!ExistsIn
<1>10. \A l \in Labels : AliasFits(l)'  BY <1>1, <1>9, AliasesStay
<1>11. /\ task' \in [Tasks -> TaskRecord] /\ TasksApart'
       /\ \A u \in Tasks : TaskFits(task[u])'
  BY <1>1, <1>9, TasksStay
<1>12. FolkTypes'  BY <1>1, <1>8 DEF FolkInv, FolkTypes
<1> QED  BY <1>8, <1>10, <1>11, <1>12, Zenon DEF FolkInv

-----------------------------------------------------------------------------

\* A company of the calendar is written.
LEMMA DeriveCompanyFits ==
    ASSUME FolkInv, NEW t \in Tasks, NEW e \in Emails, Folk!DeriveCompany(t, e)  PROVE FolkInv'
<1>1. /\ task[t].op = "derive" /\ task \in [Tasks -> TaskRecord]
      /\ company \in [Folk!Domains -> [live : BOOLEAN, inc : Nat]]
      /\ UNCHANGED <<person, alias, noteLive, asks>>
  BY DEF Folk!DeriveCompany, FolkInv, FolkTypes
<1>2. PICK q \in DeriveTask : q = task[t]  BY <1>1, TaskKinds
<1>3. /\ company' \in [Folk!Domains -> [live : BOOLEAN, inc : Nat]] /\ failures' \in 0..MaxFaults
      /\ \A d \in Folk!Domains : company[d].live => company'[d] = company[d]
      /\ \E c \in CompanyIds \cup {<<>>} : task' = [task EXCEPT ![t].at = e, ![t].company = c]
  <2>1. CASE /\ Domain[e] # NoDomain
             /\ Folk!UpsertCompany(Domain[e])
             /\ task' = [task EXCEPT ![t].at = e,
                                     ![t].company = <<Domain[e], company'[Domain[e]].inc>>]
             /\ UNCHANGED failures
    <3>1. PICK d \in Folk!Domains : d = Domain[e]  BY <2>1 DEF Folk!Domains
    <3>2. \/ company' = company
          \/ ~company[d].live /\ company' = [company EXCEPT ![d] = [live |-> TRUE, inc |-> company[d].inc + 1]]
      BY <2>1, <3>1 DEF Folk!UpsertCompany
    <3>3. /\ company' \in [Folk!Domains -> [live : BOOLEAN, inc : Nat]]
          /\ \A f \in Folk!Domains : company[f].live => company'[f] = company[f]
      <4>1. CASE company' = company  BY <1>1, <4>1
      <4>2. CASE /\ ~company[d].live
                 /\ company' = [company EXCEPT ![d] = [live |-> TRUE, inc |-> company[d].inc + 1]]
        <5>1. PICK w : w = [live |-> TRUE, inc |-> company[d].inc + 1]  OBVIOUS
        <5>2. w \in [live : BOOLEAN, inc : Nat]  BY <1>1, <5>1
        <5>3. company' = [company EXCEPT ![d] = w]  BY <4>2, <5>1
        <5> QED  BY <1>1, <4>2, <5>2, <5>3
      <4> QED  BY <3>2, <4>1, <4>2
    <3>4. PICK c \in CompanyIds : c = <<d, company'[d].inc>>  BY <3>3 DEF CompanyIds
    <3>5. task' = [task EXCEPT ![t].at = e, ![t].company = c]  BY <2>1, <3>1, <3>4
    <3>6. failures' \in 0..MaxFaults  BY <2>1 DEF FolkInv, FolkTypes
    <3> QED  BY <3>3, <3>5, <3>6
  <2>2. CASE /\ Domain[e] = NoDomain \/ failures < MaxFaults
             /\ failures' = IF Domain[e] = NoDomain THEN failures ELSE failures + 1
             /\ task' = [task EXCEPT ![t].at = e, ![t].company = Folk!None]
             /\ UNCHANGED company
    <3>1. MaxFaults \in Nat  BY NotebookAssumption, Zenon
    <3>2. failures \in 0..MaxFaults  BY DEF FolkInv, FolkTypes
    <3>3. failures' \in 0..MaxFaults  BY ONLY <2>2, <3>1, <3>2
    <3>4. task' = [task EXCEPT ![t].at = e, ![t].company = <<>>]  BY <2>2 DEF Folk!None
    <3> QED  BY <1>1, <2>2, <3>3, <3>4
  <2> QED  BY <2>1, <2>2 DEF Folk!DeriveCompany
<1>4. PICK c \in CompanyIds \cup {<<>>} : task' = [task EXCEPT ![t].at = e, ![t].company = c]  BY <1>3
<1>5. PICK k : k = [q EXCEPT !.at = e, !.company = c]  OBVIOUS
<1>6. k \in DeriveTask /\ k.op = "derive"  BY <1>5 DEF DeriveTask
<1>7. k \in TaskRecord /\ TaskFits(k) /\ ~Deletes(k)  BY <1>6 DEF TaskRecord, TaskFits, Deletes
<1>8. task' = [task EXCEPT ![t] = k]  BY <1>1, <1>2, <1>4, <1>5
<1>13. ASSUME NEW w \in CompanyIds, Folk!CompanyExists(w)  PROVE Folk!CompanyExists(w)'
  BY <1>3, <1>13 DEF Folk!CompanyExists, Folk!CompanyId, CompanyIds, Folk!None
<1>9. /\ task' \in [Tasks -> TaskRecord] /\ TasksApart'
      /\ \A u \in Tasks : TaskFits(task[u])'
  BY <1>1, <1>7, <1>8, <1>13, OneTaskMovesOn
<1>10. FolkTypes'  BY <1>1, <1>3 DEF FolkInv, FolkTypes
<1>11. ASSUME NEW d \in Emails  PROVE PersonFits(d)'
  <2>1. PersonFits(d) /\ person \in [Emails -> PersonRow]  BY DEF FolkInv, FolkTypes
  <2>2. PICK w \in CompanyIds \cup {<<>>} : w = person[d].company  BY <2>1 DEF PersonRow
  <2>3. Folk!CompanyExists(w)  BY <2>1, <2>2 DEF PersonFits
  <2>4. Folk!CompanyExists(w)'
    BY <1>3, <2>3 DEF Folk!CompanyExists, Folk!CompanyId, CompanyIds, Folk!None
  <2> QED  BY <1>1, <2>1, <2>2, <2>4 DEF PersonFits
<1>12. \A l \in Labels : AliasFits(l)'  BY <1>1, AliasesStay
<1> QED  BY <1>9, <1>10, <1>11, <1>12, Zenon DEF FolkInv

\* The first statement of a merge of companies: the people that will move are the ones there
\* are, and the company they go to is there.
LEMMA MovePeopleFits ==
    ASSUME FolkInv, NEW t \in Tasks, Folk!MovePeople(t)  PROVE FolkInv'
<1>1. /\ task[t].op = "mergeCompanies" /\ task \in [Tasks -> TaskRecord] /\ asks \in 0..MaxAsks
      /\ TaskFits(task[t])
  BY DEF Folk!MovePeople, FolkInv, FolkTypes
<1>2. PICK q \in CompaniesTask : q = task[t]  BY <1>1, TaskKinds
<1>3. PICK gone \in SUBSET Emails : gone = Folk!PeopleOf(q.from)
  <2>1. Folk!PeopleOf(q.from) \subseteq Emails  BY Zenon DEF Folk!PeopleOf
  <2> QED  BY <2>1
<1>4. /\ \/ /\ task' = [task EXCEPT ![t].stage = "moved", ![t].moved = gone]
            /\ gone = {} \/ Folk!CompanyExists(q.into)
         \/ task' = [task EXCEPT ![t] = Folk!Idle]
      /\ UNCHANGED <<person, company, alias, noteLive, asks, failures>>
  BY <1>2, <1>3 DEF Folk!MovePeople
<1>5. CASE task' = [task EXCEPT ![t] = Folk!Idle]
  BY <1>4, <1>5, TaskEnds DEF Folk!Finish
<1>6. CASE /\ task' = [task EXCEPT ![t].stage = "moved", ![t].moved = gone]
           /\ gone = {} \/ Folk!CompanyExists(q.into)
  <2>1. PICK k : k = [q EXCEPT !.stage = "moved", !.moved = gone]  OBVIOUS
  <2>2. k \in CompaniesTask /\ k.moved = gone /\ k.from = q.from /\ k.into = q.into
        /\ k.op = "mergeCompanies" /\ k.stage = "moved"
    BY <1>3, <2>1 DEF CompaniesTask
  <2>3. q.from[1] # q.into[1]  BY <1>1, <1>2 DEF TaskFits
  <2>4. k \in TaskRecord /\ TaskFits(k) /\ ~Deletes(k)
    BY <1>6, <2>2, <2>3 DEF TaskRecord, TaskFits, Deletes
  <2>5. task' = [task EXCEPT ![t] = k]  BY <1>1, <1>2, <1>6, <2>1
  <2> QED  BY <1>1, <1>4, <2>4, <2>5, OnlyTaskMoves
<1> QED  BY <1>4, <1>5, <1>6

\* A merge of companies that the database ends.
LEMMA AbortCompaniesFits ==
    ASSUME FolkInv, NEW t \in Tasks, Folk!AbortCompanies(t)  PROVE FolkInv'
<1>1. Folk!Finish(t) /\ UNCHANGED <<person, company, alias, noteLive, asks, failures>>
  BY DEF Folk!AbortCompanies
<1> QED  BY <1>1, TaskEnds

\* A company is merged away: whoever was moved is with the other, who is there, and nobody is
\* left with it.
LEMMA MergeCompaniesFits ==
    ASSUME FolkInv, NEW t \in Tasks, Folk!MergeCompanies(t)  PROVE FolkInv'
<1>1. /\ task[t].op = "mergeCompanies" /\ task \in [Tasks -> TaskRecord] /\ TaskFits(task[t])
      /\ person \in [Emails -> PersonRow]
      /\ company \in [Folk!Domains -> [live : BOOLEAN, inc : Nat]]
  BY DEF Folk!MergeCompanies, Folk!CompanyMerges, FolkInv, FolkTypes
<1>2. PICK q \in CompaniesTask : q = task[t]  BY <1>1, TaskKinds
<1>3. PICK from \in CompanyIds, into \in CompanyIds : from = q.from /\ into = q.into
  BY DEF CompaniesTask
<1>4. from[1] # into[1] /\ from[1] \in Folk!Domains /\ into[1] \in Folk!Domains
      /\ from # <<>> /\ into # <<>>
  BY <1>1, <1>2, <1>3 DEF TaskFits, CompaniesTask, CompanyIds
<1>5. PICK stay \in SUBSET Emails : stay = q.moved  BY DEF CompaniesTask
<1>6. /\ IF Folk!CompanyExists(from)
         THEN /\ company' = [company EXCEPT ![from[1]].live = FALSE]
              /\ person' = [e \in Emails |->
                     IF e \notin Folk!PeopleOf(from) THEN person[e]
                     ELSE [person[e] EXCEPT !.company = IF e \in stay THEN into ELSE <<>>]]
         ELSE UNCHANGED <<company, person>>
      /\ task' = [task EXCEPT ![t] = Folk!Idle]
      /\ ~Folk!CompanyReferred(from, {t})
      /\ UNCHANGED <<alias, noteLive, asks, failures>>
  BY <1>2, <1>3, <1>5 DEF Folk!MergeCompanies, Folk!Finish, Folk!None
<1>7. CASE ~Folk!CompanyExists(from)
  BY <1>6, <1>7, TaskEnds DEF Folk!Finish
<1>8. CASE Folk!CompanyExists(from)
  <2>1. company' = [company EXCEPT ![from[1]].live = FALSE]
        /\ person' = [e \in Emails |->
                     IF e \notin Folk!PeopleOf(from) THEN person[e]
                     ELSE [person[e] EXCEPT !.company = IF e \in stay THEN into ELSE <<>>]]
    BY <1>6, <1>8
  <2>2. /\ company' \in [Folk!Domains -> [live : BOOLEAN, inc : Nat]]
        /\ \A d \in Folk!Domains : d # from[1] => company'[d] = company[d]
    BY <1>1, <1>4, <2>1
  <2>3. ASSUME NEW e \in Emails
        PROVE  person'[e] \in PersonRow /\ person'[e].live = person[e].live /\ person'[e].inc = person[e].inc
    <3>1. PICK w \in CompanyIds \cup {<<>>} : w = IF e \in stay THEN into ELSE <<>>  OBVIOUS
    <3>2. person'[e] = person[e] \/ person'[e] = [person[e] EXCEPT !.company = w]  BY <2>1, <3>1
    <3>3. person[e] \in PersonRow  BY <1>1
    <3> QED  BY <3>2, <3>3 DEF PersonRow
  <2>4. person' \in [Emails -> PersonRow]  BY <2>1, <2>3
  <2>12. ASSUME NEW c \in CompanyIds, c # from, Folk!CompanyExists(c)  PROVE Folk!CompanyExists(c)'
    <3>1. c[1] # from[1]
      BY <1>4, <1>8, <2>12, IdsAreSomething DEF Folk!CompanyExists, Folk!CompanyId, Folk!None
    <3>2. c[1] \in Folk!Domains  BY DEF CompanyIds
    <3> QED  BY <2>2, <2>12, <3>1, <3>2 DEF Folk!CompanyExists, Folk!CompanyId
  <2>5. ASSUME NEW e \in Emails  PROVE PersonFits(e)'
    <3>1. PersonFits(e)  BY DEF FolkInv
    <3>2. CASE e \in Folk!PeopleOf(from) /\ e \in stay
      <4>1. person'[e].company = into /\ person[e].live
        <5>1. person'[e] = [person[e] EXCEPT !.company = into]  BY <2>1, <3>2
        <5> QED  BY <1>1, <3>2, <5>1 DEF Folk!PeopleOf, PersonRow
      <4>2. Folk!CompanyExists(into)  BY <1>1, <1>2, <1>3, <1>5, <3>2 DEF TaskFits
      <4>3. Folk!CompanyExists(into)'  BY <1>4, <2>12, <4>2
      <4> QED  BY <2>3, <4>1, <4>3 DEF PersonFits
    <3>4. CASE e \in Folk!PeopleOf(from) /\ e \notin stay
      <4>1. person'[e] = [person[e] EXCEPT !.company = <<>>]  BY <2>1, <3>4
      <4>2. person'[e].company = <<>>  BY <1>1, <4>1 DEF PersonRow
      <4> QED  BY <4>2 DEF PersonFits, Folk!CompanyExists, Folk!None
    <3>3. CASE e \notin Folk!PeopleOf(from)
      <4>1. PICK c \in CompanyIds \cup {<<>>} : c = person[e].company  BY <1>1 DEF PersonRow
      <4>2. person'[e] = person[e]  BY <2>1, <3>3
      <4>3. CASE c = <<>>  BY <4>1, <4>2, <4>3 DEF PersonFits, Folk!CompanyExists, Folk!None
      <4>4. CASE c # <<>>
        <5>1. person[e].live /\ Folk!CompanyExists(c)  BY <3>1, <4>1, <4>4 DEF PersonFits
        <5>2. c # from  BY <3>3, <4>1, <5>1 DEF Folk!PeopleOf
        <5>3. Folk!CompanyExists(c)'  BY <2>12, <4>4, <5>1, <5>2
        <5> QED  BY <4>1, <4>2, <5>1, <5>3 DEF PersonFits
      <4> QED  BY <4>3, <4>4
    <3> QED  BY <3>2, <3>3, <3>4
  <2>6. \A p \in PersonIds : Folk!ExistsIn(person, p) => Folk!ExistsIn(person', p)
    BY <2>3 DEF Folk!ExistsIn, PersonIds
  <2>7. \A l \in Labels : AliasFits(l)'  BY <1>6, <2>6, AliasesStay
  <2>8. PICK k : k = Folk!Idle  OBVIOUS
  <2>9. TaskFits(k)' /\ k \in TaskRecord /\ ~Deletes(k)
    BY <2>8, IdleFits DEF TaskFits, Folk!Idle
  <2>13. ASSUME NEW c \in CompanyIds, NEW u \in Tasks \ {t}, Refers(task[u], c), Folk!CompanyExists(c)
         PROVE  Folk!CompanyExists(c)'
    <3>1. task[u] \in CompaniesTask  BY <1>1, <2>13, TaskKinds DEF Refers
    <3>2. task[u].stage = "moved"  BY <2>13, <3>1 DEF FolkInv, TaskFits, Refers, CompaniesTask
    <3>3. c # from  BY <1>6, <2>13, <3>2 DEF Folk!CompanyReferred, Folk!CompanyMerges, Refers
    <3> QED  BY <2>12, <2>13, <3>3
  <2>10. /\ task' \in [Tasks -> TaskRecord] /\ TasksApart'
         /\ \A u \in Tasks : TaskFits(task[u])'
    BY <1>6, <2>6, <2>8, <2>9, <2>13, OneTaskMoves
  <2>11. FolkTypes'  BY <1>6, <2>2, <2>4 DEF FolkInv, FolkTypes
  <2> QED  BY <2>5, <2>7, <2>10, <2>11, Zenon DEF FolkInv
<1> QED  BY <1>7, <1>8

-----------------------------------------------------------------------------

\* The row of a person goes: nobody else does.
LEMMA PersonGoes ==
    ASSUME FolkInv, NEW p \in PersonIds, Folk!PersonExists(p), person' = Folk!Gone(p[1]),
           UNCHANGED company
    PROVE  /\ person' \in [Emails -> PersonRow] /\ \A d \in Emails : PersonFits(d)'
           /\ \A r \in PersonIds : r # p /\ Folk!ExistsIn(person, r) => Folk!ExistsIn(person', r) /\ r[1] # p[1]
<1>1. person \in [Emails -> PersonRow]  BY DEF FolkInv, FolkTypes
<1>2. PICK e \in Emails : e = p[1]  BY DEF PersonIds
<1>3. PICK x : x = [live |-> FALSE, inc |-> person[e].inc, name |-> "", company |-> <<>>]  OBVIOUS
<1>4. x \in PersonRow /\ x.company = <<>>
  <2>1. PICK i \in Nat, n \in AnyName, c \in CompanyIds \cup {<<>>} :
            i = person[e].inc /\ n = "" /\ c = <<>>
    BY <1>1 DEF PersonRow, AnyName
  <2>2. x = [live |-> FALSE, inc |-> i, name |-> n, company |-> c]  BY <1>3, <2>1, Zenon
  <2>3. x \in PersonRow
    BY ONLY <2>2, i \in Nat, n \in AnyName, c \in CompanyIds \cup {<<>>} DEF PersonRow
  <2>4. x.company = c  BY <2>2
  <2> QED  BY <2>1, <2>3, <2>4
<1>5. person' = [person EXCEPT ![e] = x]  BY <1>2, <1>3 DEF Folk!Gone, Folk!NoName, Folk!None
<1>6. Folk!CompanyExists(x.company)  BY <1>4 DEF Folk!CompanyExists, Folk!None
<1>7. ASSUME NEW r \in PersonIds, r # p, Folk!ExistsIn(person, r)
      PROVE  Folk!ExistsIn(person', r) /\ r[1] # p[1]
  <2>1. r[1] # e  BY <1>2, <1>7, IdsAreSomething DEF Folk!PersonExists, Folk!ExistsIn
  <2>2. r[1] \in Emails /\ person'[r[1]] = person[r[1]]  BY <1>1, <1>5, <2>1 DEF PersonIds
  <2> QED  BY <1>2, <1>7, <2>1, <2>2 DEF Folk!ExistsIn
<1> QED  BY <1>4, <1>5, <1>6, <1>7, OnePersonMoves

\* The foreign key clears the aliases of the row that goes.
LEMMA AliasesLose ==
    ASSUME NEW p \in PersonIds, NEW old \in [Labels -> AliasRow],
           \A l \in Labels : old[l].person = <<>> \/ old[l].person = p
                                \/ Folk!ExistsIn(person', old[l].person),
           alias' = Folk!WithoutPerson(p, old)
    PROVE  alias' \in [Labels -> AliasRow] /\ \A l \in Labels : AliasFits(l)'
<1>1. alias' = [l \in Labels |-> IF old[l].person = p THEN [old[l] EXCEPT !.person = <<>>] ELSE old[l]]
  BY DEF Folk!WithoutPerson, Folk!None
<1>2. ASSUME NEW l \in Labels  PROVE alias'[l] \in AliasRow /\ AliasFits(l)'
  <2>1. CASE old[l].person = p
    <3>1. alias'[l] = [old[l] EXCEPT !.person = <<>>]  BY <1>1, <2>1
    <3>2. alias'[l] \in AliasRow /\ alias'[l].person = <<>>  BY <3>1 DEF AliasRow
    <3> QED  BY <3>2 DEF AliasFits
  <2>2. CASE old[l].person # p
    <3>1. alias'[l] = old[l]  BY <1>1, <2>2
    <3> QED  BY <2>2, <3>1 DEF AliasFits, Folk!PersonExists
  <2> QED  BY <2>1, <2>2
<1> QED  BY <1>1, <1>2

\* A person that no merge is deleting is deleted.
LEMMA DeletePersonFits ==
    ASSUME FolkInv, NEW e \in Emails, Folk!HandleDeletePerson(e)  PROVE FolkInv'
<1>1. /\ person \in [Emails -> PersonRow] /\ alias \in [Labels -> AliasRow]
      /\ task \in [Tasks -> TaskRecord] /\ \A l \in Labels : AliasFits(l)
  BY DEF FolkInv, FolkTypes
<1>2. PICK p : p = Folk!PersonId(e)  OBVIOUS
<1>3. p \in PersonIds /\ p[1] = e  BY <1>1, <1>2 DEF Folk!PersonId, PersonIds, PersonRow
<1>4. /\ person[e].live /\ ~Folk!Deleting(p) /\ person' = Folk!Gone(e)
      /\ alias' = Folk!WithoutPerson(p, alias) /\ asks' \in 0..MaxAsks
      /\ UNCHANGED <<company, noteLive, task, failures>>
  BY <1>2, OneAsked DEF Folk!HandleDeletePerson, Folk!DeletePerson, Folk!OneMore, Folk!PersonLocked
<1>5. Folk!PersonExists(p)
  BY <1>2, <1>3, <1>4, IdsAreSomething DEF Folk!PersonExists, Folk!ExistsIn, Folk!PersonId, Folk!None
<1>6. /\ person' \in [Emails -> PersonRow] /\ \A d \in Emails : PersonFits(d)'
      /\ \A r \in PersonIds : r # p /\ Folk!ExistsIn(person, r) => Folk!ExistsIn(person', r)
  BY <1>3, <1>4, <1>5, PersonGoes
<1>7. \A l \in Labels : alias[l].person = <<>> \/ alias[l].person = p
                           \/ Folk!ExistsIn(person', alias[l].person)
  BY <1>1, <1>6 DEF AliasFits, Folk!PersonExists, AliasRow
<1>8. alias' \in [Labels -> AliasRow] /\ \A l \in Labels : AliasFits(l)'
  <2>1. PICK old : old = alias  OBVIOUS
  <2> QED  BY <1>1, <1>3, <1>4, <1>7, <2>1, AliasesLose
<1>9. /\ task' \in [Tasks -> TaskRecord] /\ TasksApart'
      /\ \A u \in Tasks : TaskFits(task[u])'
  <2>1. \A u \in Tasks : Deletes(task[u]) => task[u].from # p
    BY <1>4 DEF Folk!Deleting, Folk!Merges, Deletes
  <2> QED  BY <1>4, <1>6, <2>1, TasksStay
<1>10. FolkTypes'  BY <1>4, <1>6, <1>8 DEF FolkInv, FolkTypes
<1> QED  BY <1>6, <1>8, <1>9, <1>10, Zenon DEF FolkInv

\* What a commit writes when the survivor is there.
LEMMA CommitWrites ==
    ASSUME FolkInv, NEW t \in Tasks, Folk!CommitMerge(t), Folk!PersonExists(task[t].into)
    PROVE  /\ task[t] \in MergeTask /\ task[t].from # task[t].into
           /\ task[t].spoke = task[t].moved
           /\ Folk!PersonExists(task[t].from)
           /\ person' = Folk!Gone(task[t].from[1])
           /\ \E old \in [Labels -> AliasRow] :
                 /\ old = [l \in Labels |-> IF l \in task[t].moved
                               THEN [alias[l] EXCEPT !.person = task[t].into] ELSE alias[l]]
                 /\ alias' = Folk!WithoutPerson(task[t].from, old)
<1>1. /\ task[t].op = "merge" /\ task[t].stage = "deleted" /\ task \in [Tasks -> TaskRecord]
      /\ TaskFits(task[t]) /\ alias \in [Labels -> AliasRow]
  BY DEF Folk!CommitMerge, FolkInv, FolkTypes
<1>2. task[t] \in MergeTask  BY <1>1, TaskKinds
<1>3. PICK old : old = [l \in Labels |-> IF l \in task[t].moved
                            THEN [alias[l] EXCEPT !.person = task[t].into] ELSE alias[l]]
  OBVIOUS
<1>4. person' = Folk!Gone(task[t].from[1]) /\ alias' = Folk!WithoutPerson(task[t].from, old)
  BY <1>3 DEF Folk!CommitMerge
<1>5. task[t].into \in PersonIds  BY <1>2 DEF MergeTask
<1>6. old \in [Labels -> AliasRow]
  <2>1. ASSUME NEW l \in Labels
        PROVE  [alias[l] EXCEPT !.person = task[t].into] \in AliasRow /\ alias[l] \in AliasRow
    BY <1>1, <1>5 DEF AliasRow
  <2> QED  BY <1>3, <2>1
<1> QED  BY <1>1, <1>2, <1>3, <1>4, <1>6 DEF TaskFits

\* The end of a merge, with a survivor or without.
LEMMA CommitMergeFits ==
    ASSUME FolkInv, NEW t \in Tasks, Folk!CommitMerge(t)  PROVE FolkInv'
<1>1. /\ task[t].op = "merge" /\ task[t].stage = "deleted" /\ task \in [Tasks -> TaskRecord]
      /\ alias \in [Labels -> AliasRow] /\ \A l \in Labels : AliasFits(l)
      /\ Folk!Finish(t) /\ UNCHANGED <<company, noteLive, asks, failures>>
  BY DEF Folk!CommitMerge, FolkInv, FolkTypes
<1>2. CASE ~Folk!PersonExists(task[t].into)
  <2>1. UNCHANGED <<person, alias>>  BY <1>2 DEF Folk!CommitMerge
  <2> QED  BY <1>1, <2>1, TaskEnds
<1>3. CASE Folk!PersonExists(task[t].into)
  <2>1. PICK q \in MergeTask : q = task[t]  BY <1>3, CommitWrites
  <2>2. PICK p \in PersonIds, s \in PersonIds : p = q.from /\ s = q.into  BY DEF MergeTask
  <2>3. p # s /\ Folk!PersonExists(p) /\ Folk!PersonExists(s) /\ person' = Folk!Gone(p[1])
    BY <1>3, <2>1, <2>2, CommitWrites
  <2>4. PICK old \in [Labels -> AliasRow] :
            /\ old = [l \in Labels |-> IF l \in q.moved THEN [alias[l] EXCEPT !.person = s] ELSE alias[l]]
            /\ alias' = Folk!WithoutPerson(p, old)
    BY <1>3, <2>1, <2>2, CommitWrites
  <2>5. /\ person' \in [Emails -> PersonRow] /\ \A d \in Emails : PersonFits(d)'
        /\ \A r \in PersonIds : r # p /\ Folk!ExistsIn(person, r) => Folk!ExistsIn(person', r)
    BY <1>1, <2>3, PersonGoes
  <2>6. ASSUME NEW l \in Labels
        PROVE  old[l].person = <<>> \/ old[l].person = p \/ Folk!ExistsIn(person', old[l].person)
    <3>1. old[l].person = s \/ old[l].person = alias[l].person  BY <1>1, <2>4 DEF AliasRow
    <3>2. Folk!ExistsIn(person', s)  BY <2>3, <2>5 DEF Folk!PersonExists
    <3>3. \/ alias[l].person = <<>> \/ alias[l].person = p
          \/ Folk!ExistsIn(person', alias[l].person)
      BY <1>1, <2>5 DEF AliasFits, Folk!PersonExists, AliasRow
    <3> QED  BY <3>1, <3>2, <3>3
  <2>7. alias' \in [Labels -> AliasRow] /\ \A l \in Labels : AliasFits(l)'
    BY <2>4, <2>6, AliasesLose
  <2>8. PICK k : k = Folk!Idle  OBVIOUS
  <2>9. TaskFits(k)' /\ k \in TaskRecord /\ ~Deletes(k) /\ task' = [task EXCEPT ![t] = k]
    BY <1>1, <2>8, IdleFits DEF TaskFits, Folk!Idle, Folk!Finish
  <2>10. \A u \in Tasks \ {t} : Deletes(task[u]) => task[u].from # p
    BY <1>1, <2>1, <2>2 DEF FolkInv, TasksApart, Deletes
  <2>11. /\ task' \in [Tasks -> TaskRecord] /\ TasksApart'
         /\ \A u \in Tasks : TaskFits(task[u])'
    BY <1>1, <2>5, <2>9, <2>10, CompaniesStay, OneTaskMoves
  <2>12. FolkTypes'  BY <1>1, <2>5, <2>7 DEF FolkInv, FolkTypes
  <2> QED  BY <2>5, <2>7, <2>11, <2>12, Zenon DEF FolkInv
<1> QED  BY <1>2, <1>3

-----------------------------------------------------------------------------

\* After the first synchronisation.
LEMMA FolkInit == ASSUME Folk!Init PROVE FolkInv
<1>1. /\ company = [d \in Folk!Domains |-> [live |-> TRUE, inc |-> 1]]
      /\ person = [e \in Emails |->
                    [live |-> TRUE, inc |-> 1, name |-> CalendarName[e],
                     company |-> IF Domain[e] = NoDomain THEN <<>> ELSE <<Domain[e], 1>>]]
      /\ noteLive = TRUE /\ task = [t \in Tasks |-> Folk!Idle] /\ asks = 0 /\ failures = 0
  BY DEF Folk!Init, Folk!None
<1>2. alias \in [Labels -> {[name |-> "", person |-> <<>>]} \cup
                             [name : {CalendarName[e] : e \in Emails},
                              person : {<<e, 1>> : e \in Emails} \cup {<<>>}]]
  BY Zenon DEF Folk!Init, Folk!None, Folk!NoName
<1>3. \A e \in Emails : CalendarName[e] \in AnyName
  <2>1. CalendarName \in [Emails -> Names \cup {""}]  BY NotebookAssumption, Zenon
  <2> QED  BY ONLY <2>1 DEF AnyName
<1>4. ASSUME NEW e \in Emails
      PROVE  /\ person[e] \in PersonRow /\ person[e].live /\ person[e].inc = 1
             /\ Folk!CompanyExists(person[e].company)
  <2>1. PICK c : c = IF Domain[e] = NoDomain THEN <<>> ELSE <<Domain[e], 1>>  OBVIOUS
  <2>2. c \in CompanyIds \cup {<<>>} /\ Folk!CompanyExists(c)
    <3>1. CASE Domain[e] = NoDomain
      <4>1. c = <<>>  BY <2>1, <3>1
      <4> QED  BY <4>1 DEF Folk!CompanyExists, Folk!None
    <3>2. CASE Domain[e] # NoDomain
      <4>1. c = <<Domain[e], 1>>  BY <2>1, <3>2
      <4>2. Domain[e] \in Folk!Domains  BY <3>2 DEF Folk!Domains
      <4>3. company[Domain[e]] = [live |-> TRUE, inc |-> 1]  BY <1>1, <4>2
      <4> QED  BY <4>1, <4>2, <4>3 DEF CompanyIds, Folk!CompanyExists, Folk!CompanyId
    <3> QED  BY <3>1, <3>2
  <2>3. PICK n \in AnyName : n = CalendarName[e]  BY <1>3
  <2>4. person[e] = [live |-> TRUE, inc |-> 1, name |-> n, company |-> c]  BY <1>1, <2>1, <2>3
  <2>5. c \in CompanyIds \cup {<<>>}  BY <2>2
  <2>6. person[e] \in PersonRow  BY ONLY <2>4, <2>5, n \in AnyName DEF PersonRow
  <2> QED  BY <2>2, <2>4, <2>6
<1>5. ASSUME NEW l \in Labels
      PROVE  alias[l] \in AliasRow /\ AliasFits(l)
  <2>1. CASE alias[l] = [name |-> "", person |-> <<>>]
    <3>1. PICK n \in AnyName : n = ""  BY DEF AnyName
    <3>2. alias[l] = [name |-> n, person |-> <<>>]  BY <2>1, <3>1
    <3>3. alias[l] \in AliasRow  BY ONLY <3>2, n \in AnyName DEF AliasRow
    <3>4. alias[l].person = <<>>  BY <3>2
    <3> QED  BY <3>3, <3>4 DEF AliasFits
  <2>2. CASE alias[l] \in [name : {CalendarName[e] : e \in Emails},
                          person : {<<e, 1>> : e \in Emails} \cup {<<>>}]
    <3>1. PICK p \in {<<f, 1>> : f \in Emails} \cup {<<>>} : p = alias[l].person  BY <2>2
    <3>2. PICK n \in AnyName : n = alias[l].name  BY <1>3, <2>2
    <3>3. p \in PersonIds \cup {<<>>}  BY DEF PersonIds
    <3>4. alias[l] = [name |-> n, person |-> p]  BY <2>2, <3>1, <3>2
    <3>5. alias[l] \in AliasRow  BY ONLY <3>3, <3>4, n \in AnyName DEF AliasRow
    <3>6. alias[l].person = p  BY <3>4
    <3>7. p = <<>> \/ Folk!PersonExists(p)
      <4>1. CASE p = <<>>  BY <4>1
      <4>2. CASE p # <<>>
        <5>1. PICK f \in Emails : p = <<f, 1>>  BY <4>2
        <5> QED  BY <1>4, <4>2, <5>1 DEF Folk!PersonExists, Folk!ExistsIn, Folk!None
      <4> QED  BY <4>1, <4>2
    <3> QED  BY <3>5, <3>6, <3>7 DEF AliasFits
  <2> QED  BY <1>2, <2>1, <2>2
<1>6. asks \in 0..MaxAsks /\ failures \in 0..MaxFaults
  <2>1. MaxAsks \in Nat /\ MaxFaults \in Nat  BY NotebookAssumption, Zenon
  <2>2. asks = 0 /\ failures = 0  BY <1>1, Zenon
  <2> QED  BY ONLY <2>1, <2>2
<1>7. FolkTypes
  <2>1. person \in [Emails -> PersonRow]  BY <1>1, <1>4
  <2>2. alias \in [Labels -> AliasRow]  BY <1>2, <1>5
  <2>3. company \in [Folk!Domains -> [live : BOOLEAN, inc : Nat]]  BY <1>1
  <2> QED  BY <1>1, <1>6, <2>1, <2>2, <2>3 DEF FolkTypes
<1>8. \A e \in Emails : PersonFits(e)  BY <1>4 DEF PersonFits
<1>9. task \in [Tasks -> TaskRecord] /\ \A t \in Tasks : task[t] = Folk!Idle  BY <1>1, IdleFits
<1>10. (\A t \in Tasks : TaskFits(task[t])) /\ TasksApart  BY <1>9, IdleFits DEF TasksApart
<1> QED  BY <1>5, <1>7, <1>8, <1>9, <1>10 DEF FolkInv

\* Every step keeps the foreign keys and the locks.
LEMMA FolkStep == ASSUME FolkInv, Folk!Next PROVE FolkInv'
<1>1. ASSUME NEW t \in Tasks, Folk!TaskStep(t)  PROVE FolkInv'
  <2>1. CASE Folk!StartRefresh(t) \/ Folk!EndRefresh(t) \/ Folk!EndRelink(t) \/ Folk!AbortDeadlocked(t)
    BY <2>1, RefreshFits
  <2>2. CASE Folk!DerivePerson(t) \/ Folk!RelinkNoteSpeakers(t) \/ Folk!ListSpeakerAliases(t)
                \/ Folk!ListCandidates(t) \/ Folk!SetSpeakerAliasPerson(t)
                \/ Folk!MovePeople(t) \/ Folk!MergeCompanies(t) \/ Folk!AbortCompanies(t)
                \/ Folk!MoveSpeakers(t) \/ Folk!DeleteMerged(t) \/ Folk!CommitMerge(t)
    BY <2>2, DerivePersonFits, RelinkFits, ListSpeakerAliasesFits, ListCandidatesFits,
       SetSpeakerAliasPersonFits, MovePeopleFits, MergeCompaniesFits, AbortCompaniesFits,
       MoveSpeakersFits, DeleteMergedFits, CommitMergeFits
  <2>3. CASE \/ \E e \in Emails : Folk!DeriveCompany(t, e)
             \/ \E l \in Labels : \/ Folk!LinkSpeaker(t, l)
                                  \/ \E name \in Names : Folk!HandleUpsertSpeakerAlias(t, l, name)
             \/ \E name \in Names \cup {Folk!NoName} : Folk!UpdatePerson(t, name)
    BY <2>3, DeriveCompanyFits, LinkSpeakerFits, UpsertSpeakerAliasFits, UpdatePersonFits
       DEF AnyName, Folk!NoName
  <2>4. CASE \/ \E e \in Emails : \E d \in Folk!Domains : Folk!ChooseCompany(t, e, d)
             \/ \E l \in Labels : \E p \in Folk!AllPeople : Folk!ChoosePerson(t, l, p)
             \/ \E from, into \in Folk!Domains : Folk!ChooseCompanies(t, from, into)
             \/ \E from, into \in Folk!AllPeople : Folk!ChoosePeople(t, from, into)
    BY <2>4, ChooseFits
  <2> QED  BY <1>1, <2>1, <2>2, <2>3, <2>4, Zenon DEF Folk!TaskStep
<1>2. ASSUME NEW e \in Emails, NEW name \in Names \cup {Folk!NoName}, NEW clear \in BOOLEAN,
             Folk!HandleUpdatePerson(e, name, clear)
      PROVE  FolkInv'
  BY <1>2, HandleUpdatePersonFits DEF AnyName, Folk!NoName
<1> QED  BY <1>1, <1>2, DeletePersonFits, AliasRequestsFit, TrashOrRestoreNoteFits, Zenon DEF Folk!Next

\* And so does a step of something else.
LEMMA FolkStutter == ASSUME FolkInv, UNCHANGED Folk!vars PROVE FolkInv'
<1>1. UNCHANGED <<person, company, alias, noteLive, task, asks, failures>>  BY DEF Folk!vars
<1>2. FolkTypes'  BY <1>1 DEF FolkInv, FolkTypes
<1>3. \A e \in Emails : PersonFits(e)'  BY <1>1, PeopleStay
<1>4. \A l \in Labels : AliasFits(l)'  BY <1>1, AliasesStay
<1>5. /\ task' \in [Tasks -> TaskRecord] /\ TasksApart'
      /\ \A u \in Tasks : TaskFits(task[u])'
  BY <1>1, TasksStay
<1> QED  BY <1>2, <1>3, <1>4, <1>5, Zenon DEF FolkInv

\* The foreign keys are part of the type.
LEMMA FolkAreTyped == ASSUME FolkInv PROVE Folk!TypeOK
<1>1. ASSUME NEW e \in Emails
      PROVE  /\ person[e].live \in BOOLEAN /\ person[e].inc \in Nat
             /\ person[e].name \in Names \cup {""}
             /\ Folk!CompanyExists(person[e].company)
  BY DEF FolkInv, FolkTypes, PersonRow, PersonFits, AnyName
<1>2. \A d \in Folk!Domains : company[d].live \in BOOLEAN  BY DEF FolkInv, FolkTypes
<1>3. ASSUME NEW l \in Labels
      PROVE  /\ alias[l].name \in Names \cup {""}
             /\ alias[l].person # <<>> => Folk!PersonExists(alias[l].person)
  BY DEF FolkInv, FolkTypes, AliasRow, AliasFits, AnyName
<1>4. noteLive \in BOOLEAN /\ asks \in 0..MaxAsks /\ failures \in 0..MaxFaults
  BY DEF FolkInv, FolkTypes
<1> QED  BY <1>1, <1>2, <1>3, <1>4, Zenon DEF Folk!TypeOK, Folk!NoName, Folk!None

-----------------------------------------------------------------------------

\* Only CommitMerge ends a merge that has deleted its row.
LEMMA MergeIsCommitted ==
    ASSUME FolkInv, [Folk!Next]_Folk!vars, NEW t \in Tasks, Deletes(task[t]), task'[t] = Folk!Idle
    PROVE  Folk!CommitMerge(t)
<1>1. /\ task \in [Tasks -> TaskRecord] /\ task[t].op = "merge" /\ task[t].stage = "deleted"
      /\ task[t] # Folk!Idle /\ task'[t] # task[t]
  BY DEF FolkInv, Deletes, Folk!Idle
<1>2. ~UNCHANGED task  BY <1>1
<1>3. Folk!Next  BY <1>2 DEF Folk!vars
<1>4. PICK u \in Tasks : Folk!TaskStep(u)
  <2>1. ~ \E e \in Emails : \/ Folk!HandleDeletePerson(e)
                            \/ \E name \in Names \cup {Folk!NoName}, clear \in BOOLEAN :
                                   Folk!HandleUpdatePerson(e, name, clear)
    BY <1>2, Zenon DEF Folk!HandleDeletePerson, Folk!HandleUpdatePerson
  <2>2. ~ \E l \in Labels : Folk!HandleDeleteSpeakerAlias(l) \/ Folk!ClearSpeakerAliasPerson(l)
    BY <1>2, Zenon DEF Folk!HandleDeleteSpeakerAlias, Folk!ClearSpeakerAliasPerson
  <2>3. ~Folk!TrashOrRestoreNote  BY <1>2, Zenon DEF Folk!TrashOrRestoreNote
  <2> QED  BY <1>3, <2>1, <2>2, <2>3, Zenon DEF Folk!Next
<1>5. ~ \E k : Folk!Begin(u, k)
  <2>1. ASSUME NEW k, Folk!Begin(u, k)  PROVE FALSE
    <3>1. task[u] = Folk!Idle /\ task' = [task EXCEPT ![u] = k]  BY <2>1 DEF Folk!Begin
    <3> QED  BY <1>1, <3>1
  <2> QED  BY <2>1
<1>6. /\ ~Folk!StartRefresh(u) /\ ~Folk!RelinkNoteSpeakers(u)
      /\ ~ \E e \in Emails, d \in Folk!Domains : Folk!ChooseCompany(u, e, d)
      /\ ~ \E l \in Labels, p \in Folk!AllPeople : Folk!ChoosePerson(u, l, p)
      /\ ~ \E l \in Labels, name \in Names : Folk!HandleUpsertSpeakerAlias(u, l, name)
      /\ ~ \E from, into \in Folk!Domains : Folk!ChooseCompanies(u, from, into)
      /\ ~ \E from, into \in Folk!AllPeople : Folk!ChoosePeople(u, from, into)
  BY <1>5, Zenon DEF Folk!StartRefresh, Folk!RelinkNoteSpeakers, Folk!ChooseCompany, Folk!ChoosePerson,
     Folk!HandleUpsertSpeakerAlias, Folk!ChooseCompanies, Folk!ChoosePeople
<1>7. /\ ~Folk!DerivePerson(u) /\ ~Folk!EndRefresh(u)
      /\ ~ \E e \in Emails : Folk!DeriveCompany(u, e)
  BY <1>1 DEF Folk!DerivePerson, Folk!EndRefresh, Folk!DeriveCompany, Folk!Finish
<1>8. /\ ~Folk!ListSpeakerAliases(u) /\ ~Folk!EndRelink(u)
      /\ ~ \E l \in Labels : Folk!LinkSpeaker(u, l)
  BY <1>1 DEF Folk!ListSpeakerAliases, Folk!EndRelink, Folk!LinkSpeaker, Folk!Finish
<1>9. ~Folk!ListCandidates(u)  BY <1>1 DEF Folk!ListCandidates
<1>10. /\ ~Folk!SetSpeakerAliasPerson(u)
       /\ ~Folk!MovePeople(u) /\ ~Folk!MergeCompanies(u) /\ ~Folk!AbortCompanies(u)
       /\ ~ \E name \in Names \cup {Folk!NoName} : Folk!UpdatePerson(u, name)
  BY <1>1 DEF Folk!SetSpeakerAliasPerson, Folk!MovePeople, Folk!MergeCompanies, Folk!AbortCompanies,
     Folk!CompanyMerges, Folk!UpdatePerson, Folk!Finish
<1>11. ~Folk!MoveSpeakers(u) /\ ~Folk!DeleteMerged(u) /\ ~Folk!AbortDeadlocked(u)
  BY <1>1 DEF Folk!MoveSpeakers, Folk!DeleteMerged, Folk!AbortDeadlocked, Folk!Finish
<1>12. Folk!CommitMerge(u)
  BY <1>4, <1>6, <1>7, <1>8, <1>9, <1>10, <1>11, Zenon DEF Folk!TaskStep
<1>13. u = t  BY <1>1, <1>12 DEF Folk!CommitMerge, Folk!Finish
<1> QED  BY <1>12, <1>13

\* What is deleted at the commit has its speakers moved to a person who is there.
LEMMA CommitKeepsSpeakers ==
    ASSUME FolkInv, NEW t \in Tasks, Folk!CommitMerge(t), ~Folk!ExistsIn(person', task[t].from),
           NEW l \in task[t].spoke, alias[l].person = task[t].from
    PROVE  /\ alias'[l].person = task[t].into
           /\ noteLive => Folk!InNotesForPerson(task[t].into, alias')
           /\ Folk!ExistsIn(person', task[t].into)
<1>1. Folk!PersonExists(task[t].into)
  <2>1. SUFFICES ASSUME ~Folk!PersonExists(task[t].into) PROVE FALSE  OBVIOUS
  <2>2. task[t].op = "merge" /\ task[t].stage = "deleted" /\ UNCHANGED person
    BY <2>1 DEF Folk!CommitMerge
  <2>3. Folk!PersonExists(task[t].from)  BY <2>2 DEF FolkInv, TaskFits
  <2> QED  BY <2>2, <2>3 DEF Folk!PersonExists
<1>2. PICK q \in MergeTask : q = task[t]  BY <1>1, CommitWrites
<1>3. PICK p \in PersonIds, s \in PersonIds : p = q.from /\ s = q.into  BY DEF MergeTask
<1>4. p # s /\ Folk!PersonExists(p) /\ Folk!PersonExists(s) /\ person' = Folk!Gone(p[1])
      /\ l \in q.moved
  BY <1>1, <1>2, <1>3, CommitWrites
<1>5. PICK old \in [Labels -> AliasRow] :
          /\ old = [m \in Labels |-> IF m \in q.moved THEN [alias[m] EXCEPT !.person = s] ELSE alias[m]]
          /\ alias' = Folk!WithoutPerson(p, old)
  BY <1>1, <1>2, <1>3, CommitWrites
<1>6. l \in Labels /\ alias \in [Labels -> AliasRow]  BY <1>4 DEF MergeTask, FolkInv, FolkTypes
<1>7. old[l].person = s
  <2>1. old[l] = [alias[l] EXCEPT !.person = s]  BY <1>4, <1>5, <1>6
  <2> QED  BY <1>6, <2>1 DEF AliasRow
<1>8. alias'[l].person = s  BY <1>4, <1>5, <1>6, <1>7 DEF Folk!WithoutPerson
<1>9. Folk!ExistsIn(person', s)
  <2>1. UNCHANGED company  BY DEF Folk!CommitMerge
  <2> QED  BY <1>4, <2>1, PersonGoes DEF Folk!PersonExists
<1>10. noteLive => Folk!InNotesForPerson(s, alias')
  BY <1>6, <1>8, IdsAreSomething DEF Folk!InNotesForPerson, Folk!PeopleForNoteSpeakers, Folk!None
<1> QED  BY <1>2, <1>3, <1>8, <1>9, <1>10

\* The foreign keys hold, and a merge that commits leaves every speaker of the person it
\* deletes with the survivor, who is there, whatever was deleted, merged or relinked meanwhile.
THEOREM MergesKeepSpeakers == Folk!Spec => MergeKeepsSpeakers
<1> DEFINE Moved ==
        \A t \in Tasks :
             (task[t].op = "merge" /\ task[t].stage = "deleted" /\ task'[t] = Folk!Idle
                /\ ~Folk!ExistsIn(person', task[t].from))
             => \A l \in task[t].spoke :
                   alias[l].person = task[t].from =>
                       /\ alias'[l].person = task[t].into
                       /\ noteLive => Folk!InNotesForPerson(task[t].into, alias')
                       /\ Folk!ExistsIn(person', task[t].into)
<1>1. Folk!Init => FolkInv  BY FolkInit
<1>2. FolkInv /\ [Folk!Next]_Folk!vars => FolkInv'  BY FolkStep, FolkStutter
<1>3. FolkInv => Folk!TypeOK  BY FolkAreTyped
<1>4. FolkInv /\ [Folk!Next]_Folk!vars => Moved
  BY MergeIsCommitted, CommitKeepsSpeakers DEF Deletes
<1> HIDE DEF Moved
<1>5. Folk!Spec => []Folk!TypeOK /\ [][Moved]_Folk!vars  BY <1>1, <1>2, <1>3, <1>4, PTL DEF Folk!Spec
<1> QED  BY <1>5 DEF MergeKeepsSpeakers, Folk!MergeKeepsSpeakers, Moved
=============================================================================
