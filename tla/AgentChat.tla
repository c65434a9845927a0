------------------------------ MODULE AgentChat ------------------------------
(***************************************************************************)
(* One agent, its life from draft to archive (services/agent/service.py),  *)
(* and the chats of one session with it (api/v1/agents/chat.py).  Registry *)
(* requests read the agent without a lock and write their copy later; a    *)
(* chat commits three times: the question, the end of the model's call,    *)
(* and, after the answer was streamed, the answer.                         *)
(***************************************************************************)
EXTENDS Naturals, Sequences, FiniteSets, FiniteSetsExt

CONSTANTS
    Chats,          \* chat requests on the session
    Editors,        \* registry requests on the agent that overlap
    MaxMinor,       \* bound: highest minor version number
    MaxChatLosses   \* bound: how many requests are lost with their process

ASSUME ChatBounds == MaxMinor \in Nat /\ MaxChatLosses \in Nat

VARIABLES
    agent,          \* its row: status, published version (0: none)
    minors,         \* minor numbers of the agent's versions, unique by constraint
    editor,         \* the registry request in each slot, with its copy of the row
    chat,           \* where each chat is
    execution,      \* status of each chat's execution
    messages,       \* the session, in order: <<role, chat>>
    told,           \* integration events published of each chat's execution
    chatLosses

chatVars == <<agent, minors, editor, chat, execution, messages, told, chatLosses>>

NoEdit == [op |-> "none"]
Ended(c) == execution[c] \in {"completed", "failed"}

\* Creating an agent gives it version 1.0.0 and leaves it a draft.
CreateAgent == [status |-> "draft", published |-> 0]

ChatInit ==
    /\ agent = CreateAgent
    /\ minors = {1}
    /\ editor = [e \in Editors |-> NoEdit]
    /\ chat = [c \in Chats |-> "new"]
    /\ execution = [c \in Chats |-> "none"]
    /\ messages = <<>>
    /\ told = [c \in Chats |-> {}]
    /\ chatLosses = 0

-----------------------------------------------------------------------------
(* The registry. Minor m stands for version 1.(m-1).0. *)
NextMinor == Max(minors) + 1

\* A request loads the agent, and what else it decides by.
LoadAgent(e, op) ==
    /\ editor[e] = NoEdit
    /\ editor' = [editor EXCEPT ![e] =
          [op |-> op, copy |-> agent, minor |-> IF op = "version" THEN NextMinor ELSE 0]]
    /\ UNCHANGED <<agent, minors, chat, execution, messages, told, chatLosses>>

\* Two requests may choose the same number: the constraint refuses the later.
CreateAgentVersion(e) ==
    /\ editor[e].op = "version" /\ editor[e].minor <= MaxMinor
    /\ minors' = IF editor[e].copy.status = "archived" THEN minors
                 ELSE minors \cup {editor[e].minor}
    /\ editor' = [editor EXCEPT ![e] = NoEdit]
    /\ UNCHANGED <<agent, chat, execution, messages, told, chatLosses>>

\* Only what differs from the request's copy is written.
Written(field, copy, value) == IF copy[field] = value THEN agent[field] ELSE value

\* Mutant: an archived agent is published too.
Publish_Archived(e, m) ==
    /\ editor[e].op = "publish" /\ m \in minors
    /\ agent' = [status |-> Written("status", editor[e].copy, "published"),
                 published |-> Written("published", editor[e].copy, m)]
    /\ editor' = [editor EXCEPT ![e] = NoEdit]
    /\ UNCHANGED <<minors, chat, execution, messages, told, chatLosses>>
Publish(e, m) ==
    /\ editor[e].op = "publish" /\ m \in minors
    /\ agent' = IF editor[e].copy.status = "archived" THEN agent
                ELSE [status |-> Written("status", editor[e].copy, "published"),
                      published |-> Written("published", editor[e].copy, m)]
    /\ editor' = [editor EXCEPT ![e] = NoEdit]
    /\ UNCHANGED <<minors, chat, execution, messages, told, chatLosses>>

Archive(e) ==
    /\ editor[e].op = "archive"
    /\ agent' = IF editor[e].copy.status = "archived" THEN agent
                ELSE [agent EXCEPT !.status = "archived"]
    /\ editor' = [editor EXCEPT ![e] = NoEdit]
    /\ UNCHANGED <<minors, chat, execution, messages, told, chatLosses>>

-----------------------------------------------------------------------------
(* A chat. *)
Runnable == agent.status = "published" /\ agent.published # 0

\* The runtime (and the history the model is told) is read before the question
\* is stored; nothing looks at the agent again.
OpenChat(c) ==
    /\ chat[c] = "new" /\ Runnable
    /\ chat' = [chat EXCEPT ![c] = "open"]
    /\ UNCHANGED <<agent, minors, editor, execution, messages, told, chatLosses>>

Say(role, c) == messages' = Append(messages, <<role, c>>)
Tell(c, what) == told' = [told EXCEPT ![c] = @ \cup {what}]

\* start_execution and its event, in the question's transaction.
StartExecution(c) == execution' = [execution EXCEPT ![c] = "running"] /\ Tell(c, "started")
AskQuestion(c) ==
    /\ chat[c] = "open"
    /\ Say("user", c)
    /\ StartExecution(c)
    /\ chat' = [chat EXCEPT ![c] = "retrieve"]
    /\ UNCHANGED <<agent, minors, editor, chatLosses>>

\* finish_execution and its event: one commit with the span's record.
FinishExecution(c, status) == execution' = [execution EXCEPT ![c] = status] /\ Tell(c, status)

Retrieve(c) ==
    /\ chat[c] = "retrieve"
    /\ chat' = [chat EXCEPT ![c] = "model"]
    /\ UNCHANGED <<agent, minors, editor, execution, messages, told, chatLosses>>

\* Mutant: the caller is answered 502, the execution is not.
RetrievalFails_Unfinished(c) ==
    /\ chat[c] = "retrieve"
    /\ chat' = [chat EXCEPT ![c] = "over"]
    /\ UNCHANGED <<agent, minors, editor, execution, messages, told, chatLosses>>
RetrievalFails(c) ==
    /\ chat[c] = "retrieve"
    /\ FinishExecution(c, "failed")
    /\ chat' = [chat EXCEPT ![c] = "over"]
    /\ UNCHANGED <<agent, minors, editor, messages, chatLosses>>

\* The execution is completed before the answer is streamed and stored.
\* Mutant: the answer is stored with the end of the call, and again after the stream.
ModelAnswers_Stores(c) ==
    /\ chat[c] = "model"
    /\ FinishExecution(c, "completed")
    /\ Say("assistant", c)
    /\ chat' = [chat EXCEPT ![c] = "stream"]
    /\ UNCHANGED <<agent, minors, editor, chatLosses>>
ModelAnswers(c) ==
    /\ chat[c] = "model"
    /\ FinishExecution(c, "completed")
    /\ chat' = [chat EXCEPT ![c] = "stream"]
    /\ UNCHANGED <<agent, minors, editor, messages, chatLosses>>

ModelFails(c) ==
    /\ chat[c] = "model"
    /\ FinishExecution(c, "failed")
    /\ chat' = [chat EXCEPT ![c] = "over"]
    /\ UNCHANGED <<agent, minors, editor, messages, chatLosses>>

StoreAnswer(c) ==
    /\ chat[c] = "stream"
    /\ Say("assistant", c)
    /\ chat' = [chat EXCEPT ![c] = "over"]
    /\ UNCHANGED <<agent, minors, editor, execution, told, chatLosses>>

\* A reader who goes away ends the generator: the answer is not stored.
ReaderLeaves(c) ==
    /\ chat[c] = "stream"
    /\ chat' = [chat EXCEPT ![c] = "over"]
    /\ UNCHANGED <<agent, minors, editor, execution, messages, told, chatLosses>>

\* A crash, or a database error the handler cannot record on the same session.
LoseChat(c) ==
    /\ chat[c] \in {"open", "retrieve", "model", "stream"} /\ chatLosses < MaxChatLosses
    /\ chat' = [chat EXCEPT ![c] = "over"]
    /\ chatLosses' = chatLosses + 1
    /\ UNCHANGED <<agent, minors, editor, execution, messages, told>>

-----------------------------------------------------------------------------
ChatStep(c) == AskQuestion(c) \/ Retrieve(c) \/ ModelAnswers(c) \/ StoreAnswer(c)
ChatEnds(c) == RetrievalFails(c) \/ ModelFails(c)

ChatNext ==
    \/ \E e \in Editors :
          \/ \E op \in {"version", "publish", "archive"} : LoadAgent(e, op)
          \/ CreateAgentVersion(e)
          \/ \E m \in minors : Publish(e, m)
          \/ Archive(e)
    \/ \E c \in Chats : OpenChat(c) \/ ChatStep(c) \/ ChatEnds(c) \/ ReaderLeaves(c) \/ LoseChat(c)

ChatSpec == ChatInit /\ [][ChatNext]_chatVars

\* A request that is not lost goes on; retrieval and the model have timeouts.
ChatFairness == \A c \in Chats : WF_chatVars(ChatStep(c) \/ ChatEnds(c))

-----------------------------------------------------------------------------
(* "An archived agent may not be published" (services/agent/service.py:95):
   the only way back is a publish that read the agent while it was a draft. *)
OnlyDraftsComeBack ==
    [][(agent.status = "archived" /\ agent'.status # "archived")
          => \E e \in Editors : /\ editor[e].op = "publish" /\ editor'[e] = NoEdit
                                /\ editor[e].copy.status = "draft"]_chatVars

(* Overlapping chats share a session and a history: an answer still comes once,
   after its own question, and of an execution that was reported completed;
   whatever ended is told once, as it ended (chat.py:100-143). *)
ConversationIsAccounted ==
    \A c \in Chats :
        LET at(role) == {i \in DOMAIN messages : messages[i] = <<role, c>>}
        IN /\ Cardinality(at("assistant")) <= Cardinality(at("user"))
           /\ \A i \in at("assistant") : /\ \E j \in at("user") : j < i
                                         /\ "completed" \in told[c] /\ execution[c] = "completed"
           /\ Ended(c) <=> told[c] \cap {"completed", "failed"} = {execution[c]}

(* No execution is left running unless its request was lost. *)
ChatsEnd == \A c \in Chats : (execution[c] = "running") ~> (Ended(c) \/ chatLosses > 0)
=============================================================================
