--------------------------- MODULE Services_proofs ---------------------------
(***************************************************************************)
(* Proofs about the services around the executions, for any number of      *)
(* requests, versions, tasks and chats: WorkflowRegistry, AgentChat and    *)
(* KnowledgeIndex, which share no variable.                                *)
(***************************************************************************)
EXTENDS WorkflowRegistry, AgentChat, KnowledgeIndex, SequenceTheorems, FiniteSetTheorems,
        WellFoundedInduction, TLAPS

-----------------------------------------------------------------------------
(* The registry. *)

Slotted == DOMAIN request = Requests

(* Every request keeps its place in the function of requests. *)
LEMMA SlottedStep == Slotted /\ [RegistryNext]_registryVars => Slotted'
BY DEF Slotted, RegistryNext, registryVars, WorkflowRequests, VersionRequests, TriggerRequests, LoadWorkflow,
       LoadVersion, LoadTrigger, PublishVersion, DeleteWorkflow, UpdateTrigger, Release, CreateWorkflowVersion,
       CreateTrigger, DeleteTrigger

(* It has one at all times. *)
LEMMA SlottedAlways == RegistrySpec => []Slotted
<1>1. RegistryInit => Slotted
  BY DEF RegistryInit, Slotted
<1>. QED  BY <1>1, SlottedStep, PTL DEF RegistrySpec

(* Publishing from fresh rows leaves one published version. *)
LEMMA FreshPublish ==
    ASSUME OneIsPublished, NEW r \in Requests, PublishVersion(r), ~Stale(r)
    PROVE  OneIsPublished' /\ (workflow.status = "published" => workflow'.status # "gone")
<1>. DEFINE q == request[r]
<1>1. CASE ~(Here /\ MayPublish(q))
  BY <1>1 DEF PublishVersion, OneIsPublished, Published
<1>2. CASE Here /\ MayPublish(q)
  <2>1. q.op = "publish" /\ q.copy = workflow /\ q.seen = versionStatus[q.version]
    BY DEF PublishVersion, Stale
  <2>2. q.version \in WorkflowVersions
    BY <1>2, RegistryBounds DEF MayPublish
  <2>3. workflow' = [status |-> "published", published |-> q.version]
    BY <1>2, <2>1 DEF PublishVersion, Changed
  <2>4. versionStatus' = [v \in WorkflowVersions |->
                            IF v = q.version THEN "published"
                            ELSE IF v = workflow.published /\ versionStatus[v] = "published" THEN "deprecated"
                            ELSE versionStatus[v]]
    BY <1>2, <2>1 DEF PublishVersion, StatusesAfter, Changed
  <2>5. \A v \in WorkflowVersions \ {q.version} : versionStatus'[v] # "published"
    BY <2>4 DEF OneIsPublished, Published
  <2>. QED  BY <2>2, <2>3, <2>4, <2>5 DEF OneIsPublished, Published
<1>. QED  BY <1>1, <1>2

(* Publishing from fresh rows leaves one published version and deleting    *)
(* from a fresh row spares a published workflow (publish_version and       *)
(* delete of services/workflow/registry.py).                               *)
THEOREM PublishingBreaksByStaleCopiesOnly == RegistrySpec => OnlyStaleCopiesBreakPublishing
<1>1. Slotted /\ [RegistryNext]_registryVars =>
        [(OneIsPublished /\ ~OneIsPublished') \/ (workflow.status = "published" /\ workflow'.status = "gone")
          => \E r \in Requests : /\ request[r].op \in {"publish", "delete"} /\ Free(r)'
                                 /\ Stale(r)]_registryVars
  <2>. DEFINE Culprit == \E r \in Requests : request[r].op \in {"publish", "delete"} /\ Free(r)' /\ Stale(r)
  <2>. SUFFICES ASSUME Slotted, RegistryNext,
                       \/ OneIsPublished /\ ~OneIsPublished'
                       \/ workflow.status = "published" /\ workflow'.status = "gone"
                PROVE  Culprit
    BY DEF registryVars
  <2>1. ASSUME NEW r \in Requests, PublishVersion(r) PROVE Culprit
    <3>1. request[r].op = "publish" /\ Free(r)'
      BY <2>1 DEF PublishVersion, Release, Free, Slotted
    <3>2. CASE Stale(r)
      BY <3>1, <3>2
    <3>3. CASE ~Stale(r)
      <4>1. workflow.status = "published" => workflow'.status # "gone"
        BY <2>1, <3>3, <3>1 DEF PublishVersion, Changed, Stale
      <4>. QED  BY <2>1, <3>3, <4>1, FreshPublish
    <3>. QED  BY <3>2, <3>3
  <2>2. ASSUME NEW r \in Requests, DeleteWorkflow(r) PROVE Culprit
    <3>1. request[r].op = "delete" /\ Free(r)'
      BY <2>2 DEF DeleteWorkflow, Release, Free, Slotted
    <3>2. CASE request[r].copy.status = "published"
      BY <2>2, <3>2 DEF DeleteWorkflow, OneIsPublished, Published
    <3>3. CASE request[r].copy.status # "published"
      <4>1. OneIsPublished' /\ workflow'.status = "gone"
        BY <2>2, <3>3 DEF DeleteWorkflow, OneIsPublished, Published
      <4>2. workflow.status = "published"
        BY <4>1
      <4>. QED  BY <3>1, <3>3, <4>2 DEF Stale
    <3>. QED  BY <3>2, <3>3
  <2>3. ASSUME UNCHANGED <<workflow, versionStatus>> PROVE Culprit
    BY <2>3 DEF OneIsPublished, Published
  <2>4. ASSUME NEW v \in WorkflowVersions, CreateWorkflowVersion(v) PROVE Culprit
    <3>1. UNCHANGED workflow /\ versionStatus[v] = "none"
      BY <2>4 DEF CreateWorkflowVersion
    <3>2. \A u \in WorkflowVersions : versionStatus'[u] = "published" <=> versionStatus[u] = "published"
      BY <2>4, <3>1 DEF CreateWorkflowVersion
    <3>. QED  BY <3>1, <3>2 DEF OneIsPublished, Published
  <2>5. ASSUME NEW r \in Requests, WorkflowRequests(r) \/ VersionRequests(r) \/ TriggerRequests(r)
        PROVE  Culprit
    BY <2>1, <2>2, <2>3, <2>5 DEF WorkflowRequests, VersionRequests, TriggerRequests, LoadWorkflow, LoadVersion,
                                  LoadTrigger, UpdateTrigger
  <2>. QED  BY <2>3, <2>4, <2>5 DEF RegistryNext, CreateTrigger, DeleteTrigger
<1>. QED  BY <1>1, SlottedAlways, PTL DEF RegistrySpec, OnlyStaleCopiesBreakPublishing

(* A trigger and its schedule part only by an update that read the trigger *)
(* before its status was changed (_sync_scheduler_state).                  *)
THEOREM SchedulesDriftByStaleCopiesOnly == RegistrySpec => SchedulesDriftOnlyByStaleCopies
<1>1. Slotted /\ [RegistryNext]_registryVars =>
        [(trigger = schedule /\ trigger' # schedule')
          => \E r \in Requests : /\ request[r].op = "trigger" /\ Free(r)'
                                 /\ request[r].seen # trigger]_registryVars
  <2>. DEFINE Culprit == \E r \in Requests : request[r].op = "trigger" /\ Free(r)' /\ request[r].seen # trigger
  <2>. SUFFICES ASSUME Slotted, RegistryNext, trigger = schedule, trigger' # schedule' PROVE Culprit
    BY DEF registryVars
  <2>1. ASSUME NEW r \in Requests, NEW s, UpdateTrigger(r, s) PROVE Culprit
    BY <2>1 DEF UpdateTrigger, Release, Free, Changed, SyncSchedulerState, Slotted
  <2>2. ASSUME NEW r \in Requests, WorkflowRequests(r) \/ VersionRequests(r) \/ LoadTrigger(r) PROVE Culprit
    BY <2>2 DEF WorkflowRequests, VersionRequests, LoadWorkflow, DeleteWorkflow, LoadVersion, PublishVersion,
                LoadTrigger
  <2>3. CASE CreateTrigger \/ DeleteTrigger \/ \E v \in WorkflowVersions : CreateWorkflowVersion(v)
    BY <2>3 DEF CreateTrigger, DeleteTrigger, CreateWorkflowVersion
  <2>. QED  BY <2>1, <2>2, <2>3 DEF RegistryNext, TriggerRequests
<1>. QED  BY <1>1, SlottedAlways, PTL DEF RegistrySpec, SchedulesDriftOnlyByStaleCopies

-----------------------------------------------------------------------------
(* An agent and its chats. *)

AgentStatuses == {"draft", "published", "archived"}

EditorInv == /\ agent.status \in AgentStatuses
             /\ DOMAIN editor = Editors
             /\ \A e \in Editors : editor[e].op \in {"version", "publish", "archive"}
                                      => editor[e].copy.status \in AgentStatuses

(* An editor keeps the copy it read. *)
LEMMA EditorStep == EditorInv /\ [ChatNext]_chatVars => EditorInv'
<1>. SUFFICES ASSUME EditorInv, [ChatNext]_chatVars PROVE EditorInv'
  OBVIOUS
<1>. USE DEF EditorInv, AgentStatuses
<1>1. ASSUME NEW e \in Editors, NEW op \in {"version", "publish", "archive"}, LoadAgent(e, op) PROVE EditorInv'
  BY <1>1 DEF LoadAgent
<1>2. ASSUME NEW e \in Editors, CreateAgentVersion(e) PROVE EditorInv'
  BY <1>2 DEF CreateAgentVersion, NoEdit
<1>3. ASSUME NEW e \in Editors, NEW m \in minors, Publish(e, m) PROVE EditorInv'
  BY <1>3 DEF Publish, Written, NoEdit
<1>4. ASSUME NEW e \in Editors, Archive(e) PROVE EditorInv'
  BY <1>4 DEF Archive, NoEdit
<1>5. ASSUME UNCHANGED <<agent, editor>> PROVE EditorInv'
  BY <1>5
<1>6. ASSUME NEW c \in Chats, OpenChat(c) \/ ChatStep(c) \/ ChatEnds(c) \/ ReaderLeaves(c) \/ LoseChat(c)
      PROVE  EditorInv'
  BY <1>5, <1>6 DEF OpenChat, ChatStep, ChatEnds, ReaderLeaves, LoseChat, AskQuestion, Retrieve, ModelAnswers,
                    StoreAnswer, RetrievalFails, ModelFails
<1>. QED  BY <1>1, <1>2, <1>3, <1>4, <1>5, <1>6 DEF ChatNext, chatVars

(* An archived agent leaves the archive only by a publish that read it as  *)
(* a draft (publish of services/agent/service.py refuses an archived copy).*)
THEOREM ArchivedAgentsStay == ChatSpec => OnlyDraftsComeBack
<1>1. ChatInit => EditorInv
  BY DEF ChatInit, EditorInv, CreateAgent, NoEdit, AgentStatuses
<1>2. EditorInv /\ [ChatNext]_chatVars =>
        [(agent.status = "archived" /\ agent'.status # "archived")
          => \E e \in Editors : /\ editor[e].op = "publish" /\ editor'[e] = NoEdit
                                /\ editor[e].copy.status = "draft"]_chatVars
  <2>. SUFFICES ASSUME EditorInv, ChatNext, agent.status = "archived", agent'.status # "archived"
                PROVE  \E e \in Editors : /\ editor[e].op = "publish" /\ editor'[e] = NoEdit
                                          /\ editor[e].copy.status = "draft"
    BY DEF chatVars
  <2>1. PICK e \in Editors, m \in minors : Publish(e, m)
    <3>1. ASSUME NEW e \in Editors, Archive(e) PROVE FALSE
      BY <3>1 DEF Archive
    <3>2. agent' # agent
      OBVIOUS
    <3>. QED  BY <3>1, <3>2 DEF ChatNext, LoadAgent, CreateAgentVersion, OpenChat, ChatStep, ChatEnds, ReaderLeaves,
                  LoseChat, AskQuestion, Retrieve, ModelAnswers, StoreAnswer, RetrievalFails, ModelFails
  <2>2. editor[e].op = "publish" /\ editor'[e] = NoEdit /\ editor[e].copy.status # "archived"
    BY <2>1 DEF Publish, EditorInv
  <2>3. editor[e].copy.status # "published"
    BY <2>1 DEF Publish, Written
  <2>. QED  BY <2>2, <2>3 DEF EditorInv, AgentStatuses
<1>. QED  BY <1>1, <1>2, EditorStep, PTL DEF ChatSpec, OnlyDraftsComeBack

\* Where the session has a message of a chat.
Said(role, c) == {i \in DOMAIN messages : messages[i] = <<role, c>>}

\* What is stored of a chat before its question, after it, and once it has ended.
AskedOnce(c) == \E i \in Nat : Said("user", c) = {i}
Unheard(c) == /\ Said("user", c) = {} /\ Said("assistant", c) = {}
              /\ execution[c] = "none" /\ told[c] = {}
Asking(c) == /\ AskedOnce(c) /\ Said("assistant", c) = {}
             /\ execution[c] = "running" /\ told[c] = {"started"}
EndedAs(c, status) == /\ AskedOnce(c) /\ Said("assistant", c) = {}
                      /\ execution[c] = status /\ told[c] = {"started", status}
Answered(c) == /\ \E i, j \in Nat : Said("user", c) = {i} /\ Said("assistant", c) = {j} /\ i < j
               /\ execution[c] = "completed" /\ told[c] = {"started", "completed"}

ChatFacts(c) ==
    /\ chat[c] \in {"new", "open"} => Unheard(c)
    /\ chat[c] \in {"retrieve", "model"} => Asking(c)
    /\ chat[c] = "stream" => EndedAs(c, "completed")
    /\ chat[c] = "over" => Unheard(c) \/ Asking(c) \/ EndedAs(c, "completed") \/ EndedAs(c, "failed") \/ Answered(c)

Steps == {"new", "open", "retrieve", "model", "stream", "over"}

ConversationInv ==
    /\ messages \in Seq({"user", "assistant"} \X Chats)
    /\ chat \in [Chats -> Steps] /\ DOMAIN execution = Chats /\ DOMAIN told = Chats
    /\ \A c \in Chats : ChatFacts(c)

(* A message is new to its own chat and role only, and comes last. *)
LEMMA SayIt ==
    ASSUME ConversationInv, NEW c \in Chats, NEW role \in {"user", "assistant"}, Say(role, c)
    PROVE  /\ messages' \in Seq({"user", "assistant"} \X Chats)
           /\ Len(messages) + 1 \in Nat
           /\ Said(role, c)' = Said(role, c) \cup {Len(messages) + 1}
           /\ \A i \in Said("user", c) \cup Said("assistant", c) : i < Len(messages) + 1
           /\ \A other, d : <<other, d>> # <<role, c>> => Said(other, d)' = Said(other, d)
<1>1. messages \in Seq({"user", "assistant"} \X Chats) /\ Len(messages) \in Nat
  BY DEF ConversationInv
<1>2. /\ messages' \in Seq({"user", "assistant"} \X Chats)
      /\ DOMAIN messages = 1 .. Len(messages) /\ DOMAIN messages' = 1 .. Len(messages) + 1
      /\ \A i \in 1 .. Len(messages) : messages'[i] = messages[i]
      /\ messages'[Len(messages) + 1] = <<role, c>>
  BY <1>1, AppendProperties DEF Say
<1>. QED  BY <1>1, <1>2 DEF Said

(* A chat whose own rows stand still keeps its facts. *)
LEMMA OtherChat ==
    ASSUME NEW d, ChatFacts(d), chat'[d] = chat[d], execution'[d] = execution[d], told'[d] = told[d],
           Said("user", d)' = Said("user", d), Said("assistant", d)' = Said("assistant", d)
    PROVE  ChatFacts(d)'
BY DEF ChatFacts, Unheard, Asking, EndedAs, Answered, AskedOnce

(* Every step keeps the messages in line with the executions. *)
LEMMA ConversationStep == ConversationInv /\ [ChatNext]_chatVars => ConversationInv'
<1>. SUFFICES ASSUME ConversationInv, [ChatNext]_chatVars PROVE ConversationInv'
  OBVIOUS
<1>a. /\ messages \in Seq({"user", "assistant"} \X Chats) /\ chat \in [Chats -> Steps]
      /\ DOMAIN execution = Chats /\ DOMAIN told = Chats /\ \A c \in Chats : ChatFacts(c)
  BY DEF ConversationInv
<1>b. UNCHANGED messages => messages' \in Seq({"user", "assistant"} \X Chats)
                            /\ \A role, d : Said(role, d)' = Said(role, d)
  BY <1>a DEF Said
<1>c. ASSUME NEW c \in Chats, NEW step \in Steps, chat' = [chat EXCEPT ![c] = step],
             messages' \in Seq({"user", "assistant"} \X Chats), DOMAIN execution' = Chats, DOMAIN told' = Chats,
             \A d \in Chats \ {c} : execution'[d] = execution[d] /\ told'[d] = told[d]
                                    /\ Said("user", d)' = Said("user", d) /\ Said("assistant", d)' = Said("assistant", d),
             ChatFacts(c)'
      PROVE  ConversationInv'
  <2>1. \A d \in Chats \ {c} : ChatFacts(d)'
    BY <1>a, <1>c, OtherChat
  <2>. QED  BY <1>a, <1>c, <2>1 DEF ConversationInv
<1>1. ASSUME NEW c \in Chats, AskQuestion(c) PROVE ConversationInv'
  <2>1. Unheard(c) /\ Say("user", c)
    BY <1>1, <1>a DEF AskQuestion, ChatFacts
  <2>2. AskedOnce(c)' /\ Said("assistant", c)' = {}
    BY <2>1, SayIt DEF AskedOnce, Unheard
  <2>3. execution'[c] = "running" /\ told'[c] = {"started"} /\ chat'[c] = "retrieve"
    BY <1>1, <1>a, <2>1 DEF AskQuestion, StartExecution, Tell, Unheard
  <2>4. ChatFacts(c)'
    BY <2>2, <2>3 DEF ChatFacts, Asking
  <2>. QED  BY <1>1, <1>a, <1>c, <2>1, <2>4, SayIt DEF AskQuestion, StartExecution, Tell, Steps
<1>2. ASSUME NEW c \in Chats, StoreAnswer(c) PROVE ConversationInv'
  <2>1. EndedAs(c, "completed") /\ Say("assistant", c)
    BY <1>2, <1>a DEF StoreAnswer, ChatFacts
  <2>2. PICK i \in Nat : Said("user", c) = {i}
    BY <2>1 DEF EndedAs, AskedOnce
  <2>3. Said("user", c)' = {i} /\ Said("assistant", c)' = {Len(messages) + 1} /\ i < Len(messages) + 1
        /\ Len(messages) + 1 \in Nat
    BY <2>1, <2>2, SayIt DEF EndedAs
  <2>4. chat'[c] = "over" /\ UNCHANGED <<execution, told>>
    BY <1>2, <1>a DEF StoreAnswer
  <2>5. ChatFacts(c)'
    BY <2>1, <2>3, <2>4 DEF ChatFacts, Answered, EndedAs
  <2>. QED  BY <1>2, <1>a, <1>c, <2>1, <2>4, <2>5, SayIt DEF StoreAnswer, Steps
<1>3. ASSUME NEW c \in Chats, RetrievalFails(c) \/ ModelFails(c) PROVE ConversationInv'
  <2>1. Asking(c) /\ UNCHANGED messages
    BY <1>3, <1>a DEF RetrievalFails, ModelFails, ChatFacts
  <2>2. execution'[c] = "failed" /\ told'[c] = {"started", "failed"} /\ chat'[c] = "over"
    BY <1>3, <1>a, <2>1 DEF RetrievalFails, ModelFails, FinishExecution, Tell, Asking
  <2>3. ChatFacts(c)'
    BY <1>b, <2>1, <2>2 DEF ChatFacts, EndedAs, Asking, AskedOnce
  <2>. QED  BY <1>3, <1>a, <1>b, <1>c, <2>1, <2>3 DEF RetrievalFails, ModelFails, FinishExecution, Tell, Steps
<1>4. ASSUME NEW c \in Chats, ModelAnswers(c) PROVE ConversationInv'
  <2>1. Asking(c) /\ UNCHANGED messages
    BY <1>4, <1>a DEF ModelAnswers, ChatFacts
  <2>2. execution'[c] = "completed" /\ told'[c] = {"started", "completed"} /\ chat'[c] = "stream"
    BY <1>4, <1>a, <2>1 DEF ModelAnswers, FinishExecution, Tell, Asking
  <2>3. ChatFacts(c)'
    BY <1>b, <2>1, <2>2 DEF ChatFacts, EndedAs, Asking, AskedOnce
  <2>. QED  BY <1>4, <1>a, <1>b, <1>c, <2>1, <2>3 DEF ModelAnswers, FinishExecution, Tell, Steps
<1>5. ASSUME NEW c \in Chats, OpenChat(c) \/ Retrieve(c) \/ ReaderLeaves(c) \/ LoseChat(c) PROVE ConversationInv'
  <2>1. UNCHANGED <<messages, execution, told>>
    BY <1>5 DEF OpenChat, Retrieve, ReaderLeaves, LoseChat
  <2>2. PICK step \in Steps : /\ chat' = [chat EXCEPT ![c] = step]
                              /\ \/ chat[c] = "new" /\ step = "open"
                                 \/ chat[c] = "retrieve" /\ step = "model"
                                 \/ chat[c] \in {"open", "retrieve", "model", "stream"} /\ step = "over"
    BY <1>5 DEF OpenChat, Retrieve, ReaderLeaves, LoseChat, Steps
  <2>3. (Unheard(c) <=> Unheard(c)') /\ (Asking(c) <=> Asking(c)')
        /\ (EndedAs(c, "completed") <=> EndedAs(c, "completed")')
    BY <1>b, <2>1 DEF Unheard, Asking, EndedAs, AskedOnce
  <2>4. ChatFacts(c)'
    BY <1>a, <2>2, <2>3 DEF ChatFacts
  <2>. QED  BY <1>a, <1>b, <1>c, <2>1, <2>2, <2>4
<1>6. ASSUME UNCHANGED <<chat, execution, messages, told>> PROVE ConversationInv'
  <2>1. \A d \in Chats : ChatFacts(d)'
    BY <1>a, <1>b, <1>6, OtherChat
  <2>. QED  BY <1>a, <1>b, <1>6, <2>1 DEF ConversationInv
<1>7. ASSUME NEW e \in Editors, \/ \E op \in {"version", "publish", "archive"} : LoadAgent(e, op)
                                \/ CreateAgentVersion(e) \/ Archive(e)
                                \/ \E m \in minors : Publish(e, m)
      PROVE  ConversationInv'
  BY <1>6, <1>7 DEF LoadAgent, CreateAgentVersion, Archive, Publish
<1>. QED  BY <1>1, <1>2, <1>3, <1>4, <1>5, <1>6, <1>7 DEF ChatNext, ChatStep, ChatEnds, chatVars

(* However chats of a session overlap and whatever is lost: one answer at  *)
(* most, after its question, of a completed execution, told as it ended    *)
(* (the three commits of api/v1/agents/chat.py).                           *)
THEOREM ConversationsAreAccounted == ChatSpec => []ConversationIsAccounted
<1>1. ChatInit => ConversationInv
  <2>. SUFFICES ASSUME ChatInit PROVE ConversationInv
    OBVIOUS
  <2>1. \A c \in Chats : chat[c] = "new" /\ Unheard(c)
    BY DEF ChatInit, Unheard, Said
  <2>. QED  BY <2>1 DEF ChatInit, ConversationInv, ChatFacts, Steps
<1>2. ConversationInv => ConversationIsAccounted
  <2>. SUFFICES ASSUME ConversationInv, NEW c \in Chats
                PROVE  /\ Cardinality(Said("assistant", c)) <= Cardinality(Said("user", c))
                       /\ \A i \in Said("assistant", c) :
                             /\ \E j \in Said("user", c) : j < i
                             /\ "completed" \in told[c] /\ execution[c] = "completed"
                       /\ Ended(c) <=> told[c] \cap {"completed", "failed"} = {execution[c]}
    BY DEF ConversationIsAccounted, Said
  <2>1. Unheard(c) \/ Asking(c) \/ EndedAs(c, "completed") \/ EndedAs(c, "failed") \/ Answered(c)
    BY DEF ConversationInv, ChatFacts, Steps
  <2>2. Cardinality({}) = 0 /\ \A i : Cardinality({i}) = 1
    BY FS_EmptySet, FS_Singleton
  <2>3. CASE Unheard(c)
    BY <2>2, <2>3 DEF Unheard, Ended
  <2>4. CASE Asking(c)
    BY <2>2, <2>4 DEF Asking, AskedOnce, Ended
  <2>5. ASSUME NEW status \in {"completed", "failed"}, EndedAs(c, status)
        PROVE  /\ Cardinality(Said("assistant", c)) <= Cardinality(Said("user", c))
               /\ Said("assistant", c) = {}
               /\ Ended(c) /\ told[c] \cap {"completed", "failed"} = {execution[c]}
    <3>1. PICK i \in Nat : Said("user", c) = {i}
      BY <2>5 DEF EndedAs, AskedOnce
    <3>2. Said("assistant", c) = {} /\ execution[c] = status /\ told[c] = {"started", status}
      BY <2>5 DEF EndedAs
    <3>3. Cardinality(Said("assistant", c)) <= Cardinality(Said("user", c))
      <4>1. Cardinality({i}) = 1 /\ Cardinality({}) = 0
        BY FS_Singleton, FS_EmptySet
      <4>. QED  BY <3>1, <3>2, <4>1
    <3>. QED  BY <3>2, <3>3 DEF Ended
  <2>6. CASE Answered(c)
    <3>1. PICK i, j \in Nat : Said("user", c) = {i} /\ Said("assistant", c) = {j} /\ i < j
      BY <2>6 DEF Answered
    <3>2. execution[c] = "completed" /\ told[c] = {"started", "completed"}
      BY <2>6 DEF Answered
    <3>3. Cardinality(Said("assistant", c)) <= Cardinality(Said("user", c))
      <4>1. Cardinality({i}) = 1 /\ Cardinality({j}) = 1
        BY FS_Singleton
      <4>. QED  BY <3>1, <4>1
    <3>. QED  BY <3>1, <3>2, <3>3 DEF Ended
  <2>. QED  BY <2>1, <2>3, <2>4, <2>5, <2>6
<1>. QED  BY <1>1, <1>2, ConversationStep, PTL DEF ChatSpec

-----------------------------------------------------------------------------
(* The index. *)

(* A set of naturals has a least element. *)
LEMMA LeastNat ==
    ASSUME NEW T, T \subseteq Nat, T # {}
    PROVE  \E x \in T : \A y \in T : x <= y
<1>. DEFINE R == {ss \in Nat \X Nat : ss[1] < ss[2]}
<1>1. IsWellFoundedOn(R, Nat)
  BY NatLessThanWellFounded DEF OpToRel
<1>. HIDE DEF R
<1>2. PICK x \in T : \A y \in T : ~ (<<y, x>> \in R)
  BY <1>1, WFMin
<1>3. \A y \in T : ~(y < x)
  BY <1>2 DEF R
<1>. QED  BY <1>2, <1>3

\* A task that began to index a version, with what it still has to embed.
IndexTasks == [step : {"begin", "load", "embed", "refused", "broken", "spoil"}, op : {"ingest", "rebuild"},
               version : Versions, copy : {"none", "pending", "processing", "ready", "failed"},
               todo : SUBSET (Nat \X Nat)]

VectorStatuses == {"none", "pending", "processing", "ready", "failed"}

IndexTypes ==
    /\ cuts \in Nat /\ losses \in Nat
    /\ version \in [Versions -> [ingestion : {"none", "pending", "ready", "failed"}, vector : VectorStatuses]]
    /\ chunks \in [Versions -> SUBSET (Nat \X Nat)]
    /\ DOMAIN task = Tasks
    /\ \A k \in Tasks : task[k] \in IndexTasks \/ task[k].step \in {"free", "words", "hydrate"}

\* The chunks of a version that have no vector.
Missing(v) == {c \in chunks[v] : <<v, c[1], c[2]>> \notin vectors}

\* Vectors belong to chunks: the foreign key.
VectorsHaveChunks == vectors \subseteq UNION {Stored(v, chunks[v]) : v \in Versions}

\* A task that will embed all that a version misses, and nothing that is gone.
Covers(k, v) ==
    /\ task[k] \in IndexTasks /\ task[k].version = v
    /\ \/ task[k].step \in {"begin", "load"}
       \/ task[k].step = "embed" /\ Missing(v) \subseteq task[k].todo /\ task[k].todo \subseteq chunks[v]

Covered == losses = 0 /\ ~refused => \A v \in Versions : Missing(v) = {} \/ \E k \in Tasks : Covers(k, v)

IndexInv == IndexTypes /\ VectorsHaveChunks /\ Covered

(* The first of some chunks is one of them. *)
LEMMA FirstIsOne ==
    ASSUME NEW cs, cs \subseteq Nat \X Nat, cs # {}
    PROVE  FirstOf(cs) \in cs
<1>. DEFINE T == {c[2] : c \in cs}
<1>1. T \subseteq Nat /\ T # {}
  OBVIOUS
<1>2. PICK x \in T : \A y \in T : x <= y
  BY <1>1, LeastNat
<1>3. \E c \in cs : \A d \in cs : c[2] <= d[2]
  BY <1>2
<1>. QED  BY <1>3 DEF FirstOf

(* A task covers a version as long as the version's rows and the task       *)
(* stand still.                                                             *)
LEMMA StillCovered ==
    ASSUME Covered, chunks' = chunks, vectors' = vectors, losses' = losses, refused' = refused,
           \A k \in Tasks : task[k] \in IndexTasks /\ task[k].step \in {"begin", "load", "embed"} => task'[k] = task[k]
    PROVE  Covered'
<1>1. \A v \in Versions : Missing(v)' = Missing(v)
  BY DEF Missing
<1>. QED  BY <1>1 DEF Covered, Covers
(* The types, one case per action. *)
LEMMA IndexTypesStep == IndexTypes /\ [KnowledgeNext]_knowledgeVars => IndexTypes'
<1>. SUFFICES ASSUME IndexTypes, [KnowledgeNext]_knowledgeVars PROVE IndexTypes'
  OBVIOUS
<1>. USE DEF IndexTypes, VectorStatuses
<1>a. ASSUME NEW k \in Tasks, task[k].step \in {"begin", "load", "embed", "refused", "broken", "spoil"}
      PROVE  task[k] \in IndexTasks /\ task[k].version \in Versions
  BY <1>a DEF IndexTasks
<1>1. ASSUME NEW v \in Versions, CreateVersion(v) \/ IngestFails(v) PROVE IndexTypes'
  BY <1>1 DEF CreateVersion, IngestFails
<1>2. CASE DeleteDocument
  BY <1>2 DEF DeleteDocument, NoRow, NoTask
<1>3. ASSUME NEW k \in Tasks, NEW v \in Versions, Rebuild(k, v) PROVE IndexTypes'
  <2>1. [step |-> "begin", op |-> "rebuild", version |-> v, copy |-> version[v].vector, todo |-> {}] \in IndexTasks
    BY DEF IndexTasks
  <2>. QED  BY <1>3, <2>1 DEF Rebuild
<1>4. ASSUME NEW k \in Tasks, NEW v \in Versions, NEW n \in 1..CutSize, Ingest(k, v, n) PROVE IndexTypes'
  <2>1. [step |-> "begin", op |-> "ingest", version |-> v, copy |-> version[v].vector, todo |-> {}] \in IndexTasks
    BY DEF IndexTasks
  <2>2. NewChunks(n) \subseteq Nat \X Nat
    BY KnowledgeBounds DEF NewChunks
  <2>. QED  BY <1>4, <2>1, <2>2 DEF Ingest
<1>5. ASSUME NEW k \in Tasks, BeginIndex(k) \/ LoadChunks(k) \/ IndexReady(k) PROVE IndexTypes'
  BY <1>5, <1>a DEF BeginIndex, LoadChunks, IndexReady, At, Goto, Finish, NoTask, IndexTasks
<1>6. ASSUME NEW k \in Tasks, UpsertBatch(k) PROVE IndexTypes'
  BY <1>6, <1>a DEF UpsertBatch, At, Goto, IndexTasks
<1>7. ASSUME NEW k \in Tasks, IndexFailed(k) \/ SpoilIngestion(k) PROVE IndexTypes'
  BY <1>7, <1>a DEF IndexFailed, SpoilIngestion, At, Goto, Finish, NoTask, IndexTasks
<1>8. ASSUME NEW k \in Tasks, ProviderFails(k) \/ LoseTask(k) PROVE IndexTypes'
  BY <1>8, <1>a DEF ProviderFails, LoseTask, At, Goto, Finish, NoTask, IndexTasks
<1>9. ASSUME NEW k \in Tasks, ReadWords(k) \/ SearchVectors(k) \/ SearchFails(k) \/ HydrateAndFuse(k)
      PROVE  IndexTypes'
  <2>1. UNCHANGED <<version, chunks, cuts, losses>>
    BY <1>9 DEF ReadWords, SearchVectors, SearchFails, HydrateAndFuse
  <2>2. PICK t : task' = [task EXCEPT ![k] = t] /\ t.step \in {"free", "words", "hydrate"}
    BY <1>9 DEF ReadWords, SearchVectors, SearchFails, HydrateAndFuse, Finish, NoTask
  <2>. QED  BY <2>1, <2>2
<1>10. ASSUME NEW s, SetDocumentStatus(s) PROVE IndexTypes'
  BY <1>10 DEF SetDocumentStatus
<1>11. CASE UNCHANGED knowledgeVars
  BY <1>11 DEF knowledgeVars
<1>. QED  BY <1>1, <1>2, <1>3, <1>4, <1>5, <1>6, <1>7, <1>8, <1>9, <1>10, <1>11
          DEF KnowledgeNext, DocumentRequests, IndexStep

(* Vectors are made for chunks that are there, and go with them. *)
LEMMA VectorsStep == IndexTypes /\ VectorsHaveChunks /\ [KnowledgeNext]_knowledgeVars => VectorsHaveChunks'
<1>. SUFFICES ASSUME IndexTypes, VectorsHaveChunks, [KnowledgeNext]_knowledgeVars PROVE VectorsHaveChunks'
  OBVIOUS
<1>. USE DEF VectorsHaveChunks, Stored
<1>1. ASSUME NEW k \in Tasks, UpsertBatch(k) PROVE VectorsHaveChunks'
  <2>1. task[k].version \in Versions
    BY <1>1 DEF UpsertBatch, At, IndexTypes, IndexTasks
  <2>. QED  BY <1>1, <2>1 DEF UpsertBatch
<1>2. ASSUME NEW k \in Tasks, NEW v \in Versions, NEW n \in 1..CutSize, Ingest(k, v, n) PROVE VectorsHaveChunks'
  BY <1>2 DEF Ingest, IndexTypes
<1>3. CASE DeleteDocument
  BY <1>3 DEF DeleteDocument
<1>4. CASE UNCHANGED <<chunks, vectors>>
  BY <1>4
<1>. QED  BY <1>1, <1>2, <1>3, <1>4
          DEF KnowledgeNext, knowledgeVars, DocumentRequests, IndexStep, CreateVersion, SetDocumentStatus, Rebuild,
              IngestFails, BeginIndex, LoadChunks, IndexReady, IndexFailed, SpoilIngestion, ProviderFails, LoseTask,
              ReadWords, SearchVectors, SearchFails, HydrateAndFuse

(* While nothing is lost or refused, what misses a vector is in hand. *)
LEMMA CoveredStep == IndexInv /\ [KnowledgeNext]_knowledgeVars => Covered'
<1>. SUFFICES ASSUME IndexInv, [KnowledgeNext]_knowledgeVars PROVE Covered'
  OBVIOUS
<1>. USE DEF IndexInv
<1>a. ASSUME NEW k \in Tasks, task[k].step \in {"begin", "load", "embed", "refused", "broken", "spoil"}
      PROVE  task[k] \in IndexTasks /\ task[k].version \in Versions
  BY <1>a DEF IndexTasks, IndexTypes
<1>1. ASSUME NEW k \in Tasks, NEW v \in Versions, NEW n \in 1..CutSize, Ingest(k, v, n) PROVE Covered'
  <2>1. Covers(k, v)'
    <3>1. [step |-> "begin", op |-> "ingest", version |-> v, copy |-> version[v].vector, todo |-> {}] \in IndexTasks
      BY DEF IndexTasks, IndexTypes, VectorStatuses
    <3>. QED  BY <1>1, <3>1 DEF Ingest, Covers, IndexTypes
  <2>2. ASSUME NEW u \in Versions \ {v} PROVE Missing(u)' = Missing(u) /\ chunks'[u] = chunks[u]
    BY <1>1 DEF Ingest, Missing, IndexTypes
  <2>3. \A j \in Tasks \ {k} : task'[j] = task[j]
    BY <1>1 DEF Ingest
  <2>4. task[k] \notin IndexTasks /\ UNCHANGED <<losses, refused>>
    BY <1>1 DEF Ingest, NoTask, IndexTasks
  <2>. QED  BY <2>1, <2>2, <2>3, <2>4 DEF Covered, Covers
<1>2. ASSUME NEW k \in Tasks, UpsertBatch(k) PROVE Covered'
  <2>. DEFINE v == task[k].version
              c == FirstOf(task[k].todo)
  <2>1. task[k] \in IndexTasks /\ v \in Versions /\ c \in task[k].todo /\ c \in Nat \X Nat /\ task[k].step = "embed"
    <3>1. task[k] \in IndexTasks /\ v \in Versions /\ task[k].todo # {} /\ task[k].step = "embed"
      BY <1>2, <1>a DEF UpsertBatch, At
    <3>. QED  BY <3>1, FirstIsOne DEF IndexTasks
  <2>. HIDE DEF c
  <2>2. CASE c \in chunks[v]
    <3>1. /\ vectors' = vectors \cup {<<v, c[1], c[2]>>}
          /\ task' = [task EXCEPT ![k].todo = @ \ {c}]
          /\ UNCHANGED <<chunks, losses, refused>>
      BY <1>2, <2>2 DEF UpsertBatch, Stored, c
    <3>2. \A u \in Versions : Missing(u)' \subseteq Missing(u)
      BY <3>1 DEF Missing
    <3>3. Missing(v)' \subseteq Missing(v) \ {c}
      BY <3>1 DEF Missing
    <3>4. \A u \in Versions : Covers(k, u) => Covers(k, u)'
      BY <2>1, <3>1, <3>3 DEF Covers, IndexTasks, IndexTypes
    <3>5. \A j \in Tasks \ {k}, u \in Versions : Covers(j, u) => Covers(j, u)'
      BY <3>1, <3>2 DEF Covers
    <3>. QED  BY <3>1, <3>2, <3>4, <3>5 DEF Covered
  <2>3. CASE c \notin chunks[v]
    <3>1. \A u \in Versions : ~Covers(k, u)
      BY <2>1, <2>3 DEF Covers
    <3>2. UNCHANGED <<chunks, vectors, losses, refused>> /\ \A j \in Tasks \ {k} : task'[j] = task[j]
      BY <1>2, <2>3 DEF UpsertBatch, Goto, c, IndexTypes
    <3>3. \A u \in Versions : Missing(u)' = Missing(u)
      BY <3>2 DEF Missing
    <3>. QED  BY <3>1, <3>2, <3>3 DEF Covered, Covers
  <2>. QED  BY <2>2, <2>3
<1>3. ASSUME NEW k \in Tasks, BeginIndex(k) PROVE Covered'
  <2>1. task[k] \in IndexTasks /\ task[k].step = "begin"
    BY <1>3, <1>a DEF BeginIndex, At
  <2>2. task'[k] \in IndexTasks /\ task'[k].step = "load" /\ task'[k].version = task[k].version
        /\ \A j \in Tasks \ {k} : task'[j] = task[j]
    BY <1>3, <2>1 DEF BeginIndex, Goto, IndexTasks, IndexTypes
  <2>3. UNCHANGED <<chunks, vectors, losses, refused>> /\ \A u \in Versions : Missing(u)' = Missing(u)
    BY <1>3 DEF BeginIndex, Missing
  <2>. QED  BY <2>1, <2>2, <2>3 DEF Covered, Covers
<1>4. ASSUME NEW k \in Tasks, LoadChunks(k) PROVE Covered'
  <2>1. task[k] \in IndexTasks /\ task[k].version \in Versions /\ task[k].step = "load"
    BY <1>4, <1>a DEF LoadChunks, At
  <2>2. /\ task'[k] \in IndexTasks /\ task'[k].step = "embed" /\ task'[k].version = task[k].version
        /\ task'[k].todo = chunks[task[k].version]
        /\ \A j \in Tasks \ {k} : task'[j] = task[j]
    BY <1>4, <2>1 DEF LoadChunks, IndexTasks, IndexTypes
  <2>3. UNCHANGED <<chunks, vectors, losses, refused>> /\ \A u \in Versions : Missing(u)' = Missing(u)
    BY <1>4 DEF LoadChunks, Missing
  <2>4. \A u \in Versions : Missing(u) \subseteq chunks[u]
    BY DEF Missing
  <2>. QED  BY <2>1, <2>2, <2>3, <2>4 DEF Covered, Covers
<1>5. ASSUME NEW k \in Tasks, IndexReady(k) PROVE Covered'
  <2>1. \A u \in Versions : Covers(k, u) => Missing(u) = {}
    BY <1>5 DEF IndexReady, At, Covers
  <2>2. UNCHANGED <<chunks, vectors, losses, refused>> /\ \A j \in Tasks \ {k} : task'[j] = task[j]
    BY <1>5 DEF IndexReady, Finish
  <2>3. \A u \in Versions : Missing(u)' = Missing(u)
    BY <2>2 DEF Missing
  <2>. QED  BY <2>1, <2>2, <2>3 DEF Covered, Covers
<1>6. ASSUME NEW k \in Tasks, ProviderFails(k) \/ LoseTask(k) PROVE Covered'
  BY <1>6 DEF ProviderFails, LoseTask, Covered, IndexTypes
<1>7. CASE DeleteDocument
  BY <1>7 DEF DeleteDocument, Covered, Missing
<1>8. ASSUME UNCHANGED <<chunks, vectors, losses, refused, task>> PROVE Covered'
  BY <1>8, StillCovered
<1>9. ASSUME NEW k \in Tasks, task[k].step \notin {"begin", "load", "embed"},
             UNCHANGED <<chunks, vectors, losses, refused>>, \A j \in Tasks \ {k} : task'[j] = task[j]
      PROVE  Covered'
  BY <1>9, StillCovered
<1>10. ASSUME NEW k \in Tasks, IndexFailed(k) \/ SpoilIngestion(k) \/ ReadWords(k) \/ SearchVectors(k)
                               \/ SearchFails(k) \/ HydrateAndFuse(k) \/ \E v \in Versions : Rebuild(k, v)
       PROVE  Covered'
  <2>1. task[k].step \notin {"begin", "load", "embed"}
    BY <1>10 DEF IndexFailed, SpoilIngestion, ReadWords, SearchVectors, SearchFails, HydrateAndFuse, Rebuild, At, NoTask
  <2>2. UNCHANGED <<chunks, vectors, losses, refused>>
    BY <1>10 DEF IndexFailed, SpoilIngestion, ReadWords, SearchVectors, SearchFails, HydrateAndFuse, Rebuild
  <2>3. \A j \in Tasks \ {k} : task'[j] = task[j]
    BY <1>10 DEF IndexFailed, SpoilIngestion, ReadWords, SearchVectors, SearchFails, HydrateAndFuse, Rebuild, Goto,
                 Finish, IndexTypes
  <2>. QED  BY <1>9, <2>1, <2>2, <2>3
<1>. QED  BY <1>1, <1>2, <1>3, <1>4, <1>5, <1>6, <1>7, <1>8, <1>10
          DEF KnowledgeNext, knowledgeVars, DocumentRequests, IndexStep, CreateVersion, SetDocumentStatus, IngestFails

(* Once nobody indexes any more every chunk has its vector and every       *)
(* vector its chunk, unless a request was lost or an embedding refused     *)
(* (the transactions per batch of vector_indexing.py, over rows that       *)
(* nothing keeps still).                                                   *)
THEOREM QuietIndexesAreWhole == KnowledgeSpec => []QuietIndexIsWhole
<1>1. KnowledgeInit => IndexInv
  BY DEF KnowledgeInit, IndexInv, IndexTypes, VectorStatuses, VectorsHaveChunks, Covered, Missing, NoRow, NoTask
<1>2. IndexInv /\ [KnowledgeNext]_knowledgeVars => IndexInv'
  BY IndexTypesStep, VectorsStep, CoveredStep DEF IndexInv
<1>3. IndexInv => QuietIndexIsWhole
  <2>. SUFFICES ASSUME IndexInv, \A k \in Tasks : ~Indexing(k), losses = 0, ~refused, NEW v \in Versions
                PROVE  {x \in vectors : x[1] = v} = Stored(v, chunks[v])
    BY DEF QuietIndexIsWhole
  <2>1. Missing(v) = {}
    BY DEF IndexInv, Covered, Covers, Indexing
  <2>2. Stored(v, chunks[v]) \subseteq {x \in vectors : x[1] = v}
    BY <2>1 DEF Missing, Stored
  <2>3. {x \in vectors : x[1] = v} \subseteq Stored(v, chunks[v])
    BY DEF IndexInv, VectorsHaveChunks, Stored
  <2>. QED  BY <2>2, <2>3
<1>. QED  BY <1>1, <1>2, <1>3, PTL DEF KnowledgeSpec
==============================================================================
