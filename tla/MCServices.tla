----------------------------- MODULE MCServices -----------------------------
(* Three services that share no row with each other, one to a behaviour:    *)
(* which one moves is chosen at the start and the other two stand still.    *)
EXTENDS KnowledgeIndex, AgentChat, WorkflowRegistry

VARIABLE scene

servicesVars == <<knowledgeVars, chatVars, registryVars, scene>>

MCInit ==
    /\ KnowledgeInit /\ ChatInit /\ RegistryInit
    /\ scene \in {"knowledge", "chat", "registry"}

MCNext ==
    \/ /\ scene = "knowledge" /\ KnowledgeNext
       /\ UNCHANGED <<chatVars, registryVars, scene>>
    \/ /\ scene = "chat" /\ ChatNext
       /\ UNCHANGED <<knowledgeVars, registryVars, scene>>
    \/ /\ scene = "registry" /\ RegistryNext
       /\ UNCHANGED <<knowledgeVars, chatVars, scene>>

MCSpec == MCInit /\ [][MCNext]_servicesVars /\ KnowledgeFairness /\ ChatFairness
=============================================================================
