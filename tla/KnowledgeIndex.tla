--------------------------- MODULE KnowledgeIndex ---------------------------
(***************************************************************************)
(* One knowledge document: its versions, their chunks and the vectors of   *)
(* the chunks (services/knowledge/ingestion.py, vector_indexing.py,        *)
(* retrieval.py, vector_retrieval.py, hybrid_service.py, registry.py).     *)
(* An ingestion replaces the chunks in one transaction that holds the      *)
(* version's row; indexing then runs in transactions of its own, one per   *)
(* batch of embeddings, and nothing keeps the chunks still meanwhile.      *)
(* The pgvector provider is configured; a batch is one chunk.              *)
(***************************************************************************)
EXTENDS Naturals, FiniteSets, FiniteSetsExt

CONSTANTS
    Versions,   \* versions of the document
    Tasks,      \* slots for requests that overlap
    MaxCuts,    \* bound: how often the document is cut into chunks
    CutSize,    \* most chunks of one cut
    TopK,       \* how many nearest vectors a search asks for
    MaxLosses   \* bound: how many requests are lost with their process

ASSUME KnowledgeBounds == MaxCuts \in Nat /\ CutSize \in Nat /\ TopK \in Nat /\ MaxLosses \in Nat

VARIABLES
    document,   \* its status, "gone" after it was deleted
    version,    \* the row of each version
    chunks,     \* chunks of each version: the cut they come from, their index
    vectors,    \* chunks that have a vector: <<version, cut, index>>
    task,       \* the ingestion, rebuild or retrieval in each slot
    cuts,       \* cuts made so far
    losses,     \* requests lost so far
    refused     \* whether a provider has ever refused an embedding

knowledgeVars == <<document, version, chunks, vectors, task, cuts, losses, refused>>

NoRow == [ingestion |-> "none", vector |-> "none"]
NoTask == [step |-> "free"]

ChunkOf(x) == <<x[2], x[3]>>
Stored(v, cs) == {<<v, c[1], c[2]>> : c \in cs}
VersionExists(v) == version[v] # NoRow

KnowledgeInit ==
    /\ document = "active"
    /\ version = [v \in Versions |-> NoRow]
    /\ chunks = [v \in Versions |-> {}]
    /\ vectors = {}
    /\ task = [k \in Tasks |-> NoTask]
    /\ cuts = 0 /\ losses = 0 /\ refused = FALSE

At(k, step) == task[k].step = step
Goto(k, step) == task' = [task EXCEPT ![k].step = step]
Indexing(k) == task[k].step \in {"begin", "load", "embed", "refused", "broken", "spoil"}
Finish(k) == task' = [task EXCEPT ![k] = NoTask]

-----------------------------------------------------------------------------
(* The registry: versions never change their text, the document's status is
   set freely, deleting it takes everything with it and fails what runs. *)
CreateVersion(v) ==
    /\ document # "gone" /\ ~VersionExists(v)
    /\ version' = [version EXCEPT ![v] = [ingestion |-> "pending", vector |-> "pending"]]
    /\ UNCHANGED <<document, chunks, vectors, task, cuts, losses, refused>>

SetDocumentStatus(s) ==
    /\ document \notin {s, "gone"}
    /\ document' = s
    /\ UNCHANGED <<version, chunks, vectors, task, cuts, losses, refused>>

DeleteDocument ==
    /\ document # "gone"
    /\ document' = "gone"
    /\ version' = [v \in Versions |-> NoRow]
    /\ chunks' = [v \in Versions |-> {}]
    /\ vectors' = {}
    /\ task' = [k \in Tasks |-> NoTask]
    /\ UNCHANGED <<cuts, losses, refused>>

-----------------------------------------------------------------------------
(* Ingestion.  The row is locked from the first flush to the commit; deleting
   a chunk deletes its vector (ON DELETE CASCADE). *)
NewChunks(n) == {cuts + 1} \X (1..n)
Ingest(k, v, n) ==
    /\ task[k] = NoTask /\ VersionExists(v) /\ cuts < MaxCuts
    /\ chunks' = [chunks EXCEPT ![v] = NewChunks(n)]
    /\ vectors' = {x \in vectors : x[1] # v}
    /\ version' = [version EXCEPT ![v].ingestion = "ready"]
    /\ cuts' = cuts + 1
    /\ task' = [task EXCEPT ![k] = [step |-> "begin", op |-> "ingest", version |-> v,
                                    copy |-> version[v].vector, todo |-> {}]]
    /\ UNCHANGED <<document, losses, refused>>

\* No text to ingest, or the database refuses: rolled back, then marked.
IngestFails(v) ==
    /\ VersionExists(v) /\ version[v].ingestion # "failed"
    /\ version' = [version EXCEPT ![v].ingestion = "failed"]
    /\ UNCHANGED <<document, chunks, vectors, task, cuts, losses, refused>>

-----------------------------------------------------------------------------
(* Indexing, after an ingestion or on request. *)
Rebuild(k, v) ==
    /\ task[k] = NoTask /\ VersionExists(v)
    /\ task' = [task EXCEPT ![k] = [step |-> "begin", op |-> "rebuild", version |-> v,
                                    copy |-> version[v].vector, todo |-> {}]]
    /\ UNCHANGED <<document, version, chunks, vectors, cuts, losses, refused>>

\* Mutant: a version already indexed is skipped.
BeginIndex_SkipIndexed(k) ==
    /\ At(k, "begin")
    /\ IF task[k].copy = "ready" THEN Finish(k) ELSE Goto(k, "load")
    /\ version' = IF task[k].copy \in {"processing", "ready"} THEN version
                  ELSE [version EXCEPT ![task[k].version].vector = "processing"]
    /\ UNCHANGED <<document, chunks, vectors, cuts, losses, refused>>
\* A copy that already says "processing" writes no change.
BeginIndex(k) ==
    /\ At(k, "begin") /\ Goto(k, "load")
    /\ version' = IF task[k].copy = "processing" THEN version
                  ELSE [version EXCEPT ![task[k].version].vector = "processing"]
    /\ UNCHANGED <<document, chunks, vectors, cuts, losses, refused>>

LoadChunks(k) ==
    /\ At(k, "load")
    /\ task' = [task EXCEPT ![k].step = "embed", ![k].todo = chunks[task[k].version]]
    /\ UNCHANGED <<document, version, chunks, vectors, cuts, losses, refused>>

FirstOf(cs) == CHOOSE c \in cs : \A d \in cs : c[2] <= d[2]

\* A chunk that is no more breaks the vector's foreign key: not a provider's error.
UpsertBatch(k) ==
    LET v == task[k].version
        c == FirstOf(task[k].todo)
    IN /\ At(k, "embed") /\ task[k].todo # {}
       /\ IF c \in chunks[v]
          THEN /\ vectors' = vectors \cup Stored(v, {c})
               /\ task' = [task EXCEPT ![k].todo = @ \ {c}]
          ELSE /\ Goto(k, "broken")
               /\ UNCHANGED vectors
       /\ UNCHANGED <<document, version, chunks, cuts, losses, refused>>

ProviderFails(k) ==
    /\ At(k, "embed") /\ task[k].todo # {}
    /\ Goto(k, "refused") /\ refused' = TRUE
    /\ UNCHANGED <<document, version, chunks, vectors, cuts, losses>>

IndexReady(k) ==
    /\ At(k, "embed") /\ task[k].todo = {}
    /\ version' = [version EXCEPT ![task[k].version].vector = "ready"]
    /\ Finish(k)
    /\ UNCHANGED <<document, chunks, vectors, cuts, losses, refused>>

\* Any other error than the provider's travels on to the ingestion.
\* Mutant: a provider's error is answered without marking the version.
IndexFailed_Unmarked(k) ==
    /\ At(k, "refused") \/ At(k, "broken")
    /\ version' = IF At(k, "refused") THEN version
                  ELSE [version EXCEPT ![task[k].version].vector = "failed"]
    /\ IF At(k, "broken") /\ task[k].op = "ingest" THEN Goto(k, "spoil") ELSE Finish(k)
    /\ UNCHANGED <<document, chunks, vectors, cuts, losses, refused>>
IndexFailed(k) ==
    /\ At(k, "refused") \/ At(k, "broken")
    /\ version' = [version EXCEPT ![task[k].version].vector = "failed"]
    /\ IF At(k, "broken") /\ task[k].op = "ingest" THEN Goto(k, "spoil") ELSE Finish(k)
    /\ UNCHANGED <<document, chunks, vectors, cuts, losses, refused>>

SpoilIngestion(k) ==
    /\ At(k, "spoil")
    /\ version' = [version EXCEPT ![task[k].version].ingestion = "failed"]
    /\ Finish(k)
    /\ UNCHANGED <<document, chunks, vectors, cuts, losses, refused>>

\* A crash: a search has nothing to lose.
LoseTask(k) ==
    /\ Indexing(k) /\ losses < MaxLosses
    /\ losses' = losses + 1
    /\ Finish(k)
    /\ UNCHANGED <<document, version, chunks, vectors, cuts, refused>>

-----------------------------------------------------------------------------
(* Retrieval.  One statement finds the chunks word by word; the vector table
   is searched first, without a look at the rows it belongs to, and what it
   names is then read. *)
Served(v) == document = "active" /\ version[v].ingestion = "ready"
LexicalFound == UNION {Stored(v, chunks[v]) : v \in {u \in Versions : Served(u)}}
Hydrated(near) == {x \in near : /\ ChunkOf(x) \in chunks[x[1]]
                                /\ Served(x[1]) /\ version[x[1]].vector = "ready"}
Nearest == IF Cardinality(vectors) <= TopK THEN {vectors} ELSE kSubset(TopK, vectors)

ReadWords(k) ==
    /\ task[k] = NoTask
    /\ task' = [task EXCEPT ![k] = [step |-> "words", words |-> LexicalFound]]
    /\ UNCHANGED <<document, version, chunks, vectors, cuts, losses, refused>>

SearchVectors(k) ==
    /\ task[k] = NoTask \/ At(k, "words")
    /\ \E near \in Nearest :
          task' = [task EXCEPT ![k] = [step |-> "hydrate", near |-> near,
                                       words |-> IF At(k, "words") THEN task[k].words ELSE {}]]
    /\ UNCHANGED <<document, version, chunks, vectors, cuts, losses, refused>>

\* Without a provider the search fails; a vector search may answer by words.
SearchFails(k) ==
    /\ At(k, "words")
    /\ Finish(k)
    /\ UNCHANGED <<document, version, chunks, vectors, cuts, losses, refused>>

\* A hybrid search adds the words' results it read before.
Answer(k) == Hydrated(task[k].near) \cup task[k].words
HydrateAndFuse(k) ==
    /\ At(k, "hydrate")
    /\ Finish(k)
    /\ UNCHANGED <<document, version, chunks, vectors, cuts, losses, refused>>

-----------------------------------------------------------------------------
IndexStep(k) == BeginIndex(k) \/ LoadChunks(k) \/ UpsertBatch(k) \/ IndexReady(k)
                \/ IndexFailed(k) \/ SpoilIngestion(k)

\* What the router lets a client do to the document.
DocumentRequests ==
    \/ \E v \in Versions : CreateVersion(v)
    \/ \E s \in {"active", "disabled"} : SetDocumentStatus(s)
    \/ DeleteDocument
    \/ \E k \in Tasks, v \in Versions : Rebuild(k, v)

KnowledgeNext ==
    \/ DocumentRequests
    \/ \E k \in Tasks, v \in Versions, n \in 1..CutSize : Ingest(k, v, n)
    \/ \E v \in Versions : IngestFails(v)
    \/ \E k \in Tasks : IndexStep(k) \/ ProviderFails(k) \/ LoseTask(k)
    \/ \E k \in Tasks : ReadWords(k) \/ SearchVectors(k) \/ SearchFails(k) \/ HydrateAndFuse(k)

KnowledgeSpec == KnowledgeInit /\ [][KnowledgeNext]_knowledgeVars

\* A request that is not lost with its process goes on.
KnowledgeFairness == \A k \in Tasks : WF_knowledgeVars(IndexStep(k))

-----------------------------------------------------------------------------
(* However ingestions and rebuilds overlap, once the last of them has ended an
   index called ready has a vector for every chunk and for no other, unless a
   request was lost or an embedding refused (vector_indexing.py:81-104). *)
QuietIndexIsWhole ==
    ((\A k \in Tasks : ~Indexing(k)) /\ losses = 0 /\ ~refused) =>
        \A v \in Versions : version[v].vector = "ready" =>
            {x \in vectors : x[1] = v} = Stored(v, chunks[v])

(* No version stays half indexed when no request is lost: whoever began ends
   it as ready or failed, whatever the other requests wrote meanwhile. *)
IndexingSettles ==
    \A v \in Versions : (version[v].vector = "processing") ~> (version[v].vector # "processing" \/ losses > 0)

(* "Chunk ingestion and vector indexing are separate stages that fail and are
   retried independently" (docs/02-phases/PHASE_1_4.md:64): an ingested version
   stays so whatever happens to its index. *)
IndexingFailsAlone ==
    [][\A v \in Versions :
          (version[v].ingestion = "ready" /\ version'[v].ingestion = "failed")
              => IngestFails(v)]_knowledgeVars
=============================================================================
