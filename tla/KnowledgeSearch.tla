-------------------------- MODULE KnowledgeSearch --------------------------
(***************************************************************************)
(* Retrieval over the PostgreSQL knowledge base: the agent's tools         *)
(* (app/steel_agent_gateway.rs), the HTTP interface (app/knowledge_api.rs) *)
(* and the desktop commands plan a search from the saved preferences,      *)
(* embed the query with the default embedding profile, search every        *)
(* selected base in lexical and dense order, rerank, and store the         *)
(* evidence pack the citations refer to                                    *)
(* (app/knowledge_commands/logic.rs, knowledge_db.rs).                     *)
(*                                                                         *)
(* One search is split at its awaits: planning, the choice of the provider,*)
(* the embedding of the query, one statement per base, the reranking and   *)
(* the insertion of the audit row; documents, vectors, profiles and        *)
(* preferences change in between.  A document stands for its active        *)
(* version and that version's chunks.  A vector belongs to the space of    *)
(* the model that made it.  Ranks, limits and the filters on metadata      *)
(* other than the source are left out.                                     *)
(***************************************************************************)
EXTENDS Naturals, FiniteSets

CONSTANTS
    SeDocs,       \* ids of source documents
    SeBases,      \* knowledge bases
    SeSources,    \* what metadata.source or the display name says
    SeModels,     \* embedding models
    SeMaxEdits,   \* changes of documents, vectors, profiles, preferences
    SeMaxSearches \* searches in a behaviour

VARIABLES
    seBases,    \* knowledge bases that are not deleted
    seDocs,     \* source_documents with their active version
    seVectors,  \* chunk_embeddings: NoVector or the base and model stored
    sePrefs,    \* knowledge.preferences
    seProfile,  \* the default embedding profile: its model, "none", "broken"
    search,     \* the search under way
    answer,     \* what the last search returned
    audit,      \* its row of retrieval_audits
    seUsed      \* edits and searches so far

seVars == <<seBases, seDocs, seVectors, sePrefs, seProfile, search, answer,
            audit, seUsed>>

NoVector == [base |-> "none", model |-> "none"]
Absent == [live |-> FALSE, base |-> "none", source |-> "none",
           model |-> "none", lexical |-> FALSE]
NoSearch == [pc |-> "idle", entry |-> "none", left |-> {}, dense |-> FALSE,
             strict |-> FALSE, forbids |-> FALSE, threshold |-> FALSE,
             source |-> "none", hits |-> {}, reason |-> "none",
             steady |-> FALSE, misread |-> FALSE]
NoAnswer == [mode |-> "none", wanted |-> FALSE, degraded |-> FALSE,
             steady |-> FALSE, misread |-> FALSE, evidence |-> {}]
Defaults == [strict |-> FALSE, threshold |-> FALSE]
NoAudit == [form |-> "none", evidence |-> {}]

MayEdit == seUsed.edits < SeMaxEdits
Edited == seUsed' = [seUsed EXCEPT !.edits = @ + 1]

SeInit ==
    /\ seBases = SeBases
    /\ seDocs = [d \in SeDocs |-> Absent]
    /\ seVectors = [d \in SeDocs |-> NoVector]
    /\ sePrefs \in [strict : BOOLEAN, threshold : BOOLEAN]
    /\ seProfile \in SeModels \cup {"none", "broken"}
    /\ search = NoSearch /\ answer = NoAnswer /\ audit = NoAudit
    /\ seUsed = [edits |-> 0, searches |-> 0]

(***************************************************************************)
(* What changes beside a search                                            *)
(***************************************************************************)

\* An import commits an activated version; its embedding then succeeds and
\* seals the manifest with the model that answered, or fails and leaves the
\* version activated and unsealed.
PublishDocument(d, b, s, lexical) ==
    /\ MayEdit /\ ~seDocs[d].live /\ b \in seBases
    /\ \E m \in {"none"} \cup ({seProfile} \cap SeModels) :
          /\ seDocs' = [seDocs EXCEPT ![d] = [live |-> TRUE, base |-> b,
                           source |-> s, model |-> m, lexical |-> lexical]]
          /\ seVectors' = [seVectors EXCEPT ![d] =
                IF m = "none" THEN NoVector ELSE [base |-> b, model |-> m]]
    /\ Edited
    /\ UNCHANGED <<seBases, sePrefs, seProfile, search, answer, audit>>

\* store_postgres_chunk_embeddings takes the model from its caller,
\* embed_postgres_document the one of the profile; both upsert the vectors
\* and leave the model the version was sealed with.
WriteVectors(d, m) ==
    /\ MayEdit /\ seDocs[d].live /\ seDocs[d].base \in seBases
    /\ seVectors' = [seVectors EXCEPT ![d] = [base |-> seDocs[d].base, model |-> m]]
    /\ Edited
    /\ UNCHANGED <<seBases, seDocs, sePrefs, seProfile, search, answer, audit>>

StoreEmbeddings(d, m) == WriteVectors(d, m)

EmbedDocument(d) == seProfile \in SeModels /\ WriteVectors(d, seProfile)

\* Deleting hides the row; the vectors stay.
DeleteFound(d) ==
    /\ MayEdit /\ seDocs[d].live /\ seDocs[d].base \in seBases
    /\ seDocs' = [seDocs EXCEPT ![d].live = FALSE]
    /\ Edited
    /\ UNCHANGED <<seBases, seVectors, sePrefs, seProfile, search, answer, audit>>

\* move_postgres_document changes the document's base, not its vectors'.
MoveFound(d, b) ==
    /\ MayEdit /\ seDocs[d].live /\ {b, seDocs[d].base} \subseteq seBases
    /\ seDocs' = [seDocs EXCEPT ![d].base = b]
    /\ Edited
    /\ UNCHANGED <<seBases, seVectors, sePrefs, seProfile, search, answer, audit>>

\* A base is deleted with its documents.
DropBase(b) ==
    /\ MayEdit /\ b \in seBases
    /\ seBases' = seBases \ {b}
    /\ seDocs' = [d \in SeDocs |-> [seDocs[d] EXCEPT
                     !.live = @ /\ seDocs[d].base # b]]
    /\ Edited
    /\ UNCHANGED <<seVectors, sePrefs, seProfile, search, answer, audit>>

\* The search keeps whether the policy has been strict all along.
SavePreferences(p) ==
    /\ MayEdit /\ p # sePrefs
    /\ sePrefs' = p
    /\ search' = [search EXCEPT !.steady = @ /\ p.strict]
    /\ Edited
    /\ UNCHANGED <<seBases, seDocs, seVectors, seProfile, answer, audit>>

ChangeProfile(m) ==
    /\ MayEdit /\ m # seProfile
    /\ seProfile' = m
    /\ Edited
    /\ UNCHANGED <<seBases, seDocs, seVectors, sePrefs, search, answer, audit>>

(***************************************************************************)
(* The statements                                                          *)
(***************************************************************************)

\* The full-text query knows neither the source nor the threshold.
TextHits(bases) ==
    {d \in SeDocs : /\ seDocs[d].live /\ seDocs[d].lexical
                    /\ seDocs[d].base \in bases \cap seBases}

\* A vector counts when it lies in the document's base, was made by the
\* model the version was sealed with, and has the query's dimension; two
\* models of one dimension are not told apart.
DenseHits(b) ==
    {d \in SeDocs : /\ seDocs[d].live /\ b \in seBases /\ seDocs[d].base = b
                    /\ seVectors[d].base = b
                    /\ seDocs[d].model \in SeModels
                    /\ seVectors[d].model = seDocs[d].model}

\* search_postgres_hybrid_pool binds the source thirteenth and the threshold
\* fourteenth, but its text casts $13 to real and matches $14 with the
\* source: no source of a document contains a threshold.
SourceMatches(d, threshold) == ~threshold

hybrid_pool(b, threshold) ==
    {d \in TextHits({b}) \cup DenseHits(b) : SourceMatches(d, threshold)}

(***************************************************************************)
(* A search                                                                *)
(***************************************************************************)

Goto(pc) == search' = [search EXCEPT !.pc = pc]

\* The entries that plan from the preferences.
Planned == {"literature", "tool", "chat"}

\* knowledge_retrieval_settings, and the window for a chat message: preferences
\* that cannot be opened, read or parsed count as the defaults.
Readings(reads) == IF reads THEN {sePrefs, Defaults} ELSE {Defaults}

\* The caller names the bases, deleted ones included, or leaves them to
\* postgres_knowledge_base_ids: the live ones.  An empty choice ends it.
\* search_literature reads its policy first.
Ask(entry, bases, source) ==
    /\ search.pc = "idle" /\ seUsed.searches < SeMaxSearches
    /\ bases # {}
    /\ \E read \in Readings(entry = "literature") :
          search' = [NoSearch EXCEPT !.pc = "asked", !.entry = entry,
                        !.left = bases, !.source = source, !.strict = read.strict,
                        !.misread = entry = "literature" /\ read # sePrefs,
                        !.steady = entry \in Planned /\ sePrefs.strict]
    /\ answer' = NoAnswer /\ audit' = NoAudit
    /\ seUsed' = [seUsed EXCEPT !.searches = @ + 1]
    /\ UNCHANGED <<seBases, seDocs, seVectors, sePrefs, seProfile>>

\* The agent's tools: search_literature gives no filters.
SearchLiterature(bases) == Ask("literature", bases, "none")
SearchTool(bases, source) == Ask("tool", bases, source)

\* A chat message with smart search on.
ChatSearch(bases, source) == Ask("chat", bases, source)

\* The HTTP interface, and the knowledge centre alike: filters, but neither
\* threshold nor policy.
HttpSearch(bases, source) == Ask("http", bases, source)

\* The readers of sections and standards search the text only.
ReadSection(bases) == Ask("section", bases, "none")
QueryStandard(bases) == Ask("standard", bases, "none")

PlanText ==
    /\ search.pc = "asked" /\ search.entry \in {"section", "standard"}
    /\ search' = [search EXCEPT !.pc = "text", !.reason = "unsupported"]
    /\ UNCHANGED <<seBases, seDocs, seVectors, sePrefs, seProfile, answer,
                   audit, seUsed>>

\* The request takes its threshold and policy from a second reading of the
\* preferences; search_literature keeps its first for the fallback.
PlanHybrid ==
    /\ search.pc = "asked" /\ search.entry \in Planned \cup {"http"}
    /\ \E read \in Readings(search.entry \in Planned) :
          search' = [search EXCEPT !.pc = "prepare", !.dense = TRUE,
                        !.threshold = read.threshold, !.forbids = read.strict,
                        !.misread = @ \/ read # sePrefs]
    /\ UNCHANGED <<seBases, seDocs, seVectors, sePrefs, seProfile, answer,
                   audit, seUsed>>

allows_embedding_fallback == ~search.forbids

Returned(mode, evidence, degraded) ==
    /\ answer' = [mode |-> mode, wanted |-> search.dense, degraded |-> degraded,
                  steady |-> search.steady, misread |-> search.misread,
                  evidence |-> evidence]
    /\ search' = NoSearch

\* An error ends the search, except that search_literature answers from the
\* local SQLite index unless its own reading of the policy was strict.  The
\* bases of PostgreSQL have no rows there.
Fails ==
    IF search.entry = "literature" /\ ~search.strict
    THEN Returned("local_fts", {}, TRUE)
    ELSE Returned("error", {}, FALSE)

\* Mutant: the policy is not asked before the text-only query.
DegradeSilently(reason) ==
    search' = [search EXCEPT !.pc = "text", !.reason = reason] /\ UNCHANGED answer

\* Dense retrieval is not to be had: the text alone, if the policy allows.
Degrade(reason) ==
    IF allows_embedding_fallback
    THEN /\ search' = [search EXCEPT !.pc = "text", !.reason = reason]
         /\ UNCHANGED answer
    ELSE Fails

\* No default embedding profile, one that cannot be used, or the provider.
PrepareEmbedding ==
    /\ search.pc = "prepare"
    /\ IF seProfile \in SeModels
       THEN Goto("embed") /\ UNCHANGED answer
       ELSE Degrade(IF seProfile = "none" THEN "credential" ELSE "configuration")
    /\ UNCHANGED <<seBases, seDocs, seVectors, sePrefs, seProfile, audit, seUsed>>

\* The provider answers a usable vector; or it fails, or the vector is
\* empty or not finite.
EmbedQuery ==
    /\ search.pc = "embed"
    /\ \/ Goto("hybrid") /\ UNCHANGED answer
       \/ \E reason \in {"provider", "malformed"} : Degrade(reason)
    /\ UNCHANGED <<seBases, seDocs, seVectors, sePrefs, seProfile, audit, seUsed>>

\* One statement per base.  A source given is cast to a number: it fails.
HybridBase(b) ==
    /\ search.pc = "hybrid" /\ b \in search.left
    /\ IF search.source # "none" THEN Fails
       ELSE /\ search' = [search EXCEPT !.left = @ \ {b},
                  !.pc = IF search.left = {b} THEN "rerank" ELSE "hybrid",
                  !.hits = @ \cup {[doc |-> d, base |-> b] :
                                   d \in hybrid_pool(b, search.threshold)}]
            /\ UNCHANGED answer
    /\ UNCHANGED <<seBases, seDocs, seVectors, sePrefs, seProfile, audit, seUsed>>

\* The reranker orders the hits, or they pass as they are; a document found
\* in two bases makes its answer malformed.  Either way all hits stay.
Rerank ==
    /\ search.pc = "rerank"
    /\ Goto("persist")
    /\ UNCHANGED <<seBases, seDocs, seVectors, sePrefs, seProfile, answer,
                   audit, seUsed>>

\* query_postgres_knowledge_with_pool_degradation: one text query over all
\* selected bases.
TextOnly ==
    /\ search.pc = "text"
    /\ search' = [search EXCEPT !.pc = "persist", !.left = {},
          !.hits = {[doc |-> d, base |-> seDocs[d].base] : d \in TextHits(search.left)}]
    /\ UNCHANGED <<seBases, seDocs, seVectors, sePrefs, seProfile, answer,
                   audit, seUsed>>

Reasons == {"credential", "configuration", "provider", "malformed", "unsupported"}

\* The pack is returned once its audit row is stored.
Persist ==
    /\ search.pc = "persist"
    /\ \/ /\ audit' = [form |-> "pack", evidence |-> search.hits]
          /\ Returned("pack", search.hits, search.reason \in Reasons)
       \/ Fails /\ UNCHANGED audit
    /\ UNCHANGED <<seBases, seDocs, seVectors, sePrefs, seProfile, seUsed>>

\* The commands that answer in one statement; the text and the hybrid one
\* store their hits as they are.
Answered(mode, b, hits) ==
    /\ search.pc = "idle" /\ seUsed.searches < SeMaxSearches
    /\ LET evidence == {[doc |-> d, base |-> b] : d \in hits} IN
       /\ answer' = [NoAnswer EXCEPT !.mode = mode, !.evidence = evidence]
       /\ audit' = IF mode = "vectors" THEN NoAudit
                   ELSE [form |-> "hits", evidence |-> evidence]
    /\ seUsed' = [seUsed EXCEPT !.searches = @ + 1]
    /\ UNCHANGED <<seBases, seDocs, seVectors, sePrefs, seProfile, search>>

\* It takes the filters of the others and does not read the source.
SearchText(b) == Answered("text", b, TextHits({b}))

SearchVectors(b) == Answered("vectors", b, DenseHits(b))

SearchHybrid(b) == Answered("hybrid", b, hybrid_pool(b, FALSE))

\* resolve_postgres_citation reads a stored item as a hit; an item of a pack
\* has the document's name under another key and no rank, and is refused.
resolve_citation(item) ==
    IF audit.form # "hits" THEN "unreadable"
    ELSE IF seDocs[item.doc].live THEN "active" ELSE "deleted"

SeNext ==
    \/ \E d \in SeDocs, b \in SeBases, s \in SeSources, l \in BOOLEAN :
          PublishDocument(d, b, s, l)
    \/ \E d \in SeDocs, m \in SeModels : StoreEmbeddings(d, m)
    \/ \E d \in SeDocs : EmbedDocument(d) \/ DeleteFound(d)
    \/ \E d \in SeDocs, b \in SeBases : MoveFound(d, b)
    \/ \E b \in SeBases : DropBase(b) \/ HybridBase(b)
    \/ \E p \in [strict : BOOLEAN, threshold : BOOLEAN] : SavePreferences(p)
    \/ \E m \in SeModels \cup {"none", "broken"} : ChangeProfile(m)
    \/ \E bs \in SUBSET SeBases, s \in SeSources \cup {"none"} :
          SearchTool(bs, s) \/ ChatSearch(bs, s) \/ HttpSearch(bs, s)
    \/ \E bs \in SUBSET SeBases :
          SearchLiterature(bs) \/ ReadSection(bs) \/ QueryStandard(bs)
    \/ PlanText \/ PlanHybrid \/ PrepareEmbedding \/ EmbedQuery
    \/ Rerank \/ TextOnly \/ Persist
    \/ \E b \in SeBases : SearchText(b) \/ SearchVectors(b) \/ SearchHybrid(b)

SeSpec == SeInit /\ [][SeNext]_seVars

(***************************************************************************)
(* Properties                                                              *)
(***************************************************************************)

\* A search that wants dense retrieval ends in an error when it is not to be
\* had, and not in an answer without it, when its caller follows the preferences
\* and their policy was strict from the question to the answer: every early
\* exit of the pipeline and the second attempt of search_literature honour
\* degradation_policy, whichever of the steps fails.  The one exception is a
\* search that could not read the preferences.
StrictPolicyHolds ==
    answer.degraded /\ answer.wanted /\ answer.steady => answer.misread

=============================================================================
